----------------------------- MODULE PmmProofs -----------------------------
(***************************************************************************)
(* For every memory map, every content of RAM at power-on and every        *)
(* sequence of allocations and frees: no frame is handed out twice, and    *)
(* none of the kernel's own memory ever is; the count of used frames moves *)
(* with the bitmap; the scan for contiguous frames finds the lowest run.   *)
(***************************************************************************)
EXTENDS Pmm, DataLemmas, TLAPS

(* Rounding to frames: the frame an address lies in, and the first frame   *)
(* that starts at or above it.                                             *)
LEMMA RoundDown ==
  ASSUME NEW a \in Nat, NEW f \in Nat, NEW z \in Nat \ {0}, a < (f + 1) * z
  PROVE  a \div z <= f
  <1> DEFINE q == a \div z
  <1>1. q \in Nat /\ a >= q * z
    OBVIOUS
  <1>2. ASSUME q >= f + 1 PROVE FALSE
    <2>1. q * z >= (f + 1) * z
      BY <1>1, <1>2
    <2> QED BY <2>1, <1>1
  <1> QED BY <1>1, <1>2

(* Rounding an end up reaches at least that far.                           *)
LEMMA RoundUp ==
  ASSUME NEW a \in Nat, NEW f \in Nat, NEW z \in Nat \ {0}, f * z < a
  PROVE  f < (a + z - 1) \div z
  <1> DEFINE q == (a + z - 1) \div z
  <1>1. q \in Nat /\ a + z - 1 < (q + 1) * z
    OBVIOUS
  <1>2. ASSUME q <= f PROVE FALSE
    <2>1. (q + 1) * z <= (f + 1) * z
      BY <1>1, <1>2
    <2>2. (f + 1) * z = f * z + z
      OBVIOUS
    <2> QED BY <2>1, <2>2, <1>1
  <1> QED BY <1>1, <1>2

(* pmm_mark_region marks every tracked frame that overlaps the region.     *)
LEMMA RegionCovers ==
  ASSUME NEW base \in Nat, NEW size \in Nat, NEW total, NEW f \in 0 .. total - 1,
         Overlaps(f, base, size)
  PROVE  f \in RegionFrames(base, size, total)
  <1>1. f \in Nat /\ PMM_FRAME_SIZE \in Nat \ {0} /\ size > 0
    BY PmmAssumption DEF Overlaps
  <1>2. f * PMM_FRAME_SIZE < base + size /\ base < (f + 1) * PMM_FRAME_SIZE
    BY DEF Overlaps, PMM_FRAME_TO_ADDR
  <1>3. base \div PMM_FRAME_SIZE <= f
    BY <1>1, <1>2, RoundDown
  <1>4. f < (base + size + PMM_FRAME_SIZE - 1) \div PMM_FRAME_SIZE
    <2>1. base + size \in Nat
      OBVIOUS
    <2> QED BY <1>1, <1>2, <2>1, RoundUp
  <1> QED BY <1>3, <1>4 DEF RegionFrames, PMM_ADDR_TO_FRAME

(* The last marks of pmm_init cover all of the kernel's memory, whatever   *)
(* the passes over the map did before.                                     *)
LEMMA MarkKernelCovers ==
  ASSUME NEW m, NEW total, BitmapBytes(total) \in Nat, NEW f \in 0 .. total - 1,
         \/ Overlaps(f, 0, KernelEnd)
         \/ Overlaps(f, KernelEnd, BitmapBytes(total))
         \/ Overlaps(f, VGA_BASE, VGA_SIZE)
  PROVE  f \in MarkKernel(m, total).bits
  <1>1. MarkKernel(m, total).bits =
          (((m.bits \cup RegionFrames(0, LOW_END, total))
             \cup RegionFrames(LOW_END, KernelEnd - LOW_END, total))
             \cup RegionFrames(KernelEnd, BitmapBytes(total), total))
             \cup RegionFrames(VGA_BASE, VGA_SIZE, total)
    BY DEF MarkKernel, pmm_mark_region, MarkUsed
  <1>2. /\ LOW_END \in Nat \ {0} /\ KernelEnd \in Nat /\ KernelEnd - LOW_END \in Nat
        /\ VGA_BASE \in Nat /\ VGA_SIZE \in Nat
    BY PmmAssumption
  <1>3. CASE Overlaps(f, 0, KernelEnd)
    <2>1. Overlaps(f, 0, LOW_END) \/ Overlaps(f, LOW_END, KernelEnd - LOW_END)
      <3> DEFINE a == PMM_FRAME_TO_ADDR(f)
                 b == PMM_FRAME_TO_ADDR(f + 1)
      <3>1. a \in Int /\ b \in Int /\ a < KernelEnd /\ 0 < b
        BY <1>2, <1>3, PmmAssumption DEF Overlaps, PMM_FRAME_TO_ADDR
      <3>2. a < b
        BY PmmAssumption DEF PMM_FRAME_TO_ADDR
      <3> HIDE DEF a, b
      <3>3. a < LOW_END \/ (a < LOW_END + (KernelEnd - LOW_END) /\ LOW_END < b /\ KernelEnd - LOW_END > 0)
        BY <3>1, <3>2, <1>2
      <3>4. (a < 0 + LOW_END /\ 0 < b) \/ (a < LOW_END + (KernelEnd - LOW_END) /\ LOW_END < b /\ KernelEnd - LOW_END > 0)
        BY <3>1, <3>3, <1>2
      <3> QED BY <3>4, <1>2 DEF Overlaps, a, b
    <2> QED BY <2>1, <1>1, <1>2, RegionCovers
  <1>4. CASE Overlaps(f, KernelEnd, BitmapBytes(total))
    BY <1>1, <1>2, <1>4, RegionCovers
  <1>5. CASE Overlaps(f, VGA_BASE, VGA_SIZE)
    BY <1>1, <1>2, <1>5, RegionCovers
  <1> QED BY <1>3, <1>4, <1>5

-----------------------------------------------------------------------------
(* Until pmm_init the allocator is empty; that is why nobody can hold a    *)
(* frame that pmm_init then marks free.                                    *)
EmptyBefore == phase = "idt" => total_frames = 0 /\ owned = {}

IInv == EmptyBefore /\ HeldIsMarked /\ KernelNeverGiven

(* Taking a run of free frames.                                            *)
LEMMA TakeKeeps ==
  ASSUME HeldIsMarked, NEW n, Take(n), total_frames' = total_frames,
         KernelFrames \subseteq bitmap, owned \cap KernelFrames = {}
  PROVE  /\ HeldIsMarked' /\ Free # {}
         /\ KernelFrames' \subseteq bitmap' /\ owned' \cap KernelFrames' = {}
  <1>1. PICK s \in Runs(n) : /\ owned' = owned \cup (s .. s + n - 1)
                             /\ bitmap' = bitmap \cup (s .. s + n - 1)
    BY DEF Take
  <1>2. s .. s + n - 1 \subseteq Frames \ bitmap /\ s \in Free
    BY DEF Runs, Free
  <1>3. Frames' = Frames /\ KernelFrames' = KernelFrames
    BY DEF Frames, KernelFrames
  <1> QED BY <1>1, <1>2, <1>3 DEF HeldIsMarked

(* Freeing frames that a caller holds.                                     *)
LEMMA FreeKeeps ==
  ASSUME HeldIsMarked, NEW block, block \subseteq owned,
         KernelFrames \subseteq bitmap, owned \cap KernelFrames = {},
         bitmap' = bitmap \ block, owned' = owned \ block, total_frames' = total_frames
  PROVE  HeldIsMarked' /\ KernelFrames' \subseteq bitmap' /\ owned' \cap KernelFrames' = {}
  <1>1. Frames' = Frames /\ KernelFrames' = KernelFrames
    BY DEF Frames, KernelFrames
  <1> QED BY <1>1 DEF HeldIsMarked

(* Before pmm_init nobody holds a frame.                                   *)
LEMMA InitIInv == Init => IInv
  BY DEF Init, IInv, EmptyBefore, HeldIsMarked, KernelNeverGiven

(* Every operation, ist_alloc and pmm_init included, preserves the         *)
(* invariant.                                                              *)
LEMMA NextIInv == IInv /\ [Next]_vars => IInv'
  <1> SUFFICES ASSUME IInv, [Next]_vars PROVE IInv'
    OBVIOUS
  <1>0. phase = "idt" => Frames = {} /\ owned = {} /\ total_frames = 0
    BY DEF IInv, EmptyBefore, Frames
  <1>1. CASE ist_alloc
    <2>1. phase = "idt" /\ phase' = "idt" /\ total_frames' = total_frames /\ Free = {}
      BY <1>0, <1>1 DEF ist_alloc, Free
    <2>2. owned' = owned
      BY <1>1, <2>1 DEF ist_alloc
    <2>3. owned' = {}
      BY <1>0, <2>1, <2>2
    <2> QED BY <1>0, <2>1, <2>3 DEF IInv, EmptyBefore, HeldIsMarked, KernelNeverGiven
  <1>2. ASSUME NEW map \in MemoryMaps, pmm_init(map) PROVE IInv'
    <2>1. PICK max_addr \in Ends(map) :
            /\ total_frames' = TotalFrames(max_addr)
            /\ \E m : bitmap' = MarkKernel(m, TotalFrames(max_addr)).bits
      BY <1>2 DEF pmm_init
    <2> DEFINE total == TotalFrames(max_addr)
    <2>2. owned' = {} /\ phase' = "up" /\ total_frames' = total
      BY <1>0, <1>2, <2>1 DEF pmm_init
    <2>3. BitmapBytes(total) \in Nat
      <3>1. map \in Seq(Entries)
        BY PmmAssumption
      <3>2. max_addr \in Nat
        <4>1. \A i \in DOMAIN map : map[i] \in Entries
          BY <3>1
        <4>2. \A i \in DOMAIN map : map[i].base \in Nat /\ map[i].len \in Nat
          BY <4>1 DEF Entries
        <4>3. CASE max_addr = 0
          BY <4>3
        <4>4. CASE \E i \in DOMAIN map : max_addr = map[i].base + map[i].len
          BY <4>2, <4>4
        <4> QED BY <4>3, <4>4 DEF Ends
      <3>3. total \in Nat
        BY <3>2, PmmAssumption DEF TotalFrames
      <3> HIDE DEF total
      <3> QED BY <3>3, PmmAssumption DEF BitmapBytes
    <2>5. PICK m : bitmap' = MarkKernel(m, total).bits
      BY <2>1
    <2> HIDE DEF total
    <2>4. KernelFrames' \subseteq bitmap'
      <3> SUFFICES ASSUME NEW f \in KernelFrames' PROVE f \in bitmap'
        OBVIOUS
      <3>1. /\ f \in 0 .. total - 1 /\ BitmapBytes(total) \in Nat
            /\ \/ Overlaps(f, 0, KernelEnd)
               \/ Overlaps(f, KernelEnd, BitmapBytes(total))
               \/ Overlaps(f, VGA_BASE, VGA_SIZE)
        BY <2>2, <2>3 DEF KernelFrames, Frames
      <3> QED BY <3>1, <2>5, MarkKernelCovers
    <2> QED BY <2>2, <2>4 DEF IInv, EmptyBefore, HeldIsMarked, KernelNeverGiven
  <1>3. CASE pmm_init_no_map
    <2>1. phase' = "up" /\ owned' = {} /\ Frames' = {}
      BY <1>0, <1>3 DEF pmm_init_no_map, Frames
    <2> QED BY <2>1 DEF IInv, EmptyBefore, HeldIsMarked, KernelNeverGiven, KernelFrames
  <1>4. CASE pmm_alloc_frame \/ \E n \in Counts : pmm_alloc_frames(n)
    <2>1. PICK n : Take(n)
      BY <1>4 DEF pmm_alloc_frame, pmm_alloc_frames
    <2>2. phase = "up" /\ phase' = "up" /\ total_frames' = total_frames
      BY <1>4 DEF pmm_alloc_frame, pmm_alloc_frames
    <2> QED BY <2>1, <2>2, TakeKeeps DEF IInv, EmptyBefore, KernelNeverGiven
  <1>5. ASSUME NEW f, pmm_free_frame(f) PROVE IInv'
    <2>1. /\ phase = "up" /\ phase' = "up" /\ total_frames' = total_frames /\ {f} \subseteq owned
          /\ bitmap' = bitmap \ {f} /\ owned' = owned \ {f}
      BY <1>5 DEF pmm_free_frame, Release
    <2> QED BY <2>1, FreeKeeps DEF IInv, EmptyBefore, KernelNeverGiven
  <1>6. ASSUME NEW f, NEW n, pmm_free_frames(f, n) PROVE IInv'
    <2>1. /\ phase = "up" /\ phase' = "up" /\ total_frames' = total_frames
          /\ f .. f + n - 1 \subseteq owned
          /\ bitmap' = bitmap \ (f .. f + n - 1) /\ owned' = owned \ (f .. f + n - 1)
      BY <1>6 DEF pmm_free_frames
    <2> QED BY <2>1, FreeKeeps DEF IInv, EmptyBefore, KernelNeverGiven
  <1>7. CASE UNCHANGED vars
    BY <1>7 DEF vars, IInv, EmptyBefore, HeldIsMarked, KernelNeverGiven, KernelFrames, Frames
  <1>8. CASE \/ \E n \in Counts : AllocFails(n)
             \/ \E f \in 0 .. total_frames : FreeIgnored(f)
    BY <1>7, <1>8 DEF AllocFails, FreeIgnored
  <1> QED
    BY <1>1, <1>2, <1>3, <1>4, <1>5, <1>6, <1>7, <1>8 DEF Next

(* No frame is handed to two callers: what a caller holds stays marked     *)
(* until it frees it.                                                      *)
THEOREM NoDoubleHandOut == Spec => []HeldIsMarked
  <1>1. IInv => HeldIsMarked BY DEF IInv
  <1> QED BY <1>1, InitIInv, NextIInv, PTL DEF Spec

(* The kernel's image, BIOS memory, the bitmap and the VGA buffer are never*)
(* handed out, for every memory map.                                       *)
THEOREM KernelMemorySafe == Spec => []KernelNeverGiven
  <1>1. IInv => KernelNeverGiven BY DEF IInv
  <1> QED BY <1>1, InitIInv, NextIInv, PTL DEF Spec
-----------------------------------------------------------------------------
(* Remainders keep differences.                                            *)
LEMMA ModDifference ==
  ASSUME NEW a \in Int, NEW b \in Int, NEW c \in Nat \ {0}
  PROVE  (((a + b) % c) - a) % c = b % c
  <1> DEFINE q == (a + b) \div c
             r == (a + b) % c
             p == b \div c
             d == b % c
             e == (r - a) % c
             k == (r - a) \div c
  <1>1. q \in Int /\ r \in 0 .. c - 1 /\ a + b = q * c + r
    OBVIOUS
  <1>2. p \in Int /\ d \in 0 .. c - 1 /\ b = p * c + d
    OBVIOUS
  <1> HIDE DEF q, r, p, d
  <1>3. k \in Int /\ e \in 0 .. c - 1 /\ r - a = k * c + e
    BY <1>1
  <1> HIDE DEF k, e
  <1>4. r - a = b - q * c
    BY <1>1
  <1>5. (p - q - k) * c = e - d
    BY <1>1, <1>2, <1>3, <1>4
  <1>6. p - q - k = 0
    <2> DEFINE z == p - q - k
    <2>1. z \in Int /\ z * c = e - d /\ e - d < c /\ -c < e - d
      BY <1>1, <1>2, <1>3, <1>5
    <2> HIDE DEF z
    <2>2. ASSUME z >= 1 PROVE FALSE
      <3>1. z * c >= c
        BY <2>1, <2>2
      <3> QED BY <3>1, <2>1
    <2>3. ASSUME z <= -1 PROVE FALSE
      <3>1. z * c <= -c
        BY <2>1, <2>3
      <3> QED BY <3>1, <2>1
    <2> QED BY <2>1, <2>2, <2>3 DEF z
  <1>7. e = d
    BY <1>1, <1>2, <1>3, <1>5, <1>6
  <1> QED BY <1>7 DEF e, d, r

(* A bitmap of total frames and its counter.                               *)
Maps(total) == [bits : SUBSET (0 .. total - 1), used : 0 .. COUNTER - 1]

(* Marking and freeing keep it one.                                        *)
LEMMA MarkType ==
  ASSUME NEW total \in Nat, NEW m \in Maps(total), NEW frames \in SUBSET (0 .. total - 1)
  PROVE  MarkUsed(m, frames) \in Maps(total) /\ MarkFree(m, frames) \in Maps(total)
  <1>1. m.bits \in SUBSET (0 .. total - 1) /\ m.used \in Int /\ COUNTER \in Nat \ {0}
    BY PmmAssumption DEF Maps
  <1>2. IsFiniteSet(0 .. total - 1)
    BY FS_Interval
  <1>3. Cardinality(frames \ m.bits) \in Nat /\ Cardinality(frames \cap m.bits) \in Nat
    <2>1. frames \ m.bits \in SUBSET (0 .. total - 1) /\ frames \cap m.bits \in SUBSET (0 .. total - 1)
      OBVIOUS
    <2>2. IsFiniteSet(frames \ m.bits) /\ IsFiniteSet(frames \cap m.bits)
      BY <1>2, <2>1, FS_Subset
    <2> QED BY <2>2, FS_CardinalityType
  <1>4. /\ (m.used + Cardinality(frames \ m.bits)) % COUNTER \in 0 .. COUNTER - 1
        /\ (m.used - Cardinality(frames \cap m.bits)) % COUNTER \in 0 .. COUNTER - 1
    <2>1. /\ m.used + Cardinality(frames \ m.bits) \in Int
          /\ m.used - Cardinality(frames \cap m.bits) \in Int
      BY <1>1, <1>3
    <2> QED BY <2>1, <1>1, ModRange
  <1> QED BY <1>1, <1>4 DEF MarkUsed, MarkFree, Maps

(* The entries of a map are read in turn: the recursion is well defined    *)
(* and ends in a bitmap with its counter.                                  *)
LEMMA ApplyMapType ==
  ASSUME NEW total \in Nat, NEW m \in Maps(total), NEW map \in Seq(Entries)
  PROVE  ApplyMap(m, map, total) \in Maps(total)
  <1> DEFINE n == Len(map)
             Read(i, x) == IF map[i].available
                           THEN MarkFree(x, AvailableFrames(map[i], total))
                           ELSE pmm_mark_region(x, map[i].base, map[i].len, total)
             Eq(g) == g = [i \in 0 .. n |-> IF i = 0 THEN m
                            ELSE IF map[i].available
                            THEN MarkFree(g[i - 1], AvailableFrames(map[i], total))
                            ELSE pmm_mark_region(g[i - 1], map[i].base, map[i].len, total)]
             after == CHOOSE g : Eq(g)
             step == [i \in 1 .. n |-> [x \in Maps(total) |-> Read(i, x)]]
  <1>1. n \in Nat
    OBVIOUS
  <1>2. \A i \in 1 .. n, x \in Maps(total) : Read(i, x) \in Maps(total)
    <2> TAKE i \in 1 .. n, x \in Maps(total)
    <2>1. /\ AvailableFrames(map[i], total) \in SUBSET (0 .. total - 1)
          /\ RegionFrames(map[i].base, map[i].len, total) \in SUBSET (0 .. total - 1)
      BY DEF AvailableFrames, RegionFrames
    <2> QED BY <2>1, MarkType DEF pmm_mark_region
  <1> HIDE DEF Read, n
  <1>3. step \in [1 .. n -> [Maps(total) -> Maps(total)]]
    BY <1>2
  <1>4. PICK f \in [0 .. n -> Maps(total)] : f[0] = m /\ \A i \in 1 .. n : f[i] = step[i][f[i - 1]]
    <2> DEFINE X == Maps(total)
    <2>1. m \in X /\ step \in Steps(n, X)
      BY <1>3 DEF Steps
    <2> HIDE DEF step, X
    <2>2. \E f : Computes(f, n, X, m, step)
      BY <1>1, <2>1, Recursion
    <2> QED BY <2>2 DEF Computes, X
  <1>5. \A i \in 1 .. n : f[i] = Read(i, f[i - 1])
    <2> TAKE i \in 1 .. n
    <2>1. i - 1 \in 0 .. n /\ f[i - 1] \in Maps(total)
      BY <1>1
    <2> QED BY <2>1, <1>4
  <1>6. Eq(f)
    <2>1. \A i \in 0 .. n : i # 0 => i \in 1 .. n
      BY <1>1
    <2>2. f = [i \in 0 .. n |-> f[i]]
      OBVIOUS
    <2> QED BY <1>4, <1>5, <2>1, <2>2 DEF Read
  <1>7. Eq(after)
    <2> HIDE DEF Eq
    <2> QED BY <1>6
  <1> HIDE DEF after
  <1>8. after[0] = m /\ \A i \in 1 .. n : after[i] = Read(i, after[i - 1])
    <2>1. 0 \in 0 .. n /\ \A i \in 1 .. n : i \in 0 .. n /\ i # 0
      BY <1>1
    <2> QED BY <1>7, <2>1 DEF Read
  <1>9. after[n] \in Maps(total)
    <2> DEFINE T == {i \in 0 .. n : after[i] \in Maps(total)}
    <2>1. 0 \in T
      BY <1>1, <1>8
    <2>2. \A i \in 1 .. n : i - 1 \in T => i \in T
      BY <1>1, <1>2, <1>8
    <2>3. n \in 0 .. n
      BY <1>1
    <2> HIDE DEF T
    <2>4. n \in T
      BY <1>1, <2>1, <2>2, <2>3, Induct
    <2> QED BY <2>4 DEF T
  <1>10. ApplyMap(m, map, total) = after[n]
    BY DEF ApplyMap, after, n
  <1> QED BY <1>9, <1>10

(* The bitmap pmm_init leaves.                                             *)
LEMMA MarkKernelType ==
  ASSUME NEW total \in Nat, NEW m \in Maps(total)
  PROVE  MarkKernel(m, total) \in Maps(total)
  <1>1. ASSUME NEW x \in Maps(total), NEW base, NEW size
        PROVE  pmm_mark_region(x, base, size, total) \in Maps(total)
    <2>1. RegionFrames(base, size, total) \in SUBSET (0 .. total - 1)
      BY DEF RegionFrames
    <2> QED BY <2>1, MarkType DEF pmm_mark_region
  <1> QED BY <1>1 DEF MarkKernel

(* The highest address of a map, and how many frames there are below it.   *)
LEMMA TotalType ==
  ASSUME NEW map \in MemoryMaps, NEW max_addr \in Ends(map)
  PROVE  TotalFrames(max_addr) \in Nat /\ map \in Seq(Entries)
  <1>1. map \in Seq(Entries)
    BY PmmAssumption
  <1>2. \A i \in DOMAIN map : map[i] \in Entries
    BY <1>1
  <1>3. \A i \in DOMAIN map : map[i].base \in Nat /\ map[i].len \in Nat
    BY <1>2 DEF Entries
  <1>4. max_addr \in Nat
    BY <1>3 DEF Ends
  <1> QED BY <1>1, <1>4, PmmAssumption DEF TotalFrames

(* A run of free frames.                                                   *)
LEMMA RunType ==
  ASSUME TypeOK, NEW n \in Nat, NEW s \in Runs(n)
  PROVE  s \in Nat /\ s .. s + n - 1 \subseteq Nat /\ s .. s + n - 1 \subseteq Free
  BY DEF TypeOK, Runs, Free, Frames

(* Every operation keeps the types.                                        *)
LEMMA NextTypeOK == TypeOK /\ [Next]_vars => TypeOK'
  <1> SUFFICES ASSUME TypeOK, [Next]_vars PROVE TypeOK'
    OBVIOUS
  <1>0. COUNTER \in Nat \ {0} /\ Counts \subseteq Nat /\ used_frames \in Int
        /\ total_frames \in Nat /\ Frames \subseteq Nat
    BY PmmAssumption DEF TypeOK, Frames
  <1>1. ASSUME NEW n \in Nat, Take(n)
        PROVE  owned' \subseteq Nat /\ bitmap' \subseteq Nat /\ used_frames' \in 0 .. COUNTER - 1
    <2>1. PICK s \in Runs(n) : /\ owned' = owned \cup (s .. s + n - 1)
                               /\ bitmap' = bitmap \cup (s .. s + n - 1)
                               /\ used_frames' = (used_frames + n) % COUNTER
      BY <1>1 DEF Take
    <2>2. used_frames' \in 0 .. COUNTER - 1
      BY <2>1, <1>0, ModRange
    <2> QED BY <2>1, <2>2, RunType DEF TypeOK
  <1>2. CASE ist_alloc
    <2>1. phase' = phase /\ total_frames' = total_frames
      BY <1>2 DEF ist_alloc
    <2>2. CASE Free = {}
      <3>1. ist' = Append(ist, 0) /\ bitmap' = bitmap /\ used_frames' = used_frames /\ owned' = owned
        BY <1>2, <2>2 DEF ist_alloc
      <3>2. ist' \in Seq(Nat)
        BY <3>1 DEF TypeOK
      <3> QED BY <2>1, <3>1, <3>2 DEF TypeOK
    <2>3. CASE Free # {}
      <3>1. Take(1) /\ \E s \in bitmap' \ bitmap : ist' = Append(ist, PMM_FRAME_TO_ADDR(s))
        BY <1>2, <2>3 DEF ist_alloc
      <3>2. owned' \subseteq Nat /\ bitmap' \subseteq Nat /\ used_frames' \in 0 .. COUNTER - 1
        BY <3>1, <1>1
      <3>3. PICK s \in Nat : ist' = Append(ist, PMM_FRAME_TO_ADDR(s))
        BY <3>1, <3>2
      <3>4. PMM_FRAME_TO_ADDR(s) \in Nat
        BY PmmAssumption DEF PMM_FRAME_TO_ADDR
      <3>5. ist' \in Seq(Nat)
        BY <3>3, <3>4 DEF TypeOK
      <3> QED BY <2>1, <3>2, <3>5 DEF TypeOK
    <2> QED BY <2>2, <2>3
  <1>3. ASSUME NEW map \in MemoryMaps, pmm_init(map) PROVE TypeOK'
    <2>1. PICK max_addr \in Ends(map) :
            LET total == TotalFrames(max_addr)
                ram   == [bits |-> bitmap \cap 0 .. total - 1, used |-> used_frames]
                early == pmm_mark_region(ram, KernelEnd, BitmapBytes(total), total)
                final == MarkKernel(ApplyMap(early, map, total), total)
            IN  /\ phase' = "up" /\ total_frames' = total /\ bitmap' = final.bits
                /\ used_frames' = final.used /\ UNCHANGED <<ist, owned>>
      BY <1>3 DEF pmm_init
    <2> DEFINE total == TotalFrames(max_addr)
               ram   == [bits |-> bitmap \cap 0 .. total - 1, used |-> used_frames]
               early == pmm_mark_region(ram, KernelEnd, BitmapBytes(total), total)
               final == MarkKernel(ApplyMap(early, map, total), total)
    <2>2. total \in Nat /\ map \in Seq(Entries)
      BY TotalType
    <2> HIDE DEF total
    <2>3. ram \in Maps(total)
      BY DEF Maps, TypeOK
    <2> HIDE DEF ram
    <2>4. early \in Maps(total)
      <3>1. RegionFrames(KernelEnd, BitmapBytes(total), total) \in SUBSET (0 .. total - 1)
        BY DEF RegionFrames
      <3> QED BY <2>2, <2>3, <3>1, MarkType DEF pmm_mark_region
    <2> HIDE DEF early
    <2>5. final \in Maps(total)
      BY <2>2, <2>4, ApplyMapType, MarkKernelType
    <2>6. /\ phase' = "up" /\ total_frames' = total /\ bitmap' = final.bits
          /\ used_frames' = final.used /\ ist' = ist /\ owned' = owned
      BY <2>1 DEF total, ram, early
    <2> HIDE DEF final
    <2>7. bitmap' \subseteq Nat /\ used_frames' \in 0 .. COUNTER - 1
      BY <2>2, <2>5, <2>6 DEF Maps
    <2> QED BY <2>2, <2>6, <2>7 DEF TypeOK
  <1>4. CASE pmm_init_no_map
    BY <1>4 DEF pmm_init_no_map, TypeOK
  <1>5. CASE pmm_alloc_frame \/ \E n \in Counts : pmm_alloc_frames(n)
    <2>1. PICK n \in Nat : Take(n)
      BY <1>0, <1>5 DEF pmm_alloc_frame, pmm_alloc_frames
    <2>2. phase' = phase /\ total_frames' = total_frames /\ ist' = ist
      BY <1>5 DEF pmm_alloc_frame, pmm_alloc_frames
    <2> QED BY <2>1, <2>2, <1>1 DEF TypeOK
  <1>6. ASSUME NEW f, pmm_free_frame(f) PROVE TypeOK'
    <2>1. used_frames' = (used_frames - 1) % COUNTER
      BY <1>6 DEF pmm_free_frame, Release
    <2>2. used_frames' \in 0 .. COUNTER - 1
      BY <2>1, <1>0, ModRange
    <2> QED BY <1>6, <2>2 DEF pmm_free_frame, Release, TypeOK
  <1>7. ASSUME NEW f, NEW n \in Counts, pmm_free_frames(f, n) PROVE TypeOK'
    <2>1. used_frames' = (used_frames - n) % COUNTER
      BY <1>7 DEF pmm_free_frames
    <2>2. used_frames' \in 0 .. COUNTER - 1
      BY <2>1, <1>0, ModRange
    <2> QED BY <1>7, <2>2 DEF pmm_free_frames, TypeOK
  <1>8. CASE UNCHANGED vars
    BY <1>8 DEF vars, TypeOK
  <1>9. CASE \/ \E n \in Counts : AllocFails(n)
             \/ \E f \in 0 .. total_frames : FreeIgnored(f)
    BY <1>8, <1>9 DEF AllocFails, FreeIgnored
  <1> QED
    BY <1>2, <1>3, <1>4, <1>5, <1>6, <1>7, <1>8, <1>9 DEF Next

(* The types hold throughout; in particular the counter, which pmm_init    *)
(* starts from what RAM happens to hold, never leaves its width.           *)
THEOREM TypesOK == Spec => []TypeOK
  <1>1. Init => TypeOK
    BY PmmAssumption DEF Init, TypeOK
  <1> QED BY <1>1, NextTypeOK, PTL DEF Spec
-----------------------------------------------------------------------------
(* The step of CountFollowsBits.                                           *)
Follows == phase = "up" => (used_frames' - used_frames) % COUNTER
                           = (Cardinality(Free) - Cardinality(Free')) % COUNTER

(* The set of free frames is finite.                                       *)
LEMMA FreeFinite ==
  ASSUME TypeOK
  PROVE  IsFiniteSet(Free) /\ Cardinality(Free) \in Nat
  <1>1. IsFiniteSet(Frames)
    BY FS_Interval DEF Frames, TypeOK
  <1>2. Free \in SUBSET Frames
    BY DEF Free
  <1> QED BY <1>1, <1>2, FS_Subset, FS_CardinalityType

(* Taking n frames out of a finite set, or putting n new ones in.          *)
LEMMA TakeOut ==
  ASSUME NEW F, IsFiniteSet(F), NEW s \in Nat, NEW n \in Nat, s .. s + n - 1 \subseteq F
  PROVE  Cardinality(F \ (s .. s + n - 1)) = Cardinality(F) - n
  <1> DEFINE B == s .. s + n - 1
  <1>1. IsFiniteSet(B) /\ Cardinality(B) = n
    <2>1. s + n - 1 \in Int /\ (IF s > s + n - 1 THEN 0 ELSE (s + n - 1) - s + 1) = n
      OBVIOUS
    <2> QED BY <2>1, FS_Interval
  <1>2. F \cap B = B
    OBVIOUS
  <1> HIDE DEF B
  <1>3. Cardinality(F \ B) = Cardinality(F) - Cardinality(F \cap B)
    BY FS_Difference
  <1> QED BY <1>1, <1>2, <1>3 DEF B

(* An allocation moves the counter by the frames it takes.                 *)
LEMMA TakeCounts ==
  ASSUME TypeOK, TypeOK', NEW n \in Nat, Take(n), total_frames' = total_frames
  PROVE  Follows
  <1>1. PICK s \in Runs(n) : /\ bitmap' = bitmap \cup (s .. s + n - 1)
                             /\ used_frames' = (used_frames + n) % COUNTER
    BY DEF Take
  <1>2. s \in Nat /\ s .. s + n - 1 \subseteq Free
    BY RunType
  <1>3. Free' = Free \ (s .. s + n - 1)
    BY <1>1 DEF Free, Frames
  <1>4. Cardinality(Free') = Cardinality(Free) - n /\ Cardinality(Free) \in Nat
    BY <1>2, <1>3, FreeFinite, TakeOut
  <1>5. Cardinality(Free) - Cardinality(Free') = n
    BY <1>4
  <1>6. (used_frames' - used_frames) % COUNTER = n % COUNTER
    <2>1. used_frames \in Int /\ n \in Int /\ COUNTER \in Nat \ {0}
      BY PmmAssumption DEF TypeOK
    <2> QED BY <1>1, <2>1, ModDifference
  <1> QED BY <1>5, <1>6 DEF Follows

(* A free moves it back.                                                   *)
LEMMA FreeCounts ==
  ASSUME TypeOK, TypeOK', NEW s \in Nat, NEW n \in Nat,
         s .. s + n - 1 \subseteq Frames \cap bitmap, total_frames' = total_frames,
         bitmap' = bitmap \ (s .. s + n - 1), used_frames' = (used_frames - n) % COUNTER
  PROVE  Follows
  <1>1. Free = Free' \ (s .. s + n - 1) /\ s .. s + n - 1 \subseteq Free'
    BY DEF Free, Frames
  <1>2. IsFiniteSet(Free') /\ Cardinality(Free') \in Nat
    <2>1. IsFiniteSet(Frames')
      BY FS_Interval DEF Frames, TypeOK
    <2>2. Free' \in SUBSET (Frames')
      BY DEF Free
    <2> QED BY <2>1, <2>2, FS_Subset, FS_CardinalityType
  <1>3. Cardinality(Free) = Cardinality(Free') - n
    BY <1>1, <1>2, TakeOut
  <1>4. Cardinality(Free) - Cardinality(Free') = -n
    BY <1>2, <1>3
  <1>5. (used_frames' - used_frames) % COUNTER = (-n) % COUNTER
    <2>1. used_frames' = (used_frames + (-n)) % COUNTER /\ used_frames \in Int /\ -n \in Int
          /\ COUNTER \in Nat \ {0}
      BY PmmAssumption DEF TypeOK
    <2> QED BY <2>1, ModDifference
  <1> QED BY <1>4, <1>5 DEF Follows

(* Single and multiple allocations and frees, refused requests and ignored *)
(* frees move the counter by exactly the bits they set or clear, modulo    *)
(* its width.                                                              *)
THEOREM CounterExact == Spec => CountFollowsBits
  <1>1. TypeOK /\ TypeOK' /\ IInv /\ [Next]_vars => [Follows]_vars
    <2> SUFFICES ASSUME TypeOK, TypeOK', IInv, Next, phase = "up" PROVE Follows
      BY DEF Follows
    <2>1. CASE pmm_alloc_frame \/ \E n \in Counts : pmm_alloc_frames(n)
      <3>1. PICK n \in Nat : Take(n)
        BY <2>1, PmmAssumption DEF pmm_alloc_frame, pmm_alloc_frames
      <3>2. total_frames' = total_frames
        BY <2>1 DEF pmm_alloc_frame, pmm_alloc_frames
      <3> QED BY <3>1, <3>2, TakeCounts
    <2>2. ASSUME NEW f \in 0 .. total_frames, pmm_free_frame(f) PROVE Follows
      <3>1. /\ f \in Nat /\ f .. f + 1 - 1 = {f} /\ f \in Frames \cap bitmap
            /\ total_frames' = total_frames
            /\ bitmap' = bitmap \ {f} /\ used_frames' = (used_frames - 1) % COUNTER
        BY <2>2 DEF pmm_free_frame, Release, TypeOK
      <3> QED BY <3>1, FreeCounts
    <2>3. ASSUME NEW f \in owned, NEW n \in Counts, pmm_free_frames(f, n) PROVE Follows
      <3>1. /\ f \in Nat /\ n \in Nat /\ f .. f + n - 1 \subseteq owned
            /\ total_frames' = total_frames
            /\ bitmap' = bitmap \ (f .. f + n - 1) /\ used_frames' = (used_frames - n) % COUNTER
        BY <2>3, PmmAssumption DEF pmm_free_frames, TypeOK
      <3>2. f .. f + n - 1 \subseteq Frames \cap bitmap
        BY <3>1 DEF IInv, HeldIsMarked
      <3> QED BY <3>1, <3>2, FreeCounts
    <2>4. CASE \/ \E n \in Counts : AllocFails(n)
               \/ \E f \in 0 .. total_frames : FreeIgnored(f)
      <3>1. used_frames' = used_frames /\ bitmap' = bitmap /\ total_frames' = total_frames
        BY <2>4 DEF AllocFails, FreeIgnored, vars
      <3>2. Free' = Free
        BY <3>1 DEF Free, Frames
      <3>3. used_frames' - used_frames = 0 /\ Cardinality(Free) - Cardinality(Free') = 0
        BY <3>1, <3>2, FreeFinite DEF TypeOK
      <3> QED BY <3>3 DEF Follows
    <2>5. ~(ist_alloc \/ pmm_init_no_map \/ \E map \in MemoryMaps : pmm_init(map))
      BY DEF ist_alloc, pmm_init_no_map, pmm_init
    <2> QED BY <2>1, <2>2, <2>3, <2>4, <2>5 DEF Next
  <1>2. Init => TypeOK
    BY PmmAssumption DEF Init, TypeOK
  <1> QED BY <1>1, <1>2, NextTypeOK, InitIInv, NextIInv, PTL
      DEF Spec, CountFollowsBits, Follows
-----------------------------------------------------------------------------
(* What the scan knows after the frames below i: p.run free frames end at  *)
(* i and no more, and there was no run of n before; or it has found the    *)
(* lowest run of n.                                                        *)
NoRunBelow(i, n) == \A u \in Nat : u < i => ~(u .. u + n - 1 \subseteq Free)
Scanned(i, n, p) ==
  \/ /\ p.run \in 0 .. n - 1 /\ p.start \in Nat /\ p.run <= i
     /\ i - p.run .. i - 1 \subseteq Free
     /\ p.run > 0 => p.start = i - p.run
     /\ p.run < i => i - p.run - 1 \in bitmap
     /\ NoRunBelow(i - p.run, n)
  \/ /\ p.run = n /\ p.start \in Nat
     /\ p.start .. p.start + n - 1 \subseteq Free
     /\ NoRunBelow(p.start, n)

(* One frame further.                                                      *)
ScanStep(i, n, p) ==
  IF p.run = n THEN p
  ELSE IF i - 1 \in bitmap THEN [p EXCEPT !.run = 0]
  ELSE [run |-> p.run + 1, start |-> IF p.run = 0 THEN i - 1 ELSE p.start]

LEMMA ScanStepKeeps ==
  ASSUME TypeOK, NEW n \in Nat \ {0}, NEW i \in 1 .. total_frames,
         NEW p \in [run : Nat, start : Nat], Scanned(i - 1, n, p)
  PROVE  Scanned(i, n, ScanStep(i, n, p)) /\ ScanStep(i, n, p) \in [run : Nat, start : Nat]
  <1> DEFINE s == ScanStep(i, n, p)
  <1>0. total_frames \in Nat /\ i \in Nat /\ i - 1 \in Nat /\ p.run \in Nat /\ p.start \in Nat
    BY DEF TypeOK
  <1>1. CASE p.run = n
    <2>1. s = p
      BY <1>1 DEF ScanStep
    <2> QED BY <1>1, <2>1 DEF Scanned
  <1>2. CASE p.run # n /\ i - 1 \in bitmap
    <2>1. s = [p EXCEPT !.run = 0]
      BY <1>2 DEF ScanStep
    <2>2. s.run = 0 /\ s.start = p.start /\ s \in [run : Nat, start : Nat]
      BY <2>1
    <2>3. NoRunBelow((i - 1) - p.run, n) /\ p.run \in 0 .. n - 1 /\ p.run <= i - 1
      BY <1>2 DEF Scanned
    <2>4. NoRunBelow(i, n)
      <3> SUFFICES ASSUME NEW u \in Nat, u < i, u .. u + n - 1 \subseteq Free PROVE FALSE
        BY DEF NoRunBelow
      <3>1. ~(u < (i - 1) - p.run)
        BY <2>3 DEF NoRunBelow
      <3>2. i - 1 \in u .. u + n - 1
        BY <3>1, <2>3, <1>0
      <3> QED BY <3>2, <1>2 DEF Free
    <2> HIDE DEF s
    <2>5. /\ 0 \in 0 .. n - 1 /\ 0 <= i /\ i - 0 = i /\ i .. i - 1 = {} /\ ~(0 > 0)
      BY <1>0
    <2> QED BY <1>0, <1>2, <2>2, <2>4, <2>5 DEF Scanned, s
  <1>3. CASE p.run # n /\ i - 1 \notin bitmap
    <2>1. s = [run |-> p.run + 1, start |-> IF p.run = 0 THEN i - 1 ELSE p.start]
      BY <1>3 DEF ScanStep
    <2>2. /\ s.run = p.run + 1 /\ s.start = (IF p.run = 0 THEN i - 1 ELSE p.start)
          /\ s \in [run : Nat, start : Nat]
      BY <2>1, <1>0
    <2>3. /\ p.run \in 0 .. n - 1 /\ p.run <= i - 1
          /\ (i - 1) - p.run .. (i - 1) - 1 \subseteq Free
          /\ p.run > 0 => p.start = (i - 1) - p.run
          /\ p.run < i - 1 => (i - 1) - p.run - 1 \in bitmap
          /\ NoRunBelow((i - 1) - p.run, n)
      BY <1>3 DEF Scanned
    <2>4. s.start = i - s.run /\ s.start = (i - 1) - p.run /\ s.start \in Nat
      BY <2>2, <2>3, <1>0
    <2> HIDE DEF s
    <2>5. i - s.run .. i - 1 \subseteq Free
      <3> SUFFICES ASSUME NEW f \in i - s.run .. i - 1 PROVE f \in Free
        OBVIOUS
      <3>1. f = i - 1 \/ f \in (i - 1) - p.run .. (i - 1) - 1
        BY <2>2, <2>3, <1>0
      <3>2. i - 1 \in Free
        BY <1>0, <1>3 DEF Free, Frames
      <3> QED BY <3>1, <3>2, <2>3
    <2>6. NoRunBelow(s.start, n)
      BY <2>3, <2>4
    <2>7. CASE s.run = n
      <3>1. s.start + n - 1 = i - 1
        BY <2>4, <2>7, <1>0
      <3>2. s.start .. s.start + n - 1 \subseteq Free
        BY <3>1, <2>4, <2>5
      <3> QED BY <3>2, <2>2, <2>4, <2>6, <2>7 DEF Scanned, s
    <2>8. CASE s.run # n
      <3>1. s.run \in 0 .. n - 1 /\ s.run <= i
        BY <2>2, <2>3, <2>8, <1>0
      <3>2. s.run < i => i - s.run - 1 \in bitmap
        <4>1. s.run < i => p.run < i - 1 /\ i - s.run - 1 = (i - 1) - p.run - 1
          BY <2>2, <1>0
        <4> QED BY <4>1, <2>3
      <3> QED BY <2>2, <2>4, <2>5, <2>6, <3>1, <3>2 DEF Scanned, s
    <2> QED BY <2>7, <2>8 DEF s
  <1> QED BY <1>1, <1>2, <1>3

(* The scan of the whole bitmap, whose recursion is well defined.          *)
LEMMA ScanKnows ==
  ASSUME TypeOK, NEW n \in Nat \ {0}
  PROVE  Scanned(total_frames, n, Scan(n))
  <1> DEFINE N == total_frames
             X == [run : Nat, start : Nat]
             x0 == [run |-> 0, start |-> 0]
             Body(g, i) == IF i = 0 THEN [run |-> 0, start |-> 0]
                           ELSE IF g[i - 1].run = n THEN g[i - 1]
                           ELSE IF i - 1 \in bitmap THEN [g[i - 1] EXCEPT !.run = 0]
                           ELSE [run |-> g[i - 1].run + 1,
                                 start |-> IF g[i - 1].run = 0 THEN i - 1 ELSE g[i - 1].start]
             Eq(g) == g = [i \in 0 .. N |-> Body(g, i)]
             scan == CHOOSE g : Eq(g)
             step == [i \in 1 .. N |-> [x \in X |-> ScanStep(i, n, x)]]
  <1>1. /\ N \in Nat /\ x0 \in X /\ 0 \in 0 .. N /\ N \in 0 .. N
        /\ \A i \in 1 .. N : i \in 0 .. N /\ i # 0 /\ i - 1 \in 0 .. N /\ i - 1 \in Nat
        /\ \A i \in 0 .. N : i # 0 => i \in 1 .. N
    BY DEF TypeOK
  <1>2. \A i \in 1 .. N, x \in X : ScanStep(i, n, x) \in X
    <2> TAKE i \in 1 .. N, x \in X
    <2>1. i - 1 \in Nat /\ x.run \in Nat /\ x.start \in Nat
      BY <1>1
    <2>2. /\ [x EXCEPT !.run = 0] \in X
          /\ [run |-> x.run + 1, start |-> IF x.run = 0 THEN i - 1 ELSE x.start] \in X
      BY <2>1
    <2> QED BY <2>2 DEF ScanStep
  <1>3. step \in Steps(N, X)
    <2> HIDE DEF X, N
    <2> QED BY <1>2 DEF Steps
  <1>4. PICK f : Computes(f, N, X, x0, step)
    <2> HIDE DEF step, X, x0, N
    <2> QED BY <1>1, <1>3, Recursion
  <1> HIDE DEF N
  <1>5. f \in [0 .. N -> X] /\ f[0] = x0 /\ \A i \in 1 .. N : f[i] = ScanStep(i, n, f[i - 1])
    <2>1. f \in [0 .. N -> X] /\ f[0] = x0 /\ \A i \in 1 .. N : f[i] = step[i][f[i - 1]]
      BY <1>4 DEF Computes
    <2> HIDE DEF X, x0
    <2> QED BY <2>1, <1>1
  <1>6. Eq(f)
    <2>1. \A i \in 0 .. N : f[i] = Body(f, i)
      <3> TAKE i \in 0 .. N
      <3>1. CASE i = 0
        BY <3>1, <1>5
      <3>2. CASE i # 0
        <4>1. Body(f, i) = ScanStep(i, n, f[i - 1])
          BY <3>2 DEF ScanStep
        <4> HIDE DEF Body
        <4> QED BY <4>1, <3>2, <1>1, <1>5
      <3> QED BY <3>1, <3>2
    <2> HIDE DEF Body, X
    <2> QED BY <2>1, <1>5
  <1>7. Eq(scan)
    <2> HIDE DEF Eq
    <2> QED BY <1>6
  <1> HIDE DEF scan
  <1>8. scan[0] = x0 /\ \A i \in 1 .. N : scan[i] = ScanStep(i, n, scan[i - 1])
    <2>1. Body(scan, 0) = x0
          /\ \A i \in 1 .. N : i # 0 => Body(scan, i) = ScanStep(i, n, scan[i - 1])
      BY DEF ScanStep
    <2> HIDE DEF Body, x0
    <2> QED BY <2>1, <1>7, <1>1
  <1>9. scan[N] \in X /\ Scanned(N, n, scan[N])
    <2> DEFINE T == {i \in 0 .. N : scan[i] \in X /\ Scanned(i, n, scan[i])}
    <2>1. 0 \in T
      <3>1. Scanned(0, n, x0)
        <4>1. x0.run = 0 /\ x0.start = 0
          OBVIOUS
        <4>2. 0 \in 0 .. n - 1 /\ 0 <= 0 /\ 0 - 0 .. 0 - 1 = {} /\ ~(0 > 0) /\ ~(0 < 0)
          OBVIOUS
        <4>3. NoRunBelow(0 - 0, n)
          BY DEF NoRunBelow
        <4> HIDE DEF x0
        <4> QED BY <4>1, <4>2, <4>3 DEF Scanned
      <3> QED BY <3>1, <1>1, <1>8
    <2>2. ASSUME NEW i \in 1 .. N, i - 1 \in T PROVE i \in T
      <3>1. scan[i - 1] \in X /\ Scanned(i - 1, n, scan[i - 1])
        BY <2>2
      <3>2. scan[i] = ScanStep(i, n, scan[i - 1])
        BY <1>8
      <3>3. scan[i] \in X /\ Scanned(i, n, scan[i])
        BY <3>1, <3>2, ScanStepKeeps DEF N
      <3> QED BY <3>3, <1>1
    <2> HIDE DEF T
    <2>3. N \in T
      BY <1>1, <2>1, <2>2, Induct
    <2> QED BY <2>3 DEF T
  <1>10. Scan(n) = scan[N]
    BY DEF Scan, scan, N
  <1> QED BY <1>9, <1>10 DEF N

(* The frame-by-frame scan of pmm_alloc_frames finds the lowest run of n   *)
(* free frames whenever there is one, for every bitmap.                    *)
THEOREM ScanCorrect == Spec => []ScanFindsRun
  <1>1. TypeOK => ScanFindsRun
    <2> SUFFICES ASSUME TypeOK, NEW n \in Counts \ {0}
                 PROVE  IF Runs(n) = {} THEN Scan(n).run < n
                        ELSE Scan(n).run = n /\ Scan(n).start = Min(Runs(n))
      BY DEF ScanFindsRun
    <2> DEFINE p == Scan(n)
    <2>0. n \in Nat \ {0} /\ total_frames \in Nat
      BY PmmAssumption DEF TypeOK
    <2>1. Scanned(total_frames, n, p)
      BY <2>0, ScanKnows
    <2>2. \A u \in Runs(n) : u \in Nat /\ u .. u + n - 1 \subseteq Free /\ u + n - 1 < total_frames
      <3> TAKE u \in Runs(n)
      <3>1. u \in Free /\ u .. u + n - 1 \subseteq Free
        BY DEF Runs
      <3>2. u \in Nat
        BY <3>1, <2>0 DEF Free, Frames
      <3>3. u + n - 1 \in u .. u + n - 1
        BY <3>2, <2>0
      <3>4. u + n - 1 \in 0 .. total_frames - 1
        BY <3>1, <3>3 DEF Free, Frames
      <3> QED BY <3>1, <3>2, <3>4, <2>0
    <2> HIDE DEF p
    <2>3. CASE /\ p.run \in 0 .. n - 1 /\ p.run <= total_frames
               /\ NoRunBelow(total_frames - p.run, n)
      <3>1. ASSUME NEW u \in Runs(n) PROVE FALSE
        <4>1. u < total_frames - p.run
          BY <2>0, <2>2, <2>3
        <4> QED BY <4>1, <2>2, <2>3 DEF NoRunBelow
      <3>2. p.run < n
        BY <2>0, <2>3
      <3> QED BY <3>1, <3>2 DEF p
    <2>4. CASE /\ p.run = n /\ p.start \in Nat /\ p.start .. p.start + n - 1 \subseteq Free
               /\ NoRunBelow(p.start, n)
      <3>1. p.start \in p.start .. p.start + n - 1
        BY <2>0, <2>4
      <3>2. p.start \in Runs(n)
        BY <3>1, <2>4 DEF Runs
      <3>3. \A u \in Runs(n) : p.start <= u
        BY <2>2, <2>4 DEF NoRunBelow
      <3>4. \A u \in Runs(n) : (\A y \in Runs(n) : u <= y) => u = p.start
        BY <3>2, <3>3, <2>2
      <3>5. Min(Runs(n)) = p.start
        BY <3>2, <3>3, <3>4 DEF Min
      <3> QED BY <2>4, <3>2, <3>5 DEF p
    <2> QED BY <2>1, <2>3, <2>4 DEF Scanned
  <1> QED BY <1>1, TypesOK, PTL
=============================================================================
