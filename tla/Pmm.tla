-------------------------------- MODULE Pmm --------------------------------
(***************************************************************************)
(* The physical frame allocator (src/src/mm/pmm.c) from reset on.          *)
(* kernel_main runs kinit_idt, whose ist_alloc already asks for frames,    *)
(* before pmm_init builds the bitmap from the Multiboot2 memory map; then  *)
(* paging, the heap and the ELF loader allocate and free.  All of it runs  *)
(* with interrupts off.                                                    *)
(*                                                                         *)
(* The bitmap is the set of frames whose bit is 1.  It lies in RAM nobody  *)
(* has written: the bits it starts with are arbitrary.                     *)
(***************************************************************************)
EXTENDS SequencesExt

CONSTANTS
  PMM_FRAME_SIZE,      \* bytes in a frame
  MAX_FRAMES,          \* frames the bitmap may track
  WORD_BITS, WORD_BYTES,  \* bits and bytes of a bitmap word (32 and 4)
  LOW_END,             \* 1 MiB: end of BIOS memory, start of the image
  VGA_BASE, VGA_SIZE,  \* 0xB8000, 0x8000
  KernelEnd,           \* _kernel_end - HIGHER_HALF_BASE, where bitmap starts
  COUNTER,             \* used_frames is computed modulo this (2^64)
  MemoryMaps,          \* maps GRUB may hand over, as sequences of entries
  RamContents,         \* what the bitmap's memory may hold at power-on
  Counts               \* sizes callers ask of pmm_alloc_frames

Entries == [base : Nat, len : Nat, available : BOOLEAN]

ASSUME PmmAssumption ==
  /\ PMM_FRAME_SIZE \in Nat \ {0} /\ MAX_FRAMES \in Nat
  /\ WORD_BITS \in Nat \ {0} /\ WORD_BYTES \in Nat
  /\ LOW_END \in Nat \ {0} /\ KernelEnd \in Nat /\ KernelEnd >= LOW_END
  /\ VGA_BASE \in Nat /\ VGA_SIZE \in Nat
  /\ COUNTER \in Nat \ {0}
  /\ MemoryMaps \subseteq Seq(Entries)
  /\ RamContents \subseteq SUBSET Nat
  /\ Counts \subseteq Nat

VARIABLES
  phase,         \* "idt" before pmm_init, "up" after
  total_frames,
  bitmap,
  used_frames,
  ist,           \* stacks ist_alloc gave TSS.ist1..3 so far: addresses or 0
  owned          \* frames callers hold: handed out and not freed since

vars == <<phase, total_frames, bitmap, used_frames, ist, owned>>

Init ==
  /\ phase = "idt"
  /\ total_frames = 0
  /\ bitmap \in RamContents
  /\ used_frames = 0
  /\ ist = <<>>
  /\ owned = {}

-----------------------------------------------------------------------------
PMM_ADDR_TO_FRAME(a) == a \div PMM_FRAME_SIZE
PMM_FRAME_TO_ADDR(f) == f * PMM_FRAME_SIZE

(* Bitmap and counter together; setting a bit that is set counts nothing.  *)
MutWideCounter(m, frames) ==
  [bits |-> m.bits \cup frames, used |-> m.used + Cardinality(frames \ m.bits)]
MarkUsed(m, frames) ==
  [bits |-> m.bits \cup frames,
   used |-> (m.used + Cardinality(frames \ m.bits)) % COUNTER]

MarkFree(m, frames) ==
  [bits |-> m.bits \ frames,
   used |-> (m.used - Cardinality(frames \cap m.bits)) % COUNTER]

(* The frames pmm_mark_region visits: both ends rounded outwards.          *)
MutRegionRoundsDown(base, size, total) ==
  {f \in 0 .. total - 1 :
     PMM_ADDR_TO_FRAME(base) <= f /\ f < PMM_ADDR_TO_FRAME(base + size)}
RegionFrames(base, size, total) ==
  {f \in 0 .. total - 1 :
     /\ PMM_ADDR_TO_FRAME(base) <= f
     /\ f < PMM_ADDR_TO_FRAME(base + size + PMM_FRAME_SIZE - 1)}

pmm_mark_region(m, base, size, total) ==
  MarkUsed(m, RegionFrames(base, size, total))

(* An AVAILABLE entry: its start is rounded down, its end too.             *)
AvailableFrames(e, total) ==
  {f \in 0 .. total - 1 :
     PMM_ADDR_TO_FRAME(e.base) <= f /\ f < PMM_ADDR_TO_FRAME(e.base + e.len)}

(* The first pass: the highest end of an entry, and the frames below it.   *)
Ends(map) == {0} \cup {map[i].base + map[i].len : i \in DOMAIN map}
IsMaxAddr(a, map) == a \in Ends(map) /\ \A e \in Ends(map) : e <= a
TotalFrames(max_addr) ==
  LET total == max_addr \div PMM_FRAME_SIZE
  IN  IF total > MAX_FRAMES THEN MAX_FRAMES ELSE total
BitmapBytes(total) == ((total + WORD_BITS - 1) \div WORD_BITS) * WORD_BYTES

(* The second pass over the map, entry by entry in the order given.        *)
ApplyMap(m, map, total) ==
  LET after[i \in 0 .. Len(map)] ==   \* bitmap and counter after i entries
        IF i = 0 THEN m
        ELSE IF map[i].available
        THEN MarkFree(after[i - 1], AvailableFrames(map[i], total))
        ELSE pmm_mark_region(after[i - 1], map[i].base, map[i].len, total)
  IN  after[Len(map)]

(* The marks that close pmm_init: BIOS memory, the image, the bitmap, VGA. *)
MarkKernel(m, total) ==
  LET low    == pmm_mark_region(m, 0, LOW_END, total)
      kernel == pmm_mark_region(low, LOW_END, KernelEnd - LOW_END, total)
      bits   == pmm_mark_region(kernel, KernelEnd, BitmapBytes(total), total)
  IN  pmm_mark_region(bits, VGA_BASE, VGA_SIZE, total)

pmm_init(map) ==
  \E max_addr \in Ends(map) :
    LET total == TotalFrames(max_addr)
        ram   == [bits |-> bitmap \cap 0 .. total - 1, used |-> used_frames]
        early == pmm_mark_region(ram, KernelEnd, BitmapBytes(total), total)
        final == MarkKernel(ApplyMap(early, map, total), total)
    IN  /\ phase = "idt" /\ Len(ist) = 3
        /\ IsMaxAddr(max_addr, map)
        /\ phase' = "up"
        /\ total_frames' = total
        /\ bitmap' = final.bits
        /\ used_frames' = final.used
        /\ UNCHANGED <<ist, owned>>

(* No mmap tag: pmm_init gives up, and the allocator stays empty.          *)
pmm_init_no_map ==
  /\ phase = "idt" /\ Len(ist) = 3
  /\ phase' = "up"
  /\ UNCHANGED <<total_frames, bitmap, used_frames, ist, owned>>

-----------------------------------------------------------------------------
Frames == 0 .. total_frames - 1
Free == Frames \ bitmap

(* Starts of the runs of n free frames.                                    *)
Runs(n) == {s \in Free : s .. s + n - 1 \subseteq Free}

(* Take the lowest run of n free frames; with none, the caller gets 0.     *)
MutTakeForgetsBit(n) ==
  \E s \in Runs(n) :
    /\ \A u \in Runs(n) : s <= u
    /\ owned' = owned \cup (s .. s + n - 1)
    /\ bitmap' = bitmap \cup {s}
    /\ used_frames' = (used_frames + n) % COUNTER
Take(n) ==
  \E s \in Runs(n) :
    /\ \A u \in Runs(n) : s <= u
    /\ owned' = owned \cup (s .. s + n - 1)
    /\ bitmap' = bitmap \cup (s .. s + n - 1)
    /\ used_frames' = (used_frames + n) % COUNTER

pmm_alloc_frame ==
  /\ phase = "up"
  /\ Take(1)
  /\ UNCHANGED <<phase, total_frames, ist>>

pmm_alloc_frames(n) ==
  /\ phase = "up" /\ n > 0
  /\ Take(n)
  /\ UNCHANGED <<phase, total_frames, ist>>

(* A request for nothing, or one that no run satisfies, changes nothing.   *)
AllocFails(n) ==
  /\ phase = "up"
  /\ n = 0 \/ Runs(n) = {}
  /\ UNCHANGED vars

(* ist_alloc, three times, from kinit_idt: pmm_alloc_frame before pmm_init.*)
ist_alloc ==
  /\ phase = "idt" /\ Len(ist) < 3
  /\ IF Free = {}
     THEN ist' = Append(ist, 0) /\ UNCHANGED <<bitmap, used_frames, owned>>
     ELSE /\ Take(1)
          /\ \E s \in bitmap' \ bitmap : ist' = Append(ist, PMM_FRAME_TO_ADDR(s))
  /\ UNCHANGED <<phase, total_frames>>

(* A caller frees a frame it holds, or an address that names no used frame *)
(* (beyond the memory, or free already), which the guard ignores.          *)
MutFreeUncounted(f) ==
  /\ f \in Frames \cap bitmap
  /\ bitmap' = bitmap \ {f}
  /\ used_frames' = used_frames
Release(f) ==
  /\ f \in Frames \cap bitmap
  /\ bitmap' = bitmap \ {f}
  /\ used_frames' = (used_frames - 1) % COUNTER

pmm_free_frame(f) ==
  /\ phase = "up"
  /\ f \in owned
  /\ Release(f)
  /\ owned' = owned \ {f}
  /\ UNCHANGED <<phase, total_frames, ist>>

FreeIgnored(f) ==
  /\ phase = "up"
  /\ f \notin Frames \cap bitmap
  /\ UNCHANGED vars

(* pmm_free_frames: one pmm_free_frame after the other.                    *)
pmm_free_frames(f, n) ==
  LET block == f .. f + n - 1
  IN  /\ phase = "up" /\ n > 0
      /\ block \subseteq owned
      /\ bitmap' = bitmap \ block
      /\ used_frames' = (used_frames - n) % COUNTER
      /\ owned' = owned \ block
      /\ UNCHANGED <<phase, total_frames, ist>>

Next ==
  \/ ist_alloc
  \/ pmm_init_no_map \/ \E map \in MemoryMaps : pmm_init(map)
  \/ pmm_alloc_frame
  \/ \E n \in Counts : pmm_alloc_frames(n) \/ AllocFails(n)
  \/ \E f \in 0 .. total_frames : pmm_free_frame(f) \/ FreeIgnored(f)
  \/ \E f \in owned, n \in Counts : pmm_free_frames(f, n)

Spec == Init /\ [][Next]_vars

-----------------------------------------------------------------------------
(* Every variable has its type.                                            *)
TypeOK ==
  /\ phase \in {"idt", "up"}
  /\ total_frames \in Nat
  /\ bitmap \subseteq Nat
  /\ used_frames \in 0 .. COUNTER - 1
  /\ ist \in Seq(Nat)
  /\ owned \subseteq Nat

(* A frame a caller holds is marked, so no later allocation, single or     *)
(* contiguous, hands it to somebody else.                                  *)
HeldIsMarked == owned \subseteq Frames \cap bitmap

(* The frames that overlap memory the kernel lives in, by bytes: BIOS      *)
(* memory, the image, the bitmap and the VGA buffer.                       *)
Overlaps(f, base, size) ==
  /\ size > 0
  /\ PMM_FRAME_TO_ADDR(f) < base + size /\ base < PMM_FRAME_TO_ADDR(f + 1)
KernelFrames ==
  {f \in Frames : \/ Overlaps(f, 0, KernelEnd)
                  \/ Overlaps(f, KernelEnd, BitmapBytes(total_frames))
                  \/ Overlaps(f, VGA_BASE, VGA_SIZE)}

(* No order of the memory map's entries, and no sequence of allocations and*)
(* frees, makes a frame of the kernel's own memory available.  Frame 0 is  *)
(* one of them, so address 0 can mean failure.                             *)
KernelNeverGiven == phase = "up" => KernelFrames \subseteq bitmap /\ owned \cap KernelFrames = {}

(* Whatever the count was after pmm_init, allocations and frees move it by *)
(* exactly the bits they set and clear, ignored frees and multi-frame      *)
(* requests included.                                                      *)
CountFollowsBits ==
  [][phase = "up" => (used_frames' - used_frames) % COUNTER
                     = (Cardinality(Free) - Cardinality(Free')) % COUNTER]_vars

(* The scan of pmm_alloc_frames, frame by frame: run length and run_start  *)
(* after the frames below i, stopping at the first run of n.               *)
MutScan(n) ==
  LET scan[i \in 0 .. total_frames] ==
        IF i = 0 THEN [run |-> 0, start |-> 0]
        ELSE LET p == scan[i - 1]
             IN  IF p.run = n THEN p
                 ELSE IF i - 1 \in bitmap THEN p
                 ELSE [run |-> p.run + 1, start |-> IF p.run = 0 THEN i - 1 ELSE p.start]
  IN  scan[total_frames]
Scan(n) ==
  LET scan[i \in 0 .. total_frames] ==
        IF i = 0 THEN [run |-> 0, start |-> 0]
        ELSE LET p == scan[i - 1]
             IN  IF p.run = n THEN p
                 ELSE IF i - 1 \in bitmap THEN [p EXCEPT !.run = 0]
                 ELSE [run |-> p.run + 1, start |-> IF p.run = 0 THEN i - 1 ELSE p.start]
  IN  scan[total_frames]

(* That scan finds the lowest free run whenever there is one, whatever     *)
(* holes earlier allocations and frees have left.                          *)
ScanFindsRun ==
  phase = "up" => \A n \in Counts \ {0} :
    IF Runs(n) = {} THEN Scan(n).run < n
    ELSE Scan(n).run = n /\ Scan(n).start = Min(Runs(n))
=============================================================================
