---------------------------- MODULE PagingProofs ----------------------------
(***************************************************************************)
(* For every number of entries in a table, every set of pages and every    *)
(* order of calls, successful or not: address spaces are trees that share  *)
(* only the kernel's, each translates as its callers were told, tearing    *)
(* one down frees exactly its frames, and user_mem_check is exact, as long *)
(* as page directories come from memory that the kernel sees directly.     *)
(* The last part carries this through the boot: kernel stacks, the loaded  *)
(* image and the user stack are in place, and frames are accounted for.    *)
(* For a boot with frames enough that is shown without a condition on what *)
(* happens.                                                                *)
(***************************************************************************)
EXTENDS Boot, DataLemmas, TLAPS

N == PAGE_TABLE_ENTRIES     \* kept folded: the provers need not see it
K == KERNEL_ENTRY

LEMMA Numbers ==
  /\ N \in Nat /\ N >= 2 /\ K \in Nat /\ K = N - 1 /\ K \in Index /\ K - 1 \in Index
  /\ Index = 0 .. N - 1
  /\ LOW \in Nat /\ LOW > 4 /\ SCRATCH \in Nat /\ SCRATCH = LOW - 1 /\ SCRATCH \in Frames
  /\ pml4_new \in Frames /\ pdpt_hi \in Frames /\ pd_hi \in Frames
  /\ pml4_new = 1 /\ pdpt_hi = 2 /\ pd_hi = 3
  /\ Frames \subseteq Nat /\ 0 \in Frames /\ Absent \notin Frames
  <1>1. /\ PAGE_TABLE_ENTRIES \in Nat /\ PAGE_TABLE_ENTRIES >= 2 /\ LOW \in Nat /\ LOW > 4
        /\ \A k \in Machines : k.free \subseteq Nat
    BY PagingAssumption DEF pd_hi
  <1>2. Frames \subseteq Nat /\ 0 .. LOW \subseteq Frames
    BY <1>1 DEF Frames
  <1>3. pml4_new = 1 /\ pdpt_hi = 2 /\ pd_hi = 3 /\ SCRATCH = LOW - 1 /\ Absent = -1
    BY DEF pml4_new, pdpt_hi, pd_hi, SCRATCH, Absent
  <1>4. /\ pml4_new \in 0 .. LOW /\ pdpt_hi \in 0 .. LOW /\ pd_hi \in 0 .. LOW
        /\ SCRATCH \in 0 .. LOW /\ 0 \in 0 .. LOW /\ Absent \notin Nat
    BY <1>1, <1>3
  <1>5. N \in Nat /\ N >= 2 /\ K = N - 1 /\ Index = 0 .. K
    BY <1>1 DEF N, K, KERNEL_ENTRY, Index
  <1>6. K \in Nat /\ K \in Index /\ K - 1 \in Index /\ Index = 0 .. N - 1
    BY <1>5
  <1> QED BY <1>1, <1>2, <1>3, <1>4, <1>5, <1>6

-----------------------------------------------------------------------------
(* Page numbers and their paths.                                           *)
LEMMA Quotients ==
  ASSUME NEW q \in Nat, NEW n \in Nat \ {0}
  PROVE  /\ q \div n \in Nat /\ q % n \in 0 .. n - 1
         /\ q = (q \div n) * n + (q % n)
         /\ \A k \in Nat : q \div n >= k <=> q >= k * n
  <1> DEFINE s == q \div n
             d == q % n
  <1>2. s \in Nat /\ d \in 0 .. n - 1 /\ q = s * n + d
    <2>1. d \in 0 .. n - 1
      BY ModRange
    <2>2. q = n * s + d /\ s \in Int
      OBVIOUS
    <2>3. s >= 0
      BY <2>1, <2>2
    <2> QED BY <2>1, <2>2, <2>3
  <1> HIDE DEF s, d
  <1>3. ASSUME NEW k \in Nat PROVE s >= k <=> q >= k * n
    <2>1. CASE s >= k
      <3>1. s * n >= k * n
        BY <1>2, <2>1
      <3>2. s * n \in Nat /\ k * n \in Nat
        BY <1>2
      <3> QED BY <1>2, <2>1, <3>1, <3>2
    <2>2. CASE ~(s >= k)
      <3>1. s + 1 <= k
        BY <1>2, <2>2
      <3>2. (s + 1) * n <= k * n
        BY <1>2, <3>1
      <3>3. (s + 1) * n = s * n + n
        BY <1>2
      <3>4. s * n \in Nat /\ k * n \in Nat
        BY <1>2
      <3> QED BY <1>2, <2>2, <3>2, <3>3, <3>4
    <2> QED BY <2>1, <2>2
  <1>4. /\ s \in Nat /\ d \in 0 .. n - 1 /\ q = s * n + d
        /\ \A k \in Nat : s >= k <=> q >= k * n
    BY <1>2, <1>3
  <1> QED BY <1>4 DEF s, d

LEMMA Digits ==
  ASSUME NEW q \in Nat
  PROVE  /\ Shift(q) \in Nat /\ Digit(q) \in Index
         /\ q = Shift(q) * N + Digit(q)
         /\ \A k \in Nat : Shift(q) >= k <=> q >= k * N
  <1>1. N \in Nat \ {0} /\ Index = 0 .. N - 1
    BY Numbers
  <1>2. Shift(q) = q \div N /\ Digit(q) = q % N
    BY DEF Shift, Digit, N
  <1> DEFINE Divided(u, v, n) == /\ u \in Nat /\ v \in 0 .. n - 1
                                 /\ q = u * n + v
                                 /\ \A k \in Nat : u >= k <=> q >= k * n
  <1>3. Divided(q \div N, q % N, N)
    BY <1>1, Quotients
  <1> HIDE DEF Divided
  <1>4. Divided(Shift(q), Digit(q), N)
    BY <1>2, <1>3
  <1> QED BY <1>1, <1>4 DEF Divided

(* Pages with the same path are the same.                                  *)
LEMMA Paths ==
  ASSUME NEW page \in Nat
  PROVE  /\ \A l \in 1 .. 4 : Path(page)[l] \in Index
         /\ Path(page)[1] \in Index /\ Path(page)[2] \in Index /\ Path(page)[3] \in Index
         /\ Path(page)[4] \in Index
  <1>1. Shift(page) \in Nat /\ Digit(page) \in Index
    BY Digits
  <1>2. Shift(Shift(page)) \in Nat /\ Digit(Shift(page)) \in Index
    BY <1>1, Digits
  <1>3. Shift(Shift(Shift(page))) \in Nat /\ Digit(Shift(Shift(page))) \in Index
    BY <1>2, Digits
  <1>4. Digit(Shift(Shift(Shift(page)))) \in Index
    BY <1>3, Digits
  <1>5. /\ Path(page)[1] \in Index /\ Path(page)[2] \in Index /\ Path(page)[3] \in Index
        /\ Path(page)[4] \in Index
    BY <1>1, <1>2, <1>3, <1>4 DEF Path
  <1> QED BY <1>5

LEMMA TopDigit ==
  ASSUME NEW page \in Pages
  PROVE  LET c == Shift(Shift(Shift(page)))
         IN  /\ page \in Nat /\ c \in Nat /\ c < N
             /\ \A k \in Nat : c >= k <=> page >= k * N * N * N
  <1> DEFINE a == Shift(page)
             b == Shift(a)
             c == Shift(b)
  <1>0. page \in Nat /\ page < N * (N * N * N) /\ N \in Nat
    BY Numbers DEF Pages, PagesPerEntry, N
  <1>1. a \in Nat /\ \A k \in Nat : a >= k <=> page >= k * N
    BY <1>0, Digits
  <1>2. b \in Nat /\ \A k \in Nat : b >= k <=> a >= k * N
    BY <1>1, Digits
  <1>3. c \in Nat /\ \A k \in Nat : c >= k <=> b >= k * N
    BY <1>2, Digits
  <1> HIDE DEF a, b, c
  <1>4. ASSUME NEW k \in Nat PROVE c >= k <=> page >= k * N * N * N
    <2>1. k * N \in Nat
      BY <1>0
    <2>2. k * N * N \in Nat
      BY <1>0, <2>1
    <2>3. c >= k <=> b >= k * N
      BY <1>3
    <2>4. b >= k * N <=> a >= k * N * N
      BY <1>2, <2>1
    <2>5. a >= k * N * N <=> page >= k * N * N * N
      BY <1>1, <2>2
    <2> QED BY <2>3, <2>4, <2>5
  <1>5. N * N * N * N = N * (N * N * N) /\ N * N * N * N \in Nat
    BY <1>0
  <1>6. ~(page >= N * N * N * N)
    BY <1>0, <1>5
  <1>7. ~(c >= N)
    BY <1>0, <1>4, <1>6
  <1>8. c < N
    BY <1>0, <1>3, <1>7
  <1> QED BY <1>0, <1>3, <1>4, <1>8 DEF a, b, c

LEMMA PathUnique ==
  ASSUME NEW q \in Nat, NEW r \in Nat, \A l \in 1 .. 4 : Path(q)[l] = Path(r)[l],
         q \in Pages, r \in Pages
  PROVE  q = r
  <1> DEFINE a == Shift(q)
             b == Shift(a)
             c == Shift(b)
             d == Shift(r)
             e == Shift(d)
             f == Shift(e)
  <1>0. a \in Nat /\ d \in Nat /\ q = a * N + Digit(q) /\ r = d * N + Digit(r)
    BY Digits
  <1>1. b \in Nat /\ e \in Nat /\ a = b * N + Digit(a) /\ d = e * N + Digit(d)
    BY <1>0, Digits
  <1>2. c \in Nat /\ f \in Nat /\ b = c * N + Digit(b) /\ e = f * N + Digit(e)
    BY <1>1, Digits
  <1>3. Digit(c) = Digit(f) /\ Digit(b) = Digit(e) /\ Digit(a) = Digit(d) /\ Digit(q) = Digit(r)
    <2>1. /\ Path(q)[1] = Path(r)[1] /\ Path(q)[2] = Path(r)[2] /\ Path(q)[3] = Path(r)[3]
          /\ Path(q)[4] = Path(r)[4]
      OBVIOUS
    <2> QED BY <2>1 DEF Path
  <1> HIDE DEF a, b, c, d, e, f
  <1>4. c = f
    <2>1. c < N /\ f < N
      BY TopDigit DEF a, b, c, d, e, f
    <2>2. c = Digit(c) /\ f = Digit(f)
      BY <2>1, <1>2, Numbers DEF Digit, N
    <2> QED BY <2>2, <1>3
  <1>5. b = e
    BY <1>2, <1>3, <1>4
  <1>6. a = d
    BY <1>1, <1>3, <1>5
  <1> QED BY <1>0, <1>3, <1>6

(* The kernel's pages are those of the last entry.                         *)
LEMMA KernelPath ==
  ASSUME NEW page \in Pages
  PROVE  KernelPage(page) <=> Path(page)[1] = K
  <1> DEFINE c == Shift(Shift(Shift(page)))
  <1>1. page \in Nat /\ c \in Nat /\ c < N /\ Path(page)[1] = Digit(c)
    BY TopDigit DEF Path
  <1>2. c = Digit(c)
    <2> HIDE DEF c
    <2> QED BY <1>1, Numbers DEF Digit, N
  <1>3. c >= K <=> page >= K * N * N * N
    BY <1>1, Numbers, TopDigit
  <1>4. K * N * N * N = KERNEL_ENTRY * PagesPerEntry
    BY Numbers DEF K, N, PagesPerEntry
  <1> HIDE DEF c
  <1>5. c >= K <=> c = K
    BY <1>1, Numbers
  <1> QED BY <1>1, <1>2, <1>3, <1>4, <1>5 DEF KernelPage

-----------------------------------------------------------------------------
(* Memory as the kernel uses it, and what its operations do.               *)
Entries == Frames \cup {Absent}
Tables == [Frames -> [Index -> Entries]]
Machine == [mem : Tables, scratch : Frames, free : SUBSET (Frames \ {0})]

(* M with f in entry i of table t, and with table t cleared.               *)
Put(M, t, i, f) == [M EXCEPT ![t][i] = f]
Clear(M, t) == [M EXCEPT ![t] = Empty]
Same(M, L, t) == \A u \in Frames : u # t => L[u] = M[u]

LEMMA PutIs ==
  ASSUME NEW M \in Tables, NEW t \in Frames, NEW i \in Index, NEW f \in Entries
  PROVE  LET L == Put(M, t, i, f)
         IN  /\ L \in Tables /\ Same(M, L, t) /\ L[t][i] = f
             /\ \A j \in Index : j # i => L[t][j] = M[t][j]
  BY DEF Put, Tables, Same

LEMMA ClearIs ==
  ASSUME NEW M \in Tables, NEW t \in Frames
  PROVE  LET L == Clear(M, t)
         IN  L \in Tables /\ Same(M, L, t) /\ L[t] = Empty /\ \A j \in Index : L[t][j] = Absent
  <1>1. Empty \in [Index -> Entries] /\ \A j \in Index : Empty[j] = Absent
    BY DEF Empty, Entries
  <1> QED BY <1>1 DEF Clear, Tables, Same

LEMMA ShowsFrame ==
  ASSUME NEW m \in Machine, NEW p \in Frames
  PROVE  Shows(m, p) \in Frames
  BY DEF Shows, Machine

LEMMA StoreIs ==
  ASSUME NEW m \in Machine, NEW p \in Frames, NEW i \in Index, NEW f \in Entries
  PROVE  /\ Store(m, p, i, f) \in Machine
         /\ Store(m, p, i, f).mem = Put(m.mem, Shows(m, p), i, f)
         /\ Store(m, p, i, f).scratch = m.scratch /\ Store(m, p, i, f).free = m.free
  <1> DEFINE t == Shows(m, p)
  <1>1. t \in Frames
    BY ShowsFrame
  <1> HIDE DEF t
  <1>2. Put(m.mem, t, i, f) \in Tables
    BY <1>1, PutIs DEF Machine
  <1>3. Store(m, p, i, f) = [m EXCEPT !.mem = Put(m.mem, t, i, f)]
    BY DEF Store, Put, t, Machine
  <1> HIDE DEF Put
  <1> QED BY <1>2, <1>3 DEF Machine, t

LEMMA ZeroIs ==
  ASSUME NEW m \in Machine, NEW p \in Frames
  PROVE  /\ Zero(m, p) \in Machine
         /\ Zero(m, p).mem = Clear(m.mem, Shows(m, p))
         /\ Zero(m, p).scratch = m.scratch /\ Zero(m, p).free = m.free
  <1> DEFINE t == Shows(m, p)
  <1>1. t \in Frames
    BY ShowsFrame
  <1> HIDE DEF t
  <1>2. Clear(m.mem, t) \in Tables
    BY <1>1, ClearIs DEF Machine
  <1>3. Zero(m, p) = [m EXCEPT !.mem = Clear(m.mem, t)]
    BY DEF Zero, Clear, t, Machine
  <1> HIDE DEF Clear
  <1> QED BY <1>2, <1>3 DEF Machine, t

(* Getting a pointer to a frame changes no memory, and the pointer shows   *)
(* the frame, unless it is the one behind the scratch page.                *)
LEMMA PointerIs ==
  ASSUME NEW f \in Frames
  PROVE  Pointer(f) \in Frames /\ (f < LOW => Pointer(f) = f) /\ (f >= LOW => Pointer(f) = SCRATCH)
  BY Numbers DEF Pointer

LEMMA MapIs ==
  ASSUME NEW m \in Machine, NEW f \in Frames
  PROVE  /\ scratch_map(m, f) \in Machine /\ scratch_map(m, f).mem = m.mem
         /\ scratch_map(m, f).free = m.free /\ scratch_map(m, f).scratch = f
         /\ Shows(scratch_map(m, f), SCRATCH) = f
  BY DEF scratch_map, Machine, Shows

LEMMA VirtIs ==
  ASSUME NEW m \in Machine, NEW f \in Frames
  PROVE  /\ virt_for_phys(m, f) \in Machine /\ virt_for_phys(m, f).mem = m.mem
         /\ virt_for_phys(m, f).free = m.free
         /\ f # SCRATCH => Shows(virt_for_phys(m, f), Pointer(f)) = f
  <1>1. CASE f < LOW
    BY <1>1 DEF virt_for_phys, Pointer, Shows
  <1>2. CASE ~(f < LOW)
    BY <1>2, MapIs DEF virt_for_phys, Pointer
  <1> QED BY <1>1, <1>2

(* A table below the scratch page is shown by its own address.             *)
LEMMA LowShows ==
  ASSUME NEW m, NEW t \in Frames, t < SCRATCH
  PROVE  Pointer(t) = t /\ Shows(m, t) = t /\ virt_for_phys(m, t) = m
  BY Numbers DEF Pointer, Shows, virt_for_phys

(* The lowest free frame.                                                  *)
LEMMA LowestIs ==
  ASSUME NEW m \in Machine
  PROVE  /\ m.free = {} => Lowest(m) = 0
         /\ m.free # {} => Lowest(m) \in m.free /\ Lowest(m) # 0 /\ \A g \in m.free : Lowest(m) <= g
         /\ Lowest(m) \in Frames
  <1>1. m.free \subseteq Nat \ {0} /\ m.free \subseteq Frames
    BY Numbers DEF Machine
  <1>2. m.free # {} => Min(m.free) \in m.free /\ \A g \in m.free : Min(m.free) <= g
    <2> SUFFICES ASSUME m.free # {} PROVE Min(m.free) \in m.free /\ \A g \in m.free : Min(m.free) <= g
      OBVIOUS
    <2>1. \E n \in m.free : \A g \in m.free : n <= g
      BY <1>1, Least
    <2> QED BY <2>1 DEF Min
  <1> QED BY <1>1, <1>2, Numbers DEF Lowest

LEMMA TakenIs ==
  ASSUME NEW m \in Machine
  PROVE  /\ Taken(m) \in Machine /\ Taken(m).mem = m.mem /\ Taken(m).scratch = m.scratch
         /\ Taken(m).free = m.free \ {Lowest(m)}
  BY DEF Taken, Machine

LEMMA FreedIs ==
  ASSUME NEW m \in Machine, NEW f \in Frames \ {0}
  PROVE  /\ pmm_free_frame(m, f) \in Machine /\ pmm_free_frame(m, f).mem = m.mem
         /\ pmm_free_frame(m, f).scratch = m.scratch
         /\ pmm_free_frame(m, f).free = m.free \cup {f}
  BY DEF pmm_free_frame, Machine

-----------------------------------------------------------------------------
(* What frames are used for: nothing known (0), a PML4 (1), the tables of  *)
(* the levels below (2 to 4), a page (5); those of which the kernel never  *)
(* makes any such use, the one behind the scratch page among them, have 6. *)
(* An entry leads one level down;                                          *)
(* no two lead to the same frame, but for the last one of every PML4, which*)
(* leads to the kernel's tables; and all but the last tables of a path are *)
(* where the kernel sees them directly.                                    *)
Tiers(M, role) ==
  \A t \in Frames, i \in Index :
    role[t] \in 1 .. 4 /\ M[t][i] # Absent => role[M[t][i]] = role[t] + 1
Single(M, role) ==
  \A t, u \in Frames, i, j \in Index :
    role[t] \in 1 .. 4 /\ role[u] \in 1 .. 4 /\ M[t][i] # Absent /\ M[t][i] = M[u][j] =>
      (t = u /\ i = j) \/ (role[t] = 1 /\ i = K /\ j = K)
Shared(M, role) ==
  /\ role[pml4_new] = 1 /\ M[pdpt_hi][K - 1] = pd_hi
  /\ \A t \in Frames : role[t] = 1 => M[t][K] = pdpt_hi
InSight(role) ==
  /\ role[0] = 6 /\ role[SCRATCH] = 6
  /\ \A t \in Frames : role[t] \in 1 .. 3 => t < SCRATCH
Uses == [Frames -> 0 .. 6]
Tree(M, role) ==
  /\ M \in Tables /\ role \in Uses
  /\ Tiers(M, role) /\ Single(M, role) /\ Shared(M, role) /\ InSight(role)

LEMMA RoleFrame ==
  ASSUME NEW M, NEW role, Tree(M, role), NEW x \in Frames, role[x] # 6
  PROVE  x # 0 /\ x # SCRATCH
  BY DEF Tree, InSight

(* One step of the CPU, and the last table it comes to.                    *)
Look(M, f, i) == IF f = Absent THEN Absent ELSE M[f][i]
Pt(M, c, page) == Look(M, Look(M, Look(M, c, Path(page)[1]), Path(page)[2]), Path(page)[3])

LEMMA TranslateIs ==
  ASSUME NEW M, NEW c, NEW page
  PROVE  Translate(M, c, page) = Look(M, Pt(M, c, page), Path(page)[4])
  BY DEF Translate, Follow, Look, Pt

(* A frame of level l, or nothing.                                         *)
Level(role, l, x) == x = Absent \/ (x \in Frames /\ role[x] = l)

LEMMA LookDown ==
  ASSUME NEW M, NEW role, Tree(M, role), NEW l \in 1 .. 4, NEW x, Level(role, l, x), NEW i \in Index
  PROVE  Level(role, l + 1, Look(M, x, i))
  <1>1. CASE x = Absent
    BY <1>1 DEF Look, Level
  <1>2. CASE x # Absent
    <2>1. x \in Frames /\ role[x] \in 1 .. 4 /\ role[x] = l
      BY <1>2 DEF Level
    <2>2. Look(M, x, i) = M[x][i] /\ M[x][i] \in Entries
      BY <1>2, <2>1 DEF Look, Tree, Tables
    <2>3. M[x][i] # Absent => role[M[x][i]] = l + 1
      BY <2>1 DEF Tree, Tiers
    <2> QED BY <2>2, <2>3 DEF Level, Entries
  <1> QED BY <1>1, <1>2

LEMMA WalkLevels ==
  ASSUME NEW M, NEW role, Tree(M, role), NEW c \in Frames, role[c] = 1, NEW page \in Nat
  PROVE  LET a == Look(M, c, Path(page)[1])
             b == Look(M, a, Path(page)[2])
         IN  /\ Level(role, 2, a) /\ Level(role, 3, b) /\ Level(role, 4, Pt(M, c, page))
             /\ Level(role, 5, Translate(M, c, page))
  <1> DEFINE a == Look(M, c, Path(page)[1])
             b == Look(M, a, Path(page)[2])
             d == Look(M, b, Path(page)[3])
  <1>0. /\ Path(page)[1] \in Index /\ Path(page)[2] \in Index /\ Path(page)[3] \in Index
        /\ Path(page)[4] \in Index
    BY Paths
  <1>1. Level(role, 1, c) /\ 1 \in 1 .. 4 /\ 2 \in 1 .. 4 /\ 3 \in 1 .. 4 /\ 4 \in 1 .. 4
        /\ 1 + 1 = 2 /\ 2 + 1 = 3 /\ 3 + 1 = 4 /\ 4 + 1 = 5
    BY DEF Level
  <1>2. Level(role, 2, a)
    <2>1. Level(role, 1 + 1, a)
      BY <1>0, <1>1, LookDown
    <2> QED BY <2>1, <1>1
  <1> HIDE DEF a
  <1>3. Level(role, 3, b)
    <2>1. Level(role, 2 + 1, b)
      BY <1>0, <1>1, <1>2, LookDown
    <2> QED BY <2>1, <1>1
  <1> HIDE DEF b
  <1>4. Level(role, 4, d)
    <2>1. Level(role, 3 + 1, d)
      BY <1>0, <1>1, <1>3, LookDown
    <2> QED BY <2>1, <1>1
  <1> HIDE DEF d
  <1>5. Level(role, 5, Look(M, d, Path(page)[4]))
    <2>1. Level(role, 4 + 1, Look(M, d, Path(page)[4]))
      BY <1>0, <1>1, <1>4, LookDown
    <2> QED BY <2>1, <1>1
  <1>6. d = Pt(M, c, page)
    BY DEF d, b, a, Pt
  <1> QED BY <1>2, <1>3, <1>4, <1>5, <1>6, TranslateIs DEF a, b

LEMMA KernelTiers ==
  ASSUME NEW M, NEW role, Tree(M, role)
  PROVE  role[pml4_new] = 1 /\ role[pdpt_hi] = 2 /\ role[pd_hi] = 3
  <1>1. role[pml4_new] = 1 /\ M[pml4_new][K] = pdpt_hi /\ M[pdpt_hi][K - 1] = pd_hi
    BY Numbers DEF Tree, Shared
  <1>2. role[pdpt_hi] = role[pml4_new] + 1
    <2>1. role[pml4_new] \in 1 .. 4 /\ M[pml4_new][K] # Absent
      BY <1>1, Numbers
    <2> QED BY <2>1, <1>1, Numbers DEF Tree, Tiers
  <1>3. role[pd_hi] = role[pdpt_hi] + 1
    <2>1. role[pdpt_hi] \in 1 .. 4 /\ M[pdpt_hi][K - 1] # Absent
      BY <1>1, <1>2, Numbers
    <2> QED BY <2>1, <1>1, Numbers DEF Tree, Tiers
  <1> QED BY <1>1, <1>2, <1>3

(* Changes of frames that are no tables.                                   *)
Agree(M, L, role) == \A t \in Frames : role[t] \in 1 .. 4 => L[t] = M[t]
Walks(M, L, role) ==
  \A c \in Frames, page \in Pages : role[c] = 1 => Translate(L, c, page) = Translate(M, c, page)

LEMMA AgreeWalks ==
  ASSUME NEW M, NEW role, Tree(M, role), NEW L, Agree(M, L, role)
  PROVE  Walks(M, L, role)
  <1> SUFFICES ASSUME NEW c \in Frames, NEW page \in Pages, role[c] = 1
               PROVE  Translate(L, c, page) = Translate(M, c, page)
    BY DEF Walks
  <1>0. page \in Nat
    BY TopDigit
  <1> DEFINE a == Look(M, c, Path(page)[1])
             b == Look(M, a, Path(page)[2])
             d == Pt(M, c, page)
  <1>1. ASSUME NEW l \in 1 .. 4, NEW x, Level(role, l, x), NEW i PROVE Look(L, x, i) = Look(M, x, i)
    BY <1>1 DEF Look, Level, Agree
  <1>2. Level(role, 1, c) /\ 1 \in 1 .. 4 /\ 2 \in 1 .. 4 /\ 3 \in 1 .. 4 /\ 4 \in 1 .. 4
    BY DEF Level
  <1>3. Level(role, 2, a) /\ Level(role, 3, b) /\ Level(role, 4, d)
    BY <1>0, WalkLevels
  <1>4. Look(L, c, Path(page)[1]) = a
    BY <1>1, <1>2
  <1>5. Look(L, a, Path(page)[2]) = b
    BY <1>1, <1>2, <1>3
  <1>6. Look(L, b, Path(page)[3]) = d
    BY <1>1, <1>2, <1>3 DEF Pt
  <1>7. Look(L, d, Path(page)[4]) = Look(M, d, Path(page)[4])
    BY <1>1, <1>2, <1>3
  <1>8. Pt(L, c, page) = d
    BY <1>4, <1>5, <1>6 DEF Pt
  <1> QED BY <1>7, <1>8, TranslateIs

LEMMA AgreeTree ==
  ASSUME NEW M, NEW role, Tree(M, role), NEW L \in Tables, Agree(M, L, role)
  PROVE  Tree(L, role)
  <1>1. Tiers(L, role)
    BY DEF Tiers, Tree, Agree
  <1>2. Single(L, role)
    BY DEF Single, Tree, Agree
  <1>3. Shared(L, role)
    <2>1. role[pdpt_hi] = 2
      BY KernelTiers
    <2>2. role[pdpt_hi] \in 1 .. 4
      BY <2>1
    <2>3. L[pdpt_hi] = M[pdpt_hi]
      BY <2>2, Numbers DEF Agree
    <2>4. \A t \in Frames : role[t] = 1 => L[t] = M[t]
      BY DEF Agree
    <2> QED BY <2>3, <2>4 DEF Shared, Tree
  <1> QED BY <1>1, <1>2, <1>3 DEF Tree

(* A frame gets a use.                                                     *)
Gives(role, new, f, l) ==
  new \in Uses /\ new[f] = l /\ \A x \in Frames : x # f => new[x] = role[x]

LEMMA GiveOne ==
  ASSUME NEW role \in Uses, NEW f \in Frames, NEW l \in 0 .. 5
  PROVE  \E new : Gives(role, new, f, l)
  <1> DEFINE new == [role EXCEPT ![f] = l]
  <1>1. new \in Uses /\ new[f] = l /\ \A x \in Frames : x # f => new[x] = role[x]
    BY DEF Uses
  <1> HIDE DEF new
  <1> QED BY <1>1 DEF Gives

(* A new empty table, linked into a table t of level l.                    *)
Linked(M, L, t, i, f) ==
  /\ L \in Tables /\ L[t][i] = f
  /\ \A j \in Index : j # i => L[t][j] = M[t][j]
  /\ \A j \in Index : L[f][j] = Absent
  /\ \A u \in Frames : u # t /\ u # f => L[u] = M[u]

LEMMA LinkTree ==
  ASSUME NEW M, NEW role, Tree(M, role), NEW l \in 1 .. 3, NEW t \in Frames, role[t] = l,
         NEW i \in Index, M[t][i] = Absent, NEW f \in Frames, role[f] = 0,
         l + 1 <= 3 => f < SCRATCH, NEW L, Linked(M, L, t, i, f),
         NEW new, Gives(role, new, f, l + 1)
  PROVE  Tree(L, new)
  <1>1. new \in Uses /\ new[f] = l + 1 /\ \A x \in Frames : x # f => new[x] = role[x]
    BY DEF Gives
  <1>2. t # f /\ role[t] \in 1 .. 4 /\ new[f] # 0 /\ l + 1 # 1 /\ l + 1 \in 1 .. 4 /\ l + 1 \in 0 .. 5
    BY <1>1
  <1>3. /\ M \in Tables /\ L \in Tables /\ role \in Uses
        /\ L[t][i] = f /\ \A j \in Index : j # i => L[t][j] = M[t][j]
        /\ \A j \in Index : L[f][j] = Absent
        /\ \A u \in Frames : u # t /\ u # f => L[u] = M[u]
    BY DEF Linked, Tree
  <1>a. f # Absent
    BY Numbers
  <1>4. ASSUME NEW u \in Frames, NEW j \in Index, new[u] \in 1 .. 4, L[u][j] # Absent
        PROVE  \/ u = t /\ j = i /\ L[u][j] = f
               \/ /\ u # f /\ role[u] = new[u] /\ L[u][j] = M[u][j] /\ L[u][j] # f
                  /\ L[u][j] \in Frames /\ M[u][j] # Absent
    <2>1. CASE u = t /\ j = i
      BY <2>1, <1>3
    <2>2. CASE ~(u = t /\ j = i)
      <3>1. u # f
        BY <1>3, <1>4
      <3>2. L[u][j] = M[u][j] /\ role[u] = new[u]
        BY <1>1, <1>3, <2>2, <3>1
      <3>3. M[u][j] \in Frames
        BY <1>3, <1>4, <3>2 DEF Tables, Entries
      <3>4. role[M[u][j]] = role[u] + 1
        BY <1>4, <3>2 DEF Tree, Tiers
      <3>5. M[u][j] # f
        BY <1>4, <3>2, <3>4
      <3> QED BY <1>4, <3>1, <3>2, <3>3, <3>5
    <2> QED BY <2>1, <2>2
  <1>5. Tiers(L, new)
    <2> SUFFICES ASSUME NEW u \in Frames, NEW j \in Index, new[u] \in 1 .. 4, L[u][j] # Absent
                 PROVE  new[L[u][j]] = new[u] + 1
      BY DEF Tiers
    <2>1. CASE u = t /\ j = i /\ L[u][j] = f
      BY <2>1, <1>1, <1>2
    <2>2. CASE /\ u # f /\ role[u] = new[u] /\ L[u][j] = M[u][j] /\ L[u][j] # f
               /\ L[u][j] \in Frames /\ M[u][j] # Absent
      <3>1. role[M[u][j]] = role[u] + 1
        BY <2>2 DEF Tree, Tiers
      <3> QED BY <2>2, <3>1, <1>1
    <2> QED BY <1>4, <2>1, <2>2
  <1>6. Single(L, new)
    <2> SUFFICES ASSUME NEW u \in Frames, NEW v \in Frames, NEW j \in Index, NEW k \in Index,
                        new[u] \in 1 .. 4, new[v] \in 1 .. 4, L[u][j] # Absent, L[u][j] = L[v][k]
                 PROVE  (u = v /\ j = k) \/ (new[u] = 1 /\ j = K /\ k = K)
      BY DEF Single
    <2>1. \/ u = t /\ j = i /\ L[u][j] = f
          \/ /\ u # f /\ role[u] = new[u] /\ L[u][j] = M[u][j] /\ L[u][j] # f
             /\ M[u][j] # Absent
      BY <1>4
    <2>2. \/ v = t /\ k = i /\ L[v][k] = f
          \/ /\ v # f /\ role[v] = new[v] /\ L[v][k] = M[v][k] /\ L[v][k] # f
             /\ M[v][k] # Absent
      BY <1>4
    <2>3. CASE L[u][j] = f
      BY <2>1, <2>2, <2>3
    <2>4. CASE L[u][j] # f
      <3>1. /\ role[u] = new[u] /\ role[v] = new[v] /\ M[u][j] = M[v][k] /\ M[u][j] # Absent
        BY <2>1, <2>2, <2>4
      <3> QED BY <3>1 DEF Tree, Single
    <2> QED BY <2>3, <2>4
  <1>7. Shared(L, new)
    <2>1. role[pml4_new] = 1 /\ role[pdpt_hi] = 2 /\ role[pd_hi] = 3
      BY KernelTiers
    <2>2. pml4_new # f /\ pdpt_hi # f /\ pml4_new \in Frames /\ pdpt_hi \in Frames
      BY <2>1, Numbers
    <2>3. M[pdpt_hi][K - 1] = pd_hi /\ K - 1 \in Index /\ pd_hi # Absent
          /\ \A u \in Frames : role[u] = 1 => M[u][K] = pdpt_hi
      BY Numbers DEF Tree, Shared
    <2>4. L[pdpt_hi][K - 1] = pd_hi
      BY <1>3, <2>2, <2>3
    <2>5. ASSUME NEW u \in Frames, new[u] = 1 PROVE L[u][K] = pdpt_hi
      <3>1. u # f /\ role[u] = 1
        BY <1>1, <1>2, <2>5
      <3>2. M[u][K] = pdpt_hi /\ pdpt_hi # Absent /\ K \in Index
        BY <2>3, <3>1, Numbers
      <3> QED BY <1>3, <3>1, <3>2
    <2> QED BY <1>1, <2>1, <2>2, <2>4, <2>5 DEF Shared
  <1>8. InSight(new)
    <2>0. new[0] = 6 /\ new[SCRATCH] = 6
      BY <1>1, Numbers DEF Tree, InSight
    <2> SUFFICES ASSUME NEW u \in Frames PROVE new[u] \in 1 .. 3 => u < SCRATCH
      BY <2>0 DEF InSight
    <2>1. CASE u = f
      BY <2>1, <1>1
    <2>2. CASE u # f
      BY <2>2, <1>1 DEF Tree, InSight
    <2> QED BY <2>1, <2>2
  <1> QED BY <1>1, <1>3, <1>5, <1>6, <1>7, <1>8 DEF Tree

(* Where the walk in M is at x, the one in L is at y: it may have come to  *)
(* the new table, of level n.                                              *)
Beside(role, n, f, l, x, y) ==
  \/ x = y /\ Level(role, l, x)
  \/ x = Absent /\ y = f /\ l = n

LEMMA BesideStep ==
  ASSUME NEW M, NEW role, Tree(M, role), NEW n \in 2 .. 4, NEW t \in Frames, role[t] = n - 1,
         NEW i \in Index, M[t][i] = Absent, NEW f \in Frames, role[f] = 0,
         NEW L, Linked(M, L, t, i, f),
         NEW l \in 1 .. 4, NEW x, NEW y, Beside(role, n, f, l, x, y), NEW d \in Index
  PROVE  Beside(role, n, f, l + 1, Look(M, x, d), Look(L, y, d))
  <1>1. CASE x = y /\ x = Absent
    BY <1>1 DEF Beside, Look, Level
  <1>2. CASE x = y /\ x \in Frames /\ role[x] = l
    <2>1. x # f /\ x # Absent
      BY <1>2, Numbers
    <2>2. Look(M, x, d) = M[x][d] /\ Look(L, y, d) = L[x][d]
      BY <1>2, <2>1 DEF Look
    <2>3. CASE x = t /\ d = i
      <3>1. L[x][d] = f /\ M[x][d] = Absent /\ l = n - 1
        BY <1>2, <2>3 DEF Linked
      <3>2. l + 1 = n
        BY <3>1
      <3> QED BY <2>2, <3>1, <3>2 DEF Beside
    <2>4. CASE ~(x = t /\ d = i)
      <3>1. L[x][d] = M[x][d]
        BY <1>2, <2>1, <2>4 DEF Linked
      <3>2. Level(role, l, x)
        BY <1>2 DEF Level
      <3>3. Level(role, l + 1, Look(M, x, d))
        BY <3>2, LookDown
      <3> QED BY <2>2, <3>1, <3>3 DEF Beside
    <2> QED BY <2>3, <2>4
  <1>3. CASE x = Absent /\ y = f
    <2>1. Look(M, x, d) = Absent /\ Look(L, y, d) = Absent
      BY <1>3, Numbers DEF Look, Linked
    <2> QED BY <2>1 DEF Beside, Level
  <1> QED BY <1>1, <1>2, <1>3 DEF Beside, Level

LEMMA LinkWalks ==
  ASSUME NEW M, NEW role, Tree(M, role), NEW n \in 2 .. 4, NEW t \in Frames, role[t] = n - 1,
         NEW i \in Index, M[t][i] = Absent, NEW f \in Frames, role[f] = 0,
         NEW L, Linked(M, L, t, i, f)
  PROVE  Walks(M, L, role)
  <1> SUFFICES ASSUME NEW c \in Frames, NEW page \in Pages, role[c] = 1
               PROVE  Translate(L, c, page) = Translate(M, c, page)
    BY DEF Walks
  <1> DEFINE By(l, x, y) == Beside(role, n, f, l, x, y)
             p1 == Path(page)[1]
             p2 == Path(page)[2]
             p3 == Path(page)[3]
             p4 == Path(page)[4]
  <1>0. page \in Nat
    BY TopDigit
  <1>1. p1 \in Index /\ p2 \in Index /\ p3 \in Index /\ p4 \in Index
    BY <1>0, Paths
  <1>2. ASSUME NEW l \in 1 .. 4, NEW x, NEW y, By(l, x, y), NEW d \in Index
        PROVE  By(l + 1, Look(M, x, d), Look(L, y, d))
    BY <1>2, BesideStep
  <1>3. By(1, c, c)
    BY DEF Beside, Level
  <1>4. Pt(M, c, page) = Look(M, Look(M, Look(M, c, p1), p2), p3)
        /\ Pt(L, c, page) = Look(L, Look(L, Look(L, c, p1), p2), p3)
    BY DEF Pt
  <1>5. 1 \in 1 .. 4 /\ 2 \in 1 .. 4 /\ 3 \in 1 .. 4 /\ 4 \in 1 .. 4
        /\ 1 + 1 = 2 /\ 2 + 1 = 3 /\ 3 + 1 = 4 /\ 4 + 1 = 5
    OBVIOUS
  <1> HIDE DEF By, p1, p2, p3, p4
  <1>6. By(1 + 1, Look(M, c, p1), Look(L, c, p1))
    BY <1>1, <1>2, <1>3, <1>5
  <1>7. By(2 + 1, Look(M, Look(M, c, p1), p2), Look(L, Look(L, c, p1), p2))
    BY <1>1, <1>2, <1>5, <1>6
  <1>8. By(3 + 1, Pt(M, c, page), Pt(L, c, page))
    BY <1>1, <1>2, <1>4, <1>5, <1>7
  <1>9. By(4 + 1, Look(M, Pt(M, c, page), p4), Look(L, Pt(L, c, page), p4))
    BY <1>1, <1>2, <1>5, <1>8
  <1>10. By(5, Translate(M, c, page), Translate(L, c, page))
    BY <1>5, <1>9, TranslateIs DEF p4
  <1> QED BY <1>10 DEF By, Beside

LEMMA Only ==
  ASSUME NEW M, NEW role, Tree(M, role), NEW t \in Frames, NEW u \in Frames, NEW i \in Index, NEW j \in Index,
         role[t] \in 1 .. 4, role[u] \in 1 .. 4, M[t][i] # Absent, M[t][i] = M[u][j]
  PROVE  (t = u /\ i = j) \/ (role[t] = 1 /\ i = K /\ j = K)
  BY DEF Tree, Single

(* The last table of a path belongs to no other.                           *)
LEMMA PtUnique ==
  ASSUME NEW M, NEW role, Tree(M, role), NEW c \in Frames, NEW e \in Frames, role[c] = 1, role[e] = 1,
         NEW q \in Nat, NEW r \in Nat, Pt(M, c, q) # Absent, Pt(M, c, q) = Pt(M, e, r)
  PROVE  /\ Path(q)[1] = Path(r)[1] /\ Path(q)[2] = Path(r)[2] /\ Path(q)[3] = Path(r)[3]
         /\ c = e \/ Path(q)[1] = K
  <1> DEFINE a == Look(M, c, Path(q)[1])
             b == Look(M, a, Path(q)[2])
             v == Look(M, e, Path(r)[1])
             w == Look(M, v, Path(r)[2])
  <1>0. /\ Path(q)[1] \in Index /\ Path(q)[2] \in Index /\ Path(q)[3] \in Index
        /\ Path(r)[1] \in Index /\ Path(r)[2] \in Index /\ Path(r)[3] \in Index
    BY Paths
  <1>1. Level(role, 2, a) /\ Level(role, 3, b) /\ Level(role, 2, v) /\ Level(role, 3, w)
    BY WalkLevels
  <1>2. Pt(M, c, q) = Look(M, b, Path(q)[3]) /\ Pt(M, e, r) = Look(M, w, Path(r)[3])
    BY DEF Pt
  <1>3. c # Absent /\ e # Absent
    BY Numbers
  <1>4. /\ b = Look(M, a, Path(q)[2]) /\ w = Look(M, v, Path(r)[2])
        /\ a = M[c][Path(q)[1]] /\ v = M[e][Path(r)[1]]
    BY <1>3 DEF Look
  <1> HIDE DEF a, b, v, w
  <1>5. b # Absent /\ w # Absent /\ M[b][Path(q)[3]] # Absent /\ M[b][Path(q)[3]] = M[w][Path(r)[3]]
    BY <1>2 DEF Look
  <1>6. b \in Frames /\ w \in Frames /\ role[b] = 3 /\ role[w] = 3
    BY <1>1, <1>5 DEF Level
  <1>7. role[b] \in 1 .. 4 /\ role[w] \in 1 .. 4 /\ role[b] # 1
    BY <1>6
  <1>8. b = w /\ Path(q)[3] = Path(r)[3]
    BY <1>0, <1>5, <1>6, <1>7 DEF Tree, Single
  <1>9. a # Absent /\ v # Absent /\ M[a][Path(q)[2]] # Absent /\ M[a][Path(q)[2]] = M[v][Path(r)[2]]
    BY <1>4, <1>5, <1>8 DEF Look
  <1>10. a \in Frames /\ v \in Frames /\ role[a] = 2 /\ role[v] = 2
    BY <1>1, <1>9 DEF Level
  <1>11. role[a] \in 1 .. 4 /\ role[v] \in 1 .. 4 /\ role[a] # 1
    BY <1>10
  <1>12. a = v /\ Path(q)[2] = Path(r)[2]
    BY <1>0, <1>9, <1>10, <1>11 DEF Tree, Single
  <1>13. role[c] \in 1 .. 4 /\ role[e] \in 1 .. 4
    OBVIOUS
  <1>14. (c = e /\ Path(q)[1] = Path(r)[1]) \/ (Path(q)[1] = K /\ Path(r)[1] = K)
    <2> DEFINE i == Path(q)[1]
               j == Path(r)[1]
    <2>1. i \in Index /\ j \in Index /\ M[c][i] # Absent /\ M[c][i] = M[e][j]
      BY <1>0, <1>4, <1>9, <1>12
    <2> HIDE DEF i, j
    <2>2. (c = e /\ i = j) \/ (role[c] = 1 /\ i = K /\ j = K)
      BY <2>1, <1>13, Only
    <2> QED BY <2>2 DEF i, j
  <1> QED BY <1>8, <1>12, <1>14

(* An entry of a last table is written.                                    *)
Stored(M, L, t, j, x) ==
  /\ L \in Tables /\ L[t][j] = x
  /\ \A k \in Index : k # j => L[t][k] = M[t][k]
  /\ \A u \in Frames : u # t => L[u] = M[u]
Remapped(M, L, role, e, page, x) ==
  \A c \in Frames, q \in Pages : role[c] = 1 =>
    Translate(L, c, q) = IF q = page /\ (c = e \/ KernelPage(page)) THEN x ELSE Translate(M, c, q)

LEMMA StoredWalks ==
  ASSUME NEW M, NEW role, Tree(M, role), NEW e \in Frames, role[e] = 1, NEW page \in Pages,
         NEW t \in Frames, t = Pt(M, e, page), NEW x, NEW L, Stored(M, L, t, Path(page)[4], x)
  PROVE  Remapped(M, L, role, e, page, x)
  <1> SUFFICES ASSUME NEW c \in Frames, NEW q \in Pages, role[c] = 1
               PROVE  Translate(L, c, q) =
                        IF q = page /\ (c = e \/ KernelPage(page)) THEN x ELSE Translate(M, c, q)
    BY DEF Remapped
  <1>0. page \in Nat /\ q \in Nat /\ c # Absent /\ t # Absent
    BY TopDigit, Numbers
  <1> DEFINE a == Look(M, c, Path(q)[1])
             b == Look(M, a, Path(q)[2])
             d == Pt(M, c, q)
  <1>1. Level(role, 2, a) /\ Level(role, 3, b) /\ Level(role, 4, d)
    BY <1>0, WalkLevels
  <1>2. Path(q)[4] \in Index /\ Path(page)[4] \in Index
    BY <1>0, Paths
  <1>3. role[t] = 4
    <2>1. Level(role, 4, t)
      BY <1>0, WalkLevels
    <2> QED BY <2>1, <1>0 DEF Level
  <1>4. ASSUME NEW y, y = Absent \/ (y \in Frames /\ role[y] # 4), NEW i PROVE Look(L, y, i) = Look(M, y, i)
    BY <1>3, <1>4 DEF Look, Stored
  <1>5. Pt(L, c, q) = d
    <2>1. Look(L, c, Path(q)[1]) = a
      BY <1>4
    <2>2. a = Absent \/ (a \in Frames /\ role[a] # 4)
      BY <1>1 DEF Level
    <2>3. Look(L, a, Path(q)[2]) = b
      BY <1>4, <2>2
    <2>4. b = Absent \/ (b \in Frames /\ role[b] # 4)
      BY <1>1 DEF Level
    <2>5. Look(L, b, Path(q)[3]) = d
      BY <1>4, <2>4 DEF Pt
    <2> QED BY <2>1, <2>3, <2>5 DEF Pt
  <1>6. Translate(L, c, q) = Look(L, d, Path(q)[4]) /\ Translate(M, c, q) = Look(M, d, Path(q)[4])
    BY <1>5, TranslateIs
  <1>7. d = t /\ Path(q)[4] = Path(page)[4] <=> q = page /\ (c = e \/ KernelPage(page))
    <2>1. ASSUME d = t, Path(q)[4] = Path(page)[4] PROVE q = page /\ (c = e \/ KernelPage(page))
      <3>1. /\ Path(q)[1] = Path(page)[1] /\ Path(q)[2] = Path(page)[2] /\ Path(q)[3] = Path(page)[3]
            /\ c = e \/ Path(q)[1] = K
        BY <1>0, <2>1, PtUnique
      <3>2. \A l \in 1 .. 4 : Path(q)[l] = Path(page)[l]
        <4> TAKE l \in 1 .. 4
        <4>1. l = 1 \/ l = 2 \/ l = 3 \/ l = 4
          OBVIOUS
        <4> QED BY <2>1, <3>1, <4>1
      <3>3. q = page
        BY <1>0, <3>2, PathUnique
      <3> QED BY <3>1, <3>3, KernelPath
    <2>2. ASSUME q = page, c = e \/ KernelPage(page) PROVE d = t /\ Path(q)[4] = Path(page)[4]
      <3>1. CASE c = e
        BY <2>2, <3>1
      <3>2. CASE KernelPage(page)
        <4>1. Path(page)[1] = K
          BY <3>2, KernelPath
        <4>2. M[c][K] = pdpt_hi /\ M[e][K] = pdpt_hi /\ e # Absent
          BY Numbers DEF Tree, Shared
        <4>3. Look(M, c, K) = Look(M, e, K)
          BY <1>0, <4>2 DEF Look
        <4> QED BY <2>2, <4>1, <4>3 DEF Pt
      <3> QED BY <2>2, <3>1, <3>2
    <2> QED BY <2>1, <2>2
  <1> HIDE DEF d
  <1>8. CASE d = t /\ Path(q)[4] = Path(page)[4]
    <2>1. Translate(L, c, q) = x
      BY <1>0, <1>6, <1>8 DEF Look, Stored
    <2> QED BY <1>7, <1>8, <2>1
  <1>9. CASE ~(d = t /\ Path(q)[4] = Path(page)[4])
    <2>1. Look(L, d, Path(q)[4]) = Look(M, d, Path(q)[4])
      <3>1. CASE d = t
        BY <1>2, <1>9, <3>1 DEF Look, Stored
      <3>2. CASE d # t
        BY <1>1, <3>2 DEF Look, Stored, Level
      <3> QED BY <3>1, <3>2
    <2> QED BY <1>6, <1>7, <1>9, <2>1
  <1> QED BY <1>8, <1>9

(* The entry is cleared, or leads to a frame of no known use, now a page.  *)
Marked(role, new, x) ==
  /\ new \in Uses /\ \A u \in Frames : u # x => new[u] = role[u]
  /\ x # Absent => x \in Frames /\ role[x] = 0 /\ new[x] = 5

LEMMA StoredTree ==
  ASSUME NEW M, NEW role, Tree(M, role), NEW t \in Frames, role[t] = 4, NEW j \in Index,
         NEW x, NEW L, Stored(M, L, t, j, x), NEW new, Marked(role, new, x)
  PROVE  Tree(L, new)
  <1>1. /\ new \in Uses /\ \A u \in Frames : u # x => new[u] = role[u]
        /\ x # Absent => x \in Frames /\ role[x] = 0 /\ new[x] = 5
    BY DEF Marked
  <1>2. /\ L \in Tables /\ L[t][j] = x /\ role \in Uses /\ M \in Tables
        /\ \A k \in Index : k # j => L[t][k] = M[t][k]
        /\ \A u \in Frames : u # t => L[u] = M[u]
    BY DEF Stored, Tree
  <1>3. ASSUME NEW u \in Frames, new[u] \in 1 .. 4 PROVE role[u] = new[u] /\ u # x
    <2>1. u # Absent
      BY Numbers
    <2>2. u # x
      BY <1>1, <1>3, <2>1
    <2> QED BY <1>1, <2>2
  <1>4. ASSUME NEW u \in Frames, NEW k \in Index, new[u] \in 1 .. 4, L[u][k] # Absent
        PROVE  \/ u = t /\ k = j /\ L[u][k] = x
               \/ /\ L[u][k] = M[u][k] /\ L[u][k] # x /\ L[u][k] \in Frames /\ M[u][k] # Absent
    <2>1. CASE u = t /\ k = j
      BY <2>1, <1>2
    <2>2. CASE ~(u = t /\ k = j)
      <3>1. L[u][k] = M[u][k]
        BY <1>2, <2>2
      <3>2. M[u][k] \in Frames /\ M[u][k] # Absent
        BY <1>2, <1>4, <3>1 DEF Tables, Entries
      <3>3. role[M[u][k]] = role[u] + 1 /\ role[u] \in 1 .. 4
        BY <1>3, <1>4, <3>2 DEF Tree, Tiers
      <3>4. role[M[u][k]] # 0
        BY <3>3
      <3>5. M[u][k] # x
        BY <1>1, <3>2, <3>4
      <3> QED BY <3>1, <3>2, <3>5
    <2> QED BY <2>1, <2>2
  <1>5. Tiers(L, new)
    <2> SUFFICES ASSUME NEW u \in Frames, NEW k \in Index, new[u] \in 1 .. 4, L[u][k] # Absent
                 PROVE  new[L[u][k]] = new[u] + 1
      BY DEF Tiers
    <2>1. CASE u = t /\ k = j /\ L[u][k] = x
      <3>1. new[u] = 4 /\ x # Absent
        BY <2>1, <1>3
      <3> QED BY <2>1, <3>1, <1>1
    <2>2. CASE L[u][k] = M[u][k] /\ L[u][k] # x /\ L[u][k] \in Frames /\ M[u][k] # Absent
      <3>1. role[M[u][k]] = role[u] + 1
        BY <2>2, <1>3 DEF Tree, Tiers
      <3>2. new[M[u][k]] = role[M[u][k]] /\ role[u] = new[u]
        BY <2>2, <1>1, <1>3
      <3> QED BY <2>2, <3>1, <3>2
    <2> QED BY <1>4, <2>1, <2>2
  <1>6. Single(L, new)
    <2> SUFFICES ASSUME NEW u \in Frames, NEW v \in Frames, NEW i \in Index, NEW k \in Index,
                        new[u] \in 1 .. 4, new[v] \in 1 .. 4, L[u][i] # Absent, L[u][i] = L[v][k]
                 PROVE  (u = v /\ i = k) \/ (new[u] = 1 /\ i = K /\ k = K)
      BY DEF Single
    <2>1. \/ u = t /\ i = j /\ L[u][i] = x
          \/ L[u][i] = M[u][i] /\ L[u][i] # x /\ M[u][i] # Absent
      BY <1>4
    <2>2. \/ v = t /\ k = j /\ L[v][k] = x
          \/ L[v][k] = M[v][k] /\ L[v][k] # x /\ M[v][k] # Absent
      BY <1>4
    <2>3. CASE L[u][i] = x
      BY <2>1, <2>2, <2>3
    <2>4. CASE L[u][i] # x
      <3>1. M[u][i] = M[v][k] /\ M[u][i] # Absent
        BY <2>1, <2>2, <2>4
      <3>2. role[u] = new[u] /\ role[v] = new[v]
        BY <1>3
      <3>3. role[u] \in 1 .. 4 /\ role[v] \in 1 .. 4
        BY <3>2
      <3> QED BY <3>1, <3>2, <3>3, Only
    <2> QED BY <2>3, <2>4
  <1>7. Shared(L, new)
    <2>1. role[pml4_new] = 1 /\ role[pdpt_hi] = 2 /\ role[pd_hi] = 3
      BY KernelTiers
    <2>2. pml4_new # x /\ pml4_new \in Frames /\ pdpt_hi \in Frames /\ pdpt_hi # t
      BY <1>1, <2>1, Numbers
    <2>3. M[pdpt_hi][K - 1] = pd_hi /\ \A u \in Frames : role[u] = 1 => M[u][K] = pdpt_hi
      BY DEF Tree, Shared
    <2>4. L[pdpt_hi][K - 1] = pd_hi
      BY <1>2, <2>2, <2>3
    <2>5. ASSUME NEW u \in Frames, new[u] = 1 PROVE L[u][K] = pdpt_hi
      <3>1. role[u] = 1
        BY <1>3, <2>5
      <3>2. u # t
        BY <3>1
      <3> QED BY <1>2, <2>3, <3>1, <3>2
    <2>6. new[pml4_new] = 1
      BY <1>1, <2>1, <2>2
    <2> QED BY <2>4, <2>5, <2>6 DEF Shared
  <1>8. InSight(new)
    <2>0. new[0] = 6 /\ new[SCRATCH] = 6
      BY <1>1, Numbers DEF Tree, InSight
    <2> SUFFICES ASSUME NEW u \in Frames PROVE new[u] \in 1 .. 3 => u < SCRATCH
      BY <2>0 DEF InSight
    <2>1. CASE u = x
      <3>1. u # Absent
        BY Numbers
      <3> QED BY <2>1, <3>1, <1>1
    <2>2. CASE u # x
      BY <2>2, <1>1 DEF Tree, InSight
    <2> QED BY <2>1, <2>2
  <1> QED BY <1>1, <1>2, <1>5, <1>6, <1>7, <1>8 DEF Tree

-----------------------------------------------------------------------------
(* The free frames have no use, and may be given any; the frame below the  *)
(* scratch window alone may be free as well, and is never given one.       *)
Sound(m, role) ==
  /\ m \in Machine /\ Tree(m.mem, role)
  /\ \A g \in m.free : role[g] = 0 \/ g = SCRATCH

(* Entries in use are kept, and frames that were not free keep their use.  *)
Keeps(M, L, role) ==
  \A t \in Frames, i \in Index : role[t] \in 1 .. 4 /\ M[t][i] # Absent => L[t][i] = M[t][i]

(* A frame in use is a PML4 or has an entry that leads to it, other than an*)
(* entry of pml4_new that no page of the kernel needs.                     *)
Open(t, i) == t = pml4_new => i = K
Hangs(M, role, x) ==
  \/ role[x] = 1
  \/ \E t \in Frames, i \in Index : role[t] \in 1 .. 4 /\ M[t][i] = x /\ Open(t, i)
Kept(m, role, x) == x \in m.free \/ Hangs(m.mem, role, x)
Spares(m, role, r, new) == \A x \in Frames : Kept(m, role, x) => Kept(r, new, x)

LEMMA HangsOn ==
  ASSUME NEW M, NEW L, NEW role, NEW new, Keeps(M, L, role), \A u \in Frames : role[u] # 0 => new[u] = role[u],
         NEW x \in Frames, Hangs(M, role, x)
  PROVE  Hangs(L, new, x)
  <1>1. CASE role[x] = 1
    <2>1. role[x] # 0
      BY <1>1
    <2> QED BY <1>1, <2>1 DEF Hangs
  <1>2. CASE \E t \in Frames, i \in Index : role[t] \in 1 .. 4 /\ M[t][i] = x /\ Open(t, i)
    <2>1. PICK t \in Frames, i \in Index : role[t] \in 1 .. 4 /\ M[t][i] = x /\ Open(t, i)
      BY <1>2
    <2>2. M[t][i] # Absent /\ role[t] # 0
      BY <2>1, Numbers
    <2>3. L[t][i] = x /\ new[t] = role[t]
      BY <2>1, <2>2 DEF Keeps
    <2> QED BY <2>1, <2>3 DEF Hangs
  <1> QED BY <1>1, <1>2 DEF Hangs

Grown(m, r, role, new) ==
  /\ Sound(r, new) /\ r.free \subseteq m.free /\ Walks(m.mem, r.mem, role) /\ Keeps(m.mem, r.mem, role)
  /\ Spares(m, role, r, new)
  /\ \A x \in Frames : (x \notin m.free => new[x] = role[x]) /\ (new[x] = 1 => role[x] = 1)

LEMMA GrownSelf ==
  ASSUME NEW m, NEW role, Sound(m, role)
  PROVE  Grown(m, m, role, role)
  BY DEF Grown, Walks, Keeps, Spares

LEMMA GrownKeeps ==
  ASSUME NEW m, NEW r, NEW role, NEW new, Sound(m, role), Grown(m, r, role, new), NEW x \in Frames, role[x] # 0
  PROVE  new[x] = role[x]
  <1>1. CASE x = SCRATCH
    BY <1>1 DEF Grown, Sound, Tree, InSight
  <1>2. CASE x # SCRATCH
    BY <1>2 DEF Grown, Sound
  <1> QED BY <1>1, <1>2

LEMMA GrownTwice ==
  ASSUME NEW m, NEW r, NEW s, NEW role, NEW new, NEW last,
         Sound(m, role), Grown(m, r, role, new), Grown(r, s, new, last)
  PROVE  Grown(m, s, role, last)
  <1>1. \A x \in Frames : role[x] # 0 => new[x] = role[x]
    BY GrownKeeps
  <1>2. Walks(m.mem, s.mem, role)
    <2> SUFFICES ASSUME NEW c \in Frames, NEW page \in Pages, role[c] = 1
                 PROVE  Translate(s.mem, c, page) = Translate(m.mem, c, page)
      BY DEF Walks
    <2>1. new[c] = 1
      BY <1>1
    <2> QED BY <2>1 DEF Grown, Walks
  <1>3. Keeps(m.mem, s.mem, role)
    <2> SUFFICES ASSUME NEW t \in Frames, NEW i \in Index, role[t] \in 1 .. 4, m.mem[t][i] # Absent
                 PROVE  s.mem[t][i] = m.mem[t][i]
      BY DEF Keeps
    <2>1. new[t] = role[t]
      BY <1>1
    <2>2. r.mem[t][i] = m.mem[t][i]
      BY DEF Grown, Keeps
    <2> QED BY <2>1, <2>2 DEF Grown, Keeps
  <1>4. \A x \in Frames : (x \notin m.free => last[x] = role[x]) /\ (last[x] = 1 => role[x] = 1)
    BY DEF Grown
  <1>5. Sound(s, last) /\ s.free \subseteq m.free
    BY DEF Grown
  <1>6. Spares(m, role, s, last)
    BY DEF Grown, Spares
  <1> QED BY <1>2, <1>3, <1>4, <1>5, <1>6 DEF Grown

(* The pointer and the scratch page alone.                                 *)
LEMMA GrownVirt ==
  ASSUME NEW m, NEW r, NEW role, NEW new, Grown(m, r, role, new), NEW f \in Frames
  PROVE  Grown(m, virt_for_phys(r, f), role, new)
  <1>1. virt_for_phys(r, f) \in Machine /\ virt_for_phys(r, f).mem = r.mem
        /\ virt_for_phys(r, f).free = r.free
    BY VirtIs DEF Grown, Sound
  <1>2. Spares(m, role, virt_for_phys(r, f), new)
    BY <1>1 DEF Grown, Spares, Kept
  <1> QED BY <1>1, <1>2 DEF Grown, Sound

(* A new table comes from where it may lie.                                *)
NewInSight(m, l, t, i) ==
  m.mem[t][i] # Absent \/ m.free = {} \/ (Lowest(m) # SCRATCH /\ (l = 3 \/ Lowest(m) < SCRATCH))

Callers == {"paging_map_page", "elf_load"}

LEMMA NewTableIs ==
  ASSUME NEW m, NEW role, Sound(m, role), NEW l \in 1 .. 3, NEW t \in Frames, role[t] = l,
         NEW i \in Index, m.free # {}, NEW caller \in Callers, NEW f, f = Lowest(m), f # SCRATCH,
         NEW r, r = NewTable(m, t, i, caller)
  PROVE  /\ r \in Machine /\ Linked(m.mem, r.mem, t, i, f) /\ r.free = m.free \ {f}
         /\ f \in m.free /\ f \in Frames /\ role[f] = 0
  <1>1. m \in Machine /\ m.mem \in Tables /\ t < SCRATCH
    BY DEF Sound, Tree, InSight
  <1>2. f \in m.free /\ f \in Frames /\ f # SCRATCH /\ role[f] = 0
    BY <1>1, LowestIs DEF Sound
  <1>3. t # f
    BY <1>2
  <1> DEFINE s == IF caller = "paging_map_page" THEN scratch_map(Taken(m), f) ELSE virt_for_phys(Taken(m), f)
             p == IF caller = "paging_map_page" THEN SCRATCH ELSE Pointer(f)
             z == Zero(s, p)
  <1>4. r = Store(z, t, i, f)
    BY DEF NewTable
  <1>5. Taken(m) \in Machine /\ Taken(m).mem = m.mem /\ Taken(m).free = m.free \ {f}
    BY <1>1, TakenIs
  <1>6. s \in Machine /\ s.mem = m.mem /\ s.free = m.free \ {f} /\ p \in Frames /\ Shows(s, p) = f
    <2>1. CASE caller = "paging_map_page"
      <3>1. s = scratch_map(Taken(m), f) /\ p = SCRATCH
        BY <2>1
      <3>2. /\ scratch_map(Taken(m), f) \in Machine /\ scratch_map(Taken(m), f).mem = Taken(m).mem
            /\ scratch_map(Taken(m), f).free = Taken(m).free
            /\ Shows(scratch_map(Taken(m), f), SCRATCH) = f
        BY <1>2, <1>5, MapIs
      <3>3. SCRATCH \in Frames
        BY Numbers
      <3> QED BY <1>5, <3>1, <3>2, <3>3
    <2>2. CASE caller # "paging_map_page"
      <3>1. s = virt_for_phys(Taken(m), f) /\ p = Pointer(f)
        BY <2>2
      <3>2. /\ virt_for_phys(Taken(m), f) \in Machine /\ virt_for_phys(Taken(m), f).mem = Taken(m).mem
            /\ virt_for_phys(Taken(m), f).free = Taken(m).free
            /\ Shows(virt_for_phys(Taken(m), f), Pointer(f)) = f
        BY <1>2, <1>5, VirtIs
      <3>3. Pointer(f) \in Frames
        BY <1>2, PointerIs
      <3> QED BY <1>5, <3>1, <3>2, <3>3
    <2> QED BY <2>1, <2>2
  <1> HIDE DEF s, p
  <1>7. z \in Machine /\ z.mem = Clear(m.mem, f) /\ z.free = m.free \ {f}
    BY <1>6, ZeroIs
  <1> HIDE DEF z
  <1>8. Shows(z, t) = t
    BY <1>1, LowShows
  <1>9. f \in Entries
    BY <1>2 DEF Entries
  <1>10. r \in Machine /\ r.mem = Put(z.mem, t, i, f) /\ r.free = m.free \ {f}
    BY <1>4, <1>7, <1>8, <1>9, StoreIs
  <1>11. Linked(m.mem, r.mem, t, i, f)
    <2> DEFINE C == Clear(m.mem, f)
               L == Put(C, t, i, f)
    <2>1. C \in Tables /\ Same(m.mem, C, f) /\ \A j \in Index : C[f][j] = Absent
      BY <1>1, <1>2, ClearIs
    <2> HIDE DEF C
    <2>2. L \in Tables /\ Same(C, L, t) /\ L[t][i] = f /\ \A j \in Index : j # i => L[t][j] = C[t][j]
      BY <1>9, <2>1, PutIs
    <2>3. r.mem = L
      BY <1>7, <1>10 DEF C
    <2> HIDE DEF L
    <2> QED BY <1>2, <1>3, <2>1, <2>2, <2>3 DEF Linked, Same
  <1> QED BY <1>2, <1>10, <1>11

(* A step down from table t of level l: to x, or there is no frame for it. *)
Walk(m, p, ok) == [m |-> m, p |-> p, ok |-> ok]
LEMMA FailIs ==
  ASSUME NEW m, NEW p, NEW ok
  PROVE  [Walk(m, p, ok) EXCEPT !.ok = FALSE] = Walk(m, p, FALSE)
  <1> DEFINE w == Walk(m, p, ok)
             no == FALSE
             v == [w EXCEPT !.ok = no]
  <1>1. DOMAIN w = {"m", "p", "ok"} /\ w.m = m /\ w.p = p
    BY DEF Walk
  <1> HIDE DEF w, no
  <1>2. DOMAIN v = {"m", "p", "ok"} /\ v.m = m /\ v.p = p /\ v.ok = no
    BY <1>1
  <1>3. v = [x \in {"m", "p", "ok"} |-> v[x]]
    BY <1>1, <1>2
  <1> HIDE DEF v
  <1>4. v = [m |-> m, p |-> p, ok |-> no]
    BY <1>2, <1>3
  <1> QED BY <1>4 DEF v, w, no, Walk

Enters(m, n, role, new, l, t, i, x) ==
  /\ Grown(m, n, role, new)
  /\ x = n.mem[t][i] /\ x \in Frames /\ new[x] = l + 1 /\ Shows(n, Pointer(x)) = x
  /\ n.free = m.free \/ (m.free # {} /\ n.free = m.free \ {Lowest(m)})

LEMMA EnterIs ==
  ASSUME NEW m, NEW r, NEW role, NEW new, Sound(m, role), Grown(m, r, role, new),
         NEW l \in 1 .. 3, NEW t \in Frames, NEW i \in Index, NEW x \in Frames,
         x = r.mem[t][i], new[x] = l + 1,
         r.free = m.free \/ (m.free # {} /\ r.free = m.free \ {Lowest(m)})
  PROVE  Enters(m, virt_for_phys(r, x), role, new, l, t, i, x)
  <1>1. r \in Machine /\ x # SCRATCH
    <2>1. new[x] # 6
      OBVIOUS
    <2> QED BY <2>1, RoleFrame DEF Grown, Sound
  <1>2. /\ virt_for_phys(r, x).mem = r.mem /\ virt_for_phys(r, x).free = r.free
        /\ Shows(virt_for_phys(r, x), Pointer(x)) = x
    BY <1>1, VirtIs
  <1>3. Grown(m, virt_for_phys(r, x), role, new)
    BY GrownVirt
  <1> QED BY <1>2, <1>3 DEF Enters

LEMMA NewTableGrown ==
  ASSUME NEW m, NEW role, Sound(m, role), NEW l \in 1 .. 3, NEW t \in Frames, role[t] = l,
         NEW i \in Index, m.mem[t][i] = Absent, m.free # {}, NewInSight(m, l, t, i), Open(t, i),
         NEW caller \in Callers
  PROVE  LET r == NewTable(m, t, i, caller)
         IN  \E new : /\ Grown(m, r, role, new) /\ r.mem[t][i] = Lowest(m) /\ Lowest(m) \in Frames
                      /\ new[Lowest(m)] = l + 1 /\ r.free = m.free \ {Lowest(m)}
  <1> DEFINE f == Lowest(m)
             r == NewTable(m, t, i, caller)
  <1>1. /\ r \in Machine /\ Linked(m.mem, r.mem, t, i, f) /\ r.free = m.free \ {f}
        /\ f \in m.free /\ f \in Frames /\ role[f] = 0
    BY NewTableIs DEF NewInSight
  <1>2. l + 1 <= 3 => f < SCRATCH
    BY DEF NewInSight
  <1>3. l + 1 \in 0 .. 5 /\ role \in Uses /\ l + 1 \in 2 .. 4 /\ l + 1 - 1 = l /\ l + 1 # 1
    BY DEF Sound, Tree
  <1> HIDE DEF f, r
  <1>4. PICK new : Gives(role, new, f, l + 1)
    BY <1>1, <1>3, GiveOne
  <1>5. Tree(m.mem, role)
    BY DEF Sound
  <1>6. Tree(r.mem, new)
    BY <1>1, <1>2, <1>4, <1>5, LinkTree
  <1>7. Walks(m.mem, r.mem, role)
    <2> DEFINE n == l + 1
    <2>1. n \in 2 .. 4 /\ role[t] = n - 1
      BY <1>3
    <2> HIDE DEF n
    <2> QED BY <1>1, <1>5, <2>1, LinkWalks
  <1>8. Keeps(m.mem, r.mem, role)
    <2> SUFFICES ASSUME NEW u \in Frames, NEW j \in Index, role[u] \in 1 .. 4, m.mem[u][j] # Absent
                 PROVE  r.mem[u][j] = m.mem[u][j]
      BY DEF Keeps
    <2>1. u # f /\ ~(u = t /\ j = i)
      BY <1>1
    <2> QED BY <1>1, <2>1 DEF Linked
  <1>9. Sound(r, new)
    <2>1. \A g \in r.free : new[g] = 0 \/ g = SCRATCH
      BY <1>1, <1>4 DEF Gives, Sound, Machine
    <2> QED BY <1>1, <1>6, <2>1 DEF Sound
  <1>10. \A x \in Frames : (x \notin m.free => new[x] = role[x]) /\ (new[x] = 1 => role[x] = 1)
    <2>1. \A x \in Frames : x # f => new[x] = role[x]
      BY <1>4 DEF Gives
    <2>2. new[f] # 1
      BY <1>3, <1>4 DEF Gives
    <2> QED BY <1>1, <2>1, <2>2
  <1>11. new[f] = l + 1 /\ r.mem[t][i] = f
    BY <1>1, <1>4 DEF Gives, Linked
  <1>12. Spares(m, role, r, new)
    <2> SUFFICES ASSUME NEW x \in Frames, Kept(m, role, x) PROVE Kept(r, new, x)
      BY DEF Spares
    <2>1. CASE x = f
      <3>1. t # f
        BY <1>1
      <3>2. new[t] = l
        BY <1>4, <3>1 DEF Gives
      <3>3. new[t] \in 1 .. 4
        BY <3>2
      <3> QED BY <1>11, <2>1, <3>3 DEF Kept, Hangs
    <2>2. CASE x # f /\ x \in m.free
      BY <1>1, <2>2 DEF Kept
    <2>3. CASE Hangs(m.mem, role, x)
      <3>1. \A u \in Frames : role[u] # 0 => new[u] = role[u]
        BY <1>1, <1>4 DEF Gives
      <3> QED BY <1>8, <2>3, <3>1, HangsOn DEF Kept
    <2> QED BY <2>1, <2>2, <2>3 DEF Kept
  <1> QED BY <1>1, <1>7, <1>8, <1>9, <1>10, <1>11, <1>12 DEF Grown, f, r

LEMMA OpenBelow ==
  ASSUME NEW m, NEW role, Sound(m, role), NEW t, role[t] # 1, NEW i
  PROVE  Open(t, i)
  BY DEF Sound, Tree, Shared, Open

LEMMA DescendIs ==
  ASSUME NEW m, NEW role, Sound(m, role), NEW l \in 1 .. 3, NEW t \in Frames, role[t] = l,
         NEW i \in Index, NewInSight(m, l, t, i), Open(t, i), NEW caller \in Callers
  PROVE  LET r == Descend(Walk(m, t, TRUE), i, caller)
         IN  \/ r = Walk(m, t, FALSE) /\ m.free = {} /\ m.mem[t][i] = Absent
             \/ \E n, new, x : r = Walk(n, Pointer(x), TRUE) /\ Enters(m, n, role, new, l, t, i, x)
  <1> DEFINE w == Walk(m, t, TRUE)
             r == Descend(w, i, caller)
  <1>1. t < SCRATCH /\ m \in Machine /\ m.mem \in Tables
    BY DEF Sound, Tree, InSight
  <1>2. w.m = m /\ w.p = t /\ w.ok = TRUE /\ [w EXCEPT !.ok = FALSE] = Walk(m, t, FALSE)
    <2>1. w.m = m /\ w.p = t /\ w.ok = TRUE
      BY DEF Walk
    <2>2. [w EXCEPT !.ok = FALSE] = Walk(m, t, FALSE)
      BY FailIs
    <2> QED BY <2>1, <2>2
  <1>3. \A n : Shows(n, t) = t
    BY <1>1, LowShows
  <1>4. \A n : Load(n, t, i) = n.mem[t][i]
    BY <1>3 DEF Load
  <1>5. caller # "kernel_main"
    BY DEF Callers
  <1> HIDE DEF w
  <1>6. CASE m.mem[t][i] # Absent
    <2> DEFINE x == m.mem[t][i]
    <2>1. x \in Frames /\ role[x] = l + 1
      <3>1. x \in Frames
        BY <1>1, <1>6 DEF Tables, Entries
      <3>2. role[t] \in 1 .. 4
        OBVIOUS
      <3> QED BY <1>6, <3>1, <3>2 DEF Sound, Tree, Tiers
    <2>2. r = [m |-> virt_for_phys(m, x), p |-> Pointer(x), ok |-> TRUE]
      BY <1>2, <1>4, <1>6 DEF Descend, NoFrameFor
    <2>3. r = Walk(virt_for_phys(m, x), Pointer(x), TRUE)
      BY <2>2 DEF Walk
    <2> HIDE DEF x, r
    <2>4. Enters(m, virt_for_phys(m, x), role, role, l, t, i, x)
      BY <2>1, GrownSelf, EnterIs DEF x
    <2> QED BY <2>3, <2>4 DEF r, w
  <1>7. CASE m.mem[t][i] = Absent /\ m.free = {}
    <2>1. Lowest(m) = 0
      BY <1>1, <1>7, LowestIs
    <2>2. r = [w EXCEPT !.ok = FALSE]
      BY <1>2, <1>4, <1>5, <1>7, <2>1 DEF Descend, NoFrameFor
    <2> QED BY <1>2, <1>7, <2>2 DEF w
  <1>8. CASE m.mem[t][i] = Absent /\ m.free # {}
    <2> DEFINE y == NewTable(m, t, i, caller)
               x == Lowest(m)
    <2>1. PICK new : /\ Grown(m, y, role, new) /\ y.mem[t][i] = x /\ x \in Frames
                     /\ new[x] = l + 1 /\ y.free = m.free \ {x}
      BY <1>8, NewTableGrown
    <2>2. x # 0
      BY <1>1, <1>8, LowestIs
    <2>3. r = [m |-> virt_for_phys(y, x), p |-> Pointer(x), ok |-> TRUE]
      <3> HIDE DEF x
      <3>1. Load(m, t, i) = Absent /\ Load(y, t, i) = x
        BY <1>4, <1>8, <2>1
      <3> QED BY <1>2, <2>2, <3>1 DEF Descend, NoFrameFor, x
    <2>4. r = Walk(virt_for_phys(y, x), Pointer(x), TRUE)
      BY <2>3 DEF Walk
    <2> HIDE DEF y, r
    <2>5. Enters(m, virt_for_phys(y, x), role, new, l, t, i, x)
      BY <1>8, <2>1, EnterIs
    <2> QED BY <2>4, <2>5 DEF r, w
  <1> QED BY <1>6, <1>7, <1>8

(* Free frames that the kernel sees directly: all of them, or n.           *)
Low == 0 .. SCRATCH - 1
Room(F, n) == F \subseteq Low \/ Cardinality(F \cap Low) >= n

LEMMA RoomIs ==
  ASSUME NEW m \in Machine, NEW n \in Nat, Room(m.free, n + 1), m.free # {}
  PROVE  Lowest(m) < SCRATCH /\ Room(m.free \ {Lowest(m)}, n)
  <1> DEFINE F == m.free
             f == Lowest(m)
             T == F \cap Low
  <1>1. /\ f \in F /\ \A g \in F : f <= g
        /\ F \subseteq Nat /\ SCRATCH \in Nat
    BY LowestIs, Numbers DEF Machine
  <1> HIDE DEF F, f
  <1>2. IsFiniteSet(T)
    <2>1. IsFiniteSet(Low)
      BY <1>1, FS_Interval DEF Low
    <2> QED BY <2>1, FS_Subset
  <1>3. T # {}
    <2>1. CASE F \subseteq Low
      BY <1>1, <2>1
    <2>2. CASE Cardinality(T) >= n + 1
      <3>1. T = {} => Cardinality(T) = 0
        BY FS_EmptySet
      <3> HIDE DEF T
      <3> QED BY <2>2, <3>1
    <2> QED BY <2>1, <2>2 DEF Room, F
  <1>4. f < SCRATCH /\ f \in T
    <2>1. PICK g \in T : TRUE
      BY <1>3
    <2>2. g \in F /\ g \in 0 .. SCRATCH - 1
      BY <2>1 DEF Low
    <2>3. f <= g /\ f \in Nat /\ g \in Nat /\ g < SCRATCH
      BY <1>1, <2>2
    <2>4. f < SCRATCH
      BY <1>1, <2>3
    <2>5. f \in Low
      BY <1>1, <2>3, <2>4 DEF Low
    <2> QED BY <1>1, <2>4, <2>5
  <1>5. Room(F \ {f}, n)
    <2>1. CASE F \subseteq Low
      BY <2>1 DEF Room
    <2>2. CASE Cardinality(T) >= n + 1
      <3>1. Cardinality(T \ {f}) = Cardinality(T) - 1 /\ Cardinality(T) \in Nat
        BY <1>2, <1>4, FS_RemoveElement, FS_CardinalityType
      <3>2. (F \ {f}) \cap Low = T \ {f}
        OBVIOUS
      <3> HIDE DEF T
      <3>3. Cardinality(T \ {f}) >= n
        BY <2>2, <3>1
      <3> QED BY <3>2, <3>3 DEF Room
    <2> QED BY <2>1, <2>2 DEF Room, F
  <1> QED BY <1>4, <1>5 DEF F, f

LEMMA RoomLess ==
  ASSUME NEW m \in Machine, NEW n \in Nat, Room(m.free, n + 1)
  PROVE  Room(m.free, n)
  <1> DEFINE T == m.free \cap Low
  <1>1. Cardinality(T) \in Nat
    <2>1. IsFiniteSet(Low)
      BY Numbers, FS_Interval DEF Low
    <2>2. IsFiniteSet(T)
      BY <2>1, FS_Subset
    <2> QED BY <2>2, FS_CardinalityType
  <1>2. m.free \subseteq Low \/ Cardinality(T) >= n + 1
    BY DEF Room
  <1> HIDE DEF T
  <1>3. m.free \subseteq Low \/ Cardinality(T) >= n
    BY <1>1, <1>2
  <1> QED BY <1>3 DEF Room, T

(* The frame below the scratch window is not taken by the next n calls.    *)
Spare(F, n) == SCRATCH \notin F \/ Cardinality(F \cap Low) >= n

LEMMA SpareIs ==
  ASSUME NEW m \in Machine, NEW n \in Nat, Spare(m.free, n + 1), m.free # {}
  PROVE  Lowest(m) # SCRATCH /\ Spare(m.free \ {Lowest(m)}, n)
  <1>1. CASE SCRATCH \notin m.free
    BY <1>1, LowestIs DEF Spare
  <1>2. CASE Cardinality(m.free \cap Low) >= n + 1
    <2>1. Room(m.free, n + 1)
      BY <1>2 DEF Room
    <2>2. Lowest(m) < SCRATCH /\ Room(m.free \ {Lowest(m)}, n)
      BY <2>1, RoomIs
    <2>3. SCRATCH \notin Low
      BY Numbers DEF Low
    <2>4. Spare(m.free \ {Lowest(m)}, n)
      BY <2>2, <2>3 DEF Room, Spare
    <2>5. SCRATCH \in Nat /\ Lowest(m) \in Nat
      BY Numbers, LowestIs DEF Machine
    <2> QED BY <2>2, <2>4, <2>5
  <1> QED BY <1>1, <1>2 DEF Spare

LEMMA SpareLess ==
  ASSUME NEW m \in Machine, NEW n \in Nat, Spare(m.free, n + 1)
  PROVE  Spare(m.free, n)
  <1>1. CASE SCRATCH \notin m.free
    BY <1>1 DEF Spare
  <1>2. CASE SCRATCH \in m.free
    <2>1. Room(m.free, n + 1)
      BY <1>2 DEF Room, Spare
    <2>2. Room(m.free, n)
      BY <2>1, RoomLess
    <2>3. SCRATCH \notin Low
      BY Numbers DEF Low
    <2> QED BY <1>2, <2>2, <2>3 DEF Room, Spare
  <1> QED BY <1>1, <1>2

LEMMA SpareNext ==
  ASSUME NEW m \in Machine, NEW n \in Nat, Spare(m.free, n + 1), NEW r,
         r.free = m.free \/ (m.free # {} /\ r.free = m.free \ {Lowest(m)})
  PROVE  Spare(r.free, n)
  BY SpareIs, SpareLess

-----------------------------------------------------------------------------
(* The walk of MapIn comes to the page's last table, or fails.             *)
LEMMA DescendFailed ==
  ASSUME NEW m, NEW p, NEW i, NEW caller
  PROVE  Descend(Walk(m, p, FALSE), i, caller) = Walk(m, p, FALSE)
  <1> DEFINE w == Walk(m, p, FALSE)
  <1>1. ~w.ok
    BY DEF Walk
  <1>2. [w EXCEPT !.ok = FALSE] = w
    BY FailIs
  <1> HIDE DEF w
  <1>3. Descend(w, i, caller) = w
    BY <1>1, <1>2 DEF Descend
  <1> QED BY <1>3 DEF w

(* Pages below the tables that are there from the start.                   *)
InDirectory(page) == Path(page)[1] = K /\ Path(page)[2] = K - 1

Fails(w, m, role) == \E n, p, new : w = Walk(n, p, FALSE) /\ Grown(m, n, role, new)
Comes(w, m, role, c, page) ==
  \E n, new, x : /\ w = Walk(n, Pointer(x), TRUE) /\ Grown(m, n, role, new)
                 /\ x \in Frames /\ new[x] = 4 /\ x = Pt(n.mem, c, page) /\ Shows(n, Pointer(x)) = x
Descent(w, page, caller) == Follow(LAMBDA v, i : Descend(v, i, caller), w, Path(page))

LEMMA DescentIs ==
  ASSUME NEW m, NEW role, Sound(m, role), NEW c \in Frames, role[c] = 1, NEW page \in Pages,
         NEW caller \in Callers, Room(m.free, 2) \/ InDirectory(page), Spare(m.free, 3),
         Open(c, Path(page)[1])
  PROVE  LET w == Descent(Walk(m, c, TRUE), page, caller)
         IN  Fails(w, m, role) \/ Comes(w, m, role, c, page)
  <1> DEFINE p1 == Path(page)[1]
             p2 == Path(page)[2]
             p3 == Path(page)[3]
             w1 == Descend(Walk(m, c, TRUE), p1, caller)
             w2 == Descend(w1, p2, caller)
             w3 == Descend(w2, p3, caller)
  <1>0. p1 \in Index /\ p2 \in Index /\ p3 \in Index
    <2>1. page \in Nat
      BY TopDigit
    <2> QED BY <2>1, Paths
  <1>a. Descent(Walk(m, c, TRUE), page, caller) = w3
    BY DEF Descent, Follow
  <1>1. NewInSight(m, 1, c, p1)
    <2>1. CASE Room(m.free, 2)
      <3>1. 2 = 1 + 1 /\ m \in Machine /\ 1 \in Nat /\ 2 \in Nat /\ 3 = 2 + 1
        BY DEF Sound
      <3>2. m.free # {} => Lowest(m) < SCRATCH /\ Lowest(m) # SCRATCH
        BY <2>1, <3>1, RoomIs, SpareIs
      <3> QED BY <3>2 DEF NewInSight
    <2>2. CASE InDirectory(page)
      <3>1. p1 = K /\ m.mem[c][K] = pdpt_hi /\ pdpt_hi # Absent
        BY <2>2, Numbers DEF InDirectory, Sound, Tree, Shared
      <3> QED BY <3>1 DEF NewInSight
    <2> QED BY <2>1, <2>2
  <1>2. \/ w1 = Walk(m, c, FALSE)
        \/ \E n, new, x : w1 = Walk(n, Pointer(x), TRUE) /\ Enters(m, n, role, new, 1, c, p1, x)
    <2>1. 1 \in 1 .. 3
      OBVIOUS
    <2> QED BY <1>0, <1>1, <2>1, DescendIs
  <1> HIDE DEF w1
  <1>3. CASE w1 = Walk(m, c, FALSE)
    <2>1. w2 = Walk(m, c, FALSE)
      BY <1>3, DescendFailed
    <2> HIDE DEF w2
    <2>2. w3 = Walk(m, c, FALSE)
      BY <2>1, DescendFailed
    <2> HIDE DEF w3
    <2> QED BY <1>a, <2>2, GrownSelf DEF Fails
  <1>4. CASE \E n, new, x : w1 = Walk(n, Pointer(x), TRUE) /\ Enters(m, n, role, new, 1, c, p1, x)
    <2>1. PICK a, R, x : w1 = Walk(a, Pointer(x), TRUE) /\ Enters(m, a, role, R, 1, c, p1, x)
      BY <1>4
    <2>2. /\ Grown(m, a, role, R) /\ Sound(a, R) /\ x \in Frames /\ x = a.mem[c][p1] /\ R[x] = 2
          /\ a.free = m.free \/ (m.free # {} /\ a.free = m.free \ {Lowest(m)})
      BY <2>1 DEF Enters, Grown
    <2>3. R[c] = 1 /\ x < SCRATCH
      <3>1. role[c] # 0
        OBVIOUS
      <3>a. R[c] = 1
        BY <2>2, <3>1, GrownKeeps
      <3>2. R[x] \in 1 .. 3
        BY <2>2
      <3> QED BY <2>2, <3>a, <3>2 DEF Sound, Tree, InSight
    <2>4. w1 = Walk(a, x, TRUE)
      BY <2>1, <2>2, <2>3, LowShows
    <2>a. Spare(a.free, 2)
      <3>1. m \in Machine /\ 2 \in Nat /\ 3 = 2 + 1
        BY DEF Sound
      <3> QED BY <2>2, <3>1, SpareNext
    <2>5. NewInSight(a, 2, x, p2)
      <3>1. CASE Room(m.free, 2)
        <4>1. 2 = 1 + 1 /\ m \in Machine /\ a \in Machine /\ 1 \in Nat /\ 1 = 0 + 1 /\ 0 \in Nat
          BY <2>2 DEF Sound
        <4>2. Room(a.free, 1)
          BY <2>2, <3>1, <4>1, RoomIs, RoomLess
        <4>3. a.free # {} => Lowest(a) < SCRATCH /\ Lowest(a) # SCRATCH
          BY <2>a, <4>1, <4>2, RoomIs, SpareIs
        <4> QED BY <4>3 DEF NewInSight
      <3>2. CASE InDirectory(page)
        <4>1. p1 = K /\ p2 = K - 1 /\ a.mem[c][K] = pdpt_hi /\ a.mem[pdpt_hi][K - 1] = pd_hi /\ pd_hi # Absent
          BY <2>2, <2>3, <3>2, Numbers DEF InDirectory, Sound, Tree, Shared
        <4> QED BY <2>2, <4>1 DEF NewInSight
      <3> QED BY <3>1, <3>2
    <2>6. \/ w2 = Walk(a, x, FALSE)
          \/ \E n, new, y : w2 = Walk(n, Pointer(y), TRUE) /\ Enters(a, n, R, new, 2, x, p2, y)
      <3>1. 2 \in 1 .. 3 /\ Open(x, p2)
        BY <2>2, OpenBelow
      <3> QED BY <1>0, <2>2, <2>4, <2>5, <3>1, DescendIs
    <2> HIDE DEF w2
    <2>7. CASE w2 = Walk(a, x, FALSE)
      <3>1. w3 = Walk(a, x, FALSE)
        BY <2>7, DescendFailed
      <3> HIDE DEF w3
      <3> QED BY <1>a, <2>2, <3>1 DEF Fails
    <2>8. CASE \E n, new, y : w2 = Walk(n, Pointer(y), TRUE) /\ Enters(a, n, R, new, 2, x, p2, y)
      <3>1. PICK b, S, y : w2 = Walk(b, Pointer(y), TRUE) /\ Enters(a, b, R, S, 2, x, p2, y)
        BY <2>8
      <3>2. /\ Grown(a, b, R, S) /\ Sound(b, S) /\ y \in Frames /\ y = b.mem[x][p2] /\ S[y] = 3
            /\ b.free = a.free \/ (a.free # {} /\ b.free = a.free \ {Lowest(a)})
        BY <3>1 DEF Enters, Grown
      <3>3. y < SCRATCH
        <4>1. S[y] \in 1 .. 3
          BY <3>2
        <4> QED BY <3>2, <4>1 DEF Sound, Tree, InSight
      <3>4. w2 = Walk(b, y, TRUE)
        BY <3>1, <3>2, <3>3, LowShows
      <3>5. Grown(m, b, role, S)
        BY <2>2, <3>2, GrownTwice
      <3>6. \/ w3 = Walk(b, y, FALSE)
            \/ \E n, new, z : w3 = Walk(n, Pointer(z), TRUE) /\ Enters(b, n, S, new, 3, y, p3, z)
        <4>1. 3 \in 1 .. 3 /\ NewInSight(b, 3, y, p3)
          <5>1. a \in Machine /\ b \in Machine /\ 1 \in Nat /\ 2 = 1 + 1 /\ 0 \in Nat /\ 1 = 0 + 1
            BY <2>2, <3>2 DEF Sound
          <5>2. Spare(b.free, 1)
            BY <2>a, <3>2, <5>1, SpareNext
          <5>3. b.free # {} => Lowest(b) # SCRATCH
            BY <5>1, <5>2, SpareIs
          <5> QED BY <5>3 DEF NewInSight
        <4>2. Open(y, p3)
          BY <3>2, OpenBelow
        <4> QED BY <1>0, <3>2, <3>4, <4>1, <4>2, DescendIs
      <3> HIDE DEF w3
      <3>7. CASE w3 = Walk(b, y, FALSE)
        BY <1>a, <3>5, <3>7 DEF Fails
      <3>8. CASE \E n, new, z : w3 = Walk(n, Pointer(z), TRUE) /\ Enters(b, n, S, new, 3, y, p3, z)
        <4>1. PICK d, T, z : w3 = Walk(d, Pointer(z), TRUE) /\ Enters(b, d, S, T, 3, y, p3, z)
          BY <3>8
        <4>2. /\ Grown(b, d, S, T) /\ z \in Frames /\ z = d.mem[y][p3] /\ T[z] = 4
              /\ Shows(d, Pointer(z)) = z
          BY <4>1 DEF Enters
        <4>3. Grown(m, d, role, T)
          BY <3>5, <4>2, GrownTwice
        <4>4. d.mem[c][p1] = x
          <5>0. R[c] # 0
            BY <2>3
          <5>a. S[c] = R[c]
            BY <2>2, <3>2, <5>0, GrownKeeps
          <5>b. x # Absent
            BY <2>2, Numbers
          <5>1. R[c] \in 1 .. 4 /\ x # Absent /\ S[c] = 1
            BY <2>3, <5>a, <5>b
          <5>2. b.mem[c][p1] = x
            BY <1>0, <2>2, <3>2, <5>1 DEF Grown, Keeps
          <5>3. S[c] \in 1 .. 4
            BY <5>1
          <5> QED BY <1>0, <4>2, <5>1, <5>2, <5>3 DEF Grown, Keeps
        <4>5. d.mem[x][p2] = y
          <5>0. R[x] # 0
            BY <2>2
          <5>1. S[x] = R[x]
            <6>1. Sound(a, R) /\ Grown(a, b, R, S) /\ x \in Frames
              BY <2>2, <3>2
            <6> QED BY <5>0, <6>1, GrownKeeps
          <5>2. S[x] \in 1 .. 4 /\ y # Absent
            <6>1. S[x] \in 1 .. 4
              BY <2>2, <5>1
            <6> QED BY <3>2, <6>1, Numbers
          <5>3. Keeps(b.mem, d.mem, S) /\ x \in Frames /\ b.mem[x][p2] = y
            BY <2>2, <3>2, <4>2 DEF Grown
          <5> QED BY <1>0, <5>2, <5>3 DEF Keeps
        <4>6. z = Pt(d.mem, c, page)
          <5>1. c # Absent /\ x # Absent /\ y # Absent
            BY <2>2, <3>2, Numbers
          <5> QED BY <4>2, <4>4, <4>5, <5>1 DEF Pt, Look
        <4> QED BY <1>a, <4>1, <4>2, <4>3, <4>6 DEF Comes
      <3> QED BY <3>6, <3>7, <3>8
    <2> QED BY <2>6, <2>7, <2>8
  <1> QED BY <1>2, <1>3, <1>4

(* Frame f, of no known use, is mapped.                                    *)
Mapped(m, r, role, new, c, page, f) ==
  /\ Sound(r, new) /\ r.free \subseteq m.free /\ Remapped(m.mem, r.mem, role, c, page, f)
  /\ new[f] = 5 /\ Hangs(r.mem, new, f)
  /\ Translate(m.mem, c, page) = Absent => Spares(m, role, r, new)
  /\ \A x \in Frames : (x \notin m.free /\ x # f => new[x] = role[x]) /\ (new[x] = 1 => role[x] = 1)

LEMMA StoreStored ==
  ASSUME NEW m \in Machine, NEW p \in Frames, NEW t \in Frames, Shows(m, p) = t, NEW i \in Index, NEW x \in Entries
  PROVE  LET r == Store(m, p, i, x)
         IN  r \in Machine /\ Stored(m.mem, r.mem, t, i, x) /\ r.free = m.free
  <1>1. /\ Store(m, p, i, x) \in Machine /\ Store(m, p, i, x).mem = Put(m.mem, t, i, x)
        /\ Store(m, p, i, x).free = m.free
    BY StoreIs
  <1>2. m.mem \in Tables
    BY DEF Machine
  <1>3. LET L == Put(m.mem, t, i, x)
        IN  /\ L \in Tables /\ Same(m.mem, L, t) /\ L[t][i] = x
            /\ \A j \in Index : j # i => L[t][j] = m.mem[t][j]
    BY <1>2, PutIs
  <1> QED BY <1>1, <1>3 DEF Stored, Same

RoomFor(F, page) == (Room(F, 2) \/ InDirectory(page)) /\ Spare(F, 3)
MapResult(m, w, role, c, page, f) ==
  \/ w.ok = FALSE /\ \E new : Grown(m, w.m, role, new)
  \/ w.ok = TRUE /\ \E new : Mapped(m, w.m, role, new, c, page, f)

LEMMA MapInIs ==
  ASSUME NEW m, NEW role, Sound(m, role), NEW c \in Frames, role[c] = 1, NEW page \in Pages,
         NEW caller \in Callers, RoomFor(m.free, page), Open(c, Path(page)[1]),
         NEW f \in Frames, role[f] = 0, f \notin m.free,
         NEW w, w = MapIn(m, c, page, f, caller)
  PROVE  MapResult(m, w, role, c, page, f)
  <1> DEFINE v == Descent(Walk(m, c, TRUE), page, caller)
             i == Path(page)[4]
  <1>0. page \in Nat /\ i \in Index
    <2>1. page \in Nat
      BY TopDigit
    <2> QED BY <2>1, Paths
  <1>1. w = IF v.ok THEN [v EXCEPT !.m = Store(v.m, v.p, i, f)] ELSE v
    BY DEF MapIn, Descent, Walk
  <1>2. Fails(v, m, role) \/ Comes(v, m, role, c, page)
    BY DescentIs DEF RoomFor
  <1> HIDE DEF v, i
  <1>3. CASE Fails(v, m, role)
    <2>1. PICK n, p, new : v = Walk(n, p, FALSE) /\ Grown(m, n, role, new)
      BY <1>3 DEF Fails
    <2>2. v.ok = FALSE /\ v.m = n
      BY <2>1 DEF Walk
    <2>3. w = v
      BY <1>1, <2>2
    <2> QED BY <2>1, <2>2, <2>3 DEF MapResult
  <1>4. CASE Comes(v, m, role, c, page)
    <2>1. PICK n, new, x : /\ v = Walk(n, Pointer(x), TRUE) /\ Grown(m, n, role, new)
                           /\ x \in Frames /\ new[x] = 4 /\ x = Pt(n.mem, c, page) /\ Shows(n, Pointer(x)) = x
      BY <1>4 DEF Comes
    <2> DEFINE r == Store(n, Pointer(x), i, f)
    <2>2. v.ok = TRUE /\ v.m = n /\ v.p = Pointer(x) /\ DOMAIN v = {"m", "p", "ok"}
      BY <2>1 DEF Walk
    <2>3. w = [v EXCEPT !.m = r]
      BY <1>1, <2>2
    <2>4. w.ok = TRUE /\ w.m = r
      <3> HIDE DEF r
      <3> QED BY <2>2, <2>3
    <2>5. n \in Machine /\ Pointer(x) \in Frames /\ f \in Entries /\ Sound(n, new)
      BY <2>1, PointerIs DEF Grown, Sound, Entries
    <2>6. r \in Machine /\ Stored(n.mem, r.mem, x, i, f) /\ r.free = n.free
      BY <1>0, <2>1, <2>5, StoreStored
    <2> HIDE DEF r
    <2>7. new[f] = 0 /\ new[c] = 1 /\ new \in Uses /\ Tree(n.mem, new) /\ n.free \subseteq m.free
      <3>1. role[c] # 0
        OBVIOUS
      <3>2. new[c] = 1
        BY <2>1, <3>1, GrownKeeps
      <3> QED BY <2>1, <2>5, <3>2 DEF Grown, Sound, Tree
    <2>8. Remapped(n.mem, r.mem, new, c, page, f)
      BY <2>1, <2>6, <2>7, StoredWalks DEF i
    <2>9. PICK last : Gives(new, last, f, 5)
      BY <2>7, GiveOne
    <2>10. /\ last \in Uses /\ last[f] = 5 /\ \A u \in Frames : u # f => last[u] = new[u]
      BY <2>9 DEF Gives
    <2>11. Marked(new, last, f)
      BY <2>7, <2>10 DEF Marked
    <2>12. Tree(r.mem, last)
      BY <1>0, <2>1, <2>6, <2>7, <2>11, StoredTree
    <2>13. Sound(r, last)
      <3>1. \A g \in r.free : g \in Frames /\ g # f /\ (new[g] = 0 \/ g = SCRATCH)
        BY <2>5, <2>6, <2>7 DEF Sound, Machine
      <3> QED BY <2>5, <2>6, <2>10, <2>12, <3>1 DEF Sound
    <2>14. Remapped(m.mem, r.mem, role, c, page, f)
      <3> SUFFICES ASSUME NEW d \in Frames, NEW q \in Pages, role[d] = 1
                   PROVE  Translate(r.mem, d, q) =
                            IF q = page /\ (d = c \/ KernelPage(page)) THEN f ELSE Translate(m.mem, d, q)
        BY DEF Remapped
      <3>0. role[d] # 0
        OBVIOUS
      <3>1. new[d] = 1
        BY <2>1, <3>0, GrownKeeps
      <3>2. Translate(n.mem, d, q) = Translate(m.mem, d, q)
        BY <2>1 DEF Grown, Walks
      <3> QED BY <2>8, <3>1, <3>2 DEF Remapped
    <2>15. \A u \in Frames : /\ u \notin m.free /\ u # f => last[u] = role[u]
                             /\ last[u] = 1 => role[u] = 1
      <3>1. \A u \in Frames : (u \notin m.free => new[u] = role[u]) /\ (new[u] = 1 => role[u] = 1)
        BY <2>1 DEF Grown
      <3>2. last[f] # 1
        BY <2>10
      <3> QED BY <2>10, <3>1, <3>2
    <2>16. Hangs(r.mem, last, f)
      <3>1. x # f /\ r.mem[x][i] = f
        BY <2>1, <2>6, <2>7 DEF Stored
      <3>2. last[x] \in 1 .. 4
        BY <2>1, <2>10, <3>1
      <3>3. Open(x, i)
        <4>1. new[x] # 1
          BY <2>1
        <4> QED BY <2>5, <4>1, OpenBelow
      <3> QED BY <1>0, <2>1, <3>1, <3>2, <3>3 DEF Hangs
    <2>17. ASSUME Translate(m.mem, c, page) = Absent
           PROVE  Spares(m, role, r, last)
      <3> SUFFICES ASSUME NEW y \in Frames, Kept(m, role, y) PROVE Kept(r, last, y)
        BY DEF Spares
      <3>1. n.mem[x][i] = Absent
        <4>1. Translate(n.mem, c, page) = Absent
          BY <2>1, <2>17 DEF Grown, Walks
        <4>2. x # Absent
          BY <2>1, Numbers
        <4> QED BY <2>1, <4>1, <4>2, TranslateIs DEF Look, i
      <3>2. Keeps(n.mem, r.mem, new)
        <4> SUFFICES ASSUME NEW u \in Frames, NEW j \in Index, n.mem[u][j] # Absent
                     PROVE  r.mem[u][j] = n.mem[u][j]
          BY DEF Keeps
        <4>1. ~(u = x /\ j = i)
          BY <3>1
        <4> QED BY <2>6, <4>1 DEF Stored
      <3>3. \A u \in Frames : new[u] # 0 => last[u] = new[u]
        BY <2>7, <2>10
      <3>4. Kept(n, new, y)
        BY <2>1 DEF Grown, Spares
      <3>5. CASE y \in n.free
        BY <2>6, <3>5 DEF Kept
      <3>6. CASE Hangs(n.mem, new, y)
        BY <3>2, <3>3, <3>6, HangsOn DEF Kept
      <3> QED BY <3>4, <3>5, <3>6 DEF Kept
    <2>18. Mapped(m, r, role, last, c, page, f)
      BY <2>6, <2>7, <2>10, <2>13, <2>14, <2>15, <2>16, <2>17 DEF Mapped
    <2> QED BY <2>4, <2>18 DEF MapResult
  <1> QED BY <1>2, <1>3, <1>4

-----------------------------------------------------------------------------
(* Walks that only read: paging_unmap_page, paging_virt_to_phys_cr3.  They *)
(* move nothing but the scratch page, and see what the CPU sees.           *)
Seen(n, p, M, F, x) ==
  /\ n \in Machine /\ n.mem = M /\ n.free = F
  /\ x # Absent => x \in Frames /\ p \in Frames /\ Shows(n, p) = x

LEMMA SeenNext ==
  ASSUME NEW M, NEW role, Tree(M, role), NEW l \in 1 .. 3, NEW x, Level(role, l, x), NEW F,
         NEW n, NEW p, Seen(n, p, M, F, x), NEW i \in Index, x # Absent
  PROVE  LET y == Load(n, p, i)
         IN  /\ y = Look(M, x, i)
             /\ y # Absent => Seen(virt_for_phys(n, y), Pointer(y), M, F, y)
  <1>1. x \in Frames /\ Shows(n, p) = x /\ n \in Machine /\ n.mem = M /\ n.free = F
    BY DEF Seen
  <1> DEFINE y == Load(n, p, i)
  <1>2. y = Look(M, x, i)
    BY <1>1 DEF Load, Look
  <1>3. Level(role, l + 1, Look(M, x, i))
    <2>1. l \in 1 .. 4
      OBVIOUS
    <2> QED BY <2>1, LookDown
  <1> HIDE DEF y
  <1>4. ASSUME y # Absent PROVE Seen(virt_for_phys(n, y), Pointer(y), M, F, y)
    <2>1. y \in Frames /\ role[y] = l + 1
      BY <1>2, <1>3, <1>4 DEF Level
    <2>2. role[y] # 6
      BY <2>1
    <2>3. y # SCRATCH
      BY <2>1, <2>2, RoleFrame
    <2> QED BY <1>1, <2>1, <2>3, VirtIs, PointerIs DEF Seen
  <1> QED BY <1>2, <1>4 DEF y

Down(w, i) ==
  LET below == Load(w.m, w.p, i)
  IN  IF ~w.ok \/ below = Absent THEN [w EXCEPT !.ok = FALSE]
      ELSE [m |-> virt_for_phys(w.m, below), p |-> Pointer(below), ok |-> TRUE]
Standing(w, n, p, x) ==
  (x # Absent /\ w = Walk(n, p, TRUE)) \/ (x = Absent /\ w = Walk(n, p, FALSE))
IsAt(w, M, F, x) == \E n, p : Standing(w, n, p, x) /\ Seen(n, p, M, F, x)

LEMMA DownIs ==
  ASSUME NEW M, NEW role, Tree(M, role), NEW l \in 1 .. 3, NEW x, Level(role, l, x), NEW F,
         NEW w, IsAt(w, M, F, x), NEW i \in Index
  PROVE  IsAt(Down(w, i), M, F, Look(M, x, i))
  <1>1. PICK n, p : Standing(w, n, p, x) /\ Seen(n, p, M, F, x)
    BY DEF IsAt
  <1>2. w.m = n /\ w.p = p
    BY <1>1 DEF Walk, Standing
  <1>3. [w EXCEPT !.ok = FALSE] = Walk(n, p, FALSE)
    BY <1>1, FailIs DEF Standing
  <1>4. CASE w = Walk(n, p, FALSE) /\ x = Absent
    <2>1. ~w.ok
      BY <1>4 DEF Walk
    <2>2. Down(w, i) = Walk(n, p, FALSE)
      BY <1>3, <2>1 DEF Down
    <2>3. Look(M, x, i) = Absent /\ Seen(n, p, M, F, Absent)
      BY <1>1, <1>4 DEF Look, Seen
    <2>4. Standing(Down(w, i), n, p, Absent)
      BY <2>2 DEF Standing
    <2> QED BY <2>3, <2>4 DEF IsAt
  <1>5. CASE w = Walk(n, p, TRUE) /\ x # Absent
    <2> DEFINE y == Load(n, p, i)
    <2>1. y = Look(M, x, i) /\ (y # Absent => Seen(virt_for_phys(n, y), Pointer(y), M, F, y))
      BY <1>1, <1>5, SeenNext
    <2>2. w.ok = TRUE
      BY <1>5 DEF Walk
    <2>3. CASE y = Absent
      <3>1. Down(w, i) = Walk(n, p, FALSE)
        BY <1>2, <1>3, <2>3 DEF Down
      <3>2. Seen(n, p, M, F, Absent) /\ Standing(Down(w, i), n, p, Absent)
        BY <1>1, <3>1 DEF Seen, Standing
      <3> QED BY <2>1, <2>3, <3>2 DEF IsAt
    <2>4. CASE y # Absent
      <3>1. Down(w, i) = Walk(virt_for_phys(n, y), Pointer(y), TRUE)
        BY <1>2, <2>2, <2>4 DEF Down, Walk
      <3> HIDE DEF y
      <3>2. Standing(Down(w, i), virt_for_phys(n, y), Pointer(y), y)
        BY <2>4, <3>1 DEF Standing
      <3> QED BY <2>1, <2>4, <3>2 DEF IsAt
    <2> QED BY <2>3, <2>4
  <1> QED BY <1>1, <1>4, <1>5 DEF Standing

LEMMA DownWalk ==
  ASSUME NEW m, NEW role, Sound(m, role), NEW c \in Frames, role[c] = 1, NEW page \in Pages
  PROVE  IsAt(Follow(Down, Walk(m, c, TRUE), Path(page)), m.mem, m.free, Pt(m.mem, c, page))
  <1> DEFINE M == m.mem
             p1 == Path(page)[1]
             p2 == Path(page)[2]
             p3 == Path(page)[3]
             a == Look(M, c, p1)
             b == Look(M, a, p2)
             w == Walk(m, c, TRUE)
  <1>0. page \in Nat
    BY TopDigit
  <1>1. p1 \in Index /\ p2 \in Index /\ p3 \in Index
    BY <1>0, Paths
  <1>2. Tree(M, role) /\ c < SCRATCH /\ c # Absent
    BY Numbers DEF Sound, Tree, InSight
  <1>3. Level(role, 1, c) /\ Level(role, 2, a) /\ Level(role, 3, b)
    BY <1>0, <1>2, WalkLevels DEF Level
  <1>4. IsAt(w, M, m.free, c)
    <2>1. Shows(m, c) = c
      BY <1>2, LowShows
    <2>2. Seen(m, c, M, m.free, c)
      BY <2>1 DEF Seen, Sound
    <2>3. Standing(w, m, c, c)
      BY <1>2 DEF Standing
    <2> QED BY <2>2, <2>3 DEF IsAt
  <1>5. 1 \in 1 .. 3 /\ 2 \in 1 .. 3 /\ 3 \in 1 .. 3
    OBVIOUS
  <1>6. Follow(Down, w, Path(page)) = Down(Down(Down(w, p1), p2), p3)
    BY DEF Follow
  <1>7. Pt(M, c, page) = Look(M, b, p3)
    BY DEF Pt
  <1> HIDE DEF w, M, p1, p2, p3, a
  <1>8. IsAt(Down(w, p1), M, m.free, a)
    BY <1>1, <1>2, <1>3, <1>4, <1>5, DownIs DEF a
  <1>9. IsAt(Down(Down(w, p1), p2), M, m.free, b)
    BY <1>1, <1>2, <1>3, <1>5, <1>8, DownIs
  <1> HIDE DEF b
  <1>10. IsAt(Down(Down(Down(w, p1), p2), p3), M, m.free, Look(M, b, p3))
    BY <1>1, <1>2, <1>3, <1>5, <1>9, DownIs
  <1> QED BY <1>6, <1>7, <1>10 DEF w, M

Sight(n, p, f) == [m |-> n, p |-> p, f |-> f]
Into(w, i) ==
  LET below == Load(w.m, w.p, i)
  IN  IF w.f = Absent \/ below = Absent THEN [w EXCEPT !.f = Absent]
      ELSE [m |-> virt_for_phys(w.m, below), p |-> Pointer(below), f |-> below]
Sees(w, M, F, x) == \E n, p : w = Sight(n, p, x) /\ Seen(n, p, M, F, x)

LEMMA LostIs ==
  ASSUME NEW n, NEW p, NEW f
  PROVE  [Sight(n, p, f) EXCEPT !.f = Absent] = Sight(n, p, Absent)
  <1> DEFINE w == Sight(n, p, f)
             no == Absent
             v == [w EXCEPT !.f = no]
  <1>1. DOMAIN w = {"m", "p", "f"} /\ w.m = n /\ w.p = p
    BY DEF Sight
  <1> HIDE DEF w, no
  <1>2. DOMAIN v = {"m", "p", "f"} /\ v.m = n /\ v.p = p /\ v.f = no
    BY <1>1
  <1>3. v = [x \in {"m", "p", "f"} |-> v[x]]
    BY <1>1, <1>2
  <1> HIDE DEF v
  <1>4. v = [m |-> n, p |-> p, f |-> no]
    BY <1>2, <1>3
  <1> QED BY <1>4 DEF v, w, no, Sight

LEMMA IntoIs ==
  ASSUME NEW M, NEW role, Tree(M, role), NEW l \in 1 .. 3, NEW x, Level(role, l, x), NEW F,
         NEW w, Sees(w, M, F, x), NEW i \in Index
  PROVE  Sees(Into(w, i), M, F, Look(M, x, i))
  <1>1. PICK n, p : w = Sight(n, p, x) /\ Seen(n, p, M, F, x)
    BY DEF Sees
  <1>2. w.m = n /\ w.p = p /\ w.f = x
    BY <1>1 DEF Sight
  <1>3. [w EXCEPT !.f = Absent] = Sight(n, p, Absent)
    BY <1>1, LostIs
  <1>4. Seen(n, p, M, F, Absent)
    BY <1>1 DEF Seen
  <1>5. CASE x = Absent
    <2>1. Into(w, i) = Sight(n, p, Absent)
      BY <1>2, <1>3, <1>5 DEF Into
    <2>2. Look(M, x, i) = Absent
      BY <1>5 DEF Look
    <2> QED BY <1>4, <2>1, <2>2 DEF Sees
  <1>6. CASE x # Absent
    <2> DEFINE y == Load(n, p, i)
    <2>1. y = Look(M, x, i) /\ (y # Absent => Seen(virt_for_phys(n, y), Pointer(y), M, F, y))
      BY <1>1, <1>6, SeenNext
    <2>2. CASE y = Absent
      <3>1. Into(w, i) = Sight(n, p, Absent)
        BY <1>2, <1>3, <2>2 DEF Into
      <3> QED BY <1>4, <2>1, <2>2, <3>1 DEF Sees
    <2>3. CASE y # Absent
      <3>1. Into(w, i) = Sight(virt_for_phys(n, y), Pointer(y), y)
        BY <1>2, <1>6, <2>3 DEF Into, Sight
      <3> HIDE DEF y
      <3> QED BY <2>1, <2>3, <3>1 DEF Sees
    <2> QED BY <2>2, <2>3
  <1> QED BY <1>5, <1>6

LEMMA SoftwareWalkBy ==
  ASSUME NEW m, NEW c, NEW page
  PROVE  LET v == Into(Into(Into(Sight(virt_for_phys(m, c), Pointer(c), c), Path(page)[1]), Path(page)[2]),
                       Path(page)[3])
         IN  SoftwareWalk(m, c, page) =
               [m |-> v.m, f |-> IF v.f = Absent THEN Absent ELSE Load(v.m, v.p, Path(page)[4])]
  BY DEF SoftwareWalk, Follow, Into, Sight

LEMMA SoftwareWalkIs ==
  ASSUME NEW m, NEW role, Sound(m, role), NEW c \in Frames, role[c] = 1, NEW page \in Pages
  PROVE  LET w == SoftwareWalk(m, c, page)
         IN  /\ w.m \in Machine /\ w.m.mem = m.mem /\ w.m.free = m.free
             /\ w.f = Translate(m.mem, c, page)
  <1> DEFINE M == m.mem
             p1 == Path(page)[1]
             p2 == Path(page)[2]
             p3 == Path(page)[3]
             p4 == Path(page)[4]
             a == Look(M, c, p1)
             b == Look(M, a, p2)
             d == Look(M, b, p3)
             w == Sight(m, c, c)
             v == Into(Into(Into(w, p1), p2), p3)
  <1>0. page \in Nat
    BY TopDigit
  <1>1. p1 \in Index /\ p2 \in Index /\ p3 \in Index /\ p4 \in Index
    BY <1>0, Paths
  <1>2. Tree(M, role) /\ c < SCRATCH /\ c # Absent
    BY Numbers DEF Sound, Tree, InSight
  <1>3. Level(role, 1, c) /\ Level(role, 2, a) /\ Level(role, 3, b)
    BY <1>0, <1>2, WalkLevels DEF Level
  <1>4. Shows(m, c) = c /\ Pointer(c) = c /\ virt_for_phys(m, c) = m
    BY <1>2, LowShows
  <1>5. Sees(w, M, m.free, c)
    <2>1. Seen(m, c, M, m.free, c)
      BY <1>4 DEF Seen, Sound
    <2> QED BY <2>1 DEF Sees
  <1>6. 1 \in 1 .. 3 /\ 2 \in 1 .. 3 /\ 3 \in 1 .. 3
    OBVIOUS
  <1>7. SoftwareWalk(m, c, page) =
          [m |-> v.m, f |-> IF v.f = Absent THEN Absent ELSE Load(v.m, v.p, p4)]
    BY <1>4, SoftwareWalkBy
  <1>8. Translate(M, c, page) = Look(M, d, p4)
    BY TranslateIs DEF Pt
  <1> HIDE DEF w, M, p1, p2, p3, p4, a
  <1>9. Sees(Into(w, p1), M, m.free, a)
    BY <1>1, <1>2, <1>3, <1>5, <1>6, IntoIs DEF a
  <1>10. Sees(Into(Into(w, p1), p2), M, m.free, b)
    BY <1>1, <1>2, <1>3, <1>6, <1>9, IntoIs
  <1> HIDE DEF b
  <1>11. Sees(v, M, m.free, d)
    BY <1>1, <1>2, <1>3, <1>6, <1>10, IntoIs
  <1> HIDE DEF v, d
  <1>12. PICK n, p : v = Sight(n, p, d) /\ Seen(n, p, M, m.free, d)
    BY <1>11 DEF Sees
  <1>13. v.m = n /\ v.p = p /\ v.f = d
    BY <1>12 DEF Sight
  <1>14. n \in Machine /\ n.mem = M /\ n.free = m.free /\ (d # Absent => Shows(n, p) = d)
    BY <1>12 DEF Seen
  <1>15. (IF d = Absent THEN Absent ELSE Load(n, p, p4)) = Look(M, d, p4)
    BY <1>14 DEF Look, Load
  <1> QED BY <1>7, <1>8, <1>13, <1>14, <1>15 DEF M

-----------------------------------------------------------------------------
(* Loops over the entries of a table.  After k entries the machine is in   *)
(* G[k], if each pass leads from one of these sets to the next.            *)
Sets(n, X) == [0 .. n -> SUBSET X]
Passes(n, G, step) == \A k \in 1 .. n : \A x \in G[k - 1] : step[k][x] \in G[k]
Runs(f, n, X, G, m, step) ==
  /\ f \in [0 .. n -> X] /\ f[0] = m
  /\ \A k \in 1 .. n : f[k - 1] \in G[k - 1] /\ f[k] = step[k][f[k - 1]]
Onward(n, G, f) == f[0] \in G[0] /\ \A k \in 1 .. n : f[k - 1] \in G[k - 1] => f[k] \in G[k]

LEMMA Iterate ==
  ASSUME NEW n \in Nat, NEW X, NEW G \in Sets(n, X), NEW m \in G[0], NEW step, Passes(n, G, step)
  PROVE  \E f : Runs(f, n, X, G, m, step)
  <1> USE DEF Sets, Passes, Runs
  <1> DEFINE go == [k \in 1 .. n |-> [x \in X |-> IF x \in G[k - 1] THEN step[k][x] ELSE m]]
  <1>0. 0 \in 0 .. n /\ \A k \in 1 .. n : k - 1 \in 0 .. n /\ k \in 0 .. n
    OBVIOUS
  <1>1. m \in X /\ go \in Steps(n, X)
    <2>1. m \in X /\ \A k \in 1 .. n : \A x \in G[k - 1] : step[k][x] \in X
      BY <1>0
    <2> QED BY <2>1 DEF Steps
  <1>2. PICK f : Computes(f, n, X, m, go)
    <2> HIDE DEF go
    <2> QED BY <1>1, Recursion
  <1>3. f \in [0 .. n -> X] /\ f[0] = m /\ \A k \in 1 .. n : f[k] = go[k][f[k - 1]]
    BY <1>2 DEF Computes
  <1>4. \A k \in 1 .. n : f[k - 1] \in G[k - 1] => f[k] = step[k][f[k - 1]] /\ f[k] \in G[k]
    <2> TAKE k \in 1 .. n
    <2>1. f[k - 1] \in X
      BY <1>0, <1>3
    <2> QED BY <1>3, <2>1
  <1>5. \A k \in 0 .. n : f[k] \in G[k]
    <2> DEFINE T == {k \in 0 .. n : f[k] \in G[k]}
    <2>1. 0 \in T
      BY <1>0, <1>3
    <2>2. \A k \in 1 .. n : k - 1 \in T => k \in T
      BY <1>0, <1>4
    <2> HIDE DEF T
    <2>3. \A k \in 0 .. n : k \in T
      BY <2>1, <2>2, Induct
    <2> QED BY <2>3 DEF T
  <1> QED BY <1>0, <1>3, <1>4, <1>5

LEMMA Iterated ==
  ASSUME NEW n \in Nat, NEW G, NEW f, Onward(n, G, f)
  PROVE  f[n] \in G[n]
  <1> DEFINE T == {k \in 0 .. n : f[k] \in G[k]}
  <1>1. 0 \in T /\ n \in 0 .. n
    BY DEF Onward
  <1>2. \A k \in 1 .. n : k - 1 \in T => k \in T
    BY DEF Onward
  <1> HIDE DEF T
  <1>3. n \in T
    BY <1>1, <1>2, Induct
  <1> QED BY <1>3 DEF T

(* The frames that the first k entries of table t lead to, and the frames  *)
(* below them, if W tells those of each.                                   *)
Kids(M, t, k) == {M[t][i] : i \in {j \in 0 .. k - 1 : M[t][j] # Absent}}
Reach(M, t, W, k) == Kids(M, t, k) \cup UNION {W[u] : u \in Kids(M, t, k)}

LEMMA KidsStep ==
  ASSUME NEW M \in Tables, NEW t \in Frames, NEW k \in 1 .. N
  PROVE  /\ k - 1 \in Index /\ M[t][k - 1] \in Entries
         /\ M[t][k - 1] = Absent => Kids(M, t, k) = Kids(M, t, k - 1)
         /\ M[t][k - 1] # Absent => Kids(M, t, k) = Kids(M, t, k - 1) \cup {M[t][k - 1]}
         /\ Kids(M, t, 0) = {}
  <1>1. k - 1 \in Index
    BY Numbers
  <1>2. M[t][k - 1] \in Entries
    BY <1>1 DEF Tables
  <1>3. \A j : j \in 0 .. k - 1 <=> j \in 0 .. k - 1 - 1 \/ j = k - 1
    BY Numbers
  <1>4. Kids(M, t, 0) = {}
    BY DEF Kids
  <1> QED BY <1>1, <1>2, <1>3, <1>4 DEF Kids

LEMMA ReachStep ==
  ASSUME NEW M \in Tables, NEW t \in Frames, NEW k \in 1 .. N, NEW W
  PROVE  /\ M[t][k - 1] = Absent => Reach(M, t, W, k) = Reach(M, t, W, k - 1)
         /\ M[t][k - 1] # Absent =>
              Reach(M, t, W, k) = Reach(M, t, W, k - 1) \cup W[M[t][k - 1]] \cup {M[t][k - 1]}
         /\ Reach(M, t, W, 0) = {}
  BY KidsStep DEF Reach

(* One pass of each loop.                                                  *)
Holding(M, s, F) == {a \in Machine : a.mem = M /\ a.scratch = s /\ a.free = F}
HoldingAny(M, F) == {a \in Machine : a.mem = M /\ a.free = F}

LEMMA FreePagePass ==
  ASSUME NEW M, NEW role, Tree(M, role), NEW t \in Frames, role[t] = 4, NEW m \in Machine, m.mem = M,
         NEW p \in Frames, Shows(m, p) = t, NEW k \in 1 .. N,
         NEW a \in Holding(M, m.scratch, m.free \cup Kids(M, t, k - 1))
  PROVE  FreePage(a, p, k - 1) \in Holding(M, m.scratch, m.free \cup Kids(M, t, k))
  <1>1. M \in Tables /\ a \in Machine /\ a.mem = M /\ a.scratch = m.scratch
        /\ a.free = m.free \cup Kids(M, t, k - 1)
    BY DEF Tree, Holding
  <1>2. Shows(a, p) = t
    BY <1>1 DEF Shows
  <1> DEFINE y == M[t][k - 1]
  <1>3. Load(a, p, k - 1) = y
    BY <1>1, <1>2 DEF Load
  <1>4. /\ k - 1 \in Index /\ y \in Entries
        /\ y = Absent => Kids(M, t, k) = Kids(M, t, k - 1)
        /\ y # Absent => Kids(M, t, k) = Kids(M, t, k - 1) \cup {y}
    BY <1>1, KidsStep
  <1>5. y # Absent => y \in Frames \ {0}
    <2>1. role[t] \in 1 .. 4
      OBVIOUS
    <2>2. y # Absent => role[y] = role[t] + 1 /\ y \in Frames
      BY <1>4, <2>1 DEF Tree, Tiers, Entries
    <2>3. y # Absent => role[y] # 6
      BY <2>2
    <2> QED BY <2>2, <2>3, RoleFrame
  <1> HIDE DEF y
  <1>6. CASE y = Absent
    BY <1>1, <1>3, <1>4, <1>6 DEF FreePage, Holding
  <1>7. CASE y # Absent
    <2>1. FreePage(a, p, k - 1) = pmm_free_frame(a, y)
      BY <1>3, <1>7 DEF FreePage
    <2>2. /\ pmm_free_frame(a, y) \in Machine /\ pmm_free_frame(a, y).mem = M
          /\ pmm_free_frame(a, y).scratch = m.scratch /\ pmm_free_frame(a, y).free = a.free \cup {y}
      BY <1>1, <1>5, <1>7, FreedIs
    <2> QED BY <1>1, <1>4, <1>7, <2>1, <2>2 DEF Holding
  <1> QED BY <1>6, <1>7

LEMMA FreeTablePass ==
  ASSUME NEW M, NEW role, Tree(M, role), NEW t \in Frames, role[t] \in 1 .. 3, NEW F, NEW W,
         NEW k \in 1 .. N, NEW a \in HoldingAny(M, F \cup Reach(M, t, W, k - 1)),
         NEW e, M[t][k - 1] # Absent => e \in HoldingAny(M, a.free \cup W[M[t][k - 1]])
  PROVE  FreeTable(a, t, k - 1, e) \in HoldingAny(M, F \cup Reach(M, t, W, k))
  <1>1. M \in Tables /\ a \in Machine /\ a.mem = M /\ a.free = F \cup Reach(M, t, W, k - 1) /\ t < SCRATCH
    BY DEF Tree, HoldingAny, InSight
  <1> DEFINE y == M[t][k - 1]
  <1>3. \A b : b.mem = M => Load(b, t, k - 1) = y
    BY <1>1, LowShows DEF Load
  <1>4. /\ k - 1 \in Index /\ y \in Entries
        /\ y = Absent => Reach(M, t, W, k) = Reach(M, t, W, k - 1)
        /\ y # Absent => Reach(M, t, W, k) = Reach(M, t, W, k - 1) \cup W[y] \cup {y}
    BY <1>1, KidsStep, ReachStep
  <1>5. y # Absent => y \in Frames \ {0}
    <2>1. role[t] \in 1 .. 4
      OBVIOUS
    <2>2. y # Absent => role[y] = role[t] + 1 /\ y \in Frames
      BY <1>4, <2>1 DEF Tree, Tiers, Entries
    <2>3. y # Absent => role[y] # 6
      BY <2>2
    <2> QED BY <2>2, <2>3, RoleFrame
  <1>6. y # Absent => e \in Machine /\ e.mem = M /\ e.free = a.free \cup W[y]
    BY DEF HoldingAny
  <1> HIDE DEF y
  <1>7. CASE y = Absent
    BY <1>1, <1>3, <1>4, <1>7 DEF FreeTable, HoldingAny
  <1>8. CASE y # Absent
    <2>1. FreeTable(a, t, k - 1, e) = pmm_free_frame(e, y)
      BY <1>1, <1>3, <1>6, <1>8 DEF FreeTable
    <2>2. /\ pmm_free_frame(e, y) \in Machine /\ pmm_free_frame(e, y).mem = M
          /\ pmm_free_frame(e, y).free = e.free \cup {y}
      BY <1>5, <1>6, <1>8, FreedIs
    <2> QED BY <1>1, <1>4, <1>6, <1>8, <2>1, <2>2 DEF HoldingAny
  <1> QED BY <1>7, <1>8

(* The whole loops.                                                        *)
LEMMA FreePagesIs ==
  ASSUME NEW M, NEW role, Tree(M, role), NEW t \in Frames, role[t] = 4, NEW m \in Machine, m.mem = M,
         NEW p \in Frames, Shows(m, p) = t
  PROVE  FreePages(m, p) \in HoldingAny(M, m.free \cup Kids(M, t, N))
  <1> DEFINE Do(a, i) == FreePage(a, p, i)
             Eq(g) == g = [k \in 0 .. N |-> IF k = 0 THEN m ELSE Do(g[k - 1], k - 1)]
             after == CHOOSE g : Eq(g)
             G == [k \in 0 .. N |-> Holding(M, m.scratch, m.free \cup Kids(M, t, k))]
             step == [k \in 1 .. N |-> [a \in Machine |-> Do(a, k - 1)]]
  <1>0. N \in Nat /\ 0 \in 0 .. N /\ N \in 0 .. N /\ 1 \in 1 .. N
        /\ \A k \in 1 .. N : k - 1 \in 0 .. N /\ k \in 0 .. N /\ k # 0
    BY Numbers
  <1>a. FreePages(m, p) = after[N]
    BY DEF FreePages, ForEach, N
  <1>1. \A k \in 1 .. N : \A a \in G[k - 1] : a \in Machine /\ Do(a, k - 1) \in G[k]
    <2> TAKE k \in 1 .. N
    <2>1. G[k - 1] = Holding(M, m.scratch, m.free \cup Kids(M, t, k - 1))
          /\ G[k] = Holding(M, m.scratch, m.free \cup Kids(M, t, k))
      BY <1>0
    <2> HIDE DEF G
    <2> TAKE a \in G[k - 1]
    <2>2. a \in Machine /\ a \in Holding(M, m.scratch, m.free \cup Kids(M, t, k - 1))
      BY <2>1 DEF Holding
    <2>3. FreePage(a, p, k - 1) \in Holding(M, m.scratch, m.free \cup Kids(M, t, k))
      BY <2>2, FreePagePass
    <2> QED BY <2>1, <2>2, <2>3
  <1>2. m \in G[0] /\ G \in Sets(N, Machine)
    <2>1. M \in Tables
      BY DEF Tree
    <2>2. Kids(M, t, 0) = {}
      BY <1>0, <2>1, KidsStep
    <2> QED BY <1>0, <2>2 DEF Holding, Sets
  <1> HIDE DEF Do, G, after
  <1>3. Passes(N, G, step)
    BY <1>1 DEF Passes
  <1>b. PICK f : Runs(f, N, Machine, G, m, step)
    <2> HIDE DEF step
    <2> QED BY <1>0, <1>2, <1>3, Iterate
  <1>4. f \in [0 .. N -> Machine] /\ f[0] = m
    BY <1>b DEF Runs
  <1>5. \A k \in 1 .. N : f[k] = Do(f[k - 1], k - 1)
    BY <1>1, <1>b DEF Runs
  <1>6. Eq(f)
    <2>1. f = [k \in 0 .. N |-> f[k]] /\ \A k \in 0 .. N : k # 0 => k \in 1 .. N
      BY <1>4
    <2> QED BY <1>4, <1>5, <2>1
  <1>7. Eq(after)
    <2> HIDE DEF Eq
    <2> QED BY <1>6 DEF after
  <1>8. after[0] = m /\ \A k \in 1 .. N : after[k] = Do(after[k - 1], k - 1)
    BY <1>0, <1>7
  <1>c. Onward(N, G, after)
    BY <1>1, <1>2, <1>8 DEF Onward
  <1>9. after[N] \in G[N]
    BY <1>0, <1>c, Iterated
  <1> QED BY <1>0, <1>a, <1>9 DEF G, Holding, HoldingAny

W4(M) == [u \in Frames |-> Kids(M, u, N)]
W3(M) == [u \in Frames |-> Reach(M, u, W4(M), N)]
W2(M) == [u \in Frames |-> Reach(M, u, W3(M), N)]

(* A table below the scratch page is shown by its address, and what it     *)
(* leads to by the pointer that Entry gives.                               *)
LEMMA EnteredIs ==
  ASSUME NEW M, NEW role, Tree(M, role), NEW t \in Frames, role[t] \in 1 .. 3, NEW i \in Index,
         NEW a \in Machine, a.mem = M, M[t][i] # Absent
  PROVE  LET y == M[t][i]
         IN  /\ Entered(a, t, i) = virt_for_phys(a, y) /\ Entry(a, t, i) = Pointer(y)
             /\ y \in Frames /\ role[y] = role[t] + 1
             /\ Entered(a, t, i) \in Machine /\ Entered(a, t, i).mem = M /\ Entered(a, t, i).free = a.free
             /\ Entry(a, t, i) \in Frames /\ Shows(Entered(a, t, i), Entry(a, t, i)) = y
             /\ y < SCRATCH => Entry(a, t, i) = y
  <1> DEFINE y == M[t][i]
  <1>1. M \in Tables /\ t < SCRATCH
    BY DEF Tree, InSight
  <1>2. Load(a, t, i) = y
    BY <1>1, LowShows DEF Load
  <1>3. Entered(a, t, i) = virt_for_phys(a, y) /\ Entry(a, t, i) = Pointer(y)
    BY <1>2 DEF Entered, Entry
  <1>4. y \in Frames /\ role[y] = role[t] + 1
    <2>1. role[t] \in 1 .. 4
      OBVIOUS
    <2> QED BY <1>1, <2>1 DEF Tree, Tiers, Tables, Entries
  <1>5. role[y] # 6
    BY <1>4
  <1>6. y # SCRATCH
    BY <1>4, <1>5, RoleFrame
  <1> HIDE DEF y
  <1>7. y < SCRATCH => Pointer(y) = y
    BY <1>4, LowShows
  <1> QED BY <1>3, <1>4, <1>6, <1>7, VirtIs, PointerIs DEF y

LEMMA FreePdIs ==
  ASSUME NEW M, NEW role, Tree(M, role), NEW t \in Frames, role[t] = 3, NEW m \in Machine, m.mem = M
  PROVE  FreePd(m, t) \in HoldingAny(M, m.free \cup Reach(M, t, W4(M), N))
  <1> DEFINE Do(a, i) == FreeTable(a, t, i, FreePages(Entered(a, t, i), Entry(a, t, i)))
             Eq(g) == g = [k \in 0 .. N |-> IF k = 0 THEN m ELSE Do(g[k - 1], k - 1)]
             after == CHOOSE g : Eq(g)
             W == W4(M)
             G == [k \in 0 .. N |-> HoldingAny(M, m.free \cup Reach(M, t, W, k))]
             step == [k \in 1 .. N |-> [a \in Machine |-> Do(a, k - 1)]]
  <1>0. N \in Nat /\ 0 \in 0 .. N /\ N \in 0 .. N /\ 1 \in 1 .. N
        /\ \A k \in 1 .. N : k - 1 \in 0 .. N /\ k \in 0 .. N /\ k # 0 /\ k - 1 \in Index
    BY Numbers
  <1>a. FreePd(m, t) = after[N]
    BY DEF FreePd, ForEach, N
  <1>1. \A k \in 1 .. N : \A a \in G[k - 1] : a \in Machine /\ Do(a, k - 1) \in G[k]
    <2> TAKE k \in 1 .. N
    <2>1. G[k - 1] = HoldingAny(M, m.free \cup Reach(M, t, W, k - 1))
          /\ G[k] = HoldingAny(M, m.free \cup Reach(M, t, W, k))
      BY <1>0
    <2> HIDE DEF G
    <2> TAKE a \in G[k - 1]
    <2>2. a \in Machine /\ a.mem = M /\ a \in HoldingAny(M, m.free \cup Reach(M, t, W, k - 1))
      BY <2>1 DEF HoldingAny
    <2> DEFINE y == M[t][k - 1]
               n == Entered(a, t, k - 1)
               p == Entry(a, t, k - 1)
               e == FreePages(n, p)
    <2>3. y # Absent => e \in HoldingAny(M, a.free \cup W[y])
      <3> SUFFICES ASSUME y # Absent PROVE e \in HoldingAny(M, a.free \cup W[y])
        OBVIOUS
      <3>1. role[t] \in 1 .. 3
        OBVIOUS
      <3>2. /\ y \in Frames /\ role[y] = role[t] + 1
            /\ n \in Machine /\ n.mem = M /\ n.free = a.free /\ p \in Frames /\ Shows(n, p) = y
        BY <1>0, <2>2, <3>1, EnteredIs
      <3> HIDE DEF y, n, p
      <3>3. role[y] = 4
        BY <3>2
      <3>4. e \in HoldingAny(M, n.free \cup Kids(M, y, N))
        BY <3>2, <3>3, FreePagesIs
      <3>5. W[y] = Kids(M, y, N)
        BY <3>2 DEF W4
      <3> QED BY <3>2, <3>4, <3>5
    <2>4. role[t] \in 1 .. 3
      OBVIOUS
    <2> HIDE DEF e, W
    <2>5. FreeTable(a, t, k - 1, e) \in HoldingAny(M, m.free \cup Reach(M, t, W, k))
      BY <2>2, <2>3, <2>4, FreeTablePass
    <2> QED BY <2>1, <2>2, <2>5 DEF e
  <1>2. m \in G[0] /\ G \in Sets(N, Machine)
    <2>1. M \in Tables
      BY DEF Tree
    <2> HIDE DEF W
    <2>2. Reach(M, t, W, 0) = {}
      BY <1>0, <2>1, ReachStep
    <2> QED BY <1>0, <2>2 DEF HoldingAny, Sets
  <1> HIDE DEF Do, G, after
  <1>3. Passes(N, G, step)
    BY <1>1 DEF Passes
  <1>b. PICK f : Runs(f, N, Machine, G, m, step)
    <2> HIDE DEF step
    <2> QED BY <1>0, <1>2, <1>3, Iterate
  <1>4. f \in [0 .. N -> Machine] /\ f[0] = m
    BY <1>b DEF Runs
  <1>5. \A k \in 1 .. N : f[k] = Do(f[k - 1], k - 1)
    BY <1>1, <1>b DEF Runs
  <1>6. Eq(f)
    <2>1. f = [k \in 0 .. N |-> f[k]] /\ \A k \in 0 .. N : k # 0 => k \in 1 .. N
      BY <1>4
    <2> QED BY <1>4, <1>5, <2>1
  <1>7. Eq(after)
    <2> HIDE DEF Eq
    <2> QED BY <1>6 DEF after
  <1>8. after[0] = m /\ \A k \in 1 .. N : after[k] = Do(after[k - 1], k - 1)
    BY <1>0, <1>7
  <1>c. Onward(N, G, after)
    BY <1>1, <1>2, <1>8 DEF Onward
  <1>9. after[N] \in G[N]
    BY <1>0, <1>c, Iterated
  <1> QED BY <1>0, <1>a, <1>9 DEF G

LEMMA FreePdptIs ==
  ASSUME NEW M, NEW role, Tree(M, role), NEW t \in Frames, role[t] = 2, NEW m \in Machine, m.mem = M
  PROVE  FreePdpt(m, t) \in HoldingAny(M, m.free \cup Reach(M, t, W3(M), N))
  <1> DEFINE Do(a, i) == FreeTable(a, t, i, FreePd(Entered(a, t, i), Entry(a, t, i)))
             Eq(g) == g = [k \in 0 .. N |-> IF k = 0 THEN m ELSE Do(g[k - 1], k - 1)]
             after == CHOOSE g : Eq(g)
             W == W3(M)
             G == [k \in 0 .. N |-> HoldingAny(M, m.free \cup Reach(M, t, W, k))]
             step == [k \in 1 .. N |-> [a \in Machine |-> Do(a, k - 1)]]
  <1>0. N \in Nat /\ 0 \in 0 .. N /\ N \in 0 .. N /\ 1 \in 1 .. N
        /\ \A k \in 1 .. N : k - 1 \in 0 .. N /\ k \in 0 .. N /\ k # 0 /\ k - 1 \in Index
    BY Numbers
  <1>a. FreePdpt(m, t) = after[N]
    BY DEF FreePdpt, ForEach, N
  <1>1. \A k \in 1 .. N : \A a \in G[k - 1] : a \in Machine /\ Do(a, k - 1) \in G[k]
    <2> TAKE k \in 1 .. N
    <2>1. G[k - 1] = HoldingAny(M, m.free \cup Reach(M, t, W, k - 1))
          /\ G[k] = HoldingAny(M, m.free \cup Reach(M, t, W, k))
      BY <1>0
    <2> HIDE DEF G
    <2> TAKE a \in G[k - 1]
    <2>2. a \in Machine /\ a.mem = M /\ a \in HoldingAny(M, m.free \cup Reach(M, t, W, k - 1))
      BY <2>1 DEF HoldingAny
    <2> DEFINE y == M[t][k - 1]
               n == Entered(a, t, k - 1)
               p == Entry(a, t, k - 1)
               e == FreePd(n, p)
    <2>3. y # Absent => e \in HoldingAny(M, a.free \cup W[y])
      <3> SUFFICES ASSUME y # Absent PROVE e \in HoldingAny(M, a.free \cup W[y])
        OBVIOUS
      <3>1. role[t] \in 1 .. 3
        OBVIOUS
      <3>2. /\ y \in Frames /\ role[y] = role[t] + 1
            /\ n \in Machine /\ n.mem = M /\ n.free = a.free /\ (y < SCRATCH => p = y)
        BY <1>0, <2>2, <3>1, EnteredIs
      <3> HIDE DEF y, n, p
      <3>3. role[y] = 3
        BY <3>2
      <3>4. p = y
        <4>1. role[y] \in 1 .. 3
          BY <3>3
        <4> QED BY <3>2, <4>1 DEF Tree, InSight
      <3>5. FreePd(n, y) \in HoldingAny(M, n.free \cup Reach(M, y, W4(M), N))
        BY <3>2, <3>3, FreePdIs
      <3>6. W[y] = Reach(M, y, W4(M), N)
        BY <3>2 DEF W3
      <3> QED BY <3>2, <3>4, <3>5, <3>6
    <2>4. role[t] \in 1 .. 3
      OBVIOUS
    <2> HIDE DEF e, W
    <2>5. FreeTable(a, t, k - 1, e) \in HoldingAny(M, m.free \cup Reach(M, t, W, k))
      BY <2>2, <2>3, <2>4, FreeTablePass
    <2> QED BY <2>1, <2>2, <2>5 DEF e
  <1>2. m \in G[0] /\ G \in Sets(N, Machine)
    <2>1. M \in Tables
      BY DEF Tree
    <2> HIDE DEF W
    <2>2. Reach(M, t, W, 0) = {}
      BY <1>0, <2>1, ReachStep
    <2> QED BY <1>0, <2>2 DEF HoldingAny, Sets
  <1> HIDE DEF Do, G, after
  <1>3. Passes(N, G, step)
    BY <1>1 DEF Passes
  <1>b. PICK f : Runs(f, N, Machine, G, m, step)
    <2> HIDE DEF step
    <2> QED BY <1>0, <1>2, <1>3, Iterate
  <1>4. f \in [0 .. N -> Machine] /\ f[0] = m
    BY <1>b DEF Runs
  <1>5. \A k \in 1 .. N : f[k] = Do(f[k - 1], k - 1)
    BY <1>1, <1>b DEF Runs
  <1>6. Eq(f)
    <2>1. f = [k \in 0 .. N |-> f[k]] /\ \A k \in 0 .. N : k # 0 => k \in 1 .. N
      BY <1>4
    <2> QED BY <1>4, <1>5, <2>1
  <1>7. Eq(after)
    <2> HIDE DEF Eq
    <2> QED BY <1>6 DEF after
  <1>8. after[0] = m /\ \A k \in 1 .. N : after[k] = Do(after[k - 1], k - 1)
    BY <1>0, <1>7
  <1>c. Onward(N, G, after)
    BY <1>1, <1>2, <1>8 DEF Onward
  <1>9. after[N] \in G[N]
    BY <1>0, <1>c, Iterated
  <1> QED BY <1>0, <1>a, <1>9 DEF G

(* The loop of paging_free_user_space over the user's half of a PML4.      *)
Emptied(m, pml4) ==
  ForEach(LAMBDA a, i : FreeTable(a, pml4, i, FreePdpt(Entered(a, pml4, i), Entry(a, pml4, i))),
          m, UserEntries)

LEMMA EmptiedIs ==
  ASSUME NEW M, NEW role, Tree(M, role), NEW t \in Frames, role[t] = 1, NEW m \in Machine, m.mem = M
  PROVE  Emptied(m, t) \in HoldingAny(M, m.free \cup Reach(M, t, W2(M), K))
  <1> DEFINE Do(a, i) == FreeTable(a, t, i, FreePdpt(Entered(a, t, i), Entry(a, t, i)))
             Eq(g) == g = [k \in 0 .. K |-> IF k = 0 THEN m ELSE Do(g[k - 1], k - 1)]
             after == CHOOSE g : Eq(g)
             W == W2(M)
             G == [k \in 0 .. K |-> HoldingAny(M, m.free \cup Reach(M, t, W, k))]
             step == [k \in 1 .. K |-> [a \in Machine |-> Do(a, k - 1)]]
  <1>0. K \in Nat /\ 0 \in 0 .. K /\ K \in 0 .. K /\ 1 \in 1 .. N
        /\ \A k \in 1 .. K : k - 1 \in 0 .. K /\ k \in 0 .. K /\ k # 0 /\ k - 1 \in Index /\ k \in 1 .. N
    BY Numbers
  <1>a. Emptied(m, t) = after[K]
    BY DEF Emptied, ForEach, UserEntries, K
  <1>1. \A k \in 1 .. K : \A a \in G[k - 1] : a \in Machine /\ Do(a, k - 1) \in G[k]
    <2> TAKE k \in 1 .. K
    <2>1. G[k - 1] = HoldingAny(M, m.free \cup Reach(M, t, W, k - 1))
          /\ G[k] = HoldingAny(M, m.free \cup Reach(M, t, W, k))
      BY <1>0
    <2> HIDE DEF G
    <2> TAKE a \in G[k - 1]
    <2>2. a \in Machine /\ a.mem = M /\ a \in HoldingAny(M, m.free \cup Reach(M, t, W, k - 1))
      BY <2>1 DEF HoldingAny
    <2> DEFINE y == M[t][k - 1]
               n == Entered(a, t, k - 1)
               p == Entry(a, t, k - 1)
               e == FreePdpt(n, p)
    <2>3. y # Absent => e \in HoldingAny(M, a.free \cup W[y])
      <3> SUFFICES ASSUME y # Absent PROVE e \in HoldingAny(M, a.free \cup W[y])
        OBVIOUS
      <3>1. role[t] \in 1 .. 3
        OBVIOUS
      <3>2. /\ y \in Frames /\ role[y] = role[t] + 1
            /\ n \in Machine /\ n.mem = M /\ n.free = a.free /\ (y < SCRATCH => p = y)
        BY <1>0, <2>2, <3>1, EnteredIs
      <3> HIDE DEF y, n, p
      <3>3. role[y] = 2
        BY <3>2
      <3>4. p = y
        <4>1. role[y] \in 1 .. 3
          BY <3>3
        <4> QED BY <3>2, <4>1 DEF Tree, InSight
      <3>5. FreePdpt(n, y) \in HoldingAny(M, n.free \cup Reach(M, y, W3(M), N))
        BY <3>2, <3>3, FreePdptIs
      <3>6. W[y] = Reach(M, y, W3(M), N)
        BY <3>2 DEF W2
      <3> QED BY <3>2, <3>4, <3>5, <3>6
    <2>4. role[t] \in 1 .. 3
      OBVIOUS
    <2> HIDE DEF e, W
    <2>5. FreeTable(a, t, k - 1, e) \in HoldingAny(M, m.free \cup Reach(M, t, W, k))
      BY <1>0, <2>2, <2>3, <2>4, FreeTablePass
    <2> QED BY <2>1, <2>2, <2>5 DEF e
  <1>2. m \in G[0] /\ G \in Sets(K, Machine)
    <2>1. M \in Tables
      BY DEF Tree
    <2> HIDE DEF W
    <2>2. Reach(M, t, W, 0) = {}
      BY <1>0, <2>1, ReachStep
    <2> QED BY <1>0, <2>2 DEF HoldingAny, Sets
  <1> HIDE DEF Do, G, after
  <1>3. Passes(K, G, step)
    BY <1>1 DEF Passes
  <1>b. PICK f : Runs(f, K, Machine, G, m, step)
    <2> HIDE DEF step
    <2> QED BY <1>0, <1>2, <1>3, Iterate
  <1>4. f \in [0 .. K -> Machine] /\ f[0] = m
    BY <1>b DEF Runs
  <1>5. \A k \in 1 .. K : f[k] = Do(f[k - 1], k - 1)
    BY <1>1, <1>b DEF Runs
  <1>6. Eq(f)
    <2>1. f = [k \in 0 .. K |-> f[k]] /\ \A k \in 0 .. K : k # 0 => k \in 1 .. K
      BY <1>4
    <2> QED BY <1>4, <1>5, <2>1
  <1>7. Eq(after)
    <2> HIDE DEF Eq
    <2> QED BY <1>6 DEF after
  <1>8. after[0] = m /\ \A k \in 1 .. K : after[k] = Do(after[k - 1], k - 1)
    BY <1>0, <1>7
  <1>c. Onward(K, G, after)
    BY <1>1, <1>2, <1>8 DEF Onward
  <1>9. after[K] \in G[K]
    BY <1>0, <1>c, Iterated
  <1> QED BY <1>0, <1>a, <1>9 DEF G

-----------------------------------------------------------------------------
(* A new PML4: its last entry leads to the kernel's tables.                *)
Rooted(M, L, f) ==
  /\ L \in Tables /\ L[f][K] = pdpt_hi /\ \A j \in Index : j # K => L[f][j] = Absent
  /\ \A u \in Frames : u # f => L[u] = M[u]

LEMMA RootTree ==
  ASSUME NEW M, NEW role, Tree(M, role), NEW f \in Frames, role[f] = 0, f < SCRATCH,
         NEW L, Rooted(M, L, f), NEW new, Gives(role, new, f, 1)
  PROVE  Tree(L, new)
  <1>1. new \in Uses /\ new[f] = 1 /\ \A x \in Frames : x # f => new[x] = role[x]
    BY DEF Gives
  <1>2. /\ L \in Tables /\ L[f][K] = pdpt_hi /\ \A j \in Index : j # K => L[f][j] = Absent
        /\ \A u \in Frames : u # f => L[u] = M[u]
        /\ M \in Tables
    BY DEF Rooted, Tree
  <1>3. /\ role[pml4_new] = 1 /\ role[pdpt_hi] = 2
        /\ pml4_new \in Frames /\ pdpt_hi \in Frames /\ K \in Index /\ pdpt_hi # Absent
        /\ M[pml4_new][K] = pdpt_hi /\ M[pdpt_hi][K - 1] = pd_hi
    BY KernelTiers, Numbers DEF Tree, Shared
  <1>4. pml4_new # f /\ pdpt_hi # f /\ role[pml4_new] \in 1 .. 4
    BY <1>3
  <1>5. ASSUME NEW u \in Frames, NEW j \in Index, new[u] \in 1 .. 4, L[u][j] # Absent
        PROVE  \/ u = f /\ j = K /\ L[u][j] = pdpt_hi
               \/ /\ u # f /\ role[u] = new[u] /\ L[u][j] = M[u][j] /\ M[u][j] \in Frames
                  /\ role[M[u][j]] = role[u] + 1 /\ M[u][j] # f
    <2>1. CASE u = f
      BY <1>2, <1>5, <2>1
    <2>2. CASE u # f
      <3>1. role[u] = new[u] /\ L[u][j] = M[u][j] /\ M[u][j] # Absent
        BY <1>1, <1>2, <1>5, <2>2
      <3>2. M[u][j] \in Frames
        BY <1>2, <3>1 DEF Tables, Entries
      <3>3. role[M[u][j]] = role[u] + 1
        BY <1>5, <3>1 DEF Tree, Tiers
      <3>4. M[u][j] # f
        BY <1>5, <3>1, <3>3
      <3> QED BY <2>2, <3>1, <3>2, <3>3, <3>4
    <2> QED BY <2>1, <2>2
  <1>6. Tiers(L, new)
    <2> SUFFICES ASSUME NEW u \in Frames, NEW j \in Index, new[u] \in 1 .. 4, L[u][j] # Absent
                 PROVE  new[L[u][j]] = new[u] + 1
      BY DEF Tiers
    <2>1. CASE u = f /\ j = K /\ L[u][j] = pdpt_hi
      <3>1. new[pdpt_hi] = 2
        BY <1>1, <1>3, <1>4
      <3> QED BY <1>1, <2>1, <3>1
    <2>2. CASE /\ u # f /\ role[u] = new[u] /\ L[u][j] = M[u][j] /\ M[u][j] \in Frames
               /\ role[M[u][j]] = role[u] + 1 /\ M[u][j] # f
      BY <1>1, <2>2
    <2> QED BY <1>5, <2>1, <2>2
  <1>7. Single(L, new)
    <2> SUFFICES ASSUME NEW u \in Frames, NEW v \in Frames, NEW j \in Index, NEW k \in Index,
                        new[u] \in 1 .. 4, new[v] \in 1 .. 4, L[u][j] # Absent, L[u][j] = L[v][k]
                 PROVE  (u = v /\ j = k) \/ (new[u] = 1 /\ j = K /\ k = K)
      BY DEF Single
    <2>1. \/ u = f /\ j = K /\ L[u][j] = pdpt_hi
          \/ u # f /\ role[u] = new[u] /\ L[u][j] = M[u][j]
      BY <1>5
    <2>2. \/ v = f /\ k = K /\ L[v][k] = pdpt_hi
          \/ v # f /\ role[v] = new[v] /\ L[v][k] = M[v][k]
      BY <1>5
    <2>3. CASE u = f /\ j = K /\ L[u][j] = pdpt_hi
      <3>1. CASE v = f /\ k = K /\ L[v][k] = pdpt_hi
        BY <2>3, <3>1
      <3>2. CASE v # f /\ role[v] = new[v] /\ L[v][k] = M[v][k]
        <4>1. M[pml4_new][K] = M[v][k] /\ role[v] \in 1 .. 4 /\ M[pml4_new][K] # Absent
          BY <1>3, <2>3, <3>2
        <4>2. k = K
          BY <1>3, <1>4, <4>1, Only
        <4> QED BY <1>1, <2>3, <4>2
      <3> QED BY <2>2, <3>1, <3>2
    <2>4. CASE u # f /\ role[u] = new[u] /\ L[u][j] = M[u][j]
      <3>1. CASE v = f /\ k = K /\ L[v][k] = pdpt_hi
        <4>1. M[u][j] = M[pml4_new][K] /\ role[u] \in 1 .. 4 /\ M[u][j] # Absent
          BY <1>3, <2>4, <3>1
        <4>2. (u = pml4_new /\ j = K) \/ (role[u] = 1 /\ j = K)
          BY <1>3, <1>4, <4>1, Only
        <4>3. role[u] = 1 /\ j = K
          BY <1>3, <4>2
        <4> QED BY <2>4, <3>1, <4>3
      <3>2. CASE v # f /\ role[v] = new[v] /\ L[v][k] = M[v][k]
        <4>1. M[u][j] = M[v][k] /\ role[u] \in 1 .. 4 /\ role[v] \in 1 .. 4 /\ M[u][j] # Absent
          BY <2>4, <3>2
        <4> QED BY <2>4, <4>1, Only
      <3> QED BY <2>2, <3>1, <3>2
    <2> QED BY <2>1, <2>3, <2>4
  <1>8. Shared(L, new)
    <2>1. L[pdpt_hi][K - 1] = pd_hi /\ new[pml4_new] = 1
      BY <1>1, <1>2, <1>3, <1>4
    <2>2. ASSUME NEW u \in Frames, new[u] = 1 PROVE L[u][K] = pdpt_hi
      BY <1>1, <1>2, <2>2 DEF Tree, Shared
    <2> QED BY <2>1, <2>2 DEF Shared
  <1>9. InSight(new)
    <2>1. new[0] = 6 /\ new[SCRATCH] = 6
      BY <1>1, Numbers DEF Tree, InSight
    <2> QED BY <1>1, <2>1 DEF Tree, InSight
  <1> QED BY <1>1, <1>2, <1>6, <1>7, <1>8, <1>9 DEF Tree

LEMMA RootWalks ==
  ASSUME NEW M, NEW role, Tree(M, role), NEW f \in Frames, role[f] = 0, NEW L, Rooted(M, L, f)
  PROVE  /\ Walks(M, L, role)
         /\ \A page \in Pages :
              Translate(L, f, page) = IF KernelPage(page) THEN Translate(M, pml4_new, page) ELSE Absent
  <1>1. Agree(M, L, role)
    BY DEF Agree, Rooted
  <1>2. Walks(M, L, role)
    BY <1>1, AgreeWalks
  <1>3. ASSUME NEW page \in Pages
        PROVE  Translate(L, f, page) = IF KernelPage(page) THEN Translate(M, pml4_new, page) ELSE Absent
    <2> DEFINE i == Path(page)[1]
    <2>1. page \in Nat /\ i \in Index
      <3>1. page \in Nat
        BY TopDigit
      <3> QED BY <3>1, Paths
    <2>2. KernelPage(page) <=> i = K
      BY KernelPath
    <2>3. f # Absent /\ pml4_new # Absent /\ pml4_new \in Frames /\ role[pml4_new] = 1
          /\ L[pml4_new] = M[pml4_new] /\ M[pml4_new][K] = pdpt_hi
      <3>1. role[pml4_new] = 1 /\ pml4_new \in Frames /\ f # Absent
        BY Numbers DEF Tree, Shared
      <3>2. pml4_new # f /\ pml4_new # Absent
        BY <3>1, Numbers
      <3> QED BY <3>1, <3>2 DEF Tree, Shared, Rooted
    <2>4. CASE KernelPage(page)
      <3>1. Look(L, f, i) = Look(L, pml4_new, i)
        BY <2>2, <2>3, <2>4 DEF Look, Rooted
      <3>2. Pt(L, f, page) = Pt(L, pml4_new, page)
        BY <3>1 DEF Pt
      <3>3. Translate(L, f, page) = Translate(L, pml4_new, page)
        BY <3>2, TranslateIs
      <3> QED BY <1>2, <2>3, <2>4, <3>3 DEF Walks
    <2>5. CASE ~KernelPage(page)
      <3>1. Look(L, f, i) = Absent
        BY <2>1, <2>2, <2>3, <2>5 DEF Look, Rooted
      <3>2. Pt(L, f, page) = Absent
        BY <3>1 DEF Pt, Look
      <3> QED BY <2>5, <3>2, TranslateIs DEF Look
    <2> QED BY <2>4, <2>5
  <1> QED BY <1>2, <1>3

(* paging_create_user_space's stores.                                      *)
LEMMA CreateIs ==
  ASSUME NEW m, NEW role, Sound(m, role), m.free # {}, NEW f, f = Lowest(m), f < SCRATCH
  PROVE  LET cleared == Zero(virt_for_phys(Taken(m), f), Pointer(f))
             r == Store(cleared, Pointer(f), KERNEL_ENTRY, Load(cleared, pml4_new, KERNEL_ENTRY))
         IN  r \in Machine /\ Rooted(m.mem, r.mem, f) /\ r.free = m.free \ {f}
  <1> DEFINE M == m.mem
             z == Zero(virt_for_phys(Taken(m), f), Pointer(f))
             x == Load(z, pml4_new, K)
             r == Store(z, f, K, x)
             C == Clear(M, f)
  <1>1. m \in Machine /\ M \in Tables
    BY DEF Sound, Tree
  <1>2. f \in m.free /\ f \in Frames /\ role[f] = 0
    <2>1. f # SCRATCH
      BY Numbers
    <2> QED BY <1>1, <2>1, LowestIs DEF Sound
  <1>3. Taken(m) \in Machine /\ Taken(m).mem = M /\ Taken(m).free = m.free \ {f}
    BY <1>1, TakenIs
  <1>4. Pointer(f) = f /\ virt_for_phys(Taken(m), f) = Taken(m) /\ \A n : Shows(n, f) = f
    BY <1>2, LowShows
  <1>5. z \in Machine /\ z.mem = C /\ z.free = m.free \ {f}
    BY <1>2, <1>3, <1>4, ZeroIs
  <1>6. C \in Tables /\ Same(M, C, f) /\ \A j \in Index : C[f][j] = Absent
    BY <1>1, <1>2, ClearIs
  <1> HIDE DEF z, C
  <1>7. x = pdpt_hi
    <2>1. pml4_new < SCRATCH /\ pml4_new \in Frames
      BY Numbers
    <2>2. Shows(z, pml4_new) = pml4_new
      BY <2>1, LowShows
    <2>3. role[pml4_new] = 1 /\ M[pml4_new][K] = pdpt_hi
      BY <2>1 DEF Sound, Tree, Shared
    <2>4. pml4_new # f
      BY <1>2, <2>3
    <2> QED BY <1>5, <1>6, <2>1, <2>2, <2>3, <2>4 DEF Load, Same
  <1> HIDE DEF x
  <1>8. x \in Entries /\ K \in Index
    BY <1>7, Numbers DEF Entries
  <1>9. r \in Machine /\ Stored(z.mem, r.mem, f, K, x) /\ r.free = z.free
    BY <1>2, <1>4, <1>5, <1>8, StoreStored
  <1> HIDE DEF r
  <1>10. Rooted(M, r.mem, f)
    BY <1>5, <1>6, <1>7, <1>8, <1>9 DEF Rooted, Stored, Same
  <1> QED BY <1>4, <1>5, <1>9, <1>10 DEF r, x, z, K

-----------------------------------------------------------------------------
(* The frames of one user space, level by level, and its teardown.         *)
Spread(M, T) == UNION {Kids(M, u, N) : u \in T}
Own(M, c) ==
  LET a == Kids(M, c, K)
      b == Spread(M, a)
      d == Spread(M, b)
  IN  a \cup b \cup d \cup Spread(M, d)
OnLevel(role, l, T) == T \subseteq Frames /\ \A u \in T : role[u] = l

LEMMA KidsAre ==
  ASSUME NEW M, NEW role, Tree(M, role), NEW l \in 1 .. 4, NEW t \in Frames, role[t] = l, NEW n \in 0 .. N
  PROVE  /\ OnLevel(role, l + 1, Kids(M, t, n))
         /\ \A x \in Kids(M, t, n) : \E j \in Index : j < n /\ M[t][j] = x /\ x # Absent
  <1>1. 0 .. n - 1 \subseteq Index /\ \A j \in 0 .. n - 1 : j < n
    BY Numbers
  <1>2. M \in Tables /\ role[t] \in 1 .. 4
    BY DEF Tree
  <1>3. ASSUME NEW x \in Kids(M, t, n) PROVE \E j \in Index : j < n /\ M[t][j] = x /\ x # Absent
    BY <1>1 DEF Kids
  <1>4. ASSUME NEW x \in Kids(M, t, n) PROVE x \in Frames /\ role[x] = l + 1
    <2>1. PICK j \in Index : M[t][j] = x /\ x # Absent
      BY <1>3
    <2>2. x \in Frames
      BY <1>2, <2>1 DEF Tables, Entries
    <2>3. role[x] = role[t] + 1
      BY <1>2, <2>1 DEF Tree, Tiers
    <2> QED BY <2>2, <2>3
  <1> QED BY <1>3, <1>4 DEF OnLevel

LEMMA SpreadIs ==
  ASSUME NEW M, NEW role, Tree(M, role), NEW l \in 1 .. 4, NEW T, OnLevel(role, l, T)
  PROVE  /\ OnLevel(role, l + 1, Spread(M, T))
         /\ \A x \in Spread(M, T) : \E u \in T, j \in Index : M[u][j] = x /\ x # Absent
  <1>1. N \in 0 .. N
    BY Numbers
  <1>2. ASSUME NEW u \in T
        PROVE  /\ OnLevel(role, l + 1, Kids(M, u, N))
               /\ \A x \in Kids(M, u, N) : \E j \in Index : M[u][j] = x /\ x # Absent
    <2>1. u \in Frames /\ role[u] = l
      BY DEF OnLevel
    <2> QED BY <1>1, <2>1, KidsAre
  <1>3. OnLevel(role, l + 1, Spread(M, T))
    BY <1>2 DEF OnLevel, Spread
  <1>4. \A x \in Spread(M, T) : \E u \in T, j \in Index : M[u][j] = x /\ x # Absent
    BY <1>2 DEF Spread
  <1> QED BY <1>3, <1>4

(* Every frame of a space has an entry in the space that leads to it.      *)
LEMMA OwnIs ==
  ASSUME NEW M, NEW role, Tree(M, role), NEW c \in Frames, role[c] = 1
  PROVE  /\ Own(M, c) = Reach(M, c, W2(M), K)
         /\ Own(M, c) \subseteq Frames /\ \A x \in Own(M, c) : role[x] \in 2 .. 5
         /\ \A x \in Own(M, c) : \E u \in Own(M, c) \cup {c}, j \in Index :
              role[u] \in 1 .. 4 /\ M[u][j] = x /\ x # Absent /\ (u = c => j # K)
  <1> DEFINE a == Kids(M, c, K)
             b == Spread(M, a)
             d == Spread(M, b)
             e == Spread(M, d)
  <1>0. K \in 0 .. N /\ 1 \in 1 .. 4 /\ 2 \in 1 .. 4 /\ 3 \in 1 .. 4 /\ 4 \in 1 .. 4
        /\ 1 + 1 = 2 /\ 2 + 1 = 3 /\ 3 + 1 = 4 /\ 4 + 1 = 5 /\ K \in Nat /\ Index \subseteq Nat
    BY Numbers
  <1>1. OnLevel(role, 1 + 1, a) /\ \A x \in a : \E j \in Index : j < K /\ M[c][j] = x /\ x # Absent
    BY <1>0, KidsAre
  <1> HIDE DEF a
  <1>2. OnLevel(role, 2, a)
    BY <1>0, <1>1
  <1>3. OnLevel(role, 2 + 1, b) /\ \A x \in b : \E u \in a, j \in Index : M[u][j] = x /\ x # Absent
    BY <1>0, <1>2, SpreadIs
  <1> HIDE DEF b
  <1>4. OnLevel(role, 3, b)
    BY <1>0, <1>3
  <1>5. OnLevel(role, 3 + 1, d) /\ \A x \in d : \E u \in b, j \in Index : M[u][j] = x /\ x # Absent
    BY <1>0, <1>4, SpreadIs
  <1> HIDE DEF d
  <1>6. OnLevel(role, 4, d)
    BY <1>0, <1>5
  <1>7. OnLevel(role, 4 + 1, e) /\ \A x \in e : \E u \in d, j \in Index : M[u][j] = x /\ x # Absent
    BY <1>0, <1>6, SpreadIs
  <1> HIDE DEF e
  <1>8. Own(M, c) = a \cup b \cup d \cup e
    BY DEF Own, a, b, d, e
  <1>9. Own(M, c) \subseteq Frames
    BY <1>2, <1>4, <1>6, <1>7, <1>8 DEF OnLevel
  <1>10. /\ \A x \in a : role[x] = 2 /\ role[x] # 1
         /\ \A x \in b : role[x] = 3 /\ role[x] # 1
         /\ \A x \in d : role[x] = 4 /\ role[x] # 1
         /\ \A x \in e : role[x] = 5
    BY <1>0, <1>2, <1>4, <1>6, <1>7 DEF OnLevel
  <1>11. \A x \in Own(M, c) : role[x] \in 2 .. 5
    BY <1>8, <1>10
  <1>12. ASSUME NEW x \in Own(M, c)
         PROVE  \E u \in Own(M, c) \cup {c}, j \in Index :
                  role[u] \in 1 .. 4 /\ M[u][j] = x /\ x # Absent /\ (u = c => j # K)
    <2>1. CASE x \in a
      <3>1. PICK j \in Index : j < K /\ M[c][j] = x /\ x # Absent
        BY <1>1, <2>1
      <3>2. j # K /\ role[c] \in 1 .. 4
        BY <1>0, <3>1
      <3> QED BY <3>1, <3>2
    <2>2. CASE x \in b \cup d \cup e
      <3>1. PICK u \in a \cup b \cup d, j \in Index : M[u][j] = x /\ x # Absent
        BY <1>3, <1>5, <1>7, <2>2
      <3>2. u # c /\ u \in Own(M, c)
        BY <1>8, <1>10, <3>1
      <3>3. role[u] = 2 \/ role[u] = 3 \/ role[u] = 4
        BY <1>10, <3>1
      <3>4. role[u] \in 1 .. 4
        BY <3>3
      <3> QED BY <3>1, <3>2, <3>4
    <2> QED BY <1>8, <2>1, <2>2
  <1>13. Own(M, c) = Reach(M, c, W2(M), K)
    <2>0. a \subseteq Frames /\ b \subseteq Frames /\ d \subseteq Frames
      BY <1>2, <1>4, <1>6 DEF OnLevel
    <2>1. \A u \in d : W4(M)[u] = Kids(M, u, N)
      BY <2>0 DEF W4
    <2>2. \A u \in b : W3(M)[u] = Kids(M, u, N) \cup UNION {W4(M)[v] : v \in Kids(M, u, N)}
      BY <2>0 DEF W3, Reach
    <2>3. \A u \in a : W2(M)[u] = Kids(M, u, N) \cup UNION {W3(M)[v] : v \in Kids(M, u, N)}
      BY <2>0 DEF W2, Reach
    <2>4. Reach(M, c, W2(M), K) = a \cup UNION {W2(M)[u] : u \in a}
      BY DEF Reach, a
    <2>5. b = UNION {Kids(M, u, N) : u \in a} /\ d = UNION {Kids(M, u, N) : u \in b}
          /\ e = UNION {Kids(M, u, N) : u \in d}
      BY DEF b, d, e, Spread
    <2>6. UNION {W3(M)[u] : u \in b} = d \cup e
      <3>1. \A u \in b : \A v \in Kids(M, u, N) : v \in d
        BY <2>5
      <3>2. \A u \in b : W3(M)[u] = Kids(M, u, N) \cup UNION {Kids(M, v, N) : v \in Kids(M, u, N)}
        BY <2>1, <2>2, <3>1
      <3> QED BY <2>5, <3>2
    <2>7. UNION {W2(M)[u] : u \in a} = b \cup UNION {W3(M)[u] : u \in b}
      BY <2>3, <2>5
    <2> QED BY <1>8, <2>4, <2>6, <2>7
  <1> QED BY <1>9, <1>11, <1>12, <1>13

(* The uses of its frames are forgotten.                                   *)
Forgets(role, new, R) ==
  new \in Uses /\ \A x \in Frames : new[x] = IF x \in R THEN 0 ELSE role[x]

LEMMA ForgetTree ==
  ASSUME NEW M, NEW role, Tree(M, role), NEW c \in Frames, role[c] = 1, c # pml4_new,
         NEW new, Forgets(role, new, Own(M, c) \cup {c})
  PROVE  Tree(M, new)
  <1> DEFINE R == Own(M, c) \cup {c}
  <1>1. /\ new \in Uses /\ \A x \in Frames : new[x] = IF x \in R THEN 0 ELSE role[x]
        /\ M \in Tables /\ role \in Uses
    BY DEF Forgets, Tree
  <1>2. \A x \in Own(M, c) : x \in Frames /\ role[x] \in 2 .. 5
    BY OwnIs
  <1>3. ASSUME NEW x \in Own(M, c)
        PROVE  \E u \in R, j \in Index :
                 role[u] \in 1 .. 4 /\ M[u][j] = x /\ x # Absent /\ (u = c => j # K)
    BY OwnIs
  <1> HIDE DEF R
  <1>4. ASSUME NEW u \in Frames, new[u] # 0 PROVE u \notin R /\ new[u] = role[u]
    BY <1>1, <1>4
  <1>5. ASSUME NEW u \in Frames, NEW j \in Index, new[u] \in 1 .. 4, M[u][j] # Absent
        PROVE  M[u][j] \in Frames /\ M[u][j] \notin R /\ role[M[u][j]] = role[u] + 1
    <2>0. new[u] # 0
      BY <1>5
    <2>1. u \notin R /\ new[u] = role[u]
      BY <1>4, <2>0
    <2>2. role[M[u][j]] = role[u] + 1 /\ M[u][j] \in Frames /\ role[u] \in 1 .. 4
      BY <1>1, <1>5, <2>1 DEF Tree, Tiers, Tables, Entries
    <2>3. M[u][j] # c
      BY <2>2
    <2>4. ASSUME M[u][j] \in Own(M, c) PROVE FALSE
      <3>1. PICK v \in R, k \in Index :
              role[v] \in 1 .. 4 /\ M[v][k] = M[u][j] /\ M[u][j] # Absent /\ (v = c => k # K)
        BY <1>3, <2>4
      <3>2. v \in Frames
        BY <1>2, <3>1 DEF R
      <3>3. (u = v /\ j = k) \/ (role[u] = 1 /\ j = K /\ k = K)
        BY <2>2, <3>1, <3>2, Only
      <3>4. CASE u = v
        BY <2>1, <3>1, <3>4
      <3>5. CASE role[u] = 1 /\ j = K /\ k = K
        <4>1. (v = u /\ k = j) \/ role[v] = 1
          BY <2>2, <3>1, <3>2, Only
        <4>2. role[v] = 1
          BY <2>1, <3>1, <4>1
        <4>3. v # c
          BY <3>1, <3>5
        <4>4. v \in Own(M, c)
          BY <3>1, <4>3 DEF R
        <4>5. role[v] \in 2 .. 5
          BY <1>2, <4>4
        <4> QED BY <4>2, <4>5
      <3> QED BY <3>3, <3>4, <3>5
    <2> QED BY <2>2, <2>3, <2>4 DEF R
  <1>6. Tiers(M, new)
    <2> SUFFICES ASSUME NEW u \in Frames, NEW j \in Index, new[u] \in 1 .. 4, M[u][j] # Absent
                 PROVE  new[M[u][j]] = new[u] + 1
      BY DEF Tiers
    <2>1. M[u][j] \in Frames /\ M[u][j] \notin R /\ role[M[u][j]] = role[u] + 1
      BY <1>5
    <2>2. new[M[u][j]] = role[M[u][j]]
      BY <1>1, <2>1
    <2>3. new[u] = role[u]
      BY <1>4
    <2> QED BY <2>1, <2>2, <2>3
  <1>7. Single(M, new)
    <2> SUFFICES ASSUME NEW u \in Frames, NEW v \in Frames, NEW j \in Index, NEW k \in Index,
                        new[u] \in 1 .. 4, new[v] \in 1 .. 4, M[u][j] # Absent, M[u][j] = M[v][k]
                 PROVE  (u = v /\ j = k) \/ (new[u] = 1 /\ j = K /\ k = K)
      BY DEF Single
    <2>1. new[u] = role[u] /\ new[v] = role[v]
      BY <1>4
    <2>2. role[u] \in 1 .. 4 /\ role[v] \in 1 .. 4
      BY <2>1
    <2> QED BY <2>1, <2>2, Only
  <1>8. Shared(M, new)
    <2>1. role[pml4_new] = 1 /\ pml4_new \in Frames
      BY Numbers DEF Tree, Shared
    <2>2. pml4_new \notin Own(M, c)
      <3>1. pml4_new \in Own(M, c) => role[pml4_new] \in 2 .. 5
        BY <1>2
      <3> QED BY <2>1, <3>1
    <2>3. new[pml4_new] = 1
      BY <1>1, <2>1, <2>2 DEF R
    <2>4. ASSUME NEW t \in Frames, new[t] = 1 PROVE M[t][K] = pdpt_hi
      <3>1. role[t] = 1
        BY <1>4, <2>4
      <3> QED BY <3>1 DEF Tree, Shared
    <2> QED BY <2>3, <2>4 DEF Shared, Tree
  <1>10. 0 \notin R /\ SCRATCH \notin R
    <2>1. \A x \in Own(M, c) : role[x] # 6
      BY <1>2
    <2> QED BY <2>1, <1>2 DEF R, Tree, InSight
  <1>9. InSight(new)
    <2>0. new[0] = 6 /\ new[SCRATCH] = 6
      BY <1>1, <1>10, Numbers DEF Tree, InSight
    <2> SUFFICES ASSUME NEW u \in Frames PROVE new[u] \in 1 .. 3 => u < SCRATCH
      BY <2>0 DEF InSight
    <2>1. CASE new[u] = 0
      BY <2>1
    <2>2. CASE new[u] # 0
      <3>1. new[u] = role[u]
        BY <1>4, <2>2
      <3> QED BY <3>1 DEF Tree, InSight
    <2> QED BY <2>1, <2>2
  <1> QED BY <1>1, <1>6, <1>7, <1>8, <1>9 DEF Tree

LEMMA ForgetOne ==
  ASSUME NEW role \in Uses, NEW R
  PROVE  \E new : Forgets(role, new, R)
  <1> DEFINE new == [x \in Frames |-> IF x \in R THEN 0 ELSE role[x]]
  <1>1. new \in Uses /\ \A x \in Frames : new[x] = IF x \in R THEN 0 ELSE role[x]
    BY DEF Uses
  <1> HIDE DEF new
  <1> QED BY <1>1 DEF Forgets

-----------------------------------------------------------------------------
(* The invariant: the tables are trees, their roots are the address spaces,*)
(* every walk ends where the callers were told, and callers were told about*)
(* kernel pages of the kernel's tables and user pages of user spaces only. *)
Told(g, c, page) ==
  LET k == <<IF KernelPage(page) THEN pml4_new ELSE c, page>>
  IN  IF k \in DOMAIN g THEN g[k] ELSE Absent
Faithful(M, S, g) ==
  \A c \in S \cup {pml4_new}, page \in Pages : Translate(M, c, page) = Told(g, c, page)
Proper(S, c, page) == (c = pml4_new /\ KernelPage(page)) \/ (c \in S /\ ~KernelPage(page))
Keyed(S, g) ==
  /\ DOMAIN g \subseteq Frames \X Pages
  /\ \A k \in DOMAIN g : Proper(S, k[1], k[2]) /\ g[k] \in Frames \ {0}
Roots(S, role) == S = {t \in Frames : role[t] = 1} \ {pml4_new}
Good(m, S, g, role) == Sound(m, role) /\ Roots(S, role) /\ Faithful(m.mem, S, g) /\ Keyed(S, g)

(* It holds again after a step that gives no use to a frame that has none.  *)
Fixed(role, new) == \A x \in Frames : role[x] = 6 => new[x] = 6
Leads(role, r, S, g) == \E new : Good(r, S, g, new) /\ Fixed(role, new)

(* And frames in use stay so, or become free, except for lost.             *)
SparesBut(m, role, r, new, lost) ==
  \A x \in Frames : Kept(m, role, x) => Kept(r, new, x) \/ (x = lost /\ new[x] = 0)
Saves(m, role, r, S, g, old, lost) ==
  \E new : Good(r, S, g, new) /\ Fixed(role, new) /\ (old = Absent => SparesBut(m, role, r, new, lost))

LEMMA SavesLeads ==
  ASSUME NEW m, NEW role, NEW r, NEW S, NEW g, NEW old, NEW lost, Saves(m, role, r, S, g, old, lost)
  PROVE  Leads(role, r, S, g)
  BY DEF Saves, Leads

LEMMA LeadsSelf ==
  ASSUME NEW m, NEW S, NEW g, NEW role, Good(m, S, g, role)
  PROVE  Leads(role, m, S, g)
  BY DEF Leads, Fixed

LEMMA GrownFixed ==
  ASSUME NEW m, NEW r, NEW role, NEW new, Sound(m, role), Grown(m, r, role, new)
  PROVE  Fixed(role, new)
  <1> SUFFICES ASSUME NEW x \in Frames, role[x] = 6 PROVE new[x] = 6
    BY DEF Fixed
  <1>1. role[x] # 0
    OBVIOUS
  <1> QED BY <1>1, GrownKeeps

LEMMA MappedKeeps ==
  ASSUME NEW m, NEW r, NEW role, NEW new, NEW c, NEW page, NEW f, Sound(m, role), role[f] = 0,
         Mapped(m, r, role, new, c, page, f), NEW x \in Frames, role[x] # 0
  PROVE  new[x] = role[x]
  <1>1. CASE x = SCRATCH
    BY <1>1 DEF Mapped, Sound, Tree, InSight
  <1>2. CASE x # SCRATCH
    BY <1>2 DEF Mapped, Sound
  <1> QED BY <1>1, <1>2

LEMMA MappedFixed ==
  ASSUME NEW m, NEW r, NEW role, NEW new, NEW c, NEW page, NEW f, Sound(m, role),
         role[f] = 0, Mapped(m, r, role, new, c, page, f)
  PROVE  Fixed(role, new)
  <1> SUFFICES ASSUME NEW x \in Frames, role[x] = 6 PROVE new[x] = 6
    BY DEF Fixed
  <1>1. role[x] # 0
    OBVIOUS
  <1> QED BY <1>1, MappedKeeps

LEMMA RootRoles ==
  ASSUME NEW m, NEW S, NEW g, NEW role, Good(m, S, g, role), NEW c \in S \cup {pml4_new}
  PROVE  c \in Frames /\ role[c] = 1 /\ Tree(m.mem, role) /\ m \in Machine /\ pml4_new \notin S
  BY Numbers DEF Good, Roots, Sound, Tree, Shared

LEMMA SameRoots ==
  ASSUME NEW S, NEW role, Roots(S, role), NEW new, \A x \in Frames : new[x] = 1 <=> role[x] = 1
  PROVE  Roots(S, new)
  BY DEF Roots

(* Changes that no walk can see.                                           *)
LEMMA StillGood ==
  ASSUME NEW m, NEW S, NEW g, NEW role, Good(m, S, g, role), NEW r \in Machine,
         Agree(m.mem, r.mem, role), \A x \in r.free : role[x] = 0 \/ x = SCRATCH
  PROVE  Good(r, S, g, role)
  <1>1. Tree(m.mem, role) /\ r.mem \in Tables
    BY DEF Good, Sound, Machine
  <1>2. Tree(r.mem, role) /\ Walks(m.mem, r.mem, role)
    BY <1>1, AgreeTree, AgreeWalks
  <1>3. Faithful(r.mem, S, g)
    <2> SUFFICES ASSUME NEW c \in S \cup {pml4_new}, NEW page \in Pages
                 PROVE  Translate(r.mem, c, page) = Told(g, c, page)
      BY DEF Faithful
    <2>1. c \in Frames /\ role[c] = 1
      BY RootRoles
    <2> QED BY <1>2, <2>1 DEF Walks, Good, Faithful
  <1> QED BY <1>2, <1>3 DEF Good, Sound

LEMMA SelfGood ==
  ASSUME NEW m, NEW S, NEW g, NEW role, Good(m, S, g, role), NEW r \in Machine,
         r.mem = m.mem, r.free \subseteq m.free
  PROVE  Good(r, S, g, role)
  BY StillGood DEF Agree, Good, Sound

LEMMA GrownGood ==
  ASSUME NEW m, NEW S, NEW g, NEW role, Good(m, S, g, role), NEW r, NEW new, Grown(m, r, role, new)
  PROVE  Good(r, S, g, new)
  <1>1. Sound(m, role) /\ Sound(r, new) /\ Walks(m.mem, r.mem, role)
    BY DEF Good, Grown
  <1>2. \A x \in Frames : new[x] = 1 <=> role[x] = 1
    <2> TAKE x \in Frames
    <2>1. role[x] = 1 => role[x] # 0
      OBVIOUS
    <2>2. new[x] = 1 => role[x] = 1
      BY DEF Grown
    <2> QED BY <1>1, <2>1, <2>2, GrownKeeps
  <1>3. Roots(S, new)
    BY <1>2, SameRoots DEF Good
  <1>4. Faithful(r.mem, S, g)
    <2> SUFFICES ASSUME NEW c \in S \cup {pml4_new}, NEW page \in Pages
                 PROVE  Translate(r.mem, c, page) = Told(g, c, page)
      BY DEF Faithful
    <2>1. c \in Frames /\ role[c] = 1
      BY RootRoles
    <2> QED BY <1>1, <2>1 DEF Walks, Good, Faithful
  <1> QED BY <1>1, <1>3, <1>4 DEF Good

LEMMA MappedGood ==
  ASSUME NEW m, NEW S, NEW g, NEW role, Good(m, S, g, role), NEW r, NEW new, NEW c, NEW page \in Pages,
         Proper(S, c, page), NEW f \in Frames \ {0}, role[f] = 0, Mapped(m, r, role, new, c, page, f)
  PROVE  Good(r, S, With(g, <<c, page>>, f), new)
  <1> DEFINE k == <<c, page>>
             h == With(g, k, f)
  <1>0. c \in S \cup {pml4_new} /\ c \in Frames /\ pml4_new \notin S
    BY RootRoles DEF Proper
  <1>1. Sound(r, new) /\ Remapped(m.mem, r.mem, role, c, page, f) /\ Sound(m, role)
    BY DEF Mapped, Good
  <1>2. \A x \in Frames : new[x] = 1 <=> role[x] = 1
    <2> TAKE x \in Frames
    <2>1. new[x] = 1 => role[x] = 1
      BY DEF Mapped
    <2>2. role[x] = 1 => role[x] # 0
      OBVIOUS
    <2> QED BY <1>1, <2>1, <2>2, MappedKeeps
  <1>3. Roots(S, new)
    BY <1>2, SameRoots DEF Good
  <1>4. /\ DOMAIN h = DOMAIN g \cup {k} /\ h[k] = f
        /\ \A x \in DOMAIN g : x # k => h[x] = g[x]
    <2> HIDE DEF k
    <2> QED BY DEF With
  <1> HIDE DEF h
  <1>5. Faithful(r.mem, S, h)
    <2> SUFFICES ASSUME NEW d \in S \cup {pml4_new}, NEW q \in Pages
                 PROVE  Translate(r.mem, d, q) = Told(h, d, q)
      BY DEF Faithful
    <2> DEFINE e == <<IF KernelPage(q) THEN pml4_new ELSE d, q>>
    <2>1. d \in Frames /\ role[d] = 1
      BY RootRoles
    <2>2. Translate(m.mem, d, q) = IF e \in DOMAIN g THEN g[e] ELSE Absent
      BY DEF Good, Faithful, Told
    <2>3. Translate(r.mem, d, q) =
            IF q = page /\ (d = c \/ KernelPage(page)) THEN f ELSE Translate(m.mem, d, q)
      BY <1>1, <2>1 DEF Remapped
    <2>4. Told(h, d, q) = IF e \in DOMAIN h THEN h[e] ELSE Absent
      BY DEF Told
    <2>5. e = k <=> q = page /\ (d = c \/ KernelPage(page))
      BY <1>0 DEF Proper
    <2> HIDE DEF e, k
    <2> QED BY <1>4, <2>2, <2>3, <2>4, <2>5
  <1>6. Keyed(S, h)
    <2>1. k \in Frames \X Pages /\ k[1] = c /\ k[2] = page
      BY <1>0
    <2> HIDE DEF k
    <2> QED BY <1>4, <2>1 DEF Keyed, Good
  <1> QED BY <1>1, <1>3, <1>5, <1>6 DEF Good, h

(* Restricting what callers were told.                                     *)
Only1(g, T) == [k \in T |-> g[k]]

LEMMA UnmappedGood ==
  ASSUME NEW m, NEW S, NEW g, NEW role, Good(m, S, g, role), NEW r, Sound(r, role), NEW page \in Pages,
         KernelPage(page), Remapped(m.mem, r.mem, role, pml4_new, page, Absent)
  PROVE  Good(r, S, Only1(g, DOMAIN g \ {<<pml4_new, page>>}), role)
  <1> DEFINE k == <<pml4_new, page>>
             h == Only1(g, DOMAIN g \ {k})
  <1>1. DOMAIN h = DOMAIN g \ {k} /\ \A x \in DOMAIN g : x # k => h[x] = g[x]
    BY DEF Only1
  <1> HIDE DEF h
  <1>2. Faithful(r.mem, S, h)
    <2> SUFFICES ASSUME NEW d \in S \cup {pml4_new}, NEW q \in Pages
                 PROVE  Translate(r.mem, d, q) = Told(h, d, q)
      BY DEF Faithful
    <2> DEFINE e == <<IF KernelPage(q) THEN pml4_new ELSE d, q>>
    <2>1. d \in Frames /\ role[d] = 1
      BY RootRoles
    <2>2. Translate(m.mem, d, q) = IF e \in DOMAIN g THEN g[e] ELSE Absent
      BY DEF Good, Faithful, Told
    <2>3. Translate(r.mem, d, q) = IF q = page THEN Absent ELSE Translate(m.mem, d, q)
      BY <2>1 DEF Remapped
    <2>4. Told(h, d, q) = IF e \in DOMAIN h THEN h[e] ELSE Absent
      BY DEF Told
    <2>5. e = k <=> q = page
      OBVIOUS
    <2> HIDE DEF e, k
    <2> QED BY <1>1, <2>2, <2>3, <2>4, <2>5
  <1>3. Keyed(S, h)
    <2> HIDE DEF k
    <2> QED BY <1>1 DEF Keyed, Good
  <1> QED BY <1>2, <1>3 DEF Good, h

LEMMA RootedGood ==
  ASSUME NEW m, NEW S, NEW g, NEW role, Good(m, S, g, role), NEW r \in Machine, NEW f \in Frames, role[f] = 0,
         f < SCRATCH, f \in m.free, Rooted(m.mem, r.mem, f), r.free = m.free \ {f}
  PROVE  Saves(m, role, r, S \cup {f}, g, Absent, Absent)
  <1>0. Sound(m, role) /\ Tree(m.mem, role) /\ role \in Uses /\ 1 \in 0 .. 5 /\ role[pml4_new] = 1
    BY DEF Good, Sound, Tree, Shared
  <1>1. PICK new : Gives(role, new, f, 1)
    BY <1>0, GiveOne
  <1>2. new[f] = 1 /\ \A x \in Frames : x # f => new[x] = role[x]
    BY <1>1 DEF Gives
  <1>3. Tree(r.mem, new)
    BY <1>0, <1>1, RootTree
  <1>4. /\ Walks(m.mem, r.mem, role)
        /\ \A page \in Pages :
             Translate(r.mem, f, page) = IF KernelPage(page) THEN Translate(m.mem, pml4_new, page) ELSE Absent
    BY <1>0, RootWalks
  <1>5. Sound(r, new)
    <2>1. \A x \in r.free : x \in Frames /\ (new[x] = 0 \/ x = SCRATCH)
      BY <1>0, <1>2 DEF Sound, Machine
    <2> QED BY <1>0, <1>3, <2>1 DEF Sound
  <1>6. f # pml4_new /\ f \notin S
    BY <1>0 DEF Good, Roots
  <1>7. Roots(S \cup {f}, new)
    BY <1>2, <1>6 DEF Good, Roots
  <1>8. Faithful(r.mem, S \cup {f}, g)
    <2> SUFFICES ASSUME NEW c \in S \cup {f} \cup {pml4_new}, NEW page \in Pages
                 PROVE  Translate(r.mem, c, page) = Told(g, c, page)
      BY DEF Faithful
    <2>1. CASE c # f
      <3>1. c \in S \cup {pml4_new}
        BY <2>1
      <3>2. c \in Frames /\ role[c] = 1
        BY <3>1, RootRoles
      <3> QED BY <1>4, <3>1, <3>2 DEF Walks, Good, Faithful
    <2>2. CASE c = f /\ KernelPage(page)
      <3>1. Translate(m.mem, pml4_new, page) = Told(g, pml4_new, page)
        BY DEF Good, Faithful
      <3>2. Told(g, pml4_new, page) = Told(g, f, page)
        BY <2>2 DEF Told
      <3> QED BY <1>4, <2>2, <3>1, <3>2
    <2>3. CASE c = f /\ ~KernelPage(page)
      <3> DEFINE k == <<f, page>>
      <3>1. k[1] = f
        OBVIOUS
      <3>2. k \notin DOMAIN g
        <4>1. k \in DOMAIN g => k[1] = pml4_new \/ k[1] \in S
          BY DEF Good, Keyed, Proper
        <4> QED BY <1>6, <3>1, <4>1
      <3>3. Told(g, f, page) = Absent
        BY <2>3, <3>2 DEF Told
      <3> QED BY <1>4, <2>3, <3>3
    <2> QED BY <2>1, <2>2, <2>3
  <1>9. Keyed(S \cup {f}, g)
    BY DEF Keyed, Good, Proper
  <1>10. Fixed(role, new)
    BY <1>2 DEF Fixed
  <1>11. SparesBut(m, role, r, new, Absent)
    <2> SUFFICES ASSUME NEW x \in Frames, Kept(m, role, x) PROVE Kept(r, new, x)
      BY DEF SparesBut
    <2>1. CASE x = f
      BY <1>2, <2>1 DEF Kept, Hangs
    <2>2. CASE x # f /\ x \in m.free
      BY <2>2 DEF Kept
    <2>3. CASE Hangs(m.mem, role, x)
      <3>1. Keeps(m.mem, r.mem, role)
        BY DEF Keeps, Rooted
      <3>2. \A u \in Frames : role[u] # 0 => new[u] = role[u]
        BY <1>2
      <3> QED BY <2>3, <3>1, <3>2, HangsOn DEF Kept
    <2> QED BY <2>1, <2>2, <2>3 DEF Kept
  <1> QED BY <1>5, <1>7, <1>8, <1>9, <1>10, <1>11 DEF Good, Saves

LEMMA FreedGood ==
  ASSUME NEW m, NEW S, NEW g, NEW role, Good(m, S, g, role), NEW c \in S, NEW r \in Machine,
         r.mem = m.mem, r.free = m.free \cup Own(m.mem, c) \cup {c}
  PROVE  Leads(role, r, S \ {c}, Only1(g, {x \in DOMAIN g : x[1] # c}))
  <1> DEFINE M == m.mem
             R == Own(M, c) \cup {c}
             h == Only1(g, {x \in DOMAIN g : x[1] # c})
  <1>0. /\ Sound(m, role) /\ Tree(M, role) /\ role \in Uses /\ c \in Frames /\ role[c] = 1
        /\ c # pml4_new
    <2>1. c \in S \cup {pml4_new}
      OBVIOUS
    <2> QED BY <2>1, RootRoles DEF Good, Sound, Tree
  <1>1. PICK new : Forgets(role, new, R)
    BY <1>0, ForgetOne
  <1>2. Tree(M, new)
    BY <1>0, <1>1, ForgetTree
  <1>3. Own(M, c) \subseteq Frames /\ \A x \in Own(M, c) : role[x] \in 2 .. 5
    BY <1>0, OwnIs
  <1>4. \A x \in R : x \in Frames /\ role[x] # 0 /\ role[x] # 6 /\ (x # c => role[x] # 1)
    <2>1. \A x \in Own(M, c) : role[x] # 0 /\ role[x] # 1 /\ role[x] # 6
      BY <1>3
    <2> QED BY <1>0, <1>3, <2>1
  <1> HIDE DEF R
  <1>6. Sound(r, new)
    <2>1. r.free = m.free \cup R
      BY DEF R
    <2>2. \A x \in r.free : x \in Frames /\ (new[x] = 0 \/ x = SCRATCH)
      BY <1>0, <1>1, <1>4, <2>1 DEF Sound, Machine, Forgets
    <2> QED BY <1>0, <1>2, <2>1, <2>2 DEF Sound
  <1>7. Roots(S \ {c}, new)
    <2>1. \A x \in Frames : new[x] = 1 <=> role[x] = 1 /\ x # c
      <3> TAKE x \in Frames
      <3>1. new[x] = IF x \in R THEN 0 ELSE role[x]
        BY <1>1 DEF Forgets
      <3>2. c \in R
        BY DEF R
      <3>3. CASE x \in R
        BY <1>4, <3>1, <3>3
      <3>4. CASE x \notin R
        BY <3>1, <3>2, <3>4
      <3> QED BY <3>3, <3>4
    <2> QED BY <2>1 DEF Roots, Good
  <1>8. DOMAIN h = {x \in DOMAIN g : x[1] # c} /\ \A x \in DOMAIN h : h[x] = g[x]
    BY DEF Only1
  <1> HIDE DEF h
  <1>9. Faithful(r.mem, S \ {c}, h)
    <2> SUFFICES ASSUME NEW d \in (S \ {c}) \cup {pml4_new}, NEW q \in Pages
                 PROVE  Translate(r.mem, d, q) = Told(h, d, q)
      BY DEF Faithful
    <2> DEFINE e == <<IF KernelPage(q) THEN pml4_new ELSE d, q>>
    <2>1. Translate(M, d, q) = IF e \in DOMAIN g THEN g[e] ELSE Absent
      BY DEF Good, Faithful, Told
    <2>2. Told(h, d, q) = IF e \in DOMAIN h THEN h[e] ELSE Absent
      BY DEF Told
    <2>3. e[1] # c
      BY <1>0
    <2> HIDE DEF e
    <2> QED BY <1>8, <2>1, <2>2, <2>3
  <1>10. Keyed(S \ {c}, h)
    BY <1>8 DEF Keyed, Good, Proper
  <1>11. Fixed(role, new)
    BY <1>1, <1>4 DEF Fixed, Forgets
  <1> QED BY <1>6, <1>7, <1>9, <1>10, <1>11 DEF Good, Leads, h

-----------------------------------------------------------------------------
(* The operations keep it.                                                 *)
LEMMA Fresh ==
  ASSUME NEW m, NEW S, NEW g, NEW role, Good(m, S, g, role), NEW f, f = Lowest(m), f # 0, Spare(m.free, 4)
  PROVE  /\ Good(Taken(m), S, g, role) /\ Taken(m) \in Machine /\ Taken(m).mem = m.mem
         /\ Taken(m).free = m.free \ {f} /\ m.free # {} /\ f \in m.free
         /\ f \in Frames \ {0} /\ role[f] = 0 /\ f # SCRATCH /\ f \notin Taken(m).free
         /\ Spare(Taken(m).free, 3)
         /\ Room(m.free, 3) => Room(Taken(m).free, 2) /\ f < SCRATCH
  <1>1. m \in Machine /\ Sound(m, role)
    BY DEF Good, Sound
  <1>2. m.free # {} /\ f \in m.free /\ f \in Frames
    BY <1>1, LowestIs
  <1>3. Taken(m) \in Machine /\ Taken(m).mem = m.mem /\ Taken(m).free = m.free \ {f}
    BY <1>1, TakenIs
  <1>4. Good(Taken(m), S, g, role)
    BY <1>3, SelfGood
  <1>5. role[f] = 0 /\ f # SCRATCH /\ Spare(Taken(m).free, 3)
    <2>1. 4 = 3 + 1 /\ 3 \in Nat
      OBVIOUS
    <2>2. f # SCRATCH /\ Spare(Taken(m).free, 3)
      BY <1>1, <1>2, <1>3, <2>1, SpareIs
    <2> QED BY <1>1, <1>2, <2>2 DEF Sound
  <1>6. Room(m.free, 3) => Room(Taken(m).free, 2) /\ f < SCRATCH
    <2>1. 3 = 2 + 1 /\ 2 \in Nat
      OBVIOUS
    <2> QED BY <1>1, <1>2, <1>3, <2>1, RoomIs
  <1> QED BY <1>2, <1>3, <1>4, <1>5, <1>6

Wiped(m, t) == [m EXCEPT !.mem[t] = Empty]
LEMMA WipedIs ==
  ASSUME NEW m \in Machine, NEW t \in Frames
  PROVE  Wiped(m, t) \in Machine /\ Wiped(m, t).mem = Clear(m.mem, t) /\ Wiped(m, t).free = m.free
  <1>1. Clear(m.mem, t) \in Tables
    BY ClearIs DEF Machine
  <1>2. Wiped(m, t) = [m EXCEPT !.mem = Clear(m.mem, t)]
    BY DEF Wiped, Clear, Machine
  <1> HIDE DEF Clear
  <1> QED BY <1>1, <1>2 DEF Machine

(* Clearing a frame that is no table.                                      *)
LEMMA ClearedGood ==
  ASSUME NEW m, NEW S, NEW g, NEW role, Good(m, S, g, role), NEW t \in Frames, role[t] \notin 1 .. 4,
         NEW r \in Machine, r.mem = Clear(m.mem, t), r.free = m.free
  PROVE  Good(r, S, g, role)
  <1>1. m.mem \in Tables /\ \A x \in m.free : role[x] = 0 \/ x = SCRATCH
    BY DEF Good, Sound, Tree
  <1>2. Same(m.mem, r.mem, t)
    BY <1>1, ClearIs
  <1>3. Agree(m.mem, r.mem, role)
    BY <1>2 DEF Agree, Same
  <1> QED BY <1>1, <1>3, StillGood

LEMMA HeapSaves ==
  ASSUME NEW m, NEW S, NEW g, NEW role, Good(m, S, g, role), NEW f, f = Lowest(m), f # 0,
         NEW page \in Pages, KernelPage(page), Room(m.free, 3) \/ InDirectory(page), Spare(m.free, 4),
         NEW w, w = paging_map_page(Taken(m), page, f)
  PROVE  \/ /\ w.ok = TRUE
            /\ Saves(m, role, Wiped(w.m, Translate(w.m.mem, pml4_new, page)), S, With(g, <<pml4_new, page>>, f),
                     Translate(m.mem, pml4_new, page), Absent)
         \/ w.ok = FALSE /\ Saves(m, role, pmm_free_frame(w.m, f), S, g, Absent, Absent)
  <1> DEFINE n == Taken(m)
  <1>1. /\ Good(n, S, g, role) /\ f \in Frames \ {0} /\ role[f] = 0 /\ f \notin n.free
        /\ RoomFor(n.free, page)
    BY Fresh DEF RoomFor
  <1>b. n.mem = m.mem /\ n.free = m.free \ {f}
    BY Fresh
  <1>2. pml4_new \in Frames /\ role[pml4_new] = 1
    BY Numbers DEF Good, Sound, Tree, Shared
  <1> HIDE DEF n
  <1>3. "paging_map_page" \in Callers /\ Sound(n, role)
    BY <1>1 DEF Callers, Good
  <1>a. Open(pml4_new, Path(page)[1])
    BY KernelPath DEF Open
  <1>4. w = MapIn(n, pml4_new, page, f, "paging_map_page")
    BY DEF paging_map_page, n
  <1>5. \/ w.ok = FALSE /\ \E new : Grown(n, w.m, role, new)
        \/ w.ok = TRUE /\ \E new : Mapped(n, w.m, role, new, pml4_new, page, f)
    <2>1. MapResult(n, w, role, pml4_new, page, f)
      BY <1>1, <1>2, <1>3, <1>4, <1>a, MapInIs
    <2> QED BY <2>1 DEF MapResult
  <1>6. CASE w.ok = FALSE /\ \E new : Grown(n, w.m, role, new)
    <2>1. PICK new : Grown(n, w.m, role, new)
      BY <1>6
    <2>2. Good(w.m, S, g, new)
      BY <1>1, <2>1, GrownGood
    <2> DEFINE r == pmm_free_frame(w.m, f)
    <2>3. w.m \in Machine /\ \A x \in w.m.free : new[x] = 0 \/ x = SCRATCH
      BY <2>2 DEF Good, Sound
    <2>4. new[f] = 0
      BY <1>1, <2>1 DEF Grown
    <2>5. r \in Machine /\ r.mem = w.m.mem /\ r.free = w.m.free \cup {f}
      BY <1>1, <2>3, FreedIs
    <2> HIDE DEF r
    <2>6. (\A x \in r.free : new[x] = 0 \/ x = SCRATCH) /\ Agree(w.m.mem, r.mem, new)
      BY <1>1, <2>3, <2>4, <2>5 DEF Agree
    <2>7. Good(r, S, g, new)
      BY <2>2, <2>5, <2>6, StillGood
    <2>8. Fixed(role, new)
      BY <1>3, <2>1, GrownFixed
    <2>9. SparesBut(m, role, r, new, Absent)
      <3> SUFFICES ASSUME NEW x \in Frames, Kept(m, role, x) PROVE Kept(r, new, x)
        BY DEF SparesBut
      <3>1. CASE x = f
        BY <2>5, <3>1 DEF Kept
      <3>2. CASE x # f
        <4>1. Kept(n, role, x)
          BY <1>b, <3>2 DEF Kept
        <4>2. Kept(w.m, new, x)
          BY <2>1, <4>1 DEF Grown, Spares
        <4> QED BY <2>5, <4>2 DEF Kept
      <3> QED BY <3>1, <3>2
    <2> QED BY <1>6, <2>7, <2>8, <2>9 DEF r, Saves
  <1>7. CASE w.ok = TRUE /\ \E new : Mapped(n, w.m, role, new, pml4_new, page, f)
    <2>1. PICK new : Mapped(n, w.m, role, new, pml4_new, page, f)
      BY <1>7
    <2> DEFINE h == With(g, <<pml4_new, page>>, f)
               t == Translate(w.m.mem, pml4_new, page)
    <2>2. Proper(S, pml4_new, page)
      BY DEF Proper
    <2>3. Good(w.m, S, h, new)
      BY <1>1, <2>1, <2>2, MappedGood
    <2>4. t = f
      BY <1>2, <2>1 DEF Mapped, Remapped
    <2>5. new[f] \notin 1 .. 4
      <3>1. new[f] = 5
        BY <2>1 DEF Mapped
      <3> QED BY <3>1
    <2>6. w.m \in Machine
      BY <2>3 DEF Good, Sound
    <2> HIDE DEF t, h
    <2>7. Wiped(w.m, f) \in Machine /\ Wiped(w.m, f).mem = Clear(w.m.mem, f) /\ Wiped(w.m, f).free = w.m.free
      BY <1>1, <2>6, WipedIs
    <2>8. Good(Wiped(w.m, f), S, h, new)
      BY <1>1, <2>3, <2>5, <2>7, ClearedGood
    <2>9. Fixed(role, new)
      BY <1>1, <1>3, <2>1, MappedFixed
    <2>10. ASSUME Translate(m.mem, pml4_new, page) = Absent
           PROVE  SparesBut(m, role, Wiped(w.m, f), new, Absent)
      <3> SUFFICES ASSUME NEW x \in Frames, Kept(m, role, x) PROVE Kept(Wiped(w.m, f), new, x)
        BY DEF SparesBut
      <3>1. Kept(w.m, new, x)
        <4>1. CASE x = f
          BY <2>1, <4>1 DEF Mapped, Kept
        <4>2. CASE x # f
          <5>1. Kept(n, role, x)
            BY <1>b, <4>2 DEF Kept
          <5>2. Spares(n, role, w.m, new)
            BY <1>b, <2>1, <2>10 DEF Mapped
          <5> QED BY <5>1, <5>2 DEF Spares
        <4> QED BY <4>1, <4>2
      <3>2. CASE x \in w.m.free
        BY <2>7, <3>2 DEF Kept
      <3>3. CASE Hangs(w.m.mem, new, x)
        <4>1. Keeps(w.m.mem, Wiped(w.m, f).mem, new)
          <5>1. w.m.mem \in Tables
            BY <2>6 DEF Machine
          <5>2. Same(w.m.mem, Wiped(w.m, f).mem, f)
            BY <1>1, <2>7, <5>1, ClearIs
          <5> QED BY <2>5, <5>2 DEF Keeps, Same
        <4> QED BY <3>3, <4>1, HangsOn DEF Kept
      <3> QED BY <3>1, <3>2, <3>3 DEF Kept
    <2> DEFINE o == Translate(m.mem, pml4_new, page)
    <2>11. Saves(m, role, Wiped(w.m, f), S, h, o, Absent)
      BY <2>8, <2>9, <2>10 DEF Saves
    <2> HIDE DEF o
    <2> QED BY <1>7, <2>4, <2>11 DEF t, h, o
  <1> QED BY <1>5, <1>6, <1>7

LEMMA HeapGood ==
  ASSUME NEW m, NEW S, NEW g, NEW role, Good(m, S, g, role), NEW f, f = Lowest(m), f # 0,
         NEW page \in Pages, KernelPage(page), Room(m.free, 3) \/ InDirectory(page), Spare(m.free, 4),
         NEW w, w = paging_map_page(Taken(m), page, f)
  PROVE  \/ /\ w.ok = TRUE
            /\ Leads(role, Wiped(w.m, Translate(w.m.mem, pml4_new, page)), S, With(g, <<pml4_new, page>>, f))
         \/ w.ok = FALSE /\ Leads(role, pmm_free_frame(w.m, f), S, g)
  <1> DEFINE r == Wiped(w.m, Translate(w.m.mem, pml4_new, page))
             s == pmm_free_frame(w.m, f)
             h == With(g, <<pml4_new, page>>, f)
             o == Translate(m.mem, pml4_new, page)
  <1>1. \/ w.ok = TRUE /\ Saves(m, role, r, S, h, o, Absent)
        \/ w.ok = FALSE /\ Saves(m, role, s, S, g, Absent, Absent)
    BY HeapSaves
  <1> HIDE DEF r, s, h, o
  <1>2. \/ w.ok = TRUE /\ Leads(role, r, S, h)
        \/ w.ok = FALSE /\ Leads(role, s, S, g)
    BY <1>1, SavesLeads
  <1> QED BY <1>2 DEF r, s, h

LEMMA ElfSaves ==
  ASSUME NEW m, NEW S, NEW g, NEW role, Good(m, S, g, role), NEW f, f = Lowest(m), f # 0,
         NEW c \in S, NEW page \in Pages, ~KernelPage(page), Room(m.free, 3), Spare(m.free, 4),
         NEW w, w = MapIn(virt_for_phys(Zero(virt_for_phys(Taken(m), f), Pointer(f)), c), Pointer(c), page, f, "elf_load")
  PROVE  \/ w.ok = TRUE /\ Saves(m, role, w.m, S, With(g, <<c, page>>, f), Translate(m.mem, c, page), Absent)
         \/ w.ok = FALSE /\ Saves(m, role, w.m, S, g, Absent, f)
  <1> DEFINE n == Taken(m)
             v == virt_for_phys(n, f)
             z == Zero(v, Pointer(f))
  <1>1. /\ Good(n, S, g, role) /\ n \in Machine /\ f \in Frames \ {0} /\ role[f] = 0 /\ f # SCRATCH
        /\ f \notin n.free /\ Room(n.free, 2) /\ Spare(n.free, 3)
    BY Fresh
  <1>b. n.mem = m.mem /\ n.free = m.free \ {f}
    BY Fresh
  <1> HIDE DEF n
  <1>3. v \in Machine /\ v.mem = n.mem /\ v.free = n.free /\ Shows(v, Pointer(f)) = f
    BY <1>1, VirtIs
  <1> HIDE DEF v
  <1>4. z \in Machine /\ z.mem = Clear(n.mem, f) /\ z.free = n.free
    <2>1. Pointer(f) \in Frames
      BY <1>1, PointerIs
    <2> QED BY <1>3, <2>1, ZeroIs
  <1> HIDE DEF z
  <1>5. Good(z, S, g, role)
    <2>1. role[f] \notin 1 .. 4
      BY <1>1
    <2> QED BY <1>1, <1>4, <2>1, ClearedGood
  <1>a. Walks(m.mem, z.mem, role) /\ \A x \in Frames : Kept(m, role, x) => x = f \/ Kept(z, role, x)
    <2>1. role[f] \notin 1 .. 4 /\ m.mem \in Tables /\ Tree(m.mem, role)
      BY <1>1 DEF Good, Sound, Tree
    <2>2. Same(m.mem, z.mem, f)
      BY <1>1, <1>4, <1>b, <2>1, ClearIs
    <2>3. Agree(m.mem, z.mem, role)
      BY <2>1, <2>2 DEF Agree, Same
    <2>4. Keeps(m.mem, z.mem, role)
      BY <2>3 DEF Agree, Keeps
    <2>5. ASSUME NEW x \in Frames, Kept(m, role, x), x # f PROVE Kept(z, role, x)
      <3>1. CASE x \in m.free
        BY <1>4, <1>b, <2>5, <3>1 DEF Kept
      <3>2. CASE Hangs(m.mem, role, x)
        BY <2>4, <3>2, HangsOn DEF Kept
      <3> QED BY <2>5, <3>1, <3>2 DEF Kept
    <2> QED BY <2>1, <2>3, <2>5, AgreeWalks
  <1>6. c \in Frames /\ role[c] = 1 /\ c < SCRATCH /\ c # pml4_new
    <2>1. c \in S \cup {pml4_new}
      OBVIOUS
    <2>2. c \in Frames /\ role[c] = 1 /\ Tree(m.mem, role) /\ c # pml4_new
      BY <2>1, RootRoles
    <2>3. role[c] \in 1 .. 3
      BY <2>2
    <2> QED BY <2>2, <2>3 DEF Tree, InSight
  <1>7. Pointer(c) = c /\ virt_for_phys(z, c) = z
    BY <1>6, LowShows
  <1>8. w = MapIn(z, c, page, f, "elf_load")
    BY <1>7 DEF z, v, n
  <1>9. "elf_load" \in Callers /\ Sound(z, role) /\ f \notin z.free /\ RoomFor(z.free, page)
    BY <1>1, <1>4, <1>5 DEF Callers, Good, RoomFor
  <1>10. \/ w.ok = FALSE /\ \E new : Grown(z, w.m, role, new)
         \/ w.ok = TRUE /\ \E new : Mapped(z, w.m, role, new, c, page, f)
    <2>1. Open(c, Path(page)[1])
      BY <1>6 DEF Open
    <2>2. MapResult(z, w, role, c, page, f)
      BY <1>1, <1>6, <1>8, <1>9, <2>1, MapInIs
    <2> QED BY <2>2 DEF MapResult
  <1>11. CASE w.ok = FALSE /\ \E new : Grown(z, w.m, role, new)
    <2>1. PICK new : Grown(z, w.m, role, new)
      BY <1>11
    <2>2. Good(w.m, S, g, new)
      BY <1>5, <2>1, GrownGood
    <2>3. Fixed(role, new)
      BY <1>9, <2>1, GrownFixed
    <2>4. SparesBut(m, role, w.m, new, f)
      <3>1. new[f] = 0
        BY <1>1, <1>9, <2>1 DEF Grown
      <3> QED BY <1>a, <2>1, <3>1 DEF Grown, Spares, SparesBut
    <2> QED BY <1>11, <2>2, <2>3, <2>4 DEF Saves
  <1>12. CASE w.ok = TRUE /\ \E new : Mapped(z, w.m, role, new, c, page, f)
    <2>1. PICK new : Mapped(z, w.m, role, new, c, page, f)
      BY <1>12
    <2>2. Proper(S, c, page)
      BY DEF Proper
    <2>3. Good(w.m, S, With(g, <<c, page>>, f), new)
      BY <1>1, <1>5, <2>1, <2>2, MappedGood
    <2>4. Fixed(role, new)
      BY <1>1, <1>9, <2>1, MappedFixed
    <2> DEFINE h == With(g, <<c, page>>, f)
               o == Translate(m.mem, c, page)
    <2>5. ASSUME o = Absent
          PROVE  SparesBut(m, role, w.m, new, Absent)
      <3>1. Translate(z.mem, c, page) = Absent
        BY <1>6, <1>a, <2>5 DEF Walks
      <3>2. Spares(z, role, w.m, new) /\ Kept(w.m, new, f)
        BY <2>1, <3>1 DEF Mapped, Kept
      <3> QED BY <1>a, <3>2 DEF Spares, SparesBut
    <2> HIDE DEF h, o
    <2>6. Saves(m, role, w.m, S, h, o, Absent)
      BY <2>3, <2>4, <2>5 DEF Saves, h
    <2> QED BY <1>12, <2>6 DEF h, o
  <1> QED BY <1>10, <1>11, <1>12

LEMMA ElfGood ==
  ASSUME NEW m, NEW S, NEW g, NEW role, Good(m, S, g, role), NEW f, f = Lowest(m), f # 0,
         NEW c \in S, NEW page \in Pages, ~KernelPage(page), Room(m.free, 3), Spare(m.free, 4),
         NEW w, w = MapIn(virt_for_phys(Zero(virt_for_phys(Taken(m), f), Pointer(f)), c), Pointer(c), page, f, "elf_load")
  PROVE  \/ w.ok = TRUE /\ Leads(role, w.m, S, With(g, <<c, page>>, f))
         \/ w.ok = FALSE /\ Leads(role, w.m, S, g)
  <1> DEFINE r == w.m
             h == With(g, <<c, page>>, f)
             o == Translate(m.mem, c, page)
  <1>1. \/ w.ok = TRUE /\ Saves(m, role, r, S, h, o, Absent)
        \/ w.ok = FALSE /\ Saves(m, role, r, S, g, Absent, f)
    BY ElfSaves
  <1> HIDE DEF r, h, o
  <1>2. \/ w.ok = TRUE /\ Leads(role, r, S, h)
        \/ w.ok = FALSE /\ Leads(role, r, S, g)
    BY <1>1, SavesLeads
  <1> QED BY <1>2 DEF r, h

LEMMA UnmapGood ==
  ASSUME NEW m, NEW S, NEW g, NEW role, Good(m, S, g, role), NEW page \in Pages, KernelPage(page),
         NEW w, w = Follow(Down, Walk(m, pml4_new, TRUE), Path(page)),
         NEW r, r = IF w.ok THEN Store(w.m, w.p, Path(page)[4], Absent) ELSE w.m
  PROVE  Leads(role, r, S, Only1(g, DOMAIN g \ {<<pml4_new, page>>}))
  <1> DEFINE t == Pt(m.mem, pml4_new, page)
             i == Path(page)[4]
  <1>0. page \in Nat /\ i \in Index
    <2>1. page \in Nat
      BY TopDigit
    <2> QED BY <2>1, Paths
  <1>1. pml4_new \in Frames /\ role[pml4_new] = 1 /\ Sound(m, role) /\ Tree(m.mem, role)
    BY Numbers DEF Good, Sound, Tree, Shared
  <1>2. IsAt(w, m.mem, m.free, t)
    BY <1>1, DownWalk
  <1>3. PICK n, p : Standing(w, n, p, t) /\ Seen(n, p, m.mem, m.free, t)
    BY <1>2 DEF IsAt
  <1>a. Level(role, 4, t)
    BY <1>0, <1>1, WalkLevels
  <1>4. n \in Machine /\ n.mem = m.mem /\ n.free = m.free
    BY <1>3 DEF Seen
  <1>5. Sound(r, role) /\ Remapped(m.mem, r.mem, role, pml4_new, page, Absent)
    <2>1. CASE t = Absent
      <3>1. r = n
        BY <1>3, <2>1 DEF Standing, Walk
      <3>2. Translate(m.mem, pml4_new, page) = Absent
        BY <2>1, TranslateIs DEF Look
      <3>3. Sound(n, role)
        BY <1>1, <1>4 DEF Sound
      <3>4. ASSUME NEW d \in Frames, role[d] = 1 PROVE Translate(m.mem, d, page) = Absent
        <4>1. d \in S \cup {pml4_new}
          BY <3>4 DEF Good, Roots
        <4>2. Translate(m.mem, d, page) = Told(g, d, page) /\ Translate(m.mem, pml4_new, page) = Told(g, pml4_new, page)
          BY <4>1 DEF Good, Faithful
        <4>3. Told(g, d, page) = Told(g, pml4_new, page)
          BY DEF Told
        <4> QED BY <3>2, <4>2, <4>3
      <3> QED BY <1>4, <3>1, <3>3, <3>4 DEF Remapped
    <2>2. CASE t # Absent
      <3>1. w = Walk(n, p, TRUE)
        BY <1>3, <2>2 DEF Standing
      <3>2. w.ok = TRUE /\ w.m = n /\ w.p = p
        BY <3>1 DEF Walk
      <3>3. r = Store(n, p, i, Absent)
        BY <3>2
      <3>4. t \in Frames /\ p \in Frames /\ Shows(n, p) = t /\ role[t] = 4
        BY <1>3, <1>a, <2>2 DEF Seen, Level
      <3>5. Absent \in Entries
        BY DEF Entries
      <3> HIDE DEF t, i
      <3>6. r \in Machine /\ Stored(m.mem, r.mem, t, i, Absent) /\ r.free = m.free
        <4> DEFINE y == Absent
                   s == Store(n, p, i, y)
        <4>0. y \in Entries /\ s = r
          BY <3>3, <3>5
        <4> HIDE DEF y
        <4>1. s \in Machine /\ Stored(n.mem, s.mem, t, i, y) /\ s.free = n.free
          BY <1>0, <1>4, <3>4, <4>0, StoreStored
        <4> HIDE DEF s
        <4> QED BY <1>4, <4>0, <4>1 DEF y
      <3>7. Marked(role, role, Absent)
        BY <1>1 DEF Marked, Tree
      <3>8. Tree(r.mem, role)
        BY <1>0, <1>1, <3>4, <3>6, <3>7, StoredTree
      <3>9. Remapped(m.mem, r.mem, role, pml4_new, page, Absent)
        BY <1>1, <3>4, <3>6, StoredWalks DEF t, i
      <3> QED BY <1>1, <3>6, <3>8, <3>9 DEF Sound
    <2> QED BY <2>1, <2>2
  <1>6. Good(r, S, Only1(g, DOMAIN g \ {<<pml4_new, page>>}), role)
    BY <1>5, UnmappedGood
  <1> QED BY <1>6, LeadsSelf

LEMMA FreeGood ==
  ASSUME NEW m, NEW S, NEW g, NEW role, Good(m, S, g, role), NEW c \in S,
         NEW r, r = pmm_free_frame(Emptied(virt_for_phys(m, c), Pointer(c)), c)
  PROVE  /\ Leads(role, r, S \ {c}, Only1(g, {x \in DOMAIN g : x[1] # c}))
         /\ r.free = m.free \cup Own(m.mem, c) \cup {c}
  <1>1. /\ c \in Frames /\ role[c] = 1 /\ Tree(m.mem, role) /\ m \in Machine
    <2>1. c \in S \cup {pml4_new}
      OBVIOUS
    <2> QED BY <2>1, RootRoles
  <1>2. c < SCRATCH /\ c # 0
    <2>1. role[c] \in 1 .. 3 /\ role[c] # 6
      BY <1>1
    <2> QED BY <1>1, <2>1, RoleFrame DEF Tree, InSight
  <1>3. Pointer(c) = c /\ virt_for_phys(m, c) = m
    BY <1>1, <1>2, LowShows
  <1>4. Emptied(m, c) \in HoldingAny(m.mem, m.free \cup Reach(m.mem, c, W2(m.mem), K))
    BY <1>1, EmptiedIs
  <1> DEFINE e == Emptied(m, c)
  <1>5. e \in Machine /\ e.mem = m.mem /\ e.free = m.free \cup Own(m.mem, c)
    BY <1>1, <1>4, OwnIs DEF HoldingAny
  <1> HIDE DEF e
  <1>6. r = pmm_free_frame(e, c)
    BY <1>3 DEF e
  <1>7. r \in Machine /\ r.mem = m.mem /\ r.free = m.free \cup Own(m.mem, c) \cup {c}
    BY <1>1, <1>2, <1>5, <1>6, FreedIs
  <1> QED BY <1>7, FreedGood

-----------------------------------------------------------------------------
(* What the kernel has to have at the start of each operation.  The frame  *)
(* under the scratch window is kept out of use by nothing but the order in *)
(* which frames are given out: it is not free, or four frames below it are.*)
(* For page directories there are three free frames below it, or no free   *)
(* frame from there up, or there are no user spaces and the heap ends in   *)
(* the directory that is there from the start.  A machine that has 2 MiB   *)
(* or more starts out so, by its free low frames.                          *)
HeapInDirectory == \A n \in 0 .. HeapPages - 1 : InDirectory(HEAP_START + n)
NoUsers == users = 0 /\ spaces = {} /\ HeapInDirectory
RoomBelow == Spare(free, 4) /\ (Room(free, 3) \/ NoUsers)

Counts == users \in Nat /\ heap_pages \in 0 .. HeapPages
IInv == Counts /\ \E role : Good(machine, spaces, given, role)

LEMMA MachineIs ==
  machine.mem = mem /\ machine.scratch = scratch /\ machine.free = free
  BY DEF machine

LEMMA Becoming ==
  ASSUME NEW STATE r, r \in Machine, Becomes(r)
  PROVE  machine' = r
  <1>1. r = [mem |-> r.mem, scratch |-> r.scratch, free |-> r.free]
    BY DEF Machine
  <1> QED BY <1>1 DEF Becomes, machine

LEMMA HeapPageIs ==
  ASSUME NEW n \in 0 .. HeapPages - 1
  PROVE  HEAP_START + n \in Pages /\ KernelPage(HEAP_START + n)
  <1> DEFINE B == KERNEL_ENTRY * PagesPerEntry
  <1>1. /\ HEAP_START \in Nat /\ HeapPages \in Nat /\ HEAP_START .. HEAP_START + HeapPages - 1 \subseteq Pages
        /\ HEAP_START >= B
    BY PagingAssumption DEF KernelPage
  <1>2. B \in Int
    <2>1. PAGE_TABLE_ENTRIES \in Nat /\ KERNEL_ENTRY \in Nat
      BY Numbers DEF N, K
    <2>2. PagesPerEntry \in Nat
      BY <2>1 DEF PagesPerEntry
    <2> QED BY <2>1, <2>2
  <1> HIDE DEF B
  <1>4. HEAP_START + n \in HEAP_START .. HEAP_START + HeapPages - 1 /\ HEAP_START + n >= B
    BY <1>1, <1>2
  <1> QED BY <1>1, <1>4 DEF KernelPage, B

(* A step, from a state with the invariant and room.                       *)
Ready(role) == Good(machine, spaces, given, role) /\ Counts /\ RoomBelow
Moves(role) ==
  Leads(role, machine', spaces', given') /\ Counts'

Saving(role, old, lost) ==
  Saves(machine, role, machine', spaces', given', old, lost) /\ Counts'

LEMMA SavingMoves ==
  ASSUME NEW role, NEW STATE old, NEW STATE lost, Saving(role, old, lost)
  PROVE  Moves(role)
  BY SavesLeads DEF Saving, Moves

LEMMA SavesMachine ==
  ASSUME NEW m, NEW role, NEW r, NEW S, NEW g, NEW old, NEW lost, Saves(m, role, r, S, g, old, lost)
  PROVE  r \in Machine
  BY DEF Saves, Good, Sound

LEMMA LeadsMachine ==
  ASSUME NEW role, NEW r, NEW S, NEW g, Leads(role, r, S, g)
  PROVE  r \in Machine
  BY DEF Leads, Good, Sound

LEMMA HeapSaving ==
  ASSUME NEW role, Ready(role), heap_extend
  PROVE  Saving(role, Translate(mem, pml4_new, HEAP_START + heap_pages), Absent)
  <1> DEFINE page == HEAP_START + heap_pages
             f == Lowest(machine)
             w == paging_map_page(Taken(machine), page, f)
             t == Translate(w.m.mem, pml4_new, page)
             k == <<pml4_new, page>>
             o == Translate(mem, pml4_new, page)
  <1>1. /\ heap_pages < HeapPages /\ f # 0 /\ users' = users /\ spaces' = spaces
        /\ \/ /\ w.ok /\ Becomes(Wiped(w.m, t))
              /\ heap_pages' = heap_pages + 1 /\ given' = With(given, k, f)
           \/ ~w.ok /\ Becomes(pmm_free_frame(w.m, f)) /\ heap_pages' = heap_pages /\ given' = given
    BY DEF heap_extend, Wiped
  <1>2. heap_pages \in 0 .. HeapPages - 1 /\ users \in Nat /\ HeapPages \in Nat
    BY <1>1, PagingAssumption DEF Ready, Counts
  <1>3. page \in Pages /\ KernelPage(page)
    BY <1>2, HeapPageIs
  <1>4. (Room(machine.free, 3) \/ InDirectory(page)) /\ Spare(machine.free, 4)
    BY <1>2, MachineIs DEF Ready, RoomBelow, NoUsers, HeapInDirectory
  <1>5. Good(machine, spaces, given, role)
    BY DEF Ready
  <1> HIDE DEF page
  <1>6. \/ w.ok = TRUE /\ Saves(machine, role, Wiped(w.m, t), spaces, With(given, k, f), o, Absent)
        \/ w.ok = FALSE /\ Saves(machine, role, pmm_free_frame(w.m, f), spaces, given, Absent, Absent)
    BY <1>1, <1>3, <1>4, <1>5, HeapSaves, MachineIs
  <1> HIDE DEF f, w, t, k, o
  <1>7. Saves(machine, role, machine', spaces', given', o, Absent)
    <2>1. CASE w.ok = TRUE /\ Saves(machine, role, Wiped(w.m, t), spaces, With(given, k, f), o, Absent)
      <3>1. Wiped(w.m, t) \in Machine
        BY <2>1, SavesMachine
      <3>2. machine' = Wiped(w.m, t)
        BY <1>1, <2>1, <3>1, Becoming
      <3> QED BY <1>1, <2>1, <3>2
    <2>2. CASE w.ok = FALSE /\ Saves(machine, role, pmm_free_frame(w.m, f), spaces, given, Absent, Absent)
      <3>1. pmm_free_frame(w.m, f) \in Machine
        BY <2>2, SavesMachine
      <3>2. machine' = pmm_free_frame(w.m, f)
        BY <1>1, <2>2, <3>1, Becoming
      <3> QED BY <1>1, <2>2, <3>2 DEF Saves
    <2> QED BY <1>6, <2>1, <2>2
  <1>8. Counts'
    BY <1>1, <1>2 DEF Counts
  <1> QED BY <1>1, <1>7, <1>8 DEF Saving, o, page

LEMMA HeapStep ==
  ASSUME NEW role, Ready(role), heap_extend
  PROVE  Moves(role)
  BY HeapSaving, SavingMoves

LEMMA UnmapStep ==
  ASSUME NEW role, Ready(role), NEW n \in 0 .. HeapPages - 1, paging_unmap_page(HEAP_START + n)
  PROVE  Moves(role)
  <1> DEFINE page == HEAP_START + n
             w == Follow(Down, Walk(machine, pml4_new, TRUE), Path(page))
             r == IF w.ok THEN Store(w.m, w.p, Path(page)[4], Absent) ELSE w.m
             h == Only1(given, DOMAIN given \ {<<pml4_new, page>>})
  <1>1. Becomes(r) /\ given' = h /\ users' = users /\ heap_pages' = heap_pages /\ spaces' = spaces
    BY DEF paging_unmap_page, Down, Follow, Walk, Only1
  <1>2. page \in Pages /\ KernelPage(page)
    BY HeapPageIs
  <1>3. Good(machine, spaces, given, role) /\ Counts
    BY DEF Ready
  <1> HIDE DEF page
  <1>4. Leads(role, r, spaces, h)
    BY <1>2, <1>3, UnmapGood
  <1>5. r \in Machine
    BY <1>4, LeadsMachine
  <1> HIDE DEF r, h
  <1>6. machine' = r
    BY <1>1, <1>5, Becoming
  <1> QED BY <1>1, <1>3, <1>4, <1>6 DEF Moves, Counts

LEMMA CreateSaving ==
  ASSUME NEW role, Ready(role), paging_create_user_space
  PROVE  Saving(role, Absent, Absent)
  <1> DEFINE f == Lowest(machine)
             cleared == Zero(virt_for_phys(Taken(machine), f), Pointer(f))
             r == Store(cleared, Pointer(f), KERNEL_ENTRY, Load(cleared, pml4_new, KERNEL_ENTRY))
  <1>1. /\ users > 0 /\ users' = users - 1 /\ f # 0 /\ Becomes(r) /\ spaces' = spaces \cup {f}
        /\ heap_pages' = heap_pages /\ given' = given
    BY DEF paging_create_user_space
  <1>2. Good(machine, spaces, given, role) /\ users \in Nat /\ heap_pages \in 0 .. HeapPages /\ Sound(machine, role)
    BY DEF Ready, Counts, Good
  <1>3. Room(machine.free, 3) /\ Spare(machine.free, 4)
    BY <1>1, MachineIs DEF Ready, RoomBelow, NoUsers
  <1>4. machine.free # {} /\ f \in machine.free /\ f \in Frames /\ role[f] = 0 /\ f < SCRATCH
    <2>1. f = Lowest(machine)
      OBVIOUS
    <2> HIDE DEF f
    <2>4. f # 0
      BY <1>1
    <2>5. machine.free # {} /\ f \in machine.free
      BY <1>2, <1>3, <2>1, <2>4, Fresh
    <2>6. f \in Frames \ {0}
      BY <1>2, <1>3, <2>1, <2>4, Fresh
    <2>8. f # SCRATCH
      BY <1>2, <1>3, <2>1, <2>4, Fresh
    <2>7. role[f] = 0
      BY <1>2, <2>5, <2>8 DEF Sound
    <2>3. f < SCRATCH
      BY <1>1, <1>2, <1>3, <2>1, Fresh
    <2> QED BY <2>3, <2>5, <2>6, <2>7
  <1>5. r \in Machine /\ Rooted(machine.mem, r.mem, f) /\ r.free = machine.free \ {f}
    BY <1>2, <1>4, CreateIs
  <1> HIDE DEF r, f
  <1>6. Saves(machine, role, r, spaces \cup {f}, given, Absent, Absent)
    BY <1>2, <1>4, <1>5, RootedGood
  <1>7. machine' = r
    BY <1>1, <1>5, Becoming
  <1>8. Counts'
    BY <1>1, <1>2 DEF Counts
  <1> QED BY <1>1, <1>6, <1>7, <1>8 DEF Saving

LEMMA CreateStep ==
  ASSUME NEW role, Ready(role), paging_create_user_space
  PROVE  Moves(role)
  BY CreateSaving, SavingMoves

LEMMA LoadSaving ==
  ASSUME NEW role, Ready(role), NEW c \in spaces, NEW page \in Pages, ~KernelPage(page), elf_load_page(c, page)
  PROVE  \/ Saving(role, Translate(mem, c, page), Absent)
         \/ given' = given /\ Saving(role, Absent, Lowest(machine))
  <1> DEFINE f == Lowest(machine)
             w == MapIn(virt_for_phys(Zero(virt_for_phys(Taken(machine), f), Pointer(f)), c),
                        Pointer(c), page, f, "elf_load")
             k == <<c, page>>
             o == Translate(mem, c, page)
  <1>1. /\ f # 0 /\ Becomes(w.m) /\ users' = users /\ heap_pages' = heap_pages /\ spaces' = spaces
        /\ given' = IF w.ok THEN With(given, k, f) ELSE given
    BY DEF elf_load_page
  <1>2. Good(machine, spaces, given, role) /\ Counts
    BY DEF Ready
  <1>3. Room(machine.free, 3) /\ Spare(machine.free, 4)
    BY MachineIs DEF Ready, RoomBelow, NoUsers
  <1>5. \/ w.ok = TRUE /\ Saves(machine, role, w.m, spaces, With(given, k, f), o, Absent)
        \/ w.ok = FALSE /\ Saves(machine, role, w.m, spaces, given, Absent, f)
    BY <1>1, <1>2, <1>3, ElfSaves, MachineIs
  <1> HIDE DEF w, k, f, o
  <1>6. w.m \in Machine
    BY <1>5, SavesMachine
  <1>7. machine' = w.m
    BY <1>1, <1>6, Becoming
  <1>8. \/ Saves(machine, role, machine', spaces', given', o, Absent)
        \/ given' = given /\ Saves(machine, role, machine', spaces', given', Absent, f)
    BY <1>1, <1>5, <1>7
  <1> QED BY <1>1, <1>2, <1>8 DEF Saving, Counts, o, f

LEMMA LoadStep ==
  ASSUME NEW role, Ready(role), NEW c \in spaces, NEW page \in Pages, ~KernelPage(page), elf_load_page(c, page)
  PROVE  Moves(role)
  BY LoadSaving, SavingMoves

LEMMA WalkStep ==
  ASSUME NEW role, Ready(role), NEW c \in spaces, NEW page \in UserPages, paging_virt_to_phys_cr3(c, page)
  PROVE  Moves(role)
  <1> DEFINE w == SoftwareWalk(machine, c, page)
  <1>1. Becomes(w.m) /\ users' = users /\ heap_pages' = heap_pages /\ spaces' = spaces /\ given' = given
    BY DEF paging_virt_to_phys_cr3
  <1>2. Good(machine, spaces, given, role) /\ Counts /\ Sound(machine, role)
    BY DEF Ready, Good
  <1>3. page \in Pages /\ c \in spaces \cup {pml4_new}
    BY PagingAssumption
  <1>4. c \in Frames /\ role[c] = 1
    BY <1>2, <1>3, RootRoles
  <1>5. w.m \in Machine /\ w.m.mem = machine.mem /\ w.m.free = machine.free
    BY <1>2, <1>3, <1>4, SoftwareWalkIs
  <1> HIDE DEF w
  <1>6. Good(w.m, spaces, given, role)
    BY <1>2, <1>5, SelfGood
  <1>7. Leads(role, w.m, spaces, given)
    BY <1>6, LeadsSelf
  <1>8. machine' = w.m
    BY <1>1, <1>5, Becoming
  <1> QED BY <1>1, <1>2, <1>7, <1>8 DEF Moves, Counts

LEMMA FreeStep ==
  ASSUME NEW role, Ready(role), NEW c \in spaces, paging_free_user_space(c)
  PROVE  Moves(role) /\ free' = free \cup Own(mem, c) \cup {c} /\ spaces' = spaces \ {c}
  <1> DEFINE r == pmm_free_frame(Emptied(virt_for_phys(machine, c), Pointer(c)), c)
             h == Only1(given, {x \in DOMAIN given : x[1] # c})
  <1>1. Becomes(r) /\ given' = h /\ users' = users /\ heap_pages' = heap_pages /\ spaces' = spaces \ {c}
    BY DEF paging_free_user_space, Emptied, Only1
  <1>2. Good(machine, spaces, given, role) /\ Counts
    BY DEF Ready
  <1>3. Leads(role, r, spaces \ {c}, h) /\ r.free = machine.free \cup Own(machine.mem, c) \cup {c}
    BY <1>2, FreeGood
  <1>4. r \in Machine
    BY <1>3, LeadsMachine
  <1> HIDE DEF r, h
  <1>5. machine' = r
    BY <1>1, <1>4, Becoming
  <1>6. free' = free \cup Own(mem, c) \cup {c}
    BY <1>1, <1>3, MachineIs DEF Becomes
  <1> QED BY <1>1, <1>2, <1>3, <1>5, <1>6 DEF Moves, Counts

LEMMA NextMoves ==
  ASSUME NEW role, Ready(role), [Next]_vars
  PROVE  Moves(role)
  <1>1. CASE heap_extend
    BY <1>1, HeapStep
  <1>2. CASE \E n \in 0 .. HeapPages - 1 : paging_unmap_page(HEAP_START + n)
    BY <1>2, UnmapStep
  <1>3. CASE paging_create_user_space
    BY <1>3, CreateStep
  <1>4. CASE \E c \in spaces, page \in UserPages : elf_load_page(c, page)
    BY <1>4, PagingAssumption, LoadStep
  <1>5. CASE \E c \in spaces, page \in UserPages : paging_virt_to_phys_cr3(c, page)
    BY <1>5, WalkStep
  <1>6. CASE \E c \in spaces : paging_free_user_space(c)
    BY <1>6, FreeStep
  <1>7. CASE UNCHANGED vars
    <2>1. machine' = machine /\ spaces' = spaces /\ given' = given /\ Counts' /\ users' = users
      BY <1>7 DEF vars, machine, Counts, Ready
    <2>2. Leads(role, machine, spaces, given)
      BY LeadsSelf DEF Ready
    <2> QED BY <2>1, <2>2 DEF Moves
  <1> QED BY <1>1, <1>2, <1>3, <1>4, <1>5, <1>6, <1>7 DEF Next

(* The state that paging_init leaves.                                      *)
First(M) ==
  /\ M \in Tables
  /\ \A t \in Frames, i \in Index :
       M[t][i] = IF t = pml4_new /\ i = K THEN pdpt_hi
                 ELSE IF t = pdpt_hi /\ i = K - 1 THEN pd_hi ELSE Absent
FirstRole(F) ==
  [x \in Frames |-> IF x = pml4_new THEN 1 ELSE IF x = pdpt_hi THEN 2 ELSE IF x = pd_hi THEN 3
                    ELSE IF x \in F /\ x # SCRATCH THEN 0 ELSE 6]

LEMMA FirstIs ==
  ASSUME Init
  PROVE  First(mem) /\ machine \in Machine /\ free \cap 0 .. pd_hi = {}
  <1>1. PICK k \in Machines :
          /\ mem = [f \in Frames |->
                      IF f = pml4_new THEN [Empty EXCEPT ![KERNEL_ENTRY] = pdpt_hi]
                      ELSE IF f = pdpt_hi THEN [Empty EXCEPT ![KERNEL_ENTRY - 1] = pd_hi]
                      ELSE Empty]
          /\ scratch = LOW - 1 /\ free = k.free
    BY DEF Init
  <1> DEFINE E == [i \in Index |-> Absent]
             A == [E EXCEPT ![KERNEL_ENTRY] = pdpt_hi]
             B == [E EXCEPT ![KERNEL_ENTRY - 1] = pd_hi]
  <1>2. /\ pml4_new \in Frames /\ pdpt_hi \in Frames /\ pd_hi \in Frames /\ pml4_new # pdpt_hi
        /\ K \in Index /\ K - 1 \in Index
    BY Numbers DEF pml4_new, pdpt_hi
  <1>3. E \in [Index -> Entries] /\ A \in [Index -> Entries] /\ B \in [Index -> Entries]
    BY <1>2 DEF Entries
  <1>4. /\ \A i \in Index : E[i] = Absent
        /\ \A i \in Index : A[i] = IF i = K THEN pdpt_hi ELSE Absent
        /\ \A i \in Index : B[i] = IF i = K - 1 THEN pd_hi ELSE Absent
    BY <1>2 DEF K
  <1>5. mem = [f \in Frames |-> IF f = pml4_new THEN A ELSE IF f = pdpt_hi THEN B ELSE E]
    BY <1>1 DEF Empty
  <1> HIDE DEF E, A, B
  <1>6. mem \in Tables /\ First(mem)
    BY <1>2, <1>3, <1>4, <1>5 DEF Tables, First
  <1>7. free \subseteq Frames /\ free \cap 0 .. pd_hi = {} /\ free \subseteq Nat \ 0 .. pd_hi
    BY <1>1, PagingAssumption DEF Frames
  <1>8. 0 \in 0 .. pd_hi
    BY DEF pd_hi
  <1>9. LOW - 1 \in Frames
    BY Numbers
  <1> QED BY <1>1, <1>6, <1>7, <1>8, <1>9 DEF Machine, machine

LEMMA FirstTree ==
  ASSUME Init
  PROVE  Tree(mem, FirstRole(free))
  <1> DEFINE role == FirstRole(free)
  <1>0. First(mem) /\ free \cap 0 .. pd_hi = {}
    BY FirstIs
  <1>1. /\ pml4_new \in Frames /\ pdpt_hi \in Frames /\ pd_hi \in Frames
        /\ K \in Index /\ K - 1 \in Index /\ 0 \in Frames /\ SCRATCH \in Frames
    BY Numbers
  <1>2. /\ SCRATCH \in Nat /\ SCRATCH > pd_hi /\ K \in Nat
    BY Numbers, PagingAssumption DEF SCRATCH, pd_hi
  <1>3. \A x \in Frames : role[x] = IF x = 1 THEN 1 ELSE IF x = 2 THEN 2 ELSE IF x = 3 THEN 3
                                    ELSE IF x \in free /\ x # SCRATCH THEN 0 ELSE 6
    BY DEF FirstRole, pml4_new, pdpt_hi, pd_hi
  <1>4. role \in Uses
    BY DEF FirstRole, Uses
  <1> HIDE DEF role
  <1>5. \A t \in Frames, i \in Index : mem[t][i] # Absent =>
          (t = 1 /\ i = K /\ mem[t][i] = 2) \/ (t = 2 /\ i = K - 1 /\ mem[t][i] = 3)
    BY <1>0 DEF First, pml4_new, pdpt_hi, pd_hi
  <1>6. role[1] = 1 /\ role[2] = 2 /\ role[3] = 3
    BY <1>1, <1>3 DEF pml4_new, pdpt_hi, pd_hi
  <1>7. Tiers(mem, role)
    BY <1>5, <1>6 DEF Tiers
  <1>8. Single(mem, role)
    BY <1>5, <1>6 DEF Single
  <1>9. Shared(mem, role)
    <2>1. mem[1][K] = 2 /\ mem[2][K - 1] = 3
      BY <1>0, <1>1 DEF First, pml4_new, pdpt_hi, pd_hi
    <2>2. \A t \in Frames : role[t] = 1 => t = 1
      BY <1>3
    <2> QED BY <1>6, <2>1, <2>2 DEF Shared, pml4_new, pdpt_hi, pd_hi
  <1>10. InSight(role)
    <2>1. role[0] = 6
      BY <1>0, <1>1, <1>3 DEF pd_hi
    <2>2. role[SCRATCH] = 6
      BY <1>1, <1>2, <1>3 DEF pd_hi
    <2>3. \A t \in Frames : role[t] \in 1 .. 3 => t \in 1 .. 3
      BY <1>3
    <2>4. \A t \in 1 .. 3 : t < SCRATCH
      BY <1>2 DEF pd_hi
    <2> QED BY <2>1, <2>2, <2>3, <2>4 DEF InSight
  <1> QED BY <1>0, <1>4, <1>7, <1>8, <1>9, <1>10 DEF Tree, First, role

LEMMA FirstWalk ==
  ASSUME NEW M, First(M), NEW page \in Pages
  PROVE  Translate(M, pml4_new, page) = Absent
  <1> DEFINE p1 == Path(page)[1]
             p2 == Path(page)[2]
             p3 == Path(page)[3]
             p4 == Path(page)[4]
  <1>1. p1 \in Index /\ p2 \in Index /\ p3 \in Index /\ p4 \in Index
    <2>1. page \in Nat
      BY TopDigit
    <2> QED BY <2>1, Paths
  <1>2. /\ 1 \in Frames /\ 2 \in Frames /\ 3 \in Frames
    BY Numbers DEF pml4_new, pdpt_hi, pd_hi
  <1> HIDE DEF p1, p2, p3, p4
  <1>3. Look(M, 1, p1) \in {2, Absent}
    BY <1>1, <1>2 DEF Look, First, pml4_new, pdpt_hi, pd_hi, Absent
  <1>4. \A x \in {2, Absent} : Look(M, x, p2) \in {3, Absent}
    BY <1>1, <1>2 DEF Look, First, pml4_new, pdpt_hi, pd_hi, Absent
  <1>5. \A x \in {3, Absent} : Look(M, x, p3) = Absent
    BY <1>1, <1>2 DEF Look, First, pml4_new, pdpt_hi, pd_hi, Absent
  <1>6. Look(M, Absent, p4) = Absent
    BY DEF Look
  <1>7. Pt(M, 1, page) = Absent
    BY <1>3, <1>4, <1>5 DEF Pt, p1, p2, p3
  <1> QED BY <1>6, <1>7, TranslateIs DEF p4, pml4_new

LEMMA FirstGood ==
  ASSUME Init
  PROVE  Good(machine, spaces, given, FirstRole(free)) /\ Counts
  <1> DEFINE role == FirstRole(free)
  <1>1. /\ spaces = {} /\ given = <<>> /\ heap_pages = 0 /\ users \in Nat /\ HeapPages \in Nat
    BY PagingAssumption DEF Init
  <1>2. First(mem) /\ machine \in Machine /\ free \cap 0 .. pd_hi = {}
    BY FirstIs
  <1>3. Tree(mem, role)
    BY FirstTree
  <1>4. \A x \in Frames : role[x] = IF x = pml4_new THEN 1 ELSE IF x = pdpt_hi THEN 2 ELSE IF x = pd_hi THEN 3
                    ELSE IF x \in free /\ x # SCRATCH THEN 0 ELSE 6
    BY DEF FirstRole
  <1> HIDE DEF role
  <1>5. \A x \in machine.free : role[x] = 0 \/ x = SCRATCH
    <2>1. \A x \in free : x \in Frames /\ x \notin 0 .. pd_hi
      BY <1>2, MachineIs DEF Machine
    <2>2. pml4_new \in 0 .. pd_hi /\ pdpt_hi \in 0 .. pd_hi /\ pd_hi \in 0 .. pd_hi
      BY DEF pml4_new, pdpt_hi, pd_hi
    <2> QED BY <1>4, <2>1, <2>2, MachineIs
  <1>6. Sound(machine, role)
    BY <1>2, <1>3, <1>5, MachineIs DEF Sound
  <1>7. Roots(spaces, role)
    <2>1. \A x \in Frames : role[x] = 1 => x = pml4_new
      BY <1>4
    <2> QED BY <1>1, <2>1 DEF Roots
  <1>8. DOMAIN given = {}
    BY <1>1
  <1>9. Faithful(machine.mem, spaces, given)
    <2>1. \A page \in Pages : Told(given, pml4_new, page) = Absent
      BY <1>8 DEF Told
    <2>2. \A page \in Pages : Translate(mem, pml4_new, page) = Absent
      BY <1>2, FirstWalk
    <2> QED BY <1>1, <2>1, <2>2, MachineIs DEF Faithful
  <1>10. Keyed(spaces, given)
    BY <1>8 DEF Keyed
  <1>11. Counts
    BY <1>1 DEF Counts
  <1> QED BY <1>6, <1>7, <1>9, <1>10, <1>11 DEF Good, role

-----------------------------------------------------------------------------
(* As long as there is room, every walk ends where callers were told.      *)
LEMMA InitIInv ==
  ASSUME Init
  PROVE  IInv
  BY FirstGood DEF IInv

LEMMA NextIInv ==
  ASSUME IInv, RoomBelow, [Next]_vars
  PROVE  IInv'
  <1>1. PICK role : Good(machine, spaces, given, role)
    BY DEF IInv
  <1>2. Moves(role)
    BY <1>1, NextMoves DEF Ready, IInv
  <1>3. PICK new : Good(machine', spaces', given', new)
    BY <1>2 DEF Moves, Leads
  <1> QED BY <1>2, <1>3 DEF Moves, IInv

(* As long as there is room below 2 MiB, paging_map_page, the walks of     *)
(* elf_load, creating and freeing a user space keep the tables in trees.   *)
THEOREM Invariance == Spec /\ []RoomBelow => []IInv
  <1>1. Init => IInv
    BY InitIInv
  <1>2. IInv /\ RoomBelow /\ [Next]_vars => IInv'
    BY NextIInv
  <1> QED BY <1>1, <1>2, PTL DEF Spec

(* The CPU translates every page of every space as callers were told.      *)
THEOREM Translation == Spec /\ []RoomBelow => []TranslatesAsAsked
  <1>1. IInv => TranslatesAsAsked
    <2> SUFFICES ASSUME IInv PROVE TranslatesAsAsked
      OBVIOUS
    <2>1. PICK role : Good(machine, spaces, given, role)
      BY DEF IInv
    <2>2. \A c \in spaces \cup {pml4_new}, page \in Pages : Translate(mem, c, page) = Told(given, c, page)
      BY <2>1, MachineIs DEF Good, Faithful
    <2> QED BY <2>2 DEF TranslatesAsAsked, Asked, Told
  <1> QED BY <1>1, Invariance, PTL

-----------------------------------------------------------------------------
(* An entry that is in use, other than the one all PML4s share.            *)
Held(role, e) ==
  /\ e \in Frames \X Index /\ role[e[1]] \in 1 .. 4 /\ mem[e[1]][e[2]] # Absent
  /\ role[e[1]] = 1 => e[2] # K

LEMMA TargetsBelow ==
  ASSUME NEW T
  PROVE  Targets(Below(T)) = Spread(mem, T)
  <1>1. ASSUME NEW x \in Targets(Below(T)) PROVE x \in Spread(mem, T)
    <2>1. PICK e \in Below(T) : x = mem[e[1]][e[2]]
      BY DEF Targets
    <2>2. e \in T \X Index /\ x # Absent
      BY <2>1 DEF Below
    <2>3. e[1] \in T /\ e[2] \in Index
      BY <2>2
    <2>4. x \in Kids(mem, e[1], N)
      BY Numbers, <2>1, <2>2, <2>3 DEF Kids
    <2> QED BY <2>3, <2>4 DEF Spread
  <1>2. ASSUME NEW x \in Spread(mem, T) PROVE x \in Targets(Below(T))
    <2>1. PICK u \in T : x \in Kids(mem, u, N)
      BY DEF Spread
    <2>2. PICK j \in Index : x = mem[u][j] /\ x # Absent
      BY Numbers, <2>1 DEF Kids
    <2> DEFINE e == <<u, j>>
    <2>3. e \in T \X Index /\ e[1] = u /\ e[2] = j
      OBVIOUS
    <2> HIDE DEF e
    <2>4. e \in Below(T)
      BY <2>2, <2>3 DEF Below
    <2> QED BY <2>2, <2>3, <2>4 DEF Targets
  <1> QED BY <1>1, <1>2

LEMMA BelowIs ==
  ASSUME NEW role, Tree(mem, role), NEW l \in 1 .. 4, NEW T, OnLevel(role, l, T)
  PROVE  /\ Targets(Below(T)) = Spread(mem, T)
         /\ OnLevel(role, l + 1, Targets(Below(T)))
         /\ l # 1 => \A e \in Below(T) : Held(role, e)
  <1>1. T \subseteq Frames /\ \A u \in T : role[u] = l
    BY DEF OnLevel
  <1>3. Targets(Below(T)) = Spread(mem, T)
    BY TargetsBelow
  <1>4. OnLevel(role, l + 1, Spread(mem, T))
    BY SpreadIs
  <1>5. ASSUME l # 1, NEW e \in Below(T) PROVE Held(role, e)
    <2>1. e \in T \X Index /\ mem[e[1]][e[2]] # Absent
      BY DEF Below
    <2>2. e[1] \in T /\ e \in Frames \X Index
      BY <1>1, <2>1
    <2> QED BY <1>1, <1>5, <2>1, <2>2 DEF Held
  <1> QED BY <1>3, <1>4, <1>5

LEMMA TargetsTop ==
  ASSUME NEW c
  PROVE  Targets({e \in Below({c}) : e[2] # KERNEL_ENTRY}) = Kids(mem, c, K)
  <1> DEFINE top == {e \in Below({c}) : e[2] # KERNEL_ENTRY}
  <1>1. /\ Index = 0 .. K /\ K \in Nat
    BY Numbers DEF Index, K
  <1>2. ASSUME NEW e \in top
        PROVE  e \in {c} \X Index /\ e[1] = c /\ e[2] \in 0 .. K - 1 /\ mem[c][e[2]] # Absent
    <2>1. e \in {c} \X Index /\ mem[e[1]][e[2]] # Absent /\ e[2] # K
      BY DEF Below, K
    <2>2. e[1] = c /\ e[2] \in Index
      BY <2>1
    <2> QED BY <1>1, <2>1, <2>2
  <1>4. \A x \in Targets(top) : x \in Kids(mem, c, K)
    BY <1>2 DEF Targets, Kids
  <1>5. ASSUME NEW x \in Kids(mem, c, K) PROVE x \in Targets(top)
    <2>1. PICK j \in 0 .. K - 1 : x = mem[c][j] /\ x # Absent
      BY DEF Kids
    <2>2. j \in Index /\ j # K
      BY <1>1, <2>1
    <2> DEFINE e == <<c, j>>
    <2>3. e \in {c} \X Index /\ e[1] = c /\ e[2] = j
      BY <2>2
    <2> HIDE DEF e
    <2>4. e \in top
      BY <2>1, <2>2, <2>3 DEF Below, K
    <2> QED BY <2>1, <2>3, <2>4 DEF Targets
  <1> QED BY <1>4, <1>5

LEMMA TopIs ==
  ASSUME NEW role, Tree(mem, role), NEW c \in Frames, role[c] = 1
  PROVE  LET top == {e \in Below({c}) : e[2] # KERNEL_ENTRY}
         IN  Targets(top) = Kids(mem, c, K) /\ \A e \in top : Held(role, e)
  <1> DEFINE top == {e \in Below({c}) : e[2] # KERNEL_ENTRY}
  <1>1. /\ Index = 0 .. K /\ K \in Nat
    BY Numbers DEF Index, K
  <1>2. ASSUME NEW e \in top
        PROVE  e \in {c} \X Index /\ e[1] = c /\ e[2] \in 0 .. K - 1 /\ mem[c][e[2]] # Absent
    <2>1. e \in {c} \X Index /\ mem[e[1]][e[2]] # Absent /\ e[2] # K
      BY DEF Below, K
    <2>2. e[1] = c /\ e[2] \in Index
      BY <2>1
    <2> QED BY <1>1, <2>1, <2>2
  <1>3. ASSUME NEW e \in top PROVE Held(role, e)
    <2>1. e \in Frames \X Index /\ e[1] = c /\ e[2] \in 0 .. K - 1 /\ mem[c][e[2]] # Absent
      BY <1>2
    <2>2. e[2] # K
      BY <1>1, <2>1
    <2>3. role[e[1]] \in 1 .. 4
      BY <2>1
    <2> QED BY <2>1, <2>2, <2>3 DEF Held
  <1>4. Targets(top) = Kids(mem, c, K)
    BY TargetsTop
  <1> QED BY <1>3, <1>4

LEMMA OwnEntriesAre ==
  ASSUME NEW role, Tree(mem, role), NEW c \in Frames, role[c] = 1
  PROVE  Targets(OwnEntries(c)) = Own(mem, c) /\ \A e \in OwnEntries(c) : Held(role, e)
  <1> DEFINE top == {e \in Below({c}) : e[2] # KERNEL_ENTRY}
             pdpts == Below(Targets(top))
             pds == Below(Targets(pdpts))
             pts == Below(Targets(pds))
  <1>0. K \in 0 .. N /\ 1 \in 1 .. 4 /\ 2 \in 1 .. 4 /\ 3 \in 1 .. 4 /\ 4 \in 1 .. 4
        /\ 1 + 1 = 2 /\ 2 + 1 = 3 /\ 3 + 1 = 4 /\ 4 + 1 = 5 /\ 2 # 1 /\ 3 # 1 /\ 4 # 1
    BY Numbers
  <1>1. Targets(top) = Kids(mem, c, K) /\ \A e \in top : Held(role, e)
    BY TopIs
  <1>2. OnLevel(role, 2, Targets(top))
    BY <1>0, <1>1, KidsAre
  <1> HIDE DEF top
  <1>3. Targets(pdpts) = Spread(mem, Targets(top)) /\ OnLevel(role, 3, Targets(pdpts)) /\ \A e \in pdpts : Held(role, e)
    BY <1>0, <1>2, BelowIs
  <1> HIDE DEF pdpts
  <1>4. Targets(pds) = Spread(mem, Targets(pdpts)) /\ OnLevel(role, 4, Targets(pds)) /\ \A e \in pds : Held(role, e)
    BY <1>0, <1>3, BelowIs
  <1> HIDE DEF pds
  <1>5. Targets(pts) = Spread(mem, Targets(pds)) /\ \A e \in pts : Held(role, e)
    BY <1>0, <1>4, BelowIs
  <1> HIDE DEF pts
  <1>6. OwnEntries(c) = top \cup pdpts \cup pds \cup pts
    BY DEF OwnEntries, top, pdpts, pds, pts
  <1>7. Targets(OwnEntries(c)) = Targets(top) \cup Targets(pdpts) \cup Targets(pds) \cup Targets(pts)
    BY <1>6 DEF Targets
  <1>8. Targets(OwnEntries(c)) = Own(mem, c)
    BY <1>1, <1>3, <1>4, <1>5, <1>7 DEF Own
  <1> QED BY <1>1, <1>3, <1>4, <1>5, <1>6, <1>8

LEMMA KernelEntriesAre ==
  ASSUME NEW role, Tree(mem, role)
  PROVE  \A e \in KernelEntries : Held(role, e)
  <1> DEFINE top == {pdpt_hi}
             pdpts == Below(top)
             pds == Below(Targets(pdpts))
             pts == Below(Targets(pds))
  <1>0. 2 \in 1 .. 4 /\ 3 \in 1 .. 4 /\ 4 \in 1 .. 4 /\ 2 + 1 = 3 /\ 3 + 1 = 4 /\ 2 # 1 /\ 3 # 1 /\ 4 # 1
    OBVIOUS
  <1>1. OnLevel(role, 2, top)
    BY KernelTiers, Numbers DEF OnLevel
  <1> HIDE DEF top
  <1>2. OnLevel(role, 3, Targets(pdpts)) /\ \A e \in pdpts : Held(role, e)
    BY <1>0, <1>1, BelowIs
  <1> HIDE DEF pdpts
  <1>3. OnLevel(role, 4, Targets(pds)) /\ \A e \in pds : Held(role, e)
    BY <1>0, <1>2, BelowIs
  <1> HIDE DEF pds
  <1>4. \A e \in pts : Held(role, e)
    BY <1>0, <1>3, BelowIs
  <1> HIDE DEF pts
  <1>5. KernelEntries = pdpts \cup pds \cup pts
    BY DEF KernelEntries, top, pdpts, pds, pts
  <1> QED BY <1>2, <1>3, <1>4, <1>5

LEMMA ApartIs ==
  ASSUME IInv
  PROVE  SpacesApart
  <1>1. PICK role : Good(machine, spaces, given, role)
    BY DEF IInv
  <1>2. Tree(mem, role) /\ Sound(machine, role) /\ machine \in Machine /\ role \in Uses
    BY <1>1, MachineIs DEF Good, Sound, Tree
  <1>3. \A c \in spaces : c \in Frames /\ role[c] = 1
    BY <1>1 DEF Good, Roots
  <1>4. \A e \in AllEntries : Held(role, e)
    <2>1. \A c \in spaces : \A e \in OwnEntries(c) : Held(role, e)
      BY <1>2, <1>3, OwnEntriesAre
    <2>2. \A e \in KernelEntries : Held(role, e)
      BY <1>2, KernelEntriesAre
    <2> QED BY <2>1, <2>2 DEF AllEntries
  <1>5. TypeOK
    <2>1. mem \in Tables /\ scratch \in Frames /\ free \subseteq Frames \ {0}
      BY <1>2, MachineIs DEF Machine
    <2>2. spaces \subseteq Frames \ {0}
      <3>1. ASSUME NEW c \in spaces PROVE c \in Frames /\ c # 0
        <4>1. role[c] # 6
          BY <1>3
        <4> QED BY <1>2, <1>3, <4>1, RoleFrame
      <3> QED BY <3>1
    <2>3. DOMAIN given \subseteq Frames \X Pages /\ \A k \in DOMAIN given : given[k] \in Frames \ {0}
      BY <1>1 DEF Good, Keyed
    <2> QED BY <2>1, <2>2, <2>3 DEF TypeOK, Tables, Entries, IInv, Counts
  <1>6. ASSUME NEW d \in AllEntries, NEW e \in AllEntries, mem[d[1]][d[2]] = mem[e[1]][e[2]] PROVE d = e
    <2>1. /\ d \in Frames \X Index /\ role[d[1]] \in 1 .. 4 /\ mem[d[1]][d[2]] # Absent
          /\ role[d[1]] = 1 => d[2] # K
          /\ e \in Frames \X Index /\ role[e[1]] \in 1 .. 4
      BY <1>4 DEF Held
    <2>2. d[1] \in Frames /\ d[2] \in Index /\ e[1] \in Frames /\ e[2] \in Index
      BY <2>1
    <2>3. (d[1] = e[1] /\ d[2] = e[2]) \/ (role[d[1]] = 1 /\ d[2] = K /\ e[2] = K)
      BY <1>2, <1>6, <2>1, <2>2, Only
    <2>4. d[1] = e[1] /\ d[2] = e[2]
      BY <2>1, <2>3
    <2>5. d = <<d[1], d[2]>> /\ e = <<e[1], e[2]>>
      BY <2>1
    <2> QED BY <2>4, <2>5
  <1>7. ASSUME NEW x \in Targets(AllEntries) PROVE x \in Frames /\ role[x] \in 2 .. 5
    <2>1. PICK e \in AllEntries : x = mem[e[1]][e[2]]
      BY DEF Targets
    <2>2. e \in Frames \X Index /\ role[e[1]] \in 1 .. 4 /\ x # Absent
      BY <1>4, <2>1 DEF Held
    <2>3. e[1] \in Frames /\ e[2] \in Index
      BY <2>2
    <2>4. role[x] = role[e[1]] + 1
      BY <1>2, <2>1, <2>2, <2>3 DEF Tree, Tiers
    <2>5. x \in Frames
      BY <1>2, <2>1, <2>2, <2>3 DEF Tree, Tables, Entries
    <2> QED BY <2>2, <2>4, <2>5
  <1>8. (Targets(AllEntries) \cup spaces) \cap free = {}
    <2>1. \A x \in free : role[x] = 0 \/ role[x] = 6
      BY <1>2, MachineIs DEF Sound, Tree, InSight
    <2>2. \A x \in Targets(AllEntries) : role[x] # 0 /\ role[x] # 6
      BY <1>7
    <2>3. \A x \in spaces : role[x] # 0 /\ role[x] # 6
      BY <1>3
    <2> QED BY <2>1, <2>2, <2>3
  <1>9. Targets(AllEntries) \cap spaces = {}
    <2>1. \A x \in Targets(AllEntries) : role[x] # 1
      BY <1>7
    <2> QED BY <1>3, <2>1
  <1>10. \A c \in spaces : mem[c][KERNEL_ENTRY] = pdpt_hi
    BY <1>2, <1>3 DEF Tree, Shared, K
  <1> QED BY <1>5, <1>6, <1>8, <1>9, <1>10 DEF SpacesApart

(* Address spaces share the kernel's tables and nothing else, and nothing  *)
(* they use is free.                                                       *)
THEOREM Apartness == Spec /\ []RoomBelow => []SpacesApart
  <1>1. IInv => SpacesApart
    BY ApartIs
  <1> QED BY <1>1, Invariance, PTL

(* Tearing a space down frees all that it uses and nothing else.           *)
THEOREM Teardown == Spec /\ []RoomBelow => FreesExactly
  <1> DEFINE A == \A c \in spaces \ spaces' : free' = free \cup {c} \cup Targets(OwnEntries(c))
  <1>1. IInv /\ RoomBelow /\ [Next]_vars => [A]_vars
    <2> SUFFICES ASSUME IInv, RoomBelow, Next PROVE A
      OBVIOUS
    <2>1. PICK role : Good(machine, spaces, given, role)
      BY DEF IInv
    <2>2. Ready(role) /\ Tree(mem, role) /\ \A c \in spaces : c \in Frames /\ role[c] = 1
      BY <2>1, MachineIs DEF Ready, IInv, Good, Sound, Roots
    <2>3. CASE spaces \subseteq spaces'
      BY <2>3
    <2>4. CASE \E c \in spaces : paging_free_user_space(c)
      <3>1. PICK c \in spaces : paging_free_user_space(c)
        BY <2>4
      <3>2. free' = free \cup Own(mem, c) \cup {c} /\ spaces' = spaces \ {c}
        BY <2>2, <3>1, FreeStep
      <3>3. Targets(OwnEntries(c)) = Own(mem, c)
        BY <2>2, OwnEntriesAre
      <3>4. \A d \in spaces \ spaces' : d = c
        BY <3>2
      <3> QED BY <3>2, <3>3, <3>4
    <2>5. CASE heap_extend
      BY <2>3, <2>5 DEF heap_extend
    <2>6. CASE \E n \in 0 .. HeapPages - 1 : paging_unmap_page(HEAP_START + n)
      BY <2>3, <2>6 DEF paging_unmap_page
    <2>7. CASE paging_create_user_space
      BY <2>3, <2>7 DEF paging_create_user_space
    <2>8. CASE \E c \in spaces, page \in UserPages :
                 elf_load_page(c, page) \/ paging_virt_to_phys_cr3(c, page)
      BY <2>3, <2>8 DEF elf_load_page, paging_virt_to_phys_cr3
    <2> QED BY <2>4, <2>5, <2>6, <2>7, <2>8 DEF Next
  <1>2. [][A]_vars <=> FreesExactly
    BY PTL DEF FreesExactly
  <1> QED BY <1>1, <1>2, Invariance, PTL DEF Spec

-----------------------------------------------------------------------------
(* user_mem_check: what it computes with addresses is right.               *)
LEMMA Limits ==
  /\ PMM_FRAME_SIZE \in Nat \ {0} /\ USER_ADDR_LIMIT \in Nat /\ ADDRESSES \in Nat
  /\ USER_ADDR_LIMIT < ADDRESSES
  /\ \A a \in 0 .. ADDRESSES - 1 : a \div PMM_FRAME_SIZE \in Pages
  <1> DEFINE s == PMM_FRAME_SIZE
             e == PagesPerEntry
             q == N * e
  <1>1. N \in Nat /\ K \in Nat /\ N = K + 1 /\ N >= 2 /\ s \in Nat \ {0}
    BY Numbers, PagingAssumption
  <1>2. e \in Nat \ {0}
    <2>1. e = N * N * N
      BY DEF PagesPerEntry, N
    <2>2. N * N \in Nat \ {0}
      BY <1>1
    <2>3. N * N * N \in Nat \ {0}
      BY <1>1, <2>2
    <2> QED BY <2>1, <2>3
  <1>3. USER_ADDR_LIMIT = K * e * s /\ ADDRESSES = q * s /\ Pages = 0 .. q - 1
    BY DEF USER_ADDR_LIMIT, ADDRESSES, Pages, K, N
  <1> HIDE DEF e, s
  <1>4. K * e \in Nat /\ q \in Nat /\ q = K * e + e
    BY <1>1, <1>2
  <1> HIDE DEF q
  <1>5. K * e * s \in Nat /\ q * s \in Nat /\ q * s = K * e * s + e * s
    BY <1>1, <1>2, <1>4
  <1>6. e * s \in Nat \ {0}
    BY <1>1, <1>2
  <1>7. ASSUME NEW a \in 0 .. ADDRESSES - 1 PROVE a \div s \in Pages
    <2>1. a \in Nat /\ ~(a >= q * s)
      BY <1>3, <1>5
    <2>2. a \div s \in Nat /\ ~(a \div s >= q)
      BY <1>1, <1>4, <2>1, Quotients
    <2> QED BY <1>3, <1>4, <2>2
  <1>8. USER_ADDR_LIMIT \in Nat /\ ADDRESSES \in Nat /\ USER_ADDR_LIMIT < ADDRESSES
    BY <1>3, <1>5, <1>6
  <1> QED BY <1>1, <1>7, <1>8 DEF s

(* The pages of a range of bytes.                                          *)
LEMMA PagesOf ==
  ASSUME NEW s \in Nat \ {0}, NEW x \in Nat, NEW y \in Nat, x < y, NEW T
  PROVE  (\A q \in x \div s .. (y - 1) \div s : q \in T) <=> (\A a \in x .. y - 1 : a \div s \in T)
  <1>1. y - 1 \in Nat /\ x <= y - 1
    OBVIOUS
  <1>2. /\ x \div s \in Nat /\ \A k \in Nat : x \div s >= k <=> x >= k * s
    BY Quotients
  <1>3. /\ (y - 1) \div s \in Nat /\ \A k \in Nat : (y - 1) \div s >= k <=> y - 1 >= k * s
    BY <1>1, Quotients
  <1> DEFINE lo == x \div s
             hi == (y - 1) \div s
  <1>4. /\ lo \in Nat /\ \A k \in Nat : lo >= k <=> x >= k * s
        /\ hi \in Nat /\ \A k \in Nat : hi >= k <=> y - 1 >= k * s
    BY <1>2, <1>3
  <1> HIDE DEF lo, hi
  <1>5. ASSUME NEW a \in x .. y - 1 PROVE a \div s \in lo .. hi
    <2> DEFINE q == a \div s
    <2>1. a \in Nat /\ x <= a /\ a <= y - 1
      BY <1>1
    <2>2. q \in Nat /\ \A k \in Nat : q >= k <=> a >= k * s
      BY <2>1, Quotients
    <2> HIDE DEF q
    <2>3. lo * s \in Nat /\ q * s \in Nat
      BY <1>4, <2>2
    <2>4. x >= lo * s /\ a >= q * s
      BY <1>4, <2>2
    <2>5. q >= lo
      BY <1>4, <2>1, <2>2, <2>3, <2>4
    <2>6. hi >= q
      BY <1>1, <1>4, <2>1, <2>2, <2>3, <2>4
    <2>7. q \in lo .. hi
      BY <1>4, <2>2, <2>5, <2>6
    <2> QED BY <2>7 DEF q
  <1>6. ASSUME NEW q \in lo .. hi PROVE \E a \in x .. y - 1 : a \div s = q
    <2>1. CASE q = lo
      <3>1. x \in x .. y - 1
        BY <1>1
      <3> QED BY <2>1, <3>1 DEF lo
    <2>2. CASE q # lo
      <3>1. q \in Nat /\ lo + 1 <= q /\ q <= hi
        BY <1>4, <2>2
      <3> DEFINE a == q * s
                 d == a \div s
      <3>2. a \in Nat /\ a <= y - 1
        BY <1>1, <1>4, <3>1
      <3>3. x < a
        BY <1>4, <3>1, <3>2
      <3>4. d \in Nat /\ \A k \in Nat : d >= k <=> a >= k * s
        BY <3>2, Quotients
      <3>5. d >= q
        BY <3>1, <3>2, <3>4
      <3>6. ~(d >= q + 1)
        <4>1. q + 1 \in Nat /\ (q + 1) * s = a + s
          BY <3>1
        <4>2. ~(a >= (q + 1) * s)
          BY <3>2, <4>1
        <4> QED BY <3>4, <4>1, <4>2
      <3> HIDE DEF d
      <3>7. d = q
        BY <3>1, <3>4, <3>5, <3>6
      <3>8. a \in x .. y - 1
        BY <1>1, <3>2, <3>3
      <3> HIDE DEF a
      <3> QED BY <3>7, <3>8 DEF d
    <2> QED BY <2>1, <2>2
  <1>7. (\A q \in lo .. hi : q \in T) <=> (\A a \in x .. y - 1 : a \div s \in T)
    BY <1>5, <1>6
  <1> QED BY <1>7 DEF lo, hi

(* The sum of an address and a length, both below A, in arithmetic modulo A.*)
LEMMA Wraps ==
  ASSUME NEW A \in Nat, NEW x \in 0 .. A - 1, NEW l \in 0 .. A - 1
  PROVE  /\ x + l < A => (x + l) % A = x + l
         /\ x + l >= A => (x + l) % A < x
  <1>1. A \in Nat \ {0} /\ x + l \in Nat
    OBVIOUS
  <1>2. /\ (x + l) \div A \in Nat /\ (x + l) % A \in 0 .. A - 1
        /\ x + l = ((x + l) \div A) * A + ((x + l) % A)
        /\ \A k \in Nat : (x + l) \div A >= k <=> x + l >= k * A
    BY <1>1, Quotients
  <1> DEFINE d == (x + l) \div A
             r == (x + l) % A
  <1>3. /\ d \in Nat /\ r \in 0 .. A - 1 /\ x + l = d * A + r
        /\ \A k \in Nat : d >= k <=> x + l >= k * A
    BY <1>2
  <1> HIDE DEF d, r
  <1>4. 1 * A = A /\ 2 * A = A + A /\ 0 * A = 0
    OBVIOUS
  <1>5. ~(d >= 2)
    BY <1>3, <1>4
  <1>6. ASSUME x + l < A PROVE r = x + l
    <2>1. ~(d >= 1)
      BY <1>3, <1>4, <1>6
    <2>2. d = 0
      BY <1>3, <2>1
    <2> QED BY <1>1, <1>3, <1>4, <2>2
  <1>7. ASSUME x + l >= A PROVE r < x
    <2>1. d >= 1
      BY <1>3, <1>4, <1>7
    <2>2. d = 1
      BY <1>3, <1>5, <2>1
    <2>3. x + l = A + r
      BY <1>3, <1>4, <2>2
    <2> QED BY <1>3, <2>3
  <1> QED BY <1>6, <1>7 DEF r

LEMMA MemCheckIs ==
  ASSUME IInv, NEW c \in spaces, NEW addr \in Addrs, NEW len \in Lens
  PROVE  user_mem_check(c, addr, len) <=>
           /\ addr < USER_ADDR_LIMIT /\ addr + len <= USER_ADDR_LIMIT
           /\ \A a \in addr .. addr + len - 1 : Asked(c, a \div PMM_FRAME_SIZE) # Absent
  <1> DEFINE s == PMM_FRAME_SIZE
             U == USER_ADDR_LIMIT
             A == ADDRESSES
             T == {q \in Pages : Asked(c, q) # Absent}
             y == addr + len
             e == End(addr, len)
             walked == \A q \in addr \div s .. (e - 1) \div s : SoftwareWalk(machine, c, q).f # Absent
             mapped == \A a \in addr .. y - 1 : Asked(c, a \div s) # Absent
  <1>1. /\ addr \in 0 .. A - 1 /\ len \in 0 .. A - 1
    BY PagingAssumption
  <1>2. /\ s \in Nat \ {0} /\ U \in Nat /\ A \in Nat /\ U < A /\ \A a \in 0 .. A - 1 : a \div s \in Pages
    BY Limits
  <1>0. addr .. addr + len - 1 = addr .. y - 1
    BY <1>1, <1>2
  <1> SUFFICES user_mem_check(c, addr, len) <=> addr < U /\ y <= U /\ mapped
    BY <1>0, Zenon
  <1>3. /\ y < A => e = y
        /\ y >= A => e < addr
    <2> HIDE DEF A
    <2> QED BY <1>1, <1>2, Wraps DEF End, A
  <1>4. user_mem_check(c, addr, len) <=> addr < U /\ (len = 0 \/ (e >= addr /\ e <= U /\ walked))
    BY DEF user_mem_check, InUserHalf
  <1>5. \A q \in Pages : SoftwareWalk(machine, c, q).f # Absent <=> q \in T
    <2>1. PICK role : Good(machine, spaces, given, role)
      BY DEF IInv
    <2>2. c \in spaces \cup {pml4_new}
      OBVIOUS
    <2>3. c \in Frames /\ role[c] = 1 /\ Sound(machine, role)
      BY <2>1, <2>2, RootRoles DEF Good
    <2> TAKE q \in Pages
    <2>4. SoftwareWalk(machine, c, q).f = Translate(machine.mem, c, q)
      BY <2>3, SoftwareWalkIs
    <2>5. Translate(machine.mem, c, q) = Told(given, c, q)
      BY <2>1, <2>2 DEF Good, Faithful
    <2>6. Told(given, c, q) = Asked(c, q)
      BY DEF Told, Asked
    <2> QED BY <2>4, <2>5, <2>6
  <1>6. ASSUME len # 0, y < A PROVE walked <=> mapped
    <2>0. /\ addr \in Nat /\ y \in Nat /\ addr < y
      BY <1>1, <1>2, <1>6
    <2>1. (\A q \in addr \div s .. (y - 1) \div s : q \in T) <=> (\A a \in addr .. y - 1 : a \div s \in T)
      BY <1>2, <2>0, PagesOf
    <2>2. ASSUME NEW a \in addr .. y - 1 PROVE a \div s \in Pages
      <3> HIDE DEF A, s
      <3>1. a \in 0 .. A - 1
        BY <1>1, <1>2, <1>6, <2>0
      <3> QED BY <1>2, <3>1
    <2>3. \A q \in addr \div s .. (y - 1) \div s : q \in Pages
      <3>1. (\A q \in addr \div s .. (y - 1) \div s : q \in Pages) <=> (\A a \in addr .. y - 1 : a \div s \in Pages)
        BY <1>2, <2>0, PagesOf
      <3> QED BY <2>2, <3>1
    <2>4. mapped <=> \A a \in addr .. y - 1 : a \div s \in T
      BY <2>2
    <2>5. walked <=> \A q \in addr \div s .. (y - 1) \div s : q \in T
      BY <1>3, <1>5, <1>6, <2>3
    <2> QED BY <2>1, <2>4, <2>5
  <1>7. len = 0 => mapped
    BY <1>1, <1>2
  <1> HIDE DEF s, U, A, T, e, walked, mapped
  <1>8. CASE len = 0
    BY <1>1, <1>2, <1>4, <1>7, <1>8
  <1>9. CASE len # 0 /\ y < A
    <2>1. e = y /\ (walked <=> mapped)
      BY <1>3, <1>6, <1>9
    <2>2. y >= addr
      BY <1>1, <1>2
    <2>3. user_mem_check(c, addr, len) <=> addr < U /\ y <= U /\ mapped
      BY <1>4, <1>9, <2>1, <2>2
    <2> QED BY <2>3
  <1>10. CASE y >= A
    <2>1. len # 0
      BY <1>1, <1>2, <1>10
    <2>2. e \in Int
      BY <1>1, <1>2 DEF e, End, A
    <2>3. ~(e >= addr) /\ ~(y <= U)
      BY <1>1, <1>2, <1>3, <1>10, <2>2
    <2> QED BY <1>4, <2>1, <2>3
  <1>11. y < A \/ y >= A
    BY <1>1, <1>2
  <1> QED BY <1>8, <1>9, <1>10, <1>11

(* user_mem_check accepts a buffer exactly if all of it is mapped user     *)
(* memory, a buffer that wraps around the address space included.          *)
THEOREM MemCheck == Spec /\ []RoomBelow => []UserMemCheckExact
  <1>1. IInv => UserMemCheckExact
    BY MemCheckIs DEF UserMemCheckExact
  <1> QED BY <1>1, Invariance, PTL

-----------------------------------------------------------------------------
(* The walk of kernel_main, which goes on where the one of elf_load fails. *)
(* From there on frame 0 is every table.                                   *)
Sink(M) == \A i \in Index : M[0][i] \in {0, Absent}
Sunk(m, n, t, i) ==
  /\ m.free = {} /\ n \in Machine /\ n.free = {} /\ Sink(n.mem) /\ n.mem[t][i] = 0
  /\ \A u \in Frames, j \in Index : u # 0 /\ ~(u = t /\ j = i) => n.mem[u][j] = m.mem[u][j]

LEMMA NoTable ==
  ASSUME NEW m \in Machine, m.free = {}, NEW t \in Frames, t < SCRATCH, NEW i \in Index,
         NEW r, r = NewTable(m, t, i, "kernel_main")
  PROVE  Sunk(m, r, t, i)
  <1> DEFINE a == Taken(m)
             z == Zero(a, 0)
  <1>1. Lowest(m) = 0 /\ 0 \in Frames /\ 0 < SCRATCH /\ 0 \in Entries
    <2>1. SCRATCH \in Nat /\ SCRATCH > 3 /\ 0 \in Frames
      BY Numbers
    <2>2. 0 < SCRATCH
      BY <2>1
    <2> QED BY <2>1, <2>2, LowestIs DEF Entries
  <1>2. a \in Machine /\ a.mem = m.mem /\ a.free = {}
    BY <1>1, TakenIs
  <1>3. virt_for_phys(a, 0) = a /\ Pointer(0) = 0 /\ Shows(a, 0) = 0
    BY <1>1, LowShows
  <1>4. r = Store(z, t, i, 0)
    BY <1>1, <1>3 DEF NewTable
  <1> HIDE DEF a
  <1>5. z \in Machine /\ z.mem = Clear(m.mem, 0) /\ z.free = {}
    BY <1>1, <1>2, <1>3, ZeroIs
  <1> HIDE DEF z
  <1>6. Shows(z, t) = t
    BY LowShows
  <1>7. r \in Machine /\ r.mem = Put(z.mem, t, i, 0) /\ r.free = {}
    BY <1>1, <1>4, <1>5, <1>6, StoreIs
  <1> DEFINE C == Clear(m.mem, 0)
             L == Put(C, t, i, 0)
  <1>8. C \in Tables /\ Same(m.mem, C, 0) /\ \A j \in Index : C[0][j] = Absent
    <2>1. m.mem \in Tables
      BY DEF Machine
    <2> QED BY <1>1, <2>1, ClearIs
  <1> HIDE DEF C
  <1>9. L \in Tables /\ Same(C, L, t) /\ L[t][i] = 0 /\ \A j \in Index : j # i => L[t][j] = C[t][j]
    BY <1>1, <1>8, PutIs
  <1>10. r.mem = L
    BY <1>5, <1>7 DEF C
  <1> HIDE DEF L
  <1>11. Sink(L)
    BY <1>1, <1>8, <1>9 DEF Sink, Same
  <1>12. \A u \in Frames, j \in Index : u # 0 /\ ~(u = t /\ j = i) => L[u][j] = m.mem[u][j]
    BY <1>8, <1>9 DEF Same
  <1> QED BY <1>7, <1>9, <1>10, <1>11, <1>12 DEF Sunk

(* A step of it at a table whose entry is empty, when no frame is left.    *)
LEMMA FallIs ==
  ASSUME NEW m \in Machine, m.free = {}, NEW t \in Frames, t < SCRATCH, NEW i \in Index, m.mem[t][i] = Absent
  PROVE  \E n : Descend(Walk(m, t, TRUE), i, "kernel_main") = Walk(n, 0, TRUE) /\ Sunk(m, n, t, i)
  <1> DEFINE w == Walk(m, t, TRUE)
             n == NewTable(m, t, i, "kernel_main")
  <1>1. w.m = m /\ w.p = t /\ w.ok = TRUE
    BY DEF Walk
  <1>2. Sunk(m, n, t, i)
    BY NoTable
  <1>3. \A k : Load(k, t, i) = k.mem[t][i]
    BY LowShows DEF Load
  <1>4. virt_for_phys(n, 0) = n /\ Pointer(0) = 0
    <2>1. 0 \in Frames /\ 0 < SCRATCH
      BY Numbers
    <2> QED BY <2>1, LowShows
  <1>5. Load(m, t, i) = Absent /\ Load(n, t, i) = 0
    BY <1>2, <1>3 DEF Sunk
  <1>6. ~NoFrameFor(w, i, "kernel_main")
    BY DEF NoFrameFor
  <1> HIDE DEF w, n
  <1>7. Descend(w, i, "kernel_main") = [m |-> virt_for_phys(n, 0), p |-> Pointer(0), ok |-> TRUE]
    BY <1>1, <1>5, <1>6 DEF Descend, n
  <1>8. Descend(w, i, "kernel_main") = Walk(n, 0, TRUE)
    BY <1>4, <1>7 DEF Walk
  <1> QED BY <1>2, <1>8 DEF w

(* Every further step is at frame 0.                                       *)
Sinks(m, n) == n \in Machine /\ n.free = {} /\ Sink(n.mem) /\ \A u \in Frames : u # 0 => n.mem[u] = m.mem[u]

LEMMA SinkStep ==
  ASSUME NEW m \in Machine, m.free = {}, Sink(m.mem), NEW i \in Index
  PROVE  \E n : Descend(Walk(m, 0, TRUE), i, "kernel_main") = Walk(n, 0, TRUE) /\ Sinks(m, n)
  <1>1. 0 \in Frames /\ 0 < SCRATCH /\ m.mem \in Tables
    <2>1. SCRATCH \in Nat /\ SCRATCH > 3 /\ 0 \in Frames
      BY Numbers
    <2>2. 0 < SCRATCH
      BY <2>1
    <2> QED BY <2>1, <2>2 DEF Machine
  <1>2. CASE m.mem[0][i] = Absent
    <2>1. PICK n : Descend(Walk(m, 0, TRUE), i, "kernel_main") = Walk(n, 0, TRUE) /\ Sunk(m, n, 0, i)
      BY <1>1, <1>2, FallIs
    <2>2. n.mem \in Tables
      BY <2>1 DEF Sunk, Machine
    <2>3. \A u \in Frames : u # 0 => n.mem[u] = m.mem[u]
      <3> SUFFICES ASSUME NEW u \in Frames, u # 0 PROVE n.mem[u] = m.mem[u]
        OBVIOUS
      <3>1. n.mem[u] \in [Index -> Entries] /\ m.mem[u] \in [Index -> Entries]
        BY <1>1, <2>2 DEF Tables
      <3>2. \A j \in Index : n.mem[u][j] = m.mem[u][j]
        BY <2>1 DEF Sunk
      <3> QED BY <3>1, <3>2
    <2> QED BY <2>1, <2>3 DEF Sunk, Sinks
  <1>3. CASE m.mem[0][i] = 0
    <2> DEFINE w == Walk(m, 0, TRUE)
    <2>1. w.m = m /\ w.p = 0 /\ w.ok = TRUE
      BY DEF Walk
    <2>2. Load(m, 0, i) = 0
      BY <1>1, <1>3, LowShows DEF Load
    <2>3. Load(m, 0, i) # Absent
      BY <1>1, <2>2, Numbers
    <2>4. virt_for_phys(m, 0) = m /\ Pointer(0) = 0
      BY <1>1, LowShows
    <2> HIDE DEF w
    <2>5. Descend(w, i, "kernel_main") = [m |-> virt_for_phys(m, 0), p |-> Pointer(0), ok |-> TRUE]
      BY <2>1, <2>2, <2>3 DEF Descend, NoFrameFor
    <2>6. Descend(w, i, "kernel_main") = Walk(m, 0, TRUE)
      BY <2>4, <2>5 DEF Walk
    <2> QED BY <2>6 DEF w, Sinks
  <1> QED BY <1>2, <1>3 DEF Sink

(* Up to where elf_load fails, the steps are the same.                     *)
LEMMA SameStep ==
  ASSUME NEW m \in Machine, NEW p \in Frames, NEW i, Load(m, p, i) # Absent \/ m.free # {}
  PROVE  Descend(Walk(m, p, TRUE), i, "kernel_main") = Descend(Walk(m, p, TRUE), i, "elf_load")
  <1> DEFINE w == Walk(m, p, TRUE)
  <1>1. w.m = m /\ w.p = p /\ w.ok = TRUE
    BY DEF Walk
  <1>2. m.free # {} => Lowest(m) # 0
    BY LowestIs
  <1>3. NewTable(m, p, i, "kernel_main") = NewTable(m, p, i, "elf_load")
    BY DEF NewTable
  <1> HIDE DEF w
  <1>4. ~NoFrameFor(w, i, "kernel_main") /\ ~NoFrameFor(w, i, "elf_load")
    BY <1>1, <1>2 DEF NoFrameFor
  <1>5. Descend(w, i, "kernel_main") = Descend(w, i, "elf_load")
    BY <1>1, <1>3, <1>4 DEF Descend
  <1> QED BY <1>5 DEF w

(* A step of the one, e, and of the other, k: both end, or both go on.     *)
Falls(m, t, i, e, k) ==
  /\ m.mem[t][i] = Absent /\ m.free = {} /\ e = Walk(m, t, FALSE)
  /\ \E n : k = Walk(n, 0, TRUE) /\ Sunk(m, n, t, i)
GoesOn(m, role, l, t, i, e, k) ==
  k = e /\ \E n, new, x : e = Walk(n, Pointer(x), TRUE) /\ Enters(m, n, role, new, l, t, i, x)

LEMMA StepPair ==
  ASSUME NEW m, NEW role, Sound(m, role), NEW l \in 1 .. 3, NEW t \in Frames, role[t] = l,
         NEW i \in Index, NewInSight(m, l, t, i), t # pml4_new,
         NEW w, w = Walk(m, t, TRUE),
         NEW e, e = Descend(w, i, "elf_load"), NEW k, k = Descend(w, i, "kernel_main")
  PROVE  Falls(m, t, i, e, k) \/ GoesOn(m, role, l, t, i, e, k)
  <1>1. t < SCRATCH /\ m \in Machine /\ "elf_load" \in Callers
    BY DEF Sound, Tree, InSight, Callers
  <1>2. Load(m, t, i) = m.mem[t][i]
    BY <1>1, LowShows DEF Load
  <1>3. \/ e = Walk(m, t, FALSE) /\ m.free = {} /\ m.mem[t][i] = Absent
        \/ \E n, new, x : e = Walk(n, Pointer(x), TRUE) /\ Enters(m, n, role, new, l, t, i, x)
    BY <1>1, DescendIs DEF Open
  <1>4. CASE m.mem[t][i] = Absent /\ m.free = {}
    <2>1. w.m = m /\ w.p = t /\ w.ok = TRUE /\ [w EXCEPT !.ok = FALSE] = Walk(m, t, FALSE)
      <3>1. w.m = m /\ w.p = t /\ w.ok = TRUE
        BY DEF Walk
      <3>2. [w EXCEPT !.ok = FALSE] = Walk(m, t, FALSE)
        BY FailIs
      <3> QED BY <3>1, <3>2
    <2>2. Lowest(m) = 0
      BY <1>1, <1>4, LowestIs
    <2>3. NoFrameFor(w, i, "elf_load")
      BY <1>2, <1>4, <2>1, <2>2 DEF NoFrameFor
    <2>4. e = Walk(m, t, FALSE)
      BY <2>1, <2>3 DEF Descend
    <2>5. \E n : k = Walk(n, 0, TRUE) /\ Sunk(m, n, t, i)
      BY <1>1, <1>4, FallIs
    <2> QED BY <1>4, <2>4, <2>5 DEF Falls
  <1>5. CASE ~(m.mem[t][i] = Absent /\ m.free = {})
    <2>1. k = e
      BY <1>1, <1>2, <1>5, SameStep
    <2> QED BY <1>3, <1>5, <2>1 DEF GoesOn
  <1> QED BY <1>4, <1>5

LEMMA SunkFurther ==
  ASSUME NEW m, NEW n, NEW r, NEW t \in Frames, t # 0, NEW i \in Index, Sunk(m, n, t, i), Sinks(n, r)
  PROVE  Sunk(m, r, t, i)
  BY DEF Sunk, Sinks

(* A walk that has found no frame for a table below entry i of table t.    *)
Stuck(m, n, role) ==
  \E a, new : \E t \in Frames, i \in Index :
    /\ Grown(m, a, role, new) /\ new[t] \in 1 .. 3 /\ t # pml4_new /\ a.mem[t][i] = Absent /\ Sunk(a, n, t, i)

LEMMA StuckBy ==
  ASSUME NEW m, NEW n, NEW role, NEW a, NEW new, NEW t \in Frames, NEW i \in Index,
         Grown(m, a, role, new), new[t] \in 1 .. 3, t # pml4_new, a.mem[t][i] = Absent, Sunk(a, n, t, i)
  PROVE  Stuck(m, n, role)
  BY DEF Stuck

LEMMA SinkTwice ==
  ASSUME NEW m, NEW n, NEW role, Stuck(m, n, role), NEW i \in Index
  PROVE  \E r : Descend(Walk(n, 0, TRUE), i, "kernel_main") = Walk(r, 0, TRUE) /\ Stuck(m, r, role)
  <1>1. PICK a, new : \E t \in Frames, j \in Index :
          /\ Grown(m, a, role, new) /\ new[t] \in 1 .. 3 /\ t # pml4_new /\ a.mem[t][j] = Absent /\ Sunk(a, n, t, j)
    BY DEF Stuck
  <1>2. PICK t \in Frames, j \in Index :
          /\ Grown(m, a, role, new) /\ new[t] \in 1 .. 3 /\ t # pml4_new /\ a.mem[t][j] = Absent /\ Sunk(a, n, t, j)
    BY <1>1
  <1>3. t # 0
    <2>1. new[t] # 6
      BY <1>2
    <2> QED BY <1>2, <2>1, RoleFrame DEF Grown, Sound
  <1>4. n \in Machine /\ n.free = {} /\ Sink(n.mem)
    BY <1>2 DEF Sunk
  <1>5. PICK r : Descend(Walk(n, 0, TRUE), i, "kernel_main") = Walk(r, 0, TRUE) /\ Sinks(n, r)
    BY <1>4, SinkStep
  <1>6. Sunk(a, r, t, j)
    BY <1>2, <1>3, <1>5, SunkFurther
  <1>7. Stuck(m, r, role)
    BY <1>2, <1>6 DEF Stuck
  <1> QED BY <1>5, <1>7

LEMMA DescentStuck ==
  ASSUME NEW m, NEW role, Sound(m, role), NEW c \in Frames, role[c] = 1, c # pml4_new,
         NEW page \in Pages, Room(m.free, 2), Spare(m.free, 3)
  PROVE  LET e == Descent(Walk(m, c, TRUE), page, "elf_load")
             k == Descent(Walk(m, c, TRUE), page, "kernel_main")
         IN  \/ e.ok = TRUE /\ k = e
             \/ e.ok = FALSE /\ \E n : k = Walk(n, 0, TRUE) /\ Stuck(m, n, role)
  <1> DEFINE p1 == Path(page)[1]
             p2 == Path(page)[2]
             p3 == Path(page)[3]
             w0 == Walk(m, c, TRUE)
             e1 == Descend(w0, p1, "elf_load")
             e2 == Descend(e1, p2, "elf_load")
             e3 == Descend(e2, p3, "elf_load")
             k1 == Descend(w0, p1, "kernel_main")
             k2 == Descend(k1, p2, "kernel_main")
             k3 == Descend(k2, p3, "kernel_main")
             e == Descent(w0, page, "elf_load")
             k == Descent(w0, page, "kernel_main")
  <1>0. p1 \in Index /\ p2 \in Index /\ p3 \in Index
    <2>1. page \in Nat
      BY TopDigit
    <2> QED BY <2>1, Paths
  <1>a. e = e3 /\ k = k3
    BY DEF Descent, Follow
  <1>b. \A n, p : Walk(n, p, FALSE).ok = FALSE /\ Walk(n, p, TRUE).ok = TRUE
    BY DEF Walk
  <1>c. 1 \in 1 .. 3 /\ 2 \in 1 .. 3 /\ 3 \in 1 .. 3 /\ 2 = 1 + 1 /\ 3 = 2 + 1 /\ 4 = 3 + 1 /\ 1 = 0 + 1 /\ 0 \in Nat /\ 1 \in Nat /\ 2 \in Nat
    OBVIOUS
  <1> SUFFICES \/ e.ok = TRUE /\ k = e
               \/ e.ok = FALSE /\ \E n : k = Walk(n, 0, TRUE) /\ Stuck(m, n, role)
    OBVIOUS
  <1> HIDE DEF e, k
  <1>d. ASSUME NEW b, NEW R, Sound(b, R), NEW x, R[x] # 1 PROVE x # pml4_new
    BY <1>d DEF Sound, Tree, Shared
  <1>1. NewInSight(m, 1, c, p1)
    <2>1. m.free # {} => Lowest(m) < SCRATCH /\ Lowest(m) # SCRATCH
      BY <1>c, RoomIs, SpareIs DEF Sound
    <2> QED BY <2>1 DEF NewInSight
  <1>2. Falls(m, c, p1, e1, k1) \/ GoesOn(m, role, 1, c, p1, e1, k1)
    BY <1>0, <1>1, <1>c, StepPair
  <1> HIDE DEF e1, k1
  <1>3. CASE Falls(m, c, p1, e1, k1)
    <2>a. m.mem[c][p1] = Absent /\ e1 = Walk(m, c, FALSE)
      BY <1>3 DEF Falls
    <2>1. PICK n : k1 = Walk(n, 0, TRUE) /\ Sunk(m, n, c, p1)
      BY <1>3 DEF Falls
    <2>2. Stuck(m, n, role)
      <3>1. Grown(m, m, role, role)
        BY GrownSelf
      <3>2. role[c] \in 1 .. 3
        BY <1>c
      <3> QED BY <1>0, <2>a, <2>1, <3>1, <3>2, StuckBy
    <2>3. PICK r : k2 = Walk(r, 0, TRUE) /\ Stuck(m, r, role)
      BY <1>0, <2>1, <2>2, SinkTwice
    <2>4. e2 = Walk(m, c, FALSE)
      BY <2>a, DescendFailed
    <2> HIDE DEF k2, e2
    <2>5. PICK s : k3 = Walk(s, 0, TRUE) /\ Stuck(m, s, role)
      BY <1>0, <2>3, SinkTwice
    <2>6. e3 = Walk(m, c, FALSE)
      BY <2>4, DescendFailed
    <2> HIDE DEF k3, e3
    <2>7. e.ok = FALSE
      BY <1>a, <1>b, <2>6
    <2> QED BY <1>a, <2>5, <2>7
  <1>4. CASE GoesOn(m, role, 1, c, p1, e1, k1)
    <2>1. PICK a, R, x : e1 = Walk(a, Pointer(x), TRUE) /\ Enters(m, a, role, R, 1, c, p1, x)
      BY <1>4 DEF GoesOn
    <2>a. k1 = e1
      BY <1>4 DEF GoesOn
    <2>2. /\ Grown(m, a, role, R) /\ Sound(a, R) /\ x \in Frames /\ R[x] = 2
          /\ a.free = m.free \/ (m.free # {} /\ a.free = m.free \ {Lowest(m)})
      BY <2>1, <1>c DEF Enters, Grown
    <2>3. x < SCRATCH /\ x # pml4_new
      <3>1. R[x] # 1
        BY <2>2
      <3>2. R[x] \in 1 .. 3
        BY <2>2
      <3>3. x # pml4_new
        BY <1>d, <2>2, <3>1
      <3> QED BY <2>2, <3>2, <3>3 DEF Sound, Tree, InSight
    <2>4. e1 = Walk(a, x, TRUE) /\ k1 = e1
      BY <2>a, <2>1, <2>2, <2>3, LowShows
    <2>b. m \in Machine /\ a \in Machine /\ Spare(a.free, 2)
      <3>1. m \in Machine /\ a \in Machine
        BY <2>2 DEF Sound
      <3> QED BY <1>c, <2>2, <3>1, SpareNext
    <2>5. NewInSight(a, 2, x, p2)
      <3>2. Room(a.free, 1)
        BY <1>c, <2>2, <2>b, RoomIs, RoomLess
      <3>3. a.free # {} => Lowest(a) < SCRATCH /\ Lowest(a) # SCRATCH
        BY <1>c, <2>b, <3>2, RoomIs, SpareIs
      <3> QED BY <3>3 DEF NewInSight
    <2>6. Falls(a, x, p2, e2, k2) \/ GoesOn(a, R, 2, x, p2, e2, k2)
      BY <1>0, <1>c, <2>2, <2>3, <2>4, <2>5, StepPair
    <2> HIDE DEF e2, k2
    <2>7. CASE Falls(a, x, p2, e2, k2)
      <3>a. a.mem[x][p2] = Absent /\ e2 = Walk(a, x, FALSE)
        BY <2>7 DEF Falls
      <3>1. PICK n : k2 = Walk(n, 0, TRUE) /\ Sunk(a, n, x, p2)
        BY <2>7 DEF Falls
      <3>2. Stuck(m, n, role)
        <4>1. R[x] \in 1 .. 3
          BY <2>2
        <4> QED BY <1>0, <2>2, <2>3, <3>a, <3>1, <4>1, StuckBy
      <3>5. PICK s : k3 = Walk(s, 0, TRUE) /\ Stuck(m, s, role)
        BY <1>0, <3>1, <3>2, SinkTwice
      <3>6. e3 = Walk(a, x, FALSE)
        BY <3>a, DescendFailed
      <3> HIDE DEF k3, e3
      <3>7. e.ok = FALSE
        BY <1>a, <1>b, <3>6
      <3> QED BY <1>a, <3>5, <3>7
    <2>8. CASE GoesOn(a, R, 2, x, p2, e2, k2)
      <3>1. PICK b, S, y : e2 = Walk(b, Pointer(y), TRUE) /\ Enters(a, b, R, S, 2, x, p2, y)
        BY <2>8 DEF GoesOn
      <3>a. k2 = e2
        BY <2>8 DEF GoesOn
      <3>2. /\ Grown(a, b, R, S) /\ Sound(b, S) /\ y \in Frames /\ S[y] = 3
            /\ b.free = a.free \/ (a.free # {} /\ b.free = a.free \ {Lowest(a)})
        BY <1>c, <3>1 DEF Enters, Grown
      <3>3. y < SCRATCH /\ y # pml4_new
        <4>1. S[y] \in 1 .. 3
          BY <3>2
        <4>2. S[y] # 1
          BY <3>2
        <4>3. y # pml4_new
          BY <1>d, <3>2, <4>2
        <4> QED BY <3>2, <4>1, <4>3 DEF Sound, Tree, InSight
      <3>4. e2 = Walk(b, y, TRUE) /\ k2 = e2
        BY <3>a, <3>1, <3>2, <3>3, LowShows
      <3>5. Grown(m, b, role, S)
        BY <2>2, <3>2, GrownTwice
      <3>6. Falls(b, y, p3, e3, k3) \/ GoesOn(b, S, 3, y, p3, e3, k3)
        <4>1. NewInSight(b, 3, y, p3)
          <5>1. b \in Machine /\ Spare(b.free, 1)
            BY <1>c, <2>b, <3>2, SpareNext DEF Sound
          <5>2. b.free # {} => Lowest(b) # SCRATCH
            BY <1>c, <5>1, SpareIs
          <5> QED BY <5>2 DEF NewInSight
        <4> QED BY <1>0, <1>c, <3>2, <3>3, <3>4, <4>1, StepPair
      <3> HIDE DEF e3, k3
      <3>7. CASE Falls(b, y, p3, e3, k3)
        <4>a. b.mem[y][p3] = Absent /\ e3 = Walk(b, y, FALSE)
          BY <3>7 DEF Falls
        <4>1. PICK n : k3 = Walk(n, 0, TRUE) /\ Sunk(b, n, y, p3)
          BY <3>7 DEF Falls
        <4>2. Stuck(m, n, role)
          <5>1. S[y] \in 1 .. 3
            BY <3>2
          <5> QED BY <1>0, <3>2, <3>3, <3>5, <4>a, <4>1, <5>1, StuckBy
        <4>3. e.ok = FALSE
          BY <1>a, <1>b, <4>a
        <4> QED BY <1>a, <4>1, <4>2, <4>3
      <3>8. CASE GoesOn(b, S, 3, y, p3, e3, k3)
        <4>1. PICK n, z : e3 = Walk(n, z, TRUE)
          BY <3>8 DEF GoesOn
        <4>2. e.ok = TRUE /\ k = e
          BY <1>a, <1>b, <3>8, <4>1 DEF GoesOn
        <4> QED BY <4>2
      <3> QED BY <3>6, <3>7, <3>8
    <2> QED BY <2>6, <2>7, <2>8
  <1> QED BY <1>2, <1>3, <1>4

(* The user stack's walk by elf_load or, past its failure, by kernel_main: *)
(* an entry i of a table t leads to frame 0, and frame 0 to f.             *)
Torn(m, r, role, j, f) ==
  \E a, new : \E t \in Frames, i \in Index :
    /\ Grown(m, a, role, new) /\ new[t] \in 1 .. 3 /\ t # pml4_new /\ a.mem[t][i] = Absent /\ a.free = {}
    /\ r \in Machine /\ r.free = {} /\ r.mem[t][i] = 0 /\ r.mem[0][j] = f
    /\ \A u \in Frames, n \in Index : u # 0 /\ ~(u = t /\ n = i) => r.mem[u][n] = a.mem[u][n]

LEMMA StuckTorn ==
  ASSUME NEW m, NEW n, NEW role, Stuck(m, n, role), NEW j \in Index, NEW f \in Frames,
         NEW r, r = Store(n, 0, j, f)
  PROVE  Torn(m, r, role, j, f)
  <1>1. PICK a, new : \E t \in Frames, i \in Index :
          /\ Grown(m, a, role, new) /\ new[t] \in 1 .. 3 /\ t # pml4_new /\ a.mem[t][i] = Absent /\ Sunk(a, n, t, i)
    BY DEF Stuck
  <1>2. PICK t \in Frames, i \in Index :
          /\ Grown(m, a, role, new) /\ new[t] \in 1 .. 3 /\ t # pml4_new /\ a.mem[t][i] = Absent /\ Sunk(a, n, t, i)
    BY <1>1
  <1>3. t # 0
    <2>1. new[t] # 6
      BY <1>2
    <2> QED BY <1>2, <2>1, RoleFrame DEF Grown, Sound
  <1>4. n \in Machine /\ n.free = {} /\ n.mem[t][i] = 0 /\ a.free = {}
    BY <1>2 DEF Sunk
  <1>5. 0 \in Frames /\ 0 < SCRATCH /\ f \in Entries
    <2>1. SCRATCH \in Nat /\ SCRATCH > 3 /\ 0 \in Frames
      BY Numbers
    <2>2. 0 < SCRATCH
      BY <2>1
    <2> QED BY <2>1, <2>2 DEF Entries
  <1>6. r \in Machine /\ Stored(n.mem, r.mem, 0, j, f) /\ r.free = n.free
    <2>1. Shows(n, 0) = 0
      BY <1>5, LowShows
    <2> QED BY <1>4, <1>5, <2>1, StoreStored
  <1>7. r.mem[0][j] = f /\ \A u \in Frames : u # 0 => r.mem[u] = n.mem[u]
    BY <1>6 DEF Stored
  <1>8. \A u \in Frames, k \in Index : u # 0 /\ ~(u = t /\ k = i) => r.mem[u][k] = a.mem[u][k]
    BY <1>2, <1>7 DEF Sunk
  <1>9. r.mem[t][i] = 0
    BY <1>3, <1>4, <1>7
  <1>10. r.free = {}
    BY <1>4, <1>6
  <1> QED BY <1>2, <1>4, <1>6, <1>7, <1>8, <1>9, <1>10 DEF Torn

StackMapped(m, e, k, role, page, f) ==
  \/ e.ok = TRUE /\ k = e
  \/ e.ok = FALSE /\ Torn(m, k.m, role, Path(page)[4], f)

LEMMA StackMapIs ==
  ASSUME NEW m, NEW role, Sound(m, role), NEW c \in Frames, role[c] = 1, c # pml4_new,
         NEW page \in Pages, Room(m.free, 2), Spare(m.free, 3), NEW f \in Frames,
         NEW e, e = MapIn(m, c, page, f, "elf_load"), NEW k, k = MapIn(m, c, page, f, "kernel_main")
  PROVE  StackMapped(m, e, k, role, page, f)
  <1> DEFINE v == Descent(Walk(m, c, TRUE), page, "elf_load")
             u == Descent(Walk(m, c, TRUE), page, "kernel_main")
             i == Path(page)[4]
  <1>0. i \in Index
    <2>1. page \in Nat
      BY TopDigit
    <2> QED BY <2>1, Paths
  <1>1. /\ e = IF v.ok THEN [v EXCEPT !.m = Store(v.m, v.p, i, f)] ELSE v
        /\ k = IF u.ok THEN [u EXCEPT !.m = Store(u.m, u.p, i, f)] ELSE u
    BY DEF MapIn, Descent, Walk
  <1>2. \/ v.ok = TRUE /\ u = v
        \/ v.ok = FALSE /\ \E n : u = Walk(n, 0, TRUE) /\ Stuck(m, n, role)
    BY DescentStuck
  <1>a. v.ok = TRUE => DOMAIN v = {"m", "p", "ok"}
    <2>1. (Room(m.free, 2) \/ InDirectory(page)) /\ Open(c, Path(page)[1])
      BY DEF Open
    <2>2. "elf_load" \in Callers
      BY DEF Callers
    <2>3. Fails(v, m, role) \/ Comes(v, m, role, c, page)
      BY <2>1, <2>2, DescentIs
    <2> HIDE DEF v
    <2>4. \E n, p, ok : v = Walk(n, p, ok)
      BY <2>3 DEF Fails, Comes
    <2> QED BY <2>4 DEF Walk
  <1> HIDE DEF v, u, i
  <1>3. CASE v.ok = TRUE /\ u = v
    <2> DEFINE s == Store(v.m, v.p, i, f)
    <2>1. e = [v EXCEPT !.m = s] /\ k = e
      BY <1>1, <1>3
    <2> HIDE DEF s
    <2>2. e.ok = TRUE
      BY <1>3, <1>a, <2>1
    <2> QED BY <2>1, <2>2 DEF StackMapped
  <1>4. CASE v.ok = FALSE /\ \E n : u = Walk(n, 0, TRUE) /\ Stuck(m, n, role)
    <2>1. PICK n : u = Walk(n, 0, TRUE) /\ Stuck(m, n, role)
      BY <1>4
    <2>2. u.ok = TRUE /\ u.m = n /\ u.p = 0 /\ DOMAIN u = {"m", "p", "ok"}
      BY <2>1 DEF Walk
    <2> DEFINE s == Store(n, 0, i, f)
    <2>3. k = [u EXCEPT !.m = s]
      BY <1>1, <2>2
    <2>4. Torn(m, s, role, i, f)
      BY <1>0, <2>1, StuckTorn
    <2> HIDE DEF s
    <2>5. k.m = s
      BY <2>2, <2>3
    <2>6. e.ok = FALSE
      BY <1>1, <1>4
    <2> QED BY <2>4, <2>5, <2>6 DEF i, StackMapped
  <1> QED BY <1>2, <1>3, <1>4

(* Pages mapped before are still found.                                    *)
LEMMA KeptWalk ==
  ASSUME NEW M, NEW role, Tree(M, role), NEW L, Keeps(M, L, role), NEW c \in Frames, role[c] = 1,
         NEW page \in Pages, Translate(M, c, page) # Absent
  PROVE  Translate(L, c, page) = Translate(M, c, page)
  <1>0. page \in Nat
    BY TopDigit
  <1> DEFINE a == Look(M, c, Path(page)[1])
             b == Look(M, a, Path(page)[2])
             d == Pt(M, c, page)
  <1>1. ASSUME NEW l \in 1 .. 4, NEW x, Level(role, l, x), NEW i \in Index, Look(M, x, i) # Absent
        PROVE  Look(L, x, i) = Look(M, x, i)
    BY <1>1 DEF Look, Level, Keeps
  <1>2. Level(role, 1, c) /\ 1 \in 1 .. 4 /\ 2 \in 1 .. 4 /\ 3 \in 1 .. 4 /\ 4 \in 1 .. 4
    BY DEF Level
  <1>3. Level(role, 2, a) /\ Level(role, 3, b) /\ Level(role, 4, d)
    BY <1>0, WalkLevels
  <1>4. /\ Path(page)[1] \in Index /\ Path(page)[2] \in Index /\ Path(page)[3] \in Index /\ Path(page)[4] \in Index
    BY <1>0, Paths
  <1>5. Look(M, d, Path(page)[4]) # Absent
    BY TranslateIs
  <1>6. d # Absent /\ d = Look(M, b, Path(page)[3])
    BY <1>5 DEF Look, Pt
  <1>7. b # Absent
    BY <1>6 DEF Look
  <1>8. a # Absent
    BY <1>7 DEF Look
  <1>9. Look(L, c, Path(page)[1]) = a
    BY <1>1, <1>2, <1>4, <1>8
  <1>10. Look(L, a, Path(page)[2]) = b
    BY <1>1, <1>2, <1>3, <1>4, <1>7
  <1>11. Look(L, b, Path(page)[3]) = d
    BY <1>1, <1>2, <1>3, <1>4, <1>6
  <1>12. Look(L, d, Path(page)[4]) = Look(M, d, Path(page)[4])
    BY <1>1, <1>2, <1>3, <1>4, <1>5
  <1>13. Pt(L, c, page) = d
    BY <1>9, <1>10, <1>11 DEF Pt
  <1> QED BY <1>12, <1>13, TranslateIs

LEMMA TornKeeps ==
  ASSUME NEW m, NEW r, NEW role, NEW j, NEW f, Sound(m, role), Torn(m, r, role, j, f)
  PROVE  r \in Machine /\ r.free = {} /\ Keeps(m.mem, r.mem, role)
  <1>1. PICK a, new : \E t \in Frames, i \in Index :
          /\ Grown(m, a, role, new) /\ a.mem[t][i] = Absent
          /\ r \in Machine /\ r.free = {}
          /\ \A u \in Frames, n \in Index : u # 0 /\ ~(u = t /\ n = i) => r.mem[u][n] = a.mem[u][n]
    BY DEF Torn
  <1>2. PICK t \in Frames, i \in Index :
          /\ Grown(m, a, role, new) /\ a.mem[t][i] = Absent
          /\ r \in Machine /\ r.free = {}
          /\ \A u \in Frames, n \in Index : u # 0 /\ ~(u = t /\ n = i) => r.mem[u][n] = a.mem[u][n]
    BY <1>1
  <1>3. ASSUME NEW u \in Frames, NEW n \in Index, role[u] \in 1 .. 4, m.mem[u][n] # Absent
        PROVE  r.mem[u][n] = m.mem[u][n]
    <2>1. a.mem[u][n] = m.mem[u][n]
      BY <1>2, <1>3 DEF Grown, Keeps
    <2>2. role[u] # 6
      BY <1>3
    <2>3. u # 0
      BY <2>2, RoleFrame DEF Sound
    <2> QED BY <1>2, <1>3, <2>1, <2>3
  <1> QED BY <1>2, <1>3 DEF Keeps

-----------------------------------------------------------------------------
(* What is left of the invariant then: frames have run out, and all pages  *)
(* but that of the stack are still mapped as callers were told.            *)
Still(M, S, g, page) ==
  \A d \in S \cup {pml4_new}, q \in Pages :
    q # page /\ Told(g, d, q) # Absent => Translate(M, d, q) = Told(g, d, q)
Worn(m, S, g, page) ==
  /\ m \in Machine /\ m.free = {} /\ S \subseteq Frames \ {0} /\ Keyed(S, g) /\ Still(m.mem, S, g, page)

(* An account of all frames: in use, free, never used and not of R, or     *)
(* lost.  After a walk that got stuck, the frame of the page is lost to the*)
(* tables before the step, and the step put it into frame 0.               *)
Accounted(m, role, R, lost) ==
  \A x \in Frames : Kept(m, role, x) \/ (x \notin R /\ role[x] = 6) \/ (x = lost /\ role[x] = 0)
Wrecked(r, S, R) ==
  \E m, role, j, f :
    /\ Sound(m, role) /\ Roots(S, role) /\ f \in Frames \ m.free /\ role[f] = 0 /\ j \in Index
    /\ Accounted(m, role, R, f) /\ Torn(m, r, role, j, f)
Wrecks(m, role, r, S) == \A R : Accounted(m, role, R, Absent) => Wrecked(r, S, R)

Sheds(m, z, role, f) == \A x \in Frames : Kept(m, role, x) => Kept(z, role, x) \/ x = f

LEMMA CleanIs ==
  ASSUME NEW m, NEW S, NEW g, NEW role, Good(m, S, g, role), NEW f, f = Lowest(m), f # 0,
         NEW c \in S, Room(m.free, 3), Spare(m.free, 4),
         NEW z, z = Zero(virt_for_phys(Taken(m), f), Pointer(f))
  PROVE  /\ Good(z, S, g, role) /\ Pointer(c) = c /\ virt_for_phys(z, c) = z
         /\ c \in Frames /\ role[c] = 1 /\ c # pml4_new /\ f \in Frames \ {0} /\ role[f] = 0 /\ f \notin z.free
         /\ Room(z.free, 2) /\ Spare(z.free, 3)
         /\ Sheds(m, z, role, f)
  <1> DEFINE n == Taken(m)
             v == virt_for_phys(n, f)
  <1>b. n.mem = m.mem /\ n.free = m.free \ {f}
    BY Fresh
  <1>1. /\ Good(n, S, g, role) /\ n \in Machine /\ f \in Frames \ {0} /\ role[f] = 0 /\ f # SCRATCH
        /\ f \notin n.free /\ Room(n.free, 2) /\ Spare(n.free, 3)
    BY Fresh
  <1> HIDE DEF n
  <1>2. v \in Machine /\ v.mem = n.mem /\ v.free = n.free /\ Shows(v, Pointer(f)) = f
    BY <1>1, VirtIs
  <1>3. z = Zero(v, Pointer(f))
    BY DEF v, n
  <1> HIDE DEF v
  <1>4. z \in Machine /\ z.mem = Clear(n.mem, f) /\ z.free = n.free
    <2>1. Pointer(f) \in Frames
      BY <1>1, PointerIs
    <2> QED BY <1>2, <1>3, <2>1, ZeroIs
  <1>5. Good(z, S, g, role)
    <2>1. role[f] \notin 1 .. 4
      BY <1>1
    <2> QED BY <1>1, <1>4, <2>1, ClearedGood
  <1>6. c \in Frames /\ role[c] = 1 /\ c < SCRATCH /\ c # pml4_new
    <2>1. c \in S \cup {pml4_new}
      OBVIOUS
    <2>2. c \in Frames /\ role[c] = 1 /\ Tree(m.mem, role) /\ c # pml4_new
      BY <2>1, RootRoles
    <2>3. role[c] \in 1 .. 3
      BY <2>2
    <2> QED BY <2>2, <2>3 DEF Tree, InSight
  <1>7. Pointer(c) = c /\ virt_for_phys(z, c) = z
    BY <1>6, LowShows
  <1>8. ASSUME NEW x \in Frames, Kept(m, role, x), x # f PROVE Kept(z, role, x)
    <2>1. CASE x \in m.free
      BY <1>4, <1>8, <1>b, <2>1 DEF Kept
    <2>2. CASE Hangs(m.mem, role, x)
      <3>1. Keeps(m.mem, z.mem, role)
        <4> SUFFICES ASSUME NEW t \in Frames, NEW i \in Index, role[t] \in 1 .. 4 PROVE z.mem[t][i] = m.mem[t][i]
          BY DEF Keeps
        <4>1. t # f
          BY <1>1
        <4>2. m.mem \in Tables
          BY DEF Good, Sound, Tree
        <4> QED BY <1>4, <1>b, <4>1, <4>2 DEF Clear, Tables
      <3> QED BY <2>2, <3>1, HangsOn DEF Kept
    <2> QED BY <1>8, <2>1, <2>2 DEF Kept
  <1>9. Sheds(m, z, role, f)
    BY <1>8 DEF Sheds
  <1> QED BY <1>1, <1>4, <1>5, <1>6, <1>7, <1>9

LEMMA WornIs ==
  ASSUME NEW m, NEW S, NEW g, NEW role, Good(m, S, g, role), NEW c \in S, NEW page \in Pages, ~KernelPage(page),
         NEW f \in Frames \ {0}, NEW r, NEW j, Torn(m, r, role, j, f)
  PROVE  Worn(r, S, With(g, <<c, page>>, f), page)
  <1> DEFINE k == <<c, page>>
             h == With(g, k, f)
  <1>1. r \in Machine /\ r.free = {} /\ Keeps(m.mem, r.mem, role)
    BY TornKeeps DEF Good
  <1>2. S \subseteq Frames \ {0}
    <2> SUFFICES ASSUME NEW d \in S PROVE d \in Frames /\ d # 0
      OBVIOUS
    <2>1. d \in S \cup {pml4_new}
      OBVIOUS
    <2>2. d \in Frames /\ role[d] = 1 /\ Tree(m.mem, role)
      BY <2>1, RootRoles
    <2>3. role[d] # 6
      BY <2>2
    <2> QED BY <2>2, <2>3, RoleFrame
  <1>3. k \in Frames \X Pages /\ k[1] = c /\ k[2] = page
    BY <1>2
  <1> HIDE DEF k
  <1>4. /\ DOMAIN h = DOMAIN g \cup {k} /\ h[k] = f
        /\ \A x \in DOMAIN g : x # k => h[x] = g[x]
    BY DEF With
  <1> HIDE DEF h
  <1>5. Keyed(S, h)
    BY <1>3, <1>4 DEF Keyed, Good, Proper
  <1>6. Still(r.mem, S, h, page)
    <2> SUFFICES ASSUME NEW d \in S \cup {pml4_new}, NEW q \in Pages, q # page, Told(h, d, q) # Absent
                 PROVE  Translate(r.mem, d, q) = Told(h, d, q)
      BY DEF Still
    <2> DEFINE e == <<IF KernelPage(q) THEN pml4_new ELSE d, q>>
    <2>1. Told(h, d, q) = IF e \in DOMAIN h THEN h[e] ELSE Absent
      BY DEF Told
    <2>2. Told(g, d, q) = IF e \in DOMAIN g THEN g[e] ELSE Absent
      BY DEF Told
    <2>3. e # k
      BY <1>3
    <2> HIDE DEF e
    <2>4. Told(h, d, q) = Told(g, d, q)
      BY <1>4, <2>1, <2>2, <2>3
    <2>5. Translate(m.mem, d, q) = Told(g, d, q)
      BY DEF Good, Faithful
    <2>6. d \in Frames /\ role[d] = 1 /\ Tree(m.mem, role)
      BY RootRoles
    <2>7. Translate(m.mem, d, q) # Absent
      BY <2>4, <2>5
    <2>8. Translate(r.mem, d, q) = Translate(m.mem, d, q)
      BY <1>1, <2>6, <2>7, KeptWalk
    <2> QED BY <2>4, <2>5, <2>8
  <1> QED BY <1>1, <1>2, <1>5, <1>6 DEF Worn, h, k

LEMMA StackGood ==
  ASSUME NEW m, NEW S, NEW g, NEW role, Good(m, S, g, role), NEW f, f = Lowest(m), f # 0,
         NEW c \in S, NEW page \in Pages, ~KernelPage(page), Room(m.free, 3), Spare(m.free, 4),
         NEW z, z = Zero(virt_for_phys(Taken(m), f), Pointer(f)),
         NEW w, w = MapIn(virt_for_phys(z, c), Pointer(c), page, f, "kernel_main")
  PROVE  \/ Saves(m, role, w.m, S, With(g, <<c, page>>, f), Translate(m.mem, c, page), Absent)
         \/ Worn(w.m, S, With(g, <<c, page>>, f), page) /\ Wrecks(m, role, w.m, S)
  <1>0. /\ Good(z, S, g, role) /\ Pointer(c) = c /\ virt_for_phys(z, c) = z
        /\ c \in Frames /\ role[c] = 1 /\ c # pml4_new /\ f \in Frames \ {0} /\ role[f] = 0 /\ f \notin z.free
        /\ Room(z.free, 2) /\ Spare(z.free, 3)
        /\ Sheds(m, z, role, f)
    BY CleanIs
  <1>1. /\ Good(z, S, g, role) /\ Pointer(c) = c /\ virt_for_phys(z, c) = z
        /\ c \in Frames /\ role[c] = 1 /\ c # pml4_new /\ f \in Frames \ {0} /\ role[f] = 0 /\ f \notin z.free
        /\ Room(z.free, 2) /\ Spare(z.free, 3)
    BY <1>0, Zenon
  <1>b. Sheds(m, z, role, f)
    BY <1>0, Zenon
  <1> DEFINE e == MapIn(z, c, page, f, "elf_load")
  <1>2. w = MapIn(z, c, page, f, "kernel_main") /\ Sound(z, role)
    BY <1>1 DEF Good
  <1>a. e = MapIn(z, c, page, f, "elf_load") /\ f \in Frames
    BY <1>1
  <1> HIDE DEF e
  <1>3. \/ e.ok = TRUE /\ w = e
        \/ e.ok = FALSE /\ Torn(z, w.m, role, Path(page)[4], f)
    <2>1. StackMapped(z, e, w, role, page, f)
      BY <1>1, <1>2, <1>a, StackMapIs
    <2> QED BY <2>1 DEF StackMapped
  <1>4. CASE e.ok = TRUE /\ w = e
    <2>1. e = MapIn(virt_for_phys(z, c), Pointer(c), page, f, "elf_load")
      BY <1>1, <1>a
    <2>2. \/ e.ok = TRUE /\ Saves(m, role, e.m, S, With(g, <<c, page>>, f), Translate(m.mem, c, page), Absent)
          \/ e.ok = FALSE /\ Saves(m, role, e.m, S, g, Absent, f)
      BY <2>1, ElfSaves
    <2> QED BY <1>4, <2>2
  <1>5. CASE e.ok = FALSE /\ Torn(z, w.m, role, Path(page)[4], f)
    <2> DEFINE j == Path(page)[4]
               r == w.m
    <2>1. Torn(z, r, role, j, f)
      BY <1>5
    <2> HIDE DEF j, r
    <2>2. Worn(r, S, With(g, <<c, page>>, f), page)
      BY <1>1, <2>1, WornIs
    <2>3. j \in Index
      <3>1. page \in Nat
        BY TopDigit
      <3> QED BY <3>1, Paths DEF j
    <2>4. ASSUME NEW R, Accounted(m, role, R, Absent) PROVE Wrecked(r, S, R)
      <3>1. ASSUME NEW x \in Frames
            PROVE  Kept(z, role, x) \/ (x \notin R /\ role[x] = 6) \/ (x = f /\ role[x] = 0)
        <4>1. Kept(m, role, x) \/ (x \notin R /\ role[x] = 6)
          BY <2>4, Numbers DEF Accounted
        <4> QED BY <1>1, <1>b, <4>1 DEF Sheds
      <3>2. Accounted(z, role, R, f)
        BY <3>1 DEF Accounted
      <3>3. Roots(S, role) /\ f \in Frames \ z.free
        BY <1>1 DEF Good
      <3> QED BY <1>1, <1>2, <2>1, <2>3, <3>2, <3>3 DEF Wrecked
    <2> QED BY <2>2, <2>4 DEF r, Wrecks
  <1> QED BY <1>3, <1>4, <1>5

-----------------------------------------------------------------------------
(* kernel_main.  Its variables,                                            *)
Places == {"heap", "idle", "thread a", "thread b", "space", "load", "stack", "user task", "up"}
BootVars ==
  /\ pc \in Places /\ left \in -1 .. HeapInitPages /\ heap_ok \in BOOLEAN
  /\ cr3 \in spaces \cup {0} /\ (rc # "none" => cr3 \in spaces)
  /\ pc \in {"load", "stack"} => rc # "none"
  /\ rc \in {"none", "loading", "ok", "failed"}
  /\ image \in Images /\ seg \in Nat \ {0} /\ done \in Nat
  /\ data \in [Frames -> [Bytes -> Junk .. image.size]]

(* the heap, whose first n pages hold the kernel stacks made so far, one   *)
(* behind the other; while it is extended for a stack, they are in the     *)
(* pages that were there before;                                           *)
Extending == pc \in {"thread a", "thread b", "user task"} \/ (pc = "idle" /\ heap_ok = FALSE)
Fits(S, n) ==
  \A t \in DOMAIN S :
    \/ t = "idle" /\ S[t] = NULL
    \/ S[t] \in Nat /\ HEAP_START <= S[t] /\ S[t] + StackPages <= HEAP_START + n
Lined(S) ==
  \A t, u \in DOMAIN S :
    t # u /\ S[t] # NULL /\ S[u] # NULL => S[t] + StackPages <= S[u] \/ S[u] + StackPages <= S[t]
StackRoom ==
  /\ Fits(stacks, heap_pages) /\ Lined(stacks)
  /\ pc \in {"heap", "idle"} => DOMAIN stacks = {}
  /\ "user task" \in DOMAIN stacks => pc = "up"
  /\ pc = "heap" => (left >= 0 => heap_pages = HeapInitPages - left)
  /\ pc = "idle" /\ heap_ok = TRUE => left = 0 /\ heap_pages >= StackPages
  /\ Extending => /\ left <= StackPages
                  /\ left >= 0 => /\ heap_pages >= StackPages - left
                                  /\ Fits(stacks, heap_pages - (StackPages - left))
  /\ pc \in {"space", "load", "stack", "up"} => left = 0
HeapMapped == \A n \in 0 .. heap_pages - 1 : <<pml4_new, HEAP_START + n>> \in DOMAIN given

(* and the page tables: sound, or frames have run out in the walk for the  *)
(* user stack, in which case there is and will be no user task.            *)
Alive == \E role : Good(machine, spaces, given, role)
Broken ==
  /\ Worn(machine, spaces, given, STACK_PAGE)
  /\ pc \in {"user task", "up"} /\ "user task" \notin DOMAIN stacks /\ (pc = "user task" => left # 0)
BInv == Counts /\ BootVars /\ StackRoom /\ HeapMapped /\ (Alive \/ Broken)

LEMMA BootNumbers ==
  /\ HeapInitPages \in Nat /\ StackPages \in Nat /\ StackPages > 0 /\ HeapInitPages >= StackPages
  /\ HEAP_START \in Nat /\ HEAP_START > 0 /\ HeapPages \in Nat
  /\ STACK_PAGE \in Pages /\ ~KernelPage(STACK_PAGE)
  <1>1. /\ HEAP_START \in Nat /\ HEAP_START >= KERNEL_ENTRY * PagesPerEntry /\ HeapPages \in Nat
    BY PagingAssumption DEF KernelPage
  <1>2. KERNEL_ENTRY * PagesPerEntry > 0
    <2>1. N \in Nat /\ N >= 2 /\ K \in Nat /\ K = N - 1
      BY Numbers
    <2>2. N * N * N >= 1
      <3>1. N * N \in Nat /\ N * N >= 1
        BY <2>1
      <3> QED BY <2>1, <3>1
    <2>3. N * N * N \in Nat
      BY <2>1
    <2> DEFINE e == N * N * N
    <2>4. e \in Nat /\ e >= 1 /\ K >= 1
      BY <2>1, <2>2, <2>3
    <2> HIDE DEF e
    <2>5. K * e > 0
      BY <2>1, <2>4
    <2> QED BY <2>5 DEF e, PagesPerEntry, K, N
  <1>3. HEAP_START > 0
    <2> DEFINE b == KERNEL_ENTRY * PagesPerEntry
    <2>1. b > 0 /\ HEAP_START >= b /\ b \in Int
      <3>1. KERNEL_ENTRY \in Int /\ PagesPerEntry \in Int
        BY Numbers DEF K, N, PagesPerEntry
      <3>2. b \in Int
        BY <3>1
      <3> QED BY <1>1, <1>2, <3>2
    <2> HIDE DEF b
    <2> QED BY <1>1, <2>1
  <1> QED BY <1>1, <1>3, BootAssumption

(* A heap page is mapped, or not.                                          *)
Extends(n) ==
  /\ n \in 0 .. HeapPages
  /\ \/ heap_pages' = heap_pages /\ given' = given
     \/ /\ heap_pages' = heap_pages + 1 
        /\ DOMAIN given' = DOMAIN given \cup {<<pml4_new, HEAP_START + heap_pages>>}
        /\ \A k \in DOMAIN given : k[1] # pml4_new => given'[k] = given[k]

LEMMA ExtendIs ==
  ASSUME heap_extend, Counts
  PROVE  /\ Extends(heap_pages) /\ Lowest(machine) # 0 /\ spaces' = spaces
  <1> DEFINE k == <<pml4_new, HEAP_START + heap_pages>>
             f == Lowest(machine)
  <1>1. /\ f # 0 /\ spaces' = spaces
        /\ \/ heap_pages' = heap_pages + 1 /\ given' = With(given, k, f)
           \/ heap_pages' = heap_pages /\ given' = given
    BY DEF heap_extend
  <1>2. k[1] = pml4_new
    OBVIOUS
  <1> HIDE DEF k, f
  <1>3. /\ DOMAIN With(given, k, f) = DOMAIN given \cup {k}
        /\ \A x \in DOMAIN given : x[1] # pml4_new => With(given, k, f)[x] = given[x]
    BY <1>2 DEF With
  <1> QED BY <1>1, <1>3 DEF Extends, k, f, Counts

-----------------------------------------------------------------------------
(* What elf_load computes: the pages of a segment, all below the user stack,*)
LEMMA TwoOf ==
  ASSUME NEW a \in Int, NEW b \in Int
  PROVE  /\ Max({a, b}) = IF a >= b THEN a ELSE b
         /\ Min({a, b}) = IF a <= b THEN a ELSE b
  <1>1. PICK x \in {a, b} : \A y \in {a, b} : x >= y
    OBVIOUS
  <1>2. PICK z \in {a, b} : \A y \in {a, b} : z <= y
    OBVIOUS
  <1>3. Max({a, b}) \in {a, b} /\ \A y \in {a, b} : Max({a, b}) >= y
    BY <1>1 DEF Max
  <1>4. Min({a, b}) \in {a, b} /\ \A y \in {a, b} : Min({a, b}) <= y
    BY <1>2 DEF Min
  <1> QED BY <1>3, <1>4

LEMMA HeaderIs ==
  ASSUME image \in Images, NEW i \in DOMAIN image.phdrs
  PROVE  /\ image.phdrs[i] \in ProgramHeader /\ image.size \in Nat
         /\ image.phdrs[i].p_vaddr \in Nat /\ image.phdrs[i].p_memsz \in Nat
         /\ image.phdrs[i].p_offset \in Nat /\ image.phdrs[i].p_filesz \in Nat
         /\ image.phdrs[i].p_vaddr + image.phdrs[i].p_memsz <= STACK_PAGE * PMM_FRAME_SIZE
  <1>1. image \in ElfImage
    BY BootAssumption
  <1>2. image.phdrs \in Seq(ProgramHeader) /\ image.size \in Nat
    BY <1>1 DEF ElfImage
  <1>3. image.phdrs[i] \in ProgramHeader
    BY <1>2
  <1>4. image.phdrs[i].p_vaddr + image.phdrs[i].p_memsz <= STACK_PAGE * PMM_FRAME_SIZE
    BY BootAssumption
  <1> DEFINE p == image.phdrs[i]
  <1>5. p \in ProgramHeader
    BY <1>3
  <1> HIDE DEF p
  <1>6. p.p_vaddr \in Nat /\ p.p_memsz \in Nat /\ p.p_offset \in Nat /\ p.p_filesz \in Nat
    BY <1>5 DEF ProgramHeader
  <1> QED BY <1>2, <1>3, <1>4, <1>6 DEF p

PageEnd(e) == ((e + PMM_FRAME_SIZE - 1) % ADDRESSES) \div PMM_FRAME_SIZE
LEMMA PageEndIs ==
  ASSUME NEW e \in Nat, e <= STACK_PAGE * PMM_FRAME_SIZE
  PROVE  /\ PageEnd(e) \in Nat /\ PageEnd(e) <= STACK_PAGE
         /\ \A k \in Nat : PageEnd(e) >= k <=> e + PMM_FRAME_SIZE - 1 >= k * PMM_FRAME_SIZE
  <1> DEFINE s == PMM_FRAME_SIZE
             x == e + s - 1
             T == PAGE_TABLE_ENTRIES * PagesPerEntry
             d == x \div s
  <1>1. s \in Nat \ {0} /\ ADDRESSES \in Nat
    BY Limits
  <1>2. STACK_PAGE \in Nat /\ STACK_PAGE + 1 <= T /\ T \in Nat
    <2>1. T \in Int
      <3>1. PAGE_TABLE_ENTRIES \in Nat
        BY Numbers DEF N
      <3>2. PagesPerEntry \in Nat
        BY <3>1 DEF PagesPerEntry
      <3> QED BY <3>1, <3>2
    <2>2. STACK_PAGE \in 0 .. T - 1
      BY BootNumbers DEF Pages
    <2> HIDE DEF T
    <2> QED BY <2>1, <2>2
  <1>3. ADDRESSES = T * s
    BY DEF ADDRESSES
  <1> HIDE DEF T, s
  <1>4. x \in Nat /\ x < (STACK_PAGE + 1) * s
    BY <1>1, <1>2 DEF s
  <1>5. (STACK_PAGE + 1) * s <= T * s
    BY <1>1, <1>2
  <1>6. x < ADDRESSES
    BY <1>1, <1>2, <1>3, <1>4, <1>5
  <1> HIDE DEF x
  <1>7. x % ADDRESSES = x
    BY <1>1, <1>4, <1>6
  <1>8. PageEnd(e) = d
    BY <1>7 DEF PageEnd, x, s
  <1>9. d \in Nat /\ \A k \in Nat : d >= k <=> x >= k * s
    BY <1>1, <1>4, Quotients
  <1> HIDE DEF d
  <1>10. ~(d >= STACK_PAGE + 1)
    BY <1>1, <1>2, <1>4, <1>9
  <1> QED BY <1>2, <1>8, <1>9, <1>10 DEF x, s

LEMMA BelowStack ==
  ASSUME NEW page \in Nat, page < STACK_PAGE
  PROVE  page \in Pages /\ ~KernelPage(page)
  <1>7. STACK_PAGE \in Nat /\ STACK_PAGE \in Pages /\ ~KernelPage(STACK_PAGE)
    BY BootNumbers, TopDigit
  <1>9. KERNEL_ENTRY * PagesPerEntry \in Int /\ PAGE_TABLE_ENTRIES * PagesPerEntry \in Int
    <2>1. PAGE_TABLE_ENTRIES \in Nat /\ KERNEL_ENTRY \in Nat
      BY Numbers DEF N, K
    <2>2. PagesPerEntry \in Nat
      BY <2>1 DEF PagesPerEntry
    <2> QED BY <2>1, <2>2
  <1> DEFINE A == PAGE_TABLE_ENTRIES * PagesPerEntry
             B == KERNEL_ENTRY * PagesPerEntry
  <1>10. A \in Int /\ B \in Int /\ STACK_PAGE \in 0 .. A - 1 /\ ~(STACK_PAGE >= B)
    BY <1>7, <1>9 DEF Pages, KernelPage
  <1> HIDE DEF A, B
  <1>11. page \in 0 .. A - 1 /\ ~(page >= B)
    BY <1>7, <1>10
  <1> QED BY <1>11 DEF A, B, Pages, KernelPage

LEMMA LoadsIs ==
  ASSUME BootVars, Loads
  PROVE  /\ seg \in DOMAIN image.phdrs /\ va \in Pages /\ ~KernelPage(va) /\ va < STACK_PAGE
         /\ va \in Nat /\ va < va_end
  <1>1. image \in Images /\ seg \in Nat \ {0} /\ done \in Nat /\ seg <= Len(image.phdrs) /\ va < va_end
    BY DEF BootVars, Loads
  <1>2. seg \in DOMAIN image.phdrs
    <2>1. image \in ElfImage
      BY <1>1, BootAssumption
    <2>2. image.phdrs \in Seq(ProgramHeader)
      BY <2>1 DEF ElfImage
    <2> QED BY <1>1, <2>2
  <1>3. ph.p_vaddr \in Nat /\ ph.p_memsz \in Nat /\ ph.p_vaddr + ph.p_memsz <= STACK_PAGE * PMM_FRAME_SIZE
    BY <1>1, <1>2, HeaderIs DEF ph
  <1>4. va_end = PageEnd(ph.p_vaddr + ph.p_memsz)
    BY DEF va_end, PageEnd
  <1>5. va_end \in Nat /\ va_end <= STACK_PAGE
    BY <1>3, <1>4, PageEndIs
  <1>6. va \in Nat
    <2>1. ph.p_vaddr \div PMM_FRAME_SIZE \in Nat
      BY <1>3, Limits, Quotients
    <2> QED BY <1>1, <2>1 DEF va
  <1>7. STACK_PAGE \in Nat /\ STACK_PAGE \in Pages /\ ~KernelPage(STACK_PAGE)
    BY BootNumbers, TopDigit
  <1>8. va < STACK_PAGE
    BY <1>1, <1>5, <1>6, <1>7
  <1> QED BY <1>1, <1>2, <1>6, <1>8, BelowStack

(* and the bytes of each.                                                  *)
FilledAt(p, page, size) ==
  LET addr == page * PMM_FRAME_SIZE
      start == Max({addr, p.p_vaddr})
      end == Min({addr + PMM_FRAME_SIZE, p.p_vaddr + p.p_filesz})
      file_off == p.p_offset + start - p.p_vaddr
      avail == IF file_off < size THEN size - file_off ELSE 0
      cpy == Min({end - start, avail})
  IN  [b \in Bytes |-> IF addr < p.p_vaddr + p.p_filesz /\ b < cpy THEN file_off + b + 1 ELSE 0]

LEMMA FilledIs ==
  Filled = FilledAt(ph, va, image.size)
  BY DEF Filled, FilledAt

LEMMA FilledByte ==
  ASSUME NEW p, NEW v \in Nat, v = p.p_vaddr, NEW o \in Nat, o = p.p_offset, NEW z \in Nat, z = p.p_filesz,
         NEW page \in Nat, NEW size \in Nat, NEW b \in Bytes
  PROVE  /\ FilledAt(p, page, size)[b] \in Junk .. size
         /\ v <= page * PMM_FRAME_SIZE =>
              LET k == page * PMM_FRAME_SIZE + b - v
              IN  FilledAt(p, page, size)[b] = IF k < z /\ o + k < size THEN o + k + 1 ELSE 0
  <1> DEFINE s == PMM_FRAME_SIZE
             addr == page * s
             start == Max({addr, v})
             end == Min({addr + s, v + z})
             file_off == o + start - v
             avail == IF file_off < size THEN size - file_off ELSE 0
             cpy == Min({end - start, avail})
             r == IF addr < v + z /\ b < cpy THEN file_off + b + 1 ELSE 0
             k == addr + b - v
  <1>1. FilledAt(p, page, size)[b] = r
    BY DEF FilledAt
  <1>2. s \in Nat \ {0} /\ b \in Nat /\ b < s
    BY Limits DEF Bytes
  <1>3. addr \in Nat
    BY <1>2
  <1> SUFFICES /\ r \in Junk .. size
               /\ v <= addr => r = IF k < z /\ o + k < size THEN o + k + 1 ELSE 0
    BY <1>1
  <1> HIDE DEF addr, s
  <1>4. start = IF addr >= v THEN addr ELSE v
    BY <1>3, TwoOf
  <1>5. end = IF addr + s <= v + z THEN addr + s ELSE v + z
    <2>1. addr + s \in Int /\ v + z \in Int
      BY <1>2, <1>3
    <2> QED BY <2>1, TwoOf
  <1> HIDE DEF start, end
  <1>6. start \in Nat /\ end \in Int /\ file_off \in Int /\ avail \in Nat
    BY <1>2, <1>3, <1>4, <1>5
  <1>7. cpy = IF end - start <= avail THEN end - start ELSE avail
    <2>1. end - start \in Int /\ avail \in Int
      BY <1>6
    <2> HIDE DEF avail
    <2> QED BY <2>1, TwoOf
  <1> HIDE DEF cpy
  <1>8. file_off >= 0
    BY <1>3, <1>4
  <1>9. r \in Junk .. size
    BY <1>2, <1>6, <1>7, <1>8 DEF Junk
  <1>10. v <= addr => r = IF k < z /\ o + k < size THEN o + k + 1 ELSE 0
    BY <1>2, <1>3, <1>4, <1>5, <1>7
  <1> QED BY <1>9, <1>10

-----------------------------------------------------------------------------
(* Each step keeps the invariant: the variables,                           *)
LEMMA GotoIs ==
  ASSUME NEW place \in Places, Goto(place)
  PROVE  pc' = place /\ left' \in {0, StackPages} /\ left' \in 0 .. HeapInitPages
  <1>1. pc' = place /\ (left' = 0 \/ left' = StackPages)
    BY Zenon DEF Goto
  <1> QED BY <1>1, BootNumbers

LEMMA LoadedType ==
  ASSUME BootVars, Loads
  PROVE  [data EXCEPT ![Lowest(machine)] = Filled] \in [Frames -> [Bytes -> Junk .. image.size]]
  <1>1. image \in Images /\ data \in [Frames -> [Bytes -> Junk .. image.size]]
    BY DEF BootVars
  <1>2. seg \in DOMAIN image.phdrs /\ va \in Nat
    BY LoadsIs
  <1>3. ph.p_vaddr \in Nat /\ ph.p_offset \in Nat /\ ph.p_filesz \in Nat /\ image.size \in Nat
    BY <1>1, <1>2, HeaderIs DEF ph
  <1> HIDE DEF ph, va
  <1>4. \A b \in Bytes : FilledAt(ph, va, image.size)[b] \in Junk .. image.size
    BY <1>2, <1>3, FilledByte
  <1>5. \E G : FilledAt(ph, va, image.size) = [b \in Bytes |-> G[b]]
    <2>1. FilledAt(ph, va, image.size) = [b \in Bytes |-> FilledAt(ph, va, image.size)[b]]
      BY DEF FilledAt
    <2> QED BY <2>1
  <1>6. FilledAt(ph, va, image.size) \in [Bytes -> Junk .. image.size]
    BY <1>4, <1>5
  <1>7. Filled \in [Bytes -> Junk .. image.size]
    BY <1>6, FilledIs
  <1> QED BY <1>1, <1>7

LEMMA VarsStep ==
  ASSUME BootVars, StackRoom, BootNext
  PROVE  BootVars'
  <1>0. /\ pc \in Places /\ left \in -1 .. HeapInitPages /\ heap_ok \in BOOLEAN
        /\ cr3 \in spaces \cup {0} /\ (rc # "none" => cr3 \in spaces)
        /\ pc \in {"load", "stack"} => rc # "none"
        /\ rc \in {"none", "loading", "ok", "failed"}
        /\ image \in Images /\ seg \in Nat \ {0} /\ done \in Nat
        /\ data \in [Frames -> [Bytes -> Junk .. image.size]]
        /\ HeapInitPages \in Nat
    BY BootNumbers DEF BootVars
  <1>1. CASE HeapPage
    <2>1. /\ left > 0 /\ (left' = left - 1 \/ left' = -1) /\ spaces' = spaces /\ UNCHANGED <<pc, boot>>
      BY <1>1 DEF HeapPage, heap_extend
    <2>2. left' \in -1 .. HeapInitPages
      BY <1>0, <2>1
    <2> QED BY <1>0, <2>1, <2>2 DEF BootVars, boot
  <1>2. CASE HeapNoFrame
    <2>1. /\ left' = -1 /\ spaces' = spaces /\ UNCHANGED <<pc, boot>>
      BY <1>2 DEF HeapNoFrame, vars
    <2>2. left' \in -1 .. HeapInitPages
      BY <1>0, <2>1
    <2> QED BY <1>0, <2>1, <2>2 DEF BootVars, boot
  <1>3. CASE heap_init
    <2>1. /\ heap_ok' = (left = 0) /\ Goto("idle") /\ spaces' = spaces
          /\ UNCHANGED <<ram, stacks, cr3, image, seg, done, rc, data>>
      BY <1>3 DEF heap_init, vars
    <2>2. "idle" \in Places
      BY DEF Places
    <2>3. pc' = "idle" /\ left' \in -1 .. HeapInitPages
      BY <1>0, <2>1, <2>2, GotoIs
    <2>4. heap_ok' \in BOOLEAN
      BY <2>1
    <2> QED BY <1>0, <2>1, <2>2, <2>3, <2>4 DEF BootVars
  <1>4. ASSUME NEW t, NEW place \in Places \ {"load", "stack"}, Create(t, place)
        PROVE  BootVars'
    <2>1. /\ Goto(place) /\ spaces' = spaces
          /\ UNCHANGED <<heap_ok, ram, cr3, image, seg, done, rc, data>>
      BY <1>4 DEF Create, vars
    <2>2. place \in Places /\ place \notin {"load", "stack"}
      OBVIOUS
    <2>3. pc' = place /\ left' \in -1 .. HeapInitPages
      BY <1>0, <2>1, <2>2, GotoIs
    <2> QED BY <1>0, <2>1, <2>2, <2>3 DEF BootVars
  <1>5. CASE CreateSpace
    <2>1. UNCHANGED <<heap_ok, ram, stacks, image, seg, done, data>>
      BY <1>5 DEF CreateSpace
    <2>2. CASE cr3' \in spaces' \ spaces /\ Goto("load") /\ rc' = "loading"
      <3>1. "load" \in Places
        BY DEF Places
      <3>2. pc' = "load" /\ left' \in -1 .. HeapInitPages
        BY <1>0, <2>2, <3>1, GotoIs
      <3> QED BY <1>0, <2>1, <2>2, <3>1, <3>2 DEF BootVars
    <2>3. CASE Goto("up") /\ UNCHANGED <<vars, cr3, rc>>
      <3>1. "up" \in Places /\ spaces' = spaces
        BY <2>3 DEF Places, vars
      <3>2. pc' = "up" /\ left' \in -1 .. HeapInitPages
        BY <1>0, <2>3, <3>1, GotoIs
      <3> QED BY <1>0, <2>1, <2>3, <3>1, <3>2 DEF BootVars
    <2> QED BY <1>5, <2>2, <2>3 DEF CreateSpace
  <1>6. CASE LoadPage
    <2>1. /\ Loads /\ data' = [data EXCEPT ![Lowest(machine)] = Filled] /\ spaces' = spaces
          /\ \/ rc' = "failed" /\ done' = done
             \/ done' = done + 1 /\ rc' = rc
          /\ pc = "load" /\ UNCHANGED <<pc, left, heap_ok, ram, stacks, cr3, image, seg>>
      BY <1>6 DEF LoadPage, elf_load_page
    <2>2. data' \in [Frames -> [Bytes -> Junk .. image'.size]]
      BY <2>1, LoadedType
    <2>3. done' \in Nat /\ rc' # "none" /\ rc' \in {"none", "loading", "ok", "failed"} /\ cr3 \in spaces
      BY <1>0, <2>1
    <2> QED BY <1>0, <2>1, <2>2, <2>3 DEF BootVars
  <1>7. CASE LoadFails
    <2>1. /\ rc' = "failed" /\ rc = "loading" /\ spaces' = spaces
          /\ UNCHANGED <<pc, left, heap_ok, ram, stacks, cr3, image, seg, done, data>>
      BY <1>7 DEF LoadFails, vars
    <2> QED BY <1>0, <2>1 DEF BootVars
  <1>8. CASE NextSegment
    <2>1. /\ rc = "loading" /\ spaces' = spaces
          /\ \/ rc' = "ok" /\ seg' = seg /\ done' = done
             \/ rc' = rc /\ seg' = seg + 1 /\ done' = 0
          /\ UNCHANGED <<pc, left, heap_ok, ram, stacks, cr3, image, data>>
      BY <1>8 DEF NextSegment, vars
    <2>2. seg' \in Nat \ {0} /\ done' \in Nat /\ rc' \in {"none", "loading", "ok", "failed"}
      BY <1>0, <2>1
    <2> QED BY <1>0, <2>1, <2>2 DEF BootVars
  <1>9. CASE LoadReturns
    <2>1. /\ pc = "load" /\ spaces' = spaces /\ UNCHANGED boot
          /\ Goto("stack") \/ Goto("up")
      BY <1>9 DEF LoadReturns, vars
    <2>2. "stack" \in Places /\ "up" \in Places
      BY DEF Places
    <2>3. pc' \in {"stack", "up"} /\ left' \in -1 .. HeapInitPages
      BY <1>0, <2>1, <2>2, GotoIs
    <2> QED BY <1>0, <2>1, <2>2, <2>3 DEF BootVars, boot
  <1>10. CASE MapStack
    <2>1. /\ pc = "stack" /\ UNCHANGED <<heap_ok, ram, stacks, cr3, image, seg, done, rc>>
          /\ \/ Goto("up") /\ UNCHANGED <<vars, data>>
             \/ Goto("user task") /\ spaces' = spaces /\ data' = StackBytes(Lowest(machine))
      BY <1>10 DEF MapStack
    <2>2. "up" \in Places /\ "user task" \in Places
      BY DEF Places
    <2>a. spaces' = spaces
      BY <2>1 DEF vars
    <2>b. Goto("up") \/ Goto("user task")
      BY <2>1
    <2>c. Goto("up") => pc' = "up" /\ left' \in 0 .. HeapInitPages
      BY <2>2, GotoIs
    <2>d. Goto("user task") => pc' = "user task" /\ left' \in 0 .. HeapInitPages
      BY <2>2, GotoIs
    <2>3. pc' \in {"up", "user task"} /\ left' \in -1 .. HeapInitPages /\ spaces' = spaces
      <3>1. left' \in 0 .. HeapInitPages
        BY <2>b, <2>c, <2>d, Zenon
      <3>4. pc' \in {"up", "user task"}
        BY <2>b, <2>c, <2>d, Zenon
      <3>2. HeapInitPages \in Nat
        BY BootNumbers
      <3>3. left' \in -1 .. HeapInitPages
        BY <3>1, <3>2
      <3> QED BY <2>a, <3>4, <3>3, Zenon
    <2>4. Zeros \in [Bytes -> Junk .. image.size]
      <3>1. image \in ElfImage
        BY <1>0, BootAssumption
      <3>2. image.size \in Nat
        BY <3>1 DEF ElfImage
      <3> QED BY <3>2 DEF Zeros, Junk
    <2>5. data' \in [Frames -> [Bytes -> Junk .. image'.size]]
      BY <1>0, <2>1, <2>4 DEF StackBytes
    <2> QED BY <1>0, <2>1, <2>2, <2>3, <2>5 DEF BootVars
  <1>11. CASE Up
    <2>1. UNCHANGED <<spaces, pc, left, boot>>
      BY <1>11 DEF Up, allvars, vars
    <2> QED BY <1>0, <2>1 DEF BootVars, boot
  <1>12. {"thread a", "thread b", "space", "up"} \subseteq Places \ {"load", "stack"}
    BY DEF Places
  <1> QED BY <1>1, <1>2, <1>3, <1>4, <1>5, <1>6, <1>7, <1>8, <1>9, <1>10, <1>11, <1>12 DEF BootNext

(* the stacks,                                                             *)
Fitting == Fits(stacks, heap_pages - (StackPages - left))
LEMMA RoomParts ==
  ASSUME StackRoom
  PROVE  /\ pc = "heap" => (left >= 0 => heap_pages = HeapInitPages - left)
         /\ pc = "idle" /\ heap_ok = TRUE => left = 0 /\ heap_pages >= StackPages
         /\ Extending => left <= StackPages /\ (left >= 0 => heap_pages >= StackPages - left /\ Fitting)
         /\ pc \in {"space", "load", "stack", "up"} => left = 0
  BY Zenon DEF StackRoom, Fitting

LEMMA FitsMore ==
  ASSUME NEW S, NEW m \in Int, NEW n \in Int, m <= n, Fits(S, m)
  PROVE  Fits(S, n)
  BY BootNumbers DEF Fits

LEMMA NoStacks ==
  ASSUME NEW S, DOMAIN S = {}, NEW n
  PROVE  Fits(S, n) /\ Lined(S)
  BY DEF Fits, Lined

LEMMA OneStack ==
  ASSUME NEW S, NEW t, NEW n \in Nat, n >= StackPages, Fits(S, n - StackPages), Lined(S), NEW b,
         b = HEAP_START + n - StackPages
  PROVE  Fits(With(S, t, b), n) /\ Lined(With(S, t, b))
  <1> DEFINE T == With(S, t, b)
  <1>0. HEAP_START \in Nat /\ HEAP_START > 0 /\ StackPages \in Nat
    BY BootNumbers
  <1>1. /\ b \in Nat /\ HEAP_START <= b /\ b + StackPages <= HEAP_START + n
    BY <1>0
  <1>2. DOMAIN T = DOMAIN S \cup {t} /\ T[t] = b /\ \A u \in DOMAIN S : u # t => T[u] = S[u]
    BY DEF With
  <1> HIDE DEF T
  <1>3. ASSUME NEW u \in DOMAIN T, u # t
        PROVE  /\ u \in DOMAIN S /\ T[u] = S[u]
               /\ \/ u = "idle" /\ T[u] = NULL
                  \/ T[u] \in Nat /\ HEAP_START <= T[u] /\ T[u] + StackPages <= b
    <2>1. u \in DOMAIN S /\ T[u] = S[u]
      BY <1>2, <1>3
    <2>2. \/ u = "idle" /\ S[u] = NULL
          \/ S[u] \in Nat /\ HEAP_START <= S[u] /\ S[u] + StackPages <= HEAP_START + (n - StackPages)
      BY <2>1 DEF Fits
    <2> QED BY <1>0, <2>1, <2>2
  <1>4. Fits(T, n)
    <2> SUFFICES ASSUME NEW u \in DOMAIN T
                 PROVE  \/ u = "idle" /\ T[u] = NULL
                        \/ T[u] \in Nat /\ HEAP_START <= T[u] /\ T[u] + StackPages <= HEAP_START + n
      BY DEF Fits
    <2>1. CASE u = t
      BY <1>1, <1>2, <2>1
    <2>2. CASE u # t
      BY <1>0, <1>1, <1>3, <2>2
    <2> QED BY <2>1, <2>2
  <1>5. Lined(T)
    <2> SUFFICES ASSUME NEW u \in DOMAIN T, NEW v \in DOMAIN T, u # v, T[u] # NULL, T[v] # NULL
                 PROVE  T[u] + StackPages <= T[v] \/ T[v] + StackPages <= T[u]
      BY DEF Lined
    <2>1. CASE u = t
      BY <1>2, <1>3, <2>1
    <2>2. CASE v = t
      BY <1>2, <1>3, <2>2
    <2>3. CASE u # t /\ v # t
      BY <1>3, <2>3 DEF Lined
    <2> QED BY <2>1, <2>2, <2>3
  <1> QED BY <1>4, <1>5 DEF T

LEMMA FirstStack ==
  ASSUME NEW S, DOMAIN S = {}, NEW n \in Nat, NEW b, b = NULL \/ (b = HEAP_START /\ n >= StackPages)
  PROVE  Fits(With(S, "idle", b), n) /\ Lined(With(S, "idle", b))
  <1> DEFINE T == With(S, "idle", b)
  <1>1. DOMAIN T = {"idle"} /\ T["idle"] = b
    BY DEF With
  <1> HIDE DEF T
  <1>2. Fits(T, n)
    BY <1>1, BootNumbers DEF Fits
  <1>3. Lined(T)
    BY <1>1 DEF Lined
  <1> QED BY <1>2, <1>3 DEF T

LEMMA SameRoom ==
  ASSUME StackRoom, UNCHANGED <<pc, left, heap_ok, stacks, heap_pages>>
  PROVE  StackRoom'
  BY DEF StackRoom, Extending

LEMMA Nothing ==
  \A a, b \in Nat : a - (b - b) = a /\ a >= b - b /\ b <= b
  OBVIOUS

LEMMA GotoRoom ==
  ASSUME NEW place \in Places \ {"heap", "idle"}, Goto(place), heap_pages' = heap_pages, heap_pages \in Nat,
         Fits(stacks', heap_pages), Lined(stacks'), "user task" \in DOMAIN stacks' => place = "up"
  PROVE  StackRoom'
  <1>1. pc' = place /\ pc' \notin {"heap", "idle"}
    BY DEF Goto
  <1>2. CASE place \in {"thread a", "thread b", "user task"}
    <2>1. left' = StackPages
      BY <1>2, Zenon DEF Goto
    <2>2. pc' \notin {"space", "load", "stack", "up"}
      BY <1>1, <1>2
    <2>3. heap_pages' - (StackPages - left') = heap_pages /\ heap_pages' >= StackPages - left' /\ left' <= StackPages
      <3>2. StackPages \in Nat /\ heap_pages \in Nat /\ heap_pages' = heap_pages
        BY BootNumbers
      <3> QED BY <2>1, <3>2, Nothing, Zenon
    <2>4. Fits(stacks', heap_pages' - (StackPages - left'))
      BY <2>3
    <2>5. pc' # "heap" /\ pc' # "idle"
      BY <1>1
    <2> QED BY <1>1, <2>2, <2>3, <2>4, <2>5 DEF StackRoom
  <1>3. CASE place \notin {"thread a", "thread b", "user task"}
    <2>1. left' = 0
      BY <1>1, <1>3, Zenon DEF Goto
    <2>2. ~Extending'
      BY <1>1, <1>3 DEF Extending
    <2>5. pc' # "heap" /\ pc' # "idle"
      BY <1>1
    <2> QED BY <1>1, <2>1, <2>2, <2>5 DEF StackRoom
  <1> QED BY <1>2, <1>3

LEMMA HeapRoom ==
  ASSUME BootVars, StackRoom, Counts, HeapPage \/ HeapNoFrame
  PROVE  StackRoom'
  <1>0. /\ HeapInitPages \in Nat /\ StackPages \in Nat /\ heap_pages \in Nat /\ left \in Int /\ left > 0
        /\ HeapPages \in Nat
    BY BootNumbers DEF BootVars, Counts, HeapPage, HeapNoFrame
  <1>1. /\ pc' = pc /\ heap_ok' = heap_ok /\ stacks' = stacks
        /\ \/ left' = -1 /\ (heap_pages' = heap_pages \/ heap_pages' = heap_pages + 1)
           \/ left' = left - 1 /\ heap_pages' = heap_pages + 1
    <2>1. CASE HeapPage
      <3>1. Extends(heap_pages) /\ UNCHANGED <<pc, boot>> /\ left' = IF heap_pages' > heap_pages THEN left - 1 ELSE -1
        BY <2>1, ExtendIs DEF HeapPage
      <3>2. heap_pages' = heap_pages \/ heap_pages' = heap_pages + 1
        BY <3>1 DEF Extends
      <3>3. heap_pages + 1 > heap_pages /\ ~(heap_pages > heap_pages)
        BY <1>0
      <3> QED BY <3>1, <3>2, <3>3 DEF boot
    <2>2. CASE HeapNoFrame
      BY <2>2 DEF HeapNoFrame, vars, boot
    <2> QED BY <2>1, <2>2
  <1>2. /\ Fits(stacks, heap_pages) /\ Lined(stacks)
        /\ pc \in {"heap", "idle"} => DOMAIN stacks = {}
        /\ "user task" \in DOMAIN stacks => pc = "up"
    BY DEF StackRoom
  <1>3. pc = "heap" \/ Extending
    <2>0. left # 0
      BY <1>0
    <2>1. pc \notin {"space", "load", "stack", "up"}
      BY <2>0, RoomParts, Zenon
    <2>2. ~(pc = "idle" /\ heap_ok = TRUE)
      BY <2>0, RoomParts, Zenon
    <2>3. pc \in Places /\ heap_ok \in BOOLEAN
      BY DEF BootVars
    <2> QED BY <2>1, <2>2, <2>3, Zenon DEF Places, Extending
  <1>4. heap_pages' \in Int /\ heap_pages <= heap_pages' /\ left' \in Int
    BY <1>0, <1>1
  <1>5. Fits(stacks, heap_pages')
    <2> DEFINE n == heap_pages
               h == heap_pages'
    <2>1. n \in Int /\ h \in Int /\ n <= h /\ Fits(stacks, n)
      <3>1. n \in Int /\ h \in Int /\ n <= h
        BY <1>0, <1>4
      <3> QED BY <1>2, <3>1, Zenon
    <2> HIDE DEF n, h
    <2>2. Fits(stacks, h)
      BY <2>1, FitsMore
    <2> QED BY <2>2 DEF h
  <1>6. pc = "heap" => (left' >= 0 => heap_pages' = HeapInitPages - left')
    <2>1. pc = "heap" => heap_pages = HeapInitPages - left
      BY <1>0, RoomParts
    <2> QED BY <1>0, <1>1, <2>1
  <1>7. ASSUME Extending
        PROVE  /\ left' <= StackPages
               /\ left' >= 0 => /\ heap_pages' >= StackPages - left'
                                /\ Fits(stacks', heap_pages' - (StackPages - left'))
    <2>0. left >= 0
      BY <1>0
    <2>1. left <= StackPages /\ heap_pages >= StackPages - left /\ Fitting
      BY <2>0, <1>7, RoomParts, Zenon
    <2>2. CASE left' = -1
      BY <1>0, <2>2
    <2>3. CASE left' = left - 1 /\ heap_pages' = heap_pages + 1
      <3>1. heap_pages' - (StackPages - left') = heap_pages - (StackPages - left)
        BY <1>0, <2>3
      <3>2. left' <= StackPages /\ heap_pages' >= StackPages - left'
        BY <1>0, <2>1, <2>3
      <3>3. Fits(stacks', heap_pages' - (StackPages - left'))
        BY <1>1, <2>1, <3>1 DEF Fitting
      <3> QED BY <3>2, <3>3, Zenon
    <2> QED BY <1>1, <2>2, <2>3
  <1>8. Extending' = Extending
    BY <1>1 DEF Extending
  <1>9. pc \notin {"space", "load", "stack", "up"} /\ ~(pc = "idle" /\ heap_ok = TRUE)
    <2>0. left # 0
      BY <1>0
    <2> QED BY <2>0, RoomParts, Zenon
  <1> QED BY <1>1, <1>2, <1>5, <1>6, <1>7, <1>8, <1>9 DEF StackRoom

Order(t, place) ==
  \/ t = "idle" /\ place = "thread a"
  \/ t = "thread a" /\ place = "thread b"
  \/ t = "thread b" /\ place = "space"
  \/ t = "user task" /\ place = "up"

LEMMA CreateRoom ==
  ASSUME BootVars, StackRoom, Counts, NEW t, NEW place, Order(t, place), Create(t, place)
  PROVE  StackRoom'
  <1>0. /\ pc = t /\ left <= 0 /\ Goto(place) /\ heap_pages' = heap_pages
        /\ stacks' = IF Created(t) THEN With(stacks, t, Block(t)) ELSE stacks
    BY DEF Create, vars
  <1>1. /\ Fits(stacks, heap_pages) /\ Lined(stacks) /\ ("user task" \in DOMAIN stacks => pc = "up")
        /\ pc \in {"heap", "idle"} => DOMAIN stacks = {}
    BY Zenon DEF StackRoom
  <1>2. heap_pages \in Nat /\ left \in Int /\ heap_ok \in BOOLEAN
    BY PagingAssumption, BootNumbers DEF Counts, BootVars
  <1>3. left < 0 \/ left = 0
    BY <1>0, <1>2
  <1>4. Fits(stacks', heap_pages) /\ Lined(stacks')
    <2>1. CASE left < 0
      <3>1. Block(t) = NULL
        BY <2>1 DEF Block
      <3>2. CASE t = "idle"
        <4>1. stacks' = With(stacks, "idle", NULL) /\ DOMAIN stacks = {}
          BY <1>0, <1>1, <3>1, <3>2 DEF Created
        <4> QED BY <1>2, <4>1, FirstStack
      <3>3. CASE t # "idle"
        BY <1>0, <1>1, <3>1, <3>3 DEF Created
      <3> QED BY <3>2, <3>3
    <2>2. CASE left = 0 /\ t = "idle" /\ heap_ok = TRUE
      <3>0. ~(left < 0)
        BY <2>2
      <3>1. Block(t) = HEAP_START
        BY <2>2, <3>0 DEF Block
      <3>2. stacks' = With(stacks, "idle", HEAP_START) /\ DOMAIN stacks = {}
        BY <1>0, <1>1, <2>2, <3>1 DEF Created
      <3>3. heap_pages >= StackPages
        BY <1>0, <2>2, RoomParts, Zenon
      <3> QED BY <1>2, <3>2, <3>3, FirstStack
    <2>3. CASE left = 0 /\ ~(t = "idle" /\ heap_ok = TRUE)
      <3>0. ~(left < 0) /\ left >= 0
        BY <2>3
      <3> DEFINE b == HEAP_START + heap_pages - StackPages
      <3>1. Block(t) = b
        BY <1>2, <2>3, <3>0, Zenon DEF Block
      <3>2. Extending
        BY <1>0, <1>2, <2>3, Zenon DEF Extending, Order
      <3>3. heap_pages >= StackPages - left /\ Fitting
        BY <3>0, <3>2, RoomParts, Zenon
      <3>4. heap_pages >= StackPages /\ StackPages - left = StackPages
        BY <2>3, <3>3, BootNumbers
      <3>5. Fits(stacks, heap_pages - StackPages)
        BY <3>3, <3>4, Zenon DEF Fitting
      <3>6. Fits(With(stacks, t, b), heap_pages) /\ Lined(With(stacks, t, b))
        BY <1>1, <1>2, <3>4, <3>5, OneStack
      <3> HIDE DEF b
      <3> QED BY <1>0, <1>1, <3>1, <3>6, Zenon
    <2> QED BY <1>3, <2>1, <2>2, <2>3
  <1>5. "user task" \in DOMAIN stacks' => place = "up"
    <2>1. CASE t = "user task"
      BY <2>1 DEF Order
    <2>2. CASE t # "user task"
      <3>1. pc # "up"
        BY <1>0 DEF Order
      <3>2. "user task" \notin DOMAIN stacks
        BY <1>1, <3>1
      <3>3. DOMAIN stacks' \subseteq DOMAIN stacks \cup {t}
        BY <1>0 DEF With
      <3> QED BY <2>2, <3>2, <3>3
    <2> QED BY <2>1, <2>2
  <1>6. place \in Places \ {"heap", "idle"}
    BY DEF Places, Order
  <1> QED BY <1>0, <1>2, <1>4, <1>5, <1>6, GotoRoom

LEMMA RoomStep ==
  ASSUME BootVars, StackRoom, Counts, BootNext
  PROVE  StackRoom'
  <1>0. heap_pages \in Nat /\ left \in Int
    BY PagingAssumption, BootNumbers DEF Counts, BootVars
  <1>a. /\ Fits(stacks, heap_pages) /\ Lined(stacks) /\ ("user task" \in DOMAIN stacks => pc = "up")
        /\ pc \in {"heap", "idle"} => DOMAIN stacks = {}
    BY Zenon DEF StackRoom
  <1>b. ASSUME NEW place \in {"load", "stack", "user task", "up"}, Goto(place), pc # "up",
               heap_pages' = heap_pages, stacks' = stacks
        PROVE  StackRoom'
    <2>1. place \in Places \ {"heap", "idle"}
      BY DEF Places
    <2>2. Fits(stacks', heap_pages) /\ Lined(stacks') /\ ("user task" \in DOMAIN stacks' => place = "up")
      BY <1>a, <1>b
    <2> QED BY <1>0, <1>b, <2>1, <2>2, GotoRoom
  <1>1. CASE HeapPage \/ HeapNoFrame
    BY <1>1, HeapRoom
  <1>2. CASE heap_init
    <2>1. /\ pc = "heap" /\ left <= 0 /\ heap_ok' = (left = 0) /\ Goto("idle") /\ heap_pages' = heap_pages
          /\ stacks' = stacks
      BY <1>2 DEF heap_init, vars
    <2>2. pc' = "idle" /\ DOMAIN stacks' = {}
      BY <1>a, <2>1 DEF Goto
    <2>3. Fits(stacks', heap_pages') /\ Lined(stacks') /\ Fits(stacks', heap_pages' - (StackPages - left'))
      BY <2>2, NoStacks
    <2>4. CASE left = 0
      <3>1. heap_ok' = TRUE
        BY <2>1, <2>4
      <3>2. left' = 0
        BY <2>1, <3>1, Zenon DEF Goto
      <3>3. ~Extending'
        BY <2>2, <3>1 DEF Extending
      <3>4. heap_pages' >= StackPages
        <4>1. left >= 0
          BY <2>4
        <4>2. heap_pages = HeapInitPages - left
          BY <2>1, <4>1, RoomParts, Zenon
        <4> QED BY <2>1, <2>4, <4>2, BootNumbers
      <3> QED BY <2>2, <2>3, <3>2, <3>3, <3>4, Zenon DEF StackRoom
    <2>5. CASE left # 0
      <3>1. heap_ok' = FALSE
        BY <2>1, <2>5
      <3>2. left' = StackPages
        BY <2>1, <3>1, Zenon DEF Goto
      <3>3. heap_pages' >= StackPages - left' /\ left' <= StackPages
        <4>1. StackPages \in Nat
          BY BootNumbers
        <4> QED BY <1>0, <2>1, <3>2, <4>1
      <3>4. heap_ok' # TRUE
        BY <3>1
      <3> QED BY <2>2, <2>3, <3>3, <3>4, Zenon DEF StackRoom
    <2> QED BY <2>4, <2>5
  <1>3. CASE Create("idle", "thread a")
    BY <1>3, CreateRoom DEF Order
  <1>4. CASE Create("thread a", "thread b")
    BY <1>4, CreateRoom DEF Order
  <1>5. CASE Create("thread b", "space")
    BY <1>5, CreateRoom DEF Order
  <1>6. CASE Create("user task", "up")
    BY <1>6, CreateRoom DEF Order
  <1>7. CASE CreateSpace
    <2>1. /\ pc # "up" /\ heap_pages' = heap_pages /\ stacks' = stacks /\ (Goto("load") \/ Goto("up"))
      BY <1>7 DEF CreateSpace, paging_create_user_space, vars
    <2> QED BY <1>b, <2>1
  <1>8. CASE LoadPage \/ LoadFails \/ NextSegment \/ Up
    <2>1. UNCHANGED <<pc, left, heap_ok, stacks, heap_pages>>
      BY <1>8 DEF LoadPage, elf_load_page, LoadFails, NextSegment, Up, vars, allvars, boot
    <2> QED BY <2>1, SameRoom
  <1>9. CASE LoadReturns
    <2>1. /\ pc # "up" /\ heap_pages' = heap_pages /\ stacks' = stacks /\ (Goto("stack") \/ Goto("up"))
      BY <1>9 DEF LoadReturns, vars, boot
    <2> QED BY <1>b, <2>1
  <1>10. CASE MapStack
    <2>1. /\ pc # "up" /\ heap_pages' = heap_pages /\ stacks' = stacks /\ (Goto("user task") \/ Goto("up"))
      BY <1>10 DEF MapStack, vars
    <2> QED BY <1>b, <2>1
  <1> QED BY <1>1, <1>2, <1>3, <1>4, <1>5, <1>6, <1>7, <1>8, <1>9, <1>10 DEF BootNext

(* the heap,                                                               *)
LEMMA GivenMore ==
  ASSUME BootNext, ~HeapPage
  PROVE  heap_pages' = heap_pages /\ DOMAIN given \subseteq DOMAIN given'
  <1>0. \A k, f : DOMAIN given \subseteq DOMAIN With(given, k, f)
    BY DEF With
  <1>1. CASE HeapNoFrame \/ heap_init \/ LoadFails \/ NextSegment \/ LoadReturns \/ Up
    BY <1>1 DEF HeapNoFrame, heap_init, LoadFails, NextSegment, LoadReturns, Up, allvars, vars
  <1>2. ASSUME NEW t, NEW place, Create(t, place)
        PROVE  heap_pages' = heap_pages /\ DOMAIN given \subseteq DOMAIN given'
    BY <1>2 DEF Create, vars
  <1>3. CASE CreateSpace
    BY <1>3 DEF CreateSpace, paging_create_user_space, vars
  <1>4. CASE LoadPage
    <2>1. /\ heap_pages' = heap_pages
          /\ given' = given \/ given' = With(given, <<cr3, va>>, Lowest(machine))
      BY <1>4 DEF LoadPage, elf_load_page
    <2> QED BY <1>0, <2>1
  <1>5. CASE MapStack
    <2>1. /\ heap_pages' = heap_pages
          /\ given' = given \/ given' = With(given, <<cr3, STACK_PAGE>>, Lowest(machine))
      BY <1>5 DEF MapStack, vars
    <2> QED BY <1>0, <2>1
  <1> QED BY <1>1, <1>2, <1>3, <1>4, <1>5 DEF BootNext

LEMMA HeapMappedStep ==
  ASSUME Counts, HeapMapped, BootNext
  PROVE  HeapMapped'
  <1>0. heap_pages \in Nat
    BY BootNumbers DEF Counts
  <1>1. CASE HeapPage
    <2>1. Extends(heap_pages)
      BY <1>1, ExtendIs DEF HeapPage
    <2>2. CASE heap_pages' = heap_pages /\ given' = given
      BY <2>2 DEF HeapMapped
    <2>3. CASE /\ heap_pages' = heap_pages + 1
               /\ DOMAIN given' = DOMAIN given \cup {<<pml4_new, HEAP_START + heap_pages>>}
      <3> SUFFICES ASSUME NEW n \in 0 .. heap_pages' - 1
                   PROVE  <<pml4_new, HEAP_START + n>> \in DOMAIN given'
        BY DEF HeapMapped
      <3>1. n = heap_pages \/ n \in 0 .. heap_pages - 1
        BY <1>0, <2>3
      <3> QED BY <2>3, <3>1 DEF HeapMapped
    <2> QED BY <2>1, <2>2, <2>3 DEF Extends
  <1>2. CASE ~HeapPage
    <2>1. heap_pages' = heap_pages /\ DOMAIN given \subseteq DOMAIN given'
      BY <1>2, GivenMore
    <2> QED BY <2>1 DEF HeapMapped
  <1> QED BY <1>1, <1>2

(* and the page tables.                                                    *)
Tears(role) ==
  /\ MapStack /\ Goto("user task") /\ Worn(machine', spaces', given', STACK_PAGE)
  /\ Wrecks(machine, role, machine', spaces')

LEMMA SameMoves ==
  ASSUME NEW role, Ready(role), UNCHANGED vars
  PROVE  Moves(role)
  <1>1. machine' = machine /\ spaces' = spaces /\ given' = given /\ users' = users /\ heap_pages' = heap_pages
    BY DEF vars, machine
  <1>2. Leads(role, machine, spaces, given) /\ Counts
    BY LeadsSelf DEF Ready
  <1> QED BY <1>1, <1>2 DEF Moves, Counts

LEMMA StackSaving ==
  ASSUME NEW role, Ready(role), cr3 \in spaces, MapStack
  PROVE  \/ UNCHANGED vars
         \/ Saving(role, Translate(mem, cr3, STACK_PAGE), Absent)
         \/ Tears(role)
  <1> DEFINE f == Lowest(machine)
             z == Zero(virt_for_phys(Taken(machine), f), Pointer(f))
             w == MapIn(virt_for_phys(z, cr3), Pointer(cr3), STACK_PAGE, f, "kernel_main")
             h == With(given, <<cr3, STACK_PAGE>>, f)
             o == Translate(mem, cr3, STACK_PAGE)
  <1>1. CASE f = 0
    BY <1>1 DEF MapStack
  <1>2. CASE f # 0
    <2>1. /\ Becomes(w.m) /\ given' = h /\ Goto("user task")
          /\ users' = users /\ heap_pages' = heap_pages /\ spaces' = spaces
      BY <1>2 DEF MapStack
    <2>2. Good(machine, spaces, given, role) /\ Counts
      BY DEF Ready
    <2>3. Room(machine.free, 3) /\ Spare(machine.free, 4)
      BY MachineIs DEF Ready, RoomBelow, NoUsers
    <2>4. STACK_PAGE \in Pages /\ ~KernelPage(STACK_PAGE)
      BY BootNumbers
    <2>5. \/ Saves(machine, role, w.m, spaces, h, o, Absent)
          \/ Worn(w.m, spaces, h, STACK_PAGE) /\ Wrecks(machine, role, w.m, spaces)
      BY <1>2, <2>2, <2>3, <2>4, StackGood, MachineIs
    <2> HIDE DEF w, h, f, z, o
    <2>6. w.m \in Machine
      BY <2>5, SavesMachine DEF Worn
    <2>7. machine' = w.m
      BY <2>1, <2>6, Becoming
    <2>8. CASE Saves(machine, role, w.m, spaces, h, o, Absent)
      <3>1. Saves(machine, role, machine', spaces', given', o, Absent)
        BY <2>1, <2>7, <2>8
      <3> QED BY <2>1, <2>2, <3>1 DEF Saving, Counts, o
    <2>9. CASE Worn(w.m, spaces, h, STACK_PAGE) /\ Wrecks(machine, role, w.m, spaces)
      <3>1. Worn(machine', spaces', given', STACK_PAGE) /\ Wrecks(machine, role, machine', spaces')
        BY <2>1, <2>7, <2>9
      <3> QED BY <2>1, <3>1 DEF Tears
    <2> QED BY <2>5, <2>8, <2>9
  <1> QED BY <1>1, <1>2

LEMMA StackStep ==
  ASSUME NEW role, Ready(role), cr3 \in spaces, MapStack
  PROVE  Moves(role) \/ Tears(role)
  BY StackSaving, SameMoves, SavingMoves

LEMMA BootMoves ==
  ASSUME NEW role, Ready(role), BootVars, BootNext
  PROVE  Moves(role) \/ Tears(role)
  <1>1. CASE HeapPage
    BY <1>1, HeapStep DEF HeapPage
  <1>2. CASE HeapNoFrame \/ heap_init \/ LoadFails \/ NextSegment \/ LoadReturns \/ Up
    <2>1. UNCHANGED vars
      BY <1>2 DEF HeapNoFrame, heap_init, LoadFails, NextSegment, LoadReturns, Up, allvars
    <2> QED BY <2>1, SameMoves
  <1>3. ASSUME NEW t, NEW place, Create(t, place)
        PROVE  Moves(role)
    <2>1. UNCHANGED vars
      BY <1>3 DEF Create
    <2> QED BY <2>1, SameMoves
  <1>4. CASE CreateSpace
    <2>1. paging_create_user_space \/ UNCHANGED vars
      BY <1>4 DEF CreateSpace
    <2> QED BY <2>1, SameMoves, CreateStep
  <1>5. CASE LoadPage
    <2>1. Loads /\ elf_load_page(cr3, va) /\ pc = "load"
      BY <1>5 DEF LoadPage
    <2>2. va \in Pages /\ ~KernelPage(va)
      BY <2>1, LoadsIs
    <2>3. cr3 \in spaces
      BY <2>1 DEF BootVars
    <2> HIDE DEF va
    <2> QED BY <2>1, <2>2, <2>3, LoadStep
  <1>6. CASE MapStack
    <2>1. cr3 \in spaces
      BY <1>6 DEF MapStack, BootVars
    <2> QED BY <1>6, <2>1, StackStep
  <1> QED BY <1>1, <1>2, <1>3, <1>4, <1>5, <1>6 DEF BootNext

LEMMA BrokenStep ==
  ASSUME Broken, BootVars, BootNext
  PROVE  Broken'
  <1>0. /\ Worn(machine, spaces, given, STACK_PAGE) /\ "user task" \notin DOMAIN stacks
        /\ pc \in {"user task", "up"} /\ (pc = "user task" => left # 0)
    BY DEF Broken
  <1>1. Lowest(machine) = 0
    BY <1>0 DEF Worn, Lowest
  <1>2. ~HeapPage /\ ~heap_init /\ ~CreateSpace /\ ~LoadPage /\ ~LoadFails /\ ~NextSegment /\ ~LoadReturns /\ ~MapStack
    BY <1>0, <1>1 DEF HeapPage, heap_extend, heap_init, CreateSpace, LoadPage, LoadFails, NextSegment, LoadReturns, MapStack
  <1>3. ~Create("idle", "thread a") /\ ~Create("thread a", "thread b") /\ ~Create("thread b", "space")
    BY <1>0 DEF Create
  <1>4. HeapNoFrame \/ Create("user task", "up") \/ Up
    BY <1>2, <1>3 DEF BootNext
  <1>5. ASSUME UNCHANGED vars PROVE machine' = machine /\ spaces' = spaces /\ given' = given
    BY <1>5 DEF vars, machine
  <1>6. CASE HeapNoFrame
    <2>1. UNCHANGED vars /\ pc' = pc /\ stacks' = stacks /\ left' = -1
      BY <1>6 DEF HeapNoFrame, boot
    <2>2. left' # 0
      BY <2>1
    <2> QED BY <1>0, <1>5, <2>1, <2>2 DEF Broken
  <1>7. CASE Up
    <2>1. UNCHANGED vars /\ pc' = pc /\ stacks' = stacks /\ left' = left
      BY <1>7 DEF Up, allvars, boot
    <2> QED BY <1>0, <1>5, <2>1 DEF Broken
  <1>8. CASE Create("user task", "up")
    <2>1. /\ UNCHANGED vars /\ pc = "user task" /\ left <= 0 /\ pc' = "up"
          /\ stacks' = IF Created("user task") THEN With(stacks, "user task", Block("user task")) ELSE stacks
      BY <1>8 DEF Create, Goto
    <2>2. left < 0
      <3>1. left \in Int
        BY BootNumbers DEF BootVars
      <3>2. left # 0 /\ left <= 0
        BY <1>0, <2>1
      <3> QED BY <3>1, <3>2
    <2>3. ~Created("user task")
      BY <2>2 DEF Created, Block
    <2>4. stacks' = stacks
      BY <2>1, <2>3
    <2> QED BY <1>0, <1>5, <2>1, <2>4 DEF Broken
  <1> QED BY <1>4, <1>6, <1>7, <1>8

LEMMA TearsBroken ==
  ASSUME StackRoom, NEW role, Tears(role)
  PROVE  Broken'
  <1>1. /\ MapStack /\ Goto("user task") /\ Worn(machine', spaces', given', STACK_PAGE)
    BY DEF Tears
  <1>2. pc = "stack" /\ stacks' = stacks
    BY <1>1 DEF MapStack
  <1>3. left' = StackPages
    BY <1>1, Zenon DEF Goto
  <1>4. pc' = "user task"
    BY <1>1, Zenon DEF Goto
  <1>5. left' # 0
    BY <1>3, BootNumbers
  <1>6. "user task" \notin DOMAIN stacks'
    BY <1>2 DEF StackRoom
  <1> QED BY <1>1, <1>4, <1>5, <1>6 DEF Broken

LEMMA BootFirst ==
  ASSUME BootInit
  PROVE  BInv
  <1>1. Good(machine, spaces, given, FirstRole(free)) /\ Counts
    BY FirstGood DEF BootInit
  <1>2. Alive
    BY <1>1 DEF Alive
  <1>3. /\ pc = "heap" /\ left = HeapInitPages /\ heap_ok = FALSE /\ stacks = <<>> /\ cr3 = 0
        /\ image \in Images /\ seg = 1 /\ done = 0 /\ rc = "none" /\ heap_pages = 0
        /\ data = [f \in Frames |-> [b \in Bytes |-> Junk]]
    BY DEF BootInit, Init
  <1>4. BootVars
    <2>1. image.size \in Nat
      <3>1. image \in ElfImage
        BY <1>3, BootAssumption
      <3> QED BY <3>1 DEF ElfImage
    <2>2. data \in [Frames -> [Bytes -> Junk .. image.size]]
      BY <1>3, <2>1 DEF Junk
    <2>3. left \in -1 .. HeapInitPages
      BY <1>3, BootNumbers
    <2>4. pc \in Places /\ pc \notin {"load", "stack"}
      BY <1>3 DEF Places
    <2>5. seg \in Nat \ {0} /\ done \in Nat
      BY <1>3
    <2>6. /\ heap_ok \in BOOLEAN /\ cr3 \in spaces \cup {0} /\ rc \in {"none", "loading", "ok", "failed"}
          /\ rc = "none" /\ image \in Images
      BY <1>3
    <2> QED BY <2>2, <2>3, <2>4, <2>5, <2>6, Zenon DEF BootVars
  <1>5. StackRoom
    <2>1. DOMAIN stacks = {}
      BY <1>3
    <2>2. Fits(stacks, heap_pages) /\ Lined(stacks)
      BY <2>1, NoStacks
    <2>3. heap_pages = HeapInitPages - left
      BY <1>3, BootNumbers
    <2>4. ~Extending /\ pc # "idle" /\ pc \notin {"space", "load", "stack", "up"}
      BY <1>3 DEF Extending
    <2> QED BY <2>1, <2>2, <2>3, <2>4, Zenon DEF StackRoom
  <1>6. HeapMapped
    BY <1>3 DEF HeapMapped
  <1> QED BY <1>1, <1>2, <1>4, <1>5, <1>6 DEF BInv

LEMMA BootSame ==
  ASSUME BInv, UNCHANGED allvars
  PROVE  BInv'
  <1>1. UNCHANGED vars /\ UNCHANGED <<pc, left, heap_ok, ram, stacks, cr3, image, seg, done, rc, data>>
    BY DEF allvars, boot
  <1>2. /\ machine' = machine /\ spaces' = spaces /\ given' = given /\ users' = users /\ heap_pages' = heap_pages
    BY <1>1 DEF vars, machine
  <1>3. Counts' /\ BootVars' /\ HeapMapped'
    BY <1>1, <1>2 DEF BInv, Counts, BootVars, HeapMapped
  <1>4. StackRoom'
    BY <1>1, <1>2, SameRoom DEF BInv
  <1>5. Alive' \/ Broken'
    BY <1>1, <1>2 DEF BInv, Alive, Broken
  <1> QED BY <1>3, <1>4, <1>5 DEF BInv

LEMMA BootStep ==
  ASSUME BInv, RoomBelow, [BootNext]_allvars
  PROVE  BInv'
  <1>1. CASE UNCHANGED allvars
    BY <1>1, BootSame
  <1>2. CASE BootNext
    <2>1. Counts /\ BootVars /\ StackRoom /\ HeapMapped
      BY DEF BInv
    <2>2. BootVars' /\ StackRoom' /\ HeapMapped'
      BY <1>2, <2>1, VarsStep, RoomStep, HeapMappedStep
    <2>3. CASE Alive
      <3>1. PICK role : Good(machine, spaces, given, role)
        BY <2>3 DEF Alive
      <3>2. Moves(role) \/ Tears(role)
        BY <1>2, <2>1, <3>1, BootMoves DEF Ready
      <3>3. CASE Moves(role)
        <4>1. Counts' /\ \E new : Good(machine', spaces', given', new)
          BY <3>3 DEF Moves, Leads
        <4>2. Alive'
          BY <4>1 DEF Alive
        <4> QED BY <2>2, <4>1, <4>2 DEF BInv
      <3>4. CASE Tears(role)
        <4>1. users' = users /\ heap_pages' = heap_pages
          BY <3>4 DEF Tears, MapStack, vars
        <4>6. Broken'
          BY <2>1, <3>4, TearsBroken
        <4>7. Counts'
          BY <2>1, <4>1 DEF Counts
        <4> QED BY <2>2, <4>6, <4>7 DEF BInv
      <3> QED BY <3>2, <3>3, <3>4
    <2>4. CASE Broken
      <3>1. Broken'
        BY <1>2, <2>1, <2>4, BrokenStep
      <3>2. Counts'
        <4>1. Lowest(machine) = 0
          BY <2>4 DEF Broken, Worn, Lowest
        <4>2. ~HeapPage /\ ~CreateSpace /\ ~LoadPage /\ ~MapStack
          BY <2>4, <4>1 DEF Broken, HeapPage, heap_extend, CreateSpace, LoadPage, MapStack
        <4>3. UNCHANGED vars
          BY <1>2, <4>2 DEF BootNext, HeapNoFrame, heap_init, Create, LoadFails, NextSegment, LoadReturns, Up, allvars
        <4> QED BY <2>1, <4>3 DEF vars, Counts
      <3> QED BY <2>2, <3>1, <3>2 DEF BInv
    <2> QED BY <2>3, <2>4 DEF BInv
  <1> QED BY <1>1, <1>2

-----------------------------------------------------------------------------
(* What is seen of a heap page, whether the tables are sound or not.       *)
LEMMA HeapSeen ==
  ASSUME BInv, NEW n \in 0 .. heap_pages - 1, NEW space \in {pml4_new} \cup spaces
  PROVE  /\ Translate(mem, space, HEAP_START + n) # Absent
         /\ Translate(mem, space, HEAP_START + n) = Asked(pml4_new, HEAP_START + n)
  <1> DEFINE page == HEAP_START + n
             k == <<pml4_new, page>>
  <1>0. n \in 0 .. HeapPages - 1
    BY BootNumbers DEF BInv, Counts
  <1>1. page \in Pages /\ KernelPage(page) /\ k \in DOMAIN given
    BY <1>0, HeapPageIs DEF BInv, HeapMapped
  <1>2. page # STACK_PAGE
    BY <1>1, BootNumbers
  <1> HIDE DEF page
  <1>3. Told(given, space, page) = given[k] /\ Asked(pml4_new, page) = given[k]
    BY <1>1 DEF Told, Asked
  <1> HIDE DEF k
  <1>4. Keyed(spaces, given)
    BY DEF BInv, Alive, Broken, Good, Worn
  <1>5. given[k] # Absent
    BY <1>1, <1>4, Numbers DEF Keyed
  <1>6. Translate(mem, space, page) = given[k]
    <2>0. space \in spaces \cup {pml4_new}
      OBVIOUS
    <2>1. CASE Alive
      <3>1. Faithful(mem, spaces, given)
        BY <2>1, MachineIs DEF Alive, Good
      <3> QED BY <1>1, <1>3, <2>0, <3>1 DEF Faithful
    <2>2. CASE Broken
      <3>1. Still(mem, spaces, given, STACK_PAGE)
        BY <2>2, MachineIs DEF Broken, Worn
      <3> QED BY <1>1, <1>2, <1>3, <1>5, <2>0, <3>1 DEF Still
    <2> QED BY <2>1, <2>2 DEF BInv
  <1> QED BY <1>3, <1>5, <1>6 DEF page

LEMMA BootTypes ==
  ASSUME BInv
  PROVE  BootTypeOK
  <1>1. machine \in Machine /\ spaces \subseteq Frames \ {0} /\ Keyed(spaces, given)
    <2>1. CASE Alive
      <3>1. IInv
        BY <2>1 DEF BInv, Alive, IInv
      <3>2. TypeOK
        BY <3>1, ApartIs DEF SpacesApart
      <3> QED BY <2>1, <3>2 DEF TypeOK, Alive, Good, Sound
    <2>2. CASE Broken
      BY <2>2 DEF Broken, Worn
    <2> QED BY <2>1, <2>2 DEF BInv
  <1>2. mem \in Tables /\ scratch \in Frames /\ free \subseteq Frames \ {0}
    BY <1>1, MachineIs DEF Machine
  <1>3. TypeOK
    <2>1. DOMAIN given \subseteq Frames \X Pages /\ \A k \in DOMAIN given : given[k] \in Frames \ {0}
      BY <1>1 DEF Keyed
    <2>2. users \in Nat /\ heap_pages \in 0 .. HeapPages
      BY DEF BInv, Counts
    <2>3. mem \in [Frames -> [Index -> Frames \cup {Absent}]]
      BY <1>2 DEF Tables, Entries
    <2> QED BY <1>1, <1>2, <2>1, <2>2, <2>3, Zenon DEF TypeOK
  <1> QED BY <1>3 DEF BInv, BootVars, BootTypeOK, Places

LEMMA StacksWhole ==
  ASSUME BInv
  PROVE  KernelStacksWhole
  <1>0. /\ StackPages \in Nat /\ StackPages > 0 /\ HEAP_START \in Nat /\ HEAP_START > 0 /\ heap_pages \in Nat
    BY BootNumbers DEF BInv, Counts
  <1>1. Fits(stacks, heap_pages) /\ Lined(stacks)
    BY Zenon DEF BInv, StackRoom
  <1>2. ASSUME NEW t \in DOMAIN stacks
        PROVE  \/ t = "idle" /\ stacks[t] = NULL
               \/ stacks[t] \in Nat /\ HEAP_START <= stacks[t] /\ stacks[t] + StackPages <= HEAP_START + heap_pages
    BY <1>1, Zenon DEF Fits
  <1>3. ASSUME NEW t \in DOMAIN stacks, stacks[t] = NULL
        PROVE  t = "idle"
    <2>1. ~(HEAP_START <= stacks[t])
      BY <1>0, <1>3 DEF NULL
    <2> QED BY <1>2, <2>1, Zenon
  <1>4. ASSUME NEW t \in DOMAIN stacks, stacks[t] # NULL
        PROVE  stacks[t] \in Nat /\ HEAP_START <= stacks[t] /\ stacks[t] + StackPages <= HEAP_START + heap_pages
    BY <1>2, <1>4, Zenon
  <1>5. ASSUME NEW t \in DOMAIN stacks, stacks[t] # NULL, NEW page \in Stack(t), NEW space \in {pml4_new} \cup spaces
        PROVE  /\ Translate(mem, space, page) # Absent
               /\ Translate(mem, space, page) = Asked(pml4_new, page)
    <2> DEFINE b == stacks[t]
               n == page - HEAP_START
    <2>1. b \in Nat /\ HEAP_START <= b /\ b + StackPages <= HEAP_START + heap_pages
      BY <1>4, <1>5
    <2>2. page \in b .. b + StackPages - 1
      BY DEF Stack
    <2> HIDE DEF b
    <2>3. n \in 0 .. heap_pages - 1 /\ page = HEAP_START + n
      BY <1>0, <2>1, <2>2
    <2> HIDE DEF n
    <2> QED BY <2>3, HeapSeen
  <1>6. ASSUME NEW t \in DOMAIN stacks, stacks[t] # NULL, NEW u \in DOMAIN stacks \ {t}, stacks[u] # NULL
        PROVE  Stack(t) \cap Stack(u) = {}
    <2> DEFINE a == stacks[t]
               b == stacks[u]
    <2>1. a \in Nat /\ b \in Nat
      BY <1>4, <1>6
    <2>2. a + StackPages <= b \/ b + StackPages <= a
      BY <1>1, <1>6 DEF Lined
    <2>3. Stack(t) = a .. a + StackPages - 1 /\ Stack(u) = b .. b + StackPages - 1
      BY DEF Stack
    <2> HIDE DEF a, b
    <2> QED BY <1>0, <2>1, <2>2, <2>3
  <1> QED BY <1>3, <1>5, <1>6, BootTypes DEF KernelStacksWhole

(* kernel_main keeps the page tables sound, or runs out of frames in the   *)
(* unchecked map of the user stack; and heap_extend maps the heap page by  *)
(* page without a gap, wherever it breaks off.                             *)
THEOREM BootInvariance == BootSpec /\ []RoomBelow => []BInv
  <1>1. BootInit => BInv
    BY BootFirst
  <1>2. BInv /\ RoomBelow /\ [BootNext]_allvars => BInv'
    BY BootStep
  <1> QED BY <1>1, <1>2, PTL DEF BootSpec

(* Every task that kinit_task and task_create make has a whole kernel stack*)
(* of its own, mapped in every address space, however many frames there    *)
(* are and wherever heap_extend, elf_load or the map of the user stack     *)
(* broke off.                                                              *)
THEOREM KernelStacks == BootSpec /\ []RoomBelow => []KernelStacksWhole
  <1>1. BInv => KernelStacksWhole
    BY StacksWhole
  <1> QED BY <1>1, BootInvariance, PTL

-----------------------------------------------------------------------------
(* The page of the user stack, from the walk that maps it until the task   *)
(* runs.                                                                   *)
HasStack == pc = "user task" \/ "user task" \in DOMAIN stacks
UserStack ==
  HasStack => /\ cr3 \in spaces /\ <<cr3, STACK_PAGE>> \in DOMAIN given
              /\ data[given[<<cr3, STACK_PAGE>>]] = Zeros

LEMMA GivenPage ==
  ASSUME NEW m, NEW S, NEW g, NEW role, Good(m, S, g, role), NEW k \in DOMAIN g
  PROVE  g[k] \in Frames \ {0} /\ role[g[k]] = 5
  <1>1. k \in Frames \X Pages /\ Proper(S, k[1], k[2]) /\ g[k] \in Frames \ {0}
    BY DEF Good, Keyed
  <1>2. k[1] \in Frames /\ k[2] \in Pages /\ k = <<k[1], k[2]>>
    BY <1>1
  <1>3. k[1] \in S \cup {pml4_new} /\ (KernelPage(k[2]) => k[1] = pml4_new)
    BY <1>1 DEF Proper
  <1>4. Told(g, k[1], k[2]) = g[k]
    BY <1>2, <1>3 DEF Told
  <1>5. Translate(m.mem, k[1], k[2]) = g[k]
    BY <1>2, <1>3, <1>4 DEF Good, Faithful
  <1>6. role[k[1]] = 1 /\ Tree(m.mem, role)
    BY <1>3, RootRoles
  <1> DEFINE c == k[1]
             page == k[2]
  <1>7. c \in Frames /\ role[c] = 1 /\ page \in Nat
    BY <1>2, <1>6, TopDigit
  <1> HIDE DEF c, page
  <1>8. Level(role, 5, Translate(m.mem, c, page))
    BY <1>6, <1>7, WalkLevels
  <1> QED BY <1>1, <1>5, <1>8, Numbers DEF Level, c, page

LEMMA UserStackStep ==
  ASSUME BInv, UserStack, BootNext
  PROVE  UserStack'
  <1> DEFINE k == <<cr3, STACK_PAGE>>
  <1>0. /\ BootVars /\ ("user task" \in DOMAIN stacks => pc = "up") /\ Counts
    BY Zenon DEF BInv, StackRoom
  <1>a. ASSUME given' = given, data' = data, cr3' = cr3, spaces' = spaces, HasStack' => HasStack
        PROVE  UserStack'
    BY <1>a DEF UserStack
  <1>1. CASE HeapPage
    <2>1. /\ Extends(heap_pages) /\ Lowest(machine) # 0 /\ spaces' = spaces
          /\ pc' = pc /\ stacks' = stacks /\ cr3' = cr3 /\ data' = data
      BY <1>0, <1>1, ExtendIs DEF HeapPage, boot
    <2>2. CASE given' = given
      <3>1. HasStack' => HasStack
        BY <2>1 DEF HasStack
      <3> QED BY <1>a, <2>1, <2>2, <3>1
    <2>3. CASE /\ DOMAIN given' = DOMAIN given \cup {<<pml4_new, HEAP_START + heap_pages>>}
               /\ \A x \in DOMAIN given : x[1] # pml4_new => given'[x] = given[x]
      <3> SUFFICES ASSUME HasStack'
                   PROVE  cr3' \in spaces' /\ k' \in DOMAIN given' /\ data'[given'[k']] = Zeros
        BY DEF UserStack
      <3>1. HasStack
        BY <2>1 DEF HasStack
      <3>2. cr3 \in spaces /\ k \in DOMAIN given /\ data[given[k]] = Zeros
        BY <3>1 DEF UserStack
      <3>3. ~Broken
        BY <2>1 DEF Broken, Worn, Lowest
      <3>4. pml4_new \notin spaces
        BY <3>3, RootRoles DEF BInv, Alive
      <3>5. k[1] # pml4_new /\ k' = k
        BY <2>1, <3>2, <3>4
      <3> HIDE DEF k
      <3> QED BY <2>1, <2>3, <3>2, <3>5
    <2> QED BY <2>1, <2>2, <2>3 DEF Extends
  <1>2. CASE HeapNoFrame \/ Up
    <2>1. given' = given /\ data' = data /\ cr3' = cr3 /\ spaces' = spaces /\ pc' = pc /\ stacks' = stacks
      BY <1>2 DEF HeapNoFrame, Up, vars, allvars, boot
    <2>2. HasStack' => HasStack
      BY <2>1 DEF HasStack
    <2> QED BY <1>a, <2>1, <2>2
  <1>3. CASE heap_init
    <2>1. given' = given /\ data' = data /\ cr3' = cr3 /\ spaces' = spaces /\ pc' = "idle" /\ stacks' = stacks
      BY <1>3 DEF heap_init, vars, Goto
    <2>2. HasStack' => HasStack
      BY <2>1 DEF HasStack
    <2> QED BY <1>a, <2>1, <2>2
  <1>4. ASSUME NEW t, NEW place, Order(t, place), Create(t, place)
        PROVE  UserStack'
    <2>1. /\ given' = given /\ data' = data /\ cr3' = cr3 /\ spaces' = spaces /\ pc' = place /\ pc = t
          /\ DOMAIN stacks' \subseteq DOMAIN stacks \cup {t}
      BY <1>4 DEF Create, vars, Goto, With
    <2>2. HasStack' => HasStack
      BY <1>4, <2>1 DEF HasStack, Order
    <2> QED BY <1>a, <2>1, <2>2
  <1>5. CASE CreateSpace \/ LoadPage \/ LoadFails \/ NextSegment \/ LoadReturns
    <2>1. pc \in {"space", "load"} /\ stacks' = stacks
      BY <1>5 DEF CreateSpace, LoadPage, LoadFails, NextSegment, LoadReturns, boot
    <2>2. pc' # "user task"
      BY <1>5 DEF CreateSpace, LoadPage, LoadFails, NextSegment, LoadReturns, Goto
    <2>3. ~HasStack'
      BY <1>0, <2>1, <2>2 DEF HasStack
    <2> QED BY <2>3 DEF UserStack
  <1>6. CASE MapStack
    <2> DEFINE f == Lowest(machine)
    <2>1. pc = "stack" /\ stacks' = stacks /\ cr3' = cr3
      BY <1>6 DEF MapStack
    <2>2. CASE f = 0
      <3>1. pc' = "up"
        BY <1>6, <2>2 DEF MapStack, Goto
      <3>2. ~HasStack'
        BY <1>0, <2>1, <3>1 DEF HasStack
      <3> QED BY <3>2 DEF UserStack
    <2>3. CASE f # 0
      <3>1. /\ data' = StackBytes(f) /\ given' = With(given, k, f) /\ spaces' = spaces
        BY <1>6, <2>3 DEF MapStack
      <3>2. ~Broken /\ cr3 \in spaces
        BY <1>0, <2>1 DEF Broken, BootVars
      <3>3. PICK role : Good(machine, spaces, given, role)
        BY <3>2 DEF BInv, Alive
      <3>4. f \in Frames
        BY <3>3, LowestIs DEF Good, Sound
      <3>5. data \in [Frames -> [Bytes -> Junk .. image.size]]
        BY <1>0 DEF BootVars
      <3> HIDE DEF f
      <3>6. data'[f] = Zeros
        BY <3>1, <3>4, <3>5 DEF StackBytes
      <3>7. k' = k
        BY <2>1
      <3> HIDE DEF k
      <3>8. k \in DOMAIN given' /\ given'[k] = f
        BY <3>1 DEF With
      <3>9. cr3' \in spaces' /\ k' \in DOMAIN given' /\ data'[given'[k']] = Zeros
        BY <2>1, <3>1, <3>2, <3>6, <3>7, <3>8
      <3> QED BY <3>9 DEF UserStack, k
    <2> QED BY <2>2, <2>3
  <1> QED BY <1>1, <1>2, <1>3, <1>4, <1>5, <1>6 DEF BootNext, Order

(* The entry for a page of a user space.                                   *)
LEMMA LastEntry ==
  ASSUME NEW role, Good(machine, spaces, given, role), NEW c \in spaces, NEW page \in Pages, ~KernelPage(page),
         Translate(mem, c, page) # Absent
  PROVE  \E e \in OwnEntries(c) : mem[e[1]][e[2]] = Translate(mem, c, page)
  <1> DEFINE a == Look(mem, c, Path(page)[1])
             b == Look(mem, a, Path(page)[2])
             d == Pt(mem, c, page)
             e1 == <<c, Path(page)[1]>>
             e2 == <<a, Path(page)[2]>>
             e3 == <<b, Path(page)[3]>>
             e4 == <<d, Path(page)[4]>>
  <1>1. c \in Frames /\ c # Absent
    <2>1. c \in spaces \cup {pml4_new}
      OBVIOUS
    <2> QED BY <2>1, RootRoles, Numbers
  <1>2. /\ Path(page)[1] \in Index /\ Path(page)[2] \in Index /\ Path(page)[3] \in Index
        /\ Path(page)[4] \in Index
    BY TopDigit, Paths
  <1>3. Path(page)[1] # KERNEL_ENTRY
    BY KernelPath DEF K
  <1>4. Translate(mem, c, page) = Look(mem, d, Path(page)[4])
    BY TranslateIs
  <1>5. d # Absent /\ d = Look(mem, b, Path(page)[3])
    BY <1>4 DEF Look, Pt
  <1>6. b # Absent
    BY <1>5 DEF Look
  <1>7. a # Absent
    BY <1>6 DEF Look
  <1>8. /\ mem[e1[1]][e1[2]] = a /\ mem[e2[1]][e2[2]] = b /\ mem[e3[1]][e3[2]] = d
        /\ mem[e4[1]][e4[2]] = Translate(mem, c, page)
    BY <1>1, <1>4, <1>5, <1>6, <1>7 DEF Look
  <1> HIDE DEF a, b, d
  <1> DEFINE top == {e \in Below({c}) : e[2] # KERNEL_ENTRY}
             pdpts == Below(Targets(top))
             pds == Below(Targets(pdpts))
  <1>9. e1 \in top /\ a \in Targets(top)
    <2>1. e1 \in {c} \X Index /\ e1[2] # KERNEL_ENTRY
      BY <1>2, <1>3
    <2> HIDE DEF e1
    <2> QED BY <1>7, <1>8, <2>1 DEF Below, Targets
  <1> HIDE DEF top
  <1>10. e2 \in pdpts /\ b \in Targets(pdpts)
    <2>1. e2 \in Targets(top) \X Index
      BY <1>2, <1>9
    <2> HIDE DEF e2
    <2> QED BY <1>6, <1>8, <2>1 DEF Below, Targets
  <1> HIDE DEF pdpts
  <1>11. e3 \in pds /\ d \in Targets(pds)
    <2>1. e3 \in Targets(pdpts) \X Index
      BY <1>2, <1>10
    <2> HIDE DEF e3
    <2> QED BY <1>5, <1>8, <2>1 DEF Below, Targets
  <1> HIDE DEF pds
  <1>12. e4 \in Below(Targets(pds))
    <2>1. e4 \in Targets(pds) \X Index
      BY <1>2, <1>11
    <2> HIDE DEF e4
    <2> QED BY <1>8, <2>1 DEF Below
  <1>13. e4 \in OwnEntries(c)
    BY <1>12 DEF OwnEntries, top, pdpts, pds
  <1> HIDE DEF e4
  <1> QED BY <1>8, <1>13

LEMMA StackReady ==
  ASSUME BInv, UserStack
  PROVE  UserStackReady
  <1> SUFFICES ASSUME "user task" \in DOMAIN stacks
               PROVE  LET f == Translate(mem, cr3, STACK_PAGE)
                      IN  /\ f # Absent /\ data[f] = Zeros
                          /\ Cardinality({e \in AllEntries : mem[e[1]][e[2]] = f}) = 1
    BY DEF UserStackReady
  <1> DEFINE k == <<cr3, STACK_PAGE>>
             f == Translate(mem, cr3, STACK_PAGE)
             E == {e \in AllEntries : mem[e[1]][e[2]] = f}
  <1>1. cr3 \in spaces /\ k \in DOMAIN given /\ data[given[k]] = Zeros
    BY DEF UserStack, HasStack
  <1>2. PICK role : Good(machine, spaces, given, role)
    BY DEF BInv, Alive, Broken
  <1>3. STACK_PAGE \in Pages /\ ~KernelPage(STACK_PAGE)
    BY BootNumbers
  <1>4. f = given[k]
    <2>1. f = Told(given, cr3, STACK_PAGE)
      BY <1>1, <1>2, <1>3, MachineIs DEF Good, Faithful
    <2> QED BY <1>1, <1>3, <2>1 DEF Told
  <1> HIDE DEF k
  <1>5. given[k] # Absent
    <2>1. given[k] \in Frames
      BY <1>1, <1>2, GivenPage
    <2> QED BY <2>1, Numbers
  <1>6. f # Absent /\ data[f] = Zeros
    BY <1>1, <1>4, <1>5
  <1>7. PICK e \in OwnEntries(cr3) : mem[e[1]][e[2]] = f
    BY <1>1, <1>2, <1>3, <1>6, LastEntry
  <1>8. e \in AllEntries
    BY <1>1 DEF AllEntries
  <1>9. SpacesApart
    BY <1>2, ApartIs DEF BInv, IInv
  <1> HIDE DEF f
  <1>10. E = {e}
    BY <1>7, <1>8, <1>9 DEF SpacesApart
  <1>11. Cardinality(E) = 1
    BY <1>10, FS_Singleton
  <1> QED BY <1>6, <1>11 DEF f

(* The user task starts on a cleared stack page of its own, although       *)
(* kernel_main does not check the tables that it allocates for it.         *)
THEOREM UserStackPage == BootSpec /\ []RoomBelow => []UserStackReady
  <1>1. BootInit => UserStack
    BY DEF BootInit, UserStack, HasStack
  <1>2. BInv /\ UserStack /\ [BootNext]_allvars => UserStack'
    <2> SUFFICES ASSUME BInv, UserStack, [BootNext]_allvars PROVE UserStack'
      OBVIOUS
    <2>1. CASE UNCHANGED allvars
      BY <2>1 DEF allvars, vars, boot, UserStack, HasStack
    <2> QED BY <2>1, UserStackStep
  <1>3. BInv /\ UserStack => UserStackReady
    BY StackReady
  <1> QED BY <1>1, <1>2, <1>3, BootInvariance, PTL DEF BootSpec

-----------------------------------------------------------------------------
LEMMA BelowZero ==
  ASSUME NEW s \in Nat \ {0}
  PROVE  (-1) \div s < 0 /\ (-1) \div s \in Int
  <1> DEFINE d == (-1) \div s
             r == (-1) % s
  <1>1. d \in Int /\ r \in Nat /\ -1 = s * d + r
    OBVIOUS
  <1> HIDE DEF d, r
  <1>2. d >= 0 => s * d >= 0 /\ s * d \in Int
    BY <1>1
  <1>3. d < 0
    BY <1>1, <1>2
  <1> QED BY <1>1, <1>3 DEF d

(* The pages of a segment are those that elf_load goes through.            *)
LEMMA CoversIs ==
  ASSUME NEW p, NEW v \in Nat, v = p.p_vaddr, NEW z \in Nat, z = p.p_memsz,
         v + z <= STACK_PAGE * PMM_FRAME_SIZE, NEW page
  PROVE  page \in Covers(p) <=> page \in Nat /\ v \div PMM_FRAME_SIZE <= page /\ page < PageEnd(v + z)
  <1> DEFINE s == PMM_FRAME_SIZE
             q == v \div s
             y == v + z - 1
             h == y \div s
             e == PageEnd(v + z)
  <1>1. s \in Nat \ {0}
    BY Limits
  <1>2. Covers(p) = q .. h
    BY DEF Covers
  <1>3. q \in Nat
    BY <1>1, Quotients
  <1>4. e \in Nat /\ \A k \in Nat : e >= k <=> v + z + s - 1 >= k * s
    <2>1. v + z \in Nat
      OBVIOUS
    <2>2. /\ PageEnd(v + z) \in Nat
          /\ \A k \in Nat : PageEnd(v + z) >= k <=> (v + z) + PMM_FRAME_SIZE - 1 >= k * PMM_FRAME_SIZE
      BY <2>1, PageEndIs
    <2>3. (v + z) + PMM_FRAME_SIZE - 1 = v + z + s - 1
      OBVIOUS
    <2> QED BY <2>2, <2>3
  <1> HIDE DEF s, q, e
  <1>5. CASE v + z = 0
    <2>1. y = -1
      BY <1>5
    <2>2. h < 0 /\ h \in Int
      BY <1>1, <2>1, BelowZero
    <2> HIDE DEF h
    <2>3. q .. h = {}
      BY <1>3, <2>2
    <2>4. ~(e >= 1)
      <3>1. 1 * s = s /\ 1 \in Nat
        BY <1>1
      <3>2. ~(v + z + s - 1 >= 1 * s)
        BY <1>1, <1>5, <3>1
      <3> QED BY <1>4, <3>1, <3>2
    <2>5. ~(page \in Nat /\ page < e)
      BY <1>4, <2>4
    <2> QED BY <1>2, <2>3, <2>5 DEF q, e, s
  <1>6. CASE v + z # 0
    <2>1. y \in Nat
      BY <1>6
    <2>2. h \in Nat /\ \A k \in Nat : h >= k <=> y >= k * s
      BY <1>1, <2>1, Quotients
    <2> HIDE DEF h
    <2>3. ASSUME NEW k \in Nat PROVE h >= k <=> e >= k + 1
      <3>1. k * s \in Nat /\ (k + 1) * s = k * s + s /\ k + 1 \in Nat
        BY <1>1
      <3>2. y >= k * s <=> v + z + s - 1 >= (k + 1) * s
        BY <1>1, <3>1
      <3> QED BY <1>4, <2>2, <3>1, <3>2
    <2>4. page \in q .. h <=> page \in Nat /\ q <= page /\ page < e
      BY <1>3, <1>4, <2>2, <2>3
    <2> QED BY <1>2, <2>4 DEF q, e, s
  <1> QED BY <1>5, <1>6

(* What elf_load has put in place: all pages of earlier segments, and of   *)
(* this one those before va.                                               *)
Passed(i, page) == i < seg \/ (i = seg /\ page < image.phdrs[i].p_vaddr \div PMM_FRAME_SIZE + done)
Laid(i, page) ==
  /\ <<cr3, page>> \in DOMAIN given
  /\ data[given[<<cr3, page>>]] = FilledAt(image.phdrs[i], page, image.size)
Loading == rc \in {"loading", "ok"} /\ PageAligned /\ Apart
Loaded ==
  /\ pc \in {"heap", "idle", "thread a", "thread b", "space"} => rc = "none" /\ seg = 1 /\ done = 0
  /\ rc = "ok" => seg > Len(image.phdrs)
  /\ Loading => \A i \in Segments : \A page \in Covers(image.phdrs[i]) : Passed(i, page) => Laid(i, page)

LEMMA CoveredPage ==
  ASSUME image \in Images, NEW i \in Segments, NEW page
  PROVE  /\ i \in DOMAIN image.phdrs /\ i \in Nat
         /\ page \in Covers(image.phdrs[i]) <=>
              /\ page \in Nat /\ image.phdrs[i].p_vaddr \div PMM_FRAME_SIZE <= page
              /\ page < PageEnd(image.phdrs[i].p_vaddr + image.phdrs[i].p_memsz)
         /\ page \in Covers(image.phdrs[i]) => page \in Nat /\ page < STACK_PAGE
  <1> DEFINE p == image.phdrs[i]
             e == PageEnd(p.p_vaddr + p.p_memsz)
  <1>1. i \in DOMAIN image.phdrs
    BY DEF Segments
  <1>2. /\ p.p_vaddr \in Nat /\ p.p_memsz \in Nat /\ p.p_vaddr + p.p_memsz <= STACK_PAGE * PMM_FRAME_SIZE
    BY <1>1, HeaderIs
  <1>3. i \in Nat
    <2>1. image \in ElfImage
      BY BootAssumption
    <2>2. image.phdrs \in Seq(ProgramHeader)
      BY <2>1 DEF ElfImage
    <2> QED BY <1>1, <2>2
  <1>4. e \in Nat /\ e <= STACK_PAGE /\ STACK_PAGE \in Nat
    BY <1>2, PageEndIs, BootNumbers, TopDigit
  <1> HIDE DEF p
  <1>5. page \in Covers(p) <=> page \in Nat /\ p.p_vaddr \div PMM_FRAME_SIZE <= page /\ page < e
    BY <1>2, CoversIs
  <1> HIDE DEF e
  <1>6. page \in Covers(p) => page \in Nat /\ page < STACK_PAGE
    BY <1>4, <1>5
  <1> QED BY <1>1, <1>3, <1>5, <1>6 DEF p, e

Early == pc \in {"heap", "idle", "thread a", "thread b", "space"}
LaidKept == \A i \in Segments : \A page \in Covers(image.phdrs[i]) : Loading /\ Laid(i, page) => Laid(i, page)'

LEMMA LoadedKeep ==
  ASSUME Loaded, image' = image, rc' = rc, seg' = seg, done' = done, Early' => Early, LaidKept
  PROVE  Loaded'
  <1>1. /\ Segments' = Segments /\ Loading' = Loading
        /\ \A i, page : Passed(i, page)' = Passed(i, page)
    BY DEF Segments, Loading, PageAligned, Apart, Passed
  <1>2. Early' => rc' = "none" /\ seg' = 1 /\ done' = 0
    BY DEF Loaded, Early
  <1>3. rc' = "ok" => seg' > Len(image'.phdrs)
    BY DEF Loaded
  <1>4. ASSUME Loading', NEW i \in Segments', NEW page \in Covers(image'.phdrs[i]), Passed(i, page)'
        PROVE  Laid(i, page)'
    <2>1. Loading /\ i \in Segments /\ page \in Covers(image.phdrs[i]) /\ Passed(i, page)
      BY <1>1, <1>4
    <2>2. Laid(i, page)
      BY <2>1 DEF Loaded
    <2> QED BY <2>1, <2>2 DEF LaidKept
  <1> QED BY <1>2, <1>3, <1>4 DEF Loaded, Early

LEMMA LaidSame ==
  ASSUME image' = image, cr3' = cr3, given' = given, data' = data
  PROVE  LaidKept
  BY DEF LaidKept, Laid

LEMMA FreshApart ==
  ASSUME NEW m, NEW S, NEW g, NEW role, Good(m, S, g, role), NEW f, f = Lowest(m), f # 0, NEW k \in DOMAIN g
  PROVE  g[k] \in Frames /\ g[k] # f
  <1>1. g[k] \in Frames /\ role[g[k]] = 5
    BY GivenPage
  <1>2. f \in m.free
    BY LowestIs DEF Good, Sound
  <1>3. role[f] = 0 \/ role[f] = 6
    BY <1>2 DEF Good, Sound, Tree, InSight
  <1> QED BY <1>1, <1>3

Adds(q, f, v) ==
  /\ image' = image /\ cr3' = cr3
  /\ given' = With(given, <<cr3, q>>, f) /\ data' = [data EXCEPT ![f] = v]

LEMMA LaidWith ==
  ASSUME NEW role, Good(machine, spaces, given, role), BootVars, NEW q, NEW f, f = Lowest(machine), f # 0, NEW v,
         Adds(q, f, v), NEW i, NEW page, page # q, Laid(i, page)
  PROVE  Laid(i, page)'
  <1> DEFINE k == <<cr3, page>>
             l == <<cr3, q>>
  <1>0. /\ image' = image /\ cr3' = cr3 /\ given' = With(given, l, f) /\ data' = [data EXCEPT ![f] = v]
    BY DEF Adds
  <1>1. k # l /\ k' = k
    BY <1>0
  <1>2. k \in DOMAIN given /\ data[given[k]] = FilledAt(image.phdrs[i], page, image.size)
    BY DEF Laid
  <1> HIDE DEF k, l
  <1>4. k \in DOMAIN given' /\ given'[k] = given[k]
    BY <1>0, <1>1, <1>2 DEF With
  <1>5. given[k] \in Frames /\ given[k] # f
    BY <1>2, FreshApart
  <1>8. data'[given[k]] = data[given[k]]
    <2>1. data \in [Frames -> [Bytes -> Junk .. image.size]]
      BY DEF BootVars
    <2> QED BY <1>0, <1>5, <2>1
  <1> QED BY <1>0, <1>1, <1>2, <1>4, <1>8 DEF Laid, k

LEMMA LoadedHeap ==
  ASSUME BInv, Loaded, HeapPage
  PROVE  Loaded'
  <1>1. /\ Extends(heap_pages) /\ Lowest(machine) # 0
        /\ pc' = pc /\ cr3' = cr3 /\ data' = data /\ image' = image /\ rc' = rc /\ seg' = seg /\ done' = done
    BY ExtendIs DEF BInv, HeapPage, boot
  <1>2. Early' => Early
    BY <1>1 DEF Early
  <1>3. LaidKept
    <2>1. CASE given' = given
      BY <1>1, <2>1, LaidSame
    <2>2. CASE /\ DOMAIN given' = DOMAIN given \cup {<<pml4_new, HEAP_START + heap_pages>>}
               /\ \A x \in DOMAIN given : x[1] # pml4_new => given'[x] = given[x]
      <3> SUFFICES ASSUME Loading, NEW i \in Segments, NEW page \in Covers(image.phdrs[i]), Laid(i, page)
                   PROVE  Laid(i, page)'
        BY DEF LaidKept
      <3> DEFINE k == <<cr3, page>>
      <3>1. ~Broken
        BY <1>1 DEF Broken, Worn, Lowest
      <3>2. cr3 \in spaces
        BY DEF BInv, BootVars, Loading
      <3>3. pml4_new \notin spaces
        BY <3>1, RootRoles DEF BInv, Alive
      <3>4. k[1] # pml4_new /\ k' = k
        BY <1>1, <3>2, <3>3
      <3>5. k \in DOMAIN given /\ data[given[k]] = FilledAt(image.phdrs[i], page, image.size)
        BY DEF Laid
      <3> HIDE DEF k
      <3>6. k' \in DOMAIN given' /\ given'[k'] = given[k]
        BY <2>2, <3>4, <3>5
      <3> QED BY <1>1, <3>5, <3>6 DEF Laid, k
    <2> QED BY <1>1, <2>1, <2>2 DEF Extends
  <1> QED BY <1>1, <1>2, <1>3, LoadedKeep

LEMMA LoadedPage ==
  ASSUME BInv, Loaded, LoadPage
  PROVE  Loaded'
  <1>0. PICK f, q, v, j : f = Lowest(machine) /\ q = va /\ v = Filled /\ j = seg
    OBVIOUS
  <1>1. /\ pc = "load" /\ Loads /\ f # 0 /\ data' = [data EXCEPT ![f] = v]
        /\ pc' = pc /\ cr3' = cr3 /\ image' = image /\ seg' = seg
        /\ given' = given => rc' = "failed"
        /\ given' # given => done' = done + 1 /\ rc' = rc
        /\ given' = given \/ given' = With(given, <<cr3, q>>, f)
    BY <1>0 DEF LoadPage, elf_load_page
  <1>2. ~Early'
    BY <1>1 DEF Early
  <1>3. CASE given' = given
    <2>1. rc' = "failed"
      BY <1>1, <1>3
    <2> QED BY <1>2, <2>1 DEF Loaded, Loading, Early
  <1>4. CASE given' # given
    <2>1. rc' = rc /\ rc = "loading" /\ given' = With(given, <<cr3, q>>, f) /\ done' = done + 1
      BY <1>1, <1>4 DEF Loads
    <2>2. BootVars /\ image \in Images /\ done \in Nat /\ j \in Nat
      BY <1>0 DEF BInv, BootVars
    <2>3. j \in DOMAIN image.phdrs /\ q \in Nat /\ q < va_end
      BY <1>0, <1>1, <2>2, LoadsIs
    <2>4. PICK role : Good(machine, spaces, given, role)
      BY <1>1 DEF BInv, Alive, Broken
    <2>5. j \in Segments
      BY <1>0, <1>1, <2>3 DEF Loads, Segments, ph
    <2>6. q = image.phdrs[j].p_vaddr \div PMM_FRAME_SIZE + done
      BY <1>0 DEF va, ph
    <2>7. image.phdrs[j].p_vaddr \div PMM_FRAME_SIZE \in Nat
      BY <2>2, <2>3, HeaderIs, Limits, Quotients
    <2>8. q \in Covers(image.phdrs[j])
      <3>1. va_end = PageEnd(image.phdrs[j].p_vaddr + image.phdrs[j].p_memsz)
        BY <1>0 DEF va_end, PageEnd, ph
      <3>2. image.phdrs[j].p_vaddr \div PMM_FRAME_SIZE <= q
        BY <2>2, <2>6, <2>7
      <3> QED BY <2>2, <2>3, <2>5, <3>1, <3>2, CoveredPage
    <2>9. f \in Frames
      BY <1>0, <2>4, LowestIs DEF Good, Sound
    <2>10. data'[f] = FilledAt(image.phdrs[j], q, image.size)
      <3>1. v = FilledAt(image.phdrs[j], q, image.size)
        BY <1>0, FilledIs DEF ph
      <3>2. data \in [Frames -> [Bytes -> Junk .. image.size]]
        BY DEF BInv, BootVars
      <3> QED BY <1>1, <2>9, <3>1, <3>2
    <2>11. Laid(j, q)'
      <3> DEFINE l == <<cr3, q>>
      <3>1. given' = With(given, l, f) /\ l' = l
        BY <1>1, <2>1
      <3> HIDE DEF l
      <3>2. l \in DOMAIN given' /\ given'[l] = f
        BY <3>1 DEF With
      <3> QED BY <1>1, <2>10, <3>1, <3>2 DEF Laid, l
    <2>12. ASSUME Loading', NEW i \in Segments', NEW page \in Covers(image'.phdrs[i]), Passed(i, page)'
           PROVE  Laid(i, page)'
      <3>1. Loading /\ i \in Segments /\ page \in Covers(image.phdrs[i])
        BY <1>1, <2>1, <2>12 DEF Loading, Segments, PageAligned, Apart
      <3>2. i < j \/ (i = j /\ page < image.phdrs[i].p_vaddr \div PMM_FRAME_SIZE + (done + 1))
        BY <1>0, <1>1, <2>1, <2>12 DEF Passed
      <3>3. page \in Nat /\ i \in Nat
        BY <2>2, <3>1, CoveredPage
      <3>4. CASE i = j /\ page = q
        BY <2>11, <3>4
      <3>5. CASE ~(i = j /\ page = q)
        <4>1. Passed(i, page) /\ page # q
          <5>1. CASE i < j
            <6>1. i # j
              BY <2>2, <3>3, <5>1
            <6>2. page # q
              BY <2>5, <2>8, <3>1, <6>1 DEF Loading, Apart
            <6> QED BY <1>0, <5>1, <6>2 DEF Passed
          <5>2. CASE i = j /\ page < image.phdrs[i].p_vaddr \div PMM_FRAME_SIZE + (done + 1)
            <6>1. page # q
              BY <3>5, <5>2
            <6>2. page < image.phdrs[i].p_vaddr \div PMM_FRAME_SIZE + done
              BY <2>2, <2>6, <2>7, <3>3, <5>2, <6>1
            <6> QED BY <1>0, <5>2, <6>1, <6>2 DEF Passed
          <5> QED BY <3>2, <5>1, <5>2
        <4>2. Laid(i, page)
          BY <3>1, <4>1 DEF Loaded
        <4>3. Adds(q, f, v)
          BY <1>1, <2>1 DEF Adds
        <4> QED BY <1>0, <1>1, <2>2, <2>4, <4>1, <4>2, <4>3, LaidWith
      <3> QED BY <3>4, <3>5
    <2>13. rc' # "ok"
      BY <2>1
    <2> QED BY <1>2, <2>12, <2>13 DEF Loaded, Early
  <1> QED BY <1>3, <1>4

LEMMA LoadedNext ==
  ASSUME BInv, Loaded, NextSegment
  PROVE  Loaded'
  <1>1. /\ pc = "load" /\ pc' = pc /\ rc = "loading" /\ ~Bad /\ ~Loads
        /\ given' = given /\ data' = data /\ cr3' = cr3 /\ image' = image
        /\ \/ seg > Len(image.phdrs) /\ rc' = "ok" /\ seg' = seg /\ done' = done
           \/ ~(seg > Len(image.phdrs)) /\ seg' = seg + 1 /\ done' = 0 /\ rc' = rc
    BY DEF NextSegment, vars
  <1>2. ~Early'
    BY <1>1 DEF Early
  <1>3. image \in Images /\ seg \in Nat /\ done \in Nat
    BY DEF BInv, BootVars
  <1>4. ASSUME Loading', NEW i \in Segments', NEW page \in Covers(image'.phdrs[i]), Passed(i, page)'
        PROVE  Laid(i, page)'
    <2>1. Loading /\ i \in Segments /\ page \in Covers(image.phdrs[i])
      BY <1>1, <1>4 DEF Loading, Segments, PageAligned, Apart
    <2>2. Passed(i, page)
      <3>1. CASE seg' = seg /\ done' = done
        BY <1>1, <1>4, <3>1 DEF Passed
      <3>2. CASE ~(seg > Len(image.phdrs)) /\ seg' = seg + 1 /\ done' = 0
        <4> DEFINE b == image.phdrs[i].p_vaddr \div PMM_FRAME_SIZE
                   e == PageEnd(image.phdrs[i].p_vaddr + image.phdrs[i].p_memsz)
        <4>1. i \in DOMAIN image.phdrs /\ i \in Nat /\ page \in Nat /\ b <= page /\ page < e
          BY <1>3, <2>1, CoveredPage
        <4>2. /\ image.phdrs[i].p_vaddr \in Nat /\ image.phdrs[i].p_memsz \in Nat
              /\ image.phdrs[i].p_vaddr + image.phdrs[i].p_memsz <= STACK_PAGE * PMM_FRAME_SIZE
          BY <1>3, <4>1, HeaderIs
        <4>3. b \in Nat
          BY <4>2, Limits, Quotients
        <4>4. e \in Nat
          BY <4>2, PageEndIs
        <4>5. i < seg + 1 \/ (i = seg + 1 /\ page < b + 0)
          BY <1>1, <1>4, <3>2 DEF Passed
        <4>6. ~(page < b + 0)
          BY <4>1, <4>3
        <4>7. i < seg \/ i = seg
          BY <1>3, <4>1, <4>5, <4>6
        <4>8. i = seg => b + done >= e
          <5> SUFFICES ASSUME i = seg PROVE b + done >= e
            OBVIOUS
          <5>1. ph.load /\ seg <= Len(image.phdrs)
            <6>1. image.phdrs[i].load
              BY <2>1 DEF Segments
            <6>2. image.phdrs \in Seq(ProgramHeader)
              <7>1. image \in ElfImage
                BY <1>3, BootAssumption
              <7> QED BY <7>1 DEF ElfImage
            <6> QED BY <4>1, <6>1, <6>2 DEF ph
          <5>2. ~(va < va_end)
            BY <1>1, <5>1 DEF Loads
          <5>3. va = b + done /\ va_end = e
            BY DEF va, va_end, ph, PageEnd
          <5> HIDE DEF b, e
          <5> QED BY <1>3, <4>3, <4>4, <5>2, <5>3
        <4> HIDE DEF e
        <4>9. i = seg => page < b + done
          BY <1>3, <4>1, <4>3, <4>4, <4>8
        <4> QED BY <4>7, <4>9 DEF Passed
      <3> QED BY <1>1, <3>1, <3>2
    <2>3. Laid(i, page)
      BY <2>1, <2>2 DEF Loaded
    <2> QED BY <1>1, <2>3 DEF Laid
  <1>5. rc' = "ok" => seg' > Len(image'.phdrs)
    BY <1>1
  <1> QED BY <1>2, <1>4, <1>5 DEF Loaded, Early

LEMMA LoadedSpace ==
  ASSUME BInv, Loaded, CreateSpace
  PROVE  Loaded'
  <1>1. /\ pc = "space" /\ image' = image /\ seg' = seg /\ done' = done
        /\ pc' \in {"load", "up"} /\ (rc' = "loading" \/ rc' = rc)
    BY DEF CreateSpace, Goto
  <1>2. rc = "none" /\ seg = 1 /\ done = 0
    BY <1>1 DEF Loaded
  <1>3. ~Early' /\ rc' # "ok"
    BY <1>1, <1>2 DEF Early
  <1>4. ASSUME NEW i \in Segments', NEW page \in Covers(image'.phdrs[i])
        PROVE  ~Passed(i, page)'
    <2> DEFINE b == image.phdrs[i].p_vaddr \div PMM_FRAME_SIZE
    <2>1. image \in Images /\ i \in Segments /\ page \in Covers(image.phdrs[i])
      BY <1>1 DEF BInv, BootVars, Segments
    <2>2. i \in DOMAIN image.phdrs /\ i \in Nat /\ page \in Nat /\ b <= page
      BY <2>1, CoveredPage
    <2>3. b \in Nat
      BY <2>1, <2>2, HeaderIs, Limits, Quotients
    <2>4. i >= 1
      <3>1. image.phdrs \in Seq(ProgramHeader)
        <4>1. image \in ElfImage
          BY <2>1, BootAssumption
        <4> QED BY <4>1 DEF ElfImage
      <3> QED BY <2>2, <3>1
    <2>5. ~(i < 1) /\ ~(page < b + 0)
      BY <2>2, <2>3, <2>4
    <2> QED BY <1>1, <1>2, <2>5 DEF Passed
  <1> QED BY <1>3, <1>4 DEF Loaded, Early

LEMMA LoadedStack ==
  ASSUME BInv, Loaded, MapStack
  PROVE  Loaded'
  <1>0. PICK f : f = Lowest(machine)
    OBVIOUS
  <1>1. pc = "stack" /\ cr3' = cr3 /\ image' = image /\ rc' = rc /\ seg' = seg /\ done' = done
    BY DEF MapStack
  <1>2. ~Early'
    <2>1. pc' \in {"user task", "up"}
      BY DEF MapStack, Goto
    <2> QED BY <2>1 DEF Early
  <1>3. LaidKept
    <2>1. CASE f = 0
      <3>1. given' = given /\ data' = data
        BY <1>0, <2>1 DEF MapStack, vars
      <3> QED BY <1>1, <3>1, LaidSame
    <2>2. CASE f # 0
      <3>1. given' = With(given, <<cr3, STACK_PAGE>>, f) /\ data' = [data EXCEPT ![f] = Zeros]
        BY <1>0, <2>2 DEF MapStack, StackBytes
      <3>2. Adds(STACK_PAGE, f, Zeros)
        BY <1>1, <3>1 DEF Adds
      <3>3. PICK role : Good(machine, spaces, given, role)
        BY <1>1 DEF BInv, Alive, Broken
      <3>4. BootVars /\ image \in Images
        BY DEF BInv, BootVars
      <3>5. ASSUME NEW i \in Segments, NEW page \in Covers(image.phdrs[i]), Laid(i, page)
            PROVE  Laid(i, page)'
        <4>1. page \in Nat /\ page < STACK_PAGE /\ STACK_PAGE \in Nat
          BY <3>4, CoveredPage, BootNumbers, TopDigit
        <4>2. page # STACK_PAGE
          BY <4>1
        <4> QED BY <1>0, <2>2, <3>2, <3>3, <3>4, <3>5, <4>2, LaidWith
      <3> QED BY <3>5 DEF LaidKept
    <2> QED BY <2>1, <2>2
  <1> QED BY <1>1, <1>2, <1>3, LoadedKeep

LEMMA LoadedStep ==
  ASSUME BInv, Loaded, BootNext
  PROVE  Loaded'
  <1>1. CASE HeapPage
    BY <1>1, LoadedHeap
  <1>2. CASE HeapNoFrame \/ Up \/ LoadReturns \/ heap_init
    <2>1. /\ image' = image /\ rc' = rc /\ seg' = seg /\ done' = done /\ cr3' = cr3 /\ given' = given /\ data' = data
      BY <1>2 DEF HeapNoFrame, Up, LoadReturns, heap_init, vars, allvars, boot
    <2>2. Early' => Early
      BY <1>2 DEF HeapNoFrame, Up, LoadReturns, heap_init, Goto, allvars, Early
    <2> QED BY <2>1, <2>2, LaidSame, LoadedKeep
  <1>3. ASSUME NEW t, NEW place, Order(t, place), Create(t, place)
        PROVE  Loaded'
    <2>1. /\ image' = image /\ rc' = rc /\ seg' = seg /\ done' = done /\ cr3' = cr3 /\ given' = given /\ data' = data
      BY <1>3 DEF Create, vars
    <2>2. pc = t /\ pc' = place
      BY <1>3 DEF Create, Goto
    <2>3. Early' => Early
      BY <1>3, <2>2 DEF Order, Early
    <2> QED BY <2>1, <2>3, LaidSame, LoadedKeep
  <1>4. CASE CreateSpace
    BY <1>4, LoadedSpace
  <1>5. CASE LoadPage
    BY <1>5, LoadedPage
  <1>6. CASE LoadFails
    <2>1. pc' = "load" /\ rc' = "failed"
      BY <1>6 DEF LoadFails
    <2> QED BY <2>1 DEF Loaded, Loading
  <1>7. CASE NextSegment
    BY <1>7, LoadedNext
  <1>8. CASE MapStack
    BY <1>8, LoadedStack
  <1> QED BY <1>1, <1>2, <1>3, <1>4, <1>5, <1>6, <1>7, <1>8 DEF BootNext, Order

(* A page of user memory below the stack, as the program sees it.          *)
LEMMA UserSeen ==
  ASSUME BInv, cr3 \in spaces, NEW page \in Nat, page < STACK_PAGE, <<cr3, page>> \in DOMAIN given
  PROVE  Translate(mem, cr3, page) = given[<<cr3, page>>] /\ Translate(mem, cr3, page) # Absent
  <1> DEFINE k == <<cr3, page>>
  <1>1. page \in Pages /\ ~KernelPage(page) /\ page # STACK_PAGE
    <2>1. STACK_PAGE \in Nat
      BY BootNumbers, TopDigit
    <2> QED BY <2>1, BelowStack
  <1>2. Told(given, cr3, page) = given[k]
    BY <1>1 DEF Told
  <1>3. k \in DOMAIN given
    OBVIOUS
  <1> HIDE DEF k
  <1>4. given[k] # Absent
    <2>1. Keyed(spaces, given)
      BY DEF BInv, Alive, Broken, Good, Worn
    <2> QED BY <1>3, <2>1, Numbers DEF Keyed
  <1>5. Translate(mem, cr3, page) = given[k]
    <2>1. CASE Alive
      <3>1. Faithful(mem, spaces, given)
        BY <2>1, MachineIs DEF Alive, Good
      <3> QED BY <1>1, <1>2, <3>1 DEF Faithful
    <2>2. CASE Broken
      <3>1. Still(mem, spaces, given, STACK_PAGE)
        BY <2>2, MachineIs DEF Broken, Worn
      <3> QED BY <1>1, <1>2, <1>4, <3>1 DEF Still
    <2> QED BY <2>1, <2>2 DEF BInv
  <1> QED BY <1>4, <1>5 DEF k

LEMMA ImagePlaced ==
  ASSUME BInv, Loaded
  PROVE  ImageInPlace
  <1> SUFFICES ASSUME rc = "ok", PageAligned, Apart, NEW i \in Segments,
                      NEW k \in 0 .. image.phdrs[i].p_memsz - 1
               PROVE  Reads(image.phdrs[i].p_vaddr + k) =
                        IF k < image.phdrs[i].p_filesz /\ image.phdrs[i].p_offset + k < image.size
                        THEN image.phdrs[i].p_offset + k + 1 ELSE 0
    BY DEF ImageInPlace
  <1>0. image \in Images /\ cr3 \in spaces
    BY DEF BInv, BootVars
  <1> DEFINE p == image.phdrs[i]
             s == PMM_FRAME_SIZE
             size == image.size
  <1>1. i \in DOMAIN image.phdrs
    BY DEF Segments
  <1>2. PICK v, z, o, m : v = p.p_vaddr /\ z = p.p_filesz /\ o = p.p_offset /\ m = p.p_memsz
    OBVIOUS
  <1>3. /\ v \in Nat /\ z \in Nat /\ o \in Nat /\ m \in Nat /\ size \in Nat /\ v + m <= STACK_PAGE * s
    BY <1>0, <1>1, <1>2, HeaderIs
  <1> DEFINE a == v + k
             page == a \div s
             b == a % s
  <1>4. s \in Nat \ {0} /\ k \in Nat /\ k < m /\ a \in Nat /\ a < v + m
    BY <1>2, <1>3, Limits
  <1>5. /\ page \in Nat /\ b \in 0 .. s - 1 /\ a = page * s + b
        /\ \A n \in Nat : page >= n <=> a >= n * s
    BY <1>4, Quotients
  <1>6. page < STACK_PAGE
    <2>1. STACK_PAGE \in Nat
      BY BootNumbers, TopDigit
    <2> HIDE DEF page, a, s
    <2>2. ~(a >= STACK_PAGE * s)
      BY <1>3, <1>4, <2>1
    <2> QED BY <1>5, <2>1, <2>2
  <1>7. v <= page * s /\ v \div s <= page
    <2>1. v % s = 0
      BY <1>2 DEF PageAligned
    <2>2. v \div s \in Nat /\ v = (v \div s) * s + (v % s)
      BY <1>3, <1>4, Quotients
    <2> DEFINE q == v \div s
    <2>3. q \in Nat /\ v = q * s
      BY <1>4, <2>1, <2>2
    <2> HIDE DEF q, page, s
    <2>4. a >= q * s
      BY <1>3, <1>4, <2>3
    <2>5. page >= q
      BY <1>5, <2>3, <2>4
    <2>6. page * s >= q * s
      BY <1>4, <1>5, <2>3, <2>5
    <2>7. v <= page * s /\ q <= page
      BY <1>4, <1>5, <2>3, <2>5, <2>6
    <2> QED BY <2>7 DEF q
  <1> HIDE DEF page, b
  <1>8. page \in Covers(p)
    <2> HIDE DEF p, s, a
    <2>1. page < PageEnd(v + m)
      <3>1. /\ PageEnd(v + m) \in Nat
            /\ \A n \in Nat : PageEnd(v + m) >= n <=> (v + m) + PMM_FRAME_SIZE - 1 >= n * PMM_FRAME_SIZE
        <4>1. v + m \in Nat
          BY <1>3
        <4> QED BY <1>3, <4>1, PageEndIs DEF s
      <3>2. page + 1 \in Nat /\ (page + 1) * s = page * s + s /\ page * s \in Nat
        BY <1>4, <1>5
      <3>3. (v + m) + s - 1 >= (page + 1) * s
        BY <1>3, <1>4, <1>5, <3>2
      <3>4. PageEnd(v + m) >= page + 1
        BY <3>1, <3>2, <3>3 DEF s
      <3> QED BY <1>5, <3>1, <3>4
    <2> QED BY <1>2, <1>3, <1>5, <1>7, <2>1, CoversIs DEF s
  <1>9. Laid(i, page)
    <2>1. seg > Len(image.phdrs)
      BY DEF Loaded
    <2>2. i < seg
      <3>1. image.phdrs \in Seq(ProgramHeader)
        <4>1. image \in ElfImage
          BY <1>0, BootAssumption
        <4> QED BY <4>1 DEF ElfImage
      <3>2. i \in 1 .. Len(image.phdrs) /\ Len(image.phdrs) \in Nat
        BY <1>1, <3>1
      <3>3. seg \in Nat
        BY DEF BInv, BootVars
      <3> QED BY <2>1, <3>2, <3>3
    <2>3. Loading /\ Passed(i, page)
      BY <2>2 DEF Loading, Passed
    <2> QED BY <1>8, <2>3 DEF Loaded
  <1> DEFINE f == given[<<cr3, page>>]
  <1>10. <<cr3, page>> \in DOMAIN given /\ data[f] = FilledAt(p, page, size)
    BY <1>9 DEF Laid
  <1>11. Translate(mem, cr3, page) = f /\ Translate(mem, cr3, page) # Absent
    BY <1>0, <1>5, <1>6, <1>10, UserSeen
  <1>12. Reads(a) = FilledAt(p, page, size)[b]
    BY <1>10, <1>11 DEF Reads, page, b
  <1> HIDE DEF p, s, size, a
  <1>13. b \in Bytes
    BY <1>5 DEF Bytes, s
  <1>14. FilledAt(p, page, size)[b] = IF k < z /\ o + k < size THEN o + k + 1 ELSE 0
    <2> DEFINE n == page * PMM_FRAME_SIZE + b - v
    <2>1. n = k
      <3>1. page * s \in Nat /\ b \in Nat
        BY <1>4, <1>5
      <3>2. page * s + b = v + k
        BY <1>5 DEF a
      <3> DEFINE c == page * s
      <3>3. n = c + b - v
        BY DEF s
      <3> HIDE DEF c, n
      <3>4. c \in Nat /\ b \in Nat /\ c + b = v + k
        BY <3>1, <3>2 DEF c
      <3> QED BY <1>3, <1>4, <3>3, <3>4
    <2>2. FilledAt(p, page, size)[b] = IF n < z /\ o + n < size THEN o + n + 1 ELSE 0
      BY <1>2, <1>3, <1>5, <1>7, <1>13, FilledByte DEF s
    <2> HIDE DEF n
    <2> QED BY <2>1, <2>2
  <1> QED BY <1>2, <1>12, <1>14 DEF p, size, a

(* After elf_load has returned 0 the program finds every byte of its       *)
(* segments where it was linked, whatever is mapped afterwards.            *)
THEOREM ImageLoaded == BootSpec /\ []RoomBelow => []ImageInPlace
  <1>1. BootInit => Loaded
    BY DEF BootInit, Loaded, Loading
  <1>2. BInv /\ Loaded /\ [BootNext]_allvars => Loaded'
    <2> SUFFICES ASSUME BInv, Loaded, [BootNext]_allvars PROVE Loaded'
      OBVIOUS
    <2>1. CASE UNCHANGED allvars
      <3>1. /\ image' = image /\ rc' = rc /\ seg' = seg /\ done' = done /\ cr3' = cr3 /\ given' = given /\ data' = data
            /\ pc' = pc
        BY <2>1 DEF allvars, vars, boot
      <3>2. Early' => Early
        BY <3>1 DEF Early
      <3> QED BY <3>1, <3>2, LaidSame, LoadedKeep
    <2> QED BY <2>1, LoadedStep
  <1>3. BInv /\ Loaded => ImageInPlace
    BY ImagePlaced
  <1> QED BY <1>1, <1>2, <1>3, BootInvariance, PTL DEF BootSpec

-----------------------------------------------------------------------------
(* Frames in use are found from the address spaces, level by level: the    *)
(* tables a PML4 leads to, the kernel's shared one, and what is below them.*)
Trunks == {{pdpt_hi}} \cup {Kids(mem, c, K) : c \in spaces}
Tier(A, l) ==
  IF l = 2 THEN A
  ELSE IF l = 3 THEN Spread(mem, A)
  ELSE IF l = 4 THEN Spread(mem, Spread(mem, A))
  ELSE Spread(mem, Spread(mem, Spread(mem, A)))
Deep(l, x) == \E A \in Trunks : x \in Tier(A, l)

LEMMA DeepStep ==
  ASSUME NEW l \in 2 .. 4, NEW t, Deep(l, t), NEW i \in Index, NEW x, x = mem[t][i], x # Absent
  PROVE  Deep(l + 1, x)
  <1>1. PICK A \in Trunks : t \in Tier(A, l)
    BY DEF Deep
  <1>2. x \in Kids(mem, t, N)
    BY Numbers DEF Kids
  <1>3. x \in Spread(mem, Tier(A, l))
    BY <1>1, <1>2 DEF Spread
  <1>4. Tier(A, l + 1) = Spread(mem, Tier(A, l))
    <2>1. l = 2 \/ l = 3 \/ l = 4
      OBVIOUS
    <2> QED BY <2>1 DEF Tier
  <1> QED BY <1>1, <1>3, <1>4 DEF Deep

LEMMA DeepFound ==
  ASSUME NEW l \in 2 .. 5, NEW x, Deep(l, x)
  PROVE  x = pdpt_hi \/ x \in Targets(AllEntries)
  <1>1. PICK A \in Trunks : x \in Tier(A, l)
    BY DEF Deep
  <1> DEFINE b == Below(A)
             d == Below(Targets(b))
             e == Below(Targets(d))
  <1>2. Targets(b) = Spread(mem, A) /\ Targets(d) = Spread(mem, Targets(b)) /\ Targets(e) = Spread(mem, Targets(d))
    BY TargetsBelow
  <1>3. x \in A \/ x \in Targets(b) \/ x \in Targets(d) \/ x \in Targets(e)
    BY <1>1, <1>2 DEF Tier
  <1>4. ASSUME NEW E, E \subseteq AllEntries, x \in Targets(E) PROVE x \in Targets(AllEntries)
    BY <1>4 DEF Targets
  <1>5. CASE A = {pdpt_hi}
    <2>1. KernelEntries = b \cup d \cup e
      BY <1>5 DEF KernelEntries
    <2> HIDE DEF b, d, e
    <2>2. b \subseteq AllEntries /\ d \subseteq AllEntries /\ e \subseteq AllEntries
      BY <2>1 DEF AllEntries
    <2> QED BY <1>3, <1>4, <1>5, <2>2
  <1>6. ASSUME NEW c \in spaces, A = Kids(mem, c, K) PROVE x \in Targets(AllEntries)
    <2> DEFINE top == {o \in Below({c}) : o[2] # KERNEL_ENTRY}
    <2>1. A = Targets(top)
      BY <1>6, TargetsTop
    <2>2. OwnEntries(c) = top \cup b \cup d \cup e
      BY <2>1 DEF OwnEntries
    <2> HIDE DEF b, d, e, top
    <2>3. top \subseteq AllEntries /\ b \subseteq AllEntries /\ d \subseteq AllEntries /\ e \subseteq AllEntries
      BY <2>2 DEF AllEntries
    <2> QED BY <1>3, <1>4, <2>1, <2>3
  <1> QED BY <1>5, <1>6 DEF Trunks

LEMMA HangRole ==
  ASSUME NEW M, NEW role, Tree(M, role), NEW x \in Frames, Hangs(M, role, x)
  PROVE  role[x] \in 1 .. 5
  <1>1. CASE role[x] = 1
    BY <1>1
  <1>2. CASE \E t \in Frames, i \in Index : role[t] \in 1 .. 4 /\ M[t][i] = x /\ Open(t, i)
    <2>1. PICK t \in Frames, i \in Index : role[t] \in 1 .. 4 /\ M[t][i] = x
      BY <1>2
    <2>2. x # Absent
      BY Numbers
    <2>3. role[x] = role[t] + 1
      BY <2>1, <2>2 DEF Tree, Tiers
    <2> QED BY <2>1, <2>3
  <1> QED BY <1>1, <1>2 DEF Hangs

AllHang(M, role) == \A y \in Frames : role[y] \in 1 .. 5 => Hangs(M, role, y)

LEMMA AllDeep ==
  ASSUME NEW M, NEW role, Tree(M, role), Keeps(M, mem, role), Roots(spaces, role), AllHang(M, role)
  PROVE  \A l \in 2 .. 5 : \A x \in Frames : role[x] = l => Deep(l, x)
  <1>1. ASSUME NEW l \in 2 .. 5, NEW y \in Frames, role[y] = l
        PROVE  \E t \in Frames, i \in Index : role[t] = l - 1 /\ mem[t][i] = y /\ y # Absent /\ M[t][i] = y /\ Open(t, i)
    <2>1. Hangs(M, role, y) /\ role[y] # 1
      BY <1>1 DEF AllHang
    <2>2. PICK t \in Frames, i \in Index : role[t] \in 1 .. 4 /\ M[t][i] = y /\ Open(t, i)
      BY <2>1 DEF Hangs
    <2>3. y # Absent
      BY Numbers
    <2>4. role[y] = role[t] + 1
      BY <2>2, <2>3 DEF Tree, Tiers
    <2>5. mem[t][i] = y
      BY <2>2, <2>3 DEF Keeps
    <2>6. role[t] = l - 1
      BY <1>1, <2>2, <2>4
    <2> QED BY <2>2, <2>3, <2>5, <2>6
  <1>2. ASSUME NEW y \in Frames, role[y] = 2 PROVE Deep(2, y)
    <2>1. 2 \in 2 .. 5 /\ 2 - 1 = 1
      OBVIOUS
    <2>2. PICK t \in Frames, i \in Index : role[t] = 1 /\ mem[t][i] = y /\ y # Absent /\ M[t][i] = y /\ Open(t, i)
      BY <1>1, <1>2, <2>1
    <2>3. CASE i = K
      <3>1. y = pdpt_hi
        BY <2>2, <2>3 DEF Tree, Shared
      <3>2. y \in Tier({pdpt_hi}, 2) /\ {pdpt_hi} \in Trunks
        BY <3>1 DEF Tier, Trunks
      <3> QED BY <3>2 DEF Deep
    <2>4. CASE i # K
      <3>1. t \in spaces
        BY <2>2, <2>4 DEF Open, Roots
      <3>2. i \in 0 .. K - 1
        BY <2>4, Numbers
      <3>3. y \in Kids(mem, t, K)
        BY <2>2, <3>2 DEF Kids
      <3>4. y \in Tier(Kids(mem, t, K), 2) /\ Kids(mem, t, K) \in Trunks
        BY <3>1, <3>3 DEF Tier, Trunks
      <3> QED BY <3>4 DEF Deep
    <2> QED BY <2>3, <2>4
  <1>3. ASSUME NEW l \in 2 .. 4, \A t \in Frames : role[t] = l => Deep(l, t), NEW y \in Frames, role[y] = l + 1
        PROVE  Deep(l + 1, y)
    <2>1. l + 1 \in 2 .. 5 /\ (l + 1) - 1 = l
      OBVIOUS
    <2>2. PICK t \in Frames, i \in Index : role[t] = l /\ mem[t][i] = y /\ y # Absent
      BY <1>1, <1>3, <2>1
    <2>3. Deep(l, t)
      BY <1>3, <2>2
    <2> QED BY <2>2, <2>3, DeepStep
  <1>4. \A y \in Frames : role[y] = 3 => Deep(3, y)
    <2>1. 2 \in 2 .. 4 /\ 2 + 1 = 3
      OBVIOUS
    <2> QED BY <1>2, <1>3, <2>1
  <1>5. \A y \in Frames : role[y] = 4 => Deep(4, y)
    <2>1. 3 \in 2 .. 4 /\ 3 + 1 = 4
      OBVIOUS
    <2> QED BY <1>3, <1>4, <2>1
  <1>6. \A y \in Frames : role[y] = 5 => Deep(5, y)
    <2>1. 4 \in 2 .. 4 /\ 4 + 1 = 5
      OBVIOUS
    <2> QED BY <1>3, <1>5, <2>1
  <1>7. \A l \in 2 .. 5 : l = 2 \/ l = 3 \/ l = 4 \/ l = 5
    OBVIOUS
  <1> QED BY <1>2, <1>4, <1>5, <1>6, <1>7

Found(x) == x \in {pml4_new, pdpt_hi} \cup spaces \cup Targets(AllEntries)

LEMMA AllFound ==
  ASSUME NEW M, NEW role, Tree(M, role), Keeps(M, mem, role), Roots(spaces, role), AllHang(M, role),
         NEW x \in Frames, Hangs(M, role, x)
  PROVE  Found(x)
  <1>1. role[x] \in 1 .. 5
    BY HangRole
  <1>2. CASE role[x] = 1
    BY <1>2 DEF Roots, Found
  <1>3. CASE role[x] # 1
    <2>1. role[x] \in 2 .. 5
      BY <1>1, <1>3
    <2>2. Deep(role[x], x)
      BY <2>1, AllDeep
    <2> QED BY <2>1, <2>2, DeepFound DEF Found
  <1> QED BY <1>2, <1>3

-----------------------------------------------------------------------------
(* So only the frame that elf_load lost is not found, and after the walk   *)
(* that got stuck none, since frame 0 leads to the page of the stack.      *)
RamApart == ram \subseteq Frames /\ pml4_new \notin ram /\ pdpt_hi \notin ram

LEMMA AccountFound ==
  ASSUME NEW role, Good(machine, spaces, given, role), NEW lost, Accounted(machine, role, ram, lost), RamApart
  PROVE  \A x \in Lost : x = lost
  <1>1. /\ Sound(machine, role) /\ Tree(mem, role) /\ Roots(spaces, role)
        /\ \A x \in free : role[x] = 0 \/ role[x] = 6
    BY MachineIs DEF Good, Sound, Tree, InSight
  <1>2. \A x \in Frames : Kept(machine, role, x) <=> x \in free \/ Hangs(mem, role, x)
    BY MachineIs DEF Kept
  <1>3. AllHang(mem, role)
    <2> SUFFICES ASSUME NEW y \in Frames, role[y] \in 1 .. 5 PROVE Hangs(mem, role, y)
      BY DEF AllHang
    <2>1. role[y] # 0 /\ role[y] # 6
      OBVIOUS
    <2> QED BY <1>1, <1>2, <2>1 DEF Accounted
  <1>4. Keeps(mem, mem, role)
    BY DEF Keeps
  <1> SUFFICES ASSUME NEW x \in Lost, x # lost PROVE FALSE
    OBVIOUS
  <1>5. x \in ram /\ x \in Frames /\ x \notin free /\ ~Found(x)
    BY DEF Lost, RamApart, Found
  <1>6. Hangs(mem, role, x)
    BY <1>2, <1>5 DEF Accounted
  <1> QED BY <1>1, <1>3, <1>4, <1>5, <1>6, AllFound

LEMMA WreckFound ==
  ASSUME Wrecked(machine, spaces, ram), RamApart
  PROVE  Lost = {}
  <1>1. PICK m, role, j, f :
          /\ Sound(m, role) /\ Roots(spaces, role) /\ f \in Frames \ m.free /\ role[f] = 0 /\ j \in Index
          /\ Accounted(m, role, ram, f) /\ Torn(m, machine, role, j, f)
    BY DEF Wrecked
  <1>2. PICK a, new : \E t \in Frames, i \in Index :
          /\ Grown(m, a, role, new) /\ new[t] \in 1 .. 3 /\ t # pml4_new /\ a.mem[t][i] = Absent /\ a.free = {}
          /\ machine \in Machine /\ machine.free = {} /\ machine.mem[t][i] = 0 /\ machine.mem[0][j] = f
          /\ \A u \in Frames, n \in Index : u # 0 /\ ~(u = t /\ n = i) => machine.mem[u][n] = a.mem[u][n]
    BY <1>1 DEF Torn
  <1>3. PICK t \in Frames, i \in Index :
          /\ Grown(m, a, role, new) /\ new[t] \in 1 .. 3 /\ t # pml4_new /\ a.mem[t][i] = Absent /\ a.free = {}
          /\ mem[t][i] = 0 /\ mem[0][j] = f
          /\ \A u \in Frames, n \in Index : u # 0 /\ ~(u = t /\ n = i) => mem[u][n] = a.mem[u][n]
    BY <1>2, MachineIs
  <1>4. Tree(a.mem, new) /\ Spares(m, role, a, new)
    BY <1>3 DEF Grown, Sound
  <1>5. \A x \in Frames : (x \notin m.free => new[x] = role[x]) /\ (new[x] = 1 => role[x] = 1)
    BY <1>3 DEF Grown
  <1>6. Keeps(a.mem, mem, new)
    <2> SUFFICES ASSUME NEW u \in Frames, NEW n \in Index, new[u] \in 1 .. 4, a.mem[u][n] # Absent
                 PROVE  mem[u][n] = a.mem[u][n]
      BY DEF Keeps
    <2>1. new[u] # 6
      OBVIOUS
    <2>2. u # 0
      BY <1>4, <2>1, RoleFrame
    <2> QED BY <1>3, <2>2
  <1>7. Roots(spaces, new)
    <2>1. \A x \in Frames : role[x] = 1 => new[x] = 1
      <3> TAKE x \in Frames
      <3>1. role[x] = 1 => role[x] # 0
        OBVIOUS
      <3> QED BY <1>1, <1>3, <3>1, GrownKeeps
    <2>2. \A x \in Frames : new[x] = 1 <=> role[x] = 1
      BY <1>5, <2>1
    <2> QED BY <1>1, <2>2, SameRoots
  <1>8. ASSUME NEW x \in Frames, x \in ram \/ new[x] \in 1 .. 5, x # f PROVE Hangs(a.mem, new, x)
    <2>1. CASE Kept(m, role, x)
      <3>1. Kept(a, new, x)
        BY <1>4, <2>1 DEF Spares
      <3> QED BY <1>3, <3>1 DEF Kept
    <2>2. CASE x \notin ram /\ role[x] = 6
      <3>1. role[x] # 0
        BY <2>2
      <3>2. new[x] = 6
        BY <1>1, <1>3, <2>2, <3>1, GrownKeeps
      <3> QED BY <1>8, <2>2, <3>2
    <2> QED BY <1>1, <1>8, <2>1, <2>2 DEF Accounted
  <1>9. AllHang(a.mem, new)
    <2> SUFFICES ASSUME NEW x \in Frames, new[x] \in 1 .. 5 PROVE Hangs(a.mem, new, x)
      BY DEF AllHang
    <2>1. new[f] = 0
      BY <1>1, <1>5
    <2>2. x # f
      BY <2>1
    <2> QED BY <1>8, <2>2
  <1>10. Found(f)
    <2>1. 0 # Absent /\ f # Absent
      BY <1>1, Numbers
    <2>2. \E l \in 2 .. 4 : Deep(l, 0)
      <3>1. CASE new[t] = 1
        <4>1. t \in spaces
          BY <1>3, <1>7, <3>1 DEF Roots
        <4>2. i # K
          <5>1. a.mem[t][K] = pdpt_hi /\ pdpt_hi # Absent
            BY <1>4, <3>1, Numbers DEF Tree, Shared
          <5> QED BY <1>3, <5>1
        <4>3. i \in 0 .. K - 1
          BY <4>2, Numbers
        <4>4. 0 \in Kids(mem, t, K)
          BY <1>3, <2>1, <4>3 DEF Kids
        <4>5. 0 \in Tier(Kids(mem, t, K), 2) /\ Kids(mem, t, K) \in Trunks
          BY <4>1, <4>4 DEF Tier, Trunks
        <4>6. Deep(2, 0) /\ 2 \in 2 .. 4
          BY <4>5 DEF Deep
        <4> QED BY <4>6
      <3>2. ASSUME NEW l \in 2 .. 3, new[t] = l PROVE Deep(l + 1, 0) /\ l + 1 \in 2 .. 4
        <4>1. l \in 2 .. 5 /\ l \in 2 .. 4 /\ l + 1 \in 2 .. 4
          OBVIOUS
        <4>2. Deep(l, t)
          BY <1>4, <1>6, <1>7, <1>9, <3>2, <4>1, AllDeep
        <4>3. Deep(l + 1, 0)
          BY <1>3, <2>1, <4>1, <4>2, DeepStep
        <4> QED BY <4>1, <4>3
      <3>3. new[t] = 1 \/ new[t] \in 2 .. 3
        BY <1>3
      <3> QED BY <3>1, <3>2, <3>3
    <2>3. PICK l \in 2 .. 4 : Deep(l, 0)
      BY <2>2
    <2>4. Deep(l + 1, f) /\ l + 1 \in 2 .. 5
      BY <1>1, <1>3, <2>1, <2>3, DeepStep
    <2> QED BY <2>4, DeepFound DEF Found
  <1>11. ASSUME NEW x \in Lost PROVE FALSE
    <2>1. x \in ram /\ x \in Frames /\ ~Found(x)
      BY DEF Lost, RamApart, Found
    <2>2. x # f
      BY <1>10, <2>1
    <2>3. Hangs(a.mem, new, x)
      BY <1>8, <2>1, <2>2
    <2> QED BY <1>4, <1>6, <1>7, <1>9, <2>1, <2>3, AllFound
  <1> QED BY <1>11

-----------------------------------------------------------------------------
(* Nothing is mapped twice.  The keys of given for the kernel are the heap *)
(* pages, those for the user space the pages that elf_load has passed.     *)
Going == pc \notin {"user task", "up"}
FailedAt == rc = "failed" => pc \in {"load", "up"}
Behind(q) == \E i \in Segments : q \in Covers(image.phdrs[i]) /\ Passed(i, q)
HeapKeys == \A k \in DOMAIN given : KernelPage(k[2]) => k[2] < HEAP_START + heap_pages
UserKeys == Going => \A k \in DOMAIN given : ~KernelPage(k[2]) => Behind(k[2])
Placed == FailedAt /\ RamApart /\ HeapKeys /\ UserKeys

LEMMA FailedAtStep ==
  ASSUME FailedAt, BootNext, StackRoom
  PROVE  FailedAt'
  <1>1. CASE HeapPage \/ HeapNoFrame \/ Up
    <2>1. pc' = pc /\ rc' = rc
      BY <1>1 DEF HeapPage, HeapNoFrame, Up, allvars, boot
    <2> QED BY <2>1 DEF FailedAt
  <1>2. CASE heap_init
    <2>1. pc = "heap" /\ rc' = rc
      BY <1>2 DEF heap_init
    <2> QED BY <2>1 DEF FailedAt
  <1>3. ASSUME NEW t, NEW place, t \notin {"load", "up"}, Create(t, place)
        PROVE  FailedAt'
    <2>1. pc = t /\ rc' = rc
      BY <1>3 DEF Create
    <2> QED BY <1>3, <2>1 DEF FailedAt
  <1>4. CASE CreateSpace
    <2>1. pc = "space" /\ (rc' = rc \/ rc' = "loading")
      BY <1>4 DEF CreateSpace
    <2> QED BY <2>1 DEF FailedAt
  <1>5. CASE LoadPage \/ LoadFails \/ NextSegment
    <2>1. pc' = "load"
      BY <1>5 DEF LoadPage, LoadFails, NextSegment
    <2> QED BY <2>1 DEF FailedAt
  <1>6. CASE LoadReturns
    <2>1. rc' = rc /\ pc' = IF rc = "ok" THEN "stack" ELSE "up"
      BY <1>6 DEF LoadReturns, Goto, boot
    <2> QED BY <2>1 DEF FailedAt
  <1>7. CASE MapStack
    <2>1. pc = "stack" /\ rc' = rc
      BY <1>7 DEF MapStack
    <2> QED BY <2>1 DEF FailedAt
  <1> QED BY <1>1, <1>2, <1>3, <1>4, <1>5, <1>6, <1>7 DEF BootNext

LEMMA ConstantStep ==
  ASSUME BootNext
  PROVE  ram' = ram /\ image' = image
  <1>1. CASE HeapPage \/ HeapNoFrame \/ heap_init
    BY <1>1 DEF HeapPage, HeapNoFrame, heap_init, boot
  <1>2. ASSUME NEW t, NEW place, Create(t, place) PROVE ram' = ram /\ image' = image
    BY <1>2 DEF Create
  <1>3. CASE CreateSpace \/ LoadPage \/ LoadFails \/ NextSegment \/ LoadReturns \/ MapStack
    BY <1>3 DEF CreateSpace, LoadPage, LoadFails, NextSegment, LoadReturns, MapStack, boot
  <1>4. CASE Up
    BY <1>4 DEF Up, allvars, boot
  <1> QED BY <1>1, <1>2, <1>3, <1>4 DEF BootNext

(* What a step other than that of the heap adds to given.                  *)
AddsUser == given' = given \/ \E k, f : given' = With(given, k, f) /\ ~KernelPage(k[2])
LEMMA GivenUser ==
  ASSUME BootVars, BootNext, ~HeapPage
  PROVE  AddsUser
  <1>1. CASE HeapNoFrame \/ heap_init \/ LoadFails \/ NextSegment \/ LoadReturns \/ Up
    BY <1>1 DEF HeapNoFrame, heap_init, LoadFails, NextSegment, LoadReturns, Up, allvars, vars, AddsUser
  <1>2. ASSUME NEW t, NEW place, Create(t, place) PROVE AddsUser
    BY <1>2 DEF Create, vars, AddsUser
  <1>3. CASE CreateSpace
    BY <1>3 DEF CreateSpace, paging_create_user_space, vars, AddsUser
  <1>4. CASE LoadPage
    <2> DEFINE k == <<cr3, va>>
    <2>1. given' = given \/ given' = With(given, k, Lowest(machine))
      BY <1>4 DEF LoadPage, elf_load_page
    <2>2. ~KernelPage(va) /\ k[2] = va
      BY <1>4, LoadsIs DEF LoadPage
    <2> HIDE DEF k
    <2> QED BY <2>1, <2>2 DEF AddsUser
  <1>5. CASE MapStack
    <2> DEFINE k == <<cr3, STACK_PAGE>>
    <2>1. given' = given \/ given' = With(given, k, Lowest(machine))
      BY <1>5 DEF MapStack, vars
    <2>2. ~KernelPage(STACK_PAGE) /\ k[2] = STACK_PAGE
      BY BootNumbers
    <2> HIDE DEF k
    <2> QED BY <2>1, <2>2 DEF AddsUser
  <1> QED BY <1>1, <1>2, <1>3, <1>4, <1>5 DEF BootNext

LEMMA BootKeyed ==
  ASSUME BInv
  PROVE  \A k \in DOMAIN given : k[2] \in Nat /\ k[2] \in Pages
  <1>1. Keyed(spaces, given)
    BY DEF BInv, Alive, Good, Broken, Worn
  <1>2. \A k \in DOMAIN given : k \in Frames \X Pages
    BY <1>1 DEF Keyed
  <1>3. \A k \in DOMAIN given : k[2] \in Pages
    BY <1>2
  <1>4. \A page \in Pages : page \in Nat
    BY TopDigit
  <1> QED BY <1>3, <1>4

LEMMA HeapKeysStep ==
  ASSUME BInv, HeapKeys, BootNext
  PROVE  HeapKeys'
  <1>0. heap_pages \in Nat /\ HEAP_START \in Nat /\ Counts /\ BootVars
    BY BootNumbers DEF BInv, Counts
  <1>1. CASE HeapPage
    <2>1. Extends(heap_pages)
      BY <1>0, <1>1, ExtendIs DEF HeapPage
    <2>2. CASE heap_pages' = heap_pages /\ given' = given
      BY <2>2 DEF HeapKeys
    <2>3. CASE /\ heap_pages' = heap_pages + 1
               /\ DOMAIN given' = DOMAIN given \cup {<<pml4_new, HEAP_START + heap_pages>>}
      <3> SUFFICES ASSUME NEW k \in DOMAIN given', KernelPage(k[2])
                   PROVE  k[2] < HEAP_START + heap_pages'
        BY DEF HeapKeys
      <3>1. CASE k \in DOMAIN given
        <4>1. k[2] < HEAP_START + heap_pages /\ k[2] \in Nat
          BY <3>1, BootKeyed DEF HeapKeys
        <4> QED BY <1>0, <2>3, <4>1
      <3>2. CASE k = <<pml4_new, HEAP_START + heap_pages>>
        <4>1. k[2] = HEAP_START + heap_pages
          BY <3>2
        <4> QED BY <1>0, <2>3, <4>1
      <3> QED BY <2>3, <3>1, <3>2
    <2> QED BY <2>1, <2>2, <2>3 DEF Extends
  <1>2. CASE ~HeapPage
    <2>1. heap_pages' = heap_pages
      BY <1>2, GivenMore
    <2>2. AddsUser
      BY <1>0, <1>2, GivenUser
    <2>3. ASSUME NEW k, NEW f, given' = With(given, k, f), ~KernelPage(k[2]) PROVE HeapKeys'
      <3>1. DOMAIN given' = DOMAIN given \cup {k}
        BY <2>3 DEF With
      <3> QED BY <2>1, <2>3, <3>1 DEF HeapKeys
    <2>4. CASE given' = given
      BY <2>1, <2>4 DEF HeapKeys
    <2> QED BY <2>2, <2>3, <2>4 DEF AddsUser
  <1> QED BY <1>1, <1>2

LEMMA UserKeysSame ==
  ASSUME UserKeys, given' = given, image' = image, seg' = seg, done' = done, Going' => Going
  PROVE  UserKeys'
  <1>1. \A q : Behind(q)' = Behind(q)
    BY DEF Behind, Segments, Passed
  <1> QED BY <1>1 DEF UserKeys

LEMMA LoadedVa ==
  ASSUME BootVars, Loads
  PROVE  /\ seg \in Segments /\ va \in Covers(image.phdrs[seg]) /\ va \in Nat
         /\ va = image.phdrs[seg].p_vaddr \div PMM_FRAME_SIZE + done
         /\ image.phdrs[seg].p_vaddr \div PMM_FRAME_SIZE \in Nat
  <1>1. image \in Images /\ done \in Nat /\ seg \in Nat
    BY DEF BootVars
  <1>2. seg \in DOMAIN image.phdrs /\ va \in Nat /\ va < va_end
    BY LoadsIs
  <1>3. seg \in Segments
    BY <1>2 DEF Loads, Segments, ph
  <1>4. va = image.phdrs[seg].p_vaddr \div PMM_FRAME_SIZE + done
    BY DEF va, ph
  <1>5. image.phdrs[seg].p_vaddr \div PMM_FRAME_SIZE \in Nat
    BY <1>1, <1>2, HeaderIs, Limits, Quotients
  <1>6. va_end = PageEnd(image.phdrs[seg].p_vaddr + image.phdrs[seg].p_memsz)
    BY DEF va_end, PageEnd, ph
  <1>7. image.phdrs[seg].p_vaddr \div PMM_FRAME_SIZE <= va
    BY <1>1, <1>4, <1>5
  <1>8. va \in Covers(image.phdrs[seg])
    BY <1>1, <1>2, <1>3, <1>6, <1>7, CoveredPage
  <1> QED BY <1>2, <1>3, <1>4, <1>5, <1>8

LEMMA UserKeysLoad ==
  ASSUME BInv, UserKeys, LoadPage
  PROVE  UserKeys'
  <1>0. PICK q, j, b : q = va /\ j = seg /\ b = image.phdrs[seg].p_vaddr \div PMM_FRAME_SIZE
    OBVIOUS
  <1>1. /\ pc = "load" /\ Loads /\ image' = image /\ seg' = seg /\ pc' = pc
        /\ given' = given => done' = done
        /\ given' # given => done' = done + 1
        /\ given' = given \/ given' = With(given, <<cr3, q>>, Lowest(machine))
    BY <1>0 DEF LoadPage, elf_load_page
  <1>2. BootVars /\ done \in Nat /\ image \in Images
    BY DEF BInv, BootVars
  <1>3. j \in Segments /\ q \in Covers(image.phdrs[j]) /\ q \in Nat /\ q = b + done /\ b \in Nat
    BY <1>0, <1>1, <1>2, LoadedVa
  <1>4. Going
    BY <1>1 DEF Going
  <1>5. CASE given' = given
    BY <1>1, <1>4, <1>5, UserKeysSame
  <1>6. CASE given' # given
    <2>1. done' = done + 1
      BY <1>1, <1>6
    <2> DEFINE l == <<cr3, q>>
    <2>2. given' = With(given, l, Lowest(machine)) /\ l[2] = q
      BY <1>1, <1>6
    <2> HIDE DEF l
    <2>3. DOMAIN given' = DOMAIN given \cup {l}
      BY <2>2 DEF With
    <2>4. Behind(q)'
      <3>1. q < b + (done + 1)
        BY <1>2, <1>3
      <3>2. Passed(j, q)'
        BY <1>0, <1>1, <2>1, <3>1 DEF Passed
      <3>3. j \in Segments' /\ q \in Covers(image'.phdrs[j])
        BY <1>1, <1>3 DEF Segments
      <3> QED BY <3>2, <3>3 DEF Behind
    <2>5. ASSUME NEW p, Behind(p) PROVE Behind(p)'
      <3>1. PICK i \in Segments : p \in Covers(image.phdrs[i]) /\ Passed(i, p)
        BY <2>5 DEF Behind
      <3>2. i \in Segments' /\ p \in Covers(image'.phdrs[i])
        BY <1>1, <3>1 DEF Segments
      <3> DEFINE e == image.phdrs[i].p_vaddr \div PMM_FRAME_SIZE
      <3>3. i \in DOMAIN image.phdrs /\ p \in Nat
        BY <1>2, <3>1, CoveredPage
      <3>4. e \in Nat
        BY <1>2, <3>3, HeaderIs, Limits, Quotients
      <3>5. i < seg \/ (i = seg /\ p < e + done)
        BY <3>1 DEF Passed
      <3>6. p < e + done => p < e + (done + 1)
        BY <1>2, <3>3, <3>4
      <3>7. Passed(i, p)'
        BY <1>1, <2>1, <3>5, <3>6 DEF Passed
      <3> QED BY <3>2, <3>7 DEF Behind
    <2>6. \A k \in DOMAIN given : ~KernelPage(k[2]) => Behind(k[2])
      BY <1>4 DEF UserKeys
    <2>7. ASSUME NEW k \in DOMAIN given', ~KernelPage(k[2]) PROVE Behind(k[2])'
      <3>1. CASE k = l
        <4>1. k[2] = q
          BY <2>2, <3>1
        <4> QED BY <2>4, <4>1
      <3>2. CASE k \in DOMAIN given
        <4>1. PICK p : p = k[2]
          OBVIOUS
        <4>2. Behind(p)
          BY <2>6, <2>7, <3>2, <4>1
        <4> QED BY <2>5, <4>1, <4>2
      <3> QED BY <2>3, <3>1, <3>2
    <2> QED BY <2>7 DEF UserKeys
  <1> QED BY <1>5, <1>6

LEMMA UserKeysNext ==
  ASSUME BInv, UserKeys, NextSegment
  PROVE  UserKeys'
  <1>1. /\ pc = "load" /\ pc' = pc /\ given' = given /\ image' = image
        /\ \/ seg' = seg /\ done' = done
           \/ seg' = seg + 1
    BY DEF NextSegment, vars
  <1>2. seg \in Nat /\ image \in Images
    BY DEF BInv, BootVars
  <1>3. Going
    BY <1>1 DEF Going
  <1>4. CASE seg' = seg /\ done' = done
    BY <1>1, <1>3, <1>4, UserKeysSame
  <1>5. CASE seg' = seg + 1
    <2>1. ASSUME NEW p, Behind(p) PROVE Behind(p)'
      <3>1. PICK i \in Segments : p \in Covers(image.phdrs[i]) /\ Passed(i, p)
        BY <2>1 DEF Behind
      <3>2. i \in Segments' /\ p \in Covers(image'.phdrs[i])
        BY <1>1, <3>1 DEF Segments
      <3>3. i \in Nat
        BY <1>2, <3>1, CoveredPage
      <3>4. i < seg \/ i = seg
        BY <3>1 DEF Passed
      <3>5. i < seg'
        BY <1>2, <1>5, <3>3, <3>4
      <3> QED BY <3>2, <3>5 DEF Behind, Passed
    <2> QED BY <1>1, <1>3, <2>1 DEF UserKeys
  <1> QED BY <1>1, <1>4, <1>5

LEMMA UserKeysHeap ==
  ASSUME BInv, UserKeys, HeapPage
  PROVE  UserKeys'
  <1>1. /\ Extends(heap_pages) /\ pc' = pc /\ image' = image /\ seg' = seg /\ done' = done /\ heap_pages < HeapPages
    BY ExtendIs DEF BInv, HeapPage, heap_extend, boot
  <1>2. Going' => Going
    BY <1>1 DEF Going
  <1>3. CASE given' = given
    BY <1>1, <1>2, <1>3, UserKeysSame
  <1>4. CASE DOMAIN given' = DOMAIN given \cup {<<pml4_new, HEAP_START + heap_pages>>}
    <2>1. heap_pages \in 0 .. HeapPages - 1
      BY <1>1, BootNumbers DEF BInv, Counts
    <2> DEFINE l == <<pml4_new, HEAP_START + heap_pages>>
    <2>2. KernelPage(l[2])
      BY <2>1, HeapPageIs
    <2> HIDE DEF l
    <2>3. DOMAIN given' = DOMAIN given \cup {l}
      BY <1>4 DEF l
    <2>4. \A q : Behind(q)' = Behind(q)
      BY <1>1 DEF Behind, Segments, Passed
    <2> QED BY <1>2, <2>2, <2>3, <2>4 DEF UserKeys
  <1> QED BY <1>1, <1>3, <1>4 DEF Extends

LEMMA UserKeysStep ==
  ASSUME BInv, UserKeys, BootNext
  PROVE  UserKeys'
  <1>1. CASE HeapPage
    BY <1>1, UserKeysHeap
  <1>2. CASE LoadPage
    BY <1>2, UserKeysLoad
  <1>3. CASE NextSegment
    BY <1>3, UserKeysNext
  <1>4. CASE MapStack
    <2>1. Goto("up") \/ Goto("user task")
      BY <1>4 DEF MapStack
    <2>2. pc' = "up" \/ pc' = "user task"
      BY <2>1, Zenon DEF Goto
    <2> QED BY <2>2 DEF UserKeys, Going
  <1>5. CASE HeapNoFrame \/ LoadFails \/ Up
    <2>1. given' = given /\ image' = image /\ seg' = seg /\ done' = done /\ pc' = pc
      BY <1>5 DEF HeapNoFrame, LoadFails, Up, allvars, vars, boot
    <2>2. Going' => Going
      BY <2>1 DEF Going
    <2> QED BY <2>1, <2>2, UserKeysSame
  <1>6. CASE heap_init
    <2>1. given' = given /\ image' = image /\ seg' = seg /\ done' = done /\ pc = "heap"
      BY <1>6 DEF heap_init, vars
    <2>2. Going' => Going
      BY <2>1 DEF Going
    <2> QED BY <2>1, <2>2, UserKeysSame
  <1>7. CASE CreateSpace
    <2>1. given' = given /\ image' = image /\ seg' = seg /\ done' = done /\ pc = "space"
      BY <1>7 DEF CreateSpace, paging_create_user_space, vars
    <2>2. Going' => Going
      BY <2>1 DEF Going
    <2> QED BY <2>1, <2>2, UserKeysSame
  <1>8. CASE LoadReturns
    <2>1. given' = given /\ image' = image /\ seg' = seg /\ done' = done /\ pc = "load"
      BY <1>8 DEF LoadReturns, vars, boot
    <2>2. Going' => Going
      BY <2>1 DEF Going
    <2> QED BY <2>1, <2>2, UserKeysSame
  <1>9. ASSUME NEW t, NEW place, Create(t, place), t \notin {"user task", "up"} \/ place = "up"
        PROVE  UserKeys'
    <2>1. given' = given /\ image' = image /\ seg' = seg /\ done' = done /\ pc = t /\ pc' = place
      BY <1>9 DEF Create, Goto, vars
    <2>2. Going' => Going
      BY <1>9, <2>1 DEF Going
    <2> QED BY <2>1, <2>2, UserKeysSame
  <1> QED BY <1>1, <1>2, <1>3, <1>4, <1>5, <1>6, <1>7, <1>8, <1>9 DEF BootNext

LEMMA PlacedStep ==
  ASSUME BInv, Placed, [BootNext]_allvars
  PROVE  Placed'
  <1>1. CASE BootNext
    <2>1. FailedAt /\ RamApart /\ HeapKeys /\ UserKeys /\ StackRoom
      BY DEF Placed, BInv
    <2>2. FailedAt' /\ HeapKeys' /\ UserKeys'
      BY <1>1, <2>1, FailedAtStep, HeapKeysStep, UserKeysStep
    <2>3. RamApart'
      BY <1>1, <2>1, ConstantStep DEF RamApart
    <2> QED BY <2>2, <2>3 DEF Placed
  <1>2. CASE UNCHANGED allvars
    <2>1. /\ given' = given /\ image' = image /\ seg' = seg /\ done' = done /\ pc' = pc /\ rc' = rc /\ ram' = ram
          /\ heap_pages' = heap_pages
      BY <1>2 DEF allvars, vars, boot
    <2>2. FailedAt' /\ RamApart' /\ HeapKeys'
      BY <2>1 DEF Placed, FailedAt, RamApart, HeapKeys
    <2>3. Going' => Going
      BY <2>1 DEF Going
    <2>4. UserKeys'
      BY <2>1, <2>3, UserKeysSame DEF Placed
    <2> QED BY <2>2, <2>4 DEF Placed
  <1> QED BY <1>1, <1>2

LEMMA PlacedFirst ==
  ASSUME BootInit
  PROVE  Placed
  <1>1. DOMAIN given = {} /\ rc = "none" /\ ram = free
    BY DEF BootInit, Init
  <1>2. machine \in Machine /\ free \cap 0 .. pd_hi = {}
    BY FirstIs DEF BootInit
  <1>3. pml4_new \in 0 .. pd_hi /\ pdpt_hi \in 0 .. pd_hi
    BY DEF pml4_new, pdpt_hi, pd_hi
  <1>4. RamApart
    BY <1>1, <1>2, <1>3, MachineIs DEF RamApart, Machine
  <1>5. FailedAt
    BY <1>1 DEF FailedAt
  <1> QED BY <1>1, <1>4, <1>5 DEF Placed, HeapKeys, UserKeys

-----------------------------------------------------------------------------
(* The account is kept: by a sound machine, with what elf_load lost, or by *)
(* the one that the walk for the user stack left.                          *)
TidyAs(role, lost) ==
  /\ Good(machine, spaces, given, role) /\ Accounted(machine, role, ram, lost)
  /\ rc = "failed" \/ lost = Absent
Ruined == ~Going /\ Wrecked(machine, spaces, ram)
Tidy == Apart => (\E role, lost : TidyAs(role, lost)) \/ Ruined

LEMMA TidySame ==
  ASSUME NEW role, NEW lost, TidyAs(role, lost), UNCHANGED vars, ram' = ram, rc = "failed" => rc' = "failed"
  PROVE  TidyAs(role, lost)'
  <1>1. machine' = machine /\ spaces' = spaces /\ given' = given
    BY DEF vars, machine
  <1> QED BY <1>1 DEF TidyAs

LEMMA TidySaved ==
  ASSUME NEW role, Accounted(machine, role, ram, Absent), NEW lost,
         Saves(machine, role, machine', spaces', given', Absent, lost), ram' = ram, rc' = "failed" \/ lost = Absent
  PROVE  \E new : TidyAs(new, lost)'
  <1>1. PICK new : /\ Good(machine', spaces', given', new) /\ Fixed(role, new)
                   /\ SparesBut(machine, role, machine', new, lost)
    BY DEF Saves
  <1>2. ASSUME NEW x \in Frames
        PROVE  Kept(machine', new, x) \/ (x \notin ram /\ new[x] = 6) \/ (x = lost /\ new[x] = 0)
    <2>1. Kept(machine, role, x) \/ (x \notin ram /\ role[x] = 6)
      BY Numbers DEF Accounted
    <2> QED BY <1>1, <2>1 DEF Fixed, SparesBut
  <1>3. Accounted(machine', new, ram', lost)
    BY <1>2 DEF Accounted
  <1> QED BY <1>1, <1>3 DEF TidyAs

LEMMA Untold ==
  ASSUME NEW m, NEW S, NEW g, NEW role, Good(m, S, g, role), NEW c \in S \cup {pml4_new}, NEW page \in Pages,
         KernelPage(page) => c = pml4_new, <<c, page>> \notin DOMAIN g
  PROVE  Translate(m.mem, c, page) = Absent
  <1>1. Translate(m.mem, c, page) = Told(g, c, page)
    BY DEF Good, Faithful
  <1>2. <<IF KernelPage(page) THEN pml4_new ELSE c, page>> = <<c, page>>
    OBVIOUS
  <1> QED BY <1>1, <1>2 DEF Told

LEMMA Sure ==
  ASSUME NEW role, NEW lost, TidyAs(role, lost), FailedAt, StackRoom,
         left > 0 \/ pc \in {"space", "stack"} \/ rc = "loading"
  PROVE  rc # "failed" /\ Accounted(machine, role, ram, Absent)
  <1>1. rc # "failed"
    <2> SUFFICES ASSUME rc = "failed" PROVE FALSE
      OBVIOUS
    <2>1. pc \in {"load", "up"}
      BY DEF FailedAt
    <2>2. left = 0
      BY <2>1 DEF StackRoom
    <2>3. ~(left > 0)
      BY <2>2
    <2>4. pc \notin {"space", "stack"} /\ rc # "loading"
      BY <2>1
    <2> QED BY <2>3, <2>4
  <1> QED BY <1>1 DEF TidyAs

LEMMA TidyHeap ==
  ASSUME BInv, RoomBelow, Placed, NEW role, NEW lost, TidyAs(role, lost), HeapPage
  PROVE  \E new : TidyAs(new, Absent)'
  <1> DEFINE page == HEAP_START + heap_pages
  <1>1. heap_extend /\ left > 0 /\ ram' = ram /\ heap_pages < HeapPages
    BY DEF HeapPage, heap_extend, boot
  <1>2. rc # "failed" /\ Accounted(machine, role, ram, Absent)
    BY <1>1, Sure DEF Placed, BInv
  <1>3. Good(machine, spaces, given, role) /\ Ready(role)
    BY DEF TidyAs, Ready, BInv
  <1>4. heap_pages \in 0 .. HeapPages - 1 /\ heap_pages \in Nat /\ HEAP_START \in Nat
    BY <1>1, BootNumbers DEF BInv, Counts
  <1>5. page \in Pages /\ KernelPage(page)
    BY <1>4, HeapPageIs
  <1>6. <<pml4_new, page>> \notin DOMAIN given
    <2> DEFINE k == <<pml4_new, page>>
    <2>1. k[2] = page
      OBVIOUS
    <2> HIDE DEF k
    <2>2. k \in DOMAIN given => page < HEAP_START + heap_pages
      BY <1>5, <2>1 DEF Placed, HeapKeys
    <2>3. ~(page < HEAP_START + heap_pages)
      BY <1>4
    <2>4. k \notin DOMAIN given
      BY <2>2, <2>3
    <2> QED BY <2>4 DEF k
  <1>7. Saving(role, Translate(mem, pml4_new, page), Absent)
    BY <1>1, <1>3, HeapSaving
  <1> HIDE DEF page
  <1>8. Translate(mem, pml4_new, page) = Absent
    BY <1>3, <1>5, <1>6, Untold, MachineIs
  <1>9. Saves(machine, role, machine', spaces', given', Absent, Absent)
    BY <1>7, <1>8 DEF Saving
  <1> QED BY <1>1, <1>2, <1>9, TidySaved

LEMMA TidySpace ==
  ASSUME BInv, RoomBelow, Placed, NEW role, NEW lost, TidyAs(role, lost), CreateSpace
  PROVE  \E new, gone : TidyAs(new, gone)'
  <1>1. /\ pc = "space" /\ ram' = ram
        /\ paging_create_user_space \/ (UNCHANGED vars /\ rc' = rc)
    BY DEF CreateSpace
  <1>2. CASE UNCHANGED vars /\ rc' = rc
    BY <1>1, <1>2, TidySame
  <1>3. CASE paging_create_user_space
    <2>1. rc # "failed" /\ Accounted(machine, role, ram, Absent)
      BY <1>1, Sure DEF Placed, BInv
    <2>2. Ready(role)
      BY DEF TidyAs, Ready, BInv
    <2>3. Saves(machine, role, machine', spaces', given', Absent, Absent)
      BY <1>3, <2>2, CreateSaving DEF Saving
    <2> QED BY <1>1, <2>1, <2>3, TidySaved
  <1> QED BY <1>1, <1>2, <1>3

LEMMA TidyLoad ==
  ASSUME BInv, RoomBelow, Placed, Apart, NEW role, NEW lost, TidyAs(role, lost), LoadPage
  PROVE  \E new, gone : TidyAs(new, gone)'
  <1>0. PICK q, c, f : q = va /\ c = cr3 /\ f = Lowest(machine)
    OBVIOUS
  <1>1. /\ pc = "load" /\ Loads /\ rc = "loading" /\ elf_load_page(c, q) /\ ram' = ram
        /\ given' = given => rc' = "failed"
    BY <1>0 DEF LoadPage, Loads
  <1>2. rc # "failed" /\ Accounted(machine, role, ram, Absent)
    BY <1>1, Sure DEF Placed, BInv
  <1>3. Good(machine, spaces, given, role) /\ Ready(role) /\ BootVars
    BY DEF TidyAs, Ready, BInv
  <1>4. q \in Pages /\ ~KernelPage(q) /\ c \in spaces
    <2>1. q \in Pages /\ ~KernelPage(q)
      BY <1>0, <1>1, <1>3, LoadsIs
    <2>2. c \in spaces
      BY <1>0, <1>1, <1>3 DEF BootVars
    <2> QED BY <2>1, <2>2
  <1>5. ~Behind(q)
    <2> DEFINE b == image.phdrs[seg].p_vaddr \div PMM_FRAME_SIZE
    <2>1. /\ seg \in Segments /\ q \in Covers(image.phdrs[seg]) /\ q \in Nat /\ q = b + done /\ b \in Nat
      BY <1>0, <1>1, <1>3, LoadedVa
    <2>2. ASSUME NEW i \in Segments, q \in Covers(image.phdrs[i]), Passed(i, q) PROVE FALSE
      <3>1. i = seg
        BY <2>1, <2>2 DEF Apart
      <3>2. image \in Images /\ seg \in Nat /\ done \in Nat
        BY <1>3 DEF BootVars
      <3>3. ~(seg < seg)
        BY <3>2
      <3>4. q < b + done
        BY <2>2, <3>1, <3>3 DEF Passed
      <3> HIDE DEF b
      <3> QED BY <2>1, <3>2, <3>4
    <2> QED BY <2>2 DEF Behind
  <1>6. <<c, q>> \notin DOMAIN given
    <2> DEFINE k == <<c, q>>
    <2>1. k[2] = q
      OBVIOUS
    <2> HIDE DEF k
    <2>2. Going
      BY <1>1 DEF Going
    <2>3. k \notin DOMAIN given
      BY <1>4, <1>5, <2>1, <2>2 DEF Placed, UserKeys
    <2> QED BY <2>3 DEF k
  <1>7. Translate(mem, c, q) = Absent
    BY <1>3, <1>4, <1>6, Untold, MachineIs
  <1>8. \/ Saving(role, Translate(mem, c, q), Absent)
        \/ given' = given /\ Saving(role, Absent, Lowest(machine))
    BY <1>1, <1>3, <1>4, LoadSaving
  <1>9. CASE Saving(role, Translate(mem, c, q), Absent)
    <2>1. Saves(machine, role, machine', spaces', given', Absent, Absent)
      BY <1>7, <1>9 DEF Saving
    <2> QED BY <1>1, <1>2, <2>1, TidySaved
  <1>10. CASE given' = given /\ Saving(role, Absent, Lowest(machine))
    <2>1. Saves(machine, role, machine', spaces', given', Absent, f) /\ rc' = "failed"
      BY <1>0, <1>1, <1>10 DEF Saving
    <2> QED BY <1>1, <1>2, <2>1, TidySaved
  <1> QED BY <1>8, <1>9, <1>10

LEMMA TidyStack ==
  ASSUME BInv, RoomBelow, Placed, NEW role, NEW lost, TidyAs(role, lost), MapStack
  PROVE  (\E new, gone : TidyAs(new, gone)') \/ Ruined'
  <1>0. PICK c : c = cr3
    OBVIOUS
  <1>1. pc = "stack" /\ ram' = ram /\ rc' = rc
    BY DEF MapStack
  <1>2. rc # "failed" /\ Accounted(machine, role, ram, Absent)
    BY <1>1, Sure DEF Placed, BInv
  <1>3. Good(machine, spaces, given, role) /\ Ready(role) /\ BootVars
    BY DEF TidyAs, Ready, BInv
  <1>4. cr3 \in spaces
    BY <1>1, <1>3 DEF BootVars
  <1>5. STACK_PAGE \in Pages /\ ~KernelPage(STACK_PAGE) /\ STACK_PAGE \in Nat
    BY BootNumbers, TopDigit
  <1>6. <<c, STACK_PAGE>> \notin DOMAIN given
    <2> DEFINE k == <<c, STACK_PAGE>>
    <2>1. k[2] = STACK_PAGE
      OBVIOUS
    <2> HIDE DEF k
    <2>2. Going
      BY <1>1 DEF Going
    <2>3. ~Behind(STACK_PAGE)
      <3>1. image \in Images
        BY <1>3 DEF BootVars
      <3>2. \A i \in Segments : STACK_PAGE \in Covers(image.phdrs[i]) => STACK_PAGE < STACK_PAGE
        BY <3>1, CoveredPage
      <3>3. ~(STACK_PAGE < STACK_PAGE)
        BY <1>5
      <3> QED BY <3>2, <3>3 DEF Behind
    <2>4. k \notin DOMAIN given
      BY <1>5, <2>1, <2>2, <2>3 DEF Placed, UserKeys
    <2> QED BY <2>4 DEF k
  <1>7. Translate(mem, cr3, STACK_PAGE) = Absent
    BY <1>0, <1>3, <1>4, <1>5, <1>6, Untold, MachineIs
  <1>8. \/ UNCHANGED vars
        \/ Saving(role, Translate(mem, cr3, STACK_PAGE), Absent)
        \/ Tears(role)
    BY <1>3, <1>4, StackSaving
  <1>9. CASE UNCHANGED vars
    BY <1>1, <1>9, TidySame
  <1>10. CASE Saving(role, Translate(mem, cr3, STACK_PAGE), Absent)
    <2>1. Saves(machine, role, machine', spaces', given', Absent, Absent)
      BY <1>7, <1>10 DEF Saving
    <2> QED BY <1>1, <1>2, <2>1, TidySaved
  <1>11. CASE Tears(role)
    <2>1. Goto("user task") /\ Wrecks(machine, role, machine', spaces')
      BY <1>11 DEF Tears
    <2>2. pc' = "user task"
      BY <2>1, Zenon DEF Goto
    <2>3. Wrecked(machine', spaces', ram')
      BY <1>1, <1>2, <2>1 DEF Wrecks
    <2>4. ~Going'
      BY <2>2 DEF Going
    <2> QED BY <2>3, <2>4 DEF Ruined
  <1> QED BY <1>8, <1>9, <1>10, <1>11

LEMMA Quiet ==
  ASSUME BootNext, ~HeapPage, ~CreateSpace, ~LoadPage, ~MapStack
  PROVE  UNCHANGED vars /\ (rc = "failed" => rc' = "failed")
  <1>1. CASE HeapNoFrame \/ heap_init \/ LoadReturns \/ Up
    BY <1>1 DEF HeapNoFrame, heap_init, LoadReturns, Up, allvars, boot
  <1>2. CASE LoadFails
    BY <1>2 DEF LoadFails
  <1>3. CASE NextSegment
    BY <1>3 DEF NextSegment
  <1>4. ASSUME NEW t, NEW place, Create(t, place) PROVE UNCHANGED vars /\ (rc = "failed" => rc' = "failed")
    BY <1>4 DEF Create
  <1> QED BY <1>1, <1>2, <1>3, <1>4 DEF BootNext

LEMMA RuinedStep ==
  ASSUME Ruined, BootNext
  PROVE  Ruined'
  <1>1. machine.free = {}
    <2>1. \E m, role, j, f : Torn(m, machine, role, j, f)
      BY DEF Ruined, Wrecked
    <2> QED BY <2>1 DEF Torn
  <1>2. Lowest(machine) = 0
    BY <1>1 DEF Lowest
  <1>3. pc \in {"user task", "up"}
    BY DEF Ruined, Going
  <1>4. ~HeapPage /\ ~heap_init /\ ~CreateSpace /\ ~LoadPage /\ ~LoadFails /\ ~NextSegment /\ ~LoadReturns /\ ~MapStack
    BY <1>2, <1>3 DEF HeapPage, heap_extend, heap_init, CreateSpace, LoadPage, LoadFails, NextSegment, LoadReturns, MapStack
  <1>5. ~Create("idle", "thread a") /\ ~Create("thread a", "thread b") /\ ~Create("thread b", "space")
    BY <1>3 DEF Create
  <1>6. HeapNoFrame \/ Create("user task", "up") \/ Up
    BY <1>4, <1>5 DEF BootNext
  <1>7. pc' = pc \/ pc' = "up"
    BY <1>6 DEF HeapNoFrame, Create, Goto, Up, allvars
  <1>8. ~Going'
    BY <1>3, <1>7 DEF Going
  <1>9. UNCHANGED vars /\ ram' = ram
    BY <1>4, Quiet, ConstantStep
  <1>10. machine' = machine /\ spaces' = spaces
    BY <1>9 DEF vars, machine
  <1> QED BY <1>8, <1>9, <1>10 DEF Ruined

LEMMA TidyStep ==
  ASSUME BInv, RoomBelow, Placed, Tidy, [BootNext]_allvars
  PROVE  Tidy'
  <1>1. CASE UNCHANGED allvars
    <2>1. UNCHANGED vars /\ ram' = ram /\ rc' = rc /\ image' = image /\ pc' = pc
      BY <1>1 DEF allvars, boot
    <2>2. Apart' = Apart
      BY <2>1 DEF Apart, Segments
    <2>3. machine' = machine /\ spaces' = spaces /\ given' = given
      BY <2>1 DEF vars, machine
    <2>4. Ruined => Ruined'
      BY <2>1, <2>3 DEF Ruined, Going
    <2>5. ASSUME NEW role, NEW lost, TidyAs(role, lost) PROVE TidyAs(role, lost)'
      BY <2>1, <2>5, TidySame
    <2> QED BY <2>2, <2>4, <2>5 DEF Tidy
  <1>2. CASE BootNext
    <2>1. ram' = ram /\ image' = image
      BY <1>2, ConstantStep
    <2>2. Apart' = Apart
      BY <2>1 DEF Apart, Segments
    <2>3. CASE Ruined
      BY <1>2, <2>3, RuinedStep DEF Tidy
    <2>4. ASSUME Apart, NEW role, NEW lost, TidyAs(role, lost)
          PROVE  (\E new, gone : TidyAs(new, gone)') \/ Ruined'
      <3>1. CASE HeapPage
        BY <2>4, <3>1, TidyHeap
      <3>2. CASE CreateSpace
        BY <2>4, <3>2, TidySpace
      <3>3. CASE LoadPage
        BY <2>4, <3>3, TidyLoad
      <3>4. CASE MapStack
        BY <2>4, <3>4, TidyStack
      <3>5. CASE ~HeapPage /\ ~CreateSpace /\ ~LoadPage /\ ~MapStack
        BY <1>2, <2>1, <2>4, <3>5, Quiet, TidySame
      <3> QED BY <3>1, <3>2, <3>3, <3>4, <3>5
    <2> QED BY <2>2, <2>3, <2>4 DEF Tidy
  <1> QED BY <1>1, <1>2

LEMMA TidyFirst ==
  ASSUME BootInit
  PROVE  Tidy
  <1> DEFINE role == FirstRole(free)
  <1>1. Good(machine, spaces, given, role) /\ First(mem) /\ ram = free
    BY FirstGood, FirstIs DEF BootInit
  <1>2. \A x \in Frames : role[x] = IF x = pml4_new THEN 1 ELSE IF x = pdpt_hi THEN 2 ELSE IF x = pd_hi THEN 3
                    ELSE IF x \in free /\ x # SCRATCH THEN 0 ELSE 6
    BY DEF FirstRole
  <1>3. /\ pml4_new \in Frames /\ pdpt_hi \in Frames /\ K \in Index /\ K - 1 \in Index
        /\ pml4_new # pdpt_hi
    BY Numbers
  <1> HIDE DEF role
  <1>4. ASSUME NEW x \in Frames PROVE Kept(machine, role, x) \/ (x \notin ram /\ role[x] = 6)
    <2>1. CASE x = pml4_new
      BY <1>2, <2>1 DEF Kept, Hangs
    <2>2. CASE x = pdpt_hi
      <3>1. mem[pml4_new][K] = x /\ role[pml4_new] \in 1 .. 4 /\ Open(pml4_new, K)
        BY <1>1, <1>2, <1>3, <2>2 DEF First, Open
      <3> QED BY <1>3, <3>1, MachineIs DEF Kept, Hangs
    <2>3. CASE x = pd_hi
      <3>1. mem[pdpt_hi][K - 1] = x
        BY <1>1, <1>3, <2>3 DEF First
      <3>2. role[pdpt_hi] \in 1 .. 4 /\ Open(pdpt_hi, K - 1)
        BY <1>2, <1>3 DEF Open
      <3> QED BY <1>3, <3>1, <3>2, MachineIs DEF Kept, Hangs
    <2>4. CASE x \in free
      BY <2>4, MachineIs DEF Kept
    <2>5. CASE x \notin {pml4_new, pdpt_hi, pd_hi} \cup free
      BY <1>1, <1>2, <2>5
    <2> QED BY <2>1, <2>2, <2>3, <2>4, <2>5
  <1>5. TidyAs(role, Absent)
    BY <1>1, <1>4 DEF TidyAs, Accounted
  <1> QED BY <1>5 DEF Tidy

LEMMA NothingLost ==
  ASSUME Placed, Tidy
  PROVE  NoFrameLost
  <1> SUFFICES ASSUME Apart PROVE Cardinality(Lost) <= IF rc = "failed" THEN 1 ELSE 0
    BY DEF NoFrameLost
  <1>0. Cardinality({}) = 0 /\ \A x : Cardinality({x}) = 1
    BY FS_EmptySet, FS_Singleton
  <1>1. CASE Lost = {}
    BY <1>0, <1>1
  <1>2. CASE Lost # {}
    <2>1. ~Ruined
      BY <1>2, WreckFound DEF Ruined, Placed
    <2>2. PICK role, lost : TidyAs(role, lost)
      BY <2>1 DEF Tidy
    <2>3. \A x \in Lost : x = lost
      BY <2>2, AccountFound DEF TidyAs, Placed
    <2>4. Lost = {lost}
      BY <1>2, <2>3
    <2>5. lost # Absent
      <3>1. lost \in ram
        BY <2>4 DEF Lost
      <3> QED BY <3>1, Numbers DEF Placed, RamApart
    <2>6. rc = "failed"
      BY <2>2, <2>5 DEF TidyAs
    <2>7. Cardinality(Lost) = 1
      BY <1>0, <2>4
    <2> QED BY <2>6, <2>7
  <1> QED BY <1>1, <1>2

(* If no two segments share a page, a boot on which frames run out at any  *)
(* point loses at most one of them, in an elf_load that fails: all others  *)
(* taken are PML4s, tables or pages that the address spaces lead to.       *)
THEOREM FramesAccounted == BootSpec /\ []RoomBelow => []NoFrameLost
  <1>1. BootInit => Placed /\ Tidy
    BY PlacedFirst, TidyFirst
  <1>2. BInv /\ RoomBelow /\ Placed /\ Tidy /\ [BootNext]_allvars => Placed' /\ Tidy'
    BY PlacedStep, TidyStep
  <1>3. Placed /\ Tidy => NoFrameLost
    BY NothingLost
  <1> QED BY <1>1, <1>2, <1>3, BootInvariance, PTL DEF BootSpec

-----------------------------------------------------------------------------
(* How few frames kernel_main takes, whatever is in the tables.  As long as*)
(* n more than k low frames are free, a call that allocates n times leaves *)
(* k of them, and all the high ones.                                       *)
Drops(F, G, n) ==
  \A k \in Nat : Cardinality(F \cap Low) >= k + n => Cardinality(G \cap Low) >= k /\ F \ Low \subseteq G

LEMMA LowFinite ==
  ASSUME NEW F
  PROVE  IsFiniteSet(F \cap Low) /\ Cardinality(F \cap Low) \in Nat
  <1>1. IsFiniteSet(Low)
    BY Numbers, FS_Interval DEF Low
  <1>2. IsFiniteSet(F \cap Low)
    BY <1>1, FS_Subset
  <1> QED BY <1>2, FS_CardinalityType

LEMMA DropsSame ==
  ASSUME NEW F
  PROVE  Drops(F, F, 0)
  BY DEF Drops

LEMMA DropsTwice ==
  ASSUME NEW F, NEW G, NEW H, NEW a \in Nat, NEW b \in Nat, Drops(F, G, a), Drops(G, H, b)
  PROVE  Drops(F, H, a + b)
  <1> SUFFICES ASSUME NEW k \in Nat, Cardinality(F \cap Low) >= k + (a + b)
               PROVE  Cardinality(H \cap Low) >= k /\ F \ Low \subseteq H
    BY DEF Drops
  <1>1. k + b \in Nat /\ Cardinality(F \cap Low) >= (k + b) + a
    BY LowFinite
  <1>2. Cardinality(G \cap Low) >= k + b /\ F \ Low \subseteq G
    BY <1>1 DEF Drops
  <1>3. Cardinality(H \cap Low) >= k /\ G \ Low \subseteq H
    BY <1>2 DEF Drops
  <1> QED BY <1>2, <1>3

LEMMA DropsMore ==
  ASSUME NEW F, NEW G, NEW H, NEW a \in Nat, NEW b \in Nat, a <= b, Drops(F, G, a), G \subseteq H
  PROVE  Drops(F, H, b)
  <1> SUFFICES ASSUME NEW k \in Nat, Cardinality(F \cap Low) >= k + b
               PROVE  Cardinality(H \cap Low) >= k /\ F \ Low \subseteq H
    BY DEF Drops
  <1>1. Cardinality(F \cap Low) >= k + a
    BY LowFinite
  <1>2. Cardinality(G \cap Low) >= k /\ F \ Low \subseteq G
    BY <1>1 DEF Drops
  <1>3. Cardinality(G \cap Low) <= Cardinality(H \cap Low)
    <2>1. G \cap Low \subseteq H \cap Low
      OBVIOUS
    <2> QED BY <2>1, LowFinite, FS_Subset
  <1>4. Cardinality(G \cap Low) \in Nat /\ Cardinality(H \cap Low) \in Nat
    BY LowFinite
  <1>5. Cardinality(H \cap Low) >= k
    BY <1>2, <1>3, <1>4
  <1> QED BY <1>2, <1>5

(* A machine record whose free frames are known to be frames.              *)
Sane(m) == "free" \in DOMAIN m /\ m.free \subseteq Frames \ {0}

LEMMA DropsOne ==
  ASSUME NEW m, Sane(m)
  PROVE  Drops(m.free, m.free \ {Lowest(m)}, 1)
  <1> DEFINE r == [mem |-> [f \in Frames |-> Empty], scratch |-> SCRATCH, free |-> m.free]
  <1>1. r \in Machine
    <2>1. [f \in Frames |-> Empty] \in Tables
      BY DEF Tables, Empty, Entries
    <2>2. SCRATCH \in Frames
      BY Numbers
    <2> HIDE DEF Tables, Empty, SCRATCH
    <2> QED BY <2>1, <2>2 DEF Machine, Sane
  <1>2. r.free = m.free
    OBVIOUS
  <1> HIDE DEF r
  <1>3. Lowest(r) = Lowest(m)
    BY <1>2 DEF Lowest
  <1> SUFFICES ASSUME NEW k \in Nat, Cardinality(m.free \cap Low) >= k + 1
               PROVE  /\ Cardinality((m.free \ {Lowest(m)}) \cap Low) >= k
                      /\ m.free \ Low \subseteq m.free \ {Lowest(m)}
    BY DEF Drops
  <1>4. Room(r.free, k + 1)
    BY <1>2 DEF Room
  <1>5. r.free # {}
    <2>1. r.free = {} => Cardinality(m.free \cap Low) = 0
      <3>1. r.free = {} => m.free \cap Low = {}
        BY <1>2
      <3> QED BY <3>1, FS_EmptySet
    <2> QED BY <2>1
  <1>6. Lowest(m) < SCRATCH /\ Lowest(m) \in m.free
    BY <1>1, <1>2, <1>3, <1>4, <1>5, RoomIs, LowestIs
  <1>7. Lowest(m) \in Low
    <2>1. m.free \subseteq Nat /\ SCRATCH \in Nat
      BY Numbers DEF Sane
    <2>2. Lowest(m) \in Nat
      BY <1>6, <2>1
    <2> QED BY <1>6, <2>1, <2>2 DEF Low
  <1>8. Cardinality((m.free \ {Lowest(m)}) \cap Low) >= k
    <2> DEFINE T == m.free \cap Low
    <2>1. IsFiniteSet(T) /\ Cardinality(T) \in Nat /\ Lowest(m) \in T
      BY <1>6, <1>7, LowFinite
    <2>2. Cardinality(T \ {Lowest(m)}) = Cardinality(T) - 1
      BY <2>1, FS_RemoveElement
    <2>3. (m.free \ {Lowest(m)}) \cap Low = T \ {Lowest(m)}
      OBVIOUS
    <2>4. Cardinality(T) >= k + 1
      OBVIOUS
    <2> HIDE DEF T
    <2>5. Cardinality(T \ {Lowest(m)}) >= k
      BY <2>1, <2>2, <2>4
    <2> QED BY <2>3, <2>5
  <1> QED BY <1>7, <1>8

(* Memory operations by what they do to the free frames.                   *)
LEMMA FreeKept ==
  ASSUME NEW m, Sane(m), NEW p, NEW i, NEW f
  PROVE  /\ Sane(scratch_map(m, f)) /\ scratch_map(m, f).free = m.free
         /\ Sane(virt_for_phys(m, f)) /\ virt_for_phys(m, f).free = m.free
         /\ Sane(Store(m, p, i, f)) /\ Store(m, p, i, f).free = m.free
         /\ Sane(Zero(m, p)) /\ Zero(m, p).free = m.free
         /\ Sane(Taken(m)) /\ Taken(m).free = m.free \ {Lowest(m)}
  <1>1. Sane(scratch_map(m, f)) /\ scratch_map(m, f).free = m.free
    BY DEF scratch_map, Sane
  <1>2. Sane(virt_for_phys(m, f)) /\ virt_for_phys(m, f).free = m.free
    BY <1>1 DEF virt_for_phys
  <1>3. Sane(Store(m, p, i, f)) /\ Store(m, p, i, f).free = m.free
    BY DEF Store, Sane
  <1>4. Sane(Zero(m, p)) /\ Zero(m, p).free = m.free
    BY DEF Zero, Sane
  <1>5. Sane(Taken(m)) /\ Taken(m).free = m.free \ {Lowest(m)}
    BY DEF Taken, Sane
  <1> QED BY <1>1, <1>2, <1>3, <1>4, <1>5

LEMMA FreeNewTable ==
  ASSUME NEW m, Sane(m), NEW p, NEW i, NEW caller
  PROVE  Sane(NewTable(m, p, i, caller)) /\ NewTable(m, p, i, caller).free = m.free \ {Lowest(m)}
  <1> DEFINE f == Lowest(m)
             t == Taken(m)
  <1>1. Sane(t) /\ t.free = m.free \ {Lowest(m)}
    BY FreeKept
  <1> HIDE DEF t, f
  <1>2. ASSUME NEW a, NEW q, Sane(a), a.free = t.free
        PROVE  Sane(Store(Zero(a, q), p, i, f)) /\ Store(Zero(a, q), p, i, f).free = t.free
    <2>1. Sane(Zero(a, q)) /\ Zero(a, q).free = t.free
      BY <1>2, FreeKept
    <2> QED BY <2>1, FreeKept
  <1>3. Sane(scratch_map(t, f)) /\ scratch_map(t, f).free = t.free
    BY <1>1, FreeKept
  <1>4. Sane(virt_for_phys(t, f)) /\ virt_for_phys(t, f).free = t.free
    BY <1>1, FreeKept
  <1>5. \/ NewTable(m, p, i, caller) = Store(Zero(scratch_map(t, f), SCRATCH), p, i, f)
        \/ NewTable(m, p, i, caller) = Store(Zero(virt_for_phys(t, f), Pointer(f)), p, i, f)
    BY Zenon DEF NewTable, t, f
  <1> QED BY <1>1, <1>2, <1>3, <1>4, <1>5

(* A walk that has allocated n times at most since F was free.             *)
Leaves(m, F, n) == Sane(m) /\ Drops(F, m.free, n)
Treads(w, F, n) == "m" \in DOMAIN w /\ Leaves(w.m, F, n)

LEMMA LeavesKept ==
  ASSUME NEW m, NEW F, NEW n \in Nat, Leaves(m, F, n), NEW p, NEW i, NEW f
  PROVE  /\ Leaves(virt_for_phys(m, f), F, n) /\ Leaves(Store(m, p, i, f), F, n)
         /\ Leaves(Zero(m, p), F, n) /\ Leaves(Taken(m), F, n + 1)
  <1>1. Sane(m) /\ Drops(F, m.free, n)
    BY DEF Leaves
  <1>2. Drops(F, m.free \ {Lowest(m)}, n + 1)
    BY <1>1, DropsOne, DropsTwice
  <1>3. Leaves(virt_for_phys(m, f), F, n)
    BY <1>1, FreeKept DEF Leaves
  <1>4. Leaves(Store(m, p, i, f), F, n)
    BY <1>1, FreeKept DEF Leaves
  <1>5. Leaves(Zero(m, p), F, n)
    BY <1>1, FreeKept DEF Leaves
  <1>6. Leaves(Taken(m), F, n + 1)
    BY <1>1, <1>2, FreeKept DEF Leaves
  <1> QED BY <1>3, <1>4, <1>5, <1>6

LEMMA LeavesMore ==
  ASSUME NEW m, NEW F, NEW n \in Nat, Leaves(m, F, n)
  PROVE  Leaves(m, F, n + 1)
  BY DropsMore DEF Leaves

LEMMA DescendLeaves ==
  ASSUME NEW w, NEW F, NEW n \in Nat, Treads(w, F, n), NEW i, NEW caller
  PROVE  Treads(Descend(w, i, caller), F, n + 1)
  <1>1. "m" \in DOMAIN w /\ Leaves(w.m, F, n)
    BY DEF Treads
  <1> DEFINE m == IF Load(w.m, w.p, i) = Absent THEN NewTable(w.m, w.p, i, caller) ELSE w.m
             below == Load(m, w.p, i)
  <1>2. Leaves(m, F, n + 1)
    <2>1. Sane(w.m) /\ Drops(F, w.m.free, n)
      BY <1>1 DEF Leaves
    <2>2. /\ Sane(NewTable(w.m, w.p, i, caller))
          /\ NewTable(w.m, w.p, i, caller).free = w.m.free \ {Lowest(w.m)}
      BY <2>1, FreeNewTable
    <2>3. Drops(F, w.m.free \ {Lowest(w.m)}, n + 1)
      BY <2>1, DropsOne, DropsTwice
    <2>4. Leaves(NewTable(w.m, w.p, i, caller), F, n + 1)
      BY <2>2, <2>3 DEF Leaves
    <2>5. Leaves(w.m, F, n + 1)
      BY <1>1, LeavesMore
    <2> QED BY <2>4, <2>5
  <1>3. \/ Descend(w, i, caller) = [w EXCEPT !.ok = FALSE]
        \/ Descend(w, i, caller) = Walk(virt_for_phys(m, below), Pointer(below), TRUE)
    BY Zenon DEF Descend, Walk
  <1>4. Leaves(virt_for_phys(m, below), F, n + 1)
    <2> HIDE DEF m, below
    <2> QED BY <1>2, LeavesKept
  <1>5. CASE Descend(w, i, caller) = [w EXCEPT !.ok = FALSE]
    <2> DEFINE no == FALSE
    <2>1. Descend(w, i, caller) = [w EXCEPT !.ok = no]
      BY <1>5
    <2> HIDE DEF no
    <2>2. "m" \in DOMAIN Descend(w, i, caller) /\ Descend(w, i, caller).m = w.m
      BY <1>1, <2>1
    <2> QED BY <1>1, <2>2, LeavesMore DEF Treads
  <1>6. CASE Descend(w, i, caller) = Walk(virt_for_phys(m, below), Pointer(below), TRUE)
    <2> DEFINE v == virt_for_phys(m, below)
               d == Descend(w, i, caller)
    <2> HIDE DEF m, below, v, d
    <2>1. "m" \in DOMAIN d /\ d.m = v
      BY <1>6 DEF Walk, v, d
    <2> QED BY <1>4, <2>1 DEF Treads, v, d
  <1> QED BY <1>3, <1>5, <1>6

LEMMA MapInLeaves ==
  ASSUME NEW m, NEW F, NEW n \in Nat, Leaves(m, F, n), NEW p, NEW page, NEW f, NEW caller
  PROVE  Leaves(MapIn(m, p, page, f, caller).m, F, n + 3)
  <1> DEFINE path == Path(page)
             w0 == [m |-> m, p |-> p, ok |-> TRUE]
             w1 == Descend(w0, path[1], caller)
             w2 == Descend(w1, path[2], caller)
             w3 == Descend(w2, path[3], caller)
  <1>1. Treads(w0, F, n)
    BY DEF Treads
  <1>2. Treads(w1, F, n + 1)
    BY <1>1, DescendLeaves
  <1> HIDE DEF w1
  <1>3. Treads(w2, F, n + 1 + 1)
    <2>1. n + 1 \in Nat
      OBVIOUS
    <2> QED BY <1>2, <2>1, DescendLeaves
  <1> HIDE DEF w2
  <1>4. Treads(w3, F, n + 1 + 1 + 1)
    <2>1. n + 1 + 1 \in Nat
      OBVIOUS
    <2> QED BY <1>3, <2>1, DescendLeaves
  <1>5. MapIn(m, p, page, f, caller) = IF w3.ok THEN [w3 EXCEPT !.m = Store(w3.m, w3.p, path[4], f)] ELSE w3
    BY DEF MapIn, Follow, w1, w2
  <1> HIDE DEF w3, path
  <1>6. n + 1 + 1 + 1 = n + 3 /\ n + 3 \in Nat
    OBVIOUS
  <1>7. "m" \in DOMAIN w3 /\ Leaves(w3.m, F, n + 3)
    BY <1>4, <1>6 DEF Treads
  <1> DEFINE s == Store(w3.m, w3.p, path[4], f)
  <1>8. Leaves(s, F, n + 3)
    BY <1>6, <1>7, LeavesKept
  <1> HIDE DEF s
  <1>9. [w3 EXCEPT !.m = s].m = s
    BY <1>7
  <1> QED BY <1>5, <1>7, <1>8, <1>9 DEF s

(* The steps of kernel_main that allocate take four frames at most.        *)
Takes(n) == free' \subseteq Frames \ {0} /\ Drops(free, free', n)

LEMMA TakesBy ==
  ASSUME NEW STATE r, NEW n \in Nat, Leaves(r, free, n), Becomes(r)
  PROVE  Takes(n)
  BY DEF Takes, Leaves, Sane, Becomes

LEMMA HeapTakes ==
  ASSUME free \subseteq Frames \ {0}, heap_extend
  PROVE  Takes(4)
  <1> DEFINE page == HEAP_START + heap_pages
             f == Lowest(machine)
             w == paging_map_page(Taken(machine), page, f)
  <1>1. Leaves(machine, free, 0)
    BY DropsSame DEF Leaves, Sane, machine
  <1>2. Leaves(Taken(machine), free, 1)
    <2>1. Leaves(Taken(machine), free, 0 + 1)
      BY <1>1, LeavesKept
    <2> QED BY <2>1
  <1>3. Leaves(w.m, free, 4)
    <2>1. Leaves(w.m, free, 1 + 3)
      BY <1>2, MapInLeaves DEF paging_map_page
    <2> QED BY <2>1
  <1>4. f \in Frames \ {0}
    <2>1. f # 0
      BY DEF heap_extend
    <2>2. free # {} /\ f = Min(free)
      BY <2>1 DEF Lowest, machine
    <2>3. Min(free) \in free
      <3>1. free \subseteq Nat
        BY Numbers
      <3>2. \E n \in free : \A g \in free : n <= g
        BY <2>2, <3>1, Least
      <3> QED BY <3>2 DEF Min
    <2> QED BY <2>2, <2>3
  <1>5. \/ Becomes([w.m EXCEPT !.mem[Translate(w.m.mem, pml4_new, page)] = Empty])
        \/ Becomes(pmm_free_frame(w.m, f))
    BY Zenon DEF heap_extend
  <1> HIDE DEF w, f
  <1>6. CASE Becomes([w.m EXCEPT !.mem[Translate(w.m.mem, pml4_new, page)] = Empty])
    <2>1. free' = w.m.free
      <3>1. "free" \in DOMAIN w.m
        BY <1>3 DEF Leaves, Sane
      <3> DEFINE t == Translate(w.m.mem, pml4_new, page)
                 y == w.m
      <3>2. free' = [y EXCEPT !.mem[t] = Empty].free
        BY <1>6 DEF Becomes
      <3> HIDE DEF t, y
      <3>3. "free" \in DOMAIN y
        BY <3>1 DEF y
      <3>4. [y EXCEPT !.mem[t] = Empty].free = y.free
        BY <3>3
      <3> QED BY <3>2, <3>4 DEF y
    <2> QED BY <1>3, <2>1 DEF Takes, Leaves, Sane
  <1>7. CASE Becomes(pmm_free_frame(w.m, f))
    <2>1. free' = w.m.free \cup {f}
      <3>1. "free" \in DOMAIN w.m
        BY <1>3 DEF Leaves, Sane
      <3> QED BY <1>7, <3>1 DEF Becomes, pmm_free_frame
    <2>2. Drops(free, w.m.free, 4) /\ w.m.free \subseteq Frames \ {0}
      BY <1>3 DEF Leaves, Sane
    <2>3. Drops(free, free', 4)
      BY <2>1, <2>2, DropsMore
    <2> QED BY <1>4, <2>1, <2>2, <2>3 DEF Takes
  <1> QED BY <1>5, <1>6, <1>7

LEMMA SpaceTakes ==
  ASSUME free \subseteq Frames \ {0}, paging_create_user_space
  PROVE  Takes(4)
  <1> DEFINE c == Lowest(machine)
             cleared == Zero(virt_for_phys(Taken(machine), c), Pointer(c))
             r == Store(cleared, Pointer(c), KERNEL_ENTRY, Load(cleared, pml4_new, KERNEL_ENTRY))
  <1>1. Leaves(machine, free, 0)
    BY DropsSame DEF Leaves, Sane, machine
  <1>2. Leaves(Taken(machine), free, 1)
    <2>1. Leaves(Taken(machine), free, 0 + 1)
      BY <1>1, LeavesKept
    <2> QED BY <2>1
  <1>3. Leaves(virt_for_phys(Taken(machine), c), free, 1)
    BY <1>2, LeavesKept
  <1>4. Leaves(cleared, free, 1)
    BY <1>3, LeavesKept
  <1>5. Becomes(r)
    BY Zenon DEF paging_create_user_space
  <1> HIDE DEF cleared
  <1>6. Leaves(r, free, 1)
    BY <1>4, LeavesKept
  <1> HIDE DEF r
  <1>7. Takes(1)
    BY <1>5, <1>6, TakesBy
  <1> QED BY <1>7, DropsMore DEF Takes

(* A frame taken and cleared, then mapped: elf_load and the user stack.    *)
LEMMA PageTakes ==
  ASSUME free \subseteq Frames \ {0}, NEW STATE c, NEW STATE page, NEW STATE f, NEW caller,
         Becomes(MapIn(virt_for_phys(Zero(virt_for_phys(Taken(machine), f), Pointer(f)), c),
                       Pointer(c), page, f, caller).m)
  PROVE  Takes(4)
  <1> DEFINE z == Zero(virt_for_phys(Taken(machine), f), Pointer(f))
             r == MapIn(virt_for_phys(z, c), Pointer(c), page, f, caller).m
  <1>1. Leaves(machine, free, 0)
    BY DropsSame DEF Leaves, Sane, machine
  <1>2. Leaves(Taken(machine), free, 1)
    <2>1. Leaves(Taken(machine), free, 0 + 1)
      BY <1>1, LeavesKept
    <2> QED BY <2>1
  <1>3. Leaves(virt_for_phys(Taken(machine), f), free, 1)
    BY <1>2, LeavesKept
  <1>4. Leaves(z, free, 1)
    BY <1>3, LeavesKept
  <1>5. Becomes(r)
    OBVIOUS
  <1> HIDE DEF z
  <1>6. Leaves(virt_for_phys(z, c), free, 1)
    BY <1>4, LeavesKept
  <1>7. Leaves(r, free, 1 + 3)
    BY <1>6, MapInLeaves
  <1> HIDE DEF r
  <1> QED BY <1>5, <1>7, TakesBy

(* The pages that kernel_main may still ask for: those left of this call of*)
(* heap_extend, and b for what comes after it.  Low frames are left for all*)
(* of them, with four to spare.                                            *)
Todo == {q \in ImagePages : ~Behind(q)}
Rest(b) ==
  \/ pc = "heap" /\ b = 4 * StackPages + Cardinality(ImagePages) + 2
  \/ pc = "idle" /\ b = 3 * StackPages + Cardinality(ImagePages) + 2
  \/ pc = "thread a" /\ b = 2 * StackPages + Cardinality(ImagePages) + 2
  \/ pc \in {"thread b", "space"} /\ b = StackPages + Cardinality(ImagePages) + 2
  \/ pc = "load" /\ rc = "loading" /\ b = StackPages + Cardinality(Todo) + 1
  \/ pc = "load" /\ rc # "loading" /\ b = StackPages + 1
  \/ pc = "stack" /\ b = StackPages + 1
  \/ pc \in {"user task", "up"} /\ b = 0
ToMap(n) == IF n > 0 THEN n ELSE 0
Enough(n) == Cardinality(free \cap Low) >= 4 * n + 4
Budget(b) == Rest(b) /\ b \in Nat /\ Enough(ToMap(left) + b)
Tight == free \subseteq Frames \ {0} /\ ram \ Low \subseteq free /\ \E b : Budget(b)

LEMMA ImageFinite ==
  ASSUME image \in Images
  PROVE  /\ IsFiniteSet(ImagePages) /\ Cardinality(ImagePages) \in Nat
         /\ IsFiniteSet(Todo) /\ Cardinality(Todo) \in Nat /\ Cardinality(Todo) <= Cardinality(ImagePages)
  <1>1. ImagePages \subseteq 0 .. STACK_PAGE
    <2> SUFFICES ASSUME NEW q \in ImagePages PROVE q \in 0 .. STACK_PAGE
      OBVIOUS
    <2>1. PICK i \in Segments : q \in Covers(image.phdrs[i])
      BY DEF ImagePages
    <2>2. q \in Nat /\ q < STACK_PAGE
      BY <2>1, CoveredPage
    <2>3. STACK_PAGE \in Nat
      BY BootNumbers, TopDigit
    <2> QED BY <2>2, <2>3
  <1>2. IsFiniteSet(0 .. STACK_PAGE)
    BY BootNumbers, TopDigit, FS_Interval
  <1>3. IsFiniteSet(ImagePages)
    BY <1>1, <1>2, FS_Subset
  <1>4. Todo \subseteq ImagePages
    BY DEF Todo
  <1> QED BY <1>3, <1>4, FS_Subset, FS_CardinalityType

LEMMA RestIs ==
  ASSUME NEW b, Rest(b)
  PROVE  /\ pc = "heap" => b = 4 * StackPages + Cardinality(ImagePages) + 2
         /\ pc = "idle" => b = 3 * StackPages + Cardinality(ImagePages) + 2
         /\ pc = "thread a" => b = 2 * StackPages + Cardinality(ImagePages) + 2
         /\ pc = "thread b" => b = StackPages + Cardinality(ImagePages) + 2
         /\ pc = "space" => b = StackPages + Cardinality(ImagePages) + 2
         /\ pc = "load" /\ rc = "loading" => b = StackPages + Cardinality(Todo) + 1
         /\ pc = "load" /\ rc # "loading" => b = StackPages + 1
         /\ pc = "stack" => b = StackPages + 1
  BY DEF Rest

(* From a budget to that of the next state, if nothing was allocated, and  *)
(* if a step used up one of its pages.                                     *)
LEMMA BudgetLess ==
  ASSUME Tight, NEW b, Budget(b), left \in Int, left' \in Int, NEW d \in Nat, Rest(d)',
         ToMap(left') + d <= ToMap(left) + b, free' = free, ram' = ram
  PROVE  Tight'
  <1>1. b \in Nat /\ ToMap(left) \in Nat /\ ToMap(left') \in Nat /\ Enough(ToMap(left) + b)
    BY DEF Budget, ToMap
  <1>2. Enough(ToMap(left) + d)'
    <2> DEFINE n == ToMap(left) + b
               k == ToMap(left') + d
    <2>1. n \in Nat /\ k \in Nat /\ k <= n /\ Enough(n)
      BY <1>1
    <2> HIDE DEF n, k
    <2>2. \A j \in Nat : j <= n => (Cardinality(free' \cap Low) >= 4 * j + 4)
      <3>1. Cardinality(free \cap Low) \in Nat /\ Cardinality(free \cap Low) >= 4 * n + 4
        BY <2>1, LowFinite DEF Enough
      <3> QED BY <2>1, <3>1
    <2>3. Cardinality(free' \cap Low) >= 4 * k + 4
      BY <2>1, <2>2
    <2> QED BY <2>3 DEF Enough, k
  <1>3. Budget(d)'
    BY <1>2 DEF Budget
  <1> QED BY <1>3 DEF Tight

LEMMA BudgetNext ==
  ASSUME Tight, NEW b, Budget(b), left \in Int, left' \in Int, NEW d \in Nat, Rest(d)',
         ToMap(left') + d < ToMap(left) + b, Takes(4), ram' = ram
  PROVE  Tight'
  <1>1. b \in Nat /\ ToMap(left) \in Nat /\ ToMap(left') \in Nat /\ Enough(ToMap(left) + b)
    BY DEF Budget, ToMap
  <1> DEFINE n == ToMap(left) + b
             k == ToMap(left') + d
             c == 4 * k + 4
  <1>2. n \in Nat /\ k \in Nat /\ k < n /\ Enough(n)
    BY <1>1
  <1>3. c \in Nat /\ Cardinality(free \cap Low) >= c + 4
    <2> HIDE DEF n, k
    <2>1. Cardinality(free \cap Low) >= 4 * n + 4 /\ Cardinality(free \cap Low) \in Nat
      BY <1>2, LowFinite DEF Enough
    <2> QED BY <1>2, <2>1
  <1> HIDE DEF c
  <1>4. Cardinality(free' \cap Low) >= c /\ free \ Low \subseteq free' /\ free' \subseteq Frames \ {0}
    BY <1>3 DEF Drops, Takes
  <1>5. Enough(ToMap(left) + d)'
    BY <1>4 DEF Enough, c
  <1>6. Budget(d)'
    BY <1>5 DEF Budget
  <1>7. ram' \ Low \subseteq free'
    BY <1>4 DEF Tight
  <1> QED BY <1>4, <1>6, <1>7 DEF Tight

LEMMA RestSame ==
  ASSUME NEW b, Rest(b), UNCHANGED <<pc, rc, image, seg, done>>
  PROVE  Rest(b)'
  <1>1. ImagePages' = ImagePages
    BY DEF ImagePages, Segments
  <1>2. Todo' = Todo
    BY <1>1 DEF Todo, Behind, Segments, Passed
  <1> HIDE DEF ImagePages, Todo
  <1> QED BY <1>1, <1>2 DEF Rest

LEMMA GotoLeft ==
  ASSUME NEW place, Goto(place)
  PROVE  /\ pc' = place /\ left' \in Int /\ ToMap(left') \in Nat /\ ToMap(left') <= StackPages
         /\ place \in {"space", "load", "stack", "up"} => ToMap(left') = 0
  <1>1. pc' = place /\ (left' = 0 \/ left' = StackPages)
    BY Zenon DEF Goto
  <1>2. place \in {"space", "load", "stack", "up"} => left' = 0
    BY DEF Goto
  <1>3. left' = 0 => ToMap(left') = 0
    BY DEF ToMap
  <1>4. ToMap(left') \in Nat /\ ToMap(left') <= StackPages
    BY <1>1, BootNumbers DEF ToMap
  <1>5. left' \in Int
    BY <1>1, BootNumbers
  <1> QED BY <1>1, <1>2, <1>3, <1>4, <1>5

(* What elf_load has passed stays behind it.                               *)
LEMMA TodoLess ==
  ASSUME BootVars, image' = image, \/ UNCHANGED <<seg, done>>
                                   \/ seg' = seg + 1
                                   \/ seg' = seg /\ done' = done + 1
  PROVE  /\ ImagePages' = ImagePages /\ Todo' \subseteq Todo
  <1>0. image \in Images /\ seg \in Nat /\ done \in Nat
    BY DEF BootVars
  <1>1. ImagePages' = ImagePages
    BY DEF ImagePages, Segments
  <1>2. ASSUME NEW q, Behind(q) PROVE Behind(q)'
    <2>1. PICK i \in Segments : q \in Covers(image.phdrs[i]) /\ Passed(i, q)
      BY <1>2 DEF Behind
    <2>2. i \in Segments' /\ q \in Covers(image'.phdrs[i])
      BY <2>1 DEF Segments
    <2> DEFINE e == image.phdrs[i].p_vaddr \div PMM_FRAME_SIZE
    <2>3. i \in DOMAIN image.phdrs /\ q \in Nat /\ i \in Nat
      BY <1>0, <2>1, CoveredPage
    <2>4. e \in Nat
      BY <1>0, <2>3, HeaderIs, Limits, Quotients
    <2>5. i < seg \/ (i = seg /\ q < e + done)
      BY <2>1 DEF Passed
    <2> HIDE DEF e
    <2>6. i < seg' \/ (i = seg' /\ q < e + done')
      BY <1>0, <2>3, <2>4, <2>5
    <2>7. Passed(i, q)'
      BY <2>6 DEF Passed, e
    <2> QED BY <2>2, <2>7 DEF Behind
  <1> QED BY <1>1, <1>2 DEF Todo

(* The page that elf_load is at is not behind it, as no segments overlap.  *)
LEMMA VaAhead ==
  ASSUME BootVars, Apart, Loads
  PROVE  va \in Todo
  <1>1. /\ seg \in Segments /\ va \in Covers(image.phdrs[seg]) /\ va \in Nat
        /\ va = image.phdrs[seg].p_vaddr \div PMM_FRAME_SIZE + done
    BY LoadedVa
  <1> HIDE DEF va
  <1>2. va \in ImagePages
    BY <1>1 DEF ImagePages
  <1>3. ASSUME Behind(va) PROVE FALSE
    <2>1. PICK i \in Segments : va \in Covers(image.phdrs[i]) /\ Passed(i, va)
      BY <1>3 DEF Behind
    <2>2. i = seg
      BY <1>1, <2>1 DEF Apart
    <2>3. seg \in Nat
      BY DEF BootVars
    <2>4. va < va
      BY <1>1, <2>1, <2>2, <2>3 DEF Passed
    <2> QED BY <1>1, <2>4
  <1> QED BY <1>2, <1>3 DEF Todo

(* Each step keeps within the budget.                                      *)
LEMMA BudgetStep ==
  ASSUME Tight, Apart, BootVars, BootNext
  PROVE  Tight'
  <1>0. /\ free \subseteq Frames \ {0} /\ left \in Int /\ image \in Images /\ ram' = ram /\ image' = image
        /\ StackPages \in Nat /\ ImagePages' = ImagePages
    <2>1. left \in Int /\ image \in Images
      BY BootNumbers DEF BootVars
    <2>2. ram' = ram /\ image' = image
      BY ConstantStep
    <2>3. ImagePages' = ImagePages
      BY <2>2 DEF ImagePages, Segments
    <2> QED BY <2>1, <2>2, <2>3, BootNumbers DEF Tight
  <1>1. PICK b : Budget(b)
    BY DEF Tight
  <1>2. Rest(b) /\ b \in Nat /\ ToMap(left) \in Nat
    BY <1>0, <1>1 DEF Budget, ToMap
  <1>3. PICK ip, td, sp : ip = Cardinality(ImagePages) /\ td = Cardinality(Todo) /\ sp = StackPages
    OBVIOUS
  <1>4. ip \in Nat /\ td \in Nat /\ td <= ip /\ sp \in Nat /\ ip = Cardinality(ImagePages')
    BY <1>0, <1>3, ImageFinite
  <1>5. CASE HeapPage
    <2>1. left > 0 /\ heap_extend /\ (left' = left - 1 \/ left' = -1) /\ UNCHANGED <<pc, boot>>
      BY <1>5 DEF HeapPage
    <2>2. Takes(4)
      BY <1>0, <2>1, HeapTakes
    <2>3. Rest(b)'
      BY <1>2, <2>1, RestSame DEF boot
    <2>4. left' \in Int /\ ToMap(left') + b < ToMap(left) + b
      BY <1>0, <1>2, <2>1 DEF ToMap
    <2> QED BY <1>0, <1>1, <1>2, <2>2, <2>3, <2>4, BudgetNext
  <1>6. CASE HeapNoFrame \/ Up
    <2>1. (left' = -1 \/ left' = left) /\ UNCHANGED <<vars, pc, boot>>
      BY <1>6 DEF HeapNoFrame, Up, allvars
    <2>2. Rest(b)' /\ free' = free
      BY <1>2, <2>1, RestSame DEF boot, vars
    <2>3. left' \in Int /\ ToMap(left') + b <= ToMap(left) + b
      BY <1>0, <1>2, <2>1 DEF ToMap
    <2> QED BY <1>0, <1>1, <1>2, <2>2, <2>3, BudgetLess
  <1>7. ASSUME NEW d \in Nat, NEW place, Goto(place), Rest(d)', free' = free,
               ToMap(left') + d <= b
        PROVE  Tight'
    <2>1. left' \in Int /\ ToMap(left') \in Nat
      BY <1>7, GotoLeft
    <2>2. ToMap(left') + d <= ToMap(left) + b
      BY <1>2, <1>7, <2>1
    <2> QED BY <1>0, <1>1, <1>7, <2>1, <2>2, BudgetLess
  <1>8. CASE heap_init
    <2>1. pc = "heap" /\ Goto("idle") /\ free' = free
      BY <1>8 DEF heap_init, vars
    <2>2. b = 4 * sp + ip + 2
      BY <1>2, <1>3, <2>1, RestIs
    <2>3. pc' = "idle" /\ ToMap(left') \in Nat /\ ToMap(left') <= sp
      BY <1>3, <2>1, GotoLeft
    <2>4. PICK d : d = 3 * sp + ip + 2
      OBVIOUS
    <2>5. Rest(d)'
      BY <1>0, <1>3, <2>3, <2>4, Zenon DEF Rest
    <2>6. d \in Nat /\ ToMap(left') + d <= b
      BY <1>4, <2>2, <2>3, <2>4
    <2> QED BY <1>7, <2>1, <2>5, <2>6
  <1>9. ASSUME NEW t, NEW place, Create(t, place)
        PROVE  pc = t /\ Goto(place) /\ free' = free
    BY <1>9 DEF Create, vars
  <1>10. CASE Create("idle", "thread a")
    <2>1. pc = "idle" /\ Goto("thread a") /\ free' = free
      BY <1>9, <1>10
    <2>2. b = 3 * sp + ip + 2
      BY <1>2, <1>3, <2>1, RestIs
    <2>3. pc' = "thread a" /\ ToMap(left') \in Nat /\ ToMap(left') <= sp
      BY <1>3, <2>1, GotoLeft
    <2>4. PICK d : d = 2 * sp + ip + 2
      OBVIOUS
    <2>5. Rest(d)'
      BY <1>0, <1>3, <2>3, <2>4, Zenon DEF Rest
    <2>6. d \in Nat /\ ToMap(left') + d <= b
      <3>1. ToMap(left') \in Nat /\ ToMap(left') <= sp
        BY <2>3
      <3> QED BY <1>4, <2>2, <2>4, <3>1
    <2> QED BY <1>7, <2>1, <2>5, <2>6
  <1>11. CASE Create("thread a", "thread b")
    <2>1. pc = "thread a" /\ Goto("thread b") /\ free' = free
      BY <1>9, <1>11
    <2>2. b = 2 * sp + ip + 2
      BY <1>2, <1>3, <2>1, RestIs
    <2>3. pc' = "thread b" /\ ToMap(left') \in Nat /\ ToMap(left') <= sp
      BY <1>3, <2>1, GotoLeft
    <2>4. PICK d : d = sp + ip + 2
      OBVIOUS
    <2>5. Rest(d)'
      BY <1>0, <1>3, <2>3, <2>4, Zenon DEF Rest
    <2>6. d \in Nat /\ ToMap(left') + d <= b
      <3>1. ToMap(left') \in Nat /\ ToMap(left') <= sp
        BY <2>3
      <3> QED BY <1>4, <2>2, <2>4, <3>1
    <2> QED BY <1>7, <2>1, <2>5, <2>6
  <1>12. CASE Create("thread b", "space")
    <2>1. pc = "thread b" /\ Goto("space") /\ free' = free
      BY <1>9, <1>12
    <2>2. b = sp + ip + 2
      BY <1>2, <1>3, <2>1, RestIs
    <2>3. pc' = "space" /\ ToMap(left') = 0
      BY <2>1, GotoLeft
    <2>4. PICK d : d = sp + ip + 2
      OBVIOUS
    <2>5. Rest(d)'
      BY <1>0, <1>3, <2>3, <2>4, Zenon DEF Rest
    <2>6. d \in Nat /\ ToMap(left') + d <= b
      BY <1>4, <2>2, <2>3, <2>4
    <2> QED BY <1>7, <2>1, <2>5, <2>6
  <1>13. ASSUME NEW place, Goto(place), place = "up", free' = free PROVE Tight'
    <2>1. pc' = "up" /\ ToMap(left') = 0
      BY <1>13, GotoLeft
    <2>2. PICK d : d = 0
      OBVIOUS
    <2>3. Rest(d)'
      BY <2>1, <2>2, Zenon DEF Rest
    <2>4. d \in Nat /\ ToMap(left') + d <= b
      BY <1>2, <2>1, <2>2
    <2> QED BY <1>7, <1>13, <2>3, <2>4
  <1>14. CASE Create("user task", "up")
    <2>1. Goto("up") /\ free' = free
      BY <1>9, <1>14
    <2> QED BY <1>13, <2>1
  <1>15. CASE CreateSpace
    <2>1. CASE paging_create_user_space /\ pc = "space" /\ Goto("load") /\ rc' = "loading"
      <3>1. Takes(4)
        BY <1>0, <2>1, SpaceTakes
      <3>2. b = sp + ip + 2
        BY <1>2, <1>3, <2>1, RestIs
      <3>3. pc' = "load" /\ ToMap(left') = 0 /\ left' \in Int
        BY <2>1, GotoLeft
      <3>4. PICK d : d = sp + Cardinality(Todo') + 1
        OBVIOUS
      <3>5. Rest(d)'
        BY <1>3, <2>1, <3>3, <3>4, Zenon DEF Rest
      <3>6. Cardinality(Todo') \in Nat /\ Cardinality(Todo') <= ip
        <4>1. seg' = seg /\ done' = done
          BY <1>15 DEF CreateSpace
        <4>2. Todo' = Todo
          BY <1>0, <4>1 DEF Todo, Behind, Segments, Passed
        <4> QED BY <1>3, <1>4, <4>2
      <3>7. d \in Nat /\ ToMap(left') + d < ToMap(left) + b
        BY <1>2, <1>4, <3>2, <3>3, <3>4, <3>6
      <3> QED BY <1>0, <1>1, <3>1, <3>3, <3>5, <3>7, BudgetNext
    <2>2. CASE Goto("up") /\ UNCHANGED vars
      BY <1>13, <2>2 DEF vars
    <2> QED BY <1>15, <2>1, <2>2 DEF CreateSpace
  <1>16. ASSUME pc = "load", pc' = "load", left' = left, ram' = ram,
                (seg' = seg /\ done' = done) \/ seg' = seg + 1 \/ (seg' = seg /\ done' = done + 1),
                rc = "loading" \/ rc' # "loading",
                \/ free' = free
                \/ Takes(4) /\ rc = "loading" /\ td > 0 /\ (rc' # "loading" \/ Cardinality(Todo') < td)
         PROVE  Tight'
    <2>1. Todo' \subseteq Todo
      BY <1>0, <1>16, TodoLess
    <2>2. Cardinality(Todo') \in Nat /\ Cardinality(Todo') <= td
      BY <1>0, <1>3, <2>1, ImageFinite, FS_Subset, FS_CardinalityType
    <2>3. PICK u : u = Cardinality(Todo')
      OBVIOUS
    <2>4. PICK d : d = IF rc' = "loading" THEN sp + u + 1 ELSE sp + 1
      OBVIOUS
    <2>5. Rest(d)'
      <3>1. CASE rc' = "loading"
        <4>1. d = StackPages + Cardinality(Todo') + 1
          BY <1>3, <2>3, <2>4, <3>1
        <4> QED BY <1>16, <3>1, <4>1, Zenon DEF Rest
      <3>2. CASE rc' # "loading"
        <4>1. d = StackPages + 1
          BY <1>3, <2>4, <3>2
        <4> QED BY <1>16, <3>2, <4>1, Zenon DEF Rest
      <3> QED BY <3>1, <3>2
    <2>6. (rc = "loading" /\ b = sp + td + 1) \/ (rc # "loading" /\ rc' # "loading" /\ b = sp + 1)
      BY <1>2, <1>3, <1>16, RestIs
    <2>7. d \in Nat /\ d <= b
      BY <1>4, <2>2, <2>3, <2>4, <2>6
    <2>8. left' \in Int
      BY <1>0, <1>16
    <2>9. CASE free' = free
      <3>1. ToMap(left') + d <= ToMap(left) + b
        BY <1>2, <1>16, <2>7
      <3> QED BY <1>0, <1>1, <2>5, <2>7, <2>8, <2>9, <3>1, BudgetLess
    <2>10. CASE Takes(4) /\ td > 0 /\ (rc' # "loading" \/ Cardinality(Todo') < td) /\ rc = "loading"
      <3>1. d < b
        BY <1>4, <2>2, <2>3, <2>4, <2>6, <2>10
      <3>2. ToMap(left') + d < ToMap(left) + b
        BY <1>2, <1>16, <2>7, <3>1
      <3> QED BY <1>0, <1>1, <2>5, <2>7, <2>8, <2>10, <3>2, BudgetNext
    <2> QED BY <1>16, <2>9, <2>10
  <1>17. CASE LoadPage
    <2>1. /\ pc = "load" /\ Loads /\ elf_load_page(cr3, va) /\ pc' = pc /\ left' = left /\ seg' = seg
          /\ (rc' = "failed" /\ done' = done) \/ (rc' = rc /\ done' = done + 1)
      BY <1>17 DEF LoadPage
    <2>2. rc = "loading"
      BY <2>1 DEF Loads
    <2>3. Takes(4)
      <3> DEFINE f == Lowest(machine)
      <3>1. Becomes(MapIn(virt_for_phys(Zero(virt_for_phys(Taken(machine), f), Pointer(f)), cr3),
                          Pointer(cr3), va, f, "elf_load").m)
        BY <2>1, Zenon DEF elf_load_page
      <3> HIDE DEF f, va
      <3> QED BY <1>0, <3>1, PageTakes
    <2>4. va \in Todo
      BY <2>1, VaAhead
    <2>5. td > 0
      <3>1. Todo # {} /\ IsFiniteSet(Todo)
        BY <1>0, <2>4, ImageFinite
      <3> QED BY <1>3, <1>4, <3>1, FS_EmptySet
    <2>6. CASE rc' = "failed" /\ done' = done
      <3>1. rc' # "loading" /\ pc' = "load" /\ seg' = seg /\ done' = done
        BY <2>1, <2>6
      <3> QED BY <1>0, <1>16, <2>1, <2>2, <2>3, <2>5, <3>1, Zenon
    <2>7. CASE rc' = rc /\ done' = done + 1
      <3>1. Todo' \subseteq Todo /\ va \notin Todo'
        <4>1. Todo' \subseteq Todo
          BY <1>0, <2>1, <2>7, TodoLess
        <4>2. PICK q, j, e : q = va /\ j = seg /\ e = image.phdrs[seg].p_vaddr \div PMM_FRAME_SIZE
          OBVIOUS
        <4>3. j \in Segments /\ q \in Covers(image.phdrs[j]) /\ q \in Nat /\ q = e + done /\ e \in Nat
          BY <2>1, <4>2, LoadedVa
        <4>4. q < e + (done + 1)
          BY <4>3 DEF BootVars
        <4>5. Passed(j, q)'
          BY <1>0, <2>1, <2>7, <4>2, <4>4 DEF Passed
        <4>6. j \in Segments' /\ q \in Covers(image'.phdrs[j])
          BY <1>0, <4>3 DEF Segments
        <4>7. Behind(q)'
          BY <4>5, <4>6 DEF Behind
        <4>8. q \notin Todo'
          BY <4>7 DEF Todo
        <4> QED BY <4>1, <4>2, <4>8
      <3>2. Cardinality(Todo') < td
        <4> DEFINE T == Todo
                   U == Todo'
                   q == va
        <4>1. IsFiniteSet(T) /\ q \in T /\ U \subseteq T \ {q} /\ td = Cardinality(T)
          BY <1>0, <1>3, <2>4, <3>1, ImageFinite
        <4> HIDE DEF T, U, q
        <4>2. IsFiniteSet(T \ {q}) /\ Cardinality(T \ {q}) = Cardinality(T) - 1
          BY <4>1, FS_RemoveElement
        <4>3. Cardinality(U) <= Cardinality(T \ {q}) /\ IsFiniteSet(U)
          BY <4>1, <4>2, FS_Subset
        <4>4. Cardinality(U) \in Nat
          BY <4>3, FS_CardinalityType
        <4>5. Cardinality(U) < td
          BY <1>4, <4>1, <4>2, <4>3, <4>4
        <4> QED BY <4>5 DEF U
      <3> QED BY <1>0, <1>16, <2>1, <2>2, <2>3, <2>5, <2>7, <3>2
    <2> QED BY <2>1, <2>6, <2>7
  <1>18. CASE LoadFails \/ NextSegment
    <2>1. /\ pc = "load" /\ rc = "loading" /\ pc' = pc /\ left' = left /\ free' = free
          /\ (seg' = seg /\ done' = done) \/ seg' = seg + 1
      BY <1>18 DEF LoadFails, NextSegment, vars
    <2>2. pc' = "load"
      BY <2>1
    <2> QED BY <1>0, <1>16, <2>1, <2>2, Zenon
  <1>19. CASE LoadReturns
    <2>1. pc = "load" /\ rc # "loading" /\ free' = free /\ (Goto("stack") \/ Goto("up"))
      BY <1>19 DEF LoadReturns, vars
    <2>2. CASE Goto("stack")
      <3>1. b = sp + 1
        BY <1>2, <1>3, <2>1, RestIs
      <3>2. pc' = "stack" /\ ToMap(left') = 0
        BY <2>2, GotoLeft
      <3>3. PICK d : d = sp + 1
        OBVIOUS
      <3>4. Rest(d)'
        BY <1>3, <3>2, <3>3, Zenon DEF Rest
      <3>5. d \in Nat /\ ToMap(left') + d <= b
        BY <1>4, <3>1, <3>2, <3>3
      <3> QED BY <1>7, <2>1, <2>2, <3>4, <3>5
    <2>3. CASE Goto("up")
      BY <1>13, <2>1, <2>3
    <2> QED BY <2>1, <2>2, <2>3
  <1>20. CASE MapStack
    <2> DEFINE f == Lowest(machine)
               r == MapIn(virt_for_phys(Zero(virt_for_phys(Taken(machine), f), Pointer(f)), cr3),
                          Pointer(cr3), STACK_PAGE, f, "kernel_main").m
    <2>1. /\ pc = "stack"
          /\ (Goto("up") /\ UNCHANGED vars) \/ (Becomes(r) /\ Goto("user task"))
      BY <1>20, Zenon DEF MapStack
    <2> HIDE DEF f
    <2>2. CASE Goto("up") /\ UNCHANGED vars
      BY <1>13, <2>2 DEF vars
    <2>3. CASE Becomes(r) /\ Goto("user task")
      <3>1. Takes(4)
        BY <1>0, <2>3, PageTakes
      <3> HIDE DEF r
      <3>2. b = sp + 1
        BY <1>2, <1>3, <2>1, RestIs
      <3>3. pc' = "user task" /\ ToMap(left') \in Nat /\ ToMap(left') <= sp /\ left' \in Int
        BY <1>3, <2>3, GotoLeft
      <3>4. PICK d : d = 0
        OBVIOUS
      <3>5. Rest(d)'
        BY <3>3, <3>4, Zenon DEF Rest
      <3>6. d \in Nat /\ ToMap(left') + d < ToMap(left) + b
        <4>1. ToMap(left') \in Nat /\ ToMap(left') <= sp
          BY <3>3
        <4> QED BY <1>2, <1>4, <3>2, <3>4, <4>1
      <3> QED BY <1>0, <1>1, <3>1, <3>3, <3>5, <3>6, BudgetNext
    <2> QED BY <2>1, <2>2, <2>3
  <1> QED BY <1>5, <1>6, <1>8, <1>10, <1>11, <1>12, <1>14, <1>15, <1>17, <1>18, <1>19, <1>20 DEF BootNext

LEMMA BudgetFirst ==
  ASSUME BootInit, Ample
  PROVE  Tight
  <1>1. free \subseteq Frames \ {0}
    <2>1. machine \in Machine
      BY FirstGood DEF BootInit, Good, Sound
    <2> QED BY <2>1 DEF Machine, machine
  <1>2. pc = "heap" /\ left = HeapInitPages /\ ram = free /\ image \in Images
    BY DEF BootInit
  <1>3. PICK ip, sp, b : ip = Cardinality(ImagePages) /\ sp = StackPages /\ b = 4 * sp + ip + 2
    OBVIOUS
  <1>4. ip \in Nat /\ sp \in Nat /\ HeapInitPages \in Nat
    BY <1>2, <1>3, ImageFinite, BootNumbers
  <1>5. Rest(b)
    BY <1>2, <1>3, Zenon DEF Rest
  <1>6. Cardinality(free \cap Low) >= 4 * (HeapInitPages + 4 * sp + ip + 2) + 4
    BY <1>2, <1>3 DEF Ample, BootPages, Low
  <1>7. ToMap(left) + b = HeapInitPages + 4 * sp + ip + 2 /\ b \in Nat
    BY <1>2, <1>3, <1>4 DEF ToMap
  <1>8. Budget(b)
    BY <1>5, <1>6, <1>7 DEF Budget, Enough
  <1> QED BY <1>1, <1>2, <1>8 DEF Tight

LEMMA TightRoom ==
  ASSUME Tight, left \in Int
  PROVE  RoomBelow
  <1>1. PICK b : b \in Nat /\ Enough(ToMap(left) + b)
    BY DEF Tight, Budget
  <1>2. ToMap(left) + b \in Nat
    BY <1>1 DEF ToMap
  <1>3. Cardinality(free \cap Low) >= 4 /\ Cardinality(free \cap Low) >= 3
    BY <1>1, <1>2, LowFinite DEF Enough
  <1> QED BY <1>3 DEF RoomBelow, Spare, Room

LEMMA AmpleSame ==
  ASSUME [BootNext]_allvars
  PROVE  Ample' = Ample /\ Apart' = Apart /\ ram' = ram
  <1>1. ram' = ram /\ image' = image
    BY ConstantStep DEF allvars, boot
  <1> QED BY <1>1 DEF Ample, Apart, Segments, BootPages, ImagePages

LEMMA TightStep ==
  ASSUME Ample, BInv, Tight, [BootNext]_allvars
  PROVE  BInv' /\ Tight'
  <1>1. BootVars /\ left \in Int
    BY BootNumbers DEF BInv, BootVars
  <1>2. RoomBelow
    BY <1>1, TightRoom
  <1>3. BInv'
    BY <1>2, BootStep
  <1>4. CASE BootNext
    BY <1>1, <1>3, <1>4, BudgetStep DEF Ample
  <1>5. CASE UNCHANGED allvars
    <2>1. UNCHANGED <<free, ram, left, pc, rc, image, seg, done>>
      BY <1>5 DEF allvars, vars, boot
    <2>2. PICK b : Budget(b)
      BY DEF Tight
    <2>3. Rest(b)'
      BY <2>1, <2>2, RestSame DEF Budget
    <2>4. Budget(b)'
      BY <2>1, <2>2, <2>3 DEF Budget, Enough
    <2> QED BY <1>3, <2>1, <2>4 DEF Tight
  <1> QED BY <1>3, <1>4, <1>5

(* With frames enough below the scratch window when it starts, kernel_main *)
(* never takes the frame under the window or any above it, though nothing  *)
(* reserves them: the frames below last through every page of the heap, the*)
(* stacks, the image and the tables for them.                              *)
THEOREM BootStaysBelow == BootSpec => []StaysBelow
  <1>1. BootInit => (Ample => BInv /\ Tight)
    BY BootFirst, BudgetFirst
  <1>2. (Ample => BInv /\ Tight) /\ [BootNext]_allvars => (Ample => BInv /\ Tight)'
    BY AmpleSame, TightStep
  <1>3. (Ample => BInv /\ Tight) => StaysBelow
    BY DEF StaysBelow, Tight, Low
  <1> QED BY <1>1, <1>2, <1>3, PTL DEF BootSpec

(* On such a machine, a PC with 2 MiB or more among them, the boot needs no*)
(* other condition: kernel stacks whole and mapped in every space, the user*)
(* stack and the image in place, every frame accounted for.                *)
THEOREM AmpleBoot ==
  BootSpec => [](Ample => KernelStacksWhole /\ UserStackReady /\ ImageInPlace /\ NoFrameLost)
  <1>1. BootInit => (Ample => BInv /\ Tight)
    BY BootFirst, BudgetFirst
  <1>2. (Ample => BInv /\ Tight) /\ [BootNext]_allvars => (Ample => BInv /\ Tight)'
    BY AmpleSame, TightStep
  <1>3. BInv /\ Tight => RoomBelow
    <2>1. BInv => left \in Int
      BY BootNumbers DEF BInv, BootVars
    <2> QED BY <2>1, TightRoom
  <1>4. Ample /\ [BootNext]_allvars => Ample'
    BY AmpleSame
  <1>5. ~Ample /\ [BootNext]_allvars => ~Ample'
    BY AmpleSame
  <1> QED BY <1>1, <1>2, <1>3, <1>4, <1>5, KernelStacks, UserStackPage, ImageLoaded, FramesAccounted, PTL
          DEF BootSpec
=============================================================================
