-------------------------------- MODULE Heap --------------------------------
(***************************************************************************)
(* The kernel heap (src/src/mm/heap.c): a first-fit free list over memory  *)
(* that grows by pages.  Addresses are offsets from HEAP_START.  A block   *)
(* is known by the address of its header; the list is the sequence of the  *)
(* blocks met from free_list on.  The callers run with interrupts off      *)
(* (kinit_task, task_create), so an operation is one action.               *)
(***************************************************************************)
EXTENDS SequencesExt

CONSTANTS
  PMM_FRAME_SIZE,
  BLOCK_HEADER_SIZE,   \* size and magic
  WORD,                \* alignment of sizes, and the size of a pointer
  MIN_BLOCK_SIZE,
  INITIAL_PAGES,
  COUNTER,             \* heap_used_bytes is computed modulo this (2^64)
  Sizes, Aligns,       \* what callers ask for
  FramesRunOut,        \* may pmm_alloc_frame or paging_map_page fail
  MaxPages             \* bound on the heap

ASSUME HeapAssumption ==
  /\ WORD \in Nat \ {0}
  /\ BLOCK_HEADER_SIZE = 2 * WORD /\ MIN_BLOCK_SIZE = BLOCK_HEADER_SIZE + 2 * WORD
  /\ PMM_FRAME_SIZE \in Nat /\ PMM_FRAME_SIZE > BLOCK_HEADER_SIZE
  /\ PMM_FRAME_SIZE % WORD = 0
  /\ INITIAL_PAGES \in Nat \ {0} /\ MaxPages \in Nat
  /\ COUNTER \in Nat \ {0}
  /\ Sizes \subseteq Nat /\ Aligns \subseteq Nat \ {0}
  /\ FramesRunOut \in BOOLEAN

VARIABLES
  heap_end,
  block,            \* per header: size, magic (allocated?), and for an
                    \* allocated block the pointer given out and the size asked
  free_list,
  heap_used_bytes

vars == <<heap_end, block, free_list, heap_used_bytes>>

Blocks == DOMAIN block
FreeBlock(size) == [size |-> size, magic |-> FALSE, ptr |-> 0, asked |-> 0]
HeldBlock(size, ptr, asked) == [size |-> size, magic |-> TRUE, ptr |-> ptr, asked |-> asked]
Without(f, a) == [x \in DOMAIN f \ {a} |-> f[x]]
With(f, a, r) == [x \in DOMAIN f \cup {a} |-> IF x = a THEN r ELSE f[x]]

MutAlignDown(val, align) == (val \div align) * align
align_up(val, align) == ((val + align - 1) \div align) * align

(* heap_extend: the pages it gets before a frame or a mapping fails.       *)
Extends(pages) == IF FramesRunOut THEN 0 .. pages ELSE {pages}

(* heap_init.  When it fails the kernel goes on with an empty list.        *)
Init ==
  \E got \in Extends(INITIAL_PAGES) :
    /\ heap_end = got * PMM_FRAME_SIZE
    /\ heap_used_bytes = 0
    /\ IF got < INITIAL_PAGES
       THEN block = <<>> /\ free_list = <<>>
       ELSE /\ block = [a \in {0} |-> FreeBlock(heap_end - BLOCK_HEADER_SIZE)]
            /\ free_list = <<0>>

-----------------------------------------------------------------------------
(* split_block on the i-th free block, which is then unlinked: the heap    *)
(* with the rest, if it is large enough, in its place on the list.         *)
MutSplitNoHeader(h, i, needed) ==
  LET a == h.free[i]
      rest == a + BLOCK_HEADER_SIZE + needed
      size == h.block[a].size
  IN  IF size >= needed + MIN_BLOCK_SIZE
      THEN [block |-> With([h.block EXCEPT ![a].size = needed], rest, FreeBlock(size - needed)),
            free |-> [h.free EXCEPT ![i] = rest]]
      ELSE [block |-> h.block, free |-> RemoveAt(h.free, i)]
split_block(h, i, needed) ==
  LET a == h.free[i]
      rest == a + BLOCK_HEADER_SIZE + needed
      size == h.block[a].size
  IN  IF size >= needed + MIN_BLOCK_SIZE
      THEN [block |-> With([h.block EXCEPT ![a].size = needed], rest,
                           FreeBlock(size - needed - BLOCK_HEADER_SIZE)),
            free |-> [h.free EXCEPT ![i] = rest]]
      ELSE [block |-> h.block, free |-> RemoveAt(h.free, i)]

Fitting(h, needed) == {i \in DOMAIN h.free : h.block[h.free[i]].size >= needed}

(* The first block that fits becomes the caller's.                         *)
Allocate(h, needed, align, asked) ==
  LET i == CHOOSE j \in Fitting(h, needed) : \A k \in Fitting(h, needed) : j <= k
      a == h.free[i]
      s == split_block(h, i, needed)
      ptr == align_up(a + BLOCK_HEADER_SIZE, align)
  IN  /\ block' = [s.block EXCEPT ![a] = HeldBlock(@.size, ptr, asked)]
      /\ free_list' = s.free
      /\ heap_used_bytes' = (heap_used_bytes + needed + BLOCK_HEADER_SIZE) % COUNTER

heap == [block |-> block, free |-> free_list]

PagesNeeded(needed) == (needed + BLOCK_HEADER_SIZE + PMM_FRAME_SIZE - 1) \div PMM_FRAME_SIZE

(* kmalloc(size) for a pointer aligned to align, of which asked bytes are  *)
(* the caller's: from the list, from new pages put in front of it, or NULL *)
(* with the pages heap_extend got before it failed left unused.            *)
Request(size, align, asked) ==
  LET needed == align_up(size, WORD)
      pages  == PagesNeeded(needed)
      region == FreeBlock(pages * PMM_FRAME_SIZE - BLOCK_HEADER_SIZE)
  IN  /\ size > 0
      /\ IF Fitting(heap, needed) # {}
         THEN Allocate(heap, needed, align, asked) /\ UNCHANGED heap_end
         ELSE \E got \in Extends(pages) :
                /\ heap_end' = heap_end + got * PMM_FRAME_SIZE
                /\ heap_end' <= MaxPages * PMM_FRAME_SIZE
                /\ IF got < pages
                   THEN UNCHANGED <<block, free_list, heap_used_bytes>>
                   ELSE Allocate([block |-> With(block, heap_end, region),
                                  free |-> <<heap_end>> \o free_list],
                                 needed, align, asked)

kmalloc(size) == Request(size, 1, size)

kmalloc_aligned(size, align) == Request(size + align + BLOCK_HEADER_SIZE, align, size)

-----------------------------------------------------------------------------
(* Merge the list's i-th block with the one after it if that is adjacent.  *)
MutCoalesceNoHeader(h, i) ==
  LET a == h.free[i]
      b == h.free[i + 1]
  IN  IF i \in 1 .. Len(h.free) - 1 /\ a + BLOCK_HEADER_SIZE + h.block[a].size = b
      THEN [block |-> Without([h.block EXCEPT ![a].size = @ + h.block[b].size], b),
            free |-> RemoveAt(h.free, i + 1)]
      ELSE h
MutCoalesceKeeps(h, i) ==
  LET a == h.free[i]
      b == h.free[i + 1]
  IN  IF i \in 1 .. Len(h.free) - 1 /\ a + BLOCK_HEADER_SIZE + h.block[a].size = b
      THEN [block |-> Without([h.block EXCEPT ![a].size = @ + BLOCK_HEADER_SIZE + h.block[b].size], b),
            free |-> h.free]
      ELSE h
Coalesce(h, i) ==
  LET a == h.free[i]
      b == h.free[i + 1]
  IN  IF i \in 1 .. Len(h.free) - 1 /\ a + BLOCK_HEADER_SIZE + h.block[a].size = b
      THEN [block |-> Without([h.block EXCEPT ![a].size = @ + BLOCK_HEADER_SIZE + h.block[b].size], b),
            free |-> RemoveAt(h.free, i + 1)]
      ELSE h

(* The index at which the block goes: that of the first larger address.    *)
InsertionPoint(a) ==
  CHOOSE i \in 1 .. Len(free_list) + 1 :
    /\ i <= Len(free_list) => free_list[i] >= a
    /\ \A j \in 1 .. i - 1 : free_list[j] < a

UsedAfterFree(a) == (heap_used_bytes - (block[a].size + BLOCK_HEADER_SIZE)) % COUNTER

(* kfree of the pointer given out for block a: inserted, then merged with  *)
(* the block after it and with the one before it.                          *)
kfree(a) ==
  LET i == InsertionPoint(a)
      inserted == [block |-> [block EXCEPT ![a] = FreeBlock(@.size)],
                   free |-> InsertAt(free_list, i, a)]
      merged == Coalesce(Coalesce(inserted, i), i - 1)
  IN  /\ block[a].magic /\ block[a].ptr = a + BLOCK_HEADER_SIZE
      /\ block' = merged.block
      /\ free_list' = merged.free
      /\ heap_used_bytes' = UsedAfterFree(a)
      /\ UNCHANGED heap_end

(* kfree of a pointer kmalloc_aligned moved up: what lies before it is not *)
(* a header, and without the magic value there nothing is freed.           *)
kfree_moved(a) ==
  /\ block[a].magic /\ block[a].ptr # a + BLOCK_HEADER_SIZE
  /\ UNCHANGED vars

Next ==
  \/ \E size \in Sizes : kmalloc(size) \/ \E align \in Aligns : kmalloc_aligned(size, align)
  \/ \E a \in Blocks : kfree(a) \/ kfree_moved(a)

Spec == Init /\ [][Next]_vars

-----------------------------------------------------------------------------
End(a) == a + BLOCK_HEADER_SIZE + block[a].size

(* Every variable has its type.                                            *)
TypeOK ==
  /\ heap_end \in Nat
  /\ Blocks \subseteq Nat
  /\ block \in [Blocks -> [size : Nat, magic : BOOLEAN, ptr : Nat, asked : Nat]]
  /\ free_list \in Seq(Blocks)
  /\ heap_used_bytes \in 0 .. COUNTER - 1

(* Blocks, headers included, never overlap and lie in mapped memory,       *)
(* through any order of splits, merges and extensions.                     *)
BlocksDisjoint ==
  /\ TypeOK
  /\ \A a \in Blocks : End(a) <= heap_end
  /\ \A a, b \in Blocks : a < b => End(a) <= b

(* The list holds the free blocks, each once and none that is allocated,   *)
(* and each has room for the list's next pointer after its header.         *)
FreeListExact ==
  /\ IsInjective(free_list)
  /\ ToSet(free_list) = {a \in Blocks : ~block[a].magic}
  /\ \A a \in Blocks : block[a].size >= WORD

(* The memory of a caller lies inside its block: kmalloc's rounding and the*)
(* slack kmalloc_aligned asks for are enough.                              *)
FitsRequest ==
  \A a \in Blocks : block[a].magic =>
    a + BLOCK_HEADER_SIZE <= block[a].ptr /\ block[a].ptr + block[a].asked <= End(a)

(* The heap implements Allocator: what callers hold never overlaps.        *)
Live == {[ptr |-> block[a].ptr, asked |-> block[a].asked] : a \in {x \in Blocks : block[x].magic}}
Al == INSTANCE Allocator WITH live <- Live
ImplementsAllocator == Al!Spec

(* No split or merge loses memory: a byte that belongs to a block, its     *)
(* header included, belongs to one ever after.                             *)
Covered == UNION {a .. End(a) - 1 : a \in Blocks}
NoByteLost == [][Covered \subseteq Covered']_vars
=============================================================================
