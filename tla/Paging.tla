------------------------------- MODULE Paging -------------------------------
(***************************************************************************)
(* Page tables (src/src/mm/paging.c) and their callers: heap_extend, which *)
(* maps heap pages for everybody, and elf_load, which maps user pages of   *)
(* one address space.  All of it runs with interrupts off.                 *)
(*                                                                         *)
(* The kernel sees a table through a pointer, and the point of the model is*)
(* what a pointer shows.  A frame below LOW is seen directly.  All others  *)
(* are seen through one scratch page, which shows whatever frame was mapped*)
(* there last; it is itself the window of the last frame below LOW.        *)
(*                                                                         *)
(* An entry is the frame it points to, or Absent.  The fixed maps of       *)
(* low memory are left out of the tables, and so are 2 MiB pages, which    *)
(* no user space contains, and the flags: all pages mapped here are        *)
(* writable and have PAGE_USER.                                            *)
(***************************************************************************)
EXTENDS Integers, SequencesExt

CONSTANTS
  PAGE_TABLE_ENTRIES,   \* the last entry of a PML4 is the kernel's
  LOW,                  \* frames below 2 MiB
  Machines,             \* frames free after paging_init, user spaces at most
  HEAP_START, HeapPages,   \* the heap's first page, and how many it may have
  UserPages,            \* pages that ELF images ask for
  PMM_FRAME_SIZE,
  Addrs, Lens           \* buffers that user_mem_check is asked about

KERNEL_ENTRY == PAGE_TABLE_ENTRIES - 1
Index == 0 .. KERNEL_ENTRY
pml4_new == 1           \* the static tables, in low memory
pdpt_hi == 2
pd_hi == 3

PagesPerEntry == PAGE_TABLE_ENTRIES * PAGE_TABLE_ENTRIES * PAGE_TABLE_ENTRIES   \* of a PML4
Pages == 0 .. PAGE_TABLE_ENTRIES * PagesPerEntry - 1
ADDRESSES == PAGE_TABLE_ENTRIES * PagesPerEntry * PMM_FRAME_SIZE        \* 2^64
USER_ADDR_LIMIT == KERNEL_ENTRY * PagesPerEntry * PMM_FRAME_SIZE
KernelPage(page) == page >= KERNEL_ENTRY * PagesPerEntry

ASSUME PagingAssumption ==
  /\ PAGE_TABLE_ENTRIES \in Nat /\ PAGE_TABLE_ENTRIES >= 2
  /\ LOW \in Nat /\ LOW > pd_hi + 1
  /\ \A k \in Machines : k.free \subseteq Nat \ 0 .. pd_hi /\ k.users \in Nat
  /\ HEAP_START \in Nat /\ HeapPages \in Nat /\ HEAP_START .. HEAP_START + HeapPages - 1 \subseteq Pages
  /\ KernelPage(HEAP_START)
  /\ UserPages \subseteq {page \in Pages : ~KernelPage(page)}
  /\ PMM_FRAME_SIZE \in Nat \ {0}
  /\ Addrs \subseteq 0 .. ADDRESSES - 1 /\ Lens \subseteq 0 .. ADDRESSES - 1

Frames == 0 .. LOW \cup UNION {k.free : k \in Machines}

VARIABLES
  mem,         \* what each frame holds, as a table
  scratch,     \* the frame pt_hi_kernel[SCRATCH_PT_IDX] points to
  free,        \* the frames pmm_alloc_frame has left
  users,       \* user spaces that may still be created
  heap_pages,  \* (heap_end - HEAP_START) / PMM_FRAME_SIZE
  spaces,      \* user address spaces: the frames of their PML4s
  given        \* what callers were told is mapped: <<PML4, page>> to frame

vars == <<mem, scratch, free, users, heap_pages, spaces, given>>

Absent == -1            \* PAGE_PRESENT is 0
Empty == [i \in Index |-> Absent]

(* The state after paging_init.                                            *)
Init ==
  \E k \in Machines :
    /\ mem = [f \in Frames |->
                IF f = pml4_new THEN [Empty EXCEPT ![KERNEL_ENTRY] = pdpt_hi]
                ELSE IF f = pdpt_hi THEN [Empty EXCEPT ![KERNEL_ENTRY - 1] = pd_hi]
                ELSE Empty]
    /\ scratch = LOW - 1
    /\ free = k.free
    /\ users = k.users
    /\ heap_pages = 0
    /\ spaces = {}
    /\ given = <<>>

-----------------------------------------------------------------------------
(* Memory as the kernel uses it: m has mem, scratch and free.              *)
machine == [mem |-> mem, scratch |-> scratch, free |-> free]
Becomes(m) == mem' = m.mem /\ scratch' = m.scratch /\ free' = m.free

SCRATCH == LOW - 1      \* the pointer SCRATCH_VA
scratch_map(m, f) == [m EXCEPT !.scratch = f]

(* virt_for_phys and paging_phys_to_virt: the pointer, and what getting it *)
(* does to the scratch page.                                               *)
Pointer(f) == IF f < LOW THEN f ELSE SCRATCH
virt_for_phys(m, f) == IF f < LOW THEN m ELSE scratch_map(m, f)

Shows(m, p) == IF p = SCRATCH THEN m.scratch ELSE p
Load(m, p, i) == m.mem[Shows(m, p)][i]
Store(m, p, i, f) == [m EXCEPT !.mem[Shows(m, p)][i] = f]

MutNotZeroed(m, p) == m
Zero(m, p) == [m EXCEPT !.mem[Shows(m, p)] = Empty]

(* The frame pmm_alloc_frame returns: the lowest free one, or 0.           *)
MutHighest(m) == IF m.free = {} THEN 0 ELSE Max(m.free)
Lowest(m) == IF m.free = {} THEN 0 ELSE Min(m.free)
Taken(m) == [m EXCEPT !.free = @ \ {Lowest(m)}]
MutKeepsFrame(m, f) == m
pmm_free_frame(m, f) == [m EXCEPT !.free = @ \cup {f}]

(* The index of a page at each level, PML4 first.                          *)
Shift(n) == n \div PAGE_TABLE_ENTRIES
Digit(n) == n % PAGE_TABLE_ENTRIES
Path(page) == <<Digit(Shift(Shift(Shift(page)))), Digit(Shift(Shift(page))), Digit(Shift(page)), Digit(page)>>

(* Three steps down a path; one step for each entry of a table.            *)
Follow(Step(_, _), w, path) == Step(Step(Step(w, path[1]), path[2]), path[3])
ForEach(Do(_, _), m, entries) ==
  LET after[n \in 0 .. entries] == IF n = 0 THEN m ELSE Do(after[n - 1], n - 1)
  IN  after[entries]

-----------------------------------------------------------------------------
(* A walk w is at a table, by its pointer p, or has failed.  A step enters *)
(* the i-th table below, a new one if there is none: paging_map_page clears*)
(* it through the scratch page, elf_load and kernel_main through           *)
(* paging_phys_to_virt; kernel_main does not look whether it got a frame.  *)
NoFrameFor(w, i, caller) ==
  Load(w.m, w.p, i) = Absent /\ Lowest(w.m) = 0 /\ caller # "kernel_main"

NewTable(m, p, i, caller) ==
  LET f == Lowest(m)
      bySwitch == caller = "paging_map_page"
      seen == IF bySwitch THEN scratch_map(Taken(m), f) ELSE virt_for_phys(Taken(m), f)
  IN  Store(Zero(seen, IF bySwitch THEN SCRATCH ELSE Pointer(f)), p, i, f)

Descend(w, i, caller) ==
  LET m == IF Load(w.m, w.p, i) = Absent THEN NewTable(w.m, w.p, i, caller) ELSE w.m
      below == Load(m, w.p, i)
  IN  IF ~w.ok \/ NoFrameFor(w, i, caller) THEN [w EXCEPT !.ok = FALSE]
      ELSE [m |-> virt_for_phys(m, below), p |-> Pointer(below), ok |-> TRUE]

(* Map page to f in the tables below the PML4 that pointer p shows.        *)
MapIn(m, p, page, f, caller) ==
  LET path == Path(page)
      w == Follow(LAMBDA v, i : Descend(v, i, caller), [m |-> m, p |-> p, ok |-> TRUE], path)
  IN  IF w.ok THEN [w EXCEPT !.m = Store(w.m, w.p, path[4], f)] ELSE w

paging_map_page(m, page, f) == MapIn(m, pml4_new, page, f, "paging_map_page")

(* The page tables as the CPU reads them.                                  *)
Translate(memory, cr3, page) ==
  LET Look(f, i) == IF f = Absent THEN Absent ELSE memory[f][i]
  IN  Look(Follow(Look, cr3, Path(page)), Path(page)[4])

With(f, k, v) == [x \in DOMAIN f \cup {k} |-> IF x = k THEN v ELSE f[x]]

-----------------------------------------------------------------------------
(* One page of heap_extend.  A frame that cannot be mapped is given back.  *)
heap_extend ==
  LET page == HEAP_START + heap_pages
      f == Lowest(machine)
      w == paging_map_page(Taken(machine), page, f)
  IN  /\ heap_pages < HeapPages
      /\ f # 0
      /\ IF w.ok
         THEN /\ Becomes([w.m EXCEPT !.mem[Translate(w.m.mem, pml4_new, page)] = Empty])
              /\ heap_pages' = heap_pages + 1
              /\ given' = With(given, <<pml4_new, page>>, f)
         ELSE Becomes(pmm_free_frame(w.m, f)) /\ UNCHANGED <<heap_pages, given>>
      /\ UNCHANGED <<users, spaces>>

(* paging_unmap_page leaves the frame to the caller.                       *)
paging_unmap_page(page) ==
  LET path == Path(page)
      Enter(w, i) ==
        LET below == Load(w.m, w.p, i)
        IN  IF ~w.ok \/ below = Absent THEN [w EXCEPT !.ok = FALSE]
            ELSE [m |-> virt_for_phys(w.m, below), p |-> Pointer(below), ok |-> TRUE]
      w == Follow(Enter, [m |-> machine, p |-> pml4_new, ok |-> TRUE], path)
  IN  /\ Becomes(IF w.ok THEN Store(w.m, w.p, path[4], Absent) ELSE w.m)
      /\ given' = [k \in DOMAIN given \ {<<pml4_new, page>>} |-> given[k]]
      /\ UNCHANGED <<users, heap_pages, spaces>>

paging_create_user_space ==
  LET cr3 == Lowest(machine)
      cleared == Zero(virt_for_phys(Taken(machine), cr3), Pointer(cr3))
  IN  /\ users > 0 /\ users' = users - 1
      /\ cr3 # 0
      /\ Becomes(Store(cleared, Pointer(cr3), KERNEL_ENTRY, Load(cleared, pml4_new, KERNEL_ENTRY)))
      /\ spaces' = spaces \cup {cr3}
      /\ UNCHANGED <<heap_pages, given>>

(* elf_load for one page: a frame, cleared and filled, then the walk.  When*)
(* a table cannot be had, the frame stays allocated.  A page that two      *)
(* segments share is mapped twice.                                         *)
elf_load_page(cr3, page) ==
  LET f == Lowest(machine)
      filled == Zero(virt_for_phys(Taken(machine), f), Pointer(f))
      w == MapIn(virt_for_phys(filled, cr3), Pointer(cr3), page, f, "elf_load")
  IN  /\ f # 0
      /\ Becomes(w.m)
      /\ given' = IF w.ok THEN With(given, <<cr3, page>>, f) ELSE given
      /\ UNCHANGED <<users, heap_pages, spaces>>

-----------------------------------------------------------------------------
(* paging_virt_to_phys_cr3: m and the frame found, or Absent.              *)
SoftwareWalk(m, cr3, page) ==
  LET path == Path(page)
      Enter(w, i) ==
        LET below == Load(w.m, w.p, i)
        IN  IF w.f = Absent \/ below = Absent THEN [w EXCEPT !.f = Absent]
            ELSE [m |-> virt_for_phys(w.m, below), p |-> Pointer(below), f |-> below]
      w == Follow(Enter, [m |-> virt_for_phys(m, cr3), p |-> Pointer(cr3), f |-> cr3], path)
  IN  [m |-> w.m, f |-> IF w.f = Absent THEN Absent ELSE Load(w.m, w.p, path[4])]

paging_virt_to_phys_cr3(cr3, page) ==
  /\ Becomes(SoftwareWalk(machine, cr3, page).m)
  /\ UNCHANGED <<users, heap_pages, spaces, given>>

(* user_mem_check with cr3 loaded.  Its two loops visit the same pages.    *)
End(addr, len) == (addr + len) % ADDRESSES
MutNoWrapCheck(addr, len) == End(addr, len) <= USER_ADDR_LIMIT
InUserHalf(addr, len) == End(addr, len) >= addr /\ End(addr, len) <= USER_ADDR_LIMIT
user_mem_check(cr3, addr, len) ==
  /\ addr < USER_ADDR_LIMIT
  /\ \/ len = 0
     \/ /\ InUserHalf(addr, len)
        /\ \A page \in addr \div PMM_FRAME_SIZE .. (End(addr, len) - 1) \div PMM_FRAME_SIZE :
             SoftwareWalk(machine, cr3, page).f # Absent

(* paging_free_user_space: three loops over tables and one over pages.  The*)
(* frame of a table is read again, and freed, after what is below it.      *)
MutFreesShared == PAGE_TABLE_ENTRIES
UserEntries == KERNEL_ENTRY

FreePage(m, pt, i) ==
  IF Load(m, pt, i) = Absent THEN m ELSE pmm_free_frame(m, Load(m, pt, i))
FreePages(m, pt) == ForEach(LAMBDA a, i : FreePage(a, pt, i), m, PAGE_TABLE_ENTRIES)

Entered(m, p, i) == virt_for_phys(m, Load(m, p, i))
Entry(m, p, i) == Pointer(Load(m, p, i))
FreeTable(m, p, i, emptied) ==
  IF Load(m, p, i) = Absent THEN m ELSE pmm_free_frame(emptied, Load(emptied, p, i))

MutKeepsTables(m, pd) ==
  ForEach(LAMBDA a, i : IF Load(a, pd, i) = Absent THEN a
                        ELSE FreePages(Entered(a, pd, i), Entry(a, pd, i)),
          m, PAGE_TABLE_ENTRIES)
FreePd(m, pd) ==
  ForEach(LAMBDA a, i : FreeTable(a, pd, i, FreePages(Entered(a, pd, i), Entry(a, pd, i))),
          m, PAGE_TABLE_ENTRIES)
FreePdpt(m, pdpt) ==
  ForEach(LAMBDA a, i : FreeTable(a, pdpt, i, FreePd(Entered(a, pdpt, i), Entry(a, pdpt, i))),
          m, PAGE_TABLE_ENTRIES)

paging_free_user_space(cr3) ==
  LET pml4 == Pointer(cr3)
      emptied == ForEach(LAMBDA a, i :
                           FreeTable(a, pml4, i, FreePdpt(Entered(a, pml4, i), Entry(a, pml4, i))),
                         virt_for_phys(machine, cr3), UserEntries)
  IN  /\ Becomes(pmm_free_frame(emptied, cr3))
      /\ spaces' = spaces \ {cr3}
      /\ given' = [k \in {x \in DOMAIN given : x[1] # cr3} |-> given[k]]
      /\ UNCHANGED <<users, heap_pages>>

Next ==
  \/ heap_extend
  \/ \E n \in 0 .. HeapPages - 1 : paging_unmap_page(HEAP_START + n)
  \/ paging_create_user_space
  \/ \E cr3 \in spaces, page \in UserPages :
        elf_load_page(cr3, page) \/ paging_virt_to_phys_cr3(cr3, page)
  \/ \E cr3 \in spaces : paging_free_user_space(cr3)

Spec == Init /\ [][Next]_vars

-----------------------------------------------------------------------------
(* Every variable has its type.                                            *)
TypeOK ==
  /\ mem \in [Frames -> [Index -> Frames \cup {Absent}]]
  /\ scratch \in Frames
  /\ free \subseteq Frames \ {0}
  /\ users \in Nat /\ heap_pages \in 0 .. HeapPages
  /\ spaces \subseteq Frames \ {0}
  /\ DOMAIN given \subseteq Frames \X Pages /\ \A k \in DOMAIN given : given[k] \in Frames \ {0}

(* What page a caller was told is mapped in an address space.              *)
Asked(cr3, page) ==
  LET k == <<IF KernelPage(page) THEN pml4_new ELSE cr3, page>>
  IN  IF k \in DOMAIN given THEN given[k] ELSE Absent

(* In every address space the CPU translates each page to the frame that   *)
(* the last successful call said, and no other page to anything: a walk    *)
(* edits the table it looked up, though getting the next table may move the*)
(* scratch page; no table starts with the entries of a frame's earlier     *)
(* life; a heap page mapped later is seen in every space created before.   *)
TranslatesAsAsked ==
  \A cr3 \in spaces \cup {pml4_new}, page \in Pages :
    Translate(mem, cr3, page) = Asked(cr3, page)

(* What a table in frame t at level l points to, all levels down, the      *)
(* shared entry of a PML4 left out: <<table, index>> of each used entry.   *)
Below(tables) == {e \in tables \X Index : mem[e[1]][e[2]] # Absent}
Targets(entries) == {mem[e[1]][e[2]] : e \in entries}
OwnEntries(cr3) ==
  LET top == {e \in Below({cr3}) : e[2] # KERNEL_ENTRY}
      pdpts == Below(Targets(top))
      pds == Below(Targets(pdpts))
  IN  top \cup pdpts \cup pds \cup Below(Targets(pds))
KernelEntries ==
  LET pds == Below(Targets(Below({pdpt_hi})))
  IN  Below({pdpt_hi}) \cup pds \cup Below(Targets(pds))
AllEntries == KernelEntries \cup UNION {OwnEntries(cr3) : cr3 \in spaces}

(* Address spaces are trees that share only the kernel's: no frame is used *)
(* by two entries, as table or as page, and none of them is free, after any*)
(* order of failed and successful calls and of spaces torn down.           *)
SpacesApart ==
  /\ TypeOK
  /\ \A d, e \in AllEntries : mem[d[1]][d[2]] = mem[e[1]][e[2]] => d = e
  /\ (Targets(AllEntries) \cup spaces) \cap free = {}
  /\ Targets(AllEntries) \cap spaces = {}
  /\ \A cr3 \in spaces : mem[cr3][KERNEL_ENTRY] = pdpt_hi

(* Tearing a space down frees every frame it uses and nothing else: data   *)
(* pages, tables that a failed call left behind, and the PML4.             *)
FreesExactly ==
  [][\A c \in spaces \ spaces' : free' = free \cup {c} \cup Targets(OwnEntries(c))]_vars

(* user_mem_check accepts a buffer exactly if it ends below the limit, in  *)
(* full arithmetic, and every byte of it lies on a mapped page.            *)
UserMemCheckExact ==
  \A cr3 \in spaces, addr \in Addrs, len \in Lens :
    user_mem_check(cr3, addr, len) <=>
      /\ addr < USER_ADDR_LIMIT /\ addr + len <= USER_ADDR_LIMIT
      /\ \A a \in addr .. addr + len - 1 : Asked(cr3, a \div PMM_FRAME_SIZE) # Absent
=============================================================================
