-------------------------------- MODULE Boot --------------------------------
(***************************************************************************)
(* kernel_main from heap_init to its sti, on machines where frames run out *)
(* at any point: the heap, the kernel stacks of the tasks, the user address*)
(* space, elf_load for any image, the user stack and the user task.  All of*)
(* it runs on the page tables of module Paging.                            *)
(*                                                                         *)
(* kmalloc is used for stacks only.  The first comes out of the pages of   *)
(* heap_init; every other one, by the sizes of kernel stack and heap block *)
(* in the code, extends the heap by three pages and starts the new block.  *)
(*                                                                         *)
(* A byte of memory is 1 + its offset in the image, 0, or Junk.            *)
(***************************************************************************)
EXTENDS Paging

CONSTANTS
  HeapInitPages, StackPages,   \* 4, and 3 for TASK_STACK_SIZE
  PHDR_SIZE,                   \* bytes of a program header
  STACK_PAGE,                  \* of the user stack, 0x80000000
  Images                       \* what elf_load may be given

Bytes == 0 .. PMM_FRAME_SIZE - 1
ProgramHeader == [load : BOOLEAN, p_offset : Nat, p_vaddr : Nat, p_filesz : Nat, p_memsz : Nat]
ElfImage ==
  [valid : BOOLEAN, phoff : Nat, phentsize : Nat, size : Nat, phdrs : Seq(ProgramHeader)]

ASSUME BootAssumption ==
  /\ HeapInitPages \in Nat /\ StackPages \in Nat \ {0} /\ HeapInitPages >= StackPages
  /\ STACK_PAGE \in Pages /\ ~KernelPage(STACK_PAGE)
  /\ Images \subseteq ElfImage
  /\ \A img \in Images : \A i \in DOMAIN img.phdrs :
       LET ph == img.phdrs[i] IN ph.p_vaddr + ph.p_memsz <= STACK_PAGE * PMM_FRAME_SIZE

VARIABLES
  pc,          \* what kernel_main is at
  left,        \* pages heap_extend has left to map; -1 if it failed
  heap_ok,
  ram,         \* the frames that were free at first
  stacks,      \* tasks, and the first heap page of the kernel stack of each
  cr3,         \* user_cr3, or 0
  image,
  seg, done,   \* elf_load: the program header, and how many pages of it are done
  rc,          \* "none" before elf_load, "loading", "ok", "failed"
  data         \* the bytes in each frame

boot == <<heap_ok, ram, stacks, cr3, image, seg, done, rc, data>>
allvars == <<vars, pc, left, boot>>

Junk == -1
NULL == 0
Zeros == [b \in Bytes |-> 0]

BootInit ==
  /\ Init
  /\ pc = "heap" /\ left = HeapInitPages /\ heap_ok = FALSE
  /\ ram = free
  /\ stacks = <<>>
  /\ cr3 = 0
  /\ image \in Images
  /\ seg = 1 /\ done = 0 /\ rc = "none"
  /\ data = [f \in Frames |-> [b \in Bytes |-> Junk]]

-----------------------------------------------------------------------------
(* heap_extend, page by page.                                              *)
HeapPage ==
  /\ left > 0
  /\ heap_extend
  /\ left' = IF heap_pages' > heap_pages THEN left - 1 ELSE -1
  /\ UNCHANGED <<pc, boot>>

HeapNoFrame ==
  /\ left > 0 /\ Lowest(machine) = 0
  /\ left' = -1
  /\ UNCHANGED <<vars, pc, boot>>

(* Where kernel_main goes on, and the pages kmalloc needs there.           *)
Goto(place) ==
  /\ pc' = place
  /\ left' = IF place \in {"thread a", "thread b", "user task"} \/ (place = "idle" /\ ~heap_ok')
             THEN StackPages ELSE 0

(* heap_init: without all its pages the heap starts out empty.             *)
heap_init ==
  /\ pc = "heap" /\ left <= 0
  /\ heap_ok' = (left = 0)
  /\ Goto("idle")
  /\ UNCHANGED <<vars, ram, stacks, cr3, image, seg, done, rc, data>>

(* The block kmalloc returns after it has extended the heap, or not.       *)
MutBlock(t) == IF left < 0 THEN NULL ELSE HEAP_START
Block(t) ==
  IF left < 0 THEN NULL
  ELSE IF t = "idle" /\ heap_ok THEN HEAP_START
  ELSE HEAP_START + heap_pages - StackPages

(* kinit_task does not look at the result, task_create does.               *)
Created(t) == t = "idle" \/ Block(t) # NULL

Create(t, place) ==
  /\ pc = t /\ left <= 0
  /\ stacks' = IF Created(t) THEN With(stacks, t, Block(t)) ELSE stacks
  /\ Goto(place)
  /\ UNCHANGED <<vars, heap_ok, ram, cr3, image, seg, done, rc, data>>

-----------------------------------------------------------------------------
CreateSpace ==
  /\ pc = "space"
  /\ \/ paging_create_user_space /\ cr3' \in spaces' \ spaces /\ Goto("load") /\ rc' = "loading"
     \/ Lowest(machine) = 0 /\ Goto("up") /\ UNCHANGED <<vars, cr3, rc>>
  /\ UNCHANGED <<heap_ok, ram, stacks, image, seg, done, data>>

(* elf_load.  The header is checked first, then each program header when   *)
(* its turn comes.  phdrs is what is read there, wherever that is: both    *)
(* sums are of 64 bits and may wrap around.                                *)
ph == image.phdrs[seg]
ph_off == (image.phoff + (seg - 1) * image.phentsize) % ADDRESSES
PastEnd == (ph_off + PHDR_SIZE) % ADDRESSES > image.size
Bad ==
  \/ ~image.valid
  \/ seg <= Len(image.phdrs) /\ PastEnd

va == ph.p_vaddr \div PMM_FRAME_SIZE + done
va_end == ((ph.p_vaddr + ph.p_memsz + PMM_FRAME_SIZE - 1) % ADDRESSES) \div PMM_FRAME_SIZE
Loads == rc = "loading" /\ ~Bad /\ seg <= Len(image.phdrs) /\ ph.load /\ va < va_end

(* What memset and memcpy leave in the frame of page va.                   *)
MutCopiesWholePages ==
  LET addr == va * PMM_FRAME_SIZE
      start == Max({addr, ph.p_vaddr})
      file_off == ph.p_offset + start - ph.p_vaddr
      avail == IF file_off < image.size THEN image.size - file_off ELSE 0
      cpy == Min({addr + PMM_FRAME_SIZE - start, avail})
  IN  [b \in Bytes |-> IF addr < ph.p_vaddr + ph.p_filesz /\ b < cpy THEN file_off + b + 1 ELSE 0]
Filled ==
  LET addr == va * PMM_FRAME_SIZE
      start == Max({addr, ph.p_vaddr})
      end == Min({addr + PMM_FRAME_SIZE, ph.p_vaddr + ph.p_filesz})
      file_off == ph.p_offset + start - ph.p_vaddr
      avail == IF file_off < image.size THEN image.size - file_off ELSE 0
      cpy == Min({end - start, avail})
  IN  [b \in Bytes |-> IF addr < ph.p_vaddr + ph.p_filesz /\ b < cpy THEN file_off + b + 1 ELSE 0]

(* A page: the frame is allocated, filled and mapped, or the load fails.   *)
LoadPage ==
  /\ pc = "load" /\ Loads
  /\ elf_load_page(cr3, va)
  /\ data' = [data EXCEPT ![Lowest(machine)] = Filled]
  /\ IF given' = given
     THEN rc' = "failed" /\ UNCHANGED done
     ELSE done' = done + 1 /\ UNCHANGED rc
  /\ UNCHANGED <<pc, left, heap_ok, ram, stacks, cr3, image, seg>>

LoadFails ==
  /\ pc = "load" /\ rc = "loading"
  /\ Bad \/ (Loads /\ Lowest(machine) = 0)
  /\ rc' = "failed"
  /\ UNCHANGED <<vars, pc, left, heap_ok, ram, stacks, cr3, image, seg, done, data>>

NextSegment ==
  /\ pc = "load" /\ rc = "loading" /\ ~Bad /\ ~Loads
  /\ IF seg > Len(image.phdrs)
     THEN rc' = "ok" /\ UNCHANGED <<seg, done>>
     ELSE seg' = seg + 1 /\ done' = 0 /\ UNCHANGED rc
  /\ UNCHANGED <<vars, pc, left, heap_ok, ram, stacks, cr3, image, data>>

LoadReturns ==
  /\ pc = "load" /\ rc # "loading"
  /\ Goto(IF rc = "ok" THEN "stack" ELSE "up")
  /\ UNCHANGED <<vars, boot>>

(* The user stack: one page, cleared and mapped.  The tables for it are not*)
(* checked, so that frame 0 may become one.  No frame at all for the stack *)
(* is passed over in silence.                                              *)
MutStackBytes(f) == data
StackBytes(f) == [data EXCEPT ![f] = Zeros]
MapStack ==
  LET f == Lowest(machine)
      cleared == Zero(virt_for_phys(Taken(machine), f), Pointer(f))
      w == MapIn(virt_for_phys(cleared, cr3), Pointer(cr3), STACK_PAGE, f, "kernel_main")
  IN  /\ pc = "stack"
      /\ IF f = 0 THEN Goto("up") /\ UNCHANGED <<vars, data>>
         ELSE /\ Becomes(w.m)
              /\ data' = StackBytes(f)
              /\ given' = With(given, <<cr3, STACK_PAGE>>, f)
              /\ Goto("user task")
              /\ UNCHANGED <<users, heap_pages, spaces>>
      /\ UNCHANGED <<heap_ok, ram, stacks, cr3, image, seg, done, rc>>

(* The banner and sti: modules Task, Keyboard and Console go on from here. *)
Up == pc = "up" /\ UNCHANGED allvars

BootNext ==
  \/ HeapPage \/ HeapNoFrame
  \/ heap_init
  \/ Create("idle", "thread a") \/ Create("thread a", "thread b") \/ Create("thread b", "space")
  \/ CreateSpace
  \/ LoadPage \/ LoadFails \/ NextSegment \/ LoadReturns
  \/ MapStack
  \/ Create("user task", "up")
  \/ Up

BootSpec == BootInit /\ [][BootNext]_allvars

-----------------------------------------------------------------------------
(* Every variable has its type.                                            *)
BootTypeOK ==
  /\ TypeOK
  /\ pc \in {"heap", "idle", "thread a", "thread b", "space", "load", "stack", "user task", "up"}
  /\ left \in -1 .. HeapInitPages
  /\ cr3 \in spaces \cup {0}
  /\ rc \in {"none", "loading", "ok", "failed"}
  /\ data \in [Frames -> [Bytes -> Junk .. image.size]]

(* Every task has a whole kernel stack of its own (the idle task, whose    *)
(* kmalloc is not checked, or none), wherever an earlier                   *)
(* extension of the heap broke off, mapped in the kernel's tables and seen *)
(* in the user space too, though that was created before the stack of the  *)
(* user task was mapped.                                                   *)
Stack(t) == stacks[t] .. stacks[t] + StackPages - 1
KernelStacksWhole ==
  /\ BootTypeOK
  /\ \A t \in DOMAIN stacks : stacks[t] = NULL => t = "idle"
  /\ \A t \in {x \in DOMAIN stacks : stacks[x] # NULL} :
    /\ \A page \in Stack(t), space \in {pml4_new} \cup spaces :
         /\ Translate(mem, space, page) # Absent
         /\ Translate(mem, space, page) = Asked(pml4_new, page)
    /\ \A u \in DOMAIN stacks \ {t} : stacks[u] # NULL => Stack(t) \cap Stack(u) = {}

(* What a user program reads at an address; Junk if it faults.             *)
Reads(addr) ==
  LET f == Translate(mem, cr3, addr \div PMM_FRAME_SIZE)
  IN  IF f = Absent THEN Junk ELSE data[f][addr % PMM_FRAME_SIZE]

(* Segments that start on a page and share none: elf_load copies to the    *)
(* start of a frame, and gives a page a new frame for each segment.        *)
Covers(p) == p.p_vaddr \div PMM_FRAME_SIZE .. (p.p_vaddr + p.p_memsz - 1) \div PMM_FRAME_SIZE
Segments == {i \in DOMAIN image.phdrs : image.phdrs[i].load}
Apart == \A i, j \in Segments : i # j => Covers(image.phdrs[i]) \cap Covers(image.phdrs[j]) = {}
PageAligned == \A i \in Segments : image.phdrs[i].p_vaddr % PMM_FRAME_SIZE = 0

(* After a successful load, and whatever is mapped afterwards, the program *)
(* finds each byte of its segments where it was linked: the bytes of the   *)
(* file that exist, then zeros to p_memsz.                                 *)
ImageInPlace ==
  rc = "ok" /\ PageAligned /\ Apart =>
    \A i \in Segments :
      LET p == image.phdrs[i]
      IN  \A k \in 0 .. p.p_memsz - 1 :
            Reads(p.p_vaddr + k) = IF k < p.p_filesz /\ p.p_offset + k < image.size
                                   THEN p.p_offset + k + 1 ELSE 0

(* A user task has a cleared stack page that is mapped nowhere else,       *)
(* although the tables for it are not checked: when frame 0 has become one,*)
(* no frames are left for the kernel stack either, and there is no task.   *)
UserStackReady ==
  "user task" \in DOMAIN stacks =>
    LET f == Translate(mem, cr3, STACK_PAGE)
    IN  /\ f # Absent /\ data[f] = Zeros
        /\ Cardinality({e \in AllEntries : mem[e[1]][e[2]] = f}) = 1

(* Every frame taken is the PML4, a table or a page that a PML4 leads to,  *)
(* however many steps have failed; a failed elf_load loses one at most.    *)
(* The user space counts although kernel_main forgets user_cr3 when        *)
(* elf_load fails, and nothing frees it: its frames could still be found.  *)
Lost == ram \ (free \cup Targets(AllEntries) \cup spaces)
NoFrameLost ==
  Apart => Cardinality(Lost) <= IF rc = "failed" THEN 1 ELSE 0

(* On a machine with frames enough below the scratch window, counted as if *)
(* each page of the boot took one and three tables, kernel_main never      *)
(* touches the frame under the window, which nothing reserves, nor one that*)
(* is seen through it only: pmm_alloc_frame gives out the lowest first.    *)
ImagePages == UNION {Covers(image.phdrs[i]) : i \in Segments}
BootPages == HeapInitPages + 4 * StackPages + Cardinality(ImagePages) + 2
Ample == Apart /\ Cardinality(ram \cap 0 .. SCRATCH - 1) >= 4 * BootPages + 4
StaysBelow == Ample => ram \ 0 .. SCRATCH - 1 \subseteq free
=============================================================================
