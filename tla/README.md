# A TLA+ model of the Prism kernel

Prism is a small x86-64 kernel: GRUB loads it, `kernel_main` sets up the CPU,
memory and devices with interrupts off, creates two kernel threads and one
ring 3 process, executes `sti`, and becomes the keyboard echo loop. From there
on everything happens through interrupts, system calls and the scheduler. There
are no tests in the repository, so this project is where the kernel's
correctness is written down.

Paths below are relative to the repository; the code is under `src/`.

## 1. Inventory

| Component | State | Operations | Interacts with | What is hard | What makes it correct |
|---|---|---|---|---|---|
| Scheduler (`task/`) | `task_table`, `current_task`, READY list | `kinit_task`, `task_create`, `task_create_user`, `schedule`, `task_yield`, `context_switch` | timer handler and system calls call `schedule`; heap gives stacks; TSS.RSP0 | preemption at every instruction outside handlers | list and states agree; FIFO turns; nobody starves |
| Interrupt dispatch (`isr/`, `cpu/pic.c`) | handler table; PIC request and service registers | stub, `isr_handler_c`, `pic_send_eoi` | timer, keyboard, scheduler | a handler that switches away returns much later | flags, registers and EOIs of one task never leak into another |
| Timer (`drivers/timer.c`) | `timer_ticks` | `timer_irq_handler`, `timer_wait` | `schedule` | EOI order | ticks never stop |
| User mode, system calls (`user/`, `syscall/`) | MSRs, TSS.RSP0, CR3, the frames | `enter_user_mode`, `syscall_entry`, `sys_*` | scheduler | interrupts inside the transition | own kernel stack, own registers |
| Physical memory (`mm/pmm.c`) | bitmap, counters | `pmm_init`, alloc, free | IDT set-up, paging, heap, ELF | memory maps in any shape; uninitialised bitmap | no frame twice, never the kernel's own |
| Heap (`mm/heap.c`) | blocks, free list, `heap_end`, `heap_used_bytes` | `heap_init`, `kmalloc`, `kmalloc_aligned`, `kfree` | frames and paging | splits, merges, failed growth | blocks never overlap, nothing lost |
| Paging (`mm/paging.c`) | page tables, one scratch page | map, unmap, create and free a user space, translate | frames, ELF, `kernel_main` | one scratch page for all tables | a walk edits the table it read |
| Keyboard (`drivers/keyboard.c`) | ring buffer, modifier flags | IRQ handler, `keyboard_getchar`, `keyboard_has_key` | echo loop | reader without a lock; `hlt` | in order, once, not forgotten |
| Fault stacks (`cpu/idt.c`, `cpu/gdt.c`) | TSS, gates | `ist_alloc`, `tss_set_rsp0` | frames | order of initialisation | stacks exist |
| ELF loader (`fs/elf.c`) | user page tables | `elf_load` | frames, paging | clamps, early returns | the image is in memory as the headers say |
| VGA console (`drivers/vga.c`) | screen, cursor | `kprintc`, `vga_backspace` | echo loop, panic | a panic in the middle of a scroll | the screen shows what was typed |
| Log, panic, serial (`kernel/log.c`, `drivers/serial.h`) | the UART | `klog`, `kpanic`, `serial_putc` | everybody | look and write are two steps | no byte lost, every line ends |
| Boot (`kernel/`) | — | `_start`, `kernel_main` | everything | order of initialisation; frames run out | each part finds what it needs |

`PROJECT.json` lists the same components with their status, and every hazard at
its line.

## 2. Modules

| Module | Models | Role |
|---|---|---|
| `RoundRobin` | — | abstract specification of the scheduler |
| `Task` | scheduler, IRQ 0 and 1, PIC, ring 3 entry, system calls | the core |
| `ReadyList` | the READY list with its pointers, `task_yield` | implements `RoundRobin` |
| `TaskProofs` | — | proofs about `Task` |
| `DataLemmas` | — | lemmas about sequences, induction and remainders, for the proofs |
| `Pmm`, `MCPmm` | frame allocator from reset on | |
| `PmmProofs` | — | proofs about `Pmm` |
| `Allocator` | — | abstract specification of the heap |
| `Heap` | kernel heap | implements `Allocator` |
| `ListProofs` | — | proofs about `ReadyList` and `Heap`, the two linked lists |
| `Paging`, `MCPaging` | page tables, their use by `heap_extend` and `elf_load` | |
| `PagingProofs` | — | proofs about `Paging` and `Boot` |
| `KeyQueue` | — | abstract specification of the keyboard buffer |
| `Keyboard` | keyboard driver and echo loop | implements `KeyQueue` |
| `KeyboardProofs` | — | proofs about `Keyboard` |
| `Frames` | registers and kernel stacks word by word: stubs, switches, ring 3 and back | |
| `FramesProofs` | — | proofs about `Frames` |
| `Console` | VGA screen, serial port, log, panic | |
| `ConsoleProofs` | — | proofs about `Console` |
| `Boot`, `MCBoot` | `kernel_main` from `heap_init` to `sti`, `elf_load` | composes heap, tasks and ELF loader on `Paging` |

### Task

One CPU, so one action is a stretch of code no interrupt can divide. Interrupt
gates and FMASK clear IF; hence the timer interrupt is a single action from its
request to the instruction at which `context_switch` has popped another task's
stack, and `IsrReturn` is what is left of it (`isr_handler_c`'s EOI, the stub's
epilogue, `iretq`) when the task is switched back to. `enter_user_mode` runs
with IF set and is divided into three stretches: up to TSS.RSP0 written
(`"rsp0"`), up to CR3 loaded (`"cr3"`), up to `iretq` (`"iret"`). `kernel_main`
before its `sti` is the location `"boot"`, where tasks are created. What the
registers hold is the business of `Frames`, with one exception. In its last stretch
`enter_user_mode` holds the user RSP and RFLAGS in r10 and r11, which
`isr_common_stub` does not save. An interrupt there may leave the task at
`"torn"`, the same stretch with these registers lost, from which `EnterTorn` goes
on into ring 3 with any IF (`"wild"`). The program there computes, makes system
calls and faults like any other; with IF clear (`Deaf`) nothing else ends its turn.
`Preemptible` says nothing of the flag of such a task while it runs, and says of
all others that they never get it; `StarvationFree` and `KeyServed` except `Deaf`.

`loc[t]` says where a task executes or will continue; `frame[t]` where the
interrupt frame on its stack returns to; `saved_if[t]` the flag that
`context_switch` will pop for it. `ready` is the list as a sequence. A CPU
exception, a stack that is not mapped and the return from a system call stop the
machine with a `mode` of their own: what happens after them is up to the
hardware. `SCE` is a constant because no code
sets EFER.SCE; both values are modelled, the run uses `TRUE`, where system
calls exist. The 8259 and the PIT are external and modelled from their use:
priorities, in-service bits and the non-specific EOI.

Left out: IRQs without a handler (they are answered with an EOI), the
`timer_ticks` counter, nested exceptions, and the contents of memory.

### ReadyList

`list` has `ready_head`, `ready_tail` and `next`. `schedule` and the functions that
create tasks run with interrupts off, so each is one action. `task_yield` is one too,
but nothing in the repository calls it: here interrupts off is a contract for a caller
to come, which `task.c:255` neither states nor enforces.

### Pmm

The bitmap is a set of frames. `RamContents` is what its memory may hold at
power-on. `Ends`, `TotalFrames`, `ApplyMap` and `MarkKernel` are the two passes
and the closing marks of `pmm_init`; allocation takes the lowest run, and `Scan`
is the loop that finds it, checked against that definition. `ist_alloc` comes
before `pmm_init` because `kernel_main` calls it there. `owned` is what callers
hold: it is not in the code, it records the promise.

### Heap

Blocks by header address; the free list is the sequence of blocks met from
`free_list`, which is not sorted after an extension. `Request` is `kmalloc` with its retry after
`heap_extend`, which may stop after any number of pages. `kfree` of a pointer
that `kmalloc_aligned` moved finds no magic value and does nothing; that the
caller's own data is not the magic value there is an assumption.

### Paging

The kernel edits tables through pointers. A frame below 2 MiB (`LOW`) has a
pointer of its own; every other frame is seen through the scratch page, and
`scratch` is the frame it shows. A pointer is therefore a frame number below
`LOW`, and `Shows` says what it means at the moment it is used, which is how a
pointer goes stale. `MapIn` is the walk that `paging_map_page` and `elf_load`
and `kernel_main` all contain; they differ in how they clear a new table, and
`kernel_main` does not check that it got one. `Translate` is the walk
of the CPU, `SoftwareWalk` the one of `paging_virt_to_phys_cr3`, and `given`
records what successful calls promised. Frames come from `free`, lowest first, as
`Pmm` gives them. Left out: entry flags (every page mapped here is present,
writable and user, so the checks of `user_mem_check` at `paging.c:309` are constant),
2 MiB pages, the fixed maps of low memory, and the gap between user limit and kernel
half: entries 256 to 510 of a PML4 are never mapped, so the model's tables have none,
and `user_mem_check`'s limit is the kernel's entry.

### Keyboard

The handler is one action per kind of scan code; `keyboard_has_key`, the load and
the store of `keyboard_getchar`, and the echo are separate, with interrupts in
between. The handler sees bytes, not keys: it ignores an E0 and takes the byte after it
for one of the main keyboard. So the right ctrl and alt keys are the left ones, and the
shift codes that keyboards make up around their navigation keys (E0 2A, E0 AA, E0 36,
E0 B6) set and clear the shift flags. Bytes of modifiers therefore come in any order and
number, and no property says that a flag agrees with a key: none does. `TickWakes` is
the timer ending a `hlt`. `typed` is not in the code: it changes with every character
typed, so that in `KeyQueue`, too, an arrival is a step of its own and dropping a character
is allowed only when the queue is full.

### Frames

A word is a tuple that says whose it is; the registers of a task in its own code
are renewed whenever it works (`Work`), so a word that is stale, misplaced or
another task's is told apart. Pushes and pops are lists of register names in the
order of the assembly (`IsrPushes`, `SwitchPushes`, ...), a stack is a sequence.
An interrupt pushes what the CPU and the stub push, `isr_handler_c` reads vector,
error code and registers from it, and the C code leaves anything in the registers
it need not save. Timer interrupts and system calls may switch to any other task
(`Task` says which); the first run of a task comes from the frame that `task.c`
made by hand. Exceptions that use an IST stack reset the machine, since these
stacks do not exist. r10 and r11 are not saved by the stub: `EnterRegs` loads them,
`EnterIret` pushes what they then hold, and the user task goes on with it, whatever it
is; `Resumes` asks for every other register.

### Console

`kprintc` is divided at its stores, a scroll at every cell. The writer of the
screen is a sequence of operations still to do (`todo`): the body of the echo
loop, or a panic, which replaces it at any point. `serial_putc` is a look at the
status (`TxReady`, `LogReady`) and a write (`TxWrite`, `LogWrite`), since a tick
may come in between; `sys_write` runs with interrupts off and is undivided. The
UART is external: a FIFO that reports ready when empty and drops a byte when
full. `paper`, `pos` and `top` are the reference, all that was ever typed on an
endless sheet. The screen may have any size whose cursor, one column and two rows
beyond the last included, fits two `uint8_t`, and at least two columns and rows (the
kernel's has 80 and 25); typing ends after `ROWS` rows, at least a screenful. The two
stores with which `vga_backspace` steps back are one action (`CursorBack`): nothing is
written between them, and a panic there starts a row of its own from either cursor.

### Boot

`Boot` extends `Paging` and adds `kernel_main`: `heap_init`, the kernel stacks of
the idle task and the two threads, the user space, `elf_load` with its copy, the
user stack and the user task. `heap_extend` is a step per page and may break off
at each; `kmalloc` is used for stacks only, which by the constants of the code
means that every stack but the first begins a new extension. The bytes in
frames are tracked, as offsets into the image. The place of a program header
(`ph_off`) is `e_phoff` plus a multiple of `e_phentsize` in 64 bits (`ADDRESSES`),
wraps included. When `elf_load` fails `kernel_main` drops `user_cr3`; the space stays
in `spaces`, so `NoFrameLost` counts the frames of the abandoned space as found,
although nothing frees them.

## 3. Runs

| Run | Checks | Distinct states |
|---|---|---|
| `task_core` | `TypeOK`, `ReadyExact`, `Rsp0Own`, `Preemptible`, `NothingInService`, `ImplementsRoundRobin`, `StarvationFree`, `KeyServed` | 301336 |
| `readylist_list` | `ListWellFormed`, `YieldsToAnother`, `ImplementsRoundRobin` | 537 |
| `pmm_alloc` | `TypeOK`, `HeldIsMarked`, `KernelNeverGiven`, `ScanFindsRun`, `CountFollowsBits` | 3736 |
| `heap_blocks` | `BlocksDisjoint`, `FreeListExact`, `FitsRequest`, `ImplementsAllocator`, `NoByteLost` | 23356 |
| `paging_spaces` | `TranslatesAsAsked`, `SpacesApart`, `UserMemCheckExact`, `FreesExactly` | 69484 |
| `keyboard_queue` | `TypeOK`, `ImplementsKeyQueue`, `KeyEchoed` | 101176 |
| `frames_switch` | `Resumes`, `HandledAsRaised`, `StackBounded` | 170982 |
| `console_output` | `ScreenIsWindow`, `PanicReadable`, `NoByteLost`, `OutputEnds` | 571333 |
| `boot_load` | `KernelStacksWhole`, `ImageInPlace`, `UserStackReady`, `NoFrameLost`, `StaysBelow` | 4182 |

The type invariants of `ReadyList`, `Heap`, `Paging`, `Frames`, `Console` and
`Boot` are conjuncts of `ListWellFormed`, `BlocksDisjoint`, `SpacesApart`,
`StackBounded`, `ScreenIsWindow` and `KernelStacksWhole`.

Runs that are expected to fail, each a disagreement between the code and what it
says of itself (quoted in `PROJECT.json`, "findings"):

| Run | Property | What the counterexample does |
|---|---|---|
| `task_stack` | `StackMapped` | the user task loads CR3, a tick switches to the boot task |
| `paging_scratch` | `TranslatesAsAsked` | a user page mapped when the tables lie above 2 MiB |
| `frames_syscall` | `SyscallReturns` | a system call returns: the epilogue pops the iretq words into r15 and on, and `iretq` takes the result for RIP |

What `task_core` shows about lost registers: an interrupt between the load of r11 and
`iretq` is the only way to run with a flag that nobody chose. The task that entered
ring 3 so may keep the CPU for ever when IF is clear; if it is set, or the program exits
or yields, the next task has its own flags, stack and turn again.

What the last three passing runs show. `frames_switch`: a task resumes with every register but
r10 and r11, and with its own stack, after any mixture of interrupts, exceptions,
system calls, switches and first runs of others; the vector, error code and
registers a handler reads are those of the interrupt; handlers do not nest, so a
kernel stack holds one frame and one switch. `console_output`: wraps, scrolls and
backspaces keep the screen equal to the window on what was typed; a panic is
readable wherever it stops the echo loop, although it inherits a cursor beyond the
last column or row. `boot_load`: on a machine with any number of frames, a task
that exists has a whole stack of its own (the idle task alone may have none, since
`kinit_task` does not check); the user stack is sound although its tables are not
checked, because when frame 0 has become one of them the kernel stack of the
user task fails as well and there is no such task. On a machine with enough low frames
(`Ample`) no step of the boot takes the frame under the scratch window, which
`pmm_init` does not reserve, or one above it.

Read off the code while modelling, and too direct to need a run:

- `schedule` never decrements `time_slice` and switches on every tick, though
  `task.h` says it preempts when the slice is used up.
- `task_yield` (`task.c:255`) marks its task READY before it is on the list and
  leaves interrupts as they are. Nothing calls it; called with interrupts on, a
  tick in between would switch away from a task that is on no list, and it would
  never run again.
- `kernel_main` calls `kinit_idt` before `pmm_init` (`kernel.c:99` and `:107`), so
  `ist_alloc` (`idt.c:154`) always gets 0 and TSS.ist1 to ist3 are 0: double
  faults, general protection and page faults reset the machine instead of
  reaching the panic.
- `isr_common_stub` says "Save all general-purpose registers" (`isr_asm.s:136`)
  and leaves out r10 and r11, in which `enter_user_mode` holds the user RSP and
  RFLAGS with interrupts on (`usermode.s:71`). An interrupt before the `iretq`, with a
  handler that uses the registers, enters ring 3 with another stack pointer and
  other flags, IF clear among them, although `usermode.s:72` says "ensure IF=1".
- `pmm_init` does not reserve frame 0x1FF000, over which `paging.c` lays its scratch
  window: handed out, it could not be reached through its own address. Since the lowest
  frame is given out first, the boot of a machine with low frames enough does not
  (`StaysBelow`); a longer-running kernel could.
- The comment at `isr_asm.s:64` counts 17, 19, 21, 29 and 30 among the vectors
  with an error code, and their stubs push a dummy one; of the exceptions the
  kernel can meet none is among them. From 16 on, `isr.c` prints the name of the
  next vector.
- `elf_load` copies to the start of the frame also when `p_vaddr` is not page
  aligned, and gives a page that two segments share a new frame for the second,
  so the bytes of the first are gone and its frame is lost. It does not compare
  addresses with the user limit. `ImageInPlace` and `NoFrameLost` are therefore
  stated for images whose segments are aligned and apart, as the embedded one is.
- Lines of two threads and of the echo loop may mix on the serial port.
- The `\t` branch of `kprintc`, which nothing uses, could leave the cursor at
  column 80.
- `pmm_init` leaves a hole between two entries of the memory map as it found it,
  and on bitmap memory that is not zero it counts wrongly, because bits that
  happen to be 1 pass for frames already counted.
- An extension of the heap puts the highest address in front of the free list, so
  a later `kfree` inserts before it and misses neighbours it would merge with;
  `kmalloc` adds the size asked for to `heap_used_bytes` and `kfree` subtracts the
  size of the block, which may be larger.
- Both ctrl keys, and both alt keys, share one flag, so releasing one clears it
  while the other is down. The shift codes made up around navigation keys and
  PrintScreen set the shift flags with no shift key down, and clear them with one down.

**Bounds.** `task_core`: five slots, so three created tasks of any mixture,
enough for two user tasks and a thread between them,
the smallest case in which TSS.RSP0 of one can be stale for another; a tick
and a key can arrive between any two steps, and tasks exit. The creation phase is bounded by the slots, so no
counter needs a cap. `pmm_*`: nine two-byte frames, with the image and the
bitmap ending in the middle of a frame, entries of the map against address
order, overlapping, and beyond what the bitmap tracks. `heap_*`: pages of 16
bytes, headers of 4, a heap of at most `MaxPages` (3) pages, sizes that
need rounding, fit a remainder exactly, and need two pages; `COUNTER` stands for
2^64 and is small (8) so that it wraps often.
`paging_*`: tables of three entries, so that the kernel's entry, two user
entries and two heap tables exist; eight low frames, enough for one whole space
beside a partial one and few enough to run out at every step of a walk, or one low
and six high frames for a heap alone. The passing run keeps the tables of user
spaces in low memory, as they are at boot with the image the kernel carries. A third
machine, for the heap, has all frames free from low to high, the last low one
included, whose pointer is the scratch page; the heap is too small to reach it.
`paging_scratch` has tables of user spaces above. `keyboard_queue`: a ring
of four slots, filled, wrapped and emptied many times, with bytes of both shifts and
ctrl; alt is another value of the same action.
`frames_*`: the boot task, one thread and two user tasks, so that a switch goes
between every two kinds of task; the exceptions are two without an error code that
panic, one with one, and those that reset. `console_output`: a screen of two by
two cells, where every second character wraps and every row scrolls, `ROWS` (4) rows
of typing, so that what is erased has moved up before; one thread and a FIFO of
three, the least the proof of `NoByteLost` allows. `boot_load`: 0 to 30 free
low frames, so that they run out at every single allocation and then do not, and two
machines with frames on both sides of the scratch window (frame 99), one of which has
as many low ones as `Ample` asks for; the
embedded image, whose `p_filesz` is larger than the file, one with two segments
and a note, two that are misaligned or overlap, and three that are refused, for their
header, for program headers beyond the end of the file, and for an `e_phoff` so large
that the sum wraps.

**Fairness.** `Task!Fairness`: the boot code and handlers are straight-line code
on a running CPU, and the PIT ticks (weak fairness). Two strong conditions say
that a handler is short against a 10 ms tick: a return from an interrupt does not
find the next tick already pending every time, and a pending key is not overtaken by
ticks for ever. `Keyboard!FairSpec`: the echo loop goes on when it has the CPU,
which `StarvationFree` grants it again and again while the machine is up and no
program is `Deaf`, and ticks end its `hlt`.
`Console!Fairness`: the UART sends what it holds; a writer that polls has the CPU
for 10 ms at a time, in which the UART sends all of its 16 bytes, so it finds the
UART ready again and again (strong fairness), and a writer that has looked goes on.

Symmetry is not used: slots are ordered by the search for a free one, and the
liveness runs would not allow it.

## 4. Proofs

`TaskProofs` proves for every number of slots, every set of user address spaces,
either value of SCE and every choice of user programs:

- `TypeCorrect`, `ReadyListExact`, `KernelStackOwn`, `InterruptsOutsideHandlers`,
  `PicFree`;
- `Refinement`: `Task` implements `RoundRobin`.

The inductive invariant `IInv` adds to the checked invariants what they rest on.
`Immortal`: the boot and idle tasks never die, because only ring 3 tasks make
system calls (`Kinds`), so the list is never empty when `schedule` looks, and
the early return that would leave a DEAD `current_task` running is never taken.
`Flags`: a waiting task's saved flag is set exactly if it waits outside a handler, which is
what makes `Preemptible` survive a switch. A `"wild"` task may have any flag, but is
switched away from only inside a handler or system call, so the flag saved for it is
that of the handler, and the one it passes on is the next task's own. `Rsp0Inv`: TSS.RSP0 belongs to the
current task already on its way to ring 3. `Pids`: a slot that has had a task is
not reused, which is `RoundRobin`'s promise that an exited task does not return.
`isr = {}` holds between any two actions, because each handler's EOI retires its
own interrupt and the late one then finds nothing to retire. The proof has a
lemma per action; the three that switch share `ScheduleSwitches` and
`SchedulePreserves`, which rest on `DataLemmas`.

`ListProofs` proves of `ReadyList`, for every finite set of tasks:

- `WellFormed` and `YieldSwitches`;
- `ListRefinement`: the pointers implement the queue of `RoundRobin`.

The list is read by walking its pointers (`Walk`). The proof says of a list that it
spells a sequence `q`: `ready_head` is the first of `q`, `next` leads from each to the following
one, `ready_tail` is the last, nothing occurs twice. Adding appends to `q`, removing the
head leaves its tail, and a list that spells `q` is walked as `q`, which is an induction
on the position.

`PmmProofs` proves for every frame size, memory map and content of RAM:

- `TypesOK`;
- `NoDoubleHandOut`: a frame somebody holds is marked;
- `KernelMemorySafe`: no frame that overlaps BIOS memory, the image, the bitmap
  or the VGA buffer is ever free or held;
- `CounterExact`: `used_frames` moves by the bits set and cleared;
- `ScanCorrect`: the loop of `pmm_alloc_frames` finds the lowest run.

The arithmetic is in `RoundDown` and `RoundUp`; `RegionCovers` shows that
`pmm_mark_region` marks every frame that overlaps a region by one byte, and
`MarkKernelCovers` that the closing marks of `pmm_init` therefore cover the
kernel whatever the map said. Frees keep this because only held frames are freed.
The loop invariant of the scan: after the frames below `i`, `run` is the number of
clear bits just before `i`, counted back to a set bit or to frame 0, and no run of
the length wanted ends before `i`, or the loop has stopped at the first one.

`ListProofs` proves of `Heap`, for every page and header size that `HeapAssumption` allows
and every set of requests:

- `NoOverlap`, `ListExact`, `RequestFits`;
- `BytesKept`: no split or merge loses memory, as an action property;
- `HeapRefinement`: `Heap` implements `Allocator`.

The inductive invariant is about the blocks and the list together (`Good`): blocks are
apart, end within the heap, have room for a pointer, hold what their caller asked for, and
the list is injective and holds the unheld ones. A split, a merge with the block behind and
one with the block in front keep it, each shown as a lemma about block map and list,
so that `kmalloc`, `kmalloc_aligned` and `kfree` are sequences of such lemmas. That
neighbours on the list may be out of address order after an extension does not matter: a merge
checks addresses, and a missed merge loses nothing.

`FramesProofs` proves for any sets of threads and user tasks and any exceptions but
17, 21, 29 and 30:

- `ResumesAlways`, `ReadAsRaised`, `Bounded`.

The exceptions left out are the ones that push an error code which their stubs do not
expect; boot.s enables none of the features that raise them. The inductive invariant says
what every stack holds. The current task is `Outside` handlers, with its own registers and stack or
at the start of its code, or it is in a handler with the frame of such a point on its
stack (`InFrame`). Every other task is `Waiting`: eight words for `context_switch`
on top of such a frame, or the frame that `task.c` made. `StubIs` computes
the frame word by word, `ReturnIs` shows that the epilogue takes back exactly what the
stub pushed, `SwitchedOut` and `SwitchedIn` the same for `context_switch`, whatever C code
left in the registers. That an interrupt finds the task `Outside` is because gates clear
IF: with interrupts on, no handler is running.

`KeyboardProofs` proves for every buffer size and every set of keys:

- `TypeCorrect`;
- `Refinement`: `Keyboard` implements `KeyQueue`.

Besides the checked invariants, `IInv` has what makes the store to `kbd_tail` a
`Get`: a reader between its load and its store still finds the loaded character
at `kbd_tail` and the buffer not empty, whatever the handler pushed meanwhile, because a push
writes the slot at `kbd_head`, which is another one. `PushAppends` and
`AdvanceTakesHead` say what the two operations do to the queue in the ring;
`SuccIs`, `LengthIs` and `PlaceIs` remove the remainders beforehand, which the
provers do not handle inside function expressions.

`ConsoleProofs` proves for every set of threads, every size of the screen and every
number of typed rows, with a FIFO of at least one byte per thread and two more (the
hardware has 16, the kernel two threads):

- `SerialLosesNothing`: the UART drops no byte;
- `ScreenFollows`: between keys the screen is the window on what was typed;
- `PanicIsReadable`: the report of a panic is whole on the serial port, and on the
  screen nothing but it stands in its row and below;
- `TypeCorrect`.

`NoByteLost` alone says nothing of how full the FIFO is. `FifoRoom` counts
the bytes in it together with the writers that have seen it ready: a look succeeds
only when it is empty, and then at most one byte per thread, one of the echo loop
or panic and one of a system call can be on their way; a write moves one from the
second group to the first. So two writers that both saw the UART ready do no harm.

`ScreenIsWindow` speaks of the moments when nothing is left to do, and the reference
has then been ahead of the screen for many steps. `ScreenInv` therefore names a sheet
`p`, as far as the screen has come, and says what the echo loop is doing with it: the
screen shows `p` (`Idle`), `kprintc` takes it from `p` to `TypeOn(p, c)` (`Printing`,
`NewLine` for the newline before the prompt), or `vga_backspace` is at one of its
three parts (`SteppingBack`, `Blanking`, `ReturningTo`). `Stage` lists the stations of
`kprintc`, with the cursor at each; during a scroll the cells before `cell` show the
page one row further down and the others still the old one. `UnderCursor` and
`StoreShows` connect a cell of the screen with one of the sheet, `TypeOnSheet` says
that typing stays on it, at most one row further, and `BlankOver` that the blank which
`vga_backspace` prints may wrap but never scrolls, since it leads back to where the
cursor stood before.

A panic has its own stations: the bytes (`Sending`), the newline that ends whatever
stood in the row (`Leaving`), the report (`Reporting`), the last newline with the
scroll that takes the report along (`Ending`) and the end. What it needs of the
interrupted echo loop is little, and holds between any two stores (`EchoingBelow`):
the rows below the cursor are blank. In a scroll there are none, the cursor being
beyond the last row; the newline of the panic then scrolls from the first cell again,
which clears the last row for the report.

`PagingProofs` proves for every number of entries in a table, every machine and set of
pages, and every order of successful and failed calls:

- `Invariance`: the page tables are trees that share only the kernel's;
- `Translation`, `Apartness`, `MemCheck`: `TranslatesAsAsked`, `SpacesApart` and
  `UserMemCheckExact` hold;
- `Teardown`: `FreesExactly`, as an action property.

Without a hypothesis these theorems are false: `paging_scratch` is the counterexample. The
code gets a table above 2 MiB through the one scratch page, so a step that makes a new table
while it stands at such a table edits the wrong one. What a walk needs is that the three
upper levels are in low memory, and since allocation takes the lowest frame, they are as long
as enough low frames are free when the walk starts. And the frame under the scratch window
must not be given out, which again only the order of allocation prevents. That is
`RoomBelow`, with low frames those below the window. For the window's own frame: it is
not free, or four low frames are (`Spare`), since a step takes four at most. For the tables:
three low frames are free, or no free frame is above them (`Room`), or there are
no user spaces and the heap stays in the one directory that `paging_init` made (`NoUsers`).
A machine with 2 MiB of memory or more starts so: its window frame is free, and of the low
frames some 190 are. The five theorems have `[]RoomBelow` as a hypothesis. Each step
needs it only in the state it starts from, so they say: as long as there has been room so
far, the property holds. How long that is depends on what is asked for; for the boot it is
answered by `AmpleBoot` below. The machines of `paging_spaces` have room throughout, those of
`paging_scratch` do not.

The inductive invariant `IInv` gives every frame a `role`: no known use (0), a PML4 or a table of
the three levels below (1 to 4), a page (5), or never used (6), as the frame under the
scratch window, which may be free all the same. `Tree` says that an entry of a table
leads one level down (`Tiers`), that no frame has two entries (`Single`), that PML4s share
the kernel's entry (`Shared`), and that the upper three levels are in sight (`InSight`); `Sound`
adds that free frames have role 0, `Good` that PML4s are the spaces and that the
walk of the CPU finds what callers were told. No separate invariant says where the scratch page
points: with the upper levels in sight it is used for a table of the last level only, and
every walk sets it before it does. `DescendIs` is one step of a walk, `DescentIs` three;
each leaves a tree that has grown by the tables it made (`Grown`), whether it ends well or
fails, so a failed call is covered like a successful one. The loops of
`paging_free_user_space` are `Runs` through sets of machine states; `Reach`
collects the frames below a table, and `Own` shows that what the loops free is what
`OwnEntries` counts.

`PagingProofs` also proves of `Boot`, for every set of machines and images, every number of
pages of heap and stack, and frames that run out at any point:

- `BootInvariance`, and from it `KernelStacks`: `KernelStacksWhole`;
- `UserStackPage` and `ImageLoaded`: `UserStackReady` and `ImageInPlace`;
- `FramesAccounted`: `NoFrameLost`;
- `BootStaysBelow`: `StaysBelow`, without a hypothesis;
- `AmpleBoot`: on a machine that is `Ample` the four properties above hold, without a
  hypothesis on the behaviour.

All but the last two have `[]RoomBelow` as a hypothesis. The steps of `Boot` that are calls of `Paging` keep `IInv` by the lemmas above. The exception is
the walk for the user stack, which `kernel_main` does not check. `BInv` therefore says that
either the spaces are `Good` (`Alive`), or that walk ran out of frames (`Broken`): no frame
is free any more, and the tables are those of a sound machine but for one entry that leads to
frame 0 (`Torn`), which from there on is every table of the walk (`Stuck`, `SinkTwice`).
Every other page still translates as before, since its walk does not pass that entry
(`KeptWalk`); and nothing changes after it, because the kernel stack of the user task finds
no frame. `StackRoom` and `HeapMapped` place the stacks in the heap pages mapped so
far, a broken-off extension included. `UserStack` says that the frame of the user stack was
cleared and has one entry, `Loaded` which bytes each page of the segments passed so far has;
both speak of `given` and `data`, so a later step disturbs them only by handing out one
of their frames, which `Good` excludes.

`Good` says that a frame in use has one use, not that a frame without one is free. For
`FramesAccounted` a frame is `Kept` if it is free, a PML4, or has an entry that leads to it (`Hangs`),
and every walk `Spares` what was kept, which is part of `Grown`: the tables that a broken-off walk
made hang from the table above. Mapping a page a second time would drop the frame it had;
`Placed` excludes it, since the pages given so far are those of the heap below `heap_pages`
and those that `elf_load` has passed, which segments that are apart do not meet again. So
each step saves all frames but the one that `elf_load` allocated when the walk for its page
fails (`Saves`, `Saving`). `Tidy` is the result: the spaces are sound with at most one lost
frame, and that only after a failed load (`Accounted`), or the walk for the user stack ran
out (`Wrecked`) and frame 0 leads to the stack's page. `Deep` and `AllFound` turn the entries
above a kept frame into a path from a PML4, which is what `NoFrameLost` counts.

`Ample` is a condition on machine and image alone: four low frames for each page that
the boot may map (`BootPages`), and four more. A step of `kernel_main` maps one page and takes
four frames at most, the page and a table on each of three levels, the lowest first
(`Drops`, `Takes`). `Budget` is the invariant: the low frames that are free cover, four
each, the pages still to come, those of the current call of `heap_extend` (`ToMap`) and
those of the steps after it (`Rest`, `Todo` for what `elf_load` has not passed yet).
So four are always left, which is `RoomBelow`, and the lowest free frame is always
low, which is `StaysBelow`. With the constants of the code `BootPages` is 18 and the
pages of the image, so `Ample` asks for between 80 and 90 low frames with the
embedded program, and a PC has about 190 between the kernel and 2 MiB.

The assumptions are the ASSUMEs of the modules, which TLC evaluates in the runs. About images
`BootAssumption` says that their segments end below the user stack. `elf_load` does not
check it; the embedded program is linked far below.

The provers have no induction rule that can be applied to a formula. `DataLemmas`
therefore derives induction over `0 .. n` from the least counterexample (`Least`,
`Induct`, stated for the set of numbers with a property), and the equations of a
recursively defined function from it (`Recursion`). The loops of the code that the
proofs are about, `ApplyMap`, the scan of `Pmm`, the walk of `ReadyList` and the loops of
`paging_free_user_space`, are recursive functions for that reason.

Only model-checked: liveness (`StarvationFree`, `KeyServed`, `KeyEchoed`,
`OutputEnds`), which is out of the prover's reach.

## 5. Plan

All modules above are written, and every invariant and action property of the passing
runs is proved, those of `Paging` and `Boot` as far as there is room below the scratch
window. Work that is left follows the source: a new operation, or a repair of one
of the findings, changes an action, its runs and the steps of the proofs that name it.

## 6. Not modelled

- Descriptor and gate encodings, PIC and PIT programming, the 32-bit entry code of
  `boot.s`: constants and straight-line code whose correctness is a matter of the
  hardware manuals.
- `timer_wait` and the tick count: nothing calls it.
- The walk over the Multiboot2 tags: it reads what the boot loader wrote and keeps
  no state. `Pmm` takes its result, or its absence, as input.
- Wording and hexadecimal conversion of messages, and the C library loops.
- `kprint` of the banner before `sti`, when nothing else runs.
- A second CPU: the kernel starts none. What hardware does after a fault on an
  unmapped stack.
