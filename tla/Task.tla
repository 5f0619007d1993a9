-------------------------------- MODULE Task --------------------------------
(***************************************************************************)
(* The preemptive core of the Prism kernel on its one CPU: the task table  *)
(* and round-robin scheduler (src/src/task), the timer and keyboard        *)
(* interrupts through the 8259 PIC (src/src/drivers, src/src/isr,          *)
(* src/src/cpu), the way into ring 3 (src/src/user/usermode.s) and the     *)
(* system calls that reach the scheduler (src/src/syscall).                *)
(*                                                                         *)
(* An action is a stretch of code that no interrupt can divide.  Interrupt *)
(* gates and FMASK clear IF, so a handler runs undivided up to the point   *)
(* where context_switch leaves it; enter_user_mode runs with IF set and is *)
(* divided into its three stretches.  Of what registers hold (module       *)
(* Frames) one thing matters here: the stub does not save r11, from which  *)
(* enter_user_mode takes the flags for ring 3.                             *)
(***************************************************************************)
EXTENDS SequencesExt

CONSTANTS
  MAX_TASKS,    \* slots of task_table
  TIME_SLICE,   \* ticks a task is given
  UserSpaces,   \* physical addresses of user PML4s; 0 stands for the kernel's
  SCE,          \* IA32_EFER.SCE as the firmware left it: no code here sets it
  UserOps       \* what the loaded user programs do: SYSCALLs and exceptions

AllUserOps == {"exit", "yield", "other", "exception"}

ASSUME TaskAssumption ==
  /\ MAX_TASKS \in Nat /\ MAX_TASKS >= 2
  /\ TIME_SLICE \in Nat \ {0}
  /\ SCE \in BOOLEAN
  /\ UserOps \subseteq AllUserOps

Slots == 0 .. MAX_TASKS - 1
Boot  == 0               \* kernel_main's own context
Idle  == 1               \* idle_entry
KernelSpace == 0         \* the PML4 of paging_init
Spaces == UserSpaces \cup {KernelSpace}
NoTask == MAX_TASKS      \* TSS.RSP0 before anybody sets it
Irqs == {0, 1}           \* PIT and PS/2 keyboard

(* The stretches of enter_user_mode, named for what they are about to do;  *)
(* "torn" is the last one after an interrupt that did not leave r10 and r11*)
(* as they were, and "wild" the ring 3 it leads to.                        *)
EnterUserMode == {"rsp0", "cr3", "iret", "torn"}
(* Where a task executes when it is not inside a handler.                  *)
Outside == {"kernel", "user", "wild"} \cup EnterUserMode
(* "boot" is kernel_main before its sti; "isr" and "sys" are a handler      *)
(* that called schedule and, when control comes back, only has to return.  *)
Locs == Outside \cup {"boot", "isr", "sys"}

VARIABLES
  state,         \* task_t.state of every slot
  pid, next_pid,
  ring,          \* task_t.ring
  cr3,           \* task_t.cr3, 0 for the kernel's page tables
  kernel_stack,  \* has the slot a stack from kmalloc (TRUE) or NULL
  time_slice,
  ready,         \* the READY list, ready_head first
  current_task,
  loc,           \* where each task executes, or will when switched to
  frame,         \* where the interrupt frame on a task's stack returns to
  saved_if,      \* RFLAGS.IF that context_switch will pop for a task
  intr,          \* RFLAGS.IF of the CPU
  rsp0,          \* TSS.RSP0: the slot whose kernel stack top it is
  cr3_reg,       \* register CR3
  irr, isr,      \* PIC: requested and in-service interrupts
  mode           \* "up", or how the machine stopped

tcb  == <<pid, next_pid, ring, cr3, kernel_stack>>
pic  == <<irr, isr>>
sched == <<state, time_slice, ready, current_task>>
vars == <<state, pid, next_pid, ring, cr3, kernel_stack, time_slice, ready,
          current_task, loc, frame, saved_if, intr, rsp0, cr3_reg,
          irr, isr, mode>>

Modes == {"up", "panic", "unmapped", "badframe"}

(* RFLAGS in the frame a new task starts from: 0x200, IF set.              *)
MutFreshFlags == FALSE
FreshFlags == TRUE

(***************************************************************************)
(* kinit_task.  Nothing checks the kmalloc of the idle stack: with a NULL   *)
(* result the idle task runs on the identity-mapped 8 KiB at address 0.    *)
(***************************************************************************)
Init ==
  /\ state = [t \in Slots |-> IF t = Boot THEN "RUNNING"
                              ELSE IF t = Idle THEN "READY" ELSE "DEAD"]
  /\ pid = [t \in Slots |-> IF t \in {Boot, Idle} THEN t + 1 ELSE 0]
  /\ next_pid = 3
  /\ ring = [t \in Slots |-> 0]
  /\ cr3 = [t \in Slots |-> 0]
  /\ \E got \in BOOLEAN :
       kernel_stack = [t \in Slots |-> t = Idle /\ got]
  /\ time_slice = [t \in Slots |-> IF t \in {Boot, Idle} THEN TIME_SLICE ELSE 0]
  /\ ready = <<Idle>>
  /\ current_task = Boot
  /\ loc = [t \in Slots |-> IF t = Boot THEN "boot" ELSE "kernel"]
  /\ frame = [t \in Slots |-> "none"]
  /\ saved_if = [t \in Slots |-> t = Idle /\ FreshFlags]
  /\ intr = FALSE
  /\ rsp0 = NoTask
  /\ cr3_reg = KernelSpace
  /\ irr = {} /\ isr = {}
  /\ mode = "up"

Up == mode = "up"
At(l) == Up /\ loc[current_task] = l
Ring3 == At("user") \/ At("wild")

(* The READY list as a sequence; module ReadyList has its pointers.        *)
MutAddAtHead(list, t) == <<t>> \o list
ready_list_add(list, t) == Append(list, t)
MutPopKeepsHead(list) == list
ready_list_pop(list) == Tail(list)

MutRsp0NotSet(t) == rsp0
tss_set_rsp0(t) == t

(***************************************************************************)
(* task_create and task_create_user, called by kernel_main before its sti. *)
(* The failures (no DEAD slot, kmalloc returns NULL) change nothing.       *)
(***************************************************************************)
FreeSlot(t) ==
  /\ state[t] = "DEAD"
  /\ \A u \in Slots : u < t => state[u] # "DEAD"

Create(t, r, space, entry) ==
  /\ At("boot")
  /\ FreeSlot(t)
  /\ pid' = [pid EXCEPT ![t] = next_pid]
  /\ next_pid' = next_pid + 1
  /\ state' = [state EXCEPT ![t] = "READY"]
  /\ kernel_stack' = [kernel_stack EXCEPT ![t] = TRUE]
  /\ time_slice' = [time_slice EXCEPT ![t] = TIME_SLICE]
  /\ ring' = [ring EXCEPT ![t] = r]
  /\ cr3' = [cr3 EXCEPT ![t] = space]
  /\ loc' = [loc EXCEPT ![t] = entry]
  /\ saved_if' = [saved_if EXCEPT ![t] = FreshFlags]
  /\ ready' = ready_list_add(ready, t)
  /\ UNCHANGED <<current_task, frame, intr, rsp0, cr3_reg, irr, isr,
                 mode>>

task_create(t) == Create(t, 0, 0, "kernel")
task_create_user(t, space) == Create(t, 3, space, "rsp0")

(* kernel_main's sti: the boot task becomes the keyboard echo loop.        *)
Sti ==
  /\ At("boot")
  /\ loc' = [loc EXCEPT ![Boot] = "kernel"]
  /\ intr' = TRUE
  /\ UNCHANGED <<sched, tcb, frame, saved_if, rsp0, cr3_reg, pic, mode>>

(***************************************************************************)
(* The 8259: a request is delivered when it is the most urgent one and      *)
(* nothing as urgent is in service; the non-specific end-of-interrupt       *)
(* command retires the most urgent interrupt in service, if there is one.  *)
(***************************************************************************)
Deliverable(i) ==
  /\ Up /\ intr
  /\ i \in irr
  /\ \A j \in irr : i <= j
  /\ \A j \in isr : i < j

pic_send_eoi(serving) == {i \in serving : \E j \in serving : j < i}

PitTick ==
  /\ Up /\ 0 \notin irr
  /\ irr' = irr \cup {0}
  /\ UNCHANGED <<sched, tcb, loc, frame, saved_if, intr, rsp0, cr3_reg, isr, mode>>

KeyPress ==
  /\ Up /\ 1 \notin irr
  /\ irr' = irr \cup {1}
  /\ UNCHANGED <<sched, tcb, loc, frame, saved_if, intr, rsp0, cr3_reg, isr, mode>>

(***************************************************************************)
(* schedule and context_switch.  schedule never loads CR3, and a user PML4 *)
(* holds the higher half only: a stack that is not from kmalloc is not     *)
(* mapped there, and popping from it ends the machine.                     *)
(***************************************************************************)
Mapped(t) == cr3_reg = KernelSpace \/ kernel_stack[t]

context_switch(old, next) ==
  /\ saved_if' = [saved_if EXCEPT ![old] = FALSE]
  /\ intr' = (Mapped(next) /\ saved_if[next])
  /\ mode' = IF Mapped(next) THEN mode ELSE "unmapped"

schedule(st) ==
  IF ready = <<>>
  THEN /\ state' = st
       /\ intr' = FALSE
       /\ UNCHANGED <<ready, time_slice, current_task, rsp0, saved_if, mode>>
  ELSE LET old == current_task
           next == Head(ready)
           alive == st[old] = "RUNNING"
       IN  /\ ready' = IF alive THEN ready_list_add(ready_list_pop(ready), old)
                       ELSE ready_list_pop(ready)
           /\ state' = [st EXCEPT ![old] = IF alive THEN "READY" ELSE @,
                                  ![next] = "RUNNING"]
           /\ time_slice' = [time_slice EXCEPT
                               ![old] = IF alive THEN TIME_SLICE ELSE @,
                               ![next] = TIME_SLICE]
           /\ current_task' = next
           /\ rsp0' = IF ring[next] = 3 THEN tss_set_rsp0(next) ELSE rsp0
           /\ context_switch(old, next)

(* timer_irq_handler's EOI, sent before schedule.                          *)
MutEoiAfterSwitch(serving) == serving
EoiBeforeSwitch(serving) == pic_send_eoi(serving)

(* Where an interrupted task goes on.  isr_common_stub saves neither r10   *)
(* nor r11, and the C code of a handler may or may not use them: when they *)
(* held what enter_user_mode needs, it may be lost.                        *)
isr_common_stub(l) == IF l = "iret" THEN {"iret", "torn"} ELSE {l}

(* What the CPU pushes for iretq.                                          *)
MutNoFrame(back) == frame
PushFrame(back) == [frame EXCEPT ![current_task] = back]

(* IRQ 0: stub, isr_handler_c, timer_irq_handler up to the switch.         *)
TimerIrq ==
  /\ Deliverable(0)
  /\ irr' = irr \ {0}
  /\ isr' = EoiBeforeSwitch(isr \cup {0})
  /\ \E back \in isr_common_stub(loc[current_task]) : frame' = PushFrame(back)
  /\ loc' = [loc EXCEPT ![current_task] = "isr"]
  /\ schedule(state)
  /\ UNCHANGED <<tcb, cr3_reg>>

(* The rest of isr_handler_c once a task is switched back to: its own EOI, *)
(* the stub's epilogue and iretq.                                          *)
IsrReturn ==
  /\ At("isr")
  /\ isr' = pic_send_eoi(isr)
  /\ loc' = [loc EXCEPT ![current_task] = frame[current_task]]
  /\ frame' = [frame EXCEPT ![current_task] = "none"]
  /\ intr' = TRUE
  /\ UNCHANGED <<sched, tcb, saved_if, rsp0, cr3_reg, irr, mode>>

(* IRQ 1: the keyboard handler (module Keyboard) does not switch.          *)
KeyboardIrq ==
  /\ Deliverable(1)
  /\ irr' = irr \ {1}
  /\ isr' = pic_send_eoi(isr \cup {1})
  /\ \E back \in isr_common_stub(loc[current_task]) : loc' = [loc EXCEPT ![current_task] = back]
  /\ UNCHANGED <<sched, tcb, frame, saved_if, intr, rsp0, cr3_reg, mode>>

(***************************************************************************)
(* enter_user_mode: TSS.RSP0, CR3, and the iretq frame for ring 3.         *)
(***************************************************************************)
EnterRsp0 ==
  /\ At("rsp0")
  /\ rsp0' = IF kernel_stack[current_task] THEN tss_set_rsp0(current_task) ELSE rsp0
  /\ loc' = [loc EXCEPT ![current_task] = "cr3"]
  /\ UNCHANGED <<sched, tcb, frame, saved_if, intr, cr3_reg, pic, mode>>

EnterCr3 ==
  /\ At("cr3")
  /\ cr3_reg' = IF cr3[current_task] # 0 THEN cr3[current_task] ELSE cr3_reg
  /\ loc' = [loc EXCEPT ![current_task] = "iret"]
  /\ UNCHANGED <<sched, tcb, frame, saved_if, intr, rsp0, pic, mode>>

EnterIret ==
  /\ At("iret")
  /\ loc' = [loc EXCEPT ![current_task] = "user"]
  /\ UNCHANGED <<sched, tcb, frame, saved_if, intr, rsp0, cr3_reg, pic, mode>>

(* With r10 and r11 lost, iretq loads any RSP and any RFLAGS.              *)
EnterTorn ==
  /\ At("torn")
  /\ loc' = [loc EXCEPT ![current_task] = "wild"]
  /\ intr' \in BOOLEAN
  /\ UNCHANGED <<sched, tcb, frame, saved_if, rsp0, cr3_reg, pic, mode>>

(***************************************************************************)
(* Ring 3.  SYSCALL without EFER.SCE is an invalid opcode.  With it,        *)
(* syscall_entry takes the stack from TSS.RSP0 and dispatches with IF       *)
(* clear.  Its epilogue pops the general registers from where the iretq    *)
(* frame lies, so no system call returns to its caller.  A task that is    *)
(* there with a wrong RSP goes on like any other, or faults.               *)
(***************************************************************************)
Stop(m) ==
  /\ mode' = m
  /\ intr' = FALSE
  /\ UNCHANGED <<sched, tcb, loc, frame, saved_if, rsp0, cr3_reg, pic>>

Syscall(op) == Ring3 /\ op \in UserOps /\ SCE

SyscallEntered ==
  /\ loc' = [loc EXCEPT ![current_task] = "sys"]
  /\ UNCHANGED <<tcb, frame, cr3_reg, pic>>

sys_exit ==
  /\ Syscall("exit")
  /\ SyscallEntered
  /\ schedule([state EXCEPT ![current_task] = "DEAD"])

sys_yield ==
  /\ Syscall("yield")
  /\ SyscallEntered
  /\ schedule(state)

(* sys_write, sys_getpid, sys_sbrk, sys_test and unknown numbers.          *)
sys_other ==
  /\ Syscall("other")
  /\ SyscallEntered
  /\ intr' = FALSE
  /\ UNCHANGED <<sched, saved_if, rsp0, mode>>

syscall_return == At("sys") /\ Stop("badframe")

(* isr_handler_c halts the machine on every CPU exception.                 *)
Raising == IF SCE THEN {"exception"} ELSE AllUserOps

Exception ==
  /\ Ring3
  /\ UserOps \cap Raising # {} \/ At("wild")
  /\ Stop("panic")

Halted == ~Up /\ UNCHANGED vars

(* A task runs its own code: idle_entry's hlt loop, a thread, the program. *)
Compute == Up /\ loc[current_task] \in {"kernel", "user", "wild"} /\ UNCHANGED vars

Enter == EnterRsp0 \/ EnterCr3 \/ EnterIret \/ EnterTorn

Next ==
  \/ \E t \in Slots : task_create(t)
  \/ \E t \in Slots, space \in Spaces : task_create_user(t, space)
  \/ Sti
  \/ PitTick \/ KeyPress
  \/ TimerIrq \/ IsrReturn \/ KeyboardIrq
  \/ Enter
  \/ sys_exit \/ sys_yield \/ sys_other \/ syscall_return \/ Exception
  \/ Compute \/ Halted

Spec == Init /\ [][Next]_vars

(***************************************************************************)
(* Fairness.  kernel_main is straight-line code up to its sti; the PIT     *)
(* keeps ticking; the CPU executes and takes deliverable interrupts.  A    *)
(* handler takes microseconds of a 10 ms tick: it cannot be that every     *)
(* handler returns into the next tick, nor that ticks overtake a           *)
(* deliverable key for ever (the two strong fairness conditions).          *)
(***************************************************************************)
Fairness ==
  /\ WF_vars(Sti) /\ WF_vars(PitTick) /\ WF_vars(TimerIrq)
  /\ WF_vars(IsrReturn) /\ WF_vars(syscall_return)
  /\ SF_vars(IsrReturn /\ 0 \notin irr)
  /\ SF_vars(KeyboardIrq)

FairSpec == Spec /\ Fairness

-----------------------------------------------------------------------------
(* Every variable has its type.                                            *)
TypeOK ==
  /\ state \in [Slots -> {"DEAD", "READY", "RUNNING", "BLOCKED"}]
  /\ pid \in [Slots -> Nat] /\ next_pid \in Nat
  /\ ring \in [Slots -> {0, 3}]
  /\ cr3 \in [Slots -> Spaces]
  /\ kernel_stack \in [Slots -> BOOLEAN]
  /\ time_slice \in [Slots -> Nat]
  /\ ready \in Seq(Slots)
  /\ current_task \in Slots
  /\ loc \in [Slots -> Locs]
  /\ frame \in [Slots -> Outside \cup {"none"}]
  /\ saved_if \in [Slots -> BOOLEAN]
  /\ intr \in BOOLEAN
  /\ rsp0 \in Slots \cup {NoTask}
  /\ cr3_reg \in Spaces
  /\ irr \subseteq Irqs /\ isr \subseteq Irqs
  /\ mode \in Modes

(* The READY list and the state fields agree, through creation, preemption,*)
(* sys_yield and sys_exit in any order: the list holds every READY task    *)
(* once and nobody else, and the RUNNING task is current_task alone.  A    *)
(* task lost from the list would never run again, one listed twice would   *)
(* be switched to while it runs, and a sys_exit that found nobody to       *)
(* switch to would go on as a DEAD current_task.                           *)
ReadyExact ==
  /\ IsInjective(ready)
  /\ \A t \in Slots : state[t] = "READY" <=> Contains(ready, t)
  /\ \A t \in Slots : state[t] = "RUNNING" <=> t = current_task

(* An interrupt or SYSCALL from ring 3 lands on the running task's own     *)
(* kernel stack, whichever tasks schedule and enter_user_mode left TSS.RSP0*)
(* to in between.                                                          *)
Rsp0Own == Ring3 => rsp0 = current_task

(* Interrupts are on exactly while a task executes outside a handler: the  *)
(* flags context_switch pops for a fresh task, and the ones iretq pops for *)
(* a preempted one, are never those of another task.  The one way to run   *)
(* with a flag that nobody chose is to be interrupted in enter_user_mode   *)
(* while r11 holds it, and even then the flag goes no further than the     *)
(* task: the next one switched to has its own.                             *)
Preemptible == Up /\ ~At("wild") => (intr <=> loc[current_task] \in Outside)

(* The PIC never holds back an interrupt from a CPU that accepts them:     *)
(* timer_irq_handler ends the interrupt before it switches, and the second *)
(* EOI, sent by isr_handler_c whenever the preempted task comes back, never*)
(* retires an interrupt that is still being served.                        *)
NothingInService == Up /\ intr => isr = {}

(* Ring 3 with IF clear, which usermode.s:72 means to exclude: nothing but *)
(* the program itself can end its turn.                                    *)
Deaf == At("wild") /\ ~intr

(* Round robin starves nobody: a READY task runs, unless the machine stops *)
(* or a program got into ring 3 with interrupts off.                       *)
StarvationFree ==
  \A t \in Slots : state[t] = "READY" ~> (state[t] = "RUNNING" \/ ~Up \/ Deaf)

(* A key press reaches the keyboard handler, with the same exceptions.     *)
KeyServed == 1 \in irr ~> (1 \notin irr \/ ~Up \/ Deaf)

(* The scheduler implements RoundRobin: strict first-in first-out turns,   *)
(* whatever interrupt or system call causes a switch, and an exited task   *)
(* never comes back.                                                       *)
Exited == {t \in Slots : state[t] = "DEAD" /\ pid[t] # 0}
RR == INSTANCE RoundRobin WITH Tasks <- Slots, running <- current_task,
                               queue <- ready, exited <- Exited
ImplementsRoundRobin == RR!Spec

(* The stack of the task that executes is mapped in the loaded page tables:*)
(* paging.h offers the kernel CR3 for the switch to a kernel task.         *)
StackMapped == Mapped(current_task)
=============================================================================
