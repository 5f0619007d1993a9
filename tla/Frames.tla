------------------------------- MODULE Frames -------------------------------
(***************************************************************************)
(* Registers and kernel stacks, word by word: what the CPU and the stubs   *)
(* of isr_asm.s push, what isr_handler_c reads from it, what context_switch*)
(* saves and loads, the frames task.c makes by hand for new tasks, and the *)
(* two ways between ring 0 and ring 3 in usermode.s.  Module Task decides  *)
(* who runs next; here any other task may be.                              *)
(*                                                                         *)
(* A word is a tuple.  The registers of a task in its own code hold words  *)
(* of that task, renewed whenever it works, so that a word that is stale,  *)
(* misplaced or somebody else's is told apart.  A stack is a sequence, the *)
(* word at RSP first.  RIP tells where the CPU is.                         *)
(***************************************************************************)
EXTENDS SequencesExt

CONSTANTS
  Boot, Threads, UserTasks,
  Raised,        \* vectors of the exceptions user programs raise
  Syscalls       \* what user programs ask: "exit", "yield", "other"

Tasks == {Boot} \cup Threads \cup UserTasks

(* boot.s sets CR4.PAE, EFER.LME and CR0.PG and no other feature, so that  *)
(* the CPU raises no alignment check (CR0.AM), no control protection fault *)
(* (CR4.CET) and none of the faults of virtualization.                     *)
ASSUME FramesAssumption ==
  /\ Boot \notin Threads \cup UserTasks /\ Threads \cap UserTasks = {}
  /\ Raised \subseteq (0 .. 31) \ {17, 21, 29, 30}
  /\ Syscalls \subseteq {"exit", "yield", "other"}

VARIABLES
  stack,         \* the kernel stack of each task
  cpu,           \* the registers
  current_task,
  turn,          \* counts, modulo 2, how often a task has worked
  dead,
  raised,        \* the interrupt that was raised last, as the CPU saw it
  seen,          \* ... and as isr_handler_c reads it
  mode           \* "up", or how the machine stopped

vars == <<stack, cpu, current_task, turn, dead, raised, seen, mode>>

-----------------------------------------------------------------------------
Num(n) == <<"num", n>>
Zero   == Num(0)
On     == <<"flags on">>       \* RFLAGS 0x200
Off    == <<"flags off">>
CLeft  == <<"c">>              \* what C code leaves in a register
KCode  == <<"kernel cs">>
KData  == <<"kernel ss">>
UCode  == <<"user cs">>
UData  == <<"user ss">>
entry  == <<"entry">>          \* places in the kernel
enter_user_mode == <<"enter_user_mode">>
InIret == <<"iret">>           \* in enter_user_mode, r9 to r11 loaded
InIsr  == <<"isr">>            \* in isr_handler_c, after the handler
InSys  == <<"sys">>            \* in syscall_entry, after the dispatcher
KernelPlaces == {entry, enter_user_mode, InIret, InIsr, InSys}

CalleeSaved == {"rbx", "rbp", "r12", "r13", "r14", "r15"}
Gprs == CalleeSaved \cup {"rdi", "rsi", "rdx", "rcx", "rax", "r8", "r9", "r10", "r11"}
Regs == Gprs \cup {"rip", "cs", "rflags", "rsp", "ss"}

(* The registers a task has in its own code, and its kernel stack there.   *)
(* Nobody gives it back its r10 and r11, so they are no words of its own.  *)
user_rip(t) == <<"user_rip", t>>
user_rsp(t) == <<"user_rsp", t>>
OwnRegs(t, n) ==
  [r \in Regs |-> CASE r = "cs" -> IF t \in UserTasks THEN UCode ELSE KCode
                    [] r = "ss" -> IF t \in UserTasks THEN UData ELSE KData
                    [] r \in {"r10", "r11"} -> CLeft
                    [] OTHER -> <<r, t, n>>]
Own == OwnRegs(current_task, turn[current_task])
OwnStack(t) == IF t \in UserTasks THEN <<>> ELSE <<<<"locals", t>>>>

Ring3 == cpu.cs = UCode
InOwnCode == cpu.rip \notin KernelPlaces /\ cpu.rip # user_rip(current_task)

(* Words pushed one after the other; registers popped in a given order.    *)
Push(s, words) == Reverse(words) \o s
Pop(s, n) == SubSeq(s, n + 1, Len(s))
Words(r, order) == [i \in DOMAIN order |-> r[order[i]]]
Loaded(r, s, order) ==
  [q \in Regs |-> IF \E i \in DOMAIN order : order[i] = q
                  THEN s[CHOOSE i \in DOMAIN order : order[i] = q] ELSE r[q]]

-----------------------------------------------------------------------------
(* The order of pushes in isr_common_stub, which leaves out r10 and r11,   *)
(* and in context_switch; both pop in reverse.                             *)
IsrPushes == <<"rdi", "rsi", "rdx", "rcx", "rax", "r8", "r9",
               "rbx", "rbp", "r12", "r13", "r14", "r15">>
MutIsrPops == <<"r15", "r14", "r13", "r12", "rbx", "rbp", "r9",
                "r8", "rax", "rcx", "rdx", "rsi", "rdi">>
IsrPops == <<"r15", "r14", "r13", "r12", "rbp", "rbx", "r9",
             "r8", "rax", "rcx", "rdx", "rsi", "rdi">>
SwitchPushes == <<"rflags", "rbp", "rbx", "r12", "r13", "r14", "r15">>
SwitchPops == <<"r15", "r14", "r13", "r12", "rbx", "rbp", "rflags">>

(* The stack task_create and its like make for a new task.                 *)
FreshFrame(start) == Push(<<>>, <<start, On, Zero, Zero, Zero, Zero, Zero, Zero>>)

(* After kernel_main's sti: the boot task runs, the others are new.        *)
Init ==
  /\ turn = [t \in Tasks |-> 0]
  /\ stack = [t \in Tasks |-> IF t = Boot THEN OwnStack(Boot)
                              ELSE FreshFrame(IF t \in UserTasks THEN enter_user_mode ELSE entry)]
  /\ cpu = OwnRegs(Boot, 0)
  /\ current_task = Boot
  /\ dead = {}
  /\ raised = <<>> /\ seen = <<>>
  /\ mode = "up"

(* A task runs its own code.                                               *)
Work ==
  /\ mode = "up"
  /\ InOwnCode \/ cpu.rip \in {entry, user_rip(current_task)}
  /\ turn' = [turn EXCEPT ![current_task] = 1 - @]
  /\ cpu' = OwnRegs(current_task, 1 - turn[current_task])
  /\ stack' = [stack EXCEPT ![current_task] = OwnStack(current_task)]
  /\ raised' = <<>> /\ seen' = <<>>
  /\ UNCHANGED <<current_task, dead, mode>>

(* C code called by the stubs keeps the callee-saved registers; r10 and r11*)
(* it may or may not leave alone.                                          *)
AfterC(r, kept) == [q \in Regs |-> IF q \in CalleeSaved \cup kept THEN r[q] ELSE CLeft]
Untouched == SUBSET {"r10", "r11"}

(* iretq from stack s.  RSP is a word of the user's, or a depth of s.      *)
iretq(r, s) == Loaded(r, s, <<"rip", "cs", "rflags", "rsp", "ss">>)
AfterIretq(s) ==
  IF s[2] = UCode THEN <<>> ELSE SubSeq(s, Len(s) - s[4][2] + 1, Len(s))

-----------------------------------------------------------------------------
(* Interrupts.  The CPU pushes five words, on the stack TSS.RSP0 names if  *)
(* it comes from ring 3, and an error code for some exceptions; the stub   *)
(* pushes a 0 where it expects none, the vector, and the registers.        *)
CpuPushesCode == {8} \cup 10 .. 14 \cup {17, 21, 29, 30}
MutErrCode == {8, 10, 11, 13, 14}
ISR_ERRCODE == {8, 10, 11, 12, 13, 14}

Base == IF Ring3 THEN <<>> ELSE stack[current_task]
Rsp  == IF Ring3 THEN cpu.rsp ELSE <<"depth", Len(Base)>>
CpuFrame(v) ==
  Push(Base, <<cpu.ss, Rsp, cpu.rflags, cpu.cs, cpu.rip>>
             \o IF v \in CpuPushesCode THEN <<<<"code">>>> ELSE <<>>)
isr_common_stub(v) ==
  Push(CpuFrame(v), (IF v \in ISR_ERRCODE THEN <<Num(v)>> ELSE <<Zero, Num(v)>>)
                    \o Words(cpu, IsrPushes))

(* What the CPU saw, and what isr_handler_c reads: sp[13] to sp[19].       *)
Fact(v) == <<Num(v), IF v \in CpuPushesCode THEN <<"code">> ELSE Zero,
             cpu.rip, cpu.cs, cpu.rflags, Rsp, cpu.ss>>
ReadFrame(s) == [i \in 1 .. 7 |-> s[13 + i]]

(* A gate of type 0x8E clears IF; 32 exceptions and 16 IRQs have one.      *)
MutTrapGate == cpu.rflags
GateFlags == Off

(* In the handler, before context_switch or the epilogue.                  *)
InHandler(place, kept) ==
  [AfterC(cpu, kept) EXCEPT !.rip = place, !.cs = KCode, !.ss = KData, !.rflags = GateFlags]

(* context_switch from a handler whose registers are r and stack is s.     *)
context_switch(next, r, s) ==
  /\ stack' = [stack EXCEPT ![current_task] = Push(s, <<r.rip>> \o Words(r, SwitchPushes)),
                            ![next] = Pop(stack[next], 8)]
  /\ cpu' = [Loaded(r, stack[next], SwitchPops) EXCEPT !.rip = stack[next][8]]
  /\ current_task' = next

(* schedule, from the handler at place.                                    *)
schedule(place, s) ==
  \E next \in Tasks \ (dead' \cup {current_task}), kept \in Untouched :
    context_switch(next, InHandler(place, kept), s)

Stay(place, s) ==
  /\ \E kept \in Untouched : cpu' = InHandler(place, kept)
  /\ stack' = [stack EXCEPT ![current_task] = s]
  /\ UNCHANGED current_task

(* IRQs: the timer's handler calls schedule; the keyboard's and those with *)
(* no handler do not.  Flags that are neither On nor Off are not known to  *)
(* be either: the interrupt may come or not.                               *)
Interrupt(v) ==
  LET s == isr_common_stub(v)
  IN  /\ mode = "up" /\ cpu.rflags # Off
      /\ raised' = Fact(v)
      /\ seen' = ReadFrame(s)
      /\ UNCHANGED <<turn, dead, mode>>
      /\ IF s[14] = Num(32) THEN schedule(InIsr, s) ELSE Stay(InIsr, s)

(* The epilogue of isr_common_stub.                                        *)
IsrReturn ==
  LET s == stack[current_task]
      rest == Pop(s, Len(IsrPops) + 2)
  IN  /\ mode = "up" /\ cpu.rip = InIsr
      /\ cpu' = iretq(Loaded(cpu, s, IsrPops), rest)
      /\ stack' = [stack EXCEPT ![current_task] = AfterIretq(rest)]
      /\ UNCHANGED <<current_task, turn, dead, raised, seen, mode>>

(* Exceptions of user programs.  kinit_idt gives three of them a stack of  *)
(* their own; ist_alloc got no frame (module Pmm), so its top is 0 and the *)
(* CPU can push nothing there: it resets.  For the others isr_handler_c    *)
(* reports what it reads and halts.                                        *)
OwnIst == {8, 13, 14}

Exception(v) ==
  /\ mode = "up" /\ Ring3
  /\ raised' = Fact(v)
  /\ IF v \in OwnIst
     THEN seen' = <<>> /\ mode' = "reset"
     ELSE seen' = ReadFrame(isr_common_stub(v)) /\ mode' = "panic"
  /\ UNCHANGED <<stack, cpu, current_task, turn, dead>>

-----------------------------------------------------------------------------
(* enter_user_mode: the user's RIP, RSP and RFLAGS go to r9, r10 and r11   *)
(* and, with interrupts still on, to the frame for iretq.  What an         *)
(* interrupt in between makes of r10 and r11 is what ring 3 gets for RSP   *)
(* and RFLAGS.                                                             *)
EnterRegs ==
  /\ mode = "up" /\ cpu.rip = enter_user_mode
  /\ cpu' = [cpu EXCEPT !.r9 = user_rip(current_task), !.r10 = user_rsp(current_task),
                        !.r11 = On, !.rip = InIret]
  /\ UNCHANGED <<stack, current_task, turn, dead, raised, seen, mode>>

EnterIret ==
  LET s == Push(stack[current_task], <<UData, cpu.r10, cpu.r11, UCode, cpu.r9>>)
  IN  /\ mode = "up" /\ cpu.rip = InIret
      /\ cpu' = iretq(cpu, s)
      /\ stack' = [stack EXCEPT ![current_task] = AfterIretq(s)]
      /\ UNCHANGED <<current_task, turn, dead, raised, seen, mode>>

(* SYSCALL and syscall_entry: the frame it makes, from the user's registers*)
(* saved on the user stack, has the iretq words on top.                    *)
syscall_entry ==
  LET r == [cpu EXCEPT !.rcx = cpu.rip, !.r11 = cpu.rflags]     \* SYSCALL
  IN  Push(<<>>, Words(r, Reverse(IsrPushes)) \o <<Num(128), Zero>>
                 \o <<r.rcx, UCode, r.r11, r.rsp, UData>>)

(* task_exit, for the system call that asks for it, ends the current task. *)
Exiting(op) == IF op = "exit" THEN {current_task} ELSE {}

Syscall(op) ==
  LET s == syscall_entry
  IN  /\ mode = "up" /\ Ring3 /\ InOwnCode
      /\ dead' = dead \cup Exiting(op)
      /\ IF op \in {"exit", "yield"} THEN schedule(InSys, s) ELSE Stay(InSys, s)
      /\ UNCHANGED <<turn, raised, seen, mode>>

(* The epilogue: the result goes to 0x78(%rsp), thirteen registers are     *)
(* popped, two words skipped, and iretq takes what follows.                *)
Result == <<"result">>
syscall_return ==
  LET s == [stack[current_task] EXCEPT ![16] = Result]
  IN  /\ mode = "up" /\ cpu.rip = InSys
      /\ cpu' = iretq(Loaded([cpu EXCEPT !.rax = Result], s, IsrPops), Pop(s, 15))
      /\ mode' = "returned"
      /\ UNCHANGED <<stack, current_task, turn, dead, raised, seen>>

Halted == mode # "up" /\ UNCHANGED vars

Irqs == {32, 33, 39}       \* timer, keyboard, spurious

Next ==
  \/ Work
  \/ \E v \in Irqs : Interrupt(v)
  \/ IsrReturn
  \/ \E v \in Raised : Exception(v)
  \/ EnterRegs \/ EnterIret
  \/ \E op \in Syscalls : Syscall(op)
  \/ syscall_return
  \/ Halted

Spec == Init /\ [][Next]_vars

-----------------------------------------------------------------------------
(* Every variable has its type.                                            *)
TypeOK ==
  /\ DOMAIN stack = Tasks /\ DOMAIN cpu = Regs
  /\ current_task \in Tasks /\ dead \subseteq UserTasks
  /\ turn \in [Tasks -> {0, 1}]
  /\ mode \in {"up", "panic", "reset", "returned"}

(* A task that is in its own code has every register, r10 and r11 excepted,*)
(* and the stack that it last had there, after any number of interrupts,   *)
(* switches and first runs of others: switch.s promises that it resumes    *)
(* exactly where it was preempted.  A new task starts at its entry, its    *)
(* hand-made frame used up to the last word.                               *)
Resumes ==
  mode = "up" =>
    /\ InOwnCode =>
         /\ \A r \in Regs \ {"r10", "r11", "rsp"} : cpu[r] = Own[r]
         /\ Ring3 => cpu.rsp = Own.rsp
         /\ stack[current_task] = OwnStack(current_task)
    /\ cpu.rip = entry => current_task \in Threads /\ stack[current_task] = <<>>
    /\ cpu.rip \in {enter_user_mode, InIret} =>
         /\ current_task \in UserTasks /\ stack[current_task] = <<>>
         /\ cpu.rip = InIret => cpu.r9 = user_rip(current_task)

(* isr_handler_c reads the interrupt that was raised: its vector decides   *)
(* which handler runs, and the panic report shows the vector, error code   *)
(* and registers of the fault, unless the fault reset the machine.         *)
HandledAsRaised == mode # "reset" => seen = raised

(* Handlers do not nest: a kernel stack never holds more than the words of *)
(* one interrupt or system call and one switch, on top of its task's own.  *)
StackBounded == TypeOK /\ \A t \in Tasks : Len(stack[t]) <= 1 + 20 + 8

(* A system call comes back to its caller with the result in rax and the   *)
(* other registers it preserves: usermode.s says it writes the return value*)
(* into the frame and does iretq.                                          *)
SyscallReturns ==
  mode = "returned" =>
    /\ cpu.rax = Result
    /\ \A r \in {"rip", "cs", "rsp", "ss"} \cup CalleeSaved : cpu[r] = Own[r]
=============================================================================
