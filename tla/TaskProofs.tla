----------------------------- MODULE TaskProofs -----------------------------
(***************************************************************************)
(* What TLC checks of Task on five slots, proved for every number of slots,*)
(* every set of user address spaces and every kind of user program: the    *)
(* safety invariants, and that Task implements RoundRobin.                 *)
(***************************************************************************)
EXTENDS Task, DataLemmas, TLAPS

(***************************************************************************)
(* The inductive invariant.  ReadyExact alone is not inductive: that       *)
(* sys_exit finds somebody to switch to rests on the boot and idle tasks   *)
(* never being in ring 3, hence never exiting (Kinds), so that one of them *)
(* is always READY.  Preemptible rests on the flags saved for the tasks    *)
(* that wait (Flags), and the refinement on slots not being reused after   *)
(* an exit (Pids).                                                         *)
(***************************************************************************)
Immortal == state[Boot] \in {"READY", "RUNNING"} /\ state[Idle] \in {"READY", "RUNNING"}

Kinds ==
  /\ ring[Boot] = 0 /\ ring[Idle] = 0
  /\ \A t \in Slots : ring[t] = 0 =>
       loc[t] \in {"boot", "kernel", "isr"} /\ frame[t] \in {"kernel", "none"}
  /\ \A t \in Slots : loc[t] = "isr" => frame[t] # "none"
  /\ \A t \in Slots : loc[t] = "boot" => t = Boot /\ current_task = Boot

Flags ==
  /\ Preemptible
  /\ \A t \in Slots : state[t] = "READY" => (saved_if[t] <=> loc[t] \in Outside)

Rsp0Inv == ring[current_task] = 3 => rsp0 = current_task

Pids ==
  /\ next_pid > 0
  /\ \A t \in Slots : state[t] # "DEAD" => pid[t] # 0
  /\ \A t \in Slots : pid[t] = 0 => ring[t] = 0
  /\ loc[Boot] = "boot" => \A t \in Slots : state[t] = "DEAD" => pid[t] = 0

IInv == TypeOK /\ ReadyExact /\ Immortal /\ Kinds /\ Flags /\ Rsp0Inv /\ Pids /\ isr = {}

-----------------------------------------------------------------------------
(* One of the boot and idle tasks is always READY: schedule never finds an *)
(* empty list.                                                             *)
LEMMA ReadyNotEmpty ==
  ASSUME TypeOK, ReadyExact, Immortal
  PROVE  ready # <<>> /\ Head(ready) # current_task /\ state[Head(ready)] = "READY"
         /\ Head(ready) \in Slots
  <1>1. Boot \in Slots /\ Idle \in Slots /\ Boot # Idle
    BY TaskAssumption DEF Slots, Boot, Idle
  <1>2. state[Boot] = "READY" \/ state[Idle] = "READY"
    BY <1>1 DEF ReadyExact, Immortal
  <1>3. ready # <<>>
    BY <1>1, <1>2 DEF ReadyExact, Contains
  <1>4. Contains(ready, Head(ready)) /\ Head(ready) \in Slots
    BY <1>3, TailContains DEF TypeOK
  <1> QED BY <1>3, <1>4 DEF ReadyExact

(* What the callers of schedule pass it: the states, except that sys_exit  *)
(* has made the current task DEAD.                                         *)
Offered(st) ==
  /\ st \in [Slots -> {"DEAD", "READY", "RUNNING", "BLOCKED"}]
  /\ \A t \in Slots \ {current_task} : st[t] = state[t]
  /\ st[current_task] \in {"RUNNING", "DEAD"}

(* schedule hands the CPU to the head of the list and keeps ReadyExact.    *)
LEMMA ScheduleSwitches ==
  ASSUME TypeOK, ReadyExact, Immortal, NEW STATE st, Offered(st), schedule(st)
  PROVE  LET next == Head(ready)
             alive == st[current_task] = "RUNNING"
         IN  /\ current_task' = next
             /\ ready' = IF alive THEN Append(Tail(ready), current_task) ELSE Tail(ready)
             /\ state' = [st EXCEPT ![current_task] = IF alive THEN "READY" ELSE "DEAD",
                                    ![next] = "RUNNING"]
             /\ rsp0' = IF ring[next] = 3 THEN next ELSE rsp0
             /\ saved_if' = [saved_if EXCEPT ![current_task] = FALSE]
             /\ intr' = (Mapped(next) /\ saved_if[next])
             /\ mode' = IF Mapped(next) THEN mode ELSE "unmapped"
             /\ time_slice' \in [Slots -> Nat]
  <1>1. ready # <<>> /\ Head(ready) \in Slots /\ current_task \in Slots /\ Head(ready) # current_task
    BY ReadyNotEmpty DEF TypeOK
  <1>2. st[current_task] # "RUNNING" => st[current_task] = "DEAD"
    BY DEF Offered
  <1>3. time_slice' \in [Slots -> Nat]
    <2>1. time_slice[current_task] \in Nat /\ TIME_SLICE \in Nat
      BY <1>1, TaskAssumption DEF TypeOK
    <2>2. time_slice' = [time_slice EXCEPT
             ![current_task] = IF st[current_task] = "RUNNING" THEN TIME_SLICE
                               ELSE time_slice[current_task],
             ![Head(ready)] = TIME_SLICE]
      BY <1>1 DEF schedule
    <2> QED BY <2>1, <2>2 DEF TypeOK
  <1> QED
    BY <1>1, <1>2, <1>3 DEF schedule, context_switch, ready_list_add,
       ready_list_pop, tss_set_rsp0

(* What the rest needs of a call of schedule: the list stays exact, the    *)
(* variables keep their types, and only the old and the new task change    *)
(* state.                                                                  *)
LEMMA SchedulePreserves ==
  ASSUME TypeOK, ReadyExact, Immortal, NEW STATE st, Offered(st), schedule(st)
  PROVE  /\ ReadyExact'
         /\ state' \in [Slots -> {"DEAD", "READY", "RUNNING", "BLOCKED"}]
         /\ ready' \in Seq(Slots) /\ current_task' \in Slots
         /\ saved_if' \in [Slots -> BOOLEAN] /\ intr' \in BOOLEAN
         /\ rsp0' \in Slots \cup {NoTask} /\ mode' \in Modes
         /\ time_slice' \in [Slots -> Nat]
         /\ \A t \in Slots : state'[t] = IF t = Head(ready) THEN "RUNNING"
                                         ELSE IF t # current_task THEN state[t]
                                         ELSE IF st[t] = "RUNNING" THEN "READY" ELSE "DEAD"
  <1> DEFINE next == Head(ready)
             alive == st[current_task] = "RUNNING"
  <1>1. /\ ready # <<>> /\ next \in Slots /\ next # current_task /\ current_task \in Slots
        /\ state[next] = "READY" /\ ready \in Seq(Slots)
    BY ReadyNotEmpty DEF TypeOK
  <1>2. /\ current_task' = next
        /\ ready' = IF alive THEN Append(Tail(ready), current_task) ELSE Tail(ready)
        /\ state' = [st EXCEPT ![current_task] = IF alive THEN "READY" ELSE "DEAD",
                               ![next] = "RUNNING"]
        /\ rsp0' = IF ring[next] = 3 THEN next ELSE rsp0
        /\ saved_if' = [saved_if EXCEPT ![current_task] = FALSE]
        /\ intr' = (Mapped(next) /\ saved_if[next])
        /\ mode' = IF Mapped(next) THEN mode ELSE "unmapped"
        /\ time_slice' \in [Slots -> Nat]
    BY ScheduleSwitches
  <1>3. \A t \in Slots : state'[t] = IF t = next THEN "RUNNING"
                                     ELSE IF t # current_task THEN state[t]
                                     ELSE IF alive THEN "READY" ELSE "DEAD"
    BY <1>1, <1>2 DEF Offered
  <1>4. state' \in [Slots -> {"DEAD", "READY", "RUNNING", "BLOCKED"}]
    BY <1>1, <1>2 DEF Offered
  <1>5. /\ Tail(ready) \in Seq(Slots)
        /\ \A t : Contains(ready, t) <=> Contains(Tail(ready), t) \/ t = next
        /\ IsInjective(Tail(ready)) /\ ~Contains(Tail(ready), next)
    BY <1>1, TailContains DEF ReadyExact
  <1>6. ~Contains(ready, current_task)
    BY <1>1 DEF ReadyExact
  <1>7. /\ ready' \in Seq(Slots) /\ IsInjective(ready')
        /\ \A t : Contains(ready', t) <=> Contains(Tail(ready), t) \/ (alive /\ t = current_task)
    <2>1. CASE alive
      BY <2>1, <1>1, <1>2, <1>5, <1>6, AppendContains
    <2>2. CASE ~alive
      BY <2>2, <1>2, <1>5
    <2> QED BY <2>1, <2>2
  <1>8. \A t \in Slots : state'[t] = "READY" <=> Contains(ready', t)
    <2> SUFFICES ASSUME NEW t \in Slots
                 PROVE  state'[t] = "READY" <=> Contains(ready', t)
      OBVIOUS
    <2>1. CASE t = next
      BY <2>1, <1>1, <1>3, <1>5, <1>7
    <2>2. CASE t = current_task
      BY <2>2, <1>1, <1>3, <1>5, <1>6, <1>7
    <2>3. CASE t # next /\ t # current_task
      BY <2>3, <1>3, <1>5, <1>7 DEF ReadyExact
    <2> QED BY <2>1, <2>2, <2>3
  <1>9. \A t \in Slots : state'[t] = "RUNNING" <=> t = current_task'
    <2>1. \A t \in Slots : state[t] = "RUNNING" <=> t = current_task
      BY DEF ReadyExact
    <2>2. current_task' = next
      BY <1>2
    <2> QED BY <2>1, <2>2, <1>1, <1>3
  <1>11. ReadyExact'
    BY <1>7, <1>8, <1>9 DEF ReadyExact
  <1>12. saved_if' \in [Slots -> BOOLEAN] /\ saved_if[next] \in BOOLEAN
    BY <1>1, <1>2 DEF TypeOK
  <1>13. intr' \in BOOLEAN
    BY <1>1, <1>2, <1>12 DEF TypeOK, Mapped
  <1>14. rsp0' \in Slots \cup {NoTask} /\ mode' \in Modes
    BY <1>1, <1>2 DEF TypeOK, Modes
  <1> QED BY <1>1, <1>2, <1>3, <1>4, <1>7, <1>11, <1>12, <1>13, <1>14

-----------------------------------------------------------------------------
(* The parts of the invariant that only look at the scheduler's variables  *)
(* survive whatever leaves those alone.                                    *)
LEMMA SchedUnchanged ==
  ASSUME IInv, UNCHANGED <<sched, tcb>>
  PROVE  ReadyExact' /\ Immortal'
  BY DEF IInv, sched, tcb, ReadyExact, Immortal

(* kinit_task establishes the invariant.                                   *)
LEMMA InitIInv == Init => IInv
  <1> SUFFICES ASSUME Init PROVE IInv
    OBVIOUS
  <1>1. Boot \in Slots /\ Idle \in Slots /\ Boot # Idle /\ Boot = 0 /\ Idle = 1 /\ Slots \subseteq Nat
    BY TaskAssumption DEF Slots, Boot, Idle
  <1>2. ready \in Seq(Slots) /\ IsInjective(ready) /\ \A t \in Slots : Contains(ready, t) <=> t = Idle
    BY <1>1 DEF Init, IsInjective, Contains
  <1>3. TypeOK
    <2>1. kernel_stack \in [Slots -> BOOLEAN]
      BY DEF Init
    <2>2. pid \in [Slots -> Nat] /\ time_slice \in [Slots -> Nat] /\ next_pid \in Nat
      BY <1>1, TaskAssumption DEF Init
    <2>3. rsp0 = NoTask /\ intr = FALSE
      BY DEF Init
    <2>4. state \in [Slots -> {"DEAD", "READY", "RUNNING", "BLOCKED"}]
      BY DEF Init
    <2>5. loc \in [Slots -> Locs] /\ frame \in [Slots -> Outside \cup {"none"}]
      BY DEF Init, Locs, Outside
    <2>6. saved_if \in [Slots -> BOOLEAN]
      BY DEF Init
    <2>7. ring \in [Slots -> {0, 3}] /\ cr3 \in [Slots -> Spaces] /\ cr3_reg \in Spaces
      BY DEF Init, Spaces, KernelSpace
    <2> QED
      BY <1>1, <1>2, <2>1, <2>2, <2>3, <2>4, <2>5, <2>6, <2>7 DEF Init, TypeOK, Modes
  <1>4. ReadyExact /\ Immortal
    BY <1>1, <1>2 DEF Init, ReadyExact, Immortal
  <1>5. Kinds
    BY <1>1 DEF Init, Kinds
  <1>6. Flags
    <2>1. Preemptible
      BY <1>1 DEF Init, Preemptible, Outside, EnterUserMode
    <2>2. \A t \in Slots : state[t] = "READY" => t = Idle
      BY <1>1 DEF Init
    <2>3. saved_if[Idle] /\ loc[Idle] = "kernel"
      BY <1>1 DEF Init, FreshFlags
    <2> QED BY <2>1, <2>2, <2>3 DEF Flags, Outside
  <1>7. Rsp0Inv
    BY <1>1 DEF Init, Rsp0Inv
  <1>8. Pids
    BY <1>1 DEF Init, Pids
  <1> QED BY <1>3, <1>4, <1>5, <1>6, <1>7, <1>8 DEF IInv, Init

(* task_create and task_create_user append a slot that was DEAD.           *)
LEMMA CreateIInv ==
  ASSUME IInv, NEW t \in Slots, NEW r, NEW space \in Spaces, NEW entry,
         Create(t, r, space, entry),
         (r = 0 /\ entry = "kernel") \/ (r = 3 /\ entry = "rsp0")
  PROVE  IInv'
  <1>1. /\ state[t] = "DEAD" /\ loc[current_task] = "boot" /\ current_task = Boot
        /\ t # Boot /\ t # Idle /\ loc[Boot] = "boot" /\ current_task \in Slots
        /\ Boot \in Slots /\ Idle \in Slots
    BY TaskAssumption DEF Create, FreeSlot, At, IInv, Immortal, Kinds, TypeOK, Slots, Boot, Idle
  <1>2. ready' \in Seq(Slots) /\ IsInjective(ready')
        /\ \A u : Contains(ready', u) <=> Contains(ready, u) \/ u = t
    <2>1. ready \in Seq(Slots) /\ IsInjective(ready) /\ ~Contains(ready, t)
      BY <1>1 DEF IInv, TypeOK, ReadyExact
    <2>2. ready' = Append(ready, t)
      BY DEF Create, ready_list_add
    <2> QED BY <2>1, <2>2, AppendContains
  <1>3. /\ state' = [state EXCEPT ![t] = "READY"] /\ current_task' = current_task
        /\ loc' = [loc EXCEPT ![t] = entry] /\ saved_if' = [saved_if EXCEPT ![t] = TRUE]
        /\ ring' = [ring EXCEPT ![t] = r] /\ pid' = [pid EXCEPT ![t] = next_pid]
        /\ cr3' = [cr3 EXCEPT ![t] = space] /\ next_pid' = next_pid + 1
        /\ kernel_stack' = [kernel_stack EXCEPT ![t] = TRUE]
        /\ time_slice' = [time_slice EXCEPT ![t] = TIME_SLICE]
        /\ UNCHANGED <<frame, intr, rsp0, cr3_reg, irr, isr, mode>>
    BY DEF Create, FreshFlags
  <1>4. TypeOK'
    <2>1. entry \in Locs /\ r \in {0, 3} /\ TIME_SLICE \in Nat
      BY TaskAssumption DEF Locs, Outside, EnterUserMode
    <2> QED BY <2>1, <1>2, <1>3 DEF IInv, TypeOK
  <1>5. ReadyExact' /\ Immortal'
    BY <1>1, <1>2, <1>3 DEF IInv, TypeOK, ReadyExact, Immortal
  <1>6. frame[t] \in {"kernel", "none"} /\ ring[current_task] = 0
    BY <1>1, <1>3 DEF IInv, Kinds, Pids
  <1>7. Kinds'
    BY <1>1, <1>3, <1>6 DEF IInv, TypeOK, Kinds
  <1>8. Flags'
    <2>1. Preemptible'
      BY <1>1, <1>3 DEF IInv, Flags, Preemptible, At, Up, TypeOK
    <2>2. entry \in Outside
      BY DEF Outside, EnterUserMode
    <2> QED BY <2>1, <2>2, <1>1, <1>3 DEF IInv, TypeOK, Flags
  <1>9. Rsp0Inv'
    BY <1>1, <1>3, <1>6 DEF IInv, TypeOK, Rsp0Inv
  <1>10. Pids'
    BY <1>1, <1>3 DEF IInv, TypeOK, Pids
  <1> QED BY <1>3, <1>4, <1>5, <1>7, <1>8, <1>9, <1>10 DEF IInv

-----------------------------------------------------------------------------
(* Steps that leave the scheduler's variables and the task table alone.    *)
LEMMA QuietIInv ==
  ASSUME IInv, UNCHANGED <<sched, tcb>>, TypeOK', Kinds', Flags', Rsp0Inv', isr' = {},
         loc'[Boot] = "boot" => loc[Boot] = "boot"
  PROVE  IInv'
  <1>1. ReadyExact' /\ Immortal'
    BY SchedUnchanged
  <1>2. Pids'
    BY DEF IInv, Pids, sched, tcb
  <1> QED BY <1>1, <1>2 DEF IInv

(* kernel_main's sti preserves it.                                         *)
LEMMA StiIInv == ASSUME IInv, Sti PROVE IInv'
  <1>1. Boot \in Slots /\ current_task = Boot /\ loc[Boot] = "boot"
    BY TaskAssumption DEF IInv, Kinds, TypeOK, Sti, At, Slots, Boot
  <1>2. /\ loc' = [loc EXCEPT ![Boot] = "kernel"] /\ intr' = TRUE
        /\ UNCHANGED <<sched, tcb>>
        /\ UNCHANGED <<frame, saved_if, rsp0, cr3_reg, irr, isr, mode>>
    BY DEF Sti, pic
  <1>3. "kernel" \in Outside /\ "kernel" \in Locs
    BY DEF Outside, Locs
  <1>4. TypeOK'
    BY <1>1, <1>2, <1>3 DEF IInv, TypeOK, sched, tcb
  <1>5. Kinds'
    BY <1>1, <1>2 DEF IInv, TypeOK, Kinds, sched, tcb
  <1>6. Flags'
    <2>1. Preemptible'
      BY <1>1, <1>2, <1>3 DEF IInv, TypeOK, Preemptible, sched
    <2>2. state[Boot] # "READY"
      BY <1>1 DEF IInv, ReadyExact
    <2> QED BY <2>1, <2>2, <1>1, <1>2 DEF IInv, TypeOK, Flags, sched
  <1>7. Rsp0Inv'
    BY <1>2 DEF IInv, Rsp0Inv, sched, tcb
  <1> QED BY <1>1, <1>2, <1>4, <1>5, <1>6, <1>7, QuietIInv DEF IInv

(* The end-of-interrupt of a single interrupt leaves nothing in service.   *)
LEMMA EoiAlone ==
  /\ pic_send_eoi({}) = {}
  /\ \A i \in Irqs : pic_send_eoi({i}) = {}
  BY DEF pic_send_eoi, Irqs

(* A request that reaches the PIC preserves it.                            *)
LEMMA IrqRequestIInv == ASSUME IInv, PitTick \/ KeyPress PROVE IInv'
  <1>1. /\ UNCHANGED <<sched, tcb>> /\ irr' \subseteq Irqs
        /\ UNCHANGED <<loc, frame, saved_if, intr, rsp0, cr3_reg, isr, mode>>
    BY DEF PitTick, KeyPress, IInv, TypeOK, Irqs
  <1>2. TypeOK'
    BY <1>1 DEF IInv, TypeOK, sched, tcb
  <1>3. Kinds' /\ Rsp0Inv'
    BY <1>1 DEF IInv, Kinds, Rsp0Inv, sched, tcb
  <1>4. Flags'
    BY <1>1 DEF IInv, Flags, Preemptible, At, Up, sched, tcb
  <1> QED BY <1>1, <1>2, <1>3, <1>4, QuietIInv DEF IInv

(* Interrupts that are on find the current task outside handlers, and a    *)
(* task that is interrupted there goes on outside handlers.                *)
LEMMA InterruptedOutside ==
  ASSUME IInv, Up, intr
  PROVE  /\ current_task \in Slots /\ loc[current_task] \in Outside
         /\ \A back \in isr_common_stub(loc[current_task]) :
              /\ back \in Outside
              /\ ring[current_task] = 0 => back = "kernel"
              /\ back = "wild" <=> loc[current_task] = "wild"
  <1>1. current_task \in Slots /\ loc[current_task] \in Outside
    BY DEF IInv, TypeOK, Flags, Preemptible, At, Outside
  <1>2. ring[current_task] = 0 => loc[current_task] = "kernel"
    BY <1>1 DEF IInv, Kinds, Outside, EnterUserMode
  <1> QED BY <1>1, <1>2 DEF isr_common_stub, Outside, EnterUserMode

(* The keyboard interrupt preserves it: no other interrupt is in service,  *)
(* so its EOI retires its own.                                             *)
LEMMA KeyboardIrqIInv == ASSUME IInv, KeyboardIrq PROVE IInv'
  <1>1. /\ UNCHANGED <<sched, tcb>> /\ irr' \subseteq Irqs /\ isr' = {}
        /\ UNCHANGED <<frame, saved_if, intr, rsp0, cr3_reg, mode>>
    <2>1. isr' = pic_send_eoi({1}) /\ 1 \in Irqs
      BY DEF KeyboardIrq, IInv, Irqs
    <2> QED BY <2>1, EoiAlone DEF KeyboardIrq, IInv, TypeOK
  <1>2. PICK back \in isr_common_stub(loc[current_task]) :
          loc' = [loc EXCEPT ![current_task] = back]
    BY DEF KeyboardIrq
  <1>3. /\ current_task \in Slots /\ back \in Outside /\ Up /\ intr
        /\ ring[current_task] = 0 => back = "kernel"
    BY <1>2, InterruptedOutside DEF KeyboardIrq, Deliverable
  <1>4. back \notin {"boot", "isr", "none"} /\ back \in Locs
    BY <1>3 DEF Outside, EnterUserMode, Locs
  <1>5. TypeOK'
    BY <1>1, <1>2, <1>3, <1>4 DEF IInv, TypeOK, sched, tcb
  <1>6. Kinds'
    BY <1>1, <1>2, <1>3, <1>4 DEF IInv, TypeOK, Kinds, sched, tcb
  <1>7. Rsp0Inv'
    BY <1>1 DEF IInv, Rsp0Inv, sched, tcb
  <1>8. Flags'
    <2>1. Preemptible'
      BY <1>1, <1>2, <1>3 DEF IInv, TypeOK, Preemptible, sched
    <2>2. state[current_task] # "READY"
      BY <1>3 DEF IInv, ReadyExact
    <2> QED BY <2>1, <2>2, <1>1, <1>2, <1>3 DEF IInv, TypeOK, Flags, sched
  <1>9. loc'[Boot] = "boot" => loc[Boot] = "boot"
    BY <1>2, <1>3, <1>4 DEF IInv, TypeOK, Slots, Boot
  <1> QED BY <1>1, <1>5, <1>6, <1>7, <1>8, <1>9, QuietIInv

(* The return from a timer interrupt preserves it: the frame leads to a    *)
(* place outside the handlers, where interrupts are on.                    *)
LEMMA IsrReturnIInv == ASSUME IInv, IsrReturn PROVE IInv'
  <1>1. /\ current_task \in Slots /\ loc[current_task] = "isr"
        /\ frame[current_task] \in Outside /\ "boot" \notin Outside
        /\ "isr" \notin Outside
    BY DEF IInv, TypeOK, Kinds, IsrReturn, At, Outside, EnterUserMode
  <1>2. /\ UNCHANGED <<sched, tcb>> /\ isr' = {} /\ intr' = TRUE
        /\ loc' = [loc EXCEPT ![current_task] = frame[current_task]]
        /\ frame' = [frame EXCEPT ![current_task] = "none"]
        /\ UNCHANGED <<saved_if, rsp0, cr3_reg, irr, mode>>
    BY EoiAlone DEF IsrReturn, IInv
  <1>3. TypeOK'
    BY <1>1, <1>2 DEF IInv, TypeOK, Locs, sched, tcb
  <1>4. Kinds'
    BY <1>1, <1>2 DEF IInv, TypeOK, Kinds, sched, tcb
  <1>5. Flags'
    <2>1. Preemptible'
      BY <1>1, <1>2 DEF IInv, TypeOK, Preemptible, sched
    <2>2. state[current_task] # "READY"
      BY <1>1 DEF IInv, ReadyExact
    <2> QED BY <2>1, <2>2, <1>1, <1>2 DEF IInv, TypeOK, Flags, sched
  <1>6. Rsp0Inv'
    BY <1>2 DEF IInv, Rsp0Inv, sched, tcb
  <1>7. loc'[Boot] = "boot" => loc[Boot] = "boot"
    BY <1>1, <1>2 DEF IInv, TypeOK, Slots, Boot
  <1> QED BY <1>2, <1>3, <1>4, <1>5, <1>6, <1>7, QuietIInv

(* Only user tasks execute enter_user_mode, ring 3 code or a system call.  *)
LEMMA RingThree ==
  ASSUME IInv, loc[current_task] \in EnterUserMode \cup {"user", "wild", "sys"}
  PROVE  ring[current_task] = 3
  <1>1. current_task \in Slots /\ ring[current_task] \in {0, 3}
    BY DEF IInv, TypeOK
  <1>2. ring[current_task] # 0
    BY <1>1 DEF IInv, Kinds, EnterUserMode
  <1> QED BY <1>1, <1>2

(* enter_user_mode moves the current task from one place outside handlers  *)
(* to the next; RSP0 is already its own, as schedule set it.               *)
LEMMA EnterIInv == ASSUME IInv, Enter PROVE IInv'
  <1> DEFINE l == loc[current_task]
  <1>1. current_task \in Slots /\ l \in EnterUserMode /\ mode = "up"
    BY DEF IInv, TypeOK, Enter, EnterRsp0, EnterCr3, EnterIret, EnterTorn, At, Up,
       EnterUserMode
  <1>2. ring[current_task] = 3 /\ rsp0 = current_task
    BY <1>1, RingThree DEF IInv, Rsp0Inv, EnterUserMode
  <1>3. /\ UNCHANGED <<sched, tcb>> /\ rsp0' = rsp0
        /\ UNCHANGED <<frame, saved_if, irr, isr>>
    BY <1>2 DEF Enter, EnterRsp0, EnterCr3, EnterIret, EnterTorn, tss_set_rsp0, pic
  <1>4. PICK n \in EnterUserMode \cup {"user", "wild"} :
          /\ loc' = [loc EXCEPT ![current_task] = n]
          /\ intr' = intr \/ n = "wild"
    <2>1. CASE EnterRsp0 BY <2>1 DEF EnterRsp0, EnterUserMode
    <2>2. CASE EnterCr3 BY <2>2 DEF EnterCr3, EnterUserMode
    <2>3. CASE EnterIret BY <2>3 DEF EnterIret
    <2>4. CASE EnterTorn BY <2>4 DEF EnterTorn
    <2> QED BY <2>1, <2>2, <2>3, <2>4 DEF Enter
  <1>5. n \in Outside /\ n \notin {"boot", "isr", "none"} /\ l \in Outside /\ l # "wild"
    BY <1>1 DEF Outside, EnterUserMode
  <1>6. /\ cr3_reg' \in Spaces /\ mode' = mode /\ intr' \in BOOLEAN
    BY <1>1 DEF IInv, TypeOK, Enter, EnterRsp0, EnterCr3, EnterIret, EnterTorn
  <1>7. TypeOK'
    BY <1>1, <1>3, <1>4, <1>5, <1>6 DEF IInv, TypeOK, Locs, Modes, sched, tcb
  <1>8. Kinds'
    BY <1>1, <1>2, <1>3, <1>4, <1>5 DEF IInv, TypeOK, Kinds, sched, tcb
  <1>9. Flags'
    <2>1. Preemptible'
      <3>1. Up /\ intr
        BY <1>1, <1>5 DEF IInv, TypeOK, Flags, Preemptible, At, Up
      <3>2. current_task' = current_task /\ loc'[current_task'] = n
        BY <1>1, <1>3, <1>4 DEF IInv, TypeOK, sched
      <3>3. CASE n = "wild"
        BY <3>2, <3>3 DEF Preemptible, At
      <3>4. CASE n # "wild"
        BY <3>1, <3>2, <3>4, <1>4, <1>5 DEF Preemptible
      <3> QED BY <3>3, <3>4
    <2>2. state[current_task] # "READY"
      BY <1>1 DEF IInv, ReadyExact
    <2> QED BY <2>1, <2>2, <1>1, <1>3, <1>4 DEF IInv, TypeOK, Flags, sched
  <1>10. Rsp0Inv'
    BY <1>3 DEF IInv, Rsp0Inv, sched, tcb
  <1>11. loc'[Boot] = "boot" => loc[Boot] = "boot"
    BY <1>1, <1>4, <1>5 DEF IInv, TypeOK, Slots, Boot
  <1> QED BY <1>3, <1>7, <1>8, <1>9, <1>10, <1>11, QuietIInv DEF IInv

(* A machine that stops keeps what the invariant says of the tables.       *)
LEMMA StopIInv == ASSUME IInv, NEW m \in Modes \ {"up"}, Stop(m) PROVE IInv'
  <1>1. /\ UNCHANGED <<sched, tcb>> /\ mode' = m /\ intr' = FALSE
        /\ UNCHANGED <<loc, frame, saved_if, rsp0, cr3_reg, irr, isr>>
    BY DEF Stop, pic
  <1>2. TypeOK' /\ Kinds' /\ Rsp0Inv'
    BY <1>1 DEF IInv, TypeOK, Kinds, Rsp0Inv, sched, tcb
  <1>3. Flags'
    BY <1>1 DEF IInv, Flags, Preemptible, At, Up, sched
  <1> QED BY <1>1, <1>2, <1>3, QuietIInv DEF IInv

(* A system call that does not switch preserves it.                        *)
LEMMA SysOtherIInv == ASSUME IInv, sys_other PROVE IInv'
  <1>1. /\ current_task \in Slots /\ loc[current_task] \in {"user", "wild"}
        /\ ring[current_task] = 3
    BY RingThree DEF IInv, TypeOK, sys_other, Syscall, Ring3, At
  <1>2. /\ UNCHANGED <<sched, tcb>> /\ intr' = FALSE
        /\ loc' = [loc EXCEPT ![current_task] = "sys"]
        /\ UNCHANGED <<frame, saved_if, rsp0, cr3_reg, irr, isr, mode>>
    BY DEF sys_other, SyscallEntered, pic
  <1>3. "sys" \in Locs /\ "sys" \notin Outside
    BY DEF Locs, Outside, EnterUserMode
  <1>4. TypeOK'
    BY <1>1, <1>2, <1>3 DEF IInv, TypeOK, sched, tcb
  <1>5. Kinds'
    BY <1>1, <1>2 DEF IInv, TypeOK, Kinds, sched, tcb
  <1>6. Flags'
    <2>1. Preemptible'
      BY <1>1, <1>2, <1>3 DEF IInv, TypeOK, Preemptible, sched
    <2>2. state[current_task] # "READY"
      BY <1>1 DEF IInv, ReadyExact
    <2> QED BY <2>1, <2>2, <1>1, <1>2 DEF IInv, TypeOK, Flags, sched
  <1>7. Rsp0Inv'
    BY <1>2 DEF IInv, Rsp0Inv, sched, tcb
  <1>8. loc'[Boot] = "boot" => loc[Boot] = "boot"
    BY <1>1, <1>2 DEF IInv, TypeOK, Slots, Boot
  <1> QED BY <1>2, <1>4, <1>5, <1>6, <1>7, <1>8, QuietIInv DEF IInv

(* The steps that switch: the task left behind is inside a handler, with   *)
(* IF clear in the flags it saves, and the one switched to is not current. *)
LEMMA SwitchIInv ==
  ASSUME IInv, NEW STATE st, Offered(st), schedule(st),
         st[current_task] = "DEAD" => current_task # Boot /\ current_task # Idle,
         NEW h \in {"isr", "sys"}, loc' = [loc EXCEPT ![current_task] = h],
         \/ h = "isr" /\ \E back \in isr_common_stub(loc[current_task]) :
                                frame' = PushFrame(back)
         \/ h = "sys" /\ ring[current_task] = 3 /\ frame' = frame,
         loc[current_task] \in Outside,
         UNCHANGED <<tcb, cr3_reg>>, irr' \subseteq Irqs, isr' = {}
  PROVE  IInv'
  <1> DEFINE next == Head(ready)
  <1>1. /\ next \in Slots /\ current_task \in Slots /\ next # current_task
        /\ state[next] = "READY"
        /\ Boot \in Slots /\ Idle \in Slots
    <2>1. Boot \in Slots /\ Idle \in Slots
      BY TaskAssumption DEF Slots, Boot, Idle
    <2> QED BY <2>1, ReadyNotEmpty DEF IInv, TypeOK
  <1>2. /\ ReadyExact' /\ state' \in [Slots -> {"DEAD", "READY", "RUNNING", "BLOCKED"}]
        /\ ready' \in Seq(Slots) /\ current_task' \in Slots
        /\ saved_if' \in [Slots -> BOOLEAN] /\ intr' \in BOOLEAN
        /\ rsp0' \in Slots \cup {NoTask} /\ mode' \in Modes /\ time_slice' \in [Slots -> Nat]
        /\ \A t \in Slots : state'[t] = IF t = next THEN "RUNNING"
                                        ELSE IF t # current_task THEN state[t]
                                        ELSE IF st[t] = "RUNNING" THEN "READY" ELSE "DEAD"
    BY SchedulePreserves DEF IInv
  <1>3. /\ current_task' = next
        /\ rsp0' = IF ring[next] = 3 THEN next ELSE rsp0
        /\ saved_if' = [saved_if EXCEPT ![current_task] = FALSE]
        /\ intr' = (Mapped(next) /\ saved_if[next])
        /\ mode' = IF Mapped(next) THEN mode ELSE "unmapped"
    BY ScheduleSwitches DEF IInv
  <1>4. loc[current_task] # "boot" /\ h \in Locs /\ h \notin Outside
    BY DEF Outside, EnterUserMode, Locs
  <1>5. TypeOK'
    <2>1. frame' \in [Slots -> Outside \cup {"none"}]
      BY <1>1 DEF IInv, TypeOK, PushFrame, isr_common_stub, Outside, EnterUserMode
    <2> QED BY <2>1, <1>1, <1>2, <1>4 DEF IInv, TypeOK, tcb
  <1>6. Immortal'
    BY <1>1, <1>2 DEF IInv, Immortal, Offered
  <1>7. Kinds'
    <2>1. \A t \in Slots \ {current_task} : loc'[t] = loc[t] /\ frame'[t] = frame[t]
      BY <1>1 DEF IInv, TypeOK, PushFrame
    <2>2. loc'[current_task] = h
      BY <1>1 DEF IInv, TypeOK
    <2>3. h = "isr" => frame'[current_task] \in isr_common_stub(loc[current_task])
      BY <1>1 DEF IInv, TypeOK, PushFrame
    <2>4. /\ "none" \notin isr_common_stub(loc[current_task])
          /\ loc[current_task] = "kernel" => isr_common_stub(loc[current_task]) = {"kernel"}
      BY DEF isr_common_stub, Outside, EnterUserMode
    <2>5. \A t \in Slots : loc'[t] # "boot"
      BY <2>1, <2>2, <1>1, <1>4 DEF IInv, Kinds
    <2>6. ring[current_task] = 0 => h = "isr" /\ loc[current_task] = "kernel"
      BY <1>1 DEF IInv, Kinds, Outside, EnterUserMode
    <2> QED BY <2>1, <2>2, <2>3, <2>4, <2>5, <2>6, <1>1 DEF IInv, Kinds, tcb
  <1>8. Flags'
    <2>1. saved_if[next] <=> loc[next] \in Outside
      BY <1>1 DEF IInv, Flags
    <2>2. loc'[next] = loc[next]
      BY <1>1 DEF IInv, TypeOK
    <2>3. ASSUME Up' PROVE intr' = saved_if[next]
      <3>1. Mapped(next)
        BY <2>3, <1>3 DEF Up
      <3>2. saved_if[next] \in BOOLEAN
        BY <1>1 DEF IInv, TypeOK
      <3> QED BY <3>1, <3>2, <1>3
    <2>4. Preemptible'
      BY <2>1, <2>2, <2>3, <1>3 DEF Preemptible
    <2>5. ASSUME NEW t \in Slots, state'[t] = "READY"
          PROVE  saved_if'[t] <=> loc'[t] \in Outside
      <3>1. t # next
        BY <2>5, <1>2
      <3>2. CASE t = current_task
        BY <3>2, <1>1, <1>3, <1>4 DEF IInv, TypeOK
      <3>3. CASE t # current_task
        <4>1. state[t] = "READY"
          BY <3>1, <3>3, <2>5, <1>2
        <4>2. saved_if'[t] = saved_if[t] /\ loc'[t] = loc[t]
          BY <3>3, <1>1, <1>3 DEF IInv, TypeOK
        <4> QED BY <4>1, <4>2 DEF IInv, Flags
      <3> QED BY <3>2, <3>3
    <2> QED BY <2>4, <2>5 DEF Flags
  <1>9. Rsp0Inv'
    BY <1>3 DEF Rsp0Inv, tcb
  <1>10. Pids'
    <2>1. loc'[Boot] # "boot"
      BY <1>1, <1>4 DEF IInv, TypeOK, Kinds
    <2>2. \A t \in Slots : state'[t] # "DEAD" => state[t] # "DEAD"
      <3>1. state[current_task] = "RUNNING"
        BY <1>1 DEF IInv, ReadyExact
      <3> QED BY <3>1, <1>1, <1>2
    <2> QED BY <2>1, <2>2 DEF IInv, Pids, tcb
  <1> QED BY <1>2, <1>5, <1>6, <1>7, <1>8, <1>9, <1>10 DEF IInv

(* The timer interrupt preserves it.                                       *)
LEMMA TimerIrqIInv == ASSUME IInv, TimerIrq PROVE IInv'
  <1>1. loc[current_task] \in Outside /\ current_task \in Slots
    BY InterruptedOutside DEF TimerIrq, Deliverable
  <1>2. Offered(state) /\ state[current_task] = "RUNNING"
    BY <1>1 DEF IInv, TypeOK, ReadyExact, Offered
  <1>3. irr' \subseteq Irqs /\ isr' = {}
    <2>1. isr' = pic_send_eoi({0}) /\ 0 \in Irqs
      BY DEF TimerIrq, EoiBeforeSwitch, IInv, Irqs
    <2> QED BY <2>1, EoiAlone DEF TimerIrq, IInv, TypeOK
  <1> QED BY <1>1, <1>2, <1>3, SwitchIInv DEF TimerIrq

(* sys_exit and sys_yield preserve it: only a ring 3 task makes them,      *)
(* which is neither the boot nor the idle task.                            *)
LEMMA SysSwitchIInv == ASSUME IInv, sys_exit \/ sys_yield PROVE IInv'
  <1>1. /\ loc[current_task] \in Outside /\ current_task \in Slots
        /\ ring[current_task] = 3 /\ state[current_task] = "RUNNING"
    BY RingThree DEF IInv, TypeOK, ReadyExact, sys_exit, sys_yield, Syscall, Ring3, At,
       Outside
  <1>2. /\ loc' = [loc EXCEPT ![current_task] = "sys"] /\ frame' = frame
        /\ UNCHANGED <<tcb, cr3_reg>> /\ irr' \subseteq Irqs /\ isr' = {}
    BY DEF sys_exit, sys_yield, SyscallEntered, pic, IInv, TypeOK
  <1>3. current_task # Boot /\ current_task # Idle
    BY <1>1 DEF IInv, Kinds
  <1>4. CASE sys_yield
    <2>1. Offered(state)
      BY <1>1 DEF IInv, TypeOK, Offered
    <2> QED BY <2>1, <1>1, <1>2, <1>3, <1>4, SwitchIInv DEF sys_yield
  <1>5. CASE sys_exit
    <2> DEFINE st == [state EXCEPT ![current_task] = "DEAD"]
    <2>1. Offered(st)
      BY <1>1 DEF IInv, TypeOK, Offered
    <2>2. schedule(st)
      BY <1>5 DEF sys_exit
    <2> HIDE DEF st
    <2> QED BY <2>1, <2>2, <1>1, <1>2, <1>3, SwitchIInv
  <1> QED BY <1>4, <1>5

(* Every step of Task keeps the invariant.                                 *)
LEMMA NextIInv == IInv /\ [Next]_vars => IInv'
  <1> SUFFICES ASSUME IInv, [Next]_vars PROVE IInv'
    OBVIOUS
  <1>1. ASSUME NEW t \in Slots, task_create(t) PROVE IInv'
    BY <1>1, CreateIInv DEF task_create, Spaces, KernelSpace
  <1>2. ASSUME NEW t \in Slots, NEW space \in Spaces, task_create_user(t, space) PROVE IInv'
    BY <1>2, CreateIInv DEF task_create_user
  <1>3. CASE Sti BY <1>3, StiIInv
  <1>4. CASE PitTick \/ KeyPress BY <1>4, IrqRequestIInv
  <1>5. CASE TimerIrq BY <1>5, TimerIrqIInv
  <1>6. CASE IsrReturn BY <1>6, IsrReturnIInv
  <1>7. CASE KeyboardIrq BY <1>7, KeyboardIrqIInv
  <1>8. CASE Enter BY <1>8, EnterIInv
  <1>9. CASE sys_exit \/ sys_yield BY <1>9, SysSwitchIInv
  <1>10. CASE sys_other BY <1>10, SysOtherIInv
  <1>11. CASE syscall_return
    <2>1. "badframe" \in Modes \ {"up"} BY DEF Modes
    <2> QED BY <1>11, <2>1, StopIInv DEF syscall_return
  <1>12. CASE Exception
    <2>1. "panic" \in Modes \ {"up"} BY DEF Modes
    <2> QED BY <1>12, <2>1, StopIInv DEF Exception
  <1>13. CASE UNCHANGED vars
    BY <1>13 DEF vars, IInv, TypeOK, ReadyExact, Immortal, Kinds, Flags, Preemptible, At,
       Up, Rsp0Inv, Pids
  <1>14. CASE Compute \/ Halted
    BY <1>13, <1>14 DEF Compute, Halted
  <1> QED
    BY <1>1, <1>2, <1>3, <1>4, <1>5, <1>6, <1>7, <1>8, <1>9, <1>10, <1>11, <1>12, <1>13,
       <1>14 DEF Next

(* Task never leaves its inductive invariant.                              *)
THEOREM Invariance == Spec => []IInv
  BY InitIInv, NextIInv, PTL DEF Spec

-----------------------------------------------------------------------------
(* Every variable keeps its type, for any number of slots.                 *)
THEOREM TypeCorrect == Spec => []TypeOK
  <1>1. IInv => TypeOK BY DEF IInv
  <1> QED BY <1>1, Invariance, PTL

(* The READY list and the state fields agree in every reachable state, for *)
(* any number of tasks and any interleaving of ticks, yields and exits.    *)
THEOREM ReadyListExact == Spec => []ReadyExact
  <1>1. IInv => ReadyExact BY DEF IInv
  <1> QED BY <1>1, Invariance, PTL

(* In ring 3, TSS.RSP0 is the kernel stack of the running task.            *)
THEOREM KernelStackOwn == Spec => []Rsp0Own
  <1>1. IInv => Rsp0Own
    <2> SUFFICES ASSUME IInv, Ring3 PROVE rsp0 = current_task
      BY DEF Rsp0Own
    <2>1. ring[current_task] = 3
      BY RingThree DEF Ring3, At
    <2> QED BY <2>1 DEF IInv, Rsp0Inv
  <1> QED BY <1>1, Invariance, PTL

(* Interrupts are on exactly outside handlers, whichever task comes back   *)
(* from whatever switch; only a task that enter_user_mode sent to ring 3   *)
(* with a lost r11 runs with any flag, and it passes the flag to nobody.   *)
THEOREM InterruptsOutsideHandlers == Spec => []Preemptible
  <1>1. IInv => Preemptible BY DEF IInv, Flags
  <1> QED BY <1>1, Invariance, PTL

(* The late EOI of a task that is switched back to never leaves the PIC    *)
(* with an interrupt in service, so it can deliver the next one.           *)
THEOREM PicFree == Spec => []NothingInService
  <1>1. IInv => NothingInService BY DEF IInv, Flags, NothingInService
  <1> QED BY <1>1, Invariance, PTL

-----------------------------------------------------------------------------
(* Refinement.  A creation is a Spawn, a switch is a Rotate or an Exit, and*)
(* everything else leaves the abstract queue alone.                        *)
LEMMA SpawnStep ==
  ASSUME IInv, NEW t \in Slots, NEW r, NEW space, NEW entry, Create(t, r, space, entry)
  PROVE  RR!Spawn(t)
  <1>1. /\ state[t] = "DEAD" /\ loc[Boot] = "boot" /\ current_task \in Slots
        /\ pid[t] = 0 /\ next_pid # 0
    BY DEF Create, FreeSlot, At, IInv, Kinds, TypeOK, Pids
  <1>2. ~Contains(ready, t) /\ t # current_task /\ t \notin Exited
    BY <1>1 DEF IInv, ReadyExact, Exited
  <1>3. Exited' = Exited
    <2>1. \A u \in Slots \ {t} : state'[u] = state[u] /\ pid'[u] = pid[u]
      BY DEF Create, IInv, TypeOK
    <2>2. state'[t] = "READY"
      BY DEF Create, IInv, TypeOK
    <2> QED BY <1>1, <2>1, <2>2 DEF Exited
  <1> QED BY <1>2, <1>3 DEF RR!Spawn, RR!Contains, Contains, Create, ready_list_add

(* A call of schedule is RoundRobin's Rotate or, from sys_exit, its Exit.  *)
LEMMA SwitchStep ==
  ASSUME IInv, NEW STATE st, Offered(st), schedule(st), UNCHANGED tcb
  PROVE  RR!Rotate \/ RR!Exit
  <1> DEFINE next == Head(ready)
             alive == st[current_task] = "RUNNING"
  <1>1. /\ ready # <<>> /\ next \in Slots /\ next # current_task /\ state[next] = "READY"
        /\ current_task \in Slots /\ state[current_task] = "RUNNING" /\ pid[current_task] # 0
    <2>1. current_task \in Slots
      BY DEF IInv, TypeOK
    <2>2. state[current_task] = "RUNNING"
      BY <2>1 DEF IInv, ReadyExact
    <2>3. pid[current_task] # 0
      BY <2>1, <2>2 DEF IInv, Pids
    <2> QED BY <2>1, <2>2, <2>3, ReadyNotEmpty DEF IInv
  <1>2. \A t \in Slots : state'[t] = IF t = next THEN "RUNNING"
                                     ELSE IF t # current_task THEN state[t]
                                     ELSE IF alive THEN "READY" ELSE "DEAD"
    BY SchedulePreserves DEF IInv
  <1>3. /\ current_task' = next
        /\ ready' = IF alive THEN Append(Tail(ready), current_task) ELSE Tail(ready)
    BY ScheduleSwitches DEF IInv
  <1>4. pid' = pid
    BY DEF tcb
  <1>5. CASE alive
    <2>1. Exited' = Exited
      BY <1>1, <1>2, <1>4, <1>5 DEF Exited
    <2> QED BY <2>1, <1>1, <1>3, <1>5 DEF RR!Rotate
  <1>6. CASE ~alive
    <2>1. Exited' = Exited \cup {current_task}
      BY <1>1, <1>2, <1>4, <1>6 DEF Exited
    <2> QED BY <2>1, <1>1, <1>3, <1>6 DEF RR!Exit
  <1> QED BY <1>5, <1>6

(* The scheduler takes strictly first-in first-out turns, and nobody comes *)
(* back from an exit: Task implements RoundRobin.                          *)
THEOREM Refinement == Spec => ImplementsRoundRobin
  <1>1. Init => RR!Init
    <2> SUFFICES ASSUME Init PROVE RR!Init
      OBVIOUS
    <2>1. \A t \in Slots : ~(state[t] = "DEAD" /\ pid[t] # 0)
      BY DEF Init
    <2>2. Exited = {}
      BY <2>1 DEF Exited
    <2> QED BY <2>2 DEF Init, RR!Init
  <1>2. IInv /\ [Next]_vars => [RR!Next]_(RR!vars)
    <2> SUFFICES ASSUME IInv, [Next]_vars PROVE RR!Next \/ UNCHANGED RR!vars
      BY DEF RR!vars
    <2>1. ASSUME NEW t \in Slots, task_create(t) PROVE RR!Next
      BY <2>1, SpawnStep DEF task_create, RR!Next
    <2>2. ASSUME NEW t \in Slots, NEW space \in Spaces, task_create_user(t, space)
          PROVE  RR!Next
      BY <2>2, SpawnStep DEF task_create_user, RR!Next
    <2>3. CASE schedule(state) /\ (TimerIrq \/ sys_yield)
      <3>1. current_task \in Slots /\ Offered(state)
        BY DEF IInv, TypeOK, ReadyExact, Offered
      <3>2. UNCHANGED tcb
        BY <2>3 DEF TimerIrq, sys_yield, SyscallEntered
      <3> QED BY <2>3, <3>1, <3>2, SwitchStep DEF RR!Next
    <2>4. CASE sys_exit
      <3> DEFINE st == [state EXCEPT ![current_task] = "DEAD"]
      <3>1. Offered(st)
        BY DEF IInv, TypeOK, Offered
      <3>2. schedule(st) /\ UNCHANGED tcb
        BY <2>4 DEF sys_exit, SyscallEntered
      <3> HIDE DEF st
      <3> QED BY <3>1, <3>2, SwitchStep DEF RR!Next
    <2>5. CASE UNCHANGED <<sched, tcb>>
      <3>1. current_task' = current_task /\ ready' = ready /\ state' = state /\ pid' = pid
        BY <2>5 DEF sched, tcb
      <3> QED BY <3>1 DEF RR!vars, Exited
    <2>6. TimerIrq \/ sys_yield => schedule(state)
      BY DEF TimerIrq, sys_yield
    <2>7. CASE Sti \/ PitTick \/ KeyPress \/ IsrReturn \/ KeyboardIrq
      BY <2>5, <2>7 DEF Sti, PitTick, KeyPress, IsrReturn, KeyboardIrq
    <2>8. CASE Enter
      BY <2>5, <2>8 DEF Enter, EnterRsp0, EnterCr3, EnterIret, EnterTorn
    <2>9. CASE sys_other \/ syscall_return \/ Exception
      BY <2>5, <2>9 DEF sys_other, SyscallEntered, syscall_return, Exception, Stop
    <2>10. CASE Compute \/ Halted \/ UNCHANGED vars
      BY <2>5, <2>10 DEF Compute, Halted, vars, sched, tcb
    <2> QED
      BY <2>1, <2>2, <2>3, <2>4, <2>6, <2>7, <2>8, <2>9, <2>10 DEF Next
  <1> QED BY <1>1, <1>2, Invariance, PTL DEF Spec, ImplementsRoundRobin, RR!Spec
=============================================================================
