----------------------------- MODULE RoundRobin -----------------------------
(***************************************************************************)
(* What the scheduler of src/src/task promises, without its mechanism: one *)
(* task runs, the runnable others wait in a first-in first-out queue, the  *)
(* running task gives the CPU to the head of the queue and nobody else,    *)
(* and a task that exits never comes back.  Task implements it.            *)
(***************************************************************************)
EXTENDS SequencesExt

CONSTANTS Tasks, Boot, Idle

VARIABLES running, queue, exited

vars == <<running, queue, exited>>

Init == running = Boot /\ queue = <<Idle>> /\ exited = {}

Spawn(t) ==
  /\ t \notin exited \cup {running}
  /\ ~Contains(queue, t)
  /\ queue' = Append(queue, t)
  /\ UNCHANGED <<running, exited>>

Rotate ==
  /\ queue # <<>>
  /\ running' = Head(queue)
  /\ queue' = Append(Tail(queue), running)
  /\ UNCHANGED exited

Exit ==
  /\ queue # <<>>
  /\ running' = Head(queue)
  /\ queue' = Tail(queue)
  /\ exited' = exited \cup {running}

Next == Rotate \/ Exit \/ \E t \in Tasks : Spawn(t)

Spec == Init /\ [][Next]_vars
=============================================================================
