------------------------------ MODULE KeyQueue ------------------------------
(***************************************************************************)
(* What the keyboard driver promises its reader: a bounded first-in        *)
(* first-out queue of characters that drops what arrives while it is full, *)
(* and only then, and a reader that echoes one character at a time, none   *)
(* twice.  Every arrival changes typed, so that none can be dropped by a   *)
(* stuttering step.                                                        *)
(***************************************************************************)
EXTENDS Sequences, Naturals

CONSTANTS Chars, Capacity, None

VARIABLES
  queue,
  out,    \* the character being echoed
  typed   \* the number of arrivals, modulo 2

vars == <<queue, out, typed>>

Init == queue = <<>> /\ out = None /\ typed = 0

Put(c) ==
  /\ typed' = 1 - typed
  /\ queue' = IF Len(queue) < Capacity THEN Append(queue, c) ELSE queue
  /\ UNCHANGED out

Get ==
  /\ queue # <<>> /\ out = None
  /\ out' = Head(queue)
  /\ queue' = Tail(queue)
  /\ UNCHANGED typed

Echo ==
  /\ out # None
  /\ out' = None
  /\ UNCHANGED <<queue, typed>>

Next == Get \/ Echo \/ \E c \in Chars : Put(c)

Spec == Init /\ [][Next]_vars
=============================================================================
