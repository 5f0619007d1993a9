----------------------------- MODULE ReadyList -----------------------------
(***************************************************************************)
(* The READY list of src/src/task/task.c as the code keeps it: a singly    *)
(* linked list through task_t.next with ready_head and ready_tail, and the *)
(* three callers that change it: task_create, schedule and task_yield.     *)
(* Module Task has the same list as a sequence.                            *)
(*                                                                         *)
(* Nothing in the repository calls task_yield yet.  Here any kernel thread *)
(* may, with interrupts off: with interrupts on, a tick between its stores *)
(* would take the CPU from a task that is READY and on no list.            *)
(***************************************************************************)
EXTENDS SequencesExt

CONSTANTS
  Tasks,
  Boot, Idle,      \* the tasks of kinit_task
  Users,           \* the ring 3 tasks, which may exit
  NULL

ASSUME ReadyListAssumption ==
  /\ IsFiniteSet(Tasks)     \* the MAX_TASKS slots of task_table
  /\ Boot \in Tasks /\ Idle \in Tasks /\ Boot # Idle
  /\ Users \subseteq Tasks \ {Boot, Idle}
  /\ NULL \notin Tasks

VARIABLES
  state,
  list,            \* ready_head, ready_tail and every task's next
  current_task,
  created,         \* the tasks that have a pid
  sti              \* has kernel_main come to its sti

list_vars == <<state, list, current_task, created, sti>>

-----------------------------------------------------------------------------
MutAddKeepsTail(l, t) ==
  LET n == [l.next EXCEPT ![t] = NULL]
  IN  IF l.head = NULL
      THEN [head |-> t, tail |-> t, next |-> n]
      ELSE [head |-> l.head, tail |-> l.tail, next |-> [n EXCEPT ![l.tail] = t]]
MutAddAtHead(l, t) ==
  [head |-> t, tail |-> IF l.head = NULL THEN t ELSE l.tail,
   next |-> [l.next EXCEPT ![t] = l.head]]
ready_list_add(l, t) ==
  LET n == [l.next EXCEPT ![t] = NULL]
  IN  IF l.head = NULL
      THEN [head |-> t, tail |-> t, next |-> n]
      ELSE [head |-> l.head, tail |-> t, next |-> [n EXCEPT ![l.tail] = t]]

(* With an empty list nothing changes; otherwise the head comes off.       *)
ready_list_pop(l) ==
  IF l.head = NULL THEN l
  ELSE LET h == l.next[l.head]
       IN  [head |-> h, tail |-> IF h = NULL THEN NULL ELSE l.tail,
            next |-> [l.next EXCEPT ![l.head] = NULL]]

(* schedule, called with the states st and the list l of the moment.       *)
schedule(st, l) ==
  LET next == l.head
      alive == st[current_task] = "RUNNING"
      popped == ready_list_pop(l)
  IN  IF next = NULL
      THEN state' = st /\ list' = l /\ UNCHANGED current_task
      ELSE /\ list' = IF alive THEN ready_list_add(popped, current_task) ELSE popped
           /\ state' = [st EXCEPT ![current_task] = IF alive THEN "READY" ELSE @,
                                  ![next] = "RUNNING"]
           /\ current_task' = next

-----------------------------------------------------------------------------
Empty == [head |-> NULL, tail |-> NULL, next |-> [t \in Tasks |-> NULL]]

(* kinit_task; which of the other slots task_create then fills is open.    *)
ListInit ==
  /\ state = [t \in Tasks |-> IF t = Boot THEN "RUNNING"
                              ELSE IF t = Idle THEN "READY" ELSE "DEAD"]
  /\ list = ready_list_add(Empty, Idle)
  /\ current_task = Boot
  /\ created = {Boot, Idle}
  /\ sti = FALSE

(* task_create and task_create_user, by kernel_main before its sti.        *)
task_create(t) ==
  /\ ~sti
  /\ state[t] = "DEAD"
  /\ state' = [state EXCEPT ![t] = "READY"]
  /\ created' = created \cup {t}
  /\ list' = ready_list_add(list, t)
  /\ UNCHANGED <<current_task, sti>>

Sti ==
  /\ ~sti
  /\ sti' = TRUE
  /\ UNCHANGED <<state, list, current_task, created>>

(* timer_irq_handler, wherever interrupts are on; also sys_yield.          *)
Tick ==
  /\ sti
  /\ schedule(state, list)
  /\ UNCHANGED <<created, sti>>

sys_exit ==
  /\ current_task \in Users
  /\ schedule([state EXCEPT ![current_task] = "DEAD"], list)
  /\ UNCHANGED <<created, sti>>

(* task_yield under cli.                                                   *)
MayYield ==
  /\ sti
  /\ current_task \notin Users \cup {Idle}
  /\ state[current_task] = "RUNNING"

task_yield ==
  /\ MayYield
  /\ schedule([state EXCEPT ![current_task] = "READY"],
              ready_list_add(list, current_task))
  /\ UNCHANGED <<created, sti>>

ListNext ==
  \/ \E t \in Tasks \ {Boot, Idle} : task_create(t)
  \/ Sti \/ Tick \/ sys_exit \/ task_yield

ListSpec == ListInit /\ [][ListNext]_list_vars

-----------------------------------------------------------------------------
(* Every variable has its type.                                            *)
ListTypeOK ==
  /\ state \in [Tasks -> {"DEAD", "READY", "RUNNING"}]
  /\ list.head \in Tasks \cup {NULL} /\ list.tail \in Tasks \cup {NULL}
  /\ list.next \in [Tasks -> Tasks \cup {NULL}]
  /\ current_task \in Tasks
  /\ created \subseteq Tasks
  /\ sti \in BOOLEAN

(* The tasks met on the way from ready_head, at most one more than exist.  *)
Walk(l) ==
  LET N == Cardinality(Tasks) + 1
      node[i \in 1 .. N] == IF i = 1 THEN l.head
                            ELSE IF node[i - 1] = NULL THEN NULL
                            ELSE l.next[node[i - 1]]
      length == Cardinality({i \in 1 .. N : node[i] # NULL})
  IN  [i \in 1 .. length |-> node[i]]

(* The pointers are those of a list: it ends, ready_tail is its last task  *)
(* (where the next ready_list_add writes), and a task outside it points    *)
(* nowhere.  No task is lost: a READY task is on the list, so schedule will*)
(* come to it; task.h promises that a yielding task only gives up the rest *)
(* of its slice.                                                           *)
ListWellFormed ==
  /\ ListTypeOK
  /\ Len(Walk(list)) <= Cardinality(Tasks)
  /\ list.tail = IF Walk(list) = <<>> THEN NULL ELSE Last(Walk(list))
  /\ \A t \in Tasks : ~Contains(Walk(list), t) => list.next[t] = NULL
  /\ \A t \in Tasks : state[t] = "READY" /\ t # current_task => Contains(Walk(list), t)

(* task_yield switches to another task, because one of the boot and idle   *)
(* tasks is always READY.  To itself it could not: schedule passes the     *)
(* stack pointer that the switch before has saved.                         *)
YieldsToAnother == MayYield => ready_list_add(list, current_task).head # current_task

(* The linked list implements RoundRobin's queue.                          *)
RR == INSTANCE RoundRobin WITH running <- current_task, queue <- Walk(list),
        exited <- {t \in created : state[t] = "DEAD"}
ImplementsRoundRobin == RR!Spec
=============================================================================
