----------------------------- MODULE ListProofs -----------------------------
(***************************************************************************)
(* The two linked lists of the kernel.                                     *)
(*                                                                         *)
(* The pointers of the READY list are those of a first-in first-out queue, *)
(* for any number of tasks: every operation keeps a sequence of tasks that *)
(* the pointers represent, and walking the pointers gives that sequence.   *)
(*                                                                         *)
(* The blocks of the kernel heap, for every sequence of calls of kmalloc,  *)
(* kmalloc_aligned and kfree, every size and alignment they ask for, every *)
(* page size that is a multiple of the word and every failure of           *)
(* heap_extend: blocks never overlap, the list holds exactly the free ones,*)
(* what a caller gets lies in its block and overlaps no other caller's, and*)
(* no split or merge loses a byte.                                         *)
(***************************************************************************)
EXTENDS ReadyList, Heap, DataLemmas, TLAPS

(* The list l holds the tasks of q, in that order.                         *)
Represents(l, q) ==
  /\ q \in Seq(Tasks) /\ IsInjective(q)
  /\ l.next \in [Tasks -> Tasks \cup {NULL}]
  /\ l.head = IF q = <<>> THEN NULL ELSE q[1]
  /\ l.tail = IF q = <<>> THEN NULL ELSE q[Len(q)]
  /\ \A i \in 1 .. Len(q) - 1 : l.next[q[i]] = q[i + 1]
  /\ q # <<>> => l.next[q[Len(q)]] = NULL
  /\ \A t \in Tasks : ~Contains(q, t) => l.next[t] = NULL

(* The members of a sequence that holds nobody twice.                      *)
LEMMA Members ==
  ASSUME NEW q \in Seq(Tasks), IsInjective(q)
  PROVE  /\ Len(q) \in Nat /\ DOMAIN q = 1 .. Len(q)
         /\ q = <<>> <=> Len(q) = 0
         /\ \A i \in 1 .. Len(q) : q[i] \in Tasks /\ q[i] # NULL /\ Contains(q, q[i])
         /\ \A i, j \in 1 .. Len(q) : q[i] = q[j] => i = j
  <1>1. Len(q) \in Nat /\ DOMAIN q = 1 .. Len(q) /\ (q = <<>> <=> Len(q) = 0)
    OBVIOUS
  <1>2. \A i \in 1 .. Len(q) : q[i] \in Tasks
    OBVIOUS
  <1>3. \A i \in 1 .. Len(q) : Contains(q, q[i])
    BY DEF Contains
  <1> QED BY <1>1, <1>2, <1>3, ReadyListAssumption DEF IsInjective

(* ready_list_add appends.                                                 *)
LEMMA AddAppends ==
  ASSUME NEW l, NEW q, Represents(l, q), NEW t \in Tasks, ~Contains(q, t)
  PROVE  Represents(ready_list_add(l, t), Append(q, t))
  <1> DEFINE n == Len(q)
             r == Append(q, t)
             m == ready_list_add(l, t)
  <1>1. /\ q \in Seq(Tasks) /\ IsInjective(q) /\ r \in Seq(Tasks) /\ IsInjective(r)
        /\ \A y : Contains(r, y) <=> Contains(q, y) \/ y = t
    BY AppendContains DEF Represents
  <1>2. /\ n \in Nat /\ Len(r) = n + 1 /\ r # <<>> /\ r[n + 1] = t
        /\ \A i \in 1 .. n : r[i] = q[i]
    BY <1>1
  <1>3. /\ q = <<>> <=> n = 0
        /\ \A i \in 1 .. n : q[i] \in Tasks /\ q[i] # NULL /\ Contains(q, q[i])
        /\ \A i, j \in 1 .. n : q[i] = q[j] => i = j
    BY <1>1, Members
  <1>4. \A i \in 1 .. n : q[i] # t
    BY <1>3
  <1>5. CASE q = <<>>
    <2>1. m.head = t /\ m.tail = t /\ m.next = [l.next EXCEPT ![t] = NULL] /\ n = 0
      BY <1>3, <1>5 DEF ready_list_add, Represents
    <2>2. m.next[t] = NULL /\ m.next \in [Tasks -> Tasks \cup {NULL}]
      BY <2>1 DEF Represents
    <2>3. \A u \in Tasks : ~Contains(r, u) => m.next[u] = NULL
      BY <2>1, <1>1 DEF Represents
    <2> HIDE DEF m, n, r
    <2> QED BY <1>1, <1>2, <2>1, <2>2, <2>3 DEF Represents, n, r, m
  <1>6. CASE q # <<>>
    <2>1. /\ l.head = q[1] /\ l.tail = q[n] /\ n \in Nat \ {0} /\ l.head # NULL
          /\ q[n] \in Tasks /\ q[n] # t
      BY <1>2, <1>3, <1>4, <1>6 DEF Represents
    <2>2. m.head = q[1] /\ m.tail = t
          /\ m.next = [[l.next EXCEPT ![t] = NULL] EXCEPT ![q[n]] = t]
      BY <2>1 DEF ready_list_add
    <2>3. m.next \in [Tasks -> Tasks \cup {NULL}] /\ m.next[t] = NULL /\ m.next[q[n]] = t
          /\ \A u \in Tasks : u # t /\ u # q[n] => m.next[u] = l.next[u]
      BY <2>1, <2>2 DEF Represents
    <2>4. ASSUME NEW i \in 1 .. n PROVE m.next[r[i]] = r[i + 1]
      <3>1. CASE i = n
        BY <3>1, <1>2, <2>1, <2>3
      <3>2. CASE i # n
        <4>1. i \in 1 .. n - 1 /\ i + 1 \in 1 .. n /\ n \in 1 .. n
          BY <3>2, <1>2
        <4>2. q[i] # q[n] /\ q[i] # t /\ q[i] \in Tasks
          BY <4>1, <3>2, <1>3, <1>4
        <4>3. l.next[q[i]] = q[i + 1]
          BY <4>1 DEF Represents
        <4> QED BY <4>1, <4>2, <4>3, <2>3, <1>2
      <3> QED BY <3>1, <3>2
    <2>5. \A u \in Tasks : ~Contains(r, u) => m.next[u] = NULL
      BY <2>1, <2>3, <1>1, <1>3 DEF Represents
    <2>6. r[1] = q[1] /\ (n + 1) - 1 = n
      BY <1>2, <2>1
    <2> HIDE DEF m, n, r
    <2> QED BY <1>1, <1>2, <2>2, <2>3, <2>4, <2>5, <2>6 DEF Represents, n, r, m
  <1> QED BY <1>5, <1>6

(* ready_list_pop drops the head.                                          *)
LEMMA PopDrops ==
  ASSUME NEW l, NEW q, Represents(l, q), q # <<>>
  PROVE  /\ l.head = Head(q) /\ l.head \in Tasks /\ l.head # NULL
         /\ Represents(ready_list_pop(l), Tail(q))
  <1> DEFINE n == Len(q)
             r == Tail(q)
             m == ready_list_pop(l)
  <1>1. /\ q \in Seq(Tasks) /\ IsInjective(q) /\ r \in Seq(Tasks) /\ IsInjective(r)
        /\ \A y : Contains(q, y) <=> Contains(r, y) \/ y = Head(q)
        /\ ~Contains(r, Head(q))
    BY TailContains DEF Represents
  <1>2. /\ n \in Nat \ {0} /\ Len(r) = n - 1 /\ Head(q) = q[1]
        /\ \A i \in 1 .. n - 1 : r[i] = q[i + 1]
        /\ r = <<>> <=> n = 1
    <2>1. /\ n \in Nat \ {0} /\ Len(r) = n - 1 /\ Head(q) = q[1]
          /\ \A i \in 1 .. n - 1 : r[i] = q[i + 1]
      BY <1>1
    <2> HIDE DEF n, r
    <2>2. r = <<>> <=> Len(r) = 0
      BY <1>1, Members
    <2> QED BY <2>1, <2>2
  <1>3. /\ \A i \in 1 .. n : q[i] \in Tasks /\ q[i] # NULL /\ Contains(q, q[i])
        /\ \A i, j \in 1 .. n : q[i] = q[j] => i = j
    BY <1>1, Members
  <1>4. l.head = q[1] /\ q[1] \in Tasks /\ q[1] # NULL /\ l.tail = q[n]
    BY <1>2, <1>3 DEF Represents
  <1>5. m.head = l.next[q[1]] /\ m.tail = (IF l.next[q[1]] = NULL THEN NULL ELSE q[n])
        /\ m.next = [l.next EXCEPT ![q[1]] = NULL]
    BY <1>4 DEF ready_list_pop
  <1>6. /\ m.next \in [Tasks -> Tasks \cup {NULL}] /\ m.next[q[1]] = NULL
        /\ \A u \in Tasks : u # q[1] => m.next[u] = l.next[u]
    BY <1>4, <1>5 DEF Represents
  <1>7. \A u \in Tasks : ~Contains(r, u) => m.next[u] = NULL
    BY <1>1, <1>2, <1>6 DEF Represents
  <1>8. CASE n = 1
    <2>1. l.next[q[1]] = NULL /\ r = <<>> /\ Len(r) = 0
      BY <1>2, <1>8 DEF Represents
    <2> HIDE DEF m, n, r
    <2> QED BY <1>1, <1>2, <1>4, <1>5, <1>6, <1>7, <2>1 DEF Represents, m, r
  <1>9. CASE n # 1
    <2>1. 1 \in 1 .. n - 1 /\ n - 1 \in 1 .. n - 1 /\ r # <<>> /\ (n - 1) + 1 = n
      BY <1>2, <1>9
    <2>2. l.next[q[1]] = q[2] /\ r[1] = q[2] /\ r[n - 1] = q[n] /\ q[2] # NULL
      BY <2>1, <1>2, <1>3 DEF Represents
    <2>3. ASSUME NEW i \in 1 .. n - 2 PROVE m.next[r[i]] = r[i + 1]
      <3>1. i \in 1 .. n - 1 /\ i + 1 \in 1 .. n - 1 /\ i + 1 \in 1 .. n /\ 1 \in 1 .. n
            /\ (i + 1) + 1 \in 1 .. n
        BY <1>2
      <3>2. q[i + 1] # q[1] /\ q[i + 1] \in Tasks
        BY <3>1, <1>3
      <3>3. l.next[q[i + 1]] = q[(i + 1) + 1]
        BY <3>1 DEF Represents
      <3> QED BY <3>1, <3>2, <3>3, <1>2, <1>6
    <2>4. m.next[r[n - 1]] = NULL
      <3>1. q[n] # q[1] /\ q[n] \in Tasks
        BY <1>2, <1>3, <1>9
      <3>2. l.next[q[n]] = NULL
        BY DEF Represents
      <3> QED BY <3>1, <3>2, <2>2, <1>6
    <2>5. (n - 1) - 1 = n - 2
      BY <1>2
    <2> HIDE DEF m, n, r
    <2> QED BY <1>1, <1>2, <1>4, <1>5, <1>6, <1>7, <2>1, <2>2, <2>3, <2>4, <2>5
        DEF Represents, m, r
  <1> QED BY <1>8, <1>9

(* Nobody is there twice, so no more tasks than there are.                 *)
LEMMA AtMostAll ==
  ASSUME NEW q \in Seq(Tasks), IsInjective(q)
  PROVE  Len(q) <= Cardinality(Tasks) /\ Cardinality(Tasks) \in Nat
  <1>1. q \in Injection(1 .. Len(q), Tasks)
    BY Members DEF Injection, IsInjective
  <1>2. Cardinality(1 .. Len(q)) <= Cardinality(Tasks) /\ Cardinality(Tasks) \in Nat
    BY <1>1, FS_Injection, FS_CardinalityType, ReadyListAssumption
  <1>3. Len(q) \in Nat /\ Cardinality(1 .. Len(q)) = Len(q)
    BY Members, FS_Interval
  <1> QED BY <1>2, <1>3

(* Walking the pointers from ready_head gives q.  The recursive function of*)
(* the walk is q followed by NULLs: that one satisfies its equation, and by*)
(* induction no other does.                                                *)
LEMMA WalkIs ==
  ASSUME NEW l, NEW q, Represents(l, q)
  PROVE  Walk(l) = q
  <1> DEFINE N == Cardinality(Tasks) + 1
             n == Len(q)
             Eq(g) == g = [i \in 1 .. N |-> IF i = 1 THEN l.head
                                           ELSE IF g[i - 1] = NULL THEN NULL
                                           ELSE l.next[g[i - 1]]]
             f == [i \in 1 .. N |-> IF i <= n THEN q[i] ELSE NULL]
             node == CHOOSE g : Eq(g)
  <1>1. /\ q \in Seq(Tasks) /\ n \in Nat /\ N \in Nat /\ n + 1 <= N
        /\ q = <<>> <=> n = 0
        /\ \A i \in 1 .. n : q[i] \in Tasks /\ q[i] # NULL
    BY Members, AtMostAll DEF Represents
  <1>2. ASSUME NEW i \in 1 .. N
        PROVE  f[i] = IF i = 1 THEN l.head
                      ELSE IF f[i - 1] = NULL THEN NULL ELSE l.next[f[i - 1]]
    <2>1. CASE i = 1
      BY <2>1, <1>1 DEF Represents
    <2>2. CASE i # 1
      <3>1. i - 1 \in 1 .. N /\ f[i - 1] = (IF i - 1 <= n THEN q[i - 1] ELSE NULL)
        BY <1>1, <2>2
      <3>2. CASE i - 1 > n
        BY <3>1, <3>2, <2>2, <1>1
      <3>3. CASE i - 1 = n
        <4>1. l.next[q[n]] = NULL /\ q[n] # NULL
          BY <3>3, <2>2, <1>1 DEF Represents
        <4> QED BY <4>1, <3>1, <3>3, <2>2, <1>1
      <3>4. CASE i - 1 < n
        <4>1. i - 1 \in 1 .. n - 1 /\ i - 1 \in 1 .. n /\ (i - 1) + 1 = i /\ i <= n
          BY <3>4, <2>2, <1>1
        <4>2. l.next[q[i - 1]] = q[i] /\ q[i - 1] # NULL
          BY <4>1, <1>1 DEF Represents
        <4> QED BY <4>1, <4>2, <3>1, <2>2
      <3> QED BY <3>2, <3>3, <3>4, <1>1
    <2> QED BY <2>1, <2>2
  <1>3. Eq(f)
    BY <1>2
  <1>4. Eq(node)
    <2> HIDE DEF f, Eq
    <2> QED BY <1>3
  <1>5. DOMAIN node = 1 .. N
        /\ \A i \in 1 .. N : node[i] = IF i = 1 THEN l.head
                                     ELSE IF node[i - 1] = NULL THEN NULL
                                     ELSE l.next[node[i - 1]]
    <2> HIDE DEF node
    <2> QED BY <1>4
  <1> HIDE DEF node, f
  <1>6. \A i \in 1 .. N : node[i] = f[i]
    <2> DEFINE T == {i \in 0 .. N : i = 0 \/ node[i] = f[i]}
    <2>1. 0 \in T
      BY <1>1
    <2>2. ASSUME NEW i \in 1 .. N, i - 1 \in T PROVE i \in T
      <3>1. CASE i = 1
        BY <3>1, <1>2, <1>5
      <3>2. CASE i # 1
        <4>1. node[i - 1] = f[i - 1]
          BY <3>2, <2>2
        <4> QED BY <4>1, <3>2, <1>2, <1>5
      <3> QED BY <3>1, <3>2
    <2> HIDE DEF T
    <2>3. \A i \in 0 .. N : i \in T
      BY <1>1, <2>1, <2>2, Induct
    <2> USE DEF T
    <2> QED BY <2>3
  <1>7. \A i \in 1 .. N : node[i] = IF i <= n THEN q[i] ELSE NULL
    BY <1>6 DEF f
  <1>8. {i \in 1 .. N : node[i] # NULL} = 1 .. n
    BY <1>1, <1>7
  <1>9. Cardinality({i \in 1 .. N : node[i] # NULL}) = n
    <2>1. Cardinality(1 .. n) = n
      BY Members, FS_Interval DEF Represents
    <2> QED BY <2>1, <1>8
  <1>10. Walk(l) = [i \in 1 .. n |-> node[i]]
    BY <1>9 DEF Walk, node
  <1>11. q = [i \in 1 .. n |-> q[i]]
    BY <1>1
  <1> QED BY <1>1, <1>7, <1>10, <1>11

-----------------------------------------------------------------------------
(* The list holds the READY tasks, each of them once.                      *)
Holds(l, st, q) ==
  /\ Represents(l, q)
  /\ \A t \in Tasks : st[t] = "READY" <=> Contains(q, t)

(* One task is RUNNING, the boot and idle tasks never exit, and before the *)
(* sti nobody has.                                                         *)
ListIInv ==
  /\ state \in [Tasks -> {"DEAD", "READY", "RUNNING"}]
  /\ current_task \in Tasks /\ created \subseteq Tasks /\ sti \in BOOLEAN
  /\ \A t \in Tasks : state[t] = "RUNNING" <=> t = current_task
  /\ state[Boot] # "DEAD" /\ state[Idle] # "DEAD"
  /\ \A t \in Tasks : state[t] # "DEAD" => t \in created
  /\ ~sti => current_task = Boot /\ \A t \in created : state[t] # "DEAD"
  /\ \E q : Holds(list, state, q)

(* There is always somebody to switch to: of the boot and idle tasks one   *)
(* does not run.                                                           *)
LEMMA NeverEmpty ==
  ASSUME ListIInv, NEW q, Holds(list, state, q)
  PROVE  /\ q # <<>> /\ q \in Seq(Tasks) /\ Head(q) \in Tasks /\ list.head = Head(q)
         /\ Head(q) # current_task /\ list.head # NULL /\ ~Contains(q, current_task)
         /\ state[Head(q)] = "READY"
  <1>1. q \in Seq(Tasks)
    BY DEF Holds, Represents
  <1>2. \E t \in Tasks : state[t] = "READY"
    <2>1. PICK t \in {Boot, Idle} : t # current_task
      BY ReadyListAssumption
    <2>2. t \in Tasks /\ state[t] # "DEAD" /\ state[t] # "RUNNING"
      BY <2>1, ReadyListAssumption DEF ListIInv
    <2> QED BY <2>2 DEF ListIInv
  <1>3. q # <<>>
    <2>1. ASSUME q = <<>>, NEW t \in Tasks, Contains(q, t) PROVE FALSE
      <3>1. Len(q) = 0
        BY <2>1
      <3> QED BY <3>1, <2>1 DEF Contains
    <2> QED BY <1>2, <2>1 DEF Holds
  <1>4. /\ Head(q) \in Tasks /\ list.head = Head(q) /\ list.head # NULL
        /\ Contains(q, Head(q))
    BY <1>1, <1>3, PopDrops, TailContains DEF Holds
  <1>5. state[Head(q)] = "READY"
    BY <1>4 DEF Holds
  <1> QED BY <1>1, <1>3, <1>4, <1>5 DEF Holds, ListIInv

(* What task_create does to the queue.                                     *)
LEMMA CreateStep ==
  ASSUME ListIInv, NEW q, Holds(list, state, q), NEW t \in Tasks, task_create(t)
  PROVE  ListIInv' /\ Holds(list', state', Append(q, t))
  <1>1. /\ state[t] = "DEAD" /\ ~sti /\ state' = [state EXCEPT ![t] = "READY"]
        /\ created' = created \cup {t} /\ list' = ready_list_add(list, t)
        /\ current_task' = current_task /\ sti' = sti
    BY DEF task_create
  <1>2. ~Contains(q, t) /\ q \in Seq(Tasks)
    BY <1>1 DEF Holds, Represents
  <1>3. Represents(list', Append(q, t))
    BY <1>1, <1>2, AddAppends DEF Holds
  <1>4. /\ state'[t] = "READY" /\ \A u \in Tasks : u # t => state'[u] = state[u]
        /\ state' \in [Tasks -> {"DEAD", "READY", "RUNNING"}]
    BY <1>1 DEF ListIInv
  <1>5. \A u \in Tasks : state'[u] = "READY" <=> Contains(Append(q, t), u)
    BY <1>2, <1>4, AppendContains DEF Holds
  <1>6. Holds(list', state', Append(q, t))
    BY <1>3, <1>5 DEF Holds
  <1>7. \A u \in Tasks : state'[u] = "RUNNING" <=> u = current_task'
    BY <1>1, <1>4 DEF ListIInv
  <1> QED BY <1>1, <1>4, <1>6, <1>7, ReadyListAssumption DEF ListIInv

(* schedule, when the current task stays RUNNING (a tick), has become DEAD *)
(* (sys_exit), or is READY and on the list already (task_yield): the head  *)
(* runs, and who was running is last or gone.                              *)
LEMMA ScheduleStep ==
  ASSUME ListIInv, NEW q, Holds(list, state, q), NEW STATE st, NEW STATE l, schedule(st, l),
         UNCHANGED <<created, sti>>, sti \/ current_task \notin {Boot, Idle},
         \/ st = state /\ l = list
         \/ /\ st = [state EXCEPT ![current_task] = "DEAD"] /\ l = list
            /\ current_task \notin {Boot, Idle}
         \/ /\ st = [state EXCEPT ![current_task] = "READY"]
            /\ l = ready_list_add(list, current_task)
  PROVE  LET alive == st[current_task] # "DEAD"
             r == IF alive THEN Append(Tail(q), current_task) ELSE Tail(q)
         IN  /\ ListIInv' /\ Holds(list', state', r) /\ current_task' = Head(q)
             /\ \A t \in Tasks : state'[t] = IF t = Head(q) THEN "RUNNING"
                                            ELSE IF t # current_task THEN state[t]
                                            ELSE IF alive THEN "READY" ELSE "DEAD"
  <1> DEFINE alive == st[current_task] # "DEAD"
             r == IF alive THEN Append(Tail(q), current_task) ELSE Tail(q)
             h == Head(q)
  <1>1. /\ q # <<>> /\ q \in Seq(Tasks) /\ h \in Tasks /\ list.head = h
        /\ h # current_task /\ list.head # NULL /\ ~Contains(q, current_task)
        /\ state[h] = "READY" /\ current_task \in Tasks
        /\ state[current_task] = "RUNNING"
    BY NeverEmpty DEF ListIInv
  <1>2. /\ Tail(q) \in Seq(Tasks) /\ ~Contains(Tail(q), h)
        /\ ~Contains(Tail(q), current_task)
        /\ \A y : Contains(q, y) <=> Contains(Tail(q), y) \/ y = h
    BY <1>1, TailContains DEF Holds, Represents
  <1>3. Represents(ready_list_pop(list), Tail(q))
    BY <1>1, PopDrops DEF Holds
  <1>4. /\ l.head = h /\ current_task' = h /\ st \in [Tasks -> {"DEAD", "READY", "RUNNING"}]
        /\ \A t \in Tasks : t # current_task => st[t] = state[t]
        /\ list' = IF st[current_task] = "RUNNING"
                   THEN ready_list_add(ready_list_pop(l), current_task)
                   ELSE ready_list_pop(l)
        /\ state' = [st EXCEPT ![current_task] = IF st[current_task] = "RUNNING" THEN "READY" ELSE @,
                               ![h] = "RUNNING"]
    <2>1. l.head = h
      BY <1>1 DEF ready_list_add
    <2>2. st \in [Tasks -> {"DEAD", "READY", "RUNNING"}]
          /\ \A t \in Tasks : t # current_task => st[t] = state[t]
      BY <1>1 DEF ListIInv
    <2> QED BY <1>1, <2>1, <2>2 DEF schedule
  <1>5. Represents(list', r)
    <2>1. CASE st = state /\ l = list
      <3>1. alive /\ st[current_task] = "RUNNING"
        BY <1>1, <2>1
      <3> QED BY <1>1, <1>2, <1>3, <1>4, <2>1, <3>1, AddAppends
    <2>2. CASE st = [state EXCEPT ![current_task] = "DEAD"] /\ l = list
      <3>1. ~alive
        BY <1>1, <2>2 DEF ListIInv
      <3> QED BY <1>3, <1>4, <2>2, <3>1
    <2>3. CASE st = [state EXCEPT ![current_task] = "READY"]
               /\ l = ready_list_add(list, current_task)
      <3>1. alive /\ st[current_task] = "READY"
        BY <1>1, <2>3 DEF ListIInv
      <3>2. Represents(l, Append(q, current_task))
        BY <1>1, <2>3, AddAppends DEF Holds
      <3>3. Append(q, current_task) # <<>>
            /\ Tail(Append(q, current_task)) = Append(Tail(q), current_task)
        BY <1>1
      <3>4. Represents(ready_list_pop(l), Append(Tail(q), current_task))
        <4> DEFINE w == Append(q, current_task)
        <4>1. Represents(l, w) /\ w # <<>> /\ Tail(w) = Append(Tail(q), current_task)
          BY <3>2, <3>3
        <4> HIDE DEF w
        <4>2. Represents(ready_list_pop(l), Tail(w))
          BY <4>1, PopDrops
        <4> QED BY <4>1, <4>2
      <3> QED BY <1>4, <3>1, <3>4
    <2> QED BY <2>1, <2>2, <2>3
  <1>6. /\ state' \in [Tasks -> {"DEAD", "READY", "RUNNING"}]
        /\ \A t \in Tasks : state'[t] = IF t = h THEN "RUNNING"
                                       ELSE IF t # current_task THEN state[t]
                                       ELSE IF alive THEN "READY" ELSE "DEAD"
    <2>1. st[current_task] \in {"DEAD", "READY", "RUNNING"}
      BY <1>1, <1>4
    <2> QED BY <1>1, <1>4, <2>1
  <1>7. \A y : Contains(r, y) <=> Contains(Tail(q), y) \/ (alive /\ y = current_task)
    <2>1. CASE alive
      <3> DEFINE u == Tail(q)
      <3>1. r = Append(u, current_task) /\ u \in Seq(Tasks) /\ current_task \in Tasks
        BY <2>1, <1>1, <1>2
      <3> HIDE DEF u, r
      <3>2. \A y : Contains(r, y) <=> Contains(u, y) \/ y = current_task
        BY <3>1, AppendContains
      <3> QED BY <2>1, <3>2 DEF u
    <2>2. CASE ~alive
      BY <2>2
    <2> QED BY <2>1, <2>2
  <1>8. \A t \in Tasks : state'[t] = "READY" <=> Contains(r, t)
    BY <1>1, <1>2, <1>6, <1>7 DEF Holds
  <1>9. Holds(list', state', r)
    BY <1>5, <1>8 DEF Holds
  <1>10. \A t \in Tasks : state'[t] = "RUNNING" <=> t = current_task'
    BY <1>1, <1>4, <1>6 DEF ListIInv
  <1>11. /\ state'[Boot] # "DEAD" /\ state'[Idle] # "DEAD"
         /\ \A t \in Tasks : state'[t] # "DEAD" => t \in created
    <2>1. alive \/ current_task \notin {Boot, Idle}
      BY <1>1 DEF ListIInv
    <2> QED BY <2>1, <1>1, <1>6, ReadyListAssumption DEF ListIInv
  <1>12. sti
    BY DEF ListIInv
  <1> QED BY <1>1, <1>4, <1>6, <1>9, <1>10, <1>11, <1>12 DEF ListIInv

(* kinit_task's list holds the idle task.                                  *)
LEMMA InitListIInv == ListInit => ListIInv /\ Holds(list, state, <<Idle>>)
  <1> SUFFICES ASSUME ListInit PROVE ListIInv /\ Holds(list, state, <<Idle>>)
    OBVIOUS
  <1>1. Represents(Empty, <<>>)
    BY DEF Empty, Represents, IsInjective, Contains
  <1>2. ~Contains(<<>>, Idle) /\ Idle \in Tasks /\ Append(<<>>, Idle) = <<Idle>>
    BY ReadyListAssumption DEF Contains
  <1>3. Represents(list, <<Idle>>)
    BY <1>1, <1>2, AddAppends DEF ListInit
  <1>4. \A t \in Tasks : state[t] = "READY" <=> t = Idle
    BY ReadyListAssumption DEF ListInit
  <1>5. \A t : Contains(<<Idle>>, t) <=> t = Idle
    BY DEF Contains
  <1>6. Holds(list, state, <<Idle>>)
    BY <1>3, <1>4, <1>5 DEF Holds
  <1>7. /\ state \in [Tasks -> {"DEAD", "READY", "RUNNING"}]
        /\ \A t \in Tasks : state[t] = "RUNNING" <=> t = Boot
        /\ \A t \in Tasks : state[t] = "DEAD" <=> t \notin {Boot, Idle}
    BY ReadyListAssumption DEF ListInit
  <1> QED BY <1>6, <1>7, ReadyListAssumption DEF ListInit, ListIInv

(* The state and list a call of schedule starts from, per caller.          *)
LEMMA TickStep ==
  ASSUME ListIInv, NEW q, Holds(list, state, q), Tick \/ task_yield
  PROVE  /\ ListIInv' /\ Holds(list', state', Append(Tail(q), current_task))
         /\ current_task' = Head(q) /\ created' = created
         /\ \A t \in Tasks : state'[t] = "DEAD" <=> state[t] = "DEAD"
  <1>1. current_task \in Tasks /\ state[current_task] = "RUNNING"
        /\ Head(q) \in Tasks /\ state[Head(q)] = "READY" /\ created' = created
    BY NeverEmpty DEF ListIInv, Tick, task_yield
  <1>2. CASE Tick
    <2>1. schedule(state, list) /\ UNCHANGED <<created, sti>> /\ sti
      BY <1>2 DEF Tick
    <2> QED BY <1>1, <2>1, ScheduleStep
  <1>3. CASE task_yield
    <2> DEFINE st == [state EXCEPT ![current_task] = "READY"]
               l == ready_list_add(list, current_task)
    <2>1. schedule(st, l) /\ UNCHANGED <<created, sti>> /\ sti
      BY <1>3 DEF task_yield, MayYield
    <2>2. st[current_task] # "DEAD"
      BY <1>1 DEF ListIInv
    <2>3. /\ st = [state EXCEPT ![current_task] = "READY"]
          /\ l = ready_list_add(list, current_task)
      OBVIOUS
    <2> HIDE DEF st, l
    <2> QED BY <1>1, <2>1, <2>2, <2>3, ScheduleStep
  <1> QED BY <1>2, <1>3

(* sys_exit takes the running task off for good.                           *)
LEMMA ExitStep ==
  ASSUME ListIInv, NEW q, Holds(list, state, q), sys_exit
  PROVE  /\ ListIInv' /\ Holds(list', state', Tail(q))
         /\ current_task' = Head(q) /\ created' = created
         /\ \A t \in Tasks : state'[t] = "DEAD" <=> state[t] = "DEAD" \/ t = current_task
  <1> DEFINE st == [state EXCEPT ![current_task] = "DEAD"]
  <1>1. current_task \in Tasks /\ state[current_task] = "RUNNING" /\ Head(q) # current_task
        /\ Head(q) \in Tasks /\ state[Head(q)] = "READY" /\ created' = created
    BY NeverEmpty DEF ListIInv, sys_exit
  <1>2. schedule(st, list) /\ UNCHANGED <<created, sti>> /\ current_task \notin {Boot, Idle}
    BY ReadyListAssumption DEF sys_exit
  <1>3. st[current_task] = "DEAD"
    BY <1>1 DEF ListIInv
  <1>4. st = [state EXCEPT ![current_task] = "DEAD"]
    OBVIOUS
  <1> HIDE DEF st
  <1> QED BY <1>1, <1>2, <1>3, <1>4, ScheduleStep

(* Every operation keeps the invariant.                                    *)
LEMMA NextListIInv == ListIInv /\ [ListNext]_list_vars => ListIInv'
  <1> SUFFICES ASSUME ListIInv, [ListNext]_list_vars PROVE ListIInv'
    OBVIOUS
  <1>1. PICK q : Holds(list, state, q)
    BY DEF ListIInv
  <1>2. ASSUME NEW t \in Tasks, task_create(t) PROVE ListIInv'
    BY <1>1, <1>2, CreateStep
  <1>3. CASE Tick \/ task_yield
    BY <1>1, <1>3, TickStep
  <1>4. CASE sys_exit
    BY <1>1, <1>4, ExitStep
  <1>5. CASE Sti
    BY <1>5 DEF Sti, ListIInv
  <1>6. CASE UNCHANGED list_vars
    BY <1>6 DEF list_vars, ListIInv
  <1> QED BY <1>2, <1>3, <1>4, <1>5, <1>6 DEF ListNext

(* The invariant holds throughout.                                         *)
LEMMA ListInvariance == ListSpec => []ListIInv
  BY InitListIInv, NextListIInv, PTL DEF ListSpec

(* Through task_create, ticks, sys_exit and task_yield in any order, the   *)
(* pointers are those of a list, ready_tail is its last task, and no READY *)
(* task is lost.                                                           *)
THEOREM WellFormed == ListSpec => []ListWellFormed
  <1>1. ListIInv => ListWellFormed
    <2> SUFFICES ASSUME ListIInv PROVE ListWellFormed
      OBVIOUS
    <2>1. PICK q : Holds(list, state, q)
      BY DEF ListIInv
    <2>2. Represents(list, q) /\ Walk(list) = q
      BY <2>1, WalkIs DEF Holds
    <2>3. /\ q \in Seq(Tasks) /\ Len(q) <= Cardinality(Tasks)
          /\ \A i \in 1 .. Len(q) : q[i] \in Tasks
          /\ Len(q) \in Nat /\ (q = <<>> <=> Len(q) = 0)
      BY <2>2, Members, AtMostAll DEF Represents
    <2>4. /\ list.head \in Tasks \cup {NULL} /\ list.tail \in Tasks \cup {NULL}
          /\ list.next \in [Tasks -> Tasks \cup {NULL}]
      BY <2>2, <2>3 DEF Represents
    <2>5. ListTypeOK
      BY <2>4 DEF ListTypeOK, ListIInv
    <2>6. list.tail = IF q = <<>> THEN NULL ELSE Last(q)
      BY <2>2 DEF Represents, Last
    <2> QED BY <2>1, <2>2, <2>3, <2>5, <2>6 DEF ListWellFormed, Holds, Represents
  <1> QED BY <1>1, ListInvariance, PTL

(* task_yield always gives the CPU to another task.                        *)
THEOREM YieldSwitches == ListSpec => []YieldsToAnother
  <1>1. ListIInv => YieldsToAnother
    <2> SUFFICES ASSUME ListIInv PROVE ready_list_add(list, current_task).head # current_task
      BY DEF YieldsToAnother
    <2>1. PICK q : Holds(list, state, q)
      BY DEF ListIInv
    <2>2. list.head # NULL /\ list.head # current_task
      BY <2>1, NeverEmpty
    <2> QED BY <2>2 DEF ready_list_add
  <1> QED BY <1>1, ListInvariance, PTL

(* The pointer code takes the turns of RoundRobin: first in, first out,    *)
(* and who exits never comes back.                                         *)
THEOREM ListRefinement == ListSpec => ImplementsRoundRobin
  <1> DEFINE Gone(st, c) == {t \in c : st[t] = "DEAD"}
  <1>1. ListInit => RR!Init
    <2> SUFFICES ASSUME ListInit PROVE RR!Init
      OBVIOUS
    <2>1. Walk(list) = <<Idle>>
      BY InitListIInv, WalkIs DEF Holds
    <2>2. {t \in created : state[t] = "DEAD"} = {}
      BY ReadyListAssumption DEF ListInit
    <2> QED BY <2>1, <2>2 DEF ListInit, RR!Init
  <1>2. ListIInv /\ [ListNext]_list_vars => [RR!Next]_(RR!vars)
    <2> SUFFICES ASSUME ListIInv, [ListNext]_list_vars PROVE RR!Next \/ UNCHANGED RR!vars
      BY DEF RR!vars
    <2>1. PICK q : Holds(list, state, q)
      BY DEF ListIInv
    <2>2. /\ Walk(list) = q /\ q # <<>> /\ current_task \in Tasks
          /\ ~Contains(q, current_task) /\ created \subseteq Tasks
          /\ current_task \in created /\ state[current_task] = "RUNNING"
      BY <2>1, WalkIs, NeverEmpty DEF Holds, ListIInv
    <2>3. ASSUME NEW t \in Tasks, task_create(t) PROVE RR!Next
      <3>1. Walk(list') = Append(q, t)
        BY <2>1, <2>3, CreateStep, WalkIs DEF Holds
      <3>2. /\ state[t] = "DEAD" /\ ~sti /\ state' = [state EXCEPT ![t] = "READY"]
            /\ created' = created \cup {t} /\ current_task' = current_task
        BY <2>3 DEF task_create
      <3>3. ~Contains(q, t) /\ t # current_task /\ t \notin created
        BY <2>1, <2>2, <3>2 DEF Holds, ListIInv
      <3>4. Gone(state', created') = Gone(state, created)
        BY <3>2, <3>3 DEF ListIInv
      <3>5. RR!Spawn(t)
        BY <2>2, <3>1, <3>2, <3>3, <3>4 DEF RR!Spawn, RR!Contains, Contains
      <3> QED BY <3>5 DEF RR!Next
    <2>4. CASE Tick \/ task_yield
      <3>1. /\ Walk(list') = Append(Tail(q), current_task) /\ current_task' = Head(q)
            /\ created' = created /\ \A t \in Tasks : state'[t] = "DEAD" <=> state[t] = "DEAD"
        BY <2>1, <2>4, TickStep, WalkIs DEF Holds
      <3>2. Gone(state', created') = Gone(state, created)
        BY <2>2, <3>1
      <3>3. RR!Rotate
        BY <2>2, <3>1, <3>2 DEF RR!Rotate
      <3> QED BY <3>3 DEF RR!Next
    <2>5. CASE sys_exit
      <3>1. /\ Walk(list') = Tail(q) /\ current_task' = Head(q) /\ created' = created
            /\ \A t \in Tasks : state'[t] = "DEAD" <=> state[t] = "DEAD" \/ t = current_task
        BY <2>1, <2>5, ExitStep, WalkIs DEF Holds
      <3>2. Gone(state', created') = Gone(state, created) \cup {current_task}
        BY <2>2, <3>1
      <3>3. RR!Exit
        BY <2>2, <3>1, <3>2 DEF RR!Exit
      <3> QED BY <3>3 DEF RR!Next
    <2>6. CASE Sti \/ UNCHANGED list_vars
      BY <2>6 DEF Sti, list_vars, RR!vars
    <2> QED BY <2>3, <2>4, <2>5, <2>6 DEF ListNext
  <1> QED BY <1>1, <1>2, ListInvariance, PTL DEF ListSpec, ImplementsRoundRobin, RR!Spec

-----------------------------------------------------------------------------
Rec == [size : Nat, magic : BOOLEAN, ptr : Nat, asked : Nat]
Top(bl, a) == a + BLOCK_HEADER_SIZE + bl[a].size
Held(bl, a) == bl[a].magic

(* The record of a block at a fits the heap that ends at end.              *)
Fit(r, a) ==
  r.magic => /\ a + BLOCK_HEADER_SIZE <= r.ptr
             /\ r.ptr + r.asked <= a + BLOCK_HEADER_SIZE + r.size

(* What holds of the blocks, whichever operation is under way.             *)
Typed(bl) == DOMAIN bl \subseteq Nat /\ bl \in [DOMAIN bl -> Rec]
Apart(bl) == \A a, b \in DOMAIN bl : a < b => Top(bl, a) <= b
Sound(bl, end) ==
  /\ Typed(bl)
  /\ \A a \in DOMAIN bl : bl[a].size >= WORD
  /\ \A a \in DOMAIN bl : Top(bl, a) <= end
  /\ Apart(bl)
  /\ \A a \in DOMAIN bl : Fit(bl[a], a)

(* The list fl holds the members of fs, each once.                         *)
Lists(fl, fs) == fl \in Seq(Nat) /\ IsInjective(fl) /\ ToSet(fl) = fs
Unheld(bl) == {a \in DOMAIN bl : ~bl[a].magic}

(* From the blocks b1 to the blocks b2: no byte is lost, and callers hold  *)
(* the same pieces.                                                        *)
Bytes(bl) == UNION {a .. Top(bl, a) - 1 : a \in DOMAIN bl}
SameHeld(b1, b2) ==
  /\ \A a \in DOMAIN b1 : b1[a].magic => a \in DOMAIN b2 /\ b2[a] = b1[a]
  /\ \A a \in DOMAIN b2 : b2[a].magic => a \in DOMAIN b1 /\ b1[a].magic

-----------------------------------------------------------------------------
(* Numbers.                                                                *)
LEMMA Sizes0 ==
  /\ WORD \in Nat \ {0} /\ BLOCK_HEADER_SIZE \in Nat \ {0} /\ MIN_BLOCK_SIZE \in Nat
  /\ MIN_BLOCK_SIZE = BLOCK_HEADER_SIZE + 2 * WORD /\ PMM_FRAME_SIZE \in Nat \ {0}
  /\ WORD < BLOCK_HEADER_SIZE
  BY HeapAssumption

(* Rounding up goes up, by less than the alignment.                        *)
LEMMA AlignUp ==
  ASSUME NEW v \in Nat, NEW al \in Nat \ {0}
  PROVE  /\ align_up(v, al) \in Nat
         /\ v <= align_up(v, al) /\ align_up(v, al) <= v + al - 1
         /\ v > 0 => align_up(v, al) >= al
  <1> DEFINE q == (v + al - 1) \div al
  <1>1. q \in Nat /\ q * al <= v + al - 1 /\ v + al - 1 < (q + 1) * al
    OBVIOUS
  <1>2. q * al \in Nat /\ (q + 1) * al = q * al + al
    BY <1>1
  <1>3. ASSUME v > 0 PROVE q * al >= al
    <2>1. q # 0
      BY <1>1, <1>2, <1>3
    <2>2. (q - 1) * al >= 0 /\ (q - 1) * al = q * al - al
      BY <1>1, <2>1
    <2> QED BY <1>2, <2>2
  <1> QED BY <1>1, <1>2, <1>3 DEF align_up

(* The pages kmalloc asks for hold the header and what is needed.          *)
LEMMA PagesEnough ==
  ASSUME NEW n \in Nat
  PROVE  /\ PagesNeeded(n) \in Nat
         /\ PagesNeeded(n) * PMM_FRAME_SIZE \in Nat
         /\ PagesNeeded(n) * PMM_FRAME_SIZE >= n + BLOCK_HEADER_SIZE
  <1> DEFINE f == PMM_FRAME_SIZE
             m == n + BLOCK_HEADER_SIZE
  <1>1. f \in Nat \ {0} /\ m \in Nat
    BY Sizes0
  <1>2. PagesNeeded(n) = (m + f - 1) \div f
    BY DEF PagesNeeded
  <1> HIDE DEF f, m
  <1> DEFINE q == (m + f - 1) \div f
  <1>3. q \in Nat /\ m + f - 1 < (q + 1) * f
    BY <1>1
  <1>4. (q + 1) * f = q * f + f /\ q * f \in Nat
    BY <1>1, <1>3
  <1>5. q * f >= m
    BY <1>1, <1>3, <1>4
  <1> QED BY <1>2, <1>3, <1>4, <1>5 DEF f, m

(* A page is at least three words: the first block has room for a pointer. *)
LEMMA FirstBlock ==
  /\ INITIAL_PAGES * PMM_FRAME_SIZE \in Nat
  /\ INITIAL_PAGES * PMM_FRAME_SIZE - BLOCK_HEADER_SIZE \in Nat
  /\ INITIAL_PAGES * PMM_FRAME_SIZE - BLOCK_HEADER_SIZE >= WORD
  <1> DEFINE k == PMM_FRAME_SIZE \div WORD
             f == PMM_FRAME_SIZE
             p == INITIAL_PAGES
  <1>1. f \in Nat /\ f > 2 * WORD /\ BLOCK_HEADER_SIZE = 2 * WORD /\ f % WORD = 0 /\ WORD \in Nat \ {0}
        /\ p \in Nat \ {0}
    BY HeapAssumption
  <1> HIDE DEF f, p
  <1>2. k \in Nat /\ f = k * WORD
    BY <1>1 DEF f
  <1> HIDE DEF k
  <1>3. k >= 3
    <2>1. ASSUME k <= 2 PROVE FALSE
      <3>1. k * WORD <= 2 * WORD
        BY <1>1, <1>2, <2>1
      <3> QED BY <1>1, <1>2, <3>1
    <2> QED BY <1>2, <2>1
  <1>4. f >= 3 * WORD
    <2>1. (k - 3) * WORD >= 0 /\ (k - 3) * WORD = k * WORD - 3 * WORD
      BY <1>1, <1>2, <1>3
    <2> QED BY <1>1, <1>2, <2>1
  <1>5. p * f >= f /\ p * f \in Nat
    <2>1. (p - 1) * f >= 0 /\ (p - 1) * f = p * f - f
      BY <1>1
    <2> QED BY <1>1, <2>1
  <1> QED BY <1>1, <1>4, <1>5 DEF f, p

-----------------------------------------------------------------------------
(* Blocks.                                                                 *)
LEMMA Fields ==
  ASSUME NEW bl, Typed(bl), NEW a \in DOMAIN bl
  PROVE  /\ a \in Nat /\ bl[a] \in Rec /\ bl[a].size \in Nat /\ bl[a].magic \in BOOLEAN
         /\ bl[a].ptr \in Nat /\ bl[a].asked \in Nat /\ Top(bl, a) \in Nat
  <1>1. a \in Nat /\ bl[a] \in Rec
    BY DEF Typed
  <1>2. bl[a].size \in Nat /\ bl[a].magic \in BOOLEAN /\ bl[a].ptr \in Nat /\ bl[a].asked \in Nat
    BY <1>1 DEF Rec
  <1> QED BY <1>1, <1>2, Sizes0 DEF Top

LEMMA FreeRec ==
  ASSUME NEW n \in Nat
  PROVE  /\ FreeBlock(n) \in Rec /\ FreeBlock(n).size = n /\ ~FreeBlock(n).magic
         /\ \A a : Fit(FreeBlock(n), a)
  BY DEF FreeBlock, Rec, Fit

(* A block changes and does not grow.                                      *)
LEMMA SoundChange ==
  ASSUME NEW bl, NEW end \in Nat, Sound(bl, end), NEW a \in DOMAIN bl,
         NEW r \in Rec, WORD <= r.size, r.size <= bl[a].size, Fit(r, a)
  PROVE  Sound([bl EXCEPT ![a] = r], end)
  <1> DEFINE c == [bl EXCEPT ![a] = r]
  <1>1. DOMAIN c = DOMAIN bl /\ c[a] = r /\ \A x \in DOMAIN bl : x # a => c[x] = bl[x]
    BY DEF Sound, Typed
  <1>2. Typed(c)
    BY DEF Sound, Typed
  <1> HIDE DEF c
  <1>3. \A x \in DOMAIN bl : x \in Nat /\ bl[x].size \in Nat /\ c[x].size \in Nat
    BY <1>1, <1>2, Fields DEF Sound
  <1>4. \A x \in DOMAIN bl : c[x].size >= WORD /\ Fit(c[x], x) /\ c[x].size <= bl[x].size
    BY <1>1, <1>3 DEF Sound
  <1>5. \A x \in DOMAIN bl : Top(c, x) <= Top(bl, x) /\ Top(c, x) \in Nat /\ Top(bl, x) \in Nat
    BY <1>3, <1>4, Sizes0 DEF Top
  <1>6. \A x \in DOMAIN c : Top(c, x) <= end
    BY <1>1, <1>5 DEF Sound
  <1>7. Apart(c)
    BY <1>1, <1>3, <1>5 DEF Sound, Apart
  <1> QED BY <1>1, <1>2, <1>4, <1>6, <1>7 DEF Sound, c

(* A block is added where there was none.                                  *)
LEMMA SoundAdd ==
  ASSUME NEW bl, NEW end \in Nat, Sound(bl, end), NEW e2 \in Nat, end <= e2,
         NEW a \in Nat, a \notin DOMAIN bl, NEW r \in Rec, WORD <= r.size, Fit(r, a),
         a + BLOCK_HEADER_SIZE + r.size <= e2,
         \A x \in DOMAIN bl : Top(bl, x) <= a \/ a + BLOCK_HEADER_SIZE + r.size <= x
  PROVE  Sound(With(bl, a, r), e2)
  <1> DEFINE c == With(bl, a, r)
             t == a + BLOCK_HEADER_SIZE + r.size
  <1>1. /\ DOMAIN c = DOMAIN bl \cup {a} /\ c[a] = r
        /\ \A x \in DOMAIN bl : c[x] = bl[x]
    BY DEF Sound, Typed, With
  <1>2. Typed(c)
    <2>1. \A x \in DOMAIN c : c[x] \in Rec
      BY <1>1 DEF Sound, Typed
    <2>2. c = [x \in DOMAIN c |-> c[x]]
      BY <1>1 DEF With
    <2> HIDE DEF c
    <2> QED BY <1>1, <2>1, <2>2 DEF Sound, Typed
  <1> HIDE DEF c
  <1>3. r.size \in Nat /\ t \in Nat /\ t > a /\ Top(c, a) = t
    BY <1>1, Sizes0 DEF Rec, Top
  <1>4. \A x \in DOMAIN bl : x \in Nat /\ Top(bl, x) \in Nat /\ Top(c, x) = Top(bl, x) /\ x < Top(bl, x)
    <2> TAKE x \in DOMAIN bl
    <2>1. x \in Nat /\ bl[x].size \in Nat /\ Top(bl, x) \in Nat
      BY Fields DEF Sound
    <2> QED BY <1>1, <2>1, Sizes0 DEF Top
  <1>5. \A x \in DOMAIN c : c[x].size >= WORD /\ Fit(c[x], x)
    BY <1>1, <1>3, Sizes0 DEF Sound
  <1>6. \A x \in DOMAIN c : Top(c, x) <= e2
    BY <1>1, <1>3, <1>4 DEF Sound
  <1>7. Apart(c)
    <2> SUFFICES ASSUME NEW x \in DOMAIN c, NEW y \in DOMAIN c, x < y PROVE Top(c, x) <= y
      BY DEF Apart
    <2> HIDE DEF t
    <2>0. \A z \in DOMAIN bl : Top(bl, z) <= a \/ t <= z
      BY DEF t
    <2>1. CASE x = a
      BY <1>1, <1>3, <1>4, <2>0, <2>1
    <2>2. CASE y = a
      BY <1>1, <1>3, <1>4, <2>0, <2>2
    <2>3. CASE x # a /\ y # a
      BY <1>1, <1>4, <2>3 DEF Sound, Apart
    <2> QED BY <2>1, <2>2, <2>3
  <1> QED BY <1>2, <1>5, <1>6, <1>7 DEF Sound, c

(* Two blocks next to each other become one.                               *)
Joined(bl, a, b) ==
  Without([bl EXCEPT ![a].size = @ + BLOCK_HEADER_SIZE + bl[b].size], b)

LEMMA SoundJoin ==
  ASSUME NEW bl, NEW end \in Nat, Sound(bl, end), NEW a \in DOMAIN bl, NEW b \in DOMAIN bl,
         Top(bl, a) = b, ~bl[a].magic, ~bl[b].magic
  PROVE  /\ Sound(Joined(bl, a, b), end)
         /\ DOMAIN Joined(bl, a, b) = DOMAIN bl \ {b}
         /\ a # b
         /\ Bytes(bl) \subseteq Bytes(Joined(bl, a, b))
         /\ SameHeld(bl, Joined(bl, a, b))
         /\ Unheld(Joined(bl, a, b)) = Unheld(bl) \ {b}
  <1> DEFINE e == [bl EXCEPT ![a].size = @ + BLOCK_HEADER_SIZE + bl[b].size]
             c == Joined(bl, a, b)
             z == bl[a].size + BLOCK_HEADER_SIZE + bl[b].size
  <1>1. \A x \in DOMAIN bl : /\ x \in Nat /\ bl[x].size \in Nat /\ Top(bl, x) \in Nat
                             /\ x < Top(bl, x) /\ bl[x] \in Rec
    <2> TAKE x \in DOMAIN bl
    <2>1. x \in Nat /\ bl[x].size \in Nat /\ Top(bl, x) \in Nat /\ bl[x] \in Rec
      BY Fields DEF Sound
    <2> QED BY <2>1, Sizes0 DEF Top
  <1>2. a # b
    BY <1>1
  <1>3. z \in Nat
    BY <1>1, Sizes0
  <1>4. /\ e[a] = [size |-> z, magic |-> bl[a].magic, ptr |-> bl[a].ptr, asked |-> bl[a].asked]
        /\ DOMAIN e = DOMAIN bl /\ \A x \in DOMAIN bl : x # a => e[x] = bl[x]
    BY <1>1, <1>3 DEF Sound, Typed, Rec
  <1>5. /\ DOMAIN c = DOMAIN bl \ {b} /\ c[a] = e[a]
        /\ \A x \in DOMAIN bl \ {b} : x # a => c[x] = bl[x]
        /\ c = [x \in DOMAIN c |-> c[x]]
    BY <1>2, <1>4 DEF Joined, Without
  <1>6. c[a] \in Rec /\ c[a].size = z /\ ~c[a].magic /\ a \in DOMAIN c
    BY <1>1, <1>2, <1>3, <1>4, <1>5 DEF Rec
  <1> HIDE DEF c, e, z
  <1>7. Typed(c)
    <2>1. \A x \in DOMAIN c : c[x] \in Rec
      BY <1>1, <1>5, <1>6
    <2> QED BY <1>1, <1>5, <2>1 DEF Typed
  <1>8. Top(c, a) = Top(bl, b) /\ \A x \in DOMAIN c : x # a => Top(c, x) = Top(bl, x)
    BY <1>1, <1>5, <1>6, Sizes0 DEF Top, z
  <1>9. \A x \in DOMAIN c : c[x].size >= WORD
    <2>1. bl[a].size >= WORD
      BY DEF Sound
    <2>2. z >= WORD
      BY <1>1, <2>1, Sizes0 DEF z
    <2> QED BY <2>2, <1>5, <1>6 DEF Sound
  <1>10. \A x \in DOMAIN c : Fit(c[x], x)
    <2>1. Fit(c[a], a)
      BY <1>6 DEF Fit
    <2> QED BY <2>1, <1>5 DEF Sound
  <1>11. \A x \in DOMAIN c : Top(c, x) <= end
    BY <1>5, <1>8 DEF Sound
  <1>12. Apart(c)
    <2> SUFFICES ASSUME NEW x \in DOMAIN c, NEW y \in DOMAIN c, x < y PROVE Top(c, x) <= y
      BY DEF Apart
    <2>0. \A u, v \in DOMAIN bl : u < v => Top(bl, u) <= v
      BY DEF Sound, Apart
    <2>1. CASE x = a
      <3>1. Top(bl, a) <= y
        BY <2>0, <2>1, <1>5
      <3>2. y # b
        BY <1>5
      <3>3. b < y
        BY <3>1, <3>2, <1>1, <1>5
      <3> QED BY <3>3, <2>0, <2>1, <1>5, <1>8
    <2>2. CASE x # a
      BY <2>0, <2>2, <1>5, <1>8
    <2> QED BY <2>1, <2>2
  <1>13. Sound(c, end)
    BY <1>7, <1>9, <1>10, <1>11, <1>12 DEF Sound
  <1>14. Bytes(bl) \subseteq Bytes(c)
    <2> SUFFICES ASSUME NEW x \in DOMAIN bl, NEW n \in x .. Top(bl, x) - 1
                 PROVE  \E y \in DOMAIN c : n \in y .. Top(c, y) - 1
      BY DEF Bytes
    <2>1. CASE x = a
      <3>1. n \in a .. Top(c, a) - 1
        BY <2>1, <1>1, <1>8
      <3> QED BY <3>1, <1>6
    <2>2. CASE x = b
      <3>1. n \in a .. Top(c, a) - 1
        BY <2>2, <1>1, <1>8
      <3> QED BY <3>1, <1>6
    <2>3. CASE x # a /\ x # b
      BY <2>3, <1>5, <1>8
    <2> QED BY <2>1, <2>2, <2>3
  <1>15. SameHeld(bl, c)
    BY <1>5, <1>6 DEF SameHeld
  <1>16. Unheld(c) = Unheld(bl) \ {b}
    BY <1>5, <1>6 DEF Unheld
  <1> QED BY <1>2, <1>5, <1>13, <1>14, <1>15, <1>16 DEF c

(* One change after another.                                               *)
LEMMA SameHeldTransitive ==
  ASSUME NEW b1, NEW b2, NEW b3, SameHeld(b1, b2), SameHeld(b2, b3)
  PROVE  SameHeld(b1, b3)
  <1>1. \A a \in DOMAIN b1 : b1[a].magic => a \in DOMAIN b2 /\ b2[a] = b1[a] /\ b2[a].magic
    BY DEF SameHeld
  <1> QED BY <1>1 DEF SameHeld

-----------------------------------------------------------------------------
(* The operations.                                                         *)
Good(bl, fl, end) == Sound(bl, end) /\ Lists(fl, Unheld(bl))

(* From b1 to b2 the block a becomes a caller's, and nothing else does.    *)
Takes(b1, b2, a) ==
  /\ a \in DOMAIN b2 /\ b2[a].magic
  /\ \A x \in DOMAIN b1 : b1[x].magic => x # a /\ x \in DOMAIN b2 /\ b2[x] = b1[x]
  /\ \A x \in DOMAIN b2 : b2[x].magic /\ x # a => x \in DOMAIN b1 /\ b1[x].magic

LEMMA TakesAfter ==
  ASSUME NEW b1, NEW b2, NEW b3, NEW a, SameHeld(b1, b2), Takes(b2, b3, a)
  PROVE  Takes(b1, b3, a)
  <1>1. \A x \in DOMAIN b1 : b1[x].magic => x \in DOMAIN b2 /\ b2[x] = b1[x] /\ b2[x].magic
    BY DEF SameHeld
  <1>2. \A x \in DOMAIN b2 : b2[x].magic => x \in DOMAIN b1 /\ b1[x].magic
    BY DEF SameHeld
  <1> QED BY <1>1, <1>2 DEF Takes

(* Coalesce, on any list and at any index.                                 *)
LEMMA CoalesceKeeps ==
  ASSUME NEW h, NEW end \in Nat, Good(h.block, h.free, end), NEW i \in Int
  PROVE  /\ Good(Coalesce(h, i).block, Coalesce(h, i).free, end)
         /\ Bytes(h.block) \subseteq Bytes(Coalesce(h, i).block)
         /\ SameHeld(h.block, Coalesce(h, i).block)
  <1> DEFINE bl == h.block
             fl == h.free
             a == fl[i]
             b == fl[i + 1]
             joins == i \in 1 .. Len(fl) - 1 /\ a + BLOCK_HEADER_SIZE + bl[a].size = b
  <1>1. CASE joins
    <2>1. fl \in Seq(Nat) /\ i \in 1 .. Len(fl) /\ i + 1 \in 1 .. Len(fl) /\ IsInjective(fl)
      BY <1>1 DEF Good, Lists
    <2>2. a \in Unheld(bl) /\ b \in Unheld(bl)
      BY <2>1 DEF Good, Lists, ToSet
    <2>3. a \in DOMAIN bl /\ b \in DOMAIN bl /\ ~bl[a].magic /\ ~bl[b].magic
      BY <2>2 DEF Unheld
    <2>4. Top(bl, a) = b
      BY <1>1 DEF Top
    <2>5. Coalesce(h, i) = [block |-> Joined(bl, a, b), free |-> RemoveAt(fl, i + 1)]
      BY <1>1 DEF Coalesce, Joined
    <2>6. Coalesce(h, i).block = Joined(bl, a, b) /\ Coalesce(h, i).free = RemoveAt(fl, i + 1)
      BY <2>5
    <2>7. /\ RemoveAt(fl, i + 1) \in Seq(Nat) /\ IsInjective(RemoveAt(fl, i + 1))
          /\ ToSet(RemoveAt(fl, i + 1)) = ToSet(fl) \ {b}
      <3> HIDE DEF fl
      <3>1. \A k \in 1 .. Len(fl) :
              /\ RemoveAt(fl, k) \in Seq(Nat) /\ IsInjective(RemoveAt(fl, k))
              /\ ToSet(RemoveAt(fl, k)) = ToSet(fl) \ {fl[k]}
        BY <2>1, RemoveMembers, Zenon
      <3> QED BY <3>1, <2>1
    <2>8. Sound(bl, end) /\ ToSet(fl) = Unheld(bl)
      BY DEF Good, Lists
    <2> HIDE DEF a, b, bl, fl
    <2>9. /\ Sound(Joined(bl, a, b), end) /\ Bytes(bl) \subseteq Bytes(Joined(bl, a, b))
          /\ SameHeld(bl, Joined(bl, a, b)) /\ Unheld(Joined(bl, a, b)) = Unheld(bl) \ {b}
      BY <2>3, <2>4, <2>8, SoundJoin, Zenon
    <2>10. Lists(RemoveAt(fl, i + 1), Unheld(Joined(bl, a, b)))
      BY <2>7, <2>8, <2>9 DEF Lists
    <2> QED BY <2>6, <2>9, <2>10 DEF Good, bl
  <1>2. CASE ~joins
    <2>1. Coalesce(h, i) = h
      BY <1>2 DEF Coalesce
    <2>2. SameHeld(bl, bl)
      BY DEF SameHeld
    <2> QED BY <2>1, <2>2
  <1> QED BY <1>1, <1>2

(* split_block, and the block split taken off the list.                    *)
LEMMA SplitKeeps ==
  ASSUME NEW h, NEW end \in Nat, Good(h.block, h.free, end), NEW i \in 1 .. Len(h.free),
         NEW needed \in Nat, needed >= WORD, h.block[h.free[i]].size >= needed
  PROVE  LET s == split_block(h, i, needed)
             a == h.free[i]
         IN  /\ Sound(s.block, end) /\ Lists(s.free, Unheld(s.block) \ {a})
             /\ a \in DOMAIN s.block /\ ~s.block[a].magic /\ s.block[a].size >= needed
             /\ Bytes(h.block) \subseteq Bytes(s.block) /\ SameHeld(h.block, s.block)
  <1> DEFINE bl == h.block
             fl == h.free
             a == fl[i]
             size == bl[a].size
             rest == a + BLOCK_HEADER_SIZE + needed
             s == split_block(h, i, needed)
             left == size - needed - BLOCK_HEADER_SIZE
  <1>1. fl \in Seq(Nat) /\ IsInjective(fl) /\ ToSet(fl) = Unheld(bl) /\ Sound(bl, end)
    BY DEF Good, Lists
  <1>2. a \in DOMAIN bl /\ ~bl[a].magic
    BY <1>1 DEF ToSet, Unheld
  <1>3. \A x \in DOMAIN bl : /\ x \in Nat /\ bl[x].size \in Nat /\ Top(bl, x) \in Nat
                             /\ x < Top(bl, x) /\ bl[x] \in Rec
    <2> TAKE x \in DOMAIN bl
    <2>1. x \in Nat /\ bl[x].size \in Nat /\ Top(bl, x) \in Nat /\ bl[x] \in Rec
      BY Fields DEF Good, Sound
    <2> QED BY <2>1, Sizes0 DEF Top
  <1>4. CASE size >= needed + MIN_BLOCK_SIZE
    <2> DEFINE r == [size |-> needed, magic |-> bl[a].magic, ptr |-> bl[a].ptr, asked |-> bl[a].asked]
               c == [bl EXCEPT ![a] = r]
               d == With(c, rest, FreeBlock(left))
               f2 == [fl EXCEPT ![i] = rest]
    <2>1. left \in Nat /\ left >= WORD /\ rest \in Nat /\ a < rest /\ rest < Top(bl, a)
          /\ rest + BLOCK_HEADER_SIZE + left = Top(bl, a) /\ needed <= size
      <3>1. a \in Nat /\ size \in Nat
        BY <1>2, <1>3
      <3> HIDE DEF a, bl, fl, size
      <3>2. Top(bl, a) = a + BLOCK_HEADER_SIZE + size
        BY DEF Top, size
      <3> DEFINE top == Top(bl, a)
                 hd == BLOCK_HEADER_SIZE
                 word == WORD
      <3>3. /\ a \in Nat /\ size \in Nat /\ needed \in Nat /\ hd \in Nat \ {0} /\ word \in Nat \ {0}
            /\ top = a + hd + size /\ size >= needed + (hd + 2 * word)
            /\ rest = a + hd + needed /\ left = size - needed - hd
        BY <3>1, <3>2, <1>4, Sizes0
      <3> HIDE DEF top, hd, word, rest, left
      <3>4. left \in Nat /\ left >= word /\ rest \in Nat /\ a < rest /\ rest < top
            /\ rest + hd + left = top /\ needed <= size
        BY <3>3
      <3> QED BY <3>4 DEF top, hd, word
    <2>2. r \in Rec /\ r.size = needed /\ Fit(r, a) /\ ~r.magic
      BY <1>2, <1>3 DEF Rec, Fit
    <2>3. [bl EXCEPT ![a].size = needed] = c
      <3>1. bl[a] \in Rec /\ bl \in [DOMAIN bl -> Rec]
        BY <1>1, <1>2 DEF Sound, Typed
      <3>2. [bl[a] EXCEPT !.size = needed] = r
        BY <3>1 DEF Rec
      <3> HIDE DEF r
      <3> QED BY <3>1, <3>2
    <2>4. s = [block |-> d, free |-> f2]
      BY <1>4, <2>3 DEF split_block
    <2>5. s.block = d /\ s.free = f2
      BY <2>4
    <2>6. rest \notin DOMAIN bl
      BY <1>1, <1>2, <1>3, <2>1 DEF Sound, Apart
    <2>7. /\ DOMAIN c = DOMAIN bl /\ c[a] = r /\ \A x \in DOMAIN bl : x # a => c[x] = bl[x]
      BY <1>1, <1>2 DEF Sound, Typed
    <2>8. /\ DOMAIN d = DOMAIN bl \cup {rest} /\ d[rest] = FreeBlock(left)
          /\ \A x \in DOMAIN bl : d[x] = c[x]
      BY <2>6, <2>7 DEF With
    <2>9. /\ FreeBlock(left) \in Rec /\ FreeBlock(left).size = left /\ ~FreeBlock(left).magic
          /\ Fit(FreeBlock(left), rest)
      BY <2>1, FreeRec
    <2>10. Sound(c, end)
      <3> HIDE DEF r, a, bl, fl
      <3>1. WORD <= r.size /\ r.size <= bl[a].size
        BY <2>1, <2>2, Sizes0
      <3> QED BY <1>1, <1>2, <2>2, <3>1, SoundChange
    <2>11. Top(c, a) = rest /\ \A x \in DOMAIN bl : x # a => Top(c, x) = Top(bl, x)
      BY <1>2, <2>7 DEF Top
    <2>12. \A x \in DOMAIN c : Top(c, x) <= rest \/ rest + BLOCK_HEADER_SIZE + left <= x
      <3> SUFFICES ASSUME NEW x \in DOMAIN bl, x # a
                   PROVE  Top(bl, x) <= rest \/ Top(bl, a) <= x
        BY <2>1, <2>7, <2>11
      <3>1. x < a => Top(bl, x) <= a
        BY <1>1, <1>2 DEF Sound, Apart
      <3>2. a < x => Top(bl, a) <= x
        BY <1>1, <1>2 DEF Sound, Apart
      <3> QED BY <3>1, <3>2, <1>2, <1>3, <2>1
    <2>13. Top(bl, a) <= end
      BY <1>1, <1>2 DEF Sound
    <2> HIDE DEF c, r, left, rest, a, bl, fl
    <2>14. Sound(d, end)
      <3> DEFINE q == FreeBlock(left)
      <3> HIDE DEF q
      <3>1. /\ q \in Rec /\ WORD <= q.size /\ Fit(q, rest) /\ rest + BLOCK_HEADER_SIZE + q.size <= end
            /\ \A x \in DOMAIN c : Top(c, x) <= rest \/ rest + BLOCK_HEADER_SIZE + q.size <= x
        BY <2>1, <2>9, <2>12, <2>13, Sizes0 DEF q
      <3>2. rest \in Nat /\ rest \notin DOMAIN c /\ end <= end
        BY <2>1, <2>6, <2>7
      <3>3. Sound(With(c, rest, q), end)
        BY <3>1, <3>2, <2>10, SoundAdd
      <3> QED BY <3>3 DEF q
    <2> HIDE DEF d
    <2>15. ~c[a].magic /\ c[a].size = needed
      BY <2>2, <2>7
    <2>16. Unheld(d) = (Unheld(bl) \cup {rest})
      BY <1>2, <2>7, <2>8, <2>9, <2>15 DEF Unheld
    <2>17. f2 \in Seq(Nat) /\ IsInjective(f2) /\ ToSet(f2) = (ToSet(fl) \ {a}) \cup {rest}
      <3>1. rest \notin ToSet(fl) /\ i \in 1 .. Len(fl)
        BY <1>1, <2>6 DEF Unheld, fl
      <3> HIDE DEF f2
      <3>2. Replaces(fl, i, rest, f2)
        BY DEF f2, Replaces
      <3>3. f2 \in Seq(Nat) /\ IsInjective(f2) /\ ToSet(f2) = (ToSet(fl) \ {fl[i]}) \cup {rest}
        BY <3>1, <3>2, <1>1, <2>1, ReplaceMembers
      <3> QED BY <3>3 DEF a
    <2>18. Lists(s.free, Unheld(s.block) \ {a})
      <3>1. a # rest
        BY <2>1, <1>2, <1>3
      <3> QED BY <3>1, <2>5, <2>16, <2>17, <1>1 DEF Lists
    <2>19. SameHeld(bl, d)
      BY <1>2, <2>7, <2>8, <2>9, <2>15 DEF SameHeld
    <2>20. Top(d, a) = rest /\ Top(d, rest) = Top(bl, a)
           /\ \A x \in DOMAIN bl : x # a => Top(d, x) = Top(bl, x)
      BY <1>2, <2>1, <2>7, <2>8, <2>9, <2>11 DEF Top
    <2>21. Bytes(bl) \subseteq Bytes(d)
      <3> SUFFICES ASSUME NEW x \in DOMAIN bl, NEW n \in x .. Top(bl, x) - 1
                   PROVE  \E y \in DOMAIN d : n \in y .. Top(d, y) - 1
        BY DEF Bytes
      <3>1. CASE x = a /\ n < rest
        <4>1. n \in a .. Top(d, a) - 1
          BY <3>1, <1>2, <1>3, <2>1, <2>20
        <4> QED BY <4>1, <1>2, <2>8
      <3>2. CASE x = a /\ ~(n < rest)
        <4>1. n \in rest .. Top(d, rest) - 1
          BY <3>2, <1>2, <1>3, <2>1, <2>20
        <4> QED BY <4>1, <2>8
      <3>3. CASE x # a
        BY <3>3, <2>8, <2>20
      <3> QED BY <3>1, <3>2, <3>3
    <2>22. a \in DOMAIN d /\ ~d[a].magic /\ d[a].size >= needed
      BY <1>2, <2>8, <2>15
    <2> QED BY <2>5, <2>14, <2>18, <2>19, <2>21, <2>22 DEF a, bl, fl
  <1>5. CASE ~(size >= needed + MIN_BLOCK_SIZE)
    <2>1. s = [block |-> bl, free |-> RemoveAt(fl, i)]
      BY <1>5 DEF split_block
    <2>2. s.block = bl /\ s.free = RemoveAt(fl, i)
      BY <2>1
    <2>3. /\ RemoveAt(fl, i) \in Seq(Nat) /\ IsInjective(RemoveAt(fl, i))
          /\ ToSet(RemoveAt(fl, i)) = ToSet(fl) \ {a}
      BY <1>1, RemoveMembers, Zenon
    <2>4. SameHeld(bl, bl)
      BY DEF SameHeld
    <2> QED BY <1>1, <1>2, <2>2, <2>3, <2>4 DEF Lists
  <1> QED BY <1>4, <1>5

(* The block a, free in bl, becomes a caller's.                            *)
LEMMA HandOut ==
  ASSUME NEW bl, NEW end \in Nat, Sound(bl, end), NEW a \in DOMAIN bl, ~bl[a].magic,
         NEW p \in Nat, NEW asked \in Nat, NEW c,
         a + BLOCK_HEADER_SIZE <= p, p + asked <= a + BLOCK_HEADER_SIZE + bl[a].size,
         Replaces(bl, a, HeldBlock(bl[a].size, p, asked), c)
  PROVE  /\ Sound(c, end) /\ Unheld(c) = Unheld(bl) \ {a} /\ Bytes(bl) \subseteq Bytes(c)
         /\ Takes(bl, c, a)
  <1> DEFINE r == HeldBlock(bl[a].size, p, asked)
  <1>1. bl \in [DOMAIN bl -> Rec] /\ bl[a] \in Rec /\ bl[a].size \in Nat /\ a \in Nat
    BY Fields DEF Sound, Typed
  <1>3. r \in Rec /\ r.size = bl[a].size /\ r.magic
    BY <1>1 DEF Rec, HeldBlock
  <1>4. Fit(r, a)
    BY <1>1 DEF Fit, HeldBlock
  <1>5. c = [bl EXCEPT ![a] = r]
    BY DEF Replaces
  <1> HIDE DEF r
  <1>6. DOMAIN c = DOMAIN bl /\ c[a] = r /\ \A x \in DOMAIN bl : x # a => c[x] = bl[x]
    BY <1>1, <1>5
  <1>7. Sound(c, end)
    <2>1. WORD <= r.size /\ r.size <= bl[a].size
      BY <1>1, <1>3, Sizes0 DEF Sound
    <2>2. Sound([bl EXCEPT ![a] = r], end)
      BY <2>1, <1>3, <1>4, SoundChange
    <2> QED BY <2>2, <1>5
  <1>8. \A x \in DOMAIN bl : Top(c, x) = Top(bl, x)
    BY <1>3, <1>6 DEF Top
  <1>9. Bytes(bl) \subseteq Bytes(c)
    BY <1>6, <1>8 DEF Bytes
  <1>10. Unheld(c) = Unheld(bl) \ {a}
    BY <1>3, <1>6 DEF Unheld
  <1>11. Takes(bl, c, a)
    BY <1>3, <1>6 DEF Takes
  <1> QED BY <1>7, <1>9, <1>10, <1>11

(* The first block that fits: what kmalloc does once there is one.         *)
LEMMA AllocateStep ==
  ASSUME NEW STATE h, NEW STATE end, end \in Nat, Good(h.block, h.free, end),
         NEW needed \in Nat, needed >= WORD, Fitting(h, needed) # {},
         NEW align \in Nat \ {0}, NEW asked \in Nat, align - 1 + asked <= needed,
         Allocate(h, needed, align, asked)
  PROVE  /\ Good(block', free_list', end) /\ Bytes(h.block) \subseteq Bytes(block')
         /\ \E a : Takes(h.block, block', a)
  <1> DEFINE F == Fitting(h, needed)
             i == CHOOSE j \in F : \A k \in F : j <= k
             a == h.free[i]
             s == split_block(h, i, needed)
             p == align_up(a + BLOCK_HEADER_SIZE, align)
  <1>1. h.free \in Seq(Nat) /\ ToSet(h.free) = Unheld(h.block) /\ Sound(h.block, end)
    BY DEF Good, Lists
  <1>2. i \in F
    <2>1. F \in SUBSET Nat /\ F # {}
      BY <1>1 DEF Fitting
    <2> HIDE DEF F
    <2>2. \E j \in F : \A k \in F : j <= k
      BY <2>1, Least
    <2> QED BY <2>2
  <1>3. /\ Replaces(s.block, a, HeldBlock(s.block[a].size, p, asked), block')
        /\ free_list' = s.free
    BY DEF Allocate, Replaces
  <1> HIDE DEF i
  <1>4. i \in 1 .. Len(h.free) /\ h.block[a].size >= needed
    BY <1>1, <1>2 DEF Fitting
  <1>5. /\ Sound(s.block, end) /\ Lists(s.free, Unheld(s.block) \ {a})
        /\ a \in DOMAIN s.block /\ ~s.block[a].magic /\ s.block[a].size >= needed
        /\ Bytes(h.block) \subseteq Bytes(s.block) /\ SameHeld(h.block, s.block)
    BY <1>4, SplitKeeps
  <1> DEFINE bl == s.block
  <1>6. a \in Nat /\ bl[a].size \in Nat
    BY <1>5, Fields DEF Sound
  <1> HIDE DEF s, a
  <1>7. /\ p \in Nat /\ a + BLOCK_HEADER_SIZE <= p
        /\ p + asked <= a + BLOCK_HEADER_SIZE + bl[a].size
    <2>1. a + BLOCK_HEADER_SIZE \in Nat
      BY <1>6, Sizes0
    <2>2. p \in Nat /\ a + BLOCK_HEADER_SIZE <= p /\ p <= a + BLOCK_HEADER_SIZE + align - 1
      BY <2>1, AlignUp
    <2> HIDE DEF p
    <2> QED BY <2>1, <2>2, <1>5, <1>6
  <1> HIDE DEF bl, p
  <1>8. /\ Sound(block', end) /\ Unheld(block') = Unheld(bl) \ {a}
        /\ Bytes(bl) \subseteq Bytes(block') /\ Takes(bl, block', a)
    BY <1>3, <1>5, <1>7, HandOut DEF bl
  <1>9. Takes(h.block, block', a)
    BY <1>5, <1>8, TakesAfter DEF bl
  <1>10. Lists(free_list', Unheld(block'))
    BY <1>3, <1>5, <1>8 DEF bl
  <1> QED BY <1>5, <1>8, <1>9, <1>10 DEF Good, bl

-----------------------------------------------------------------------------
(* kfree: there is a place for the block, which goes there and is merged.  *)
LEMMA InsertionPointIs ==
  ASSUME free_list \in Seq(Nat), NEW a \in Nat
  PROVE  InsertionPoint(a) \in 1 .. Len(free_list) + 1
  <1> DEFINE n == Len(free_list)
             T == {i \in 1 .. n + 1 : i <= n => free_list[i] >= a}
  <1>1. n \in Nat /\ \A i \in 1 .. n : free_list[i] \in Nat
    OBVIOUS
  <1>2. PICK i \in T : \A m \in T : i <= m
    <2>1. T \in SUBSET Nat
      BY <1>1
    <2>2. n + 1 \in T
      BY <1>1
    <2> HIDE DEF T
    <2> QED BY <2>1, <2>2, Least
  <1>3. \A j \in 1 .. i - 1 : free_list[j] < a
    <2> TAKE j \in 1 .. i - 1
    <2>1. j \in 1 .. n /\ ~(i <= j)
      BY <1>1, <1>2
    <2>2. j \notin T
      BY <1>2, <2>1
    <2> QED BY <1>1, <2>1, <2>2
  <1>4. i \in 1 .. n + 1 /\ (i <= n => free_list[i] >= a)
    BY <1>2
  <1> QED BY <1>3, <1>4 DEF InsertionPoint

LEMMA KfreeStep ==
  ASSUME heap_end \in Nat, Good(block, free_list, heap_end), NEW a \in Blocks, kfree(a)
  PROVE  /\ Good(block', free_list', heap_end) /\ Bytes(block) \subseteq Bytes(block')
         /\ Takes(block', block, a)
  <1> DEFINE i == InsertionPoint(a)
             r == FreeBlock(block[a].size)
             e == [block EXCEPT ![a] = r]
             f == InsertAt(free_list, i, a)
             h0 == [block |-> e, free |-> f]
             h1 == Coalesce(h0, i)
             h2 == Coalesce(h1, i - 1)
  <1>1. /\ a \in DOMAIN block /\ free_list \in Seq(Nat) /\ IsInjective(free_list)
        /\ ToSet(free_list) = Unheld(block) /\ Sound(block, heap_end)
    BY DEF Good, Lists, Blocks
  <1>2. a \in Nat /\ block[a].size \in Nat /\ block \in [DOMAIN block -> Rec]
    BY <1>1, Fields DEF Sound, Typed
  <1>3. block[a].magic /\ block' = h2.block /\ free_list' = h2.free
    BY DEF kfree
  <1>4. i \in 1 .. Len(free_list) + 1
    BY <1>1, <1>2, InsertionPointIs
  <1> HIDE DEF i
  <1>5. r \in Rec /\ r.size = block[a].size /\ ~r.magic /\ Fit(r, a)
    BY <1>2, FreeRec
  <1> HIDE DEF r
  <1>6. DOMAIN e = DOMAIN block /\ e[a] = r /\ \A x \in DOMAIN block : x # a => e[x] = block[x]
    BY <1>1, <1>2
  <1>7. Sound(e, heap_end)
    <2>1. WORD <= r.size /\ r.size <= block[a].size
      BY <1>1, <1>2, <1>5, Sizes0 DEF Sound
    <2> QED BY <2>1, <1>1, <1>5, SoundChange
  <1> HIDE DEF e
  <1>8. Unheld(e) = Unheld(block) \cup {a}
    BY <1>1, <1>5, <1>6 DEF Unheld
  <1>9. Bytes(block) \subseteq Bytes(e)
    <2>1. \A x \in DOMAIN block : Top(e, x) = Top(block, x)
      BY <1>5, <1>6 DEF Top
    <2> QED BY <1>6, <2>1 DEF Bytes
  <1>10. Takes(e, block, a)
    BY <1>1, <1>3, <1>5, <1>6 DEF Takes
  <1>11. a \notin ToSet(free_list)
    BY <1>1, <1>3 DEF Unheld
  <1>12. f \in Seq(Nat) /\ IsInjective(f) /\ ToSet(f) = ToSet(free_list) \cup {a}
    BY <1>1, <1>2, <1>4, <1>11, InsertMembers
  <1> HIDE DEF f
  <1>13. Good(h0.block, h0.free, heap_end) /\ h0.block = e
    BY <1>1, <1>7, <1>8, <1>12 DEF Good, Lists
  <1>14. i \in Int /\ i - 1 \in Int
    BY <1>1, <1>4
  <1> HIDE DEF h0
  <1>15. /\ Good(h1.block, h1.free, heap_end) /\ Bytes(h0.block) \subseteq Bytes(h1.block)
         /\ SameHeld(h0.block, h1.block)
    BY <1>13, <1>14, CoalesceKeeps
  <1> HIDE DEF h1
  <1>16. /\ Good(h2.block, h2.free, heap_end) /\ Bytes(h1.block) \subseteq Bytes(h2.block)
         /\ SameHeld(h1.block, h2.block)
    BY <1>14, <1>15, CoalesceKeeps
  <1> HIDE DEF h2
  <1>17. SameHeld(e, block')
    BY <1>3, <1>13, <1>15, <1>16, SameHeldTransitive
  <1>18. Takes(block', block, a)
    <2>1. \A x \in DOMAIN e : e[x].magic => x \in DOMAIN block' /\ block'[x] = e[x] /\ block'[x].magic
      BY <1>17 DEF SameHeld
    <2>2. \A x \in DOMAIN block' : block'[x].magic => x \in DOMAIN e /\ e[x].magic /\ block'[x] = e[x]
      BY <1>17 DEF SameHeld
    <2> QED BY <2>1, <2>2, <1>10 DEF Takes
  <1> QED BY <1>3, <1>9, <1>13, <1>15, <1>16, <1>18

-----------------------------------------------------------------------------
(* New pages: one free block, in front of the list.                        *)
LEMMA ExtendKeeps ==
  ASSUME NEW bl, NEW fl, NEW end \in Nat, Good(bl, fl, end), NEW n \in Nat, n >= WORD
  PROVE  LET b2 == With(bl, end, FreeBlock(n))
             f2 == <<end>> \o fl
         IN  /\ Good(b2, f2, end + BLOCK_HEADER_SIZE + n) /\ SameHeld(bl, b2)
             /\ Bytes(bl) \subseteq Bytes(b2)
             /\ 1 \in DOMAIN f2 /\ b2[f2[1]].size = n
  <1> DEFINE r == FreeBlock(n)
             b2 == With(bl, end, r)
             f2 == <<end>> \o fl
             e2 == end + BLOCK_HEADER_SIZE + n
  <1>1. fl \in Seq(Nat) /\ IsInjective(fl) /\ ToSet(fl) = Unheld(bl) /\ Sound(bl, end)
    BY DEF Good, Lists
  <1>2. r \in Rec /\ r.size = n /\ ~r.magic /\ Fit(r, end)
    BY FreeRec
  <1> HIDE DEF r
  <1>3. \A x \in DOMAIN bl : x \in Nat /\ Top(bl, x) \in Nat /\ x < Top(bl, x) /\ Top(bl, x) <= end
    <2> TAKE x \in DOMAIN bl
    <2>1. x \in Nat /\ bl[x].size \in Nat /\ Top(bl, x) \in Nat /\ Top(bl, x) <= end
      BY <1>1, Fields DEF Sound
    <2> QED BY <2>1, Sizes0 DEF Top
  <1>4. end \notin DOMAIN bl /\ e2 \in Nat /\ end <= e2
    BY <1>3, Sizes0
  <1>5. /\ DOMAIN b2 = DOMAIN bl \cup {end} /\ b2[end] = r
        /\ \A x \in DOMAIN bl : b2[x] = bl[x]
    BY <1>4 DEF With
  <1>6. Sound(b2, e2)
    <2>1. /\ WORD <= r.size /\ end + BLOCK_HEADER_SIZE + r.size <= e2
          /\ \A x \in DOMAIN bl : Top(bl, x) <= end \/ end + BLOCK_HEADER_SIZE + r.size <= x
      BY <1>2, <1>3, <1>4, Sizes0
    <2> HIDE DEF e2
    <2> QED BY <1>1, <1>2, <1>4, <2>1, SoundAdd
  <1> HIDE DEF b2
  <1>7. Unheld(b2) = Unheld(bl) \cup {end}
    BY <1>2, <1>5 DEF Unheld
  <1>8. SameHeld(bl, b2)
    BY <1>2, <1>5 DEF SameHeld
  <1>9. Bytes(bl) \subseteq Bytes(b2)
    <2>1. \A x \in DOMAIN bl : Top(b2, x) = Top(bl, x)
      BY <1>5 DEF Top
    <2> QED BY <1>5, <2>1 DEF Bytes
  <1>10. f2 \in Seq(Nat) /\ IsInjective(f2) /\ ToSet(f2) = ToSet(fl) \cup {end}
    <2>1. end \notin ToSet(fl)
      BY <1>1, <1>4 DEF Unheld
    <2> QED BY <1>1, <2>1, ConsMembers
  <1>11. 1 \in DOMAIN f2 /\ f2[1] = end
    BY <1>1
  <1> HIDE DEF f2
  <1>12. Good(b2, f2, e2)
    BY <1>1, <1>6, <1>7, <1>10 DEF Good, Lists
  <1> QED BY <1>2, <1>5, <1>8, <1>9, <1>11, <1>12 DEF b2, f2, r

(* Pages that heap_extend got before it failed: nothing but the end moves. *)
LEMMA EndMoves ==
  ASSUME NEW bl, NEW fl, NEW end \in Nat, Good(bl, fl, end), NEW e2 \in Nat, end <= e2
  PROVE  Good(bl, fl, e2)
  <1>1. \A x \in DOMAIN bl : Top(bl, x) \in Nat /\ Top(bl, x) <= end
    BY Fields DEF Good, Sound
  <1>2. \A x \in DOMAIN bl : Top(bl, x) <= e2
    BY <1>1
  <1> QED BY <1>2 DEF Good, Sound

-----------------------------------------------------------------------------
(* The inductive invariant, and what every step does.                      *)
IInv ==
  /\ heap_end \in Nat
  /\ Good(block, free_list, heap_end)
  /\ heap_used_bytes \in 0 .. COUNTER - 1

Grants == UNCHANGED block \/ \E a : Takes(block, block', a)
Releases == \E a : Takes(block', block, a)

LEMMA UsedAfter ==
  ASSUME NEW STATE h, NEW needed \in Nat, NEW align, NEW asked, heap_used_bytes \in 0 .. COUNTER - 1,
         Allocate(h, needed, align, asked)
  PROVE  heap_used_bytes' \in 0 .. COUNTER - 1
  <1>1. heap_used_bytes + needed + BLOCK_HEADER_SIZE \in Int /\ COUNTER \in Nat \ {0}
    BY Sizes0, HeapAssumption
  <1>2. heap_used_bytes' = (heap_used_bytes + needed + BLOCK_HEADER_SIZE) % COUNTER
    BY DEF Allocate
  <1> QED BY <1>1, <1>2, ModRange

LEMMA RequestStep ==
  ASSUME IInv, NEW size \in Nat, NEW align \in Nat \ {0}, NEW asked \in Nat,
         align - 1 + asked <= size, Request(size, align, asked)
  PROVE  IInv' /\ Bytes(block) \subseteq Bytes(block') /\ Grants
  <1> DEFINE needed == align_up(size, WORD)
             pages == PagesNeeded(needed)
             n == pages * PMM_FRAME_SIZE - BLOCK_HEADER_SIZE
  <1>1. needed \in Nat /\ needed >= WORD /\ align - 1 + asked <= needed
    <2>1. size > 0
      BY DEF Request
    <2>2. needed \in Nat /\ needed >= WORD /\ size <= needed
      BY <2>1, AlignUp, Sizes0
    <2> HIDE DEF needed
    <2> QED BY <2>2
  <1> HIDE DEF needed
  <1>2. /\ pages \in Nat /\ n \in Nat /\ n >= needed /\ pages * PMM_FRAME_SIZE \in Nat
        /\ pages * PMM_FRAME_SIZE = BLOCK_HEADER_SIZE + n
    <2>1. pages \in Nat /\ pages * PMM_FRAME_SIZE \in Nat /\ pages * PMM_FRAME_SIZE >= needed + BLOCK_HEADER_SIZE
      BY <1>1, PagesEnough
    <2> HIDE DEF pages
    <2> DEFINE m == pages * PMM_FRAME_SIZE
    <2> HIDE DEF m
    <2>2. m \in Nat /\ m >= needed + BLOCK_HEADER_SIZE /\ BLOCK_HEADER_SIZE \in Nat
      BY <2>1, Sizes0 DEF m
    <2>3. m - BLOCK_HEADER_SIZE \in Nat /\ m - BLOCK_HEADER_SIZE >= needed
          /\ m = BLOCK_HEADER_SIZE + (m - BLOCK_HEADER_SIZE)
      BY <1>1, <2>2
    <2> QED BY <2>1, <2>3 DEF m
  <1>3. /\ heap_end \in Nat /\ Good(block, free_list, heap_end)
        /\ heap_used_bytes \in 0 .. COUNTER - 1
    BY DEF IInv
  <1>4. CASE Fitting(heap, needed) # {}
    <2>1. Allocate(heap, needed, align, asked) /\ heap_end' = heap_end
      BY <1>4 DEF Request, needed
    <2>2. heap.block = block /\ heap.free = free_list
      BY DEF heap
    <2>3. /\ Good(block', free_list', heap_end) /\ Bytes(heap.block) \subseteq Bytes(block')
          /\ \E a : Takes(heap.block, block', a)
      BY <1>1, <1>3, <1>4, <2>1, <2>2, AllocateStep
    <2>4. heap_used_bytes' \in 0 .. COUNTER - 1
      BY <1>1, <1>3, <2>1, UsedAfter
    <2> QED BY <1>3, <2>1, <2>2, <2>3, <2>4 DEF IInv, Grants
  <1>5. CASE Fitting(heap, needed) = {}
    <2> DEFINE b2 == With(block, heap_end, FreeBlock(n))
               f2 == <<heap_end>> \o free_list
               h == [block |-> b2, free |-> f2]
    <2>1. PICK got \in Extends(pages) :
            /\ heap_end' = heap_end + got * PMM_FRAME_SIZE
            /\ IF got < pages
               THEN UNCHANGED <<block, free_list, heap_used_bytes>>
               ELSE Allocate(h, needed, align, asked)
      BY <1>5 DEF Request, needed
    <2>2. got \in 0 .. pages
      BY <1>2 DEF Extends
    <2> HIDE DEF pages
    <2>3. CASE got < pages
      <3>1. got * PMM_FRAME_SIZE \in Nat
        BY <1>2, <2>2, Sizes0
      <3>2. heap_end' \in Nat /\ heap_end <= heap_end'
        BY <1>3, <2>1, <3>1
      <3>3. UNCHANGED <<block, free_list, heap_used_bytes>>
        BY <2>1, <2>3
      <3>4. Good(block, free_list, heap_end')
        BY <1>3, <3>2, EndMoves
      <3> QED BY <1>3, <3>2, <3>3, <3>4 DEF IInv, Grants
    <2>4. CASE ~(got < pages)
      <3> DEFINE e2 == heap_end + BLOCK_HEADER_SIZE + n
      <3>1. got = pages
        BY <1>2, <2>2, <2>4
      <3>2. heap_end' = e2 /\ e2 \in Nat
        BY <1>2, <1>3, <2>1, <3>1, Sizes0
      <3> HIDE DEF n
      <3>3. n \in Nat /\ n >= WORD
        BY <1>1, <1>2, Sizes0
      <3>4. /\ Good(b2, f2, e2) /\ SameHeld(block, b2) /\ Bytes(block) \subseteq Bytes(b2)
            /\ 1 \in DOMAIN f2 /\ b2[f2[1]].size = n
        BY <1>3, <3>3, ExtendKeeps
      <3>5. Allocate(h, needed, align, asked)
        BY <2>1, <2>4
      <3>6. h.block = b2 /\ h.free = f2
        OBVIOUS
      <3> HIDE DEF h, b2, f2, e2
      <3>7. Fitting(h, needed) # {}
        BY <1>2, <3>4, <3>6 DEF Fitting
      <3>8. /\ Good(block', free_list', e2) /\ Bytes(h.block) \subseteq Bytes(block')
            /\ \E a : Takes(h.block, block', a)
        BY <1>1, <3>2, <3>4, <3>5, <3>6, <3>7, AllocateStep
      <3>9. \E a : Takes(block, block', a)
        BY <3>4, <3>6, <3>8, TakesAfter
      <3>10. heap_used_bytes' \in 0 .. COUNTER - 1
        BY <1>1, <1>3, <3>5, UsedAfter
      <3> QED BY <3>2, <3>4, <3>6, <3>8, <3>9, <3>10 DEF IInv, Grants
    <2> QED BY <2>3, <2>4
  <1> QED BY <1>4, <1>5

(* Initially: no block, or one that is free.                               *)
LEMMA NoneHeld ==
  ASSUME NEW n \in Nat, n >= WORD
  PROVE  Good([a \in {0} |-> FreeBlock(n)], <<0>>, BLOCK_HEADER_SIZE + n)
  <1> DEFINE bl == [a \in {0} |-> FreeBlock(n)]
             r == FreeBlock(n)
  <1>1. r \in Rec /\ r.size = n /\ ~r.magic /\ Fit(r, 0)
    BY FreeRec
  <1>2. bl = [x \in {0} |-> r]
    OBVIOUS
  <1> HIDE DEF r
  <1>3. DOMAIN bl = {0} /\ bl[0] = r
    BY <1>2
  <1>4. Typed(bl)
    BY <1>1, <1>2 DEF Typed
  <1> HIDE DEF bl
  <1>5. Sound(bl, BLOCK_HEADER_SIZE + n)
    BY <1>1, <1>3, <1>4, Sizes0 DEF Sound, Apart, Top
  <1>6. Unheld(bl) = {0}
    BY <1>1, <1>3 DEF Unheld
  <1>7. <<0>> \in Seq(Nat) /\ IsInjective(<<0>>) /\ ToSet(<<0>>) = {0}
    BY DEF IsInjective, ToSet
  <1> QED BY <1>5, <1>6, <1>7 DEF Good, Lists, bl

LEMMA InitIInv == Init => IInv
  <1> SUFFICES ASSUME Init PROVE IInv
    OBVIOUS
  <1>1. PICK got \in Extends(INITIAL_PAGES) :
          /\ heap_end = got * PMM_FRAME_SIZE
          /\ heap_used_bytes = 0
          /\ IF got < INITIAL_PAGES
             THEN block = <<>> /\ free_list = <<>>
             ELSE /\ block = [a \in {0} |-> FreeBlock(heap_end - BLOCK_HEADER_SIZE)]
                  /\ free_list = <<0>>
    BY DEF Init
  <1>2. got \in 0 .. INITIAL_PAGES /\ INITIAL_PAGES \in Nat
    BY HeapAssumption DEF Extends
  <1>3. heap_end \in Nat
    BY <1>1, <1>2, Sizes0
  <1>4. heap_used_bytes \in 0 .. COUNTER - 1
    BY <1>1, HeapAssumption
  <1>5. CASE got < INITIAL_PAGES
    <2>1. block = <<>> /\ free_list = <<>>
      BY <1>1, <1>5
    <2>2. DOMAIN block = {}
      BY <2>1
    <2>3. block \in [DOMAIN block -> Rec]
      BY <2>1
    <2>4. Sound(block, heap_end)
      BY <2>2, <2>3 DEF Sound, Typed, Apart
    <2>5. free_list \in Seq(Nat) /\ IsInjective(free_list) /\ ToSet(free_list) = {}
      BY <2>1 DEF IsInjective, ToSet
    <2>6. Unheld(block) = {}
      BY <2>2 DEF Unheld
    <2> QED BY <1>3, <1>4, <2>4, <2>5, <2>6 DEF IInv, Good, Lists
  <1>6. CASE ~(got < INITIAL_PAGES)
    <2> DEFINE n == heap_end - BLOCK_HEADER_SIZE
    <2>1. got = INITIAL_PAGES
      BY <1>2, <1>6
    <2>2. n \in Nat /\ n >= WORD /\ BLOCK_HEADER_SIZE + n = heap_end
      BY <1>1, <1>3, <2>1, FirstBlock, Sizes0
    <2>3. block = [a \in {0} |-> FreeBlock(n)] /\ free_list = <<0>>
      BY <1>1, <1>6
    <2> HIDE DEF n
    <2>4. Good([a \in {0} |-> FreeBlock(n)], <<0>>, BLOCK_HEADER_SIZE + n)
      BY <2>2, NoneHeld
    <2> QED BY <1>3, <1>4, <2>2, <2>3, <2>4 DEF IInv
  <1> QED BY <1>5, <1>6

(* kfree's counter.                                                        *)
LEMMA KfreeIInv ==
  ASSUME IInv, NEW a \in Blocks, kfree(a)
  PROVE  IInv' /\ Bytes(block) \subseteq Bytes(block') /\ Releases
  <1>1. heap_end \in Nat /\ Good(block, free_list, heap_end) /\ heap_used_bytes \in 0 .. COUNTER - 1
    BY DEF IInv
  <1>2. /\ Good(block', free_list', heap_end) /\ Bytes(block) \subseteq Bytes(block')
        /\ Takes(block', block, a)
    BY <1>1, KfreeStep
  <1>3. heap_end' = heap_end /\ heap_used_bytes' = (heap_used_bytes - (block[a].size + BLOCK_HEADER_SIZE)) % COUNTER
    BY DEF kfree, UsedAfterFree
  <1>4. block[a].size \in Nat
    BY <1>1, Fields DEF Good, Sound, Blocks
  <1>5. heap_used_bytes - (block[a].size + BLOCK_HEADER_SIZE) \in Int /\ COUNTER \in Nat \ {0}
    BY <1>1, <1>4, Sizes0, HeapAssumption
  <1>6. heap_used_bytes' \in 0 .. COUNTER - 1
    BY <1>3, <1>5, ModRange
  <1> QED BY <1>1, <1>2, <1>3, <1>6 DEF IInv, Releases

(* What every step does.                                                   *)
LEMMA NextStep ==
  ASSUME IInv, [Next]_vars
  PROVE  IInv' /\ Bytes(block) \subseteq Bytes(block') /\ (Grants \/ Releases)
  <1>1. ASSUME NEW size \in Sizes, kmalloc(size)
        PROVE  IInv' /\ Bytes(block) \subseteq Bytes(block') /\ Grants
    <2>1. size \in Nat /\ 1 \in Nat \ {0} /\ 1 - 1 + size <= size
      BY HeapAssumption
    <2>2. Request(size, 1, size)
      BY <1>1 DEF kmalloc
    <2> QED BY <2>1, <2>2, RequestStep
  <1>2. ASSUME NEW size \in Sizes, NEW align \in Aligns, kmalloc_aligned(size, align)
        PROVE  IInv' /\ Bytes(block) \subseteq Bytes(block') /\ Grants
    <2> DEFINE n == size + align + BLOCK_HEADER_SIZE
    <2>1. size \in Nat /\ align \in Nat \ {0} /\ n \in Nat /\ align - 1 + size <= n
      BY HeapAssumption, Sizes0
    <2>2. Request(n, align, size)
      BY <1>2 DEF kmalloc_aligned
    <2> HIDE DEF n
    <2> QED BY <2>1, <2>2, RequestStep
  <1>3. ASSUME NEW a \in Blocks, kfree(a)
        PROVE  IInv' /\ Bytes(block) \subseteq Bytes(block') /\ Releases
    BY <1>3, KfreeIInv
  <1>4. ASSUME UNCHANGED vars
        PROVE  IInv' /\ Bytes(block) \subseteq Bytes(block') /\ Grants
    <2>1. heap_end' = heap_end /\ block' = block /\ free_list' = free_list /\ heap_used_bytes' = heap_used_bytes
      BY <1>4 DEF vars
    <2> QED BY <2>1 DEF IInv, Grants
  <1>5. ASSUME NEW a \in Blocks, kfree_moved(a) PROVE UNCHANGED vars
    BY <1>5 DEF kfree_moved
  <1> QED BY <1>1, <1>2, <1>3, <1>4, <1>5 DEF Next

LEMMA Invariance == Spec => []IInv
  <1>1. IInv /\ [Next]_vars => IInv'
    BY NextStep
  <1> QED BY <1>1, InitIInv, PTL DEF Spec

-----------------------------------------------------------------------------
LEMMA Parts ==
  ASSUME IInv
  PROVE  BlocksDisjoint /\ FreeListExact /\ FitsRequest
  <1>1. /\ heap_end \in Nat /\ Sound(block, heap_end) /\ free_list \in Seq(Nat)
        /\ IsInjective(free_list) /\ ToSet(free_list) = Unheld(block)
        /\ heap_used_bytes \in 0 .. COUNTER - 1
    BY DEF IInv, Good, Lists
  <1>2. free_list \in Seq(Blocks)
    <2>1. ToSet(free_list) \subseteq Blocks
      BY <1>1 DEF Unheld, Blocks
    <2> QED BY <1>1, <2>1, SeqOfMembers
  <1>3. TypeOK
    BY <1>1, <1>2 DEF TypeOK, Sound, Typed, Rec, Blocks
  <1>4. BlocksDisjoint
    BY <1>1, <1>3 DEF BlocksDisjoint, Sound, Apart, Top, End, Blocks
  <1>5. FreeListExact
    BY <1>1 DEF FreeListExact, Sound, Unheld, Blocks
  <1>6. FitsRequest
    BY <1>1 DEF FitsRequest, Sound, Fit, End, Blocks
  <1> QED BY <1>4, <1>5, <1>6

(* However calls split, merge and extend: blocks never overlap, and lie in *)
(* the memory heap_extend mapped.                                          *)
THEOREM NoOverlap == Spec => []BlocksDisjoint
  <1>1. IInv => BlocksDisjoint
    BY Parts
  <1> QED BY <1>1, Invariance, PTL

(* However calls split, merge and extend: the list of heap.c holds the free*)
(* blocks, each once.                                                      *)
THEOREM ListExact == Spec => []FreeListExact
  <1>1. IInv => FreeListExact
    BY Parts
  <1> QED BY <1>1, Invariance, PTL

(* For every size and alignment asked: what kmalloc and kmalloc_aligned    *)
(* return lies, to its last byte, in the block it was cut from.            *)
THEOREM RequestFits == Spec => []FitsRequest
  <1>1. IInv => FitsRequest
    BY Parts
  <1> QED BY <1>1, Invariance, PTL

(* No kmalloc, split or merge loses a byte that was in a block before.     *)
THEOREM BytesKept == Spec => NoByteLost
  <1>1. Covered = Bytes(block)
    BY DEF Covered, Bytes, End, Top, Blocks
  <1>2. Covered' = Bytes(block')
    BY DEF Covered, Bytes, End, Top, Blocks
  <1>3. IInv /\ [Next]_vars => [Covered \subseteq Covered']_vars
    BY <1>1, <1>2, NextStep
  <1> QED BY <1>3, Invariance, PTL DEF Spec, NoByteLost

-----------------------------------------------------------------------------
(* The pieces callers hold, for the blocks bl.                             *)
Piece(bl, a) == [ptr |-> bl[a].ptr, asked |-> bl[a].asked]
Pieces(bl) == {Piece(bl, a) : a \in {x \in DOMAIN bl : bl[x].magic}}

(* A block newly handed out is a piece apart from all others.              *)
LEMMA PieceApart ==
  ASSUME NEW b1, NEW b2, NEW end \in Nat, Sound(b2, end), NEW a, Takes(b1, b2, a)
  PROVE  /\ Pieces(b2) = Pieces(b1) \cup {Piece(b2, a)}
         /\ Piece(b2, a) \notin Pieces(b1)
         /\ \A q \in Pieces(b1) : Al!Apart(Piece(b2, a), q)
  <1>1. /\ a \in DOMAIN b2 /\ b2[a].magic
        /\ \A x \in DOMAIN b1 : b1[x].magic => x # a /\ x \in DOMAIN b2 /\ b2[x] = b1[x]
        /\ \A x \in DOMAIN b2 : b2[x].magic /\ x # a => x \in DOMAIN b1 /\ b1[x].magic
    BY DEF Takes
  <1>2. \A x \in DOMAIN b1 : b1[x].magic => Piece(b1, x) = Piece(b2, x) /\ b2[x].magic
    BY <1>1 DEF Piece
  <1>3. Pieces(b2) = Pieces(b1) \cup {Piece(b2, a)}
    <2>1. \A x \in DOMAIN b2 : b2[x].magic => Piece(b2, x) \in Pieces(b1) \cup {Piece(b2, a)}
      BY <1>1, <1>2 DEF Pieces
    <2>2. \A x \in DOMAIN b1 : b1[x].magic => Piece(b1, x) \in Pieces(b2)
      BY <1>1, <1>2 DEF Pieces
    <2>3. Piece(b2, a) \in Pieces(b2)
      BY <1>1 DEF Pieces
    <2> QED BY <2>1, <2>2, <2>3 DEF Pieces
  <1>4. ASSUME NEW x \in DOMAIN b1, b1[x].magic
        PROVE  /\ Al!Apart(Piece(b2, a), Piece(b2, x)) /\ b2[x].ptr # b2[a].ptr
    <2>1. x # a /\ x \in DOMAIN b2 /\ b2[x].magic
      BY <1>1, <1>4
    <2>2. /\ x \in Nat /\ a \in Nat /\ b2[x].ptr \in Nat /\ b2[a].ptr \in Nat
          /\ b2[x].asked \in Nat /\ b2[a].asked \in Nat /\ Top(b2, x) \in Nat /\ Top(b2, a) \in Nat
      BY <1>1, <2>1, Fields DEF Sound
    <2>3. /\ x + BLOCK_HEADER_SIZE <= b2[x].ptr /\ b2[x].ptr + b2[x].asked <= Top(b2, x)
          /\ a + BLOCK_HEADER_SIZE <= b2[a].ptr /\ b2[a].ptr + b2[a].asked <= Top(b2, a)
      BY <1>1, <2>1 DEF Sound, Fit, Top
    <2>4. (x < a => Top(b2, x) <= a) /\ (a < x => Top(b2, a) <= x)
      BY <1>1, <2>1 DEF Sound, Apart
    <2>5. /\ b2[x].ptr + b2[x].asked <= b2[a].ptr \/ b2[a].ptr + b2[a].asked <= b2[x].ptr
          /\ b2[x].ptr # b2[a].ptr
      BY <2>1, <2>2, <2>3, <2>4, Sizes0
    <2> QED BY <2>5 DEF Al!Apart, Piece
  <1>5. \A q \in Pieces(b1) : Al!Apart(Piece(b2, a), q)
    BY <1>2, <1>4 DEF Pieces
  <1>6. Piece(b2, a) \notin Pieces(b1)
    <2>1. ASSUME NEW x \in DOMAIN b1, b1[x].magic PROVE Piece(b1, x) # Piece(b2, a)
      <3>1. Piece(b1, x).ptr = b2[x].ptr /\ Piece(b2, a).ptr = b2[a].ptr
        BY <1>2, <2>1 DEF Piece
      <3> QED BY <3>1, <1>4, <2>1
    <2> QED BY <2>1 DEF Pieces
  <1> QED BY <1>3, <1>5, <1>6

(* The heap of heap.c implements Allocator: at every moment the pieces that*)
(* callers of kmalloc and kmalloc_aligned hold overlap nowhere, a call adds*)
(* one at most and kfree takes away that one and no other.                 *)
THEOREM HeapRefinement == Spec => ImplementsAllocator
  <1>1. Live = Pieces(block)
    BY DEF Live, Pieces, Piece, Blocks
  <1>2. Live' = Pieces(block')
    BY DEF Live, Pieces, Piece, Blocks
  <1>3. Init => Al!Init
    <2> SUFFICES ASSUME Init PROVE Live = {}
      BY DEF Al!Init
    <2>1. \A x \in DOMAIN block : ~block[x].magic
      BY DEF Init, FreeBlock
    <2> QED BY <2>1 DEF Live, Blocks
  <1>4. IInv /\ [Next]_vars => [Al!Next]_Live
    <2> SUFFICES ASSUME IInv, [Next]_vars PROVE Al!Next \/ Live' = Live
      OBVIOUS
    <2>1. IInv' /\ (Grants \/ Releases)
      BY NextStep
    <2>2. heap_end \in Nat /\ Sound(block, heap_end) /\ heap_end' \in Nat /\ Sound(block', heap_end')
      BY <2>1 DEF IInv, Good
    <2>3. CASE UNCHANGED block
      BY <2>3, <1>1, <1>2
    <2>4. ASSUME NEW a, Takes(block, block', a) PROVE Al!Next
      <3> DEFINE p == Piece(block', a)
      <3>1. Live' = Live \cup {p} /\ p \notin Live /\ \A q \in Live : Al!Apart(p, q)
        BY <1>1, <1>2, <2>2, <2>4, PieceApart
      <3> HIDE DEF p
      <3>2. p \in Live' \ Live /\ Al!Alloc(p)
        BY <3>1 DEF Al!Alloc
      <3> QED BY <3>2 DEF Al!Next
    <2>5. ASSUME NEW a, Takes(block', block, a) PROVE Al!Next
      <3> DEFINE p == Piece(block, a)
      <3>1. Live = Live' \cup {p} /\ p \notin Live'
        BY <1>1, <1>2, <2>2, <2>5, PieceApart
      <3> HIDE DEF p
      <3>2. p \in Live /\ Al!FreePiece(p)
        BY <3>1 DEF Al!FreePiece
      <3> QED BY <3>2 DEF Al!Next
    <2> QED BY <2>1, <2>3, <2>4, <2>5 DEF Grants, Releases
  <1> QED BY <1>3, <1>4, Invariance, PTL DEF Spec, ImplementsAllocator, Al!Spec
=============================================================================
