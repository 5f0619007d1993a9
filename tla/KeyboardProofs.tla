--------------------------- MODULE KeyboardProofs ---------------------------
(***************************************************************************)
(* The ring buffer of the keyboard driver implements a bounded queue, for  *)
(* every buffer size and every set of keys.                                *)
(***************************************************************************)
EXTENDS Keyboard, TLAPS

N == KBD_BUFFER_SIZE     \* kept folded: the provers need not see it

(* The slots between kbd_tail and kbd_head hold characters; a reader that  *)
(* has loaded one still finds it at kbd_tail, whatever the handler pushed  *)
(* in between; one that is about to echo has a character to echo.          *)
Filled == Queue \in Seq(Chars)
Reader ==
  /\ pc = "advance" => kbd_head # kbd_tail /\ c = kbd_buffer[kbd_tail]
  /\ pc = "echo" => c \in Chars

IInv == TypeOK /\ Filled /\ Reader

-----------------------------------------------------------------------------
(* Remainders of the few sums that occur.                                  *)
LEMMA Remainder ==
  ASSUME NEW x \in Int
  PROVE  /\ x \in 0 .. N - 1 => x % N = x
         /\ x \in N .. 2 * N - 1 => x % N = x - N
         /\ x \in -N .. -1 => x % N = x + N
  <1> N \in Nat /\ N >= 2 BY KeyboardAssumption DEF N
  <1>1. x \in 0 .. N - 1 => x % N = x OBVIOUS
  <1>2. x \in N .. 2 * N - 1 => x % N = x - N OBVIOUS
  <1>3. x \in -N .. -1 => x % N = x + N OBVIOUS
  <1> QED BY <1>1, <1>2, <1>3

(* The length of the queue between two indices, and the slot of its i-th   *)
(* character, without remainders.                                          *)
LenOf(h, t) == IF h >= t THEN h - t ELSE h - t + N
Place(t, i) == IF t + i - 1 < N THEN t + i - 1 ELSE t + i - 1 - N

(* Succ goes round the slots.                                              *)
LEMMA SuccIs ==
  ASSUME NEW i \in Slot
  PROVE  Succ(i) = (IF i = N - 1 THEN 0 ELSE i + 1) /\ Succ(i) \in Slot
  <1> N \in Nat /\ N >= 2 BY KeyboardAssumption DEF N
  <1>1. i \in Int /\ 0 <= i /\ i <= N - 1 BY DEF Slot, N
  <1>2. (i + 1) % N = (IF i = N - 1 THEN 0 ELSE i + 1) BY <1>1, Remainder
  <1> QED BY <1>1, <1>2 DEF Succ, Slot, N

(* The two remainders of Queue are LenOf and Place.                        *)
LEMMA LengthIs ==
  ASSUME NEW h \in Slot, NEW t \in Slot
  PROVE  (h - t) % N = LenOf(h, t) /\ LenOf(h, t) \in 0 .. N - 1
  <1> N \in Nat /\ N >= 2 BY KeyboardAssumption DEF N
  <1>1. /\ h \in Int /\ 0 <= h /\ h <= N - 1
        /\ t \in Int /\ 0 <= t /\ t <= N - 1
    BY DEF Slot, N
  <1> QED BY <1>1, Remainder DEF LenOf

LEMMA PlaceIs ==
  ASSUME NEW t \in Slot, NEW i \in 1 .. N
  PROVE  (t + i - 1) % N = Place(t, i) /\ Place(t, i) \in Slot
  <1> N \in Nat /\ N >= 2 BY KeyboardAssumption DEF N
  <1>1. t \in Int /\ 0 <= t /\ t <= N - 1
    BY DEF Slot, N
  <1>2. (t + i - 1) % N = Place(t, i)
    BY <1>1, Remainder DEF Place
  <1> QED BY <1>1, <1>2 DEF Place, Slot, N

(* The queue in the buffer b between t and h.                              *)
QueueOf(b, h, t) == [i \in 1 .. LenOf(h, t) |-> b[Place(t, i)]]

LEMMA QueueLen ==
  ASSUME NEW b, NEW h \in Slot, NEW t \in Slot
  PROVE  Len(QueueOf(b, h, t)) = LenOf(h, t)
  <1>1. LenOf(h, t) \in Nat BY LengthIs, KeyboardAssumption DEF N
  <1> QED BY <1>1 DEF QueueOf

(* kbd_buffer_push into a buffer with room appends.                        *)
LEMMA PushAppends ==
  ASSUME NEW b \in [Slot -> Chars \cup {None}], NEW h \in Slot, NEW t \in Slot,
         NEW ch \in Chars, Succ(h) # t
  PROVE  /\ QueueOf([b EXCEPT ![h] = ch], Succ(h), t) = Append(QueueOf(b, h, t), ch)
         /\ LenOf(h, t) < N - 1
  <1> DEFINE q == QueueOf(b, h, t)
             b1 == [b EXCEPT ![h] = ch]
             n == LenOf(h, t)
  <1> N \in Nat /\ N >= 2 BY KeyboardAssumption DEF N
  <1>1. /\ h \in Int /\ 0 <= h /\ h <= N - 1
        /\ t \in Int /\ 0 <= t /\ t <= N - 1
    BY DEF Slot, N
  <1>2. Succ(h) = (IF h = N - 1 THEN 0 ELSE h + 1) BY SuccIs
  <1>3. n \in 0 .. N - 2 /\ LenOf(Succ(h), t) = n + 1
    BY <1>1, <1>2 DEF LenOf
  <1>4. ASSUME NEW i \in 1 .. n PROVE Place(t, i) \in Slot /\ Place(t, i) # h
    <2>1. i \in Int /\ 1 <= i /\ i <= n /\ i <= N BY <1>3
    <2>2. Place(t, i) \in Slot BY <2>1, PlaceIs
    <2>3. Place(t, i) # h BY <1>1, <2>1 DEF Place, LenOf
    <2> QED BY <2>2, <2>3
  <1>5. Place(t, n + 1) = h
    BY <1>1 DEF Place, LenOf
  <1>6. QueueOf(b1, Succ(h), t) = [i \in 1 .. n + 1 |-> b1[Place(t, i)]]
    BY <1>3 DEF QueueOf
  <1>7. /\ q = [i \in 1 .. n |-> b[Place(t, i)]]
        /\ Len(q) = n /\ q \in Seq({b[Place(t, i)] : i \in 1 .. n})
    <2>1. q = [i \in 1 .. n |-> b[Place(t, i)]] BY DEF QueueOf
    <2> HIDE DEF q, n
    <2>2. n \in Nat BY <1>3
    <2>3. q \in Seq({b[Place(t, i)] : i \in 1 .. n})
      BY <2>1, <2>2
    <2> QED BY <2>1, <2>2, <2>3
  <1>8. Append(q, ch) = [i \in 1 .. n + 1 |-> IF i = n + 1 THEN ch ELSE q[i]]
    <2> HIDE DEF q, n
    <2>1. Len(q) = n /\ n \in Nat BY <1>3, <1>7
    <2> QED BY <2>1, <1>7
  <1>9. \A i \in 1 .. n + 1 : b1[Place(t, i)] = IF i = n + 1 THEN ch ELSE q[i]
    <2>1. b1[Place(t, n + 1)] = ch BY <1>5
    <2>2. ASSUME NEW i \in 1 .. n PROVE b1[Place(t, i)] = q[i]
      BY <1>4, <1>7
    <2>3. \A i \in 1 .. n + 1 : i = n + 1 \/ i \in 1 .. n BY <1>3
    <2>4. n + 1 \notin 1 .. n BY <1>3
    <2> QED BY <2>1, <2>2, <2>3, <2>4
  <1> HIDE DEF q, b1, n
  <1>10. QueueOf(b1, Succ(h), t) = Append(q, ch)
    BY <1>6, <1>8, <1>9
  <1>11. n < N - 1 BY <1>3
  <1> QED BY <1>10, <1>11 DEF q, b1, n

(* The store to kbd_tail takes the first character off.                    *)
LEMMA AdvanceTakesHead ==
  ASSUME NEW b, NEW h \in Slot, NEW t \in Slot, h # t
  PROVE  /\ QueueOf(b, h, t) # <<>>
         /\ Head(QueueOf(b, h, t)) = b[t]
         /\ QueueOf(b, h, Succ(t)) = Tail(QueueOf(b, h, t))
  <1> DEFINE q == QueueOf(b, h, t)
             n == LenOf(h, t)
  <1> N \in Nat /\ N >= 2 BY KeyboardAssumption DEF N
  <1>1. /\ h \in Int /\ 0 <= h /\ h <= N - 1
        /\ t \in Int /\ 0 <= t /\ t <= N - 1
    BY DEF Slot, N
  <1>2. Succ(t) = (IF t = N - 1 THEN 0 ELSE t + 1) BY SuccIs
  <1>3. n \in 1 .. N - 1 /\ LenOf(h, Succ(t)) = n - 1
    BY <1>1, <1>2 DEF LenOf
  <1>4. /\ q = [i \in 1 .. n |-> b[Place(t, i)]]
        /\ Len(q) = n /\ q \in Seq({b[Place(t, i)] : i \in 1 .. n})
    <2>1. q = [i \in 1 .. n |-> b[Place(t, i)]] BY DEF QueueOf
    <2> HIDE DEF q, n
    <2>2. n \in Nat BY <1>3
    <2>3. q \in Seq({b[Place(t, i)] : i \in 1 .. n})
      BY <2>1, <2>2
    <2> QED BY <2>1, <2>2, <2>3
  <1>5. Place(t, 1) = t BY <1>1 DEF Place
  <1>6. \A i \in 1 .. n - 1 : Place(Succ(t), i) = Place(t, i + 1)
    BY <1>1, <1>2, <1>3 DEF Place
  <1>7. QueueOf(b, h, Succ(t)) = [i \in 1 .. n - 1 |-> b[Place(t, i + 1)]]
    BY <1>3, <1>6 DEF QueueOf
  <1> HIDE DEF q, n
  <1>8. q # <<>> /\ Head(q) = b[t] /\ Tail(q) = [i \in 1 .. n - 1 |-> q[i + 1]]
    BY <1>3, <1>4, <1>5
  <1>9. \A i \in 1 .. n - 1 : q[i + 1] = b[Place(t, i + 1)]
    BY <1>3, <1>4
  <1>10. QueueOf(b, h, Succ(t)) = Tail(q)
    BY <1>7, <1>8, <1>9
  <1> QED BY <1>8, <1>10 DEF q

-----------------------------------------------------------------------------
(* The parts of the state: buffer, flags, loop.                            *)
KbdOK == kbd_buffer \in [Slot -> Chars \cup {None}] /\ kbd_head \in Slot /\ kbd_tail \in Slot
ModsOK == /\ kbd_lshift \in BOOLEAN /\ kbd_rshift \in BOOLEAN
          /\ kbd_ctrl \in BOOLEAN /\ kbd_alt \in BOOLEAN
LoopOK == pc \in {"check", "read", "advance", "echo", "hlt"} /\ c \in Chars \cup {None}

(* TypeOK is the types of the parts, before and after a step.              *)
LEMMA TypeParts == TypeOK <=> KbdOK /\ ModsOK /\ LoopOK /\ typed \in {0, 1}
  BY DEF TypeOK, KbdOK, ModsOK, LoopOK, mods

LEMMA TypePartsNext ==
  KbdOK' /\ ModsOK' /\ LoopOK' /\ typed' \in {0, 1} => TypeOK'
  BY DEF TypeOK, KbdOK, ModsOK, LoopOK, mods

(* Queue, before and after a step, in terms of QueueOf.                    *)
LEMMA QueueNow == KbdOK => Queue = QueueOf(kbd_buffer, kbd_head, kbd_tail)
  <1>1. Queue = [i \in 1 .. (kbd_head - kbd_tail) % N |-> kbd_buffer[(kbd_tail + i - 1) % N]]
    BY DEF Queue, Length, N
  <1>2. ASSUME KbdOK
        PROVE  QueueOf(kbd_buffer, kbd_head, kbd_tail)
                 = [i \in 1 .. (kbd_head - kbd_tail) % N |-> kbd_buffer[(kbd_tail + i - 1) % N]]
    <2> DEFINE n == (kbd_head - kbd_tail) % N
    <2>1. kbd_head \in Slot /\ kbd_tail \in Slot BY <1>2 DEF KbdOK
    <2>2. n = LenOf(kbd_head, kbd_tail) /\ n \in 0 .. N - 1
      BY <2>1, LengthIs
    <2>3. \A i \in 1 .. n : i \in 1 .. N
      BY <2>2, KeyboardAssumption DEF N
    <2> HIDE DEF n
    <2>4. \A i \in 1 .. n : (kbd_tail + i - 1) % N = Place(kbd_tail, i)
      BY <2>1, <2>3, PlaceIs
    <2>5. QueueOf(kbd_buffer, kbd_head, kbd_tail)
            = [i \in 1 .. n |-> kbd_buffer[(kbd_tail + i - 1) % N]]
      BY <2>2, <2>4 DEF QueueOf
    <2> QED BY <2>5 DEF n
  <1> QED BY <1>1, <1>2

LEMMA QueueNext == KbdOK' => Queue' = QueueOf(kbd_buffer', kbd_head', kbd_tail')
  <1>1. Queue' = [i \in 1 .. (kbd_head' - kbd_tail') % N |-> kbd_buffer'[(kbd_tail' + i - 1) % N]]
    BY DEF Queue, Length, N
  <1>2. ASSUME KbdOK'
        PROVE  QueueOf(kbd_buffer', kbd_head', kbd_tail')
                 = [i \in 1 .. (kbd_head' - kbd_tail') % N |-> kbd_buffer'[(kbd_tail' + i - 1) % N]]
    <2> DEFINE n == (kbd_head' - kbd_tail') % N
    <2>1. kbd_head' \in Slot /\ kbd_tail' \in Slot BY <1>2 DEF KbdOK
    <2>2. n = LenOf(kbd_head', kbd_tail') /\ n \in 0 .. N - 1
      BY <2>1, LengthIs
    <2>3. \A i \in 1 .. n : i \in 1 .. N
      BY <2>2, KeyboardAssumption DEF N
    <2> HIDE DEF n
    <2>4. \A i \in 1 .. n : (kbd_tail' + i - 1) % N = Place(kbd_tail', i)
      BY <2>1, <2>3, PlaceIs
    <2>5. QueueOf(kbd_buffer', kbd_head', kbd_tail')
            = [i \in 1 .. n |-> kbd_buffer'[(kbd_tail' + i - 1) % N]]
      BY <2>2, <2>4 DEF QueueOf
    <2> QED BY <2>5 DEF n
  <1> QED BY <1>1, <1>2

(* A reader that holds None holds no character.                            *)
LEMMA NoneIsNoChar == None \notin Chars
  <1>1. ASSUME NEW x, NEW y PROVE <<x, y>> # <<>>
    <2>1. Len(<<x, y>>) = 2 /\ Len(<<>>) = 0 OBVIOUS
    <2> QED BY <2>1
  <1>2. ASSUME NEW A, NEW B PROVE <<>> \notin A \X B
    <2> SUFFICES ASSUME NEW z \in A \X B PROVE z # <<>> OBVIOUS
    <2>1. z = <<z[1], z[2]>> OBVIOUS
    <2> QED BY <1>1, <2>1
  <1> QED BY <1>2 DEF None, Chars

(* Every mapped key stands for a character, shifted or not.                *)
LEMMA TranslateType ==
  ASSUME ModsOK, NEW k \in Letters \cup Specials
  PROVE  Translate(k) \in Chars
  <1>1. (k \in Letters /\ (kbd_lshift \/ kbd_rshift)) \in BOOLEAN OBVIOUS
  <1>2. CASE k \in Letters
    BY <1>1, <1>2, Zenon DEF Translate, Chars
  <1>3. CASE k \notin Letters
    <2>1. (k \in Letters /\ (kbd_lshift \/ kbd_rshift)) = FALSE BY <1>3
    <2> QED BY <1>3, <2>1 DEF Translate, Chars
  <1> QED BY <1>2, <1>3

FirstKept == kbd_head' # kbd_tail' /\ kbd_buffer'[kbd_tail'] = kbd_buffer[kbd_tail]

(* A push appends a character, does nothing only when the buffer is full,  *)
(* and does not touch the one a reader may have loaded.                    *)
LEMMA PushStep ==
  ASSUME KbdOK, NEW ch \in Chars, kbd_buffer_push(ch)
  PROVE  /\ KbdOK'
         /\ Queue' = IF Len(Queue) < N - 1 THEN Append(Queue, ch) ELSE Queue
         /\ kbd_head # kbd_tail => FirstKept
  <1>1. CASE Succ(kbd_head) # kbd_tail
    <2>1. /\ kbd_buffer' = [kbd_buffer EXCEPT ![kbd_head] = ch]
          /\ kbd_head' = Succ(kbd_head) /\ kbd_tail' = kbd_tail
      BY <1>1 DEF kbd_buffer_push
    <2>2. Succ(kbd_head) \in Slot BY SuccIs DEF KbdOK
    <2>3. KbdOK' BY <2>1, <2>2 DEF KbdOK
    <2>4. /\ QueueOf([kbd_buffer EXCEPT ![kbd_head] = ch], Succ(kbd_head), kbd_tail)
               = Append(QueueOf(kbd_buffer, kbd_head, kbd_tail), ch)
          /\ LenOf(kbd_head, kbd_tail) < N - 1
      BY <1>1, PushAppends DEF KbdOK
    <2>5. Len(QueueOf(kbd_buffer, kbd_head, kbd_tail)) = LenOf(kbd_head, kbd_tail)
      BY QueueLen DEF KbdOK
    <2>6. Queue' = Append(Queue, ch) /\ Len(Queue) < N - 1
      BY <2>1, <2>3, <2>4, <2>5, QueueNow, QueueNext
    <2>7. kbd_head # kbd_tail => FirstKept
      BY <1>1, <2>1 DEF KbdOK, FirstKept
    <2> QED BY <2>3, <2>6, <2>7
  <1>2. CASE Succ(kbd_head) = kbd_tail
    <2>1. UNCHANGED <<kbd_buffer, kbd_head, kbd_tail>>
      BY <1>2 DEF kbd_buffer_push, kbd
    <2>2. KbdOK' /\ Queue' = Queue
      <3>1. KbdOK' BY <2>1 DEF KbdOK
      <3> QED BY <2>1, <3>1, QueueNow, QueueNext
    <2>3. ~(Len(Queue) < N - 1)
      <3>1. Len(QueueOf(kbd_buffer, kbd_head, kbd_tail)) = LenOf(kbd_head, kbd_tail)
        BY QueueLen DEF KbdOK
      <3>2. kbd_head \in Slot /\ kbd_tail \in Slot BY DEF KbdOK
      <3>3. N \in Nat /\ N >= 2 BY KeyboardAssumption DEF N
      <3>4. kbd_tail = (IF kbd_head = N - 1 THEN 0 ELSE kbd_head + 1)
        BY <1>2, <3>2, SuccIs
      <3>5. LenOf(kbd_head, kbd_tail) = N - 1
        BY <3>2, <3>3, <3>4 DEF LenOf, Slot, N
      <3> QED BY <3>1, <3>3, <3>5, QueueNow
    <2> QED BY <2>1, <2>2, <2>3 DEF FirstKept
  <1> QED BY <1>1, <1>2

(* ... and the loop's store to kbd_tail takes the first one off.           *)
LEMMA AdvanceStep ==
  ASSUME KbdOK, kbd_head # kbd_tail, kbd_tail' = Succ(kbd_tail),
         UNCHANGED <<kbd_buffer, kbd_head>>
  PROVE  /\ KbdOK'
         /\ Queue # <<>> /\ Head(Queue) = kbd_buffer[kbd_tail] /\ Queue' = Tail(Queue)
  <1>1. Succ(kbd_tail) \in Slot BY SuccIs DEF KbdOK
  <1>2. KbdOK' BY <1>1 DEF KbdOK
  <1>3. LET q == QueueOf(kbd_buffer, kbd_head, kbd_tail)
        IN  q # <<>> /\ Head(q) = kbd_buffer[kbd_tail]
            /\ QueueOf(kbd_buffer, kbd_head, Succ(kbd_tail)) = Tail(q)
    BY AdvanceTakesHead DEF KbdOK
  <1> QED BY <1>2, <1>3, QueueNow, QueueNext


-----------------------------------------------------------------------------
(* The invariant holds at first, with an empty queue.                      *)
LEMMA IInvInit == Init => IInv
  <1> SUFFICES ASSUME Init PROVE IInv OBVIOUS
  <1>1. 0 \in Slot BY KeyboardAssumption DEF Slot
  <1>2. KbdOK BY <1>1 DEF Init, KbdOK
  <1>3. ModsOK /\ LoopOK /\ typed \in {0, 1}
    BY DEF Init, ModsOK, LoopOK
  <1>4. Queue = <<>>
    <2>1. LenOf(0, 0) = 0 BY DEF LenOf
    <2>2. Queue = QueueOf(kbd_buffer, 0, 0) BY <1>2, QueueNow DEF Init
    <2> QED BY <2>1, <2>2 DEF QueueOf
  <1>5. Filled BY <1>4 DEF Filled
  <1>6. Reader BY DEF Init, Reader
  <1> QED BY <1>2, <1>3, <1>5, <1>6, TypeParts DEF IInv

(* What a step does to the abstract queue and reader.                      *)
Out == IF pc = "echo" THEN c ELSE None
KeyStep == \E ch \in Chars :
  /\ Queue' = IF Len(Queue) < N - 1 THEN Append(Queue, ch) ELSE Queue
  /\ typed' = 1 - typed /\ Out' = Out
ReadStep == /\ Queue # <<>> /\ Out = None /\ Out' = Head(Queue) /\ Queue' = Tail(Queue)
            /\ typed' = typed
EchoStep == Out # None /\ Out' = None /\ Queue' = Queue /\ typed' = typed
Same == Queue' = Queue /\ Out' = Out /\ typed' = typed

(* The handler: keys, modifiers and what it ignores.                       *)
LEMMA WakesStep ==
  ASSUME IInv, Wakes, c' = c
  PROVE  /\ LoopOK' /\ Out' = Out
         /\ pc' = "advance" => pc = "advance"
         /\ pc' = "echo" => pc = "echo"
  <1>1. LoopOK BY TypeParts DEF IInv
  <1> QED BY <1>1 DEF Wakes, LoopOK, Out

(* A key appends its character, or finds the buffer full.                  *)
LEMMA KeyDownStep ==
  ASSUME IInv, NEW k \in Letters \cup Specials, KeyDown(k)
  PROVE  IInv' /\ KeyStep
  <1>1. KbdOK /\ ModsOK /\ LoopOK /\ typed \in {0, 1}
    BY TypeParts DEF IInv
  <1> DEFINE ch == Translate(k)
  <1>2. ch \in Chars BY <1>1, TranslateType
  <1>3. kbd_buffer_push(ch) /\ Wakes /\ UNCHANGED <<mods, c>> /\ typed' = 1 - typed
    BY DEF KeyDown
  <1>4. /\ LoopOK' /\ Out' = Out
        /\ pc' = "advance" => pc = "advance"
        /\ pc' = "echo" => pc = "echo"
    BY <1>3, WakesStep
  <1> HIDE DEF ch
  <1>5. /\ KbdOK'
        /\ Queue' = IF Len(Queue) < N - 1 THEN Append(Queue, ch) ELSE Queue
        /\ kbd_head # kbd_tail => FirstKept
    BY <1>1, <1>2, <1>3, PushStep
  <1>6. UNCHANGED <<kbd_lshift, kbd_rshift, kbd_ctrl, kbd_alt, c>>
    BY <1>3 DEF mods
  <1>7. TypeOK'
    <2>1. ModsOK' /\ typed' \in {0, 1} BY <1>1, <1>3, <1>6 DEF ModsOK
    <2> QED BY <1>4, <1>5, <2>1, TypePartsNext
  <1>8. Filled' BY <1>2, <1>5 DEF IInv, Filled
  <1>9. Reader' BY <1>4, <1>5, <1>6 DEF IInv, Reader, FirstKept
  <1>10. KeyStep BY <1>2, <1>3, <1>4, <1>5 DEF KeyStep
  <1> QED BY <1>7, <1>8, <1>9, <1>10 DEF IInv


(* The bytes of modifiers change flags only.                               *)
LEMMA ModifierStep ==
  ASSUME IInv, NEW k \in Modifiers, NEW down \in BOOLEAN, Modifier(k, down)
  PROVE  IInv' /\ Same
  <1>1. KbdOK /\ ModsOK /\ LoopOK /\ typed \in {0, 1}
    BY TypeParts DEF IInv
  <1>2. Wakes /\ UNCHANGED <<kbd, c, typed>>
    BY DEF Modifier
  <1>3. /\ LoopOK' /\ Out' = Out
        /\ pc' = "advance" => pc = "advance"
        /\ pc' = "echo" => pc = "echo"
    BY <1>2, WakesStep
  <1>4. UNCHANGED <<kbd_buffer, kbd_head, kbd_tail, c>>
    BY <1>2 DEF kbd
  <1>5. KbdOK' /\ Queue' = Queue
    <2>1. KbdOK' BY <1>1, <1>4 DEF KbdOK
    <2> QED BY <1>1, <1>4, <2>1, QueueNow, QueueNext
  <1>6. ModsOK' BY <1>1 DEF Modifier, ModsOK
  <1>7. TypeOK' BY <1>1, <1>2, <1>3, <1>5, <1>6, TypePartsNext
  <1>8. Filled' BY <1>5 DEF IInv, Filled
  <1>9. Reader' BY <1>3, <1>4 DEF IInv, Reader
  <1> QED BY <1>2, <1>3, <1>5, <1>7, <1>8, <1>9 DEF IInv, Same

(* The loop, as far as it leaves buffer and flags alone.                   *)
LEMMA LoopStep ==
  ASSUME IInv, UNCHANGED <<kbd, mods, typed>>, LoopOK', Reader'
  PROVE  IInv' /\ Queue' = Queue
  <1>1. KbdOK /\ ModsOK /\ LoopOK /\ typed \in {0, 1}
    BY TypeParts DEF IInv
  <1>2. UNCHANGED <<kbd_buffer, kbd_head, kbd_tail, kbd_lshift, kbd_rshift, kbd_ctrl, kbd_alt, typed>>
    BY DEF kbd, mods
  <1>3. KbdOK' /\ ModsOK' BY <1>1, <1>2 DEF KbdOK, ModsOK
  <1>4. Queue' = Queue BY <1>1, <1>2, <1>3, QueueNow, QueueNext
  <1>5. TypeOK' BY <1>1, <1>2, <1>3, TypePartsNext
  <1>6. Filled' BY <1>2, <1>4 DEF IInv, Filled
  <1> QED BY <1>4, <1>5, <1>6 DEF IInv

(* Steps that the abstract queue does not see.                             *)
LEMMA QuietStep ==
  ASSUME IInv, Ignored \/ HasKey \/ GetCharRead \/ TickWakes \/ UNCHANGED vars
  PROVE  IInv' /\ Same
  <1>1. KbdOK /\ LoopOK BY TypeParts DEF IInv
  <1>2. UNCHANGED <<kbd, mods, typed>>
    BY DEF Ignored, HasKey, GetCharRead, TickWakes, vars
  <1>3. LoopOK' /\ Reader' /\ Out' = Out
    <2>1. CASE Ignored
      <3>1. Wakes /\ c' = c BY <2>1 DEF Ignored
      <3>2. /\ LoopOK' /\ Out' = Out
            /\ pc' = "advance" => pc = "advance"
            /\ pc' = "echo" => pc = "echo"
        BY <3>1, WakesStep
      <3> QED BY <1>2, <3>1, <3>2 DEF IInv, Reader, kbd
    <2>2. CASE HasKey
      BY <1>1, <2>2 DEF HasKey, LoopOK, Reader, Out
    <2>3. CASE GetCharRead
      <3>1. kbd_buffer[kbd_tail] \in Chars \cup {None} BY <1>1 DEF KbdOK
      <3> QED BY <1>1, <1>2, <2>3, <3>1 DEF GetCharRead, ReadTail, LoopOK, Reader, Out, kbd
    <2>4. CASE TickWakes
      BY <1>1, <2>4 DEF TickWakes, LoopOK, Reader, Out
    <2>5. CASE UNCHANGED vars
      BY <1>1, <1>2, <2>5 DEF IInv, vars, loop, LoopOK, Reader, Out, kbd
    <2> QED BY <2>1, <2>2, <2>3, <2>4, <2>5
  <1> QED BY <1>2, <1>3, LoopStep DEF Same

(* The echo, and the removal of a character from the buffer.               *)
LEMMA EchoCharStep ==
  ASSUME IInv, EchoChar
  PROVE  IInv' /\ EchoStep
  <1>1. UNCHANGED <<kbd, mods, typed>> /\ pc = "echo" /\ pc' = "hlt" /\ c' = None
    BY DEF EchoChar
  <1>2. c \in Chars BY <1>1 DEF IInv, Reader
  <1>3. LoopOK' /\ Reader' BY <1>1 DEF LoopOK, Reader
  <1>4. IInv' /\ Queue' = Queue BY <1>1, <1>3, LoopStep
  <1> QED BY <1>1, <1>2, <1>4, NoneIsNoChar DEF EchoStep, Out

LEMMA GetCharStep ==
  ASSUME IInv, GetCharAdvance
  PROVE  IInv' /\ ReadStep
  <1>1. KbdOK /\ ModsOK /\ LoopOK /\ typed \in {0, 1}
    BY TypeParts DEF IInv
  <1>2. /\ pc = "advance" /\ pc' = "echo" /\ kbd_tail' = Succ(kbd_tail)
        /\ UNCHANGED <<kbd_buffer, kbd_head, kbd_lshift, kbd_rshift, kbd_ctrl, kbd_alt, c, typed>>
    BY DEF GetCharAdvance, mods
  <1>3. kbd_head # kbd_tail /\ c = kbd_buffer[kbd_tail]
    BY <1>2 DEF IInv, Reader
  <1>4. /\ KbdOK'
        /\ Queue # <<>> /\ Head(Queue) = kbd_buffer[kbd_tail] /\ Queue' = Tail(Queue)
    BY <1>1, <1>2, <1>3, AdvanceStep
  <1>5. c \in Chars
    <2>1. Queue \in Seq(Chars) BY DEF IInv, Filled
    <2> QED BY <1>3, <1>4, <2>1
  <1>6. TypeOK'
    <2>1. ModsOK' /\ LoopOK' /\ typed' \in {0, 1} BY <1>1, <1>2 DEF ModsOK, LoopOK
    <2> QED BY <1>4, <2>1, TypePartsNext
  <1>7. Filled' BY <1>4 DEF IInv, Filled
  <1>8. Reader' BY <1>2, <1>5 DEF IInv, Reader
  <1>9. ReadStep BY <1>2, <1>3, <1>4 DEF ReadStep, Out
  <1> QED BY <1>6, <1>7, <1>8, <1>9 DEF IInv

(* Every step keeps the invariant and is a step of KeyQueue or none.       *)
LEMMA Step ==
  ASSUME IInv, [Next]_vars
  PROVE  IInv' /\ (KeyStep \/ ReadStep \/ EchoStep \/ Same)
  BY KeyDownStep, ModifierStep, QuietStep, EchoCharStep, GetCharStep DEF Next, EchoLoop

(* Every variable keeps its type, for every buffer size.                   *)
THEOREM TypeCorrect == Spec => []TypeOK
  <1>1. IInv => TypeOK BY DEF IInv
  <1> QED BY <1>1, IInvInit, Step, PTL DEF Spec

(* The ring buffer with its handler and its reader, who takes no lock,     *)
(* implements the bounded queue: in order, nothing twice, and a character  *)
(* that is typed is lost only while the buffer is full.                    *)
THEOREM Refinement == Spec => ImplementsKeyQueue
  <1>1. Init => KQ!Init
    <2> SUFFICES ASSUME Init PROVE KQ!Init OBVIOUS
    <2>1. KbdOK BY IInvInit, TypeParts DEF IInv
    <2>2. LenOf(0, 0) = 0 BY DEF LenOf
    <2>3. Queue = QueueOf(kbd_buffer, 0, 0) BY <2>1, QueueNow DEF Init
    <2>4. Queue = <<>> BY <2>2, <2>3 DEF QueueOf
    <2> QED BY <2>4 DEF Init, KQ!Init
  <1>2. ASSUME IInv, [Next]_vars PROVE [KQ!Next]_KQ!vars
    <2>1. KeyStep \/ ReadStep \/ EchoStep \/ Same BY <1>2, Step
    <2>2. CASE KeyStep
      BY <2>2 DEF KeyStep, Out, KQ!Next, KQ!Put, N
    <2>3. CASE ReadStep
      BY <2>3 DEF ReadStep, Out, KQ!Next, KQ!Get
    <2>4. CASE EchoStep
      BY <2>4 DEF EchoStep, Out, KQ!Next, KQ!Echo
    <2>5. CASE Same
      BY <2>5 DEF Same, Out, KQ!vars
    <2> QED BY <2>1, <2>2, <2>3, <2>4, <2>5
  <1> QED BY <1>1, <1>2, IInvInit, Step, PTL DEF Spec, ImplementsKeyQueue, KQ!Spec

=============================================================================
