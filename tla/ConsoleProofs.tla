--------------------------- MODULE ConsoleProofs ---------------------------
(***************************************************************************)
(* Three things about the output of the kernel, for every set of threads and*)
(* every screen.  The UART drops no byte, although serial_putc looks at its*)
(* status register first and writes later, and everybody may be preempted in*)
(* between.  The screen is the window on what was typed, although kprintc  *)
(* changes it store by store.  A panic is readable, although it may stop   *)
(* kprintc between any two of its stores, in the middle of a scroll too.   *)
(***************************************************************************)
EXTENDS Console, DataLemmas, TLAPS

(* The bytes on their way: those the UART holds, and one of each writer    *)
(* that saw it ready.  A look succeeds only on an empty UART, and a writer *)
(* looks once per byte.                                                    *)
Pending == fifo + Cardinality(ready) + (IF at = "outb" THEN 1 ELSE 0)

FifoRoom ==
  /\ fifo \in 0 .. FIFO
  /\ ready \subseteq Threads
  /\ lost = FALSE
  /\ Pending <= Cardinality(Threads) + 2

-----------------------------------------------------------------------------
(* How many threads can be ready at once, and what one more or less does.  *)
LEMMA ReadyCard ==
  ASSUME NEW S \in SUBSET Threads
  PROVE  /\ Cardinality(S) \in Nat /\ Cardinality(Threads) \in Nat
         /\ Cardinality(S) <= Cardinality(Threads)
         /\ \A t \in S : Cardinality(S \ {t}) = Cardinality(S) - 1 /\ Cardinality(S) > 0
  <1>1. IsFiniteSet(Threads) BY ConsoleAssumption
  <1>2. IsFiniteSet(S) /\ Cardinality(S) <= Cardinality(Threads)
    BY <1>1, FS_Subset
  <1>3. Cardinality(S) \in Nat /\ Cardinality(Threads) \in Nat
    BY <1>1, <1>2, FS_CardinalityType
  <1>4. ASSUME NEW t \in S
        PROVE  Cardinality(S \ {t}) = Cardinality(S) - 1 /\ Cardinality(S) > 0
    <2>1. IsFiniteSet(S \ {t}) /\ Cardinality(S \ {t}) = Cardinality(S) - 1
      BY <1>2, FS_RemoveElement
    <2>2. Cardinality(S \ {t}) \in Nat
      BY <2>1, FS_CardinalityType
    <2> QED BY <1>3, <2>1, <2>2
  <1> QED BY <1>2, <1>3, <1>4

(* A byte written by someone who is counted among the pending ones fits.   *)
LEMMA WriteFits ==
  ASSUME FifoRoom, NEW b, outb(b), fifo < FIFO
  PROVE  fifo' = fifo + 1 /\ fifo' \in 0 .. FIFO /\ lost' = FALSE
  <1>1. fifo' = fifo + 1 /\ fifo' \in 0 .. FIFO /\ fifo # FIFO
    BY ConsoleAssumption DEF FifoRoom, outb
  <1>2. lost = FALSE /\ lost' = (lost \/ fifo = FIFO)
    BY DEF FifoRoom, outb
  <1>3. lost' = FALSE
    BY <1>1, <1>2, Zenon
  <1> QED BY <1>1, <1>3

(* Writing to the screen, the echo loop's next key and the beginning of a  *)
(* line change nothing that is counted.                                    *)
LEMMA NothingSent ==
  ASSUME FifoRoom, UNCHANGED <<fifo, lost, ready>>, at' = "outb" => at = "outb"
  PROVE  FifoRoom'
  <1>1. /\ Cardinality(ready) \in Nat /\ fifo \in Int
        /\ Cardinality(Threads) \in Nat
    BY ReadyCard DEF FifoRoom
  <1>2. Pending' <= Cardinality(Threads) + 2
    BY <1>1 DEF FifoRoom, Pending
  <1> QED BY <1>2 DEF FifoRoom

LEMMA VgaSendsNothing ==
  ASSUME Vga
  PROVE  UNCHANGED <<fifo, lost, ready>> /\ (at' = "outb" => at = "outb")
  <1>1. UNCHANGED <<fifo, lost, ready>>
    BY DEF Vga, uart, log
  <1>2. CASE kprintc
    <2>1. at' = "home" \/ at' = "advance" BY <1>2 DEF kprintc, Goto
    <2> QED BY <1>1, <2>1
  <1>3. CASE Advance
    <2>1. at' = "wrap" \/ at' = "scroll" BY <1>3 DEF Advance, Goto
    <2> QED BY <1>1, <2>1
  <1>4. CASE Wrap \/ Down \/ Home
    BY <1>1, <1>4 DEF Wrap, Down, Home, Goto
  <1>5. CASE ScrollCell \/ vga_backspace \/ BackAgain
    BY <1>1, <1>5 DEF ScrollCell, vga_backspace, BackAgain
  <1>6. CASE ScrollEnd
    BY <1>1, <1>6 DEF ScrollEnd, Done
  <1> QED BY <1>2, <1>3, <1>4, <1>5, <1>6 DEF Vga

-----------------------------------------------------------------------------
LEMMA FifoRoomInit == Init => FifoRoom
  <1> SUFFICES ASSUME Init PROVE FifoRoom OBVIOUS
  <1>1. fifo = 0 /\ lost = FALSE /\ ready = {} /\ at = "start"
    BY DEF Init
  <1>2. Cardinality(ready) = 0 /\ Cardinality(Threads) \in Nat
    BY <1>1, FS_EmptySet, ReadyCard
  <1> QED BY <1>1, <1>2, ConsoleAssumption DEF FifoRoom, Pending

LEMMA FifoRoomNext ==
  ASSUME FifoRoom, [Next]_vars
  PROVE  FifoRoom'
  <1>1. /\ fifo \in Nat /\ fifo <= FIFO /\ FIFO \in Nat
        /\ FIFO >= Cardinality(Threads) + 2
        /\ Cardinality(Threads) \in Nat /\ Cardinality(ready) \in Nat
        /\ Cardinality(ready) <= Cardinality(Threads)
    BY ConsoleAssumption, ReadyCard DEF FifoRoom
  <1>2. ASSUME NEW c \in Keys, Echo(c) PROVE FifoRoom'
    BY <1>2, NothingSent DEF Echo, uart, log
  <1>3. CASE Panic
    BY <1>3, NothingSent DEF Panic, uart, log
  <1>4. CASE Vga
    BY <1>4, VgaSendsNothing, NothingSent
  <1>5. CASE TxReady
    <2>1. fifo = 0 /\ at' = "outb" /\ UNCHANGED <<fifo, lost, ready>>
      BY <1>5 DEF TxReady, serial_tx_ready, Goto, uart, log
    <2>2. Pending' <= Cardinality(Threads) + 2
      BY <1>1, <2>1 DEF Pending
    <2> QED BY <2>1, <2>2 DEF FifoRoom
  <1>6. CASE TxWrite
    <2>1. at = "outb" /\ at' = "start" /\ ready' = ready
      BY <1>6 DEF TxWrite, Done, log
    <2>2. fifo < FIFO
      BY <1>1, <2>1 DEF FifoRoom, Pending
    <2>3. fifo' = fifo + 1 /\ fifo' \in 0 .. FIFO /\ lost' = FALSE
      BY <1>6, <2>2, WriteFits DEF TxWrite
    <2>4. Pending' <= Cardinality(Threads) + 2
      BY <1>1, <2>1, <2>3 DEF FifoRoom, Pending
    <2> QED BY <2>1, <2>3, <2>4 DEF FifoRoom
  <1>7. CASE Halt
    BY <1>7, NothingSent DEF Halt, uart, log
  <1>8. CASE UartSends
    <2>1. /\ fifo > 0 /\ fifo' = fifo - 1
          /\ UNCHANGED <<at, lost, ready>>
      BY <1>8 DEF UartSends, log
    <2>2. Pending' <= Cardinality(Threads) + 2
      BY <1>1, <2>1 DEF FifoRoom, Pending
    <2> QED BY <1>1, <2>1, <2>2 DEF FifoRoom
  <1>9. CASE SysWrite
    <2>1. fifo = 0 /\ at' = at /\ ready' = ready
      BY <1>9 DEF SysWrite, serial_tx_ready, log
    <2>2. fifo < FIFO /\ outb("u")
      BY <1>1, <1>9, <2>1 DEF SysWrite
    <2>3. fifo' = fifo + 1 /\ fifo' \in 0 .. FIFO /\ lost' = FALSE
      BY <2>2, WriteFits
    <2>4. Pending' <= Cardinality(Threads) + 2
      BY <1>1, <2>1, <2>3 DEF Pending
    <2> QED BY <2>1, <2>3, <2>4 DEF FifoRoom
  <1>10. ASSUME NEW t \in Threads, LogLine(t) PROVE FifoRoom'
    BY <1>10, NothingSent DEF LogLine, uart
  <1>11. ASSUME NEW t \in Threads, LogReady(t) PROVE FifoRoom'
    <2>1. fifo = 0 /\ ready' = ready \cup {t} /\ UNCHANGED <<at, fifo, lost>>
      BY <1>11 DEF LogReady, serial_tx_ready, uart
    <2>2. ready' \subseteq Threads
      BY <2>1 DEF FifoRoom
    <2>3. Cardinality(ready') \in Nat /\ Cardinality(ready') <= Cardinality(Threads)
      BY <2>2, ReadyCard
    <2>4. Pending' <= Cardinality(Threads) + 2
      BY <1>1, <2>1, <2>3 DEF Pending
    <2> QED BY <2>1, <2>2, <2>4 DEF FifoRoom
  <1>12. ASSUME NEW t \in Threads, LogWrite(t) PROVE FifoRoom'
    <2>1. t \in ready /\ ready' = ready \ {t} /\ at' = at
      BY <1>12 DEF LogWrite
    <2>2. Cardinality(ready') = Cardinality(ready) - 1 /\ Cardinality(ready) > 0
      BY <2>1, ReadyCard DEF FifoRoom
    <2>3. fifo < FIFO
      BY <1>1, <2>2 DEF FifoRoom, Pending
    <2>4. fifo' = fifo + 1 /\ fifo' \in 0 .. FIFO /\ lost' = FALSE
      BY <1>12, <2>3, WriteFits DEF LogWrite
    <2>5. Pending' <= Cardinality(Threads) + 2
      BY <1>1, <2>1, <2>2, <2>4 DEF FifoRoom, Pending
    <2> QED BY <2>1, <2>4, <2>5 DEF FifoRoom
  <1>13. CASE UNCHANGED vars
    BY <1>13, NothingSent DEF vars, uart, log
  <1> QED BY <1>2, <1>3, <1>4, <1>5, <1>6, <1>7, <1>8, <1>9, <1>10, <1>11, <1>12, <1>13
      DEF Next, Writer, Halted

(* However many threads log, are preempted between the look and the write, *)
(* and are overtaken by the echo loop, by system calls or by a panic, the  *)
(* UART never drops a byte of serial_putc.                                 *)
THEOREM SerialLosesNothing == Spec => []NoByteLost
  <1>1. FifoRoom => NoByteLost BY DEF FifoRoom, NoByteLost
  <1> QED BY <1>1, FifoRoomInit, FifoRoomNext, PTL DEF Spec

-----------------------------------------------------------------------------
(* Rows of the screen and of the sheet.                                    *)
Row(n) == n * VGA_WIDTH

LEMMA Sizes == VGA_WIDTH \in Nat /\ VGA_WIDTH >= 2 /\ VGA_HEIGHT \in Nat /\ VGA_HEIGHT >= 2
               /\ VGA_HEIGHT <= 254 /\ ROWS \in Nat /\ ROWS >= VGA_HEIGHT
  BY ConsoleAssumption

LEMMA RowIs ==
  /\ \A n \in Nat : Row(n) \in Nat /\ Row(n + 1) = Row(n) + VGA_WIDTH
  /\ \A m, n \in Nat : Row(m + n) = Row(m) + Row(n)
  /\ \A m, n \in Nat : m <= n => Row(m) <= Row(n)
  /\ \A m, n \in Nat : m < n => Row(m) + VGA_WIDTH <= Row(n)
  /\ Row(0) = 0 /\ CELLS = Row(VGA_HEIGHT)
  <1> DEFINE W == VGA_WIDTH
  <1>1. W \in Nat /\ VGA_HEIGHT \in Nat
    BY Sizes
  <1> HIDE DEF W
  <1>2. \A n \in Nat : n * W \in Nat /\ (n + 1) * W = n * W + W
    BY <1>1
  <1>3. \A m, n \in Nat : (m + n) * W = m * W + n * W
    BY <1>1
  <1>4. 0 * W = 0 /\ W * VGA_HEIGHT = VGA_HEIGHT * W
    BY <1>1
  <1>5. /\ \A n \in Nat : Row(n) \in Nat /\ Row(n + 1) = Row(n) + W
        /\ \A m, n \in Nat : Row(m + n) = Row(m) + Row(n)
        /\ Row(0) = 0 /\ CELLS = Row(VGA_HEIGHT)
    BY <1>2, <1>3, <1>4 DEF Row, CELLS, W
  <1>6. ASSUME NEW m \in Nat, NEW n \in Nat, m <= n PROVE Row(m) <= Row(n)
    <2>1. n - m \in Nat /\ m + (n - m) = n
      BY <1>6
    <2>2. Row(n) = Row(m) + Row(n - m) /\ Row(m) \in Nat /\ Row(n - m) \in Nat
      BY <1>5, <2>1
    <2> QED BY <2>2
  <1>7. ASSUME NEW m \in Nat, NEW n \in Nat, m < n PROVE Row(m) + W <= Row(n)
    <2>1. m + 1 \in Nat /\ m + 1 <= n
      BY <1>7
    <2> QED BY <1>5, <1>6, <2>1
  <1> QED BY <1>5, <1>6, <1>7 DEF W

LEMMA RowOf ==
  ASSUME NEW n \in Nat, NEW k \in 0 .. VGA_WIDTH - 1
  PROVE  (Row(n) + k) \div VGA_WIDTH = n
  <1> DEFINE W == VGA_WIDTH
             v == Row(n) + k
             q == v \div W
  <1>0. W \in Nat \ {0} /\ k \in 0 .. W - 1
    BY Sizes
  <1>r. Row(n) \in Nat
    BY RowIs
  <1>1. W \in Nat \ {0} /\ v \in Nat /\ k \in 0 .. W - 1
    BY <1>0, <1>r
  <1>2. v = Row(n) + k
    OBVIOUS
  <1> HIDE DEF W, v
  <1>3. q \in Nat /\ q * W <= v /\ v < (q + 1) * W
    BY <1>1
  <1>4. Row(q) <= v /\ v < Row(q + 1)
    BY <1>3 DEF Row, W
  <1> HIDE DEF q
  <1>5. ~(q < n)
    <2>1. q < n => q + 1 \in Nat /\ q + 1 <= n
      BY <1>3
    <2>2. q < n => Row(q + 1) <= Row(n)
      BY <2>1, RowIs
    <2>3. Row(n) \in Nat /\ (q < n => Row(q + 1) \in Nat)
      BY <2>1, RowIs
    <2> QED BY <1>1, <1>2, <1>4, <2>2, <2>3
  <1>6. ~(n < q)
    <2>1. n < q => Row(n) + W <= Row(q)
      BY <1>3, RowIs DEF W
    <2>2. Row(n) \in Nat /\ Row(q) \in Nat
      BY <1>3, RowIs
    <2> QED BY <1>1, <1>2, <1>4, <2>1, <2>2
  <1> QED BY <1>3, <1>5, <1>6 DEF q, v, W

LEMMA MaxIs ==
  ASSUME NEW a \in Int, NEW b \in Int
  PROVE  Max({a, b}) = IF a >= b THEN a ELSE b
  <1> DEFINE m == IF a >= b THEN a ELSE b
  <1>1. m \in {a, b} /\ \A y \in {a, b} : m >= y
    OBVIOUS
  <1>2. \A x \in {a, b} : (\A y \in {a, b} : x >= y) => x = m
    OBVIOUS
  <1> HIDE DEF m
  <1>3. Max({a, b}) \in {a, b} /\ \A y \in {a, b} : Max({a, b}) >= y
    BY <1>1 DEF Max
  <1> QED BY <1>2, <1>3 DEF m

(* Where typing leaves the sheet, its pages counted from the top.          *)
LEMMA TypeOnIs ==
  ASSUME NEW p, NEW c
  PROVE  /\ c = "\n" => TypeOn(p, c).paper = p.paper
         /\ c = "\n" => TypeOn(p, c).pos = Row(p.pos \div VGA_WIDTH + 1)
         /\ c # "\n" => TypeOn(p, c).paper = [p.paper EXCEPT ![p.pos] = c]
         /\ c # "\n" => TypeOn(p, c).pos = p.pos + 1
         /\ TypeOn(p, c).top = Max({p.top, TypeOn(p, c).pos \div VGA_WIDTH - VGA_HEIGHT + 1})
  BY DEF TypeOn, Row

LEMMA TopIs ==
  ASSUME NEW p, NEW c, p.top \in Nat, NEW n \in Nat, NEW k \in 0 .. VGA_WIDTH - 1,
         TypeOn(p, c).pos = Row(n) + k, n <= p.top + VGA_HEIGHT
  PROVE  TypeOn(p, c).top = IF n = p.top + VGA_HEIGHT THEN p.top + 1 ELSE p.top
  <1> DEFINE d == TypeOn(p, c).pos \div VGA_WIDTH
             t == p.top
             h == VGA_HEIGHT
  <1>1. d = n
    BY RowOf
  <1>2. TypeOn(p, c).top = Max({t, d - h + 1})
    BY TypeOnIs
  <1>3. t \in Int /\ h \in Nat /\ n <= t + h
    BY Sizes
  <1> HIDE DEF d, t, h
  <1>4. n - h + 1 \in Int
    BY <1>3
  <1>5. TypeOn(p, c).top = IF t >= n - h + 1 THEN t ELSE n - h + 1
    BY <1>1, <1>2, <1>3, <1>4, MaxIs
  <1>6. (IF t >= n - h + 1 THEN t ELSE n - h + 1) = IF n = t + h THEN t + 1 ELSE t
    BY <1>3
  <1> QED BY <1>5, <1>6 DEF t, h

-----------------------------------------------------------------------------
(* A sheet: the row of its next cell is on the screen, what follows is     *)
(* blank.  A clean one is blank from its next cell on.                     *)
Bottom == Row(ROWS + 1)
BlankAfter(f, v) == \A i \in 0 .. Bottom : i > v => f[i] = " "
LEMMA BottomNat == Bottom \in Nat
  <1>1. ROWS + 1 \in Nat
    BY Sizes
  <1> QED BY <1>1, RowIs DEF Bottom

Sheet(p) ==
  /\ DOMAIN p.paper = 0 .. Bottom
  /\ p.top \in Nat /\ p.top + VGA_HEIGHT <= ROWS
  /\ p.pos \in Nat /\ Row(p.top) <= p.pos /\ p.pos < Row(p.top + VGA_HEIGHT)
  /\ BlankAfter(p.paper, p.pos)
Clean(p) == p.paper[p.pos] = " "

(* Row and column of a cell of the page that begins at row t.              *)
LEMMA Divided ==
  ASSUME NEW t \in Nat, NEW v \in Nat, Row(t) <= v, v < Row(t + VGA_HEIGHT)
  PROVE  \E y \in 0 .. VGA_HEIGHT - 1, x \in 0 .. VGA_WIDTH - 1 : v = Row(t + y) + x
  <1> DEFINE W == VGA_WIDTH
             q == v \div W
             x == v % W
  <1>1. W \in Nat \ {0}
    BY Sizes
  <1> HIDE DEF W
  <1>2. q \in Nat /\ x \in 0 .. W - 1 /\ v = W * q + x /\ W * q = q * W
    BY <1>1
  <1> HIDE DEF q, x
  <1>3. v = Row(q) + x /\ x \in 0 .. VGA_WIDTH - 1 /\ x \in Nat /\ Row(q) \in Nat
    BY <1>2, RowIs DEF Row, W
  <1>4. VGA_HEIGHT \in Nat /\ t + VGA_HEIGHT \in Nat
    BY Sizes
  <1>5. ~(q < t)
    <2>1. q < t => Row(q) + W <= Row(t)
      BY <1>2, RowIs DEF W
    <2>2. Row(t) \in Nat
      BY RowIs
    <2> QED BY <1>1, <1>2, <1>3, <2>1, <2>2
  <1>6. ~(t + VGA_HEIGHT <= q)
    <2>1. t + VGA_HEIGHT <= q => Row(t + VGA_HEIGHT) <= Row(q)
      BY <1>2, <1>4, RowIs
    <2>2. Row(t + VGA_HEIGHT) \in Nat
      BY <1>4, RowIs
    <2> QED BY <1>3, <2>1, <2>2
  <1>7. q - t \in 0 .. VGA_HEIGHT - 1 /\ t + (q - t) = q
    BY <1>2, <1>4, <1>5, <1>6
  <1> QED BY <1>3, <1>7

(* One cell down, the next row, and the end of the sheet.                  *)
LEMMA Rows ==
  ASSUME NEW t \in Nat, t + VGA_HEIGHT <= ROWS
  PROVE  /\ Row(t) \in Nat /\ Row(t + VGA_HEIGHT) = Row(t) + CELLS
         /\ Row(t + 1) = Row(t) + VGA_WIDTH
         /\ Row(t + 1 + VGA_HEIGHT) = Row(t) + CELLS + VGA_WIDTH
         /\ Row(t + 1 + VGA_HEIGHT) <= Bottom
         /\ Bottom \in Nat /\ CELLS \in Nat /\ VGA_WIDTH <= CELLS
         /\ CELLS = Row(VGA_HEIGHT - 1) + VGA_WIDTH /\ Row(VGA_HEIGHT - 1) \in Nat
  <1>1. /\ VGA_HEIGHT \in Nat /\ VGA_HEIGHT - 1 \in Nat /\ ROWS + 1 \in Nat /\ t + 1 \in Nat
        /\ t + 1 + VGA_HEIGHT \in Nat /\ t + 1 + VGA_HEIGHT <= ROWS + 1 /\ t + VGA_HEIGHT \in Nat
        /\ VGA_HEIGHT - 1 + 1 = VGA_HEIGHT /\ VGA_WIDTH \in Nat
    BY Sizes
  <1>2. CELLS = Row(VGA_HEIGHT) /\ CELLS \in Nat
    BY <1>1, RowIs
  <1>3. Row(t) \in Nat /\ Row(t + 1) = Row(t) + VGA_WIDTH
    BY RowIs
  <1>4. Row(t + VGA_HEIGHT) = Row(t) + CELLS
    BY <1>1, <1>2, RowIs
  <1>5. Row(t + 1 + VGA_HEIGHT) = Row(t + 1) + CELLS
    BY <1>1, <1>2, RowIs
  <1>6. Row(t + 1 + VGA_HEIGHT) <= Row(ROWS + 1) /\ Row(ROWS + 1) \in Nat
    BY <1>1, RowIs
  <1>7. Row(VGA_HEIGHT - 1) \in Nat /\ Row(VGA_HEIGHT - 1 + 1) = Row(VGA_HEIGHT - 1) + VGA_WIDTH
    BY <1>1, RowIs
  <1> QED BY <1>1, <1>2, <1>3, <1>4, <1>5, <1>6, <1>7 DEF Bottom

Wrote(f, v, c) == [f EXCEPT ![v] = c]
LEMMA WriteKeepsBlank ==
  ASSUME NEW f, DOMAIN f = 0 .. Bottom, NEW v \in Nat, BlankAfter(f, v), NEW c
  PROVE  DOMAIN Wrote(f, v, c) = 0 .. Bottom /\ BlankAfter(Wrote(f, v, c), v)
  <1> DEFINE g == [f EXCEPT ![v] = c]
  <1>1. DOMAIN g = 0 .. Bottom /\ \A i \in 0 .. Bottom : i # v => g[i] = f[i]
    OBVIOUS
  <1>2. Bottom \in Nat
    BY BottomNat
  <1> HIDE DEF g
  <1>3. \A i \in 0 .. Bottom : i > v => g[i] = " "
    <2> TAKE i \in 0 .. Bottom
    <2>1. i > v => f[i] = " "
      BY DEF BlankAfter
    <2>2. i > v => i # v
      BY <1>2
    <2> QED BY <1>1, <2>1, <2>2
  <1> QED BY <1>1, <1>3 DEF BlankAfter, Wrote, g

LEMMA BlankFurther ==
  ASSUME NEW f, NEW v \in Nat, BlankAfter(f, v), NEW w \in Nat, v <= w
  PROVE  BlankAfter(f, w)
  <1>1. Bottom \in Nat
    BY BottomNat
  <1>2. ASSUME NEW i \in 0 .. Bottom, i > w PROVE f[i] = " "
    <2>1. i > v
      BY <1>1, <1>2
    <2> QED BY <2>1 DEF BlankAfter
  <1> QED BY <1>2 DEF BlankAfter

(* Typing on a sheet, as far as the sheet goes, leaves a clean one, at most*)
(* one row further down.                                                   *)
Typing(p, c, q, y, x) ==
  /\ Sheet(q) /\ Clean(q)
  /\ c = "\n" => q.pos = Row(p.top + y + 1) /\ q.paper = p.paper
  /\ c # "\n" => q.pos = p.pos + 1 /\ q.paper = Wrote(p.paper, p.pos, c)
LEMMA TypeOnSheet ==
  ASSUME NEW p, NEW c, Sheet(p),
         NEW y \in 0 .. VGA_HEIGHT - 1, NEW x \in 0 .. VGA_WIDTH - 1, p.pos = Row(p.top + y) + x,
         p.top + y + 1 < ROWS \/ (c # "\n" /\ x + 1 < VGA_WIDTH)
  PROVE  Typing(p, c, TypeOn(p, c), y, x)
  <1> DEFINE t == p.top
             q == TypeOn(p, c)
             H == VGA_HEIGHT
             W == VGA_WIDTH
             nl == (c = "\n")
             m == IF nl \/ x + 1 = W THEN t + y + 1 ELSE t + y
             k == IF nl \/ x + 1 = W THEN 0 ELSE x + 1
  <1>1. /\ t \in Nat /\ H \in Nat /\ W \in Nat /\ W >= 2 /\ H >= 2 /\ ROWS \in Nat /\ t + H <= ROWS
        /\ y \in 0 .. H - 1 /\ x \in 0 .. W - 1 /\ t + y \in Nat
    <2>1. p.top \in Nat /\ p.top + VGA_HEIGHT <= ROWS
      BY DEF Sheet
    <2> QED BY <2>1, Sizes
  <1>2. Row(t + y) \in Nat /\ Row(t + y + 1) = Row(t + y) + W /\ p.pos \in Nat /\ p.pos = Row(t + y) + x
    BY <1>1, RowIs DEF Sheet
  <1>3. nl => q.pos = Row(t + y + 1) /\ q.paper = p.paper
    <2>1. p.pos \div W = t + y
      BY <1>1, RowOf
    <2> QED BY <2>1, TypeOnIs
  <1>4. ~nl => q.pos = p.pos + 1 /\ q.paper = Wrote(p.paper, p.pos, c)
    BY TypeOnIs DEF Wrote
  <1>c. q.top = Max({t, q.pos \div W - H + 1})
    BY TypeOnIs
  <1>m. /\ m \in Nat /\ k \in 0 .. W - 1 /\ m < ROWS /\ m <= t + H /\ t + y <= m
        /\ k \in Nat
    BY <1>1 DEF m, k
  <1>p. q.pos = Row(m) + k /\ q.pos > p.pos /\ q.pos \in Nat
    <2>1. CASE nl
      BY <1>1, <1>2, <1>3, <2>1
    <2>2. CASE ~nl /\ x + 1 = W
      BY <1>1, <1>2, <1>4, <2>2
    <2>3. CASE ~nl /\ x + 1 # W
      BY <1>1, <1>2, <1>4, <2>3
    <2> QED BY <2>1, <2>2, <2>3
  <1> HIDE DEF m, k, q, t
  <1>5. q.top = IF m = t + H THEN t + 1 ELSE t
    BY <1>1, <1>m, <1>p, TopIs DEF q, t
  <1>6. q.top \in Nat /\ q.top + H <= ROWS /\ q.top <= m /\ m < q.top + H
    BY <1>1, <1>m, <1>5
  <1>7. Row(q.top) <= Row(m) /\ Row(m) + W <= Row(q.top + H) /\ Row(q.top) \in Nat
        /\ Row(m) \in Nat /\ Row(q.top + H) \in Nat
    <2>1. q.top + H \in Nat
      BY <1>1, <1>6
    <2> QED BY <1>m, <1>6, <2>1, RowIs
  <1>8. Row(q.top) <= q.pos /\ q.pos < Row(q.top + H)
    BY <1>1, <1>m, <1>p, <1>7
  <1>9. DOMAIN p.paper = 0 .. Bottom /\ BlankAfter(p.paper, p.pos) /\ Bottom \in Nat
    BY <1>1, RowIs DEF Sheet, Bottom
  <1>10. DOMAIN q.paper = 0 .. Bottom /\ BlankAfter(q.paper, p.pos)
    <2>1. CASE nl
      BY <1>3, <1>9, <2>1
    <2>2. CASE ~nl
      BY <1>2, <1>4, <1>9, <2>2, WriteKeepsBlank
    <2> QED BY <2>1, <2>2
  <1>11. Row(q.top + H) <= Bottom
    <2>1. q.top + H \in Nat /\ ROWS + 1 \in Nat /\ q.top + H <= ROWS + 1
      BY <1>1, <1>6
    <2> QED BY <2>1, RowIs DEF Bottom
  <1>12. q.pos \in 0 .. Bottom
    BY <1>7, <1>8, <1>9, <1>11, <1>p
  <1>13. BlankAfter(q.paper, q.pos)
    BY <1>2, <1>9, <1>10, <1>p, BlankFurther
  <1>14. Sheet(q)
    BY <1>6, <1>8, <1>10, <1>13, <1>p DEF Sheet
  <1>15. Clean(q)
    BY <1>2, <1>10, <1>12, <1>p DEF Clean, BlankAfter
  <1> QED BY <1>3, <1>4, <1>14, <1>15 DEF Typing, q, t

-----------------------------------------------------------------------------
(* The screen shows the page of f that begins at row n; a scroll has moved *)
(* it up by a row as far as cell.                                          *)
Shown(f, n) ==
  \A i \in 0 .. CELLS - 1 :
    /\ i < cell => screen[i] = f[Row(n) + VGA_WIDTH + i]
    /\ i >= cell => screen[i] = f[Row(n) + i]

Canvas ==
  /\ DOMAIN screen = 0 .. CELLS - 1 /\ cell \in 0 .. CELLS
  /\ vga_cursor_x \in 0 .. VGA_WIDTH /\ vga_cursor_y \in 0 .. VGA_HEIGHT
  /\ at # "scroll" \/ vga_cursor_y # VGA_HEIGHT => cell = 0

(* The cursor stands where p is to be continued.                           *)
CursorAt(p) ==
  /\ vga_cursor_x < VGA_WIDTH /\ vga_cursor_y < VGA_HEIGHT
  /\ p.pos = Row(p.top + vga_cursor_y) + vga_cursor_x

Still(p) == Canvas /\ cell = 0 /\ CursorAt(p) /\ Shown(p.paper, p.top)

(* The stations of kprintc(c) on its way from the sheet p to q.            *)
Stage(p, q, c) ==
  /\ Canvas
  /\ at = "start" => CursorAt(p)
  /\ Shown(IF at = "start" THEN p.paper ELSE q.paper, p.top)
  /\ at = "advance" => c # "\n" /\ CursorAt(p)
  /\ at = "wrap" => vga_cursor_y < VGA_HEIGHT /\ q.pos = Row(p.top + vga_cursor_y + 1)
  /\ at = "down" => /\ vga_cursor_x = 0 /\ vga_cursor_y < VGA_HEIGHT
                    /\ q.pos = Row(p.top + vga_cursor_y + 1)
  /\ at = "home" => vga_cursor_y > 0 /\ q.pos = Row(p.top + vga_cursor_y)
  /\ at = "scroll" => /\ vga_cursor_x < VGA_WIDTH
                      /\ q.pos = Row(p.top + vga_cursor_y) + vga_cursor_x
                      /\ vga_cursor_y = VGA_HEIGHT => vga_cursor_x = 0
  /\ at \in {"start", "advance", "wrap", "down", "home", "scroll"}

Showing(p, c) == Sheet(p) /\ Sheet(TypeOn(p, c)) /\ Clean(TypeOn(p, c)) /\ Stage(p, TypeOn(p, c), c)

(* The cell under the cursor, on the screen and on the sheet.              *)
LEMMA UnderCursor ==
  ASSUME NEW t \in Nat, NEW y \in 0 .. VGA_HEIGHT - 1, NEW x \in 0 .. VGA_WIDTH - 1
  PROVE  /\ y * VGA_WIDTH + x \in 0 .. CELLS - 1
         /\ Row(t + y) + x = Row(t) + (y * VGA_WIDTH + x)
         /\ y * VGA_WIDTH = Row(y) /\ Row(y) \in Nat /\ Row(t) \in Nat /\ CELLS \in Nat
         /\ Row(y) + x < CELLS
         /\ Row(t + y + 1) = Row(t + y) + VGA_WIDTH /\ Row(t + y) \in Nat
  <1>1. y \in Nat /\ x \in Nat /\ x < VGA_WIDTH /\ VGA_WIDTH \in Nat /\ y < VGA_HEIGHT /\ VGA_HEIGHT \in Nat
        /\ t + y \in Nat
    BY Sizes
  <1>2. /\ Row(t) \in Nat /\ Row(y) \in Nat /\ Row(t + y) = Row(t) + Row(y)
        /\ Row(y) + VGA_WIDTH <= CELLS /\ CELLS \in Nat
    BY <1>1, RowIs
  <1>3. y * VGA_WIDTH = Row(y)
    BY DEF Row
  <1>4. Row(t + y + 1) = Row(t + y) + VGA_WIDTH /\ Row(t + y) \in Nat
    BY <1>1, RowIs
  <1> DEFINE r == Row(y)
             z == y * VGA_WIDTH
  <1>5. z = r /\ r \in Nat /\ r + VGA_WIDTH <= CELLS
    BY <1>2, <1>3
  <1> HIDE DEF r, z
  <1>6. z + x \in 0 .. CELLS - 1 /\ r + x < CELLS
    BY <1>1, <1>2, <1>5
  <1>7. Row(t + y) + x = Row(t) + (z + x)
    BY <1>1, <1>2, <1>5 DEF r
  <1> QED BY <1>2, <1>3, <1>4, <1>6, <1>7 DEF r, z

(* The store of a character shows it where it was typed.                   *)
LEMMA StoreShows ==
  ASSUME NEW p, NEW c, Sheet(p), Still(p), cell' = cell,
         screen' = [screen EXCEPT ![vga_cursor_y * VGA_WIDTH + vga_cursor_x] = c]
  PROVE  Shown(Wrote(p.paper, p.pos, c), p.top)' /\ DOMAIN screen' = 0 .. CELLS - 1
  <1> DEFINE d == vga_cursor_y * VGA_WIDTH + vga_cursor_x
             g == Wrote(p.paper, p.pos, c)
             b == Row(p.top)
  <1>1. /\ p.top \in Nat /\ vga_cursor_y \in 0 .. VGA_HEIGHT - 1 /\ vga_cursor_x \in 0 .. VGA_WIDTH - 1
        /\ p.top + VGA_HEIGHT <= ROWS
    <2>1. p.top \in Nat /\ p.top + VGA_HEIGHT <= ROWS
      BY DEF Sheet
    <2>2. /\ vga_cursor_x \in 0 .. VGA_WIDTH /\ vga_cursor_y \in 0 .. VGA_HEIGHT
          /\ vga_cursor_x < VGA_WIDTH /\ vga_cursor_y < VGA_HEIGHT
      BY DEF Still, Canvas, CursorAt
    <2> QED BY <2>1, <2>2, Sizes
  <1>2. /\ d \in 0 .. CELLS - 1 /\ p.pos = b + d /\ b \in Nat /\ CELLS \in Nat
    <2>1. p.pos = Row(p.top + vga_cursor_y) + vga_cursor_x
      BY DEF Still, CursorAt
    <2> QED BY <1>1, <2>1, UnderCursor
  <1>3. DOMAIN p.paper = 0 .. Bottom /\ b + CELLS <= Bottom /\ Bottom \in Nat
    <2>1. Row(p.top + 1 + VGA_HEIGHT) = b + CELLS + VGA_WIDTH /\ Row(p.top + 1 + VGA_HEIGHT) <= Bottom
      BY <1>1, Rows
    <2> QED BY <1>2, <2>1, BottomNat, Sizes DEF Sheet
  <1>4. DOMAIN screen = 0 .. CELLS - 1 /\ cell = 0
    BY DEF Still, Canvas
  <1>5. screen' = [screen EXCEPT ![d] = c]
    OBVIOUS
  <1>6. g = [p.paper EXCEPT ![p.pos] = c]
    BY DEF Wrote
  <1> HIDE DEF d, g, b
  <1>7. ASSUME NEW i \in 0 .. CELLS - 1 PROVE screen'[i] = g[b + i]
    <2>1. screen[i] = p.paper[b + i]
      <3>1. i >= cell
        BY <1>2, <1>4
      <3> QED BY <3>1 DEF Still, Shown, b
    <2>2. b + i \in 0 .. Bottom
      BY <1>2, <1>3
    <2>3. CASE i = d
      BY <1>2, <1>3, <1>4, <1>5, <1>6, <2>2, <2>3
    <2>4. CASE i # d
      <3>1. b + i # p.pos
        BY <1>2, <2>4
      <3>2. screen'[i] = screen[i]
        BY <1>4, <1>5, <2>4
      <3>3. g[b + i] = p.paper[b + i]
        BY <1>3, <1>6, <2>2, <3>1
      <3> QED BY <2>1, <3>2, <3>3
    <2> QED BY <2>3, <2>4
  <1>8. Shown(g, p.top)'
    <2> SUFFICES ASSUME NEW i \in 0 .. CELLS - 1
                 PROVE  /\ i < cell' => screen'[i] = g[b + VGA_WIDTH + i]
                        /\ i >= cell' => screen'[i] = g[b + i]
      BY DEF Shown, b
    <2>1. ~(i < cell')
      BY <1>2, <1>4
    <2> QED BY <1>7, <2>1
  <1>9. DOMAIN screen' = 0 .. CELLS - 1
    BY <1>4, <1>5
  <1> QED BY <1>8, <1>9 DEF g

(* What the proofs use of a sheet and of a cursor on it.                   *)
LEMMA OnSheet ==
  ASSUME NEW p, Sheet(p), Canvas, CursorAt(p)
  PROVE  /\ p.top \in Nat /\ p.top + VGA_HEIGHT <= ROWS /\ p.pos \in Nat
         /\ vga_cursor_y \in 0 .. VGA_HEIGHT - 1 /\ vga_cursor_x \in 0 .. VGA_WIDTH - 1
         /\ p.pos = Row(p.top + vga_cursor_y) + vga_cursor_x
  <1>1. p.top \in Nat /\ p.top + VGA_HEIGHT <= ROWS /\ p.pos \in Nat
    BY DEF Sheet
  <1>2. /\ vga_cursor_x \in 0 .. VGA_WIDTH /\ vga_cursor_y \in 0 .. VGA_HEIGHT
        /\ vga_cursor_x < VGA_WIDTH /\ vga_cursor_y < VGA_HEIGHT
        /\ p.pos = Row(p.top + vga_cursor_y) + vga_cursor_x
    BY DEF Canvas, CursorAt
  <1> QED BY <1>1, <1>2, Sizes

(* kprintc moves from station to station.                                  *)
LEMMA PrintStage ==
  ASSUME NEW p, NEW c, Showing(p, c), kprintc, Head(todo)[2] = c
  PROVE  Stage(p, TypeOn(p, c), c)'
  <1> DEFINE q == TypeOn(p, c)
  <1>1. at = "start" /\ UNCHANGED <<vga_cursor_x, cell>>
    BY DEF kprintc
  <1>2. Sheet(p) /\ Canvas /\ CursorAt(p) /\ cell = 0 /\ Shown(p.paper, p.top)
    BY <1>1 DEF Showing, Stage, Canvas
  <1>3. /\ p.top \in Nat /\ p.top + VGA_HEIGHT <= ROWS
        /\ vga_cursor_y \in 0 .. VGA_HEIGHT - 1 /\ vga_cursor_x \in 0 .. VGA_WIDTH - 1
        /\ p.pos = Row(p.top + vga_cursor_y) + vga_cursor_x
    BY <1>2, OnSheet
  <1>4. CASE c = "\n"
    <2>1. at' = "home" /\ screen' = screen /\ vga_cursor_y' = vga_cursor_y + 1
      BY <1>4 DEF kprintc, Goto
    <2>2. Canvas'
      <3>1. vga_cursor_y' \in 0 .. VGA_HEIGHT
        BY <1>3, <2>1, Sizes
      <3> QED BY <1>1, <1>2, <2>1, <3>1 DEF Canvas
    <2>3. q.paper = p.paper /\ q.pos = Row(p.top + vga_cursor_y')
      <3>1. p.top + vga_cursor_y \in Nat /\ p.top + vga_cursor_y' = p.top + vga_cursor_y + 1
        BY <1>3, <2>1, Sizes
      <3>2. p.pos \div VGA_WIDTH = p.top + vga_cursor_y
        BY <1>3, <3>1, RowOf
      <3>3. q.paper = p.paper /\ q.pos = Row(p.pos \div VGA_WIDTH + 1)
        BY <1>4, TypeOnIs
      <3> HIDE DEF q
      <3> QED BY <3>1, <3>2, <3>3
    <2>4. Shown(q.paper, p.top)'
      BY <1>1, <1>2, <2>1, <2>3 DEF Shown
    <2>5. vga_cursor_y' > 0
      BY <1>3, <2>1, Sizes
    <2> HIDE DEF q
    <2> QED BY <2>1, <2>2, <2>3, <2>4, <2>5 DEF Stage, q
  <1>5. CASE c # "\n"
    <2>1. at' = "advance" /\ vga_cursor_y' = vga_cursor_y
      BY <1>5 DEF kprintc, Goto
    <2>2. screen' = [screen EXCEPT ![vga_cursor_y * VGA_WIDTH + vga_cursor_x] = c]
      <3>1. vga_cursor_y * VGA_WIDTH + vga_cursor_x \in 0 .. CELLS - 1 /\ CELLS \in Nat
        BY <1>3, UnderCursor
      <3>2. vga_cursor_y * VGA_WIDTH + vga_cursor_x < CELLS
        BY <3>1
      <3> QED BY <1>5, <3>2 DEF kprintc
    <2>3. Shown(Wrote(p.paper, p.pos, c), p.top)' /\ DOMAIN screen' = 0 .. CELLS - 1
      <3>1. Still(p)
        BY <1>2 DEF Still
      <3> QED BY <1>1, <1>2, <2>2, <3>1, StoreShows
    <2>4. q.paper = Wrote(p.paper, p.pos, c)
      BY <1>5, TypeOnIs DEF Wrote
    <2>5. Canvas'
      BY <1>1, <1>2, <2>1, <2>3 DEF Canvas
    <2>6. CursorAt(p)'
      BY <1>1, <1>2, <2>1 DEF CursorAt
    <2> HIDE DEF q
    <2> QED BY <1>5, <2>1, <2>3, <2>4, <2>5, <2>6 DEF Stage, q
  <1> QED BY <1>4, <1>5

LEMMA AdvanceStage ==
  ASSUME NEW p, NEW c, Showing(p, c), Advance
  PROVE  Stage(p, TypeOn(p, c), c)'
  <1> DEFINE q == TypeOn(p, c)
  <1>1. at = "advance" /\ vga_cursor_x' = vga_cursor_x + 1 /\ UNCHANGED <<screen, vga_cursor_y, cell>>
        /\ at' = IF vga_cursor_x' >= VGA_WIDTH THEN "wrap" ELSE "scroll"
    BY DEF Advance, Goto
  <1>2. /\ Sheet(p) /\ Canvas /\ CursorAt(p) /\ cell = 0 /\ c # "\n" /\ Shown(q.paper, p.top)
    BY <1>1 DEF Showing, Stage, Canvas
  <1>3. /\ p.top \in Nat /\ p.top + VGA_HEIGHT <= ROWS
        /\ vga_cursor_y \in 0 .. VGA_HEIGHT - 1 /\ vga_cursor_x \in 0 .. VGA_WIDTH - 1
        /\ p.pos = Row(p.top + vga_cursor_y) + vga_cursor_x
    BY <1>2, OnSheet
  <1>4. q.pos = p.pos + 1
    BY <1>2, TypeOnIs
  <1> HIDE DEF q
  <1>5. Canvas'
    <2>1. vga_cursor_x' \in 0 .. VGA_WIDTH
      BY <1>1, <1>3, Sizes
    <2> QED BY <1>1, <1>2, <2>1 DEF Canvas
  <1>6. Shown(q.paper, p.top)'
    BY <1>1, <1>2 DEF Shown
  <1>7. Row(p.top + vga_cursor_y + 1) = Row(p.top + vga_cursor_y) + VGA_WIDTH /\ Row(p.top + vga_cursor_y) \in Nat
    BY <1>3, UnderCursor
  <1>8. vga_cursor_y' < VGA_HEIGHT /\ vga_cursor_y' # VGA_HEIGHT
    BY <1>1, <1>3, Sizes
  <1>9. CASE vga_cursor_x' >= VGA_WIDTH
    <2>1. q.pos = Row(p.top + vga_cursor_y + 1)
      BY <1>1, <1>3, <1>4, <1>7, <1>9, Sizes
    <2>2. at' = "wrap"
      BY <1>1, <1>9
    <2> QED BY <1>1, <1>5, <1>6, <1>8, <2>1, <2>2 DEF Stage, q
  <1>10. CASE ~(vga_cursor_x' >= VGA_WIDTH)
    <2>1. q.pos = Row(p.top + vga_cursor_y) + vga_cursor_x'
      BY <1>1, <1>3, <1>4, <1>7
    <2>2. at' = "scroll" /\ vga_cursor_x' < VGA_WIDTH
      BY <1>1, <1>3, <1>10, Sizes
    <2> QED BY <1>1, <1>5, <1>6, <1>8, <2>1, <2>2 DEF Stage, q
  <1> QED BY <1>9, <1>10

LEMMA WrapStage ==
  ASSUME NEW p, NEW c, Showing(p, c), Wrap
  PROVE  Stage(p, TypeOn(p, c), c)'
  <1> DEFINE q == TypeOn(p, c)
  <1>1. at = "wrap" /\ at' = "down" /\ vga_cursor_x' = 0 /\ UNCHANGED <<screen, vga_cursor_y, cell>>
    BY DEF Wrap, Goto
  <1>2. /\ Canvas /\ Shown(q.paper, p.top) /\ vga_cursor_y < VGA_HEIGHT
        /\ q.pos = Row(p.top + vga_cursor_y + 1) /\ cell = 0
    BY <1>1 DEF Showing, Stage, Canvas
  <1> HIDE DEF q
  <1>3. Canvas'
    <2>1. 0 \in 0 .. VGA_WIDTH
      BY Sizes
    <2> QED BY <1>1, <1>2, <2>1 DEF Canvas
  <1>4. Shown(q.paper, p.top)'
    BY <1>1, <1>2 DEF Shown
  <1> QED BY <1>1, <1>2, <1>3, <1>4 DEF Stage, q

LEMMA DownStage ==
  ASSUME NEW p, NEW c, Showing(p, c), Down
  PROVE  Stage(p, TypeOn(p, c), c)'
  <1> DEFINE q == TypeOn(p, c)
  <1>1. /\ at = "down" /\ at' = "scroll" /\ vga_cursor_y' = vga_cursor_y + 1
        /\ UNCHANGED <<screen, vga_cursor_x, cell>>
    BY DEF Down, Goto
  <1>2. /\ Canvas /\ Shown(q.paper, p.top) /\ vga_cursor_y < VGA_HEIGHT /\ vga_cursor_x = 0
        /\ q.pos = Row(p.top + vga_cursor_y + 1) /\ cell = 0 /\ p.top \in Nat
    BY <1>1 DEF Showing, Stage, Canvas, Sheet
  <1> HIDE DEF q
  <1>3. vga_cursor_y' \in 0 .. VGA_HEIGHT /\ vga_cursor_y \in Nat
    BY <1>1, <1>2, Sizes DEF Canvas
  <1>4. Canvas'
    BY <1>1, <1>2, <1>3 DEF Canvas
  <1>5. Shown(q.paper, p.top)'
    BY <1>1, <1>2 DEF Shown
  <1>6. q.pos = Row(p.top + vga_cursor_y') + 0 /\ 0 < VGA_WIDTH
    <2>1. p.top + vga_cursor_y' \in Nat /\ p.top + vga_cursor_y' = p.top + vga_cursor_y + 1
      BY <1>1, <1>2, <1>3
    <2>2. Row(p.top + vga_cursor_y') \in Nat
      BY <2>1, RowIs
    <2> QED BY <1>2, <2>1, <2>2, Sizes
  <1> QED BY <1>1, <1>2, <1>4, <1>5, <1>6 DEF Stage, q

LEMMA HomeStage ==
  ASSUME NEW p, NEW c, Showing(p, c), Home
  PROVE  Stage(p, TypeOn(p, c), c)'
  <1> DEFINE q == TypeOn(p, c)
  <1>1. at = "home" /\ at' = "scroll" /\ vga_cursor_x' = 0 /\ UNCHANGED <<screen, vga_cursor_y, cell>>
    BY DEF Home, Goto
  <1>2. /\ Canvas /\ Shown(q.paper, p.top) /\ q.pos = Row(p.top + vga_cursor_y) /\ cell = 0 /\ p.top \in Nat
    BY <1>1 DEF Showing, Stage, Canvas, Sheet
  <1> HIDE DEF q
  <1>3. Canvas'
    <2>1. 0 \in 0 .. VGA_WIDTH
      BY Sizes
    <2> QED BY <1>1, <1>2, <2>1 DEF Canvas
  <1>4. Shown(q.paper, p.top)'
    BY <1>1, <1>2 DEF Shown
  <1>5. q.pos = Row(p.top + vga_cursor_y) + 0 /\ 0 < VGA_WIDTH
    <2>1. vga_cursor_y \in 0 .. VGA_HEIGHT /\ p.top \in Nat
      BY <1>2 DEF Canvas
    <2>2. p.top + vga_cursor_y \in Nat
      BY <2>1, Sizes
    <2>3. Row(p.top + vga_cursor_y) \in Nat
      BY <2>2, RowIs
    <2> QED BY <1>2, <2>3, Sizes
  <1> QED BY <1>1, <1>2, <1>3, <1>4, <1>5 DEF Stage, q

(* A cell that the scroll writes is the one below it, or blank.            *)
LEMMA ScrollCellStage ==
  ASSUME NEW p, NEW c, Showing(p, c), ScrollCell
  PROVE  Stage(p, TypeOn(p, c), c)'
  <1> DEFINE q == TypeOn(p, c)
             f == q.paper
             b == Row(p.top)
             W == VGA_WIDTH
             n == CELLS
  <1>1. /\ at = "scroll" /\ vga_cursor_y >= VGA_HEIGHT /\ cell < n /\ cell' = cell + 1
        /\ UNCHANGED <<vga_cursor_x, vga_cursor_y, at>>
    BY DEF ScrollCell
  <1>2. screen' = [screen EXCEPT ![cell] = IF cell < n - W THEN screen[cell + W] ELSE " "]
    BY DEF ScrollCell
  <1>3. /\ Canvas /\ Shown(f, p.top) /\ vga_cursor_x < W
        /\ q.pos = Row(p.top + vga_cursor_y) + vga_cursor_x
        /\ vga_cursor_y = VGA_HEIGHT => vga_cursor_x = 0
        /\ p.top \in Nat /\ p.top + VGA_HEIGHT <= ROWS /\ BlankAfter(f, q.pos) /\ f[q.pos] = " "
    BY <1>1 DEF Showing, Stage, Sheet, Clean
  <1>4. vga_cursor_y = VGA_HEIGHT /\ vga_cursor_x = 0 /\ cell \in Nat /\ DOMAIN screen = 0 .. n - 1
    <2>1. /\ vga_cursor_y \in 0 .. VGA_HEIGHT /\ cell \in 0 .. n /\ DOMAIN screen = 0 .. n - 1
      BY <1>3 DEF Canvas
    <2>2. n \in Nat
      BY <1>3, Rows
    <2>3. vga_cursor_y = VGA_HEIGHT
      BY <1>1, <2>1, Sizes
    <2> HIDE DEF n
    <2>4. cell \in Nat
      BY <2>1, <2>2
    <2> QED BY <1>3, <2>1, <2>3, <2>4
  <1>5. /\ b \in Nat /\ Row(p.top + VGA_HEIGHT) = b + n /\ b + n + W <= Bottom
        /\ n \in Nat /\ W \in Nat /\ W <= n /\ Bottom \in Nat /\ W >= 2
    BY <1>3, Rows, Sizes
  <1> HIDE DEF q, b, n, W
  <1>6. q.pos = b + n
    <2>1. q.pos = Row(p.top + VGA_HEIGHT) + 0
      BY <1>3, <1>4
    <2> QED BY <1>5, <2>1
  <1>7. ASSUME NEW i \in 0 .. n - 1
        PROVE  /\ i < cell => screen[i] = f[b + W + i]
               /\ i >= cell => screen[i] = f[b + i]
    BY <1>3 DEF Shown, b, n, W
  <1> HIDE DEF f
  <1>8. screen'[cell] = f[b + W + cell]
    <2>0. cell \in 0 .. n - 1
      BY <1>1, <1>4, <1>5
    <2>1. CASE cell < n - W
      <3>1. cell + W \in 0 .. n - 1 /\ cell + W >= cell /\ b + (cell + W) = b + W + cell
        BY <1>4, <1>5, <2>1
      <3>2. screen[cell + W] = f[b + W + cell]
        BY <1>7, <3>1
      <3> QED BY <1>2, <1>4, <2>0, <2>1, <3>2
    <2>2. CASE ~(cell < n - W)
      <3>1. b + W + cell \in 0 .. Bottom /\ b + W + cell >= b + n
        BY <1>1, <1>4, <1>5, <2>2
      <3>2. f[b + W + cell] = " "
        <4>1. CASE b + W + cell = b + n
          BY <1>3, <1>6, <4>1 DEF f
        <4>2. CASE b + W + cell > b + n
          BY <1>3, <1>6, <3>1, <4>2 DEF BlankAfter
        <4>3. b + W + cell = b + n \/ b + W + cell > b + n
          BY <1>4, <1>5, <3>1
        <4> QED BY <4>1, <4>2, <4>3
      <3>3. screen'[cell] = " "
        BY <1>2, <1>4, <2>0, <2>2
      <3> QED BY <3>2, <3>3
    <2> QED BY <2>1, <2>2
  <1>9. ASSUME NEW i \in 0 .. n - 1
        PROVE  /\ i < cell' => screen'[i] = f[b + W + i]
               /\ i >= cell' => screen'[i] = f[b + i]
    <2>1. i # cell => screen'[i] = screen[i]
      BY <1>2, <1>4
    <2>2. CASE i = cell
      <3>1. ~(i >= cell')
        BY <1>1, <1>4, <2>2
      <3> QED BY <1>8, <2>2, <3>1
    <2>3. CASE i # cell
      <3>1. (i < cell' <=> i < cell) /\ (i >= cell' => i >= cell)
        BY <1>1, <1>4, <1>5, <2>3
      <3> QED BY <1>7, <2>1, <2>3, <3>1
    <2> QED BY <2>2, <2>3
  <1>10. Shown(f, p.top)'
    BY <1>9 DEF Shown, b, n, W
  <1>11. cell' \in 0 .. n /\ DOMAIN screen' = 0 .. n - 1
    <2>1. cell' \in 0 .. n
      BY <1>1, <1>4, <1>5
    <2>2. DOMAIN screen' = DOMAIN screen
      BY <1>2
    <2> QED BY <1>4, <2>1, <2>2
  <1>12. Canvas'
    BY <1>1, <1>3, <1>4, <1>11 DEF Canvas, n
  <1> QED BY <1>1, <1>3, <1>4, <1>10, <1>12 DEF Stage, q, f, W

(* At its end the sheet with the character is on the screen.               *)
LEMMA ScrollEndStage ==
  ASSUME NEW p, NEW c, Showing(p, c), ScrollEnd
  PROVE  Still(TypeOn(p, c))'
  <1> DEFINE q == TypeOn(p, c)
             y == vga_cursor_y
             x == vga_cursor_x
             H == VGA_HEIGHT
             t == p.top
  <1>1. /\ at = "scroll" /\ (y >= H => cell = CELLS) /\ cell' = 0 /\ at' = "start"
        /\ y' = (IF y >= H THEN H - 1 ELSE y)
        /\ UNCHANGED <<screen, vga_cursor_x>>
    BY DEF ScrollEnd, Done
  <1>2. /\ Canvas /\ Shown(q.paper, t) /\ x < VGA_WIDTH
        /\ q.pos = Row(t + y) + x
        /\ y = H => x = 0
        /\ t \in Nat /\ t + H <= ROWS
    BY <1>1 DEF Showing, Stage, Sheet
  <1>3. /\ y \in 0 .. H /\ x \in 0 .. VGA_WIDTH - 1 /\ H \in Nat /\ H >= 2
        /\ t + y \in Nat /\ t + y <= t + H
    BY <1>2, Sizes DEF Canvas
  <1>4. q.top = IF t + y = t + H THEN t + 1 ELSE t
    BY <1>2, <1>3, TopIs
  <1>5. /\ y' \in 0 .. H - 1 /\ q.top + y' = t + y
    BY <1>1, <1>2, <1>3, <1>4
  <1>6. /\ Row(t) \in Nat /\ Row(t + 1) = Row(t) + VGA_WIDTH /\ CELLS \in Nat
    BY <1>2, Rows
  <1> HIDE DEF q, t
  <1>7. Shown(q.paper, q.top)'
    <2> SUFFICES ASSUME NEW i \in 0 .. CELLS - 1
                 PROVE  screen[i] = q.paper[Row(q.top) + i] /\ ~(i < 0)
      BY <1>1, <1>6 DEF Shown
    <2>1. CASE y = H
      <3>1. cell = CELLS /\ i < cell /\ q.top = t + 1
        BY <1>1, <1>3, <1>4, <1>6, <2>1
      <3>2. screen[i] = q.paper[Row(t) + VGA_WIDTH + i]
        BY <1>2, <3>1 DEF Shown
      <3> QED BY <1>6, <3>1, <3>2
    <2>2. CASE y # H
      <3>1. cell = 0 /\ i >= cell /\ q.top = t
        BY <1>1, <1>2, <1>3, <1>4, <1>6, <2>2 DEF Canvas
      <3>2. screen[i] = q.paper[Row(t) + i]
        BY <1>2, <3>1 DEF Shown
      <3> QED BY <1>6, <3>1, <3>2
    <2> QED BY <2>1, <2>2
  <1>8. CursorAt(q)'
    <2>1. y' < H
      BY <1>3, <1>5
    <2> QED BY <1>1, <1>2, <1>5, <2>1 DEF CursorAt
  <1>9. Canvas'
    <2>1. y' \in 0 .. H /\ 0 \in 0 .. CELLS
      BY <1>3, <1>5, <1>6
    <2> QED BY <1>1, <1>2, <2>1 DEF Canvas
  <1> QED BY <1>1, <1>7, <1>8, <1>9 DEF Still, q

-----------------------------------------------------------------------------
(* kprintc never leaves its stations but by its end.                       *)
Storing == kprintc \/ Advance \/ Wrap \/ Down \/ Home \/ ScrollCell

LEMMA ShowingNext ==
  ASSUME NEW p, NEW c, Showing(p, c), Storing, Head(todo)[2] = c
  PROVE  Showing(p, c)'
  <1>1. Stage(p, TypeOn(p, c), c)'
    BY PrintStage, AdvanceStage, WrapStage, DownStage, HomeStage, ScrollCellStage DEF Storing
  <1> QED BY <1>1 DEF Showing, Sheet, Clean

(* The sheet one cell back.                                                *)
Back(p) == [paper |-> p.paper, pos |-> p.pos - 1, top |-> p.top]

LEMMA BackSheet ==
  ASSUME NEW p, Sheet(p), Clean(p), p.pos > Row(p.top)
  PROVE  Sheet(Back(p))
  <1>1. /\ Back(p).paper = p.paper /\ Back(p).pos = p.pos - 1 /\ Back(p).top = p.top
    BY DEF Back
  <1> DEFINE r == Back(p)
  <1>2. /\ DOMAIN p.paper = 0 .. Bottom /\ p.top \in Nat /\ p.top + VGA_HEIGHT <= ROWS /\ p.pos \in Nat
        /\ p.pos < Row(p.top + VGA_HEIGHT) /\ BlankAfter(p.paper, p.pos)
    BY DEF Sheet
  <1>3. Row(p.top) \in Nat /\ p.top + VGA_HEIGHT \in Nat
    <2>1. Row(p.top) \in Nat
      BY <1>2, RowIs
    <2> QED BY <1>2, <2>1, Sizes
  <1>4. Row(p.top + VGA_HEIGHT) \in Nat
    BY <1>3, RowIs
  <1>5. r.pos \in Nat /\ Row(r.top) <= r.pos /\ r.pos < Row(r.top + VGA_HEIGHT)
    BY <1>1, <1>2, <1>3, <1>4
  <1>6. BlankAfter(p.paper, p.pos - 1)
    <2> SUFFICES ASSUME NEW i \in 0 .. Bottom, i > p.pos - 1 PROVE p.paper[i] = " "
      BY DEF BlankAfter
    <2>1. i = p.pos \/ i > p.pos
      BY <1>2, BottomNat
    <2>2. i > p.pos => p.paper[i] = " "
      BY <1>2 DEF BlankAfter
    <2> QED BY <2>1, <2>2 DEF Clean
  <1> HIDE DEF r
  <1> QED BY <1>1, <1>2, <1>5, <1>6 DEF Sheet, r

(* The top left of the screen is the first cell of its page.               *)
LEMMA AtTop ==
  ASSUME NEW p, Sheet(p), Still(p)
  PROVE  /\ p.pos = Row(p.top) <=> (vga_cursor_x = 0 /\ vga_cursor_y = 0)
         /\ p.pos \in Nat /\ Row(p.top) \in Nat /\ Row(p.top) <= p.pos
  <1>1. /\ p.top \in Nat /\ p.top + VGA_HEIGHT <= ROWS /\ p.pos \in Nat
        /\ vga_cursor_y \in 0 .. VGA_HEIGHT - 1 /\ vga_cursor_x \in 0 .. VGA_WIDTH - 1
        /\ p.pos = Row(p.top + vga_cursor_y) + vga_cursor_x
    BY OnSheet DEF Still
  <1> DEFINE y == vga_cursor_y
             x == vga_cursor_x
  <1>2. y \in Nat /\ x \in Nat /\ VGA_WIDTH \in Nat /\ VGA_WIDTH > 0
    BY <1>1, Sizes
  <1>3. Row(p.top + y) = Row(p.top) + Row(y) /\ Row(p.top) \in Nat /\ Row(y) \in Nat /\ Row(0) = 0
    BY <1>1, <1>2, RowIs
  <1>4. y > 0 => Row(y) >= VGA_WIDTH
    <2>1. 0 < y => Row(0) + VGA_WIDTH <= Row(y)
      BY <1>2, RowIs
    <2> QED BY <1>2, <1>3, <2>1
  <1> HIDE DEF x, y
  <1>5. p.pos = Row(p.top) + Row(y) + x
    BY <1>1, <1>3 DEF x, y
  <1>6. p.pos = Row(p.top) <=> (x = 0 /\ y = 0)
    <2>1. CASE y = 0
      BY <1>2, <1>3, <1>5, <2>1
    <2>2. CASE y # 0
      <3>1. Row(y) > 0
        BY <1>2, <1>3, <1>4, <2>2
      <3> QED BY <1>2, <1>3, <1>5, <2>2, <3>1
    <2> QED BY <2>1, <2>2
  <1> QED BY <1>1, <1>2, <1>3, <1>5, <1>6 DEF x, y

(* The cursor steps back by a cell, over the beginning of a line too.      *)
LEMMA BackStill ==
  ASSUME NEW p, Sheet(p), Still(p), p.pos > Row(p.top), CursorBack, UNCHANGED <<screen, at, cell>>
  PROVE  Still(Back(p))'
  <1> DEFINE y == vga_cursor_y
             x == vga_cursor_x
             H == VGA_HEIGHT
             W == VGA_WIDTH
             t == p.top
  <1>1. /\ t \in Nat /\ t + H <= ROWS /\ p.pos \in Nat
        /\ y \in 0 .. H - 1 /\ x \in 0 .. W - 1
        /\ p.pos = Row(t + y) + x
    BY OnSheet DEF Still
  <1>2. ~(x = 0 /\ y = 0)
    BY AtTop
  <1>3. /\ Back(p).paper = p.paper /\ Back(p).pos = p.pos - 1 /\ Back(p).top = t
    BY DEF Back
  <1>4. /\ x = 0 => x' = W - 1 /\ y' = (y - 1) % 256
        /\ x # 0 => x' = x - 1 /\ y' = y
    BY DEF CursorBack
  <1>5. Still(p) /\ UNCHANGED <<screen, at, cell>>
    OBVIOUS
  <1>6. W \in Nat /\ H \in Nat /\ W >= 2 /\ H >= 2 /\ H <= 254
    BY Sizes
  <1> HIDE DEF x, y, W, H, t
  <1>7. x = 0 => y' = y - 1 /\ y \in 1 .. H - 1
    BY <1>1, <1>2, <1>4, <1>6
  <1>8. /\ x' \in 0 .. W - 1 /\ y' \in 0 .. H - 1
    BY <1>1, <1>4, <1>6, <1>7
  <1>9. p.pos - 1 = Row(t + y') + x'
    <2>1. CASE x = 0
      <3>1. t + y' \in Nat /\ t + y = t + y' + 1
        BY <1>1, <1>7, <1>6, <2>1
      <3>2. Row(t + y) = Row(t + y') + W /\ Row(t + y') \in Nat
        BY <3>1, RowIs DEF W
      <3> QED BY <1>1, <1>4, <1>6, <2>1, <3>2
    <2>2. CASE x # 0
      <3>1. t + y \in Nat
        BY <1>1, <1>6
      <3>2. Row(t + y) \in Nat
        BY <3>1, RowIs
      <3> QED BY <1>1, <1>4, <1>6, <2>2, <3>2
    <2> QED BY <2>1, <2>2
  <1>10. Canvas' /\ cell' = 0
    <2>1. x' \in 0 .. W /\ y' \in 0 .. H
      BY <1>6, <1>8
    <2>2. DOMAIN screen' = 0 .. CELLS - 1 /\ cell' \in 0 .. CELLS /\ cell' = 0
      BY <1>5 DEF Still, Canvas
    <2> QED BY <2>1, <2>2 DEF Canvas, x, y, H, W
  <1>11. CursorAt(Back(p))'
    <2>1. x' < W /\ y' < H
      BY <1>6, <1>8
    <2> QED BY <1>3, <1>9, <2>1 DEF CursorAt, x, y, H, W
  <1>12. Shown(Back(p).paper, Back(p).top)'
    BY <1>3, <1>5 DEF Still, Shown, t
  <1> QED BY <1>10, <1>11, <1>12 DEF Still

(* Blanking the cell before the cursor keeps the page.                     *)
LEMMA BlankOver ==
  ASSUME NEW p, Sheet(p), Clean(p), p.pos > Row(p.top)
  PROVE  LET q == TypeOn(Back(p), " ")
         IN  /\ Sheet(q) /\ Clean(q) /\ q.top = p.top /\ q.pos = p.pos
             /\ q.paper = Wrote(p.paper, p.pos - 1, " ")
  <1> DEFINE r == Back(p)
             q == TypeOn(r, " ")
  <1>1. /\ r.paper = p.paper /\ r.pos = p.pos - 1 /\ r.top = p.top
    BY DEF Back
  <1>2. Sheet(r)
    BY BackSheet
  <1>3. /\ p.top \in Nat /\ p.top + VGA_HEIGHT <= ROWS /\ p.pos \in Nat
        /\ p.pos < Row(p.top + VGA_HEIGHT) /\ Row(p.top) <= p.pos
    BY DEF Sheet
  <1>4. /\ r.top \in Nat /\ r.pos \in Nat /\ Row(r.top) <= r.pos /\ r.pos < Row(r.top + VGA_HEIGHT)
    BY <1>2 DEF Sheet
  <1>a. q.paper = Wrote(p.paper, p.pos - 1, " ")
    <2>1. q.paper = [r.paper EXCEPT ![r.pos] = " "]
      BY TypeOnIs
    <2> QED BY <1>1, <2>1 DEF Wrote
  <1>b. q.pos = r.pos + 1
    BY TypeOnIs
  <1> HIDE DEF r
  <1>5. PICK y \in 0 .. VGA_HEIGHT - 1, x \in 0 .. VGA_WIDTH - 1 : r.pos = Row(r.top + y) + x
    BY <1>4, Divided
  <1>6. PICK n \in 0 .. VGA_HEIGHT - 1, k \in 0 .. VGA_WIDTH - 1 : p.pos = Row(p.top + n) + k
    BY <1>3, Divided
  <1>7. r.top + y + 1 < ROWS \/ x + 1 < VGA_WIDTH
    <2> SUFFICES ASSUME ~(x + 1 < VGA_WIDTH) PROVE r.top + y + 1 < ROWS
      OBVIOUS
    <2>1. r.top + y \in Nat /\ r.top + VGA_HEIGHT \in Nat /\ r.top + y + 1 \in Nat
      BY <1>4, Sizes
    <2>2. Row(r.top + y + 1) = Row(r.top + y) + VGA_WIDTH /\ Row(r.top + y) \in Nat
      BY <2>1, RowIs
    <2>3. p.pos = Row(r.top + y + 1)
      BY <1>1, <1>3, <1>5, <2>2, Sizes
    <2>4. r.top + VGA_HEIGHT <= r.top + y + 1 => Row(r.top + VGA_HEIGHT) <= Row(r.top + y + 1)
      BY <2>1, RowIs
    <2>5. Row(r.top + VGA_HEIGHT) \in Nat /\ Row(r.top + y + 1) \in Nat
      BY <2>1, RowIs
    <2>6. ~(r.top + VGA_HEIGHT <= r.top + y + 1)
      BY <1>1, <1>3, <2>3, <2>4, <2>5
    <2> QED BY <1>1, <1>3, <2>1, <2>6, Sizes
  <1>8. Typing(r, " ", q, y, x)
    BY <1>2, <1>5, <1>7, TypeOnSheet
  <1>9. q.pos = p.pos
    <2> HIDE DEF q
    <2> QED BY <1>1, <1>3, <1>b
  <1>10. q.top = p.top
    <2>1. p.top + n \in Nat /\ p.top + n <= p.top + VGA_HEIGHT /\ p.top + n # p.top + VGA_HEIGHT
      BY <1>3, Sizes
    <2>2. q.top = IF p.top + n = r.top + VGA_HEIGHT THEN r.top + 1 ELSE r.top
      BY <1>1, <1>3, <1>6, <1>9, <2>1, TopIs
    <2> QED BY <1>1, <2>1, <2>2
  <1> QED BY <1>8, <1>9, <1>10, <1>a DEF Typing, r

-----------------------------------------------------------------------------
(* What the echo loop has left to do: k operations that concern the screen,*)
(* then bytes for the serial port.                                         *)
Then(k) ==
  /\ IsSequence(todo) /\ Len(todo) >= k
  /\ \A i \in k + 1 .. Len(todo) : todo[i][1] = "tx"

LEMMA HeadIs ==
  ASSUME NEW k \in Nat, Then(k), todo # <<>>
  PROVE  Head(todo) = todo[1] /\ (k = 0 => Head(todo)[1] = "tx")
  <1>1. Len(todo) \in Nat /\ Len(todo) # 0
    BY LenNat, NoElements DEF Then
  <1>2. Head(todo) = todo[1]
    <2>1. PICK S : todo \in Seq(S)
      BY DEF Then, IsSequence
    <2> QED BY <1>1, <2>1
  <1>3. k = 0 => todo[1][1] = "tx"
    BY <1>1 DEF Then
  <1> QED BY <1>2, <1>3

LEMMA TailIs ==
  ASSUME NEW s, IsSequence(s), s # <<>>
  PROVE  /\ IsSequence(Tail(s)) /\ Len(Tail(s)) = Len(s) - 1 /\ Len(s) \in Nat /\ Len(s) >= 1
         /\ \A i \in 1 .. Len(s) - 1 : Tail(s)[i] = s[i + 1]
  <1>1. PICK S : s \in Seq(S)
    BY DEF IsSequence
  <1>2. Tail(s) \in Seq(S) /\ Len(Tail(s)) = Len(s) - 1 /\ Len(s) \in Nat
        /\ \A i \in 1 .. Len(Tail(s)) : Tail(s)[i] = s[i + 1]
    BY <1>1, HeadTailProperties
  <1>3. Len(s) # 0
    BY NoElements
  <1> QED BY <1>2, <1>3 DEF IsSequence

LEMMA TailThen ==
  ASSUME NEW k \in Nat, NEW j \in Nat, k = j + 1 \/ (k = 0 /\ j = 0),
         Then(k), todo # <<>>, todo' = Tail(todo)
  PROVE  Then(j)' /\ \A i \in 1 .. j : todo'[i] = todo[i + 1]
  <1> DEFINE l == Len(todo)
             m == Len(todo)'
  <1>1. /\ IsSequence(todo)' /\ m = l - 1 /\ l \in Nat /\ l >= 1
        /\ \A i \in 1 .. l - 1 : todo'[i] = todo[i + 1]
    BY TailIs DEF Then
  <1>2. l >= k /\ \A i \in k + 1 .. l : todo[i][1] = "tx"
    BY DEF Then
  <1> HIDE DEF l, m
  <1>3. \A i \in 1 .. j : todo'[i] = todo[i + 1]
    <2> TAKE i \in 1 .. j
    <2>1. i \in 1 .. l - 1
      BY <1>1, <1>2
    <2> QED BY <1>1, <2>1
  <1>4. ASSUME NEW i \in j + 1 .. m PROVE todo'[i][1] = "tx"
    <2>1. i \in 1 .. l - 1 /\ i + 1 \in k + 1 .. l
      BY <1>1, <1>4
    <2> QED BY <1>1, <1>2, <2>1
  <1>5. m >= j
    BY <1>1, <1>2
  <1>6. \A i \in j + 1 .. m : todo'[i][1] = "tx"
    BY <1>4
  <1> QED BY <1>1, <1>3, <1>5, <1>6 DEF Then, m

LEMMA DropThen ==
  ASSUME Then(3), todo' = SubSeq(todo, 4, Len(todo))
  PROVE  Then(0)'
  <1> DEFINE l == Len(todo)
             m == Len(todo)'
  <1>1. IsSequence(todo) /\ l \in Nat /\ l >= 3
    BY LenNat DEF Then
  <1>2. \A i \in 4 .. l : todo[i][1] = "tx"
    BY DEF Then
  <1>3. todo' = Drop(todo, 3)
    BY DEF Drop
  <1>4. IsDrop(todo', todo, 3)
    <2>1. 3 \in 0 .. Len(todo)
      BY <1>1
    <2> QED BY <1>1, <1>3, <2>1, DropIs
  <1>5. IsSequence(todo') /\ m = l - 3 /\ \A i \in 1 .. l - 3 : todo'[i] = todo[3 + i]
    BY <1>4 DEF IsDrop
  <1> HIDE DEF l, m
  <1>6. ASSUME NEW i \in 1 .. m PROVE todo'[i][1] = "tx"
    <2>1. i \in 1 .. l - 3 /\ 3 + i \in 4 .. l
      BY <1>1, <1>5
    <2> QED BY <1>2, <1>5, <2>1
  <1>7. m >= 0
    BY <1>1, <1>5
  <1> QED BY <1>5, <1>6, <1>7 DEF Then, m

(* The reference, which is ahead of the screen while the echo runs.        *)
Same(p) == paper = p.paper /\ pos = p.pos /\ top = p.top
SameBack(p) == paper = p.paper /\ pos = p.pos - 1 /\ top = p.top
SameErased(p) ==
  IF p.pos = Row(p.top) THEN Same(p)
  ELSE paper = Wrote(p.paper, p.pos - 1, " ") /\ pos = p.pos - 1 /\ top = p.top

(* The states of the echo loop: nothing left for the screen; a character;  *)
(* a newline and the prompt; the three parts of vga_backspace.             *)
Settled(p) == Sheet(p) /\ Clean(p) /\ Still(p)
Idle(p) ==
  /\ Settled(p) /\ at \in {"start", "outb"} /\ Same(p) /\ Then(0)
  /\ at = "outb" => todo # <<>>
Printing(p, c) ==
  /\ c # "\n" /\ Showing(p, c) /\ Same(TypeOn(p, c))
  /\ todo[1] = Show(c) /\ Then(1)
NewLine(p) ==
  /\ Showing(p, "\n") /\ Same(TypePrompt(p))
  /\ Sheet(TypePrompt(p)) /\ Clean(TypePrompt(p))
  /\ todo[1] = Show("\n") /\ todo[2] = Show(">") /\ Then(2)
SteppingBack(p) ==
  /\ Settled(p) /\ at = "start" /\ SameErased(p)
  /\ todo[1] = StepBack /\ todo[2] = Show(" ") /\ todo[3] = Again /\ Then(3)
Blanking(p) ==
  /\ Showing(p, " ") /\ SameBack(TypeOn(p, " ")) /\ TypeOn(p, " ").top = p.top
  /\ todo[1] = Show(" ") /\ todo[2] = Again /\ Then(2)
ReturningTo(p) ==
  /\ Settled(p) /\ at = "start" /\ SameBack(p)
  /\ p.pos > Row(p.top) /\ p.paper[p.pos - 1] = " "
  /\ todo[1] = Again /\ Then(1)

Echoing ==
  \E p : Idle(p) \/ (\E c : Printing(p, c)) \/ NewLine(p)
         \/ SteppingBack(p) \/ Blanking(p) \/ ReturningTo(p)

-----------------------------------------------------------------------------
LEMMA OnlyBytes ==
  ASSUME Then(0), NEW kind, Doing(kind)
  PROVE  kind = "tx"
  BY HeadIs DEF Doing

LEMMA HasHead ==
  ASSUME NEW k \in Nat \ {0}, Then(k)
  PROVE  todo # <<>> /\ Head(todo) = todo[1]
  <1>1. todo # <<>>
    <2>1. Len(todo) >= k /\ Len(<<>>) = 0
      BY NoElements DEF Then
    <2> QED BY <2>1
  <1> QED BY <1>1, HeadIs

(* While kprintc runs, the screen changes by its stores only.              *)
LEMMA ShowingMoves ==
  ASSUME NEW p, NEW c, Showing(p, c), NEW k \in Nat \ {0}, Then(k), todo[1] = Show(c),
         Vga \/ TxReady \/ TxWrite
  PROVE  /\ Head(todo)[2] = c /\ todo # <<>> /\ UNCHANGED sheet
         /\ \/ Storing /\ todo' = todo
            \/ ScrollEnd /\ todo' = Tail(todo)
  <1>1. todo # <<>> /\ Head(todo) = todo[1]
    BY HasHead
  <1>2. Head(todo)[1] = "show" /\ Head(todo)[2] = c
    BY <1>1 DEF Show
  <1>3. ~Doing("step back") /\ ~Doing("again") /\ ~Doing("tx")
    BY <1>2 DEF Doing
  <1>4. Vga
    BY <1>3 DEF TxReady, TxWrite
  <1>5. UNCHANGED sheet /\ (Storing \/ ScrollEnd)
    BY <1>3, <1>4 DEF Vga, vga_backspace, BackAgain, Storing
  <1>6. ScrollEnd => todo' = Tail(todo)
    BY DEF ScrollEnd, Done
  <1>7. Storing => todo' = todo
    <2>1. kprintc => todo' = todo
      BY DEF kprintc, Goto
    <2>2. Advance \/ Wrap \/ Down \/ Home \/ ScrollCell => todo' = todo
      BY DEF Advance, Wrap, Down, Home, ScrollCell, Goto
    <2> QED BY <2>1, <2>2 DEF Storing
  <1> QED BY <1>1, <1>2, <1>5, <1>6, <1>7

LEMMA EndOfShow ==
  ASSUME NEW p, NEW c, Showing(p, c), ScrollEnd
  PROVE  Settled(TypeOn(p, c))' /\ at' = "start"
  <1>1. Still(TypeOn(p, c))'
    BY ScrollEndStage
  <1>2. Sheet(TypeOn(p, c)) /\ Clean(TypeOn(p, c))
    BY DEF Showing
  <1>3. Sheet(TypeOn(p, c))' /\ Clean(TypeOn(p, c))'
    BY <1>2 DEF Sheet, Clean
  <1> QED BY <1>1, <1>3 DEF Settled, ScrollEnd, Done

(* Nothing for the screen: only bytes are written.                         *)
LEMMA IdleNext ==
  ASSUME NEW p, Idle(p), Vga \/ TxReady \/ TxWrite
  PROVE  Idle(p)'
  <1>1. /\ Sheet(p) /\ Clean(p) /\ Still(p) /\ at \in {"start", "outb"} /\ Same(p) /\ Then(0)
    BY DEF Idle, Settled
  <1>2. ~Doing("show") /\ ~Doing("step back") /\ ~Doing("again")
    <2>1. "show" # "tx" /\ "step back" # "tx" /\ "again" # "tx"
      OBVIOUS
    <2> QED BY <1>1, <2>1, OnlyBytes
  <1>3. TxReady \/ TxWrite
    <2>1. ~Vga
      BY <1>1, <1>2 DEF Vga, kprintc, Advance, Wrap, Down, Home, ScrollCell, ScrollEnd, vga_backspace, BackAgain
    <2> QED BY <2>1
  <1>4. UNCHANGED <<vga, cell, sheet>> /\ at' \in {"start", "outb"}
    BY <1>3 DEF TxReady, TxWrite, Goto, Done
  <1>5. Then(0)'
    <2>1. CASE TxReady
      BY <1>1, <2>1 DEF TxReady, Goto, Then
    <2>2. CASE TxWrite
      <3>1. todo # <<>> /\ todo' = Tail(todo)
        BY <2>2 DEF TxWrite, Doing, Done
      <3> QED BY <1>1, <3>1, TailThen
    <2> QED BY <1>3, <2>1, <2>2
  <1>6. Still(p)'
    <2>1. Canvas /\ cell = 0 /\ CursorAt(p) /\ Shown(p.paper, p.top)
      BY <1>1 DEF Still
    <2>2. Canvas'
      BY <1>4, <2>1 DEF Canvas, vga
    <2>3. CursorAt(p)' /\ Shown(p.paper, p.top)' /\ cell' = 0
      BY <1>4, <2>1 DEF CursorAt, Shown, vga
    <2> QED BY <2>2, <2>3 DEF Still
  <1>7. Same(p)'
    BY <1>1, <1>4 DEF Same, sheet
  <1>8. Sheet(p)' /\ Clean(p)'
    BY <1>1 DEF Sheet, Clean
  <1>9. at' = "outb" => todo' # <<>>
    BY <1>3 DEF TxReady, TxWrite, Goto, Done, Doing
  <1> QED BY <1>4, <1>5, <1>6, <1>7, <1>8, <1>9 DEF Idle, Settled

LEMMA PrintingNext ==
  ASSUME NEW p, NEW c, Printing(p, c), Vga \/ TxReady \/ TxWrite
  PROVE  Printing(p, c)' \/ Idle(TypeOn(p, c))'
  <1>1. c # "\n" /\ Showing(p, c) /\ Same(TypeOn(p, c)) /\ todo[1] = Show(c) /\ Then(1)
    BY DEF Printing
  <1>2. /\ Head(todo)[2] = c /\ todo # <<>> /\ UNCHANGED sheet
        /\ \/ Storing /\ todo' = todo
           \/ ScrollEnd /\ todo' = Tail(todo)
    BY <1>1, ShowingMoves
  <1>3. Same(TypeOn(p, c))'
    BY <1>1, <1>2 DEF Same, sheet
  <1>4. CASE Storing /\ todo' = todo
    <2>1. Showing(p, c)'
      BY <1>1, <1>2, <1>4, ShowingNext
    <2>2. Then(1)' /\ todo'[1] = Show(c)
      BY <1>1, <1>4 DEF Then
    <2>3. Show(c)' = Show(c)
      BY DEF Show
    <2> QED BY <1>1, <1>3, <2>1, <2>2, <2>3 DEF Printing
  <1>5. CASE ScrollEnd /\ todo' = Tail(todo)
    <2>1. Settled(TypeOn(p, c))' /\ at' = "start"
      BY <1>1, <1>5, EndOfShow
    <2>2. Then(0)'
      BY <1>1, <1>2, <1>5, TailThen
    <2> QED BY <1>3, <2>1, <2>2 DEF Idle
  <1> QED BY <1>2, <1>4, <1>5

LEMMA NewLineNext ==
  ASSUME NEW p, NewLine(p), Vga \/ TxReady \/ TxWrite
  PROVE  NewLine(p)' \/ Printing(TypeOn(p, "\n"), ">")'
  <1> DEFINE q == TypeOn(p, "\n")
  <1>1. /\ Showing(p, "\n") /\ Same(TypePrompt(p)) /\ Sheet(TypePrompt(p)) /\ Clean(TypePrompt(p))
        /\ todo[1] = Show("\n") /\ todo[2] = Show(">") /\ Then(2)
    BY DEF NewLine
  <1>2. /\ Head(todo)[2] = "\n" /\ todo # <<>> /\ UNCHANGED sheet
        /\ \/ Storing /\ todo' = todo
           \/ ScrollEnd /\ todo' = Tail(todo)
    BY <1>1, ShowingMoves
  <1>3. Same(TypePrompt(p))' /\ Sheet(TypePrompt(p))' /\ Clean(TypePrompt(p))'
    BY <1>1, <1>2 DEF Same, sheet, Sheet, Clean
  <1>4. CASE Storing /\ todo' = todo
    <2>1. Showing(p, "\n")'
      BY <1>1, <1>2, <1>4, ShowingNext
    <2>2. Then(2)' /\ todo'[1] = Show("\n") /\ todo'[2] = Show(">")
      BY <1>1, <1>4 DEF Then
    <2> QED BY <1>3, <2>1, <2>2 DEF NewLine, Show
  <1>5. CASE ScrollEnd /\ todo' = Tail(todo)
    <2>1. Settled(q)' /\ at' = "start"
      BY <1>1, <1>5, EndOfShow
    <2>2. Then(1)' /\ todo'[1] = Show(">")
      <3>0. 2 = 1 + 1 /\ 1 \in Nat /\ 2 \in Nat
        OBVIOUS
      <3>1. Then(1)' /\ \A i \in 1 .. 1 : todo'[i] = todo[i + 1]
        BY <1>1, <1>2, <1>5, <3>0, TailThen, Zenon
      <3> QED BY <1>1, <3>1
    <2>3. TypePrompt(p) = TypeOn(q, ">")
      BY DEF TypePrompt
    <2> HIDE DEF q
    <2>4. Stage(q, TypeOn(q, ">"), ">")'
      <3>1. Canvas' /\ CursorAt(q)' /\ Shown(q.paper, q.top)'
        BY <2>1 DEF Settled, Still
      <3> QED BY <2>1, <3>1 DEF Stage
    <2>5. Showing(q, ">")'
      BY <1>3, <2>1, <2>3, <2>4 DEF Showing, Settled
    <2>6. Same(TypeOn(q, ">"))'
      BY <1>3, <2>3
    <2> QED BY <2>2, <2>5, <2>6 DEF Printing, Show, q
  <1> QED BY <1>2, <1>4, <1>5

LEMMA Kinds ==
  /\ \A c : Show(c)[1] = "show" /\ Show(c)[2] = c
  /\ \A c : Tx(c)[1] = "tx" /\ Tx(c)[2] = c
  /\ StepBack[1] = "step back" /\ Again[1] = "again"
  BY DEF Show, Tx, StepBack, Again

LEMMA SteppingBackNext ==
  ASSUME NEW p, SteppingBack(p), Vga \/ TxReady \/ TxWrite
  PROVE  Idle(p)' \/ Blanking(Back(p))'
  <1> DEFINE r == Back(p)
             q == TypeOn(r, " ")
  <1>1. /\ Sheet(p) /\ Clean(p) /\ Still(p) /\ at = "start" /\ SameErased(p)
        /\ todo[1] = StepBack /\ todo[2] = Show(" ") /\ todo[3] = Again /\ Then(3)
    BY DEF SteppingBack, Settled
  <1>t. todo[1] = StepBack /\ todo[2] = Show(" ") /\ todo[3] = Again /\ Then(3)
    BY DEF SteppingBack
  <1>2. todo # <<>> /\ Head(todo)[1] = "step back"
    <2>1. 3 \in Nat \ {0}
      OBVIOUS
    <2>2. todo # <<>> /\ Head(todo) = todo[1]
      BY <1>t, <2>1, HasHead, Zenon
    <2> QED BY <1>t, <2>2, Kinds
  <1>3. vga_backspace /\ UNCHANGED sheet
    <2>1. ~Doing("show") /\ ~Doing("again") /\ ~Doing("tx")
      BY <1>2 DEF Doing
    <2> QED BY <1>1, <2>1 DEF Vga, kprintc, Advance, Wrap, Down, Home, ScrollCell, ScrollEnd, BackAgain, TxReady, TxWrite
  <1>4. UNCHANGED <<screen, at, cell>>
    BY <1>3 DEF vga_backspace
  <1>5. /\ p.pos = Row(p.top) <=> (vga_cursor_x = 0 /\ vga_cursor_y = 0)
        /\ p.pos \in Nat /\ Row(p.top) \in Nat /\ Row(p.top) <= p.pos
    BY <1>1, AtTop
  <1>6. CASE p.pos = Row(p.top)
    <2>1. todo' = SubSeq(todo, 4, Len(todo)) /\ UNCHANGED <<vga_cursor_x, vga_cursor_y>>
      BY <1>3, <1>5, <1>6 DEF vga_backspace
    <2>2. Then(0)'
      BY <1>1, <2>1, DropThen
    <2>3. Same(p)'
      BY <1>1, <1>3, <1>6 DEF SameErased, Same, sheet
    <2>4. Still(p)'
      <3>1. Canvas' /\ cell' = 0
        BY <1>1, <1>4, <2>1 DEF Still, Canvas
      <3>2. CursorAt(p)' /\ Shown(p.paper, p.top)'
        BY <1>1, <1>4, <2>1 DEF Still, CursorAt, Shown
      <3> QED BY <3>1, <3>2 DEF Still
    <2>5. Sheet(p)' /\ Clean(p)'
      BY <1>1 DEF Sheet, Clean
    <2>6. at' = "start"
      BY <1>1, <1>4
    <2> QED BY <2>2, <2>3, <2>4, <2>5, <2>6 DEF Idle, Settled
  <1>7. CASE p.pos # Row(p.top)
    <2>0. p.pos > Row(p.top)
      BY <1>5, <1>7
    <2>1. todo' = Tail(todo) /\ CursorBack
      BY <1>3, <1>5, <1>7 DEF vga_backspace
    <2>2. Then(2)' /\ todo'[1] = Show(" ") /\ todo'[2] = Again
      <3>0. 3 = 2 + 1 /\ 3 \in Nat /\ 2 \in Nat
        OBVIOUS
      <3>1. Then(2)' /\ \A i \in 1 .. 2 : todo'[i] = todo[i + 1]
        BY <1>t, <1>2, <2>1, <3>0, TailThen, Zenon
      <3>2. todo'[1] = todo[2] /\ todo'[2] = todo[3]
        BY <3>1
      <3> QED BY <1>t, <3>1, <3>2
    <2>3. Still(r)'
      BY <1>1, <1>4, <2>0, <2>1, BackStill
    <2>4. Sheet(r)
      BY <1>1, <2>0, BackSheet
    <2>5. Sheet(q) /\ Clean(q) /\ q.top = p.top /\ q.pos = p.pos /\ q.paper = Wrote(p.paper, p.pos - 1, " ")
      BY <1>1, <2>0, BlankOver
    <2>6. r.top = p.top
      BY DEF Back
    <2> HIDE DEF r
    <2>7. SameBack(q)'
      <3>1. paper = q.paper /\ pos = q.pos - 1 /\ top = q.top
        BY <1>1, <1>7, <2>5 DEF SameErased
      <3> HIDE DEF q
      <3> QED BY <1>3, <3>1 DEF SameBack, sheet
    <2>8. Stage(r, q, " ")'
      <3>1. Canvas' /\ CursorAt(r)' /\ Shown(r.paper, r.top)' /\ at' = "start"
        BY <1>1, <1>4, <2>3 DEF Still
      <3> HIDE DEF q
      <3> QED BY <3>1 DEF Stage
    <2>9. Showing(r, " ")'
      <3>1. Sheet(r)' /\ Sheet(q)' /\ Clean(q)'
        BY <2>4, <2>5 DEF Sheet, Clean
      <3> QED BY <2>8, <3>1 DEF Showing
    <2> QED BY <2>2, <2>5, <2>6, <2>7, <2>9 DEF Blanking, Show, Again, r
  <1> QED BY <1>6, <1>7

LEMMA BlankingNext ==
  ASSUME NEW p, Blanking(p), Vga \/ TxReady \/ TxWrite
  PROVE  Blanking(p)' \/ ReturningTo(TypeOn(p, " "))'
  <1> DEFINE q == TypeOn(p, " ")
  <1>1. /\ Showing(p, " ") /\ SameBack(q) /\ q.top = p.top
        /\ todo[1] = Show(" ") /\ todo[2] = Again /\ Then(2)
    BY DEF Blanking
  <1>t. todo[1] = Show(" ") /\ todo[2] = Again /\ Then(2)
    BY DEF Blanking
  <1>k. 2 \in Nat \ {0}
    OBVIOUS
  <1>2. /\ Head(todo)[2] = " " /\ todo # <<>> /\ UNCHANGED sheet
        /\ \/ Storing /\ todo' = todo
           \/ ScrollEnd /\ todo' = Tail(todo)
    BY <1>1, <1>t, <1>k, ShowingMoves
  <1>3. SameBack(q)'
    BY <1>1, <1>2 DEF SameBack, sheet
  <1>4. CASE Storing /\ todo' = todo
    <2>1. Showing(p, " ")'
      BY <1>1, <1>2, <1>4, ShowingNext
    <2>2. Then(2)' /\ todo'[1] = Show(" ") /\ todo'[2] = Again
      BY <1>1, <1>4 DEF Then
    <2> QED BY <1>1, <1>3, <2>1, <2>2 DEF Blanking, Show, Again
  <1>5. CASE ScrollEnd /\ todo' = Tail(todo)
    <2>1. Settled(q)' /\ at' = "start"
      BY <1>1, <1>5, EndOfShow
    <2>2. Then(1)' /\ todo'[1] = Again
      <3>0. 2 = 1 + 1 /\ 1 \in Nat /\ 2 \in Nat
        OBVIOUS
      <3>1. Then(1)' /\ \A i \in 1 .. 1 : todo'[i] = todo[i + 1]
        BY <1>t, <1>2, <1>5, <3>0, TailThen, Zenon
      <3>2. todo'[1] = todo[2]
        BY <3>1
      <3> QED BY <1>t, <3>1, <3>2
    <2>3. /\ p.pos \in Nat /\ Row(p.top) <= p.pos /\ DOMAIN p.paper = 0 .. Bottom
          /\ p.top \in Nat /\ p.top + VGA_HEIGHT <= ROWS /\ p.pos < Row(p.top + VGA_HEIGHT)
      BY <1>1 DEF Showing, Sheet
    <2>4. q.pos = p.pos + 1 /\ q.paper = [p.paper EXCEPT ![p.pos] = " "]
      BY TypeOnIs
    <2> HIDE DEF q
    <2>5. Row(p.top) \in Nat /\ Row(p.top + VGA_HEIGHT) \in Nat /\ Row(p.top + VGA_HEIGHT) <= Bottom /\ Bottom \in Nat
      <3>1. /\ Row(p.top) \in Nat /\ Row(p.top + VGA_HEIGHT) = Row(p.top) + CELLS /\ CELLS \in Nat /\ Bottom \in Nat
            /\ Row(p.top + 1 + VGA_HEIGHT) = Row(p.top) + CELLS + VGA_WIDTH
            /\ Row(p.top + 1 + VGA_HEIGHT) <= Bottom
        BY <2>3, Rows
      <3> QED BY <3>1, Sizes
    <2>t. q.top = p.top
      BY <1>1
    <2>p. q.pos = p.pos + 1
      BY <2>4
    <2>6. q.pos > Row(q.top) /\ q.pos - 1 = p.pos
      <3>1. p.pos \in Nat /\ Row(p.top) <= p.pos /\ Row(p.top) \in Nat
        BY <2>3, <2>5
      <3>2. Row(q.top) = Row(p.top)
        BY <2>t
      <3> QED BY <2>p, <3>1, <3>2
    <2>7. p.pos \in 0 .. Bottom
      BY <2>3, <2>5
    <2>8. q.paper[q.pos - 1] = " "
      BY <2>3, <2>4, <2>6, <2>7
    <2> QED BY <1>3, <2>1, <2>2, <2>6, <2>8 DEF ReturningTo, Again, q
  <1> QED BY <1>2, <1>4, <1>5

LEMMA ReturningNext ==
  ASSUME NEW p, ReturningTo(p), Vga \/ TxReady \/ TxWrite
  PROVE  Idle(Back(p))'
  <1> DEFINE r == Back(p)
  <1>1. /\ Sheet(p) /\ Clean(p) /\ Still(p) /\ at = "start" /\ SameBack(p)
        /\ p.pos > Row(p.top) /\ p.paper[p.pos - 1] = " "
        /\ todo[1] = Again /\ Then(1)
    BY DEF ReturningTo, Settled
  <1>2. todo # <<>> /\ Head(todo)[1] = "again"
    <2>0. 1 \in Nat \ {0}
      OBVIOUS
    <2>1. todo[1] = Again /\ Then(1)
      BY DEF ReturningTo
    <2>2. todo # <<>> /\ Head(todo) = todo[1]
      BY <2>0, <2>1, HasHead, Zenon
    <2> QED BY <2>1, <2>2, Kinds
  <1>3. BackAgain /\ UNCHANGED sheet
    <2>1. ~Doing("show") /\ ~Doing("step back") /\ ~Doing("tx")
      BY <1>2 DEF Doing
    <2> QED BY <1>1, <2>1 DEF Vga, kprintc, Advance, Wrap, Down, Home, ScrollCell, ScrollEnd, vga_backspace, TxReady, TxWrite
  <1>4. UNCHANGED <<screen, at, cell>> /\ CursorBack /\ todo' = Tail(todo)
    BY <1>3 DEF BackAgain
  <1>5. Still(r)'
    BY <1>1, <1>4, BackStill
  <1>6. Sheet(r)
    BY <1>1, BackSheet
  <1>7. r.paper = p.paper /\ r.pos = p.pos - 1 /\ r.top = p.top
    BY DEF Back
  <1> HIDE DEF r
  <1>8. Clean(r)
    BY <1>1, <1>7 DEF Clean
  <1>9. Same(r)'
    BY <1>1, <1>3, <1>7 DEF SameBack, Same, sheet
  <1>10. Then(0)'
    <2>0. 1 = 0 + 1 /\ 0 \in Nat /\ 1 \in Nat
      OBVIOUS
    <2> QED BY <1>1, <1>2, <1>4, <2>0, TailThen, Zenon
  <1>11. Sheet(r)' /\ Clean(r)'
    BY <1>6, <1>8 DEF Sheet, Clean
  <1>12. at' = "start"
    BY <1>1, <1>4
  <1> QED BY <1>5, <1>9, <1>10, <1>11, <1>12 DEF Idle, Settled, r

(* The echo loop keeps to its states until the machine panics.             *)
LEMMA EchoingNext ==
  ASSUME Echoing, Vga \/ TxReady \/ TxWrite
  PROVE  Echoing'
  <1>1. PICK p : Idle(p) \/ (\E c : Printing(p, c)) \/ NewLine(p)
                 \/ SteppingBack(p) \/ Blanking(p) \/ ReturningTo(p)
    BY DEF Echoing
  <1>2. CASE Idle(p)
    BY <1>2, IdleNext DEF Echoing
  <1>3. CASE \E c : Printing(p, c)
    <2>1. PICK c : Printing(p, c)
      BY <1>3
    <2>2. Printing(p, c)' \/ Idle(TypeOn(p, c))'
      BY <2>1, PrintingNext
    <2> QED BY <2>2 DEF Echoing
  <1>4. CASE NewLine(p)
    <2>1. NewLine(p)' \/ Printing(TypeOn(p, "\n"), ">")'
      BY <1>4, NewLineNext
    <2> QED BY <2>1 DEF Echoing
  <1>5. CASE SteppingBack(p)
    <2>1. Idle(p)' \/ Blanking(Back(p))'
      BY <1>5, SteppingBackNext
    <2> QED BY <2>1 DEF Echoing
  <1>6. CASE Blanking(p)
    <2>1. Blanking(p)' \/ ReturningTo(TypeOn(p, " "))'
      BY <1>6, BlankingNext
    <2> QED BY <2>1 DEF Echoing
  <1>7. CASE ReturningTo(p)
    <2>1. Idle(Back(p))'
      BY <1>7, ReturningNext
    <2> QED BY <2>1 DEF Echoing
  <1> QED BY <1>1, <1>2, <1>3, <1>4, <1>5, <1>6, <1>7

-----------------------------------------------------------------------------
(* A key: there is room for what it types, the prompt included.            *)
LEMMA RoomToType ==
  ASSUME NEW p, Sheet(p), p.pos \div VGA_WIDTH < ROWS - 1
  PROVE  /\ \A c : Sheet(TypeOn(p, c)) /\ Clean(TypeOn(p, c))
         /\ Sheet(TypePrompt(p)) /\ Clean(TypePrompt(p))
  <1>1. /\ p.top \in Nat /\ p.top + VGA_HEIGHT <= ROWS /\ p.pos \in Nat
        /\ p.pos < Row(p.top + VGA_HEIGHT) /\ Row(p.top) <= p.pos
    BY DEF Sheet
  <1>2. PICK y \in 0 .. VGA_HEIGHT - 1, x \in 0 .. VGA_WIDTH - 1 : p.pos = Row(p.top + y) + x
    BY <1>1, Divided
  <1> DEFINE n == p.top + y
  <1>3. n \in Nat /\ n + 1 \in Nat
    BY <1>1, Sizes
  <1>4. p.pos \div VGA_WIDTH = n
    BY <1>2, <1>3, RowOf
  <1>5. p.top + y + 1 < ROWS
    BY <1>1, <1>3, <1>4, Sizes
  <1>6. ASSUME NEW c PROVE Typing(p, c, TypeOn(p, c), y, x)
    BY <1>2, <1>5, TypeOnSheet
  <1>7. \A c : Sheet(TypeOn(p, c)) /\ Clean(TypeOn(p, c))
    BY <1>6 DEF Typing
  <1> DEFINE q == TypeOn(p, "\n")
  <1>8. Sheet(q) /\ q.pos = Row(n + 1)
    BY <1>6 DEF Typing
  <1> HIDE DEF q, n
  <1>9. q.top \in Nat /\ q.pos \in Nat /\ q.pos < Row(q.top + VGA_HEIGHT) /\ Row(q.top) <= q.pos
    BY <1>8 DEF Sheet
  <1>10. PICK v \in 0 .. VGA_HEIGHT - 1, u \in 0 .. VGA_WIDTH - 1 : q.pos = Row(q.top + v) + u
    BY <1>9, Divided
  <1>11. u = 0
    <2>0. Row(n + 1) \in Nat
      BY <1>3, RowIs
    <2>1. q.top + v \in Nat /\ Row(n + 1) \in Nat /\ 0 \in 0 .. VGA_WIDTH - 1
      BY <1>9, <2>0, Sizes
    <2>2. (Row(q.top + v) + u) \div VGA_WIDTH = q.top + v
      BY <2>1, RowOf
    <2>3. (Row(n + 1) + 0) \div VGA_WIDTH = n + 1
      BY <1>3, <2>1, RowOf
    <2>4. Row(n + 1) + 0 = Row(n + 1)
      BY <2>1
    <2>5. q.top + v = n + 1
      BY <1>8, <1>10, <2>2, <2>3, <2>4
    <2> QED BY <1>8, <1>10, <2>1, <2>5, Sizes
  <1>12. u + 1 < VGA_WIDTH /\ ">" # "\n"
    BY <1>11, Sizes
  <1>13. Typing(q, ">", TypeOn(q, ">"), v, u)
    BY <1>8, <1>10, <1>12, TypeOnSheet
  <1>14. TypePrompt(p) = TypeOn(q, ">")
    BY DEF TypePrompt, q
  <1> QED BY <1>7, <1>13, <1>14 DEF Typing

(* When the echo loop has nothing left, the screen is the window.          *)
LEMMA NothingLeft ==
  ASSUME Echoing, todo = <<>>
  PROVE  \E p : Settled(p) /\ Same(p) /\ at = "start"
  <1>1. PICK p : Idle(p) \/ (\E c : Printing(p, c)) \/ NewLine(p)
                 \/ SteppingBack(p) \/ Blanking(p) \/ ReturningTo(p)
    BY DEF Echoing
  <1>2. ~Then(1) /\ ~Then(2) /\ ~Then(3)
    <2>1. 1 \in Nat \ {0} /\ 2 \in Nat \ {0} /\ 3 \in Nat \ {0}
      OBVIOUS
    <2> QED BY <2>1, HasHead, Zenon
  <1>3. Idle(p)
    BY <1>1, <1>2 DEF Printing, NewLine, SteppingBack, Blanking, ReturningTo
  <1> QED BY <1>3 DEF Idle

(* The operations of a key, followed by its byte.                          *)
LEMMA Followed ==
  ASSUME NEW s, IsSequence(s), NEW b, todo' = s \o <<Tx(b)>>
  PROVE  /\ Then(Len(s))'
         /\ \A i \in 1 .. Len(s) : todo'[i] = s[i]
  <1> DEFINE l == Len(s)
             w == <<Tx(b)>>
  <1>1. IsSequence(w) /\ Len(w) = 1 /\ w[1] = Tx(b)
    BY OneElement
  <1> HIDE DEF w
  <1>2. todo' = Concat(s, w)
    BY DEF Concat, w
  <1>3. IsConcat(todo', s, w)
    BY <1>1, <1>2, ConcatIs
  <1>4. l \in Nat
    BY LenNat
  <1>5. /\ IsSequence(todo') /\ Len(todo') = l + 1
        /\ \A k \in 1 .. l : todo'[k] = s[k]
        /\ \A k \in 1 .. 1 : todo'[l + k] = w[k]
    BY <1>1, <1>3 DEF IsConcat
  <1> HIDE DEF l
  <1>6. ASSUME NEW i \in l + 1 .. l + 1 PROVE todo'[i][1] = "tx"
    <2>1. i = l + 1
      BY <1>4
    <2>2. todo'[i] = Tx(b)
      BY <1>1, <1>5, <2>1
    <2> QED BY <2>2, Kinds
  <1>7. Len(todo') >= l
    BY <1>4, <1>5
  <1>8. Then(l)'
    BY <1>4, <1>5, <1>6, <1>7 DEF Then
  <1> QED BY <1>5, <1>8 DEF l

(* The operations of each key.                                             *)
LEMMA PromptOps ==
  /\ IsSequence(kprint(Prompt)) /\ Len(kprint(Prompt)) = 2
  /\ kprint(Prompt)[1] = Show("\n") /\ kprint(Prompt)[2] = Show(">")
  <1> DEFINE s == kprint(Prompt)
  <1>1. DOMAIN Prompt = 1 .. 2 /\ Prompt[1] = "\n" /\ Prompt[2] = ">"
    BY DEF Prompt
  <1>2. s = [i \in 1 .. 2 |-> Show(Prompt[i])]
    BY <1>1 DEF kprint
  <1>3. s \in Seq({Show("\n"), Show(">")}) /\ Len(s) = 2
    <2>1. \A i \in 1 .. 2 : Show(Prompt[i]) \in {Show("\n"), Show(">")}
      BY <1>1
    <2> QED BY <1>2, <2>1
  <1>4. s[1] = Show("\n") /\ s[2] = Show(">")
    BY <1>1, <1>2
  <1> QED BY <1>3, <1>4 DEF IsSequence

LEMMA LetterOps ==
  ASSUME NEW c
  PROVE  IsSequence(kprint(<<c>>)) /\ Len(kprint(<<c>>)) = 1 /\ kprint(<<c>>)[1] = Show(c)
  <1> DEFINE s == kprint(<<c>>)
  <1>1. s = [i \in 1 .. 1 |-> Show(<<c>>[i])]
    BY DEF kprint
  <1>2. \A i \in 1 .. 1 : Show(<<c>>[i]) = Show(c)
    OBVIOUS
  <1>3. s \in Seq({Show(c)}) /\ Len(s) = 1
    <2>1. s = [i \in 1 .. 1 |-> Show(c)]
      BY <1>1, <1>2
    <2> DEFINE v == Show(c)
    <2> HIDE DEF s, v
    <2>2. s = [i \in 1 .. 1 |-> v]
      BY <2>1 DEF v
    <2>3. s \in Seq({v}) /\ Len(s) = 1
      BY <2>2
    <2> QED BY <2>3 DEF s, v
  <1>4. s[1] = Show(c)
    BY <1>1, <1>2
  <1> QED BY <1>3, <1>4 DEF IsSequence

LEMMA EraseOps ==
  LET s == <<StepBack, Show(" "), Again>>
  IN  /\ IsSequence(s) /\ Len(s) = 3
      /\ s[1] = StepBack /\ s[2] = Show(" ") /\ s[3] = Again
  <1> DEFINE s == <<StepBack, Show(" "), Again>>
  <1>1. s \in Seq({StepBack, Show(" "), Again}) /\ Len(s) = 3
    OBVIOUS
  <1>2. s[1] = StepBack /\ s[2] = Show(" ") /\ s[3] = Again
    OBVIOUS
  <1> QED BY <1>1, <1>2 DEF IsSequence

LEMMA SettledStays ==
  ASSUME NEW p, Settled(p), at = "start", UNCHANGED <<vga, at, cell>>
  PROVE  Settled(p)'
  <1>1. Sheet(p)' /\ Clean(p)'
    BY DEF Settled, Sheet, Clean
  <1>2. Canvas' /\ cell' = 0
    BY DEF Settled, Still, Canvas, vga
  <1>3. CursorAt(p)' /\ Shown(p.paper, p.top)'
    BY DEF Settled, Still, CursorAt, Shown, vga
  <1> QED BY <1>1, <1>2, <1>3 DEF Settled, Still

LEMMA EchoNext ==
  ASSUME Echoing, NEW c \in Keys, Echo(c)
  PROVE  Echoing'
  <1> DEFINE now == [paper |-> paper, pos |-> pos, top |-> top]
  <1>1. PICK w : w = now
    OBVIOUS
  <1>2. w.paper = paper /\ w.pos = pos /\ w.top = top
    BY <1>1
  <1>3. PICK p : Settled(p) /\ Same(p) /\ at = "start"
    BY NothingLeft DEF Echo
  <1>4. Settled(w) /\ Same(w)
    <2>1. w.paper = p.paper /\ w.pos = p.pos /\ w.top = p.top
      BY <1>2, <1>3 DEF Same
    <2>2. Sheet(w) /\ Clean(w)
      BY <1>3, <2>1 DEF Settled, Sheet, Clean
    <2>3. Canvas /\ cell = 0 /\ CursorAt(w) /\ Shown(w.paper, w.top)
      BY <1>3, <2>1 DEF Settled, Still, CursorAt
    <2> QED BY <1>2, <2>2, <2>3 DEF Settled, Still, Same
  <1>5. UNCHANGED <<vga, at, cell>> /\ pos \div VGA_WIDTH < ROWS - 1 /\ todo' = EchoOps(c) \o <<Tx(c)>>
    BY DEF Echo
  <1>6. Settled(w)' /\ at' = "start"
    BY <1>3, <1>4, <1>5, SettledStays
  <1>7. /\ \A d : Sheet(TypeOn(w, d)) /\ Clean(TypeOn(w, d))
        /\ Sheet(TypePrompt(w)) /\ Clean(TypePrompt(w))
    <2>1. Sheet(w)
      BY <1>4 DEF Settled
    <2> QED BY <1>2, <1>5, <2>1, RoomToType
  <1>8. ASSUME NEW d PROVE Showing(w, d)'
    <2>1. Sheet(TypeOn(w, d))' /\ Clean(TypeOn(w, d))'
      BY <1>7 DEF Sheet, Clean
    <2>2. Stage(w, TypeOn(w, d), d)'
      <3> DEFINE q == TypeOn(w, d)
      <3>1. Canvas' /\ CursorAt(w)' /\ Shown(w.paper, w.top)'
        BY <1>6 DEF Settled, Still
      <3> HIDE DEF q
      <3>2. Stage(w, q, d)'
        BY <1>6, <3>1 DEF Stage
      <3> QED BY <3>2 DEF q
    <2> QED BY <1>6, <2>1, <2>2 DEF Showing, Settled
  <1>9. CASE c = "bs"
    <2> DEFINE s == <<StepBack, Show(" "), Again>>
    <2>1. EchoOps(c) = s
      BY <1>9 DEF EchoOps
    <2>2. IsSequence(s) /\ Len(s) = 3 /\ s[1] = StepBack /\ s[2] = Show(" ") /\ s[3] = Again
      BY EraseOps
    <2> HIDE DEF s
    <2>3. Then(3)' /\ \A i \in 1 .. 3 : todo'[i] = s[i]
      BY <1>5, <2>1, <2>2, Followed
    <2>4. paper' = Erase(w).paper /\ pos' = Erase(w).pos /\ top' = Erase(w).top
      BY <1>1, <1>9 DEF Echo
    <2>5. SameErased(w)'
      <3>1. CASE w.pos = Row(w.top)
        <4>1. Erase(w) = w
          BY <3>1 DEF Erase, Row
        <4> QED BY <2>4, <3>1, <4>1 DEF SameErased, Same
      <3>2. CASE w.pos # Row(w.top)
        <4>1. Erase(w) = [w EXCEPT !.paper[w.pos - 1] = " ", !.pos = @ - 1]
          BY <3>2 DEF Erase, Row
        <4>2. w = [paper |-> w.paper, pos |-> w.pos, top |-> w.top]
          BY <1>1, <1>2
        <4>3. /\ Erase(w).paper = [w.paper EXCEPT ![w.pos - 1] = " "]
              /\ Erase(w).pos = w.pos - 1 /\ Erase(w).top = w.top
          BY <4>1, <4>2
        <4> QED BY <2>4, <3>2, <4>3 DEF SameErased, Wrote
      <3> QED BY <3>1, <3>2
    <2>6. todo'[1] = StepBack /\ todo'[2] = Show(" ") /\ todo'[3] = Again
      <3>1. todo'[1] = s[1] /\ todo'[2] = s[2] /\ todo'[3] = s[3]
        BY <2>3
      <3> QED BY <2>2, <3>1, Zenon
    <2>7. SteppingBack(w)'
      BY <1>6, <2>3, <2>5, <2>6 DEF SteppingBack, StepBack, Show, Again
    <2> QED BY <2>7 DEF Echoing
  <1>10. CASE c = "\n"
    <2> DEFINE s == kprint(Prompt)
    <2>1. EchoOps(c) = s
      BY <1>10 DEF EchoOps
    <2>2. IsSequence(s) /\ Len(s) = 2 /\ s[1] = Show("\n") /\ s[2] = Show(">")
      BY PromptOps
    <2> HIDE DEF s
    <2>3. Then(2)' /\ \A i \in 1 .. 2 : todo'[i] = s[i]
      BY <1>5, <2>1, <2>2, Followed
    <2>4. Same(TypePrompt(w))'
      BY <1>1, <1>10 DEF Echo, Same
    <2>5. todo'[1] = Show("\n") /\ todo'[2] = Show(">")
      BY <2>2, <2>3
    <2>6. Sheet(TypePrompt(w))' /\ Clean(TypePrompt(w))'
      BY <1>7 DEF Sheet, Clean
    <2>7. NewLine(w)'
      BY <1>8, <2>3, <2>4, <2>5, <2>6 DEF NewLine, Show
    <2> QED BY <2>7 DEF Echoing
  <1>11. CASE c = "a"
    <2> DEFINE s == kprint(<<c>>)
    <2>1. EchoOps(c) = s
      BY <1>11 DEF EchoOps
    <2>2. IsSequence(s) /\ Len(s) = 1 /\ s[1] = Show(c)
      BY LetterOps
    <2> HIDE DEF s
    <2>3. Then(1)' /\ \A i \in 1 .. 1 : todo'[i] = s[i]
      BY <1>5, <2>1, <2>2, Followed
    <2>4. Same(TypeOn(w, c))'
      BY <1>1, <1>11 DEF Echo, Same
    <2>5. todo'[1] = Show(c) /\ c # "\n"
      BY <1>11, <2>2, <2>3
    <2>6. Printing(w, c)'
      BY <1>8, <2>3, <2>4, <2>5 DEF Printing, Show
    <2> QED BY <2>6 DEF Echoing
  <1>12. CASE c \notin {"bs", "\n", "a"}
    <2> DEFINE s == <<>>
    <2>1. EchoOps(c) = s
      BY <1>12 DEF EchoOps
    <2>2. IsSequence(s) /\ Len(s) = 0
      BY NoElements
    <2> HIDE DEF s
    <2>3. Then(0)'
      BY <1>5, <2>1, <2>2, Followed
    <2>4. Same(w)'
      BY <1>1, <1>12 DEF Echo, Same
    <2>5. Idle(w)'
      BY <1>6, <2>3, <2>4 DEF Idle
    <2> QED BY <2>5 DEF Echoing
  <1> QED BY <1>9, <1>10, <1>11, <1>12

(* The first prompt is under way when interrupts come on.                  *)
LEMMA EchoingInit == Init => Echoing
  <1> SUFFICES ASSUME Init PROVE Echoing
    OBVIOUS
  <1> DEFINE b == [paper |-> Blank, pos |-> 0, top |-> 0]
  <1>1. /\ screen = [i \in 0 .. CELLS - 1 |-> " "] /\ vga_cursor_x = 0 /\ vga_cursor_y = 0
        /\ todo = kprint(Prompt) /\ at = "start" /\ cell = 0
        /\ Same(TypePrompt(b))
    BY DEF Init, Same
  <1>2. b.paper = Blank /\ b.pos = 0 /\ b.top = 0
    OBVIOUS
  <1> HIDE DEF b
  <1>3. /\ DOMAIN Blank = 0 .. Bottom /\ \A i \in 0 .. Bottom : Blank[i] = " "
    BY DEF Blank, Bottom, Row
  <1>4. /\ Row(0) = 0 /\ Row(0 + VGA_HEIGHT) = Row(0) + CELLS /\ CELLS \in Nat /\ CELLS >= 2
        /\ 0 + VGA_HEIGHT <= ROWS /\ Bottom \in Nat /\ CELLS <= Bottom /\ 0 + VGA_HEIGHT = VGA_HEIGHT
    <2>1. 0 \in Nat /\ 0 + VGA_HEIGHT <= ROWS /\ 0 + VGA_HEIGHT = VGA_HEIGHT
      BY Sizes
    <2>2. /\ Row(0 + VGA_HEIGHT) = Row(0) + CELLS /\ VGA_WIDTH <= CELLS /\ CELLS \in Nat
          /\ Row(0 + 1 + VGA_HEIGHT) = Row(0) + CELLS + VGA_WIDTH
          /\ Row(0 + 1 + VGA_HEIGHT) <= Bottom
      BY <2>1, Rows
    <2>3. Row(0) = 0
      BY RowIs
    <2> QED BY <2>1, <2>2, <2>3, Sizes, BottomNat
  <1>5. Sheet(b)
    <2>1. BlankAfter(b.paper, b.pos)
      BY <1>2, <1>3 DEF BlankAfter
    <2>2. /\ b.top \in Nat /\ b.top + VGA_HEIGHT <= ROWS
          /\ b.pos \in Nat /\ Row(b.top) <= b.pos /\ b.pos < Row(b.top + VGA_HEIGHT)
      BY <1>2, <1>4
    <2> QED BY <1>2, <1>3, <2>1, <2>2 DEF Sheet
  <1>6. /\ Sheet(TypeOn(b, "\n")) /\ Clean(TypeOn(b, "\n"))
        /\ Sheet(TypePrompt(b)) /\ Clean(TypePrompt(b))
    <2>1. b.pos \div VGA_WIDTH < ROWS - 1
      BY <1>2, Sizes
    <2> QED BY <1>5, <2>1, RoomToType
  <1>0. DOMAIN screen = 0 .. CELLS - 1 /\ \A i \in 0 .. CELLS - 1 : screen[i] = " "
    BY <1>1
  <1>c. vga_cursor_x = 0 /\ vga_cursor_y = 0 /\ cell = 0
    BY <1>1
  <1>7. Canvas
    <2>1. 0 \in 0 .. CELLS /\ 0 \in 0 .. VGA_WIDTH /\ 0 \in 0 .. VGA_HEIGHT
      BY <1>4, Sizes
    <2> QED BY <1>0, <1>c, <2>1 DEF Canvas
  <1>8. CursorAt(b)
    <2>1. 0 + 0 = 0 /\ Row(0) + 0 = 0 /\ 0 < VGA_WIDTH /\ 0 < VGA_HEIGHT
      BY <1>4, Sizes
    <2> QED BY <1>c, <1>2, <2>1 DEF CursorAt
  <1>9. Shown(b.paper, b.top)
    <2> SUFFICES ASSUME NEW i \in 0 .. CELLS - 1
                 PROVE  screen[i] = Blank[Row(0) + i] /\ ~(i < 0)
      BY <1>c, <1>2 DEF Shown
    <2>1. Row(0) + i \in 0 .. Bottom /\ ~(i < 0)
      BY <1>4
    <2> QED BY <1>0, <1>3, <2>1
  <1>10. Showing(b, "\n")
    <2> DEFINE q == TypeOn(b, "\n")
    <2>1. Sheet(q) /\ Clean(q)
      BY <1>6
    <2> HIDE DEF q
    <2>2. Stage(b, q, "\n")
      BY <1>1, <1>7, <1>8, <1>9 DEF Stage
    <2> QED BY <1>5, <2>1, <2>2 DEF Showing, q
  <1>11. todo[1] = Show("\n") /\ todo[2] = Show(">") /\ Then(2)
    <2>1. IsSequence(todo) /\ Len(todo) = 2 /\ todo[1] = Show("\n") /\ todo[2] = Show(">")
      BY <1>1, PromptOps
    <2>2. \A i \in 2 + 1 .. 2 : todo[i][1] = "tx"
      OBVIOUS
    <2> QED BY <2>1, <2>2 DEF Then
  <1>12. NewLine(b)
    BY <1>1, <1>6, <1>10, <1>11 DEF NewLine
  <1> QED BY <1>12 DEF Echoing

-----------------------------------------------------------------------------
(* What a panic does: its report for the serial port, with a carriage      *)
(* return before each newline, and then for the screen.                    *)
PanicOp(k) ==
  CASE k = 1 -> Tx("\r") [] k = 2 -> Tx("\n") [] k = 3 -> Tx("P") [] k = 4 -> Tx("\r")
    [] k = 5 -> Tx("\n") [] k = 6 -> Show("\n") [] k = 7 -> Show("P") [] k = 8 -> Show("\n")

LEMMA FlattenThree ==
  ASSUME NEW q, Len(q) = 3
  PROVE  FlattenSeq(q) = Concat(Concat(q[1], q[2]), q[3])
  <1> DEFINE Eq(g) == g = [i \in 1 .. Len(q) |-> IF i = 1 THEN q[i] ELSE g[i - 1] \o q[i]]
             f == CHOOSE g : Eq(g)
             g == [i \in 1 .. 3 |-> IF i = 1 THEN q[1] ELSE IF i = 2 THEN q[1] \o q[2] ELSE (q[1] \o q[2]) \o q[3]]
  <1>1. FlattenSeq(q) = f[Len(q)]
    BY DEF FlattenSeq
  <1>2. Eq(g)
    <2>1. g[1] = q[1] /\ g[2] = q[1] \o q[2]
      OBVIOUS
    <2>2. \A i \in 1 .. 3 : g[i] = IF i = 1 THEN q[i] ELSE g[i - 1] \o q[i]
      <3> TAKE i \in 1 .. 3
      <3>1. i = 1 \/ i = 2 \/ i = 3
        OBVIOUS
      <3>2. CASE i = 1
        BY <3>2
      <3>3. CASE i = 2
        BY <2>1, <3>3
      <3>4. CASE i = 3
        BY <2>1, <3>4
      <3> QED BY <3>1, <3>2, <3>3, <3>4
    <2>3. g = [i \in 1 .. 3 |-> g[i]]
      OBVIOUS
    <2> HIDE DEF g
    <2>4. g = [i \in 1 .. 3 |-> IF i = 1 THEN q[i] ELSE g[i - 1] \o q[i]]
      BY <2>2, <2>3
    <2> QED BY <2>4
  <1>3. Eq(f)
    <2> HIDE DEF Eq, g
    <2> QED BY <1>2
  <1> HIDE DEF f, g
  <1>4. f = [i \in 1 .. 3 |-> IF i = 1 THEN q[i] ELSE f[i - 1] \o q[i]]
    BY <1>3
  <1>5. f[1] = q[1]
    BY <1>4
  <1>6. f[2] = f[1] \o q[2]
    BY <1>4
  <1>7. f[3] = f[2] \o q[3]
    <2> DEFINE h == f[2] \o q[3]
               G(i) == IF i = 1 THEN q[i] ELSE f[i - 1] \o q[i]
    <2>1. f = [i \in 1 .. 3 |-> G(i)]
      BY <1>4
    <2>2. G(3) = h
      OBVIOUS
    <2> HIDE DEF G, h
    <2>3. f[3] = G(3)
      BY <2>1
    <2> QED BY <2>2, <2>3 DEF h
  <1> QED BY <1>1, <1>5, <1>6, <1>7 DEF Concat

LEMMA PanicOpsAre ==
  /\ IsSequence(PanicOps) /\ Len(PanicOps) = 8
  /\ \A k \in 1 .. 8 : PanicOps[k] = PanicOp(k)
  <1> DEFINE Cr == <<Tx("\r"), Tx("\n")>>
             q == [i \in DOMAIN Report |-> IF Report[i] = "\n" THEN Cr ELSE <<Tx(Report[i])>>]
             P == <<Tx("P")>>
             K == kprint(Report)
             A == Concat(Cr, P)
             B == Concat(A, Cr)
  <1>1. DOMAIN Report = 1 .. 3 /\ Report[1] = "\n" /\ Report[2] = "P" /\ Report[3] = "\n"
    BY DEF Report
  <1>2. q = [i \in 1 .. 3 |-> IF Report[i] = "\n" THEN Cr ELSE <<Tx(Report[i])>>]
    BY <1>1
  <1>c. IsSequence(Cr) /\ Len(Cr) = 2 /\ Cr[1] = Tx("\r") /\ Cr[2] = Tx("\n")
    <2>1. Cr \in Seq({Tx("\r"), Tx("\n")}) /\ Len(Cr) = 2 /\ Cr[1] = Tx("\r") /\ Cr[2] = Tx("\n")
      OBVIOUS
    <2> QED BY <2>1 DEF IsSequence
  <1>p. IsSequence(P) /\ Len(P) = 1 /\ P[1] = Tx("P")
    BY OneElement
  <1> HIDE DEF Cr
  <1>3. q[1] = Cr /\ q[2] = P /\ q[3] = Cr
    BY <1>1, <1>2
  <1>4. Len(q) = 3
    BY <1>2
  <1>k. IsSequence(K) /\ Len(K) = 3 /\ K[1] = Show("\n") /\ K[2] = Show("P") /\ K[3] = Show("\n")
    <2>1. K = [i \in 1 .. 3 |-> Show(Report[i])]
      BY <1>1 DEF kprint
    <2>2. \A i \in 1 .. 3 : Show(Report[i]) \in {Show("\n"), Show("P")}
      BY <1>1
    <2>3. K \in Seq({Show("\n"), Show("P")}) /\ Len(K) = 3
      BY <2>1, <2>2
    <2>4. K[1] = Show("\n") /\ K[2] = Show("P") /\ K[3] = Show("\n")
      BY <1>1, <2>1
    <2> QED BY <2>3, <2>4 DEF IsSequence
  <1>5. serial_puts(Report) = FlattenSeq(q)
    BY DEF serial_puts, Cr
  <1> HIDE DEF q, P, K
  <1>6. serial_puts(Report) = B
    BY <1>3, <1>4, <1>5, FlattenThree
  <1>7. PanicOps = Concat(B, K)
    BY <1>6 DEF PanicOps, Concat, K
  <1>8. IsConcat(A, Cr, P)
    BY <1>c, <1>p, ConcatIs
  <1> HIDE DEF A
  <1>9. IsSequence(A) /\ Len(A) = 3 /\ A[1] = Tx("\r") /\ A[2] = Tx("\n") /\ A[3] = Tx("P")
    <2>1. /\ IsSequence(A) /\ Len(A) = 2 + 1
          /\ \A k \in 1 .. 2 : A[k] = Cr[k]
          /\ \A k \in 1 .. 1 : A[2 + k] = P[k]
      BY <1>8, <1>c, <1>p DEF IsConcat
    <2>2. A[1] = Cr[1] /\ A[2] = Cr[2] /\ A[3] = P[1] /\ Len(A) = 3
      BY <2>1
    <2> QED BY <1>c, <1>p, <2>1, <2>2
  <1>10. IsConcat(B, A, Cr)
    BY <1>9, <1>c, ConcatIs
  <1> HIDE DEF B
  <1>11. /\ IsSequence(B) /\ Len(B) = 5 /\ B[1] = Tx("\r") /\ B[2] = Tx("\n") /\ B[3] = Tx("P")
         /\ B[4] = Tx("\r") /\ B[5] = Tx("\n")
    <2>1. /\ IsSequence(B) /\ Len(B) = 3 + 2
          /\ \A k \in 1 .. 3 : B[k] = A[k]
          /\ \A k \in 1 .. 2 : B[3 + k] = Cr[k]
      BY <1>9, <1>10, <1>c DEF IsConcat
    <2>2. Len(B) = 5 /\ B[1] = A[1] /\ B[2] = A[2] /\ B[3] = A[3] /\ B[4] = Cr[1] /\ B[5] = Cr[2]
      BY <2>1
    <2> QED BY <1>9, <1>c, <2>1, <2>2
  <1>12. IsConcat(PanicOps, B, K)
    BY <1>7, <1>11, <1>k, ConcatIs
  <1>13. /\ IsSequence(PanicOps) /\ Len(PanicOps) = 5 + 3
         /\ \A k \in 1 .. 5 : PanicOps[k] = B[k]
         /\ \A k \in 1 .. 3 : PanicOps[5 + k] = K[k]
    BY <1>11, <1>12, <1>k DEF IsConcat
  <1>14. /\ PanicOps[1] = B[1] /\ PanicOps[2] = B[2] /\ PanicOps[3] = B[3] /\ PanicOps[4] = B[4] /\ PanicOps[5] = B[5]
         /\ PanicOps[6] = K[1] /\ PanicOps[7] = K[2] /\ PanicOps[8] = K[3] /\ Len(PanicOps) = 8
    BY <1>13
  <1>15. ASSUME NEW k \in 1 .. 8 PROVE PanicOps[k] = PanicOp(k)
    <2>1. k = 1 \/ k = 2 \/ k = 3 \/ k = 4 \/ k = 5 \/ k = 6 \/ k = 7 \/ k = 8
      OBVIOUS
    <2>2. CASE k = 1
      BY <1>11, <1>14, <2>2 DEF PanicOp
    <2>3. CASE k = 2
      BY <1>11, <1>14, <2>3 DEF PanicOp
    <2>4. CASE k = 3
      BY <1>11, <1>14, <2>4 DEF PanicOp
    <2>5. CASE k = 4
      BY <1>11, <1>14, <2>5 DEF PanicOp
    <2>6. CASE k = 5
      BY <1>11, <1>14, <2>6 DEF PanicOp
    <2>7. CASE k = 6
      BY <1>k, <1>14, <2>7 DEF PanicOp
    <2>8. CASE k = 7
      BY <1>k, <1>14, <2>8 DEF PanicOp
    <2>9. CASE k = 8
      BY <1>k, <1>14, <2>9 DEF PanicOp
    <2> QED BY <2>1, <2>2, <2>3, <2>4, <2>5, <2>6, <2>7, <2>8, <2>9
  <1> QED BY <1>13, <1>14, <1>15

(* What is left of a panic after k operations, and what the UART got.      *)
Left(k) ==
  /\ IsSequence(todo) /\ Len(todo) = 8 - k
  /\ \A i \in 1 .. 8 - k : todo[i] = PanicOp(k + i)
Said(k) ==
  /\ IsSequence(said) /\ Len(said) = k
  /\ \A i \in 1 .. k : said[i] = PanicOp(i)[2]

LEMMA LeftFirst ==
  ASSUME NEW k \in 0 .. 7, Left(k)
  PROVE  /\ todo # <<>> /\ Head(todo) = PanicOp(k + 1)
         /\ todo' = Tail(todo) => Left(k + 1)'
         /\ todo' = todo => Left(k)'
  <1>1. IsSequence(todo) /\ Len(todo) = 8 - k /\ \A i \in 1 .. 8 - k : todo[i] = PanicOp(k + i)
    BY DEF Left
  <1>2. todo # <<>>
    <2>1. 8 - k # 0 /\ Len(<<>>) = 0
      BY NoElements
    <2> QED BY <1>1, <2>1
  <1>3. Head(todo) = todo[1]
    <2>1. PICK S : todo \in Seq(S)
      BY <1>1 DEF IsSequence
    <2> QED BY <1>2, <2>1
  <1>4. todo[1] = PanicOp(k + 1)
    BY <1>1
  <1>5. ASSUME todo' = Tail(todo) PROVE Left(k + 1)'
    <2>1. IsSequence(todo') /\ Len(todo') = (8 - k) - 1 /\ \A i \in 1 .. (8 - k) - 1 : todo'[i] = todo[i + 1]
      BY <1>1, <1>2, <1>5, TailIs
    <2>2. Len(todo') = 8 - (k + 1)
      BY <2>1
    <2>3. ASSUME NEW i \in 1 .. 8 - (k + 1) PROVE todo'[i] = PanicOp(k + 1 + i)
      <3>1. i \in 1 .. (8 - k) - 1 /\ i + 1 \in 1 .. 8 - k /\ k + (i + 1) = k + 1 + i
        OBVIOUS
      <3>2. todo'[i] = todo[i + 1]
        BY <2>1, <3>1
      <3>3. todo[i + 1] = PanicOp(k + (i + 1))
        BY <1>1, <3>1
      <3> QED BY <3>1, <3>2, <3>3
    <2>4. \A i \in 1 .. 8 - (k + 1) : todo'[i] = PanicOp(k + 1 + i)'
      BY <2>3 DEF PanicOp, Tx, Show
    <2> QED BY <2>1, <2>2, <2>4 DEF Left
  <1>6. ASSUME todo' = todo PROVE Left(k)'
    BY <1>1, <1>6 DEF Left, PanicOp, Tx, Show
  <1> QED BY <1>2, <1>3, <1>4, <1>5, <1>6

LEMMA LeftNone ==
  ASSUME NEW k \in 0 .. 8, Left(k)
  PROVE  todo = <<>> <=> k = 8
  <1>1. IsSequence(todo) /\ Len(todo) = 8 - k
    BY DEF Left
  <1>2. Len(<<>>) = 0 /\ (Len(todo) = 0 => todo = <<>>)
    BY <1>1, NoElements
  <1>3. CASE k = 8
    BY <1>1, <1>2, <1>3
  <1>4. CASE k # 8
    <2>1. 8 - k # 0
      BY <1>4
    <2> QED BY <1>1, <1>2, <1>4, <2>1
  <1> QED BY <1>3, <1>4

LEMMA PanicKinds ==
  /\ \A k \in 1 .. 5 : PanicOp(k)[1] = "tx"
  /\ \A k \in 6 .. 8 : PanicOp(k)[1] = "show"
  /\ PanicOp(1)[2] = "\r" /\ PanicOp(2)[2] = "\n" /\ PanicOp(3)[2] = "P" /\ PanicOp(4)[2] = "\r" /\ PanicOp(5)[2] = "\n"
  /\ PanicOp(6)[2] = "\n" /\ PanicOp(7)[2] = "P" /\ PanicOp(8)[2] = "\n"
  <1>1. /\ PanicOp(1) = Tx("\r") /\ PanicOp(2) = Tx("\n") /\ PanicOp(3) = Tx("P")
        /\ PanicOp(4) = Tx("\r") /\ PanicOp(5) = Tx("\n")
    BY DEF PanicOp
  <1>2. PanicOp(6) = Show("\n") /\ PanicOp(7) = Show("P") /\ PanicOp(8) = Show("\n")
    BY DEF PanicOp
  <1>3. ASSUME NEW k \in 1 .. 5 PROVE PanicOp(k)[1] = "tx"
    <2>1. k = 1 \/ k = 2 \/ k = 3 \/ k = 4 \/ k = 5
      OBVIOUS
    <2>2. PanicOp(1)[1] = "tx" /\ PanicOp(2)[1] = "tx" /\ PanicOp(3)[1] = "tx" /\ PanicOp(4)[1] = "tx" /\ PanicOp(5)[1] = "tx"
      BY <1>1, Kinds, Zenon
    <2> QED BY <2>1, <2>2, Zenon
  <1>4. ASSUME NEW k \in 6 .. 8 PROVE PanicOp(k)[1] = "show"
    <2>1. k = 6 \/ k = 7 \/ k = 8
      OBVIOUS
    <2>2. PanicOp(6)[1] = "show" /\ PanicOp(7)[1] = "show" /\ PanicOp(8)[1] = "show"
      BY <1>2, Kinds, Zenon
    <2> QED BY <2>1, <2>2, Zenon
  <1> QED BY <1>1, <1>2, <1>3, <1>4, Kinds

(* While a panic prints, the screen changes by the stores of kprintc only. *)
LEMMA PanicShows ==
  ASSUME NEW k \in 5 .. 7, Left(k), at \in {"start", "advance", "home", "scroll"},
         Vga \/ TxReady \/ TxWrite
  PROVE  /\ kprintc \/ Advance \/ Home \/ ScrollCell \/ ScrollEnd
         /\ Head(todo) = PanicOp(k + 1) /\ UNCHANGED said
         /\ ScrollEnd => Left(k + 1)'
         /\ ~ScrollEnd => Left(k)'
  <1>1. k \in 0 .. 7 /\ k + 1 \in 6 .. 8
    OBVIOUS
  <1>2. todo # <<>> /\ Head(todo) = PanicOp(k + 1) /\ (todo' = Tail(todo) => Left(k + 1)') /\ (todo' = todo => Left(k)')
    BY <1>1, LeftFirst
  <1>3. Head(todo)[1] = "show"
    BY <1>1, <1>2, PanicKinds
  <1>4. ~Doing("step back") /\ ~Doing("again") /\ ~Doing("tx")
    BY <1>3 DEF Doing
  <1>5. Vga
    BY <1>4 DEF TxReady, TxWrite
  <1>6. (kprintc \/ Advance \/ Home \/ ScrollCell \/ ScrollEnd) /\ UNCHANGED said
    BY <1>4, <1>5 DEF Vga, Wrap, Down, vga_backspace, BackAgain, uart
  <1>7. ScrollEnd => todo' = Tail(todo)
    BY DEF ScrollEnd, Done
  <1>8. kprintc => todo' = todo
    BY DEF kprintc, Goto
  <1>9. Advance \/ Home \/ ScrollCell => todo' = todo
    BY DEF Advance, Home, ScrollCell, Goto
  <1> QED BY <1>2, <1>6, <1>7, <1>8, <1>9

-----------------------------------------------------------------------------
(* The rows below m are blank; the report stands in the row that begins at *)
(* r, and nothing else from there on.                                      *)
Below(m) == \A i \in 0 .. CELLS - 1 : i >= m => screen[i] = " "
Reported(r) == \A i \in 0 .. CELLS - 1 : i >= r => screen[i] = IF i = r THEN "P" ELSE " "

(* A scroll on its way: what it has written of the last row is blank; it   *)
(* takes the report with it from the last row to the one above.            *)
Clearing == \A i \in 0 .. CELLS - 1 : i >= Row(VGA_HEIGHT - 1) /\ i < cell => screen[i] = " "
Moving ==
  \A i \in 0 .. CELLS - 1 :
    /\ i < cell /\ i >= Row(VGA_HEIGHT - 2) =>
         screen[i] = IF i = Row(VGA_HEIGHT - 2) THEN "P" ELSE " "
    /\ i >= cell /\ i >= Row(VGA_HEIGHT - 1) =>
         screen[i] = IF i = Row(VGA_HEIGHT - 1) THEN "P" ELSE " "

Grid ==
  /\ DOMAIN screen = 0 .. CELLS - 1 /\ cell \in 0 .. CELLS
  /\ vga_cursor_x \in 0 .. VGA_WIDTH

(* The stations of a panic: the bytes; the newline that leaves whatever was*)
(* there; the report; the last newline; the end.                           *)
Sending(k) ==
  /\ Left(k) /\ Said(k) /\ Grid /\ at \in {"start", "outb"}
  /\ cell = 0 /\ vga_cursor_y \in 0 .. VGA_HEIGHT /\ Below(Row(vga_cursor_y + 1))
Leaving ==
  /\ Left(5) /\ Said(5) /\ Grid /\ at \in {"start", "home", "scroll"}
  /\ at = "start" => cell = 0 /\ vga_cursor_y \in 0 .. VGA_HEIGHT /\ Below(Row(vga_cursor_y + 1))
  /\ at = "home" => cell = 0 /\ vga_cursor_y \in 1 .. VGA_HEIGHT + 1 /\ Below(Row(vga_cursor_y))
  /\ at = "scroll" =>
       /\ vga_cursor_x = 0 /\ vga_cursor_y \in 1 .. VGA_HEIGHT + 1
       /\ vga_cursor_y < VGA_HEIGHT => cell = 0 /\ Below(Row(vga_cursor_y))
       /\ vga_cursor_y >= VGA_HEIGHT => Clearing
Reporting ==
  /\ Left(6) /\ Said(5) /\ Grid /\ at \in {"start", "advance", "scroll"}
  /\ cell = 0 /\ vga_cursor_y \in 1 .. VGA_HEIGHT - 1
  /\ vga_cursor_x = IF at = "scroll" THEN 1 ELSE 0
  /\ IF at = "start" THEN Below(Row(vga_cursor_y)) ELSE Reported(Row(vga_cursor_y))
Ending ==
  /\ Left(7) /\ Said(5) /\ Grid /\ at \in {"start", "home", "scroll"}
  /\ at = "start" => cell = 0 /\ vga_cursor_y \in 1 .. VGA_HEIGHT - 1 /\ Reported(Row(vga_cursor_y))
  /\ at = "home" => cell = 0 /\ vga_cursor_y \in 2 .. VGA_HEIGHT /\ Reported(Row(vga_cursor_y - 1))
  /\ at = "scroll" =>
       /\ vga_cursor_x = 0 /\ vga_cursor_y \in 2 .. VGA_HEIGHT
       /\ vga_cursor_y < VGA_HEIGHT => cell = 0 /\ Reported(Row(vga_cursor_y - 1))
       /\ vga_cursor_y = VGA_HEIGHT => Moving
Ended ==
  /\ Left(8) /\ Said(5) /\ Grid /\ at = "start" /\ cell = 0
  /\ vga_cursor_x = 0 /\ vga_cursor_y \in 1 .. VGA_HEIGHT - 1
  /\ Reported(Row(vga_cursor_y - 1))

Panicking == (\E k \in 0 .. 4 : Sending(k)) \/ Leaving \/ Reporting \/ Ending \/ Ended

(* The rows of the screen.                                                 *)
LEMMA ScreenRows ==
  /\ \A y \in 0 .. VGA_HEIGHT : Row(y) \in Nat /\ Row(y) <= CELLS /\ Row(y + 1) = Row(y) + VGA_WIDTH
  /\ \A y \in 0 .. VGA_HEIGHT - 1 : Row(y) < CELLS
  /\ \A y \in 1 .. VGA_HEIGHT : Row(y) = Row(y - 1) + VGA_WIDTH
  /\ Row(VGA_HEIGHT) = CELLS /\ CELLS \in Nat
  /\ Row(VGA_HEIGHT - 1) = CELLS - VGA_WIDTH /\ Row(VGA_HEIGHT - 1) \in Nat
  /\ Row(VGA_HEIGHT - 1) = Row(VGA_HEIGHT - 2) + VGA_WIDTH /\ Row(VGA_HEIGHT - 2) \in Nat
  <1>1. /\ VGA_HEIGHT \in Nat /\ VGA_HEIGHT - 1 \in Nat /\ VGA_HEIGHT - 2 \in Nat
        /\ VGA_HEIGHT - 1 + 1 = VGA_HEIGHT /\ VGA_HEIGHT - 2 + 1 = VGA_HEIGHT - 1
        /\ VGA_WIDTH \in Nat /\ VGA_WIDTH >= 2
    BY Sizes
  <1>2. Row(VGA_HEIGHT) = CELLS /\ CELLS \in Nat
    BY <1>1, RowIs
  <1>3. /\ Row(VGA_HEIGHT - 1) \in Nat /\ Row(VGA_HEIGHT - 2) \in Nat
        /\ Row(VGA_HEIGHT - 1 + 1) = Row(VGA_HEIGHT - 1) + VGA_WIDTH
        /\ Row(VGA_HEIGHT - 2 + 1) = Row(VGA_HEIGHT - 2) + VGA_WIDTH
    BY <1>1, RowIs
  <1>4. ASSUME NEW y \in 0 .. VGA_HEIGHT
        PROVE  Row(y) \in Nat /\ Row(y) <= CELLS /\ Row(y + 1) = Row(y) + VGA_WIDTH
    <2>1. y \in Nat /\ y <= VGA_HEIGHT
      BY <1>1
    <2> QED BY <1>1, <1>2, <2>1, RowIs
  <1>5. ASSUME NEW y \in 0 .. VGA_HEIGHT - 1 PROVE Row(y) < CELLS
    <2>1. y \in Nat /\ y < VGA_HEIGHT
      BY <1>1
    <2>2. Row(y) + VGA_WIDTH <= CELLS /\ Row(y) \in Nat
      BY <1>1, <1>2, <2>1, RowIs
    <2> QED BY <1>1, <1>2, <2>2
  <1>6. ASSUME NEW y \in 1 .. VGA_HEIGHT PROVE Row(y) = Row(y - 1) + VGA_WIDTH
    <2>1. y - 1 \in Nat /\ y - 1 + 1 = y
      BY <1>1
    <2>2. Row(y - 1 + 1) = Row(y - 1) + VGA_WIDTH
      BY <2>1, RowIs
    <2> QED BY <2>1, <2>2
  <1>7. Row(VGA_HEIGHT - 1) = CELLS - VGA_WIDTH
    BY <1>1, <1>2, <1>3
  <1>8. Row(VGA_HEIGHT - 1) = Row(VGA_HEIGHT - 2) + VGA_WIDTH
    BY <1>1, <1>3
  <1> QED BY <1>2, <1>3, <1>4, <1>5, <1>6, <1>7, <1>8

CellMoved ==
  /\ cell < Row(VGA_HEIGHT - 1) => screen'[cell] = screen[cell + VGA_WIDTH]
  /\ ~(cell < Row(VGA_HEIGHT - 1)) => screen'[cell] = " "
  /\ \A i \in 0 .. CELLS - 1 : i # cell => screen'[i] = screen[i]
LEMMA ScrollStep ==
  ASSUME Grid, ScrollCell, vga_cursor_y \in Nat
  PROVE  /\ at = "scroll" /\ ~(vga_cursor_y < VGA_HEIGHT) /\ cell \in 0 .. CELLS - 1 /\ cell' = cell + 1
         /\ UNCHANGED <<vga_cursor_x, vga_cursor_y, at>> /\ ~ScrollEnd /\ Grid'
         /\ CellMoved
  <1>1. /\ at = "scroll" /\ vga_cursor_y >= VGA_HEIGHT /\ cell < CELLS /\ cell' = cell + 1
        /\ UNCHANGED <<vga_cursor_x, vga_cursor_y, at>>
    BY DEF ScrollCell
  <1>2. screen' = [screen EXCEPT ![cell] = IF cell < CELLS - VGA_WIDTH THEN screen[cell + VGA_WIDTH] ELSE " "]
    BY DEF ScrollCell
  <1>3. DOMAIN screen = 0 .. CELLS - 1 /\ cell \in 0 .. CELLS /\ vga_cursor_x \in 0 .. VGA_WIDTH
    BY DEF Grid
  <1>4. CELLS \in Nat /\ Row(VGA_HEIGHT - 1) = CELLS - VGA_WIDTH
    BY ScreenRows
  <1>5. ~(vga_cursor_y < VGA_HEIGHT)
    BY <1>1, Sizes
  <1>6. cell \in 0 .. CELLS - 1 /\ cell' \in 0 .. CELLS /\ cell # CELLS
    BY <1>1, <1>3, <1>4
  <1>7. DOMAIN screen' = DOMAIN screen /\ \A i \in 0 .. CELLS - 1 : i # cell => screen'[i] = screen[i]
    BY <1>2, <1>3
  <1>8. screen'[cell] = IF cell < Row(VGA_HEIGHT - 1) THEN screen[cell + VGA_WIDTH] ELSE " "
    BY <1>2, <1>3, <1>4, <1>6
  <1>9. Grid'
    BY <1>1, <1>3, <1>6, <1>7 DEF Grid
  <1>10. ~ScrollEnd
    BY <1>1, <1>6 DEF ScrollEnd
  <1>11. CellMoved
    BY <1>7, <1>8 DEF CellMoved
  <1> QED BY <1>1, <1>5, <1>6, <1>9, <1>10, <1>11

LEMMA LeavingNext ==
  ASSUME Leaving, Vga \/ TxReady \/ TxWrite
  PROVE  Leaving' \/ Reporting'
  <1> DEFINE y == vga_cursor_y
             x == vga_cursor_x
             H == VGA_HEIGHT
  <1>1. /\ Left(5) /\ Said(5) /\ Grid /\ at \in {"start", "home", "scroll"}
    BY DEF Leaving
  <1>2. /\ kprintc \/ Advance \/ Home \/ ScrollCell \/ ScrollEnd
        /\ Head(todo) = PanicOp(5 + 1) /\ UNCHANGED said
        /\ ScrollEnd => Left(5 + 1)'
        /\ ~ScrollEnd => Left(5)'
    <2>1. 5 \in 5 .. 7
      OBVIOUS
    <2> QED BY <1>1, <2>1, PanicShows
  <1>3. Head(todo)[2] = "\n"
    BY <1>2, PanicKinds
  <1>4. Said(5)'
    BY <1>1, <1>2 DEF Said, PanicOp, Tx, Show
  <1>5. H \in Nat /\ H >= 2 /\ VGA_WIDTH \in Nat /\ VGA_WIDTH >= 2
    BY Sizes
  <1>6. /\ DOMAIN screen = 0 .. CELLS - 1 /\ cell \in 0 .. CELLS /\ x \in 0 .. VGA_WIDTH
        /\ CELLS \in Nat /\ Row(H - 1) = CELLS - VGA_WIDTH
    BY <1>1, ScreenRows DEF Grid
  <1>7. CASE kprintc
    <2>1. at = "start" /\ at' = "home" /\ y' = y + 1 /\ UNCHANGED <<screen, vga_cursor_x, cell>> /\ ~ScrollEnd
      BY <1>3, <1>7 DEF kprintc, Goto, ScrollEnd
    <2>2. cell = 0 /\ y \in 0 .. H /\ Below(Row(y + 1))
      BY <2>1 DEF Leaving
    <2>3. y' \in 1 .. H + 1
      BY <1>5, <2>1, <2>2
    <2>4. Below(Row(y))'
      BY <2>1, <2>2 DEF Below
    <2>5. Grid'
      BY <1>1, <2>1 DEF Grid
    <2> QED BY <1>2, <1>4, <2>1, <2>2, <2>3, <2>4, <2>5 DEF Leaving
  <1>8. CASE Advance
    BY <1>1, <1>8 DEF Advance
  <1>9. CASE Home
    <2>1. at = "home" /\ at' = "scroll" /\ x' = 0 /\ UNCHANGED <<screen, vga_cursor_y, cell>> /\ ~ScrollEnd
      BY <1>9 DEF Home, Goto, ScrollEnd
    <2>2. cell = 0 /\ y \in 1 .. H + 1 /\ Below(Row(y))
      BY <2>1 DEF Leaving
    <2>3. Below(Row(y))'
      BY <2>1, <2>2 DEF Below
    <2>4. Clearing'
      <3>1. \A i \in 0 .. CELLS - 1 : ~(i < 0)
        BY <1>6
      <3> QED BY <2>1, <2>2, <3>1 DEF Clearing
    <2>5. Grid'
      <3>1. 0 \in 0 .. VGA_WIDTH
        BY <1>5
      <3> QED BY <1>1, <2>1, <3>1 DEF Grid
    <2> QED BY <1>2, <1>4, <2>1, <2>2, <2>3, <2>4, <2>5 DEF Leaving
  <1>10. CASE ScrollCell
    <2>0. y \in 1 .. H + 1 /\ x = 0 /\ (y >= H => Clearing)
      BY <1>10 DEF Leaving, ScrollCell
    <2>1. /\ at = "scroll" /\ ~(y < H) /\ cell \in 0 .. CELLS - 1 /\ cell' = cell + 1
          /\ UNCHANGED <<vga_cursor_x, vga_cursor_y, at>> /\ ~ScrollEnd /\ Grid'
          /\ CellMoved
      <3>1. y \in Nat
        BY <1>5, <2>0
      <3> QED BY <1>1, <1>10, <3>1, ScrollStep
    <2>2. Clearing
      BY <1>5, <2>0, <2>1
    <2>3. cell \in Nat /\ cell' = cell + 1 /\ CELLS \in Nat
      BY <1>6, <2>1
    <2>4. Clearing'
      <3> SUFFICES ASSUME NEW i \in 0 .. CELLS - 1, i >= Row(H - 1), i < cell' PROVE screen'[i] = " "
        BY DEF Clearing
      <3>1. CASE i = cell
        <4>1. ~(cell < Row(H - 1))
          <5>1. Row(H - 1) \in Nat
            BY ScreenRows
          <5> QED BY <2>3, <3>1, <5>1
        <4> QED BY <2>1, <3>1, <4>1 DEF CellMoved
      <3>2. CASE i # cell
        <4>1. i < cell
          BY <2>3, <3>2
        <4>2. screen[i] = " "
          BY <2>2, <4>1 DEF Clearing
        <4> QED BY <2>1, <3>2, <4>2 DEF CellMoved
      <3> QED BY <3>1, <3>2
    <2> QED BY <1>2, <1>4, <2>0, <2>1, <2>4 DEF Leaving
  <1>11. CASE ScrollEnd
    <2>1. /\ at = "scroll" /\ (y >= H => cell = CELLS) /\ cell' = 0 /\ at' = "start"
          /\ y' = (IF y >= H THEN H - 1 ELSE y)
          /\ UNCHANGED <<screen, vga_cursor_x>>
      BY <1>11 DEF ScrollEnd, Done
    <2>2. x = 0 /\ y \in 1 .. H + 1 /\ (y < H => Below(Row(y))) /\ (y >= H => Clearing)
      BY <2>1 DEF Leaving
    <2>3. y' \in 1 .. H - 1
      BY <1>5, <2>1, <2>2
    <2>4. Below(Row(y))'
      <3>1. CASE y < H
        <4>1. y' = y
          BY <1>5, <2>1, <2>2, <3>1
        <4> QED BY <2>1, <2>2, <3>1, <4>1 DEF Below
      <3>2. CASE y >= H
        <4>1. y' = H - 1 /\ cell = CELLS /\ Clearing
          BY <2>1, <2>2, <3>2
        <4>2. \A i \in 0 .. CELLS - 1 : i < CELLS
          BY <1>6
        <4> QED BY <2>1, <4>1, <4>2 DEF Below, Clearing
      <3> QED BY <1>5, <2>2, <3>1, <3>2
    <2>5. Grid'
      <3>1. 0 \in 0 .. CELLS
        BY <1>6
      <3> QED BY <1>1, <2>1, <3>1 DEF Grid
    <2>6. Left(6)'
      BY <1>2, <1>11
    <2> QED BY <1>4, <2>1, <2>2, <2>3, <2>4, <2>5, <2>6 DEF Reporting
  <1> QED BY <1>2, <1>7, <1>8, <1>9, <1>10, <1>11

LEMMA ReportingNext ==
  ASSUME Reporting, Vga \/ TxReady \/ TxWrite
  PROVE  Reporting' \/ Ending'
  <1> DEFINE y == vga_cursor_y
             x == vga_cursor_x
             H == VGA_HEIGHT
  <1>1. /\ Left(6) /\ Said(5) /\ Grid /\ at \in {"start", "advance", "scroll"}
        /\ cell = 0 /\ y \in 1 .. H - 1 /\ x = (IF at = "scroll" THEN 1 ELSE 0)
    BY DEF Reporting
  <1>2. /\ kprintc \/ Advance \/ Home \/ ScrollCell \/ ScrollEnd
        /\ Head(todo) = PanicOp(6 + 1) /\ UNCHANGED said
        /\ ScrollEnd => Left(6 + 1)'
        /\ ~ScrollEnd => Left(6)'
    <2>1. 6 \in 5 .. 7
      OBVIOUS
    <2> QED BY <1>1, <2>1, PanicShows
  <1>3. Head(todo)[2] = "P" /\ "P" # "\n"
    BY <1>2, PanicKinds
  <1>4. Said(5)'
    BY <1>1, <1>2 DEF Said, PanicOp, Tx, Show
  <1>5. H \in Nat /\ H >= 2 /\ VGA_WIDTH \in Nat /\ VGA_WIDTH >= 2 /\ y \in 0 .. H - 1 /\ y < H
    BY <1>1, Sizes
  <1>6. DOMAIN screen = 0 .. CELLS - 1 /\ cell \in 0 .. CELLS
    BY <1>1 DEF Grid
  <1>7. Row(y) \in 0 .. CELLS - 1 /\ CELLS \in Nat /\ y * VGA_WIDTH + 0 = Row(y) /\ Row(y) < CELLS
    <2>1. Row(y) \in Nat /\ Row(y) < CELLS /\ CELLS \in Nat
      BY <1>5, ScreenRows
    <2>2. y * VGA_WIDTH = Row(y)
      BY DEF Row
    <2> QED BY <2>1, <2>2
  <1>8. CASE kprintc
    <2>1. at = "start" /\ at' = "advance" /\ UNCHANGED <<vga_cursor_x, vga_cursor_y, cell>> /\ ~ScrollEnd
      BY <1>3, <1>8 DEF kprintc, Goto, ScrollEnd
    <2>2. x = 0 /\ Below(Row(y))
      BY <1>1, <2>1 DEF Reporting
    <2>3. screen' = [screen EXCEPT ![Row(y)] = "P"]
      <3>1. y * VGA_WIDTH + x = Row(y)
        BY <1>7, <2>2
      <3> QED BY <1>3, <1>7, <1>8, <3>1 DEF kprintc
    <2>4. /\ DOMAIN screen' = 0 .. CELLS - 1 /\ screen'[Row(y)] = "P"
          /\ \A i \in 0 .. CELLS - 1 : i # Row(y) => screen'[i] = screen[i]
      BY <1>6, <1>7, <2>3
    <2>5. \A i \in 0 .. CELLS - 1 : i >= Row(y) => screen'[i] = IF i = Row(y) THEN "P" ELSE " "
      BY <2>2, <2>4 DEF Below
    <2>6. Reported(Row(y))'
      BY <2>1, <2>5 DEF Reported
    <2>7. Grid'
      BY <1>1, <2>1, <2>4 DEF Grid
    <2> QED BY <1>1, <1>2, <1>4, <2>1, <2>2, <2>6, <2>7 DEF Reporting
  <1>9. CASE Advance
    <2>1. at = "advance" /\ x' = x + 1 /\ UNCHANGED <<screen, vga_cursor_y, cell>> /\ ~ScrollEnd
          /\ at' = IF x' >= VGA_WIDTH THEN "wrap" ELSE "scroll"
      BY <1>9 DEF Advance, Goto, ScrollEnd
    <2>2. x = 0 /\ Reported(Row(y))
      BY <1>1, <2>1 DEF Reporting
    <2>3. x' = 1 /\ x' \in 0 .. VGA_WIDTH /\ ~(x' >= VGA_WIDTH)
      BY <1>5, <2>1, <2>2
    <2>4. at' = "scroll"
      BY <2>1, <2>3
    <2>5. Reported(Row(y))'
      BY <2>1, <2>2 DEF Reported
    <2>6. Grid'
      BY <1>1, <2>1, <2>3 DEF Grid
    <2> QED BY <1>1, <1>2, <1>4, <2>1, <2>3, <2>4, <2>5, <2>6 DEF Reporting
  <1>10. CASE Home
    BY <1>1, <1>10 DEF Home
  <1>11. CASE ScrollCell
    <2>1. y >= H
      BY <1>11 DEF ScrollCell
    <2> QED BY <1>1, <1>5, <2>1
  <1>12. CASE ScrollEnd
    <2>1. /\ at = "scroll" /\ cell' = 0 /\ at' = "start"
          /\ y' = (IF y >= H THEN H - 1 ELSE y)
          /\ UNCHANGED <<screen, vga_cursor_x>>
      BY <1>12 DEF ScrollEnd, Done
    <2>2. y' = y
      BY <1>1, <1>5, <2>1
    <2>3. Reported(Row(y))'
      <3>1. Reported(Row(y))
        BY <2>1 DEF Reporting
      <3> QED BY <2>1, <2>2, <3>1 DEF Reported
    <2>4. Grid'
      BY <1>1, <2>1 DEF Grid
    <2>5. Left(7)'
      BY <1>2, <1>12
    <2> QED BY <1>1, <1>4, <2>1, <2>2, <2>3, <2>4, <2>5 DEF Ending
  <1> QED BY <1>2, <1>8, <1>9, <1>10, <1>11, <1>12

LEMMA EndingNext ==
  ASSUME Ending, Vga \/ TxReady \/ TxWrite
  PROVE  Ending' \/ Ended'
  <1> DEFINE y == vga_cursor_y
             x == vga_cursor_x
             H == VGA_HEIGHT
             a == Row(VGA_HEIGHT - 1)
             b == Row(VGA_HEIGHT - 2)
  <1>1. Left(7) /\ Said(5) /\ Grid /\ at \in {"start", "home", "scroll"}
    BY DEF Ending
  <1>2. /\ kprintc \/ Advance \/ Home \/ ScrollCell \/ ScrollEnd
        /\ Head(todo) = PanicOp(7 + 1) /\ UNCHANGED said
        /\ ScrollEnd => Left(7 + 1)'
        /\ ~ScrollEnd => Left(7)'
    <2>1. 7 \in 5 .. 7
      OBVIOUS
    <2> QED BY <1>1, <2>1, PanicShows
  <1>3. Head(todo)[2] = "\n"
    BY <1>2, PanicKinds
  <1>4. Said(5)'
    BY <1>1, <1>2 DEF Said, PanicOp, Tx, Show
  <1>5. H \in Nat /\ H >= 2 /\ VGA_WIDTH \in Nat /\ VGA_WIDTH >= 2
    BY Sizes
  <1>6. CELLS \in Nat /\ a = CELLS - VGA_WIDTH /\ a = b + VGA_WIDTH /\ a \in Nat /\ b \in Nat
    BY ScreenRows
  <1>7. CASE kprintc
    <2>1. at = "start" /\ at' = "home" /\ y' = y + 1 /\ UNCHANGED <<screen, vga_cursor_x, cell>> /\ ~ScrollEnd
      BY <1>3, <1>7 DEF kprintc, Goto, ScrollEnd
    <2>2. cell = 0 /\ y \in 1 .. H - 1 /\ Reported(Row(y))
      BY <2>1 DEF Ending
    <2>3. y' \in 2 .. H /\ y' - 1 = y
      BY <1>5, <2>1, <2>2
    <2>4. Reported(Row(y - 1))'
      BY <2>1, <2>2, <2>3 DEF Reported
    <2>5. Grid'
      BY <1>1, <2>1 DEF Grid
    <2> QED BY <1>2, <1>4, <2>1, <2>2, <2>3, <2>4, <2>5 DEF Ending
  <1>8. CASE Advance
    BY <1>1, <1>8 DEF Advance
  <1>9. CASE Home
    <2>1. at = "home" /\ at' = "scroll" /\ x' = 0 /\ UNCHANGED <<screen, vga_cursor_y, cell>> /\ ~ScrollEnd
      BY <1>9 DEF Home, Goto, ScrollEnd
    <2>2. cell = 0 /\ y \in 2 .. H /\ Reported(Row(y - 1))
      BY <2>1 DEF Ending
    <2>3. Reported(Row(y - 1))'
      BY <2>1, <2>2 DEF Reported
    <2>4. y' = H => Moving'
      <3> SUFFICES ASSUME y' = H, NEW i \in 0 .. CELLS - 1
                   PROVE  /\ ~(i < 0)
                          /\ i >= a => screen[i] = IF i = a THEN "P" ELSE " "
        BY <2>1, <2>2 DEF Moving
      <3>1. ~(i < 0)
        BY <1>6
      <3>2. Reported(a)
        BY <2>1, <2>2
      <3> QED BY <3>1, <3>2 DEF Reported
    <2>5. Grid'
      <3>1. 0 \in 0 .. VGA_WIDTH
        BY <1>5
      <3> QED BY <1>1, <2>1, <3>1 DEF Grid
    <2> QED BY <1>2, <1>4, <2>1, <2>2, <2>3, <2>4, <2>5 DEF Ending
  <1>10. CASE ScrollCell
    <2>0. y \in 2 .. H /\ x = 0 /\ (y = H => Moving)
      BY <1>10 DEF Ending, ScrollCell
    <2>1. /\ at = "scroll" /\ ~(y < H) /\ cell \in 0 .. CELLS - 1 /\ cell' = cell + 1
          /\ UNCHANGED <<vga_cursor_x, vga_cursor_y, at>> /\ ~ScrollEnd /\ Grid'
          /\ CellMoved
      <3>1. y \in Nat
        BY <1>5, <2>0
      <3> QED BY <1>1, <1>10, <3>1, ScrollStep
    <2>2. y = H /\ Moving
      <3>1. y = H
        BY <1>5, <2>0, <2>1
      <3> QED BY <2>0, <3>1
    <2>3. cell \in Nat /\ cell' = cell + 1 /\ CELLS \in Nat /\ cell < CELLS
      BY <1>6, <2>1
    <2> HIDE DEF a, b
    <2>4. Moving'
      <3> SUFFICES ASSUME NEW i \in 0 .. CELLS - 1
                   PROVE  /\ i < cell' /\ i >= b => screen'[i] = IF i = b THEN "P" ELSE " "
                          /\ i >= cell' /\ i >= a => screen'[i] = IF i = a THEN "P" ELSE " "
        BY DEF Moving, a, b
      <3>1. CASE i = cell
        <4>1. ~(i >= cell')
          BY <2>3, <3>1
        <4>2. ASSUME i >= b PROVE screen'[i] = IF i = b THEN "P" ELSE " "
          <5>1. CASE cell < a
            <6>1. cell + VGA_WIDTH \in 0 .. CELLS - 1 /\ cell + VGA_WIDTH >= cell /\ cell + VGA_WIDTH >= a
                  /\ (cell + VGA_WIDTH = a <=> i = b)
              BY <1>5, <1>6, <2>3, <3>1, <4>2, <5>1
            <6>2. screen[cell + VGA_WIDTH] = IF cell + VGA_WIDTH = a THEN "P" ELSE " "
              BY <2>2, <6>1 DEF Moving, a
            <6>3. screen'[cell] = screen[cell + VGA_WIDTH]
              BY <2>1, <5>1 DEF CellMoved, a
            <6> QED BY <3>1, <6>1, <6>2, <6>3
          <5>2. CASE ~(cell < a)
            <6>1. i # b
              BY <1>5, <1>6, <2>3, <3>1, <5>2
            <6>2. screen'[cell] = " "
              BY <2>1, <5>2 DEF CellMoved, a
            <6> QED BY <3>1, <6>1, <6>2
          <5> QED BY <5>1, <5>2
        <4> QED BY <4>1, <4>2
      <3>2. CASE i # cell
        <4>1. (i < cell' => i < cell) /\ (i >= cell' => i >= cell)
          BY <2>3, <3>2
        <4>2. screen'[i] = screen[i]
          BY <2>1, <3>2 DEF CellMoved
        <4>3. /\ i < cell /\ i >= b => screen[i] = IF i = b THEN "P" ELSE " "
              /\ i >= cell /\ i >= a => screen[i] = IF i = a THEN "P" ELSE " "
          BY <2>2 DEF Moving, a, b
        <4> QED BY <4>1, <4>2, <4>3
      <3> QED BY <3>1, <3>2
    <2> QED BY <1>2, <1>4, <2>0, <2>1, <2>4 DEF Ending
  <1>11. CASE ScrollEnd
    <2>1. /\ at = "scroll" /\ (y >= H => cell = CELLS) /\ cell' = 0 /\ at' = "start"
          /\ y' = (IF y >= H THEN H - 1 ELSE y)
          /\ UNCHANGED <<screen, vga_cursor_x>>
      BY <1>11 DEF ScrollEnd, Done
    <2>2. x = 0 /\ y \in 2 .. H /\ (y < H => Reported(Row(y - 1))) /\ (y = H => Moving)
      BY <2>1 DEF Ending
    <2>3. y' \in 1 .. H - 1
      BY <1>5, <2>1, <2>2
    <2>4. Reported(Row(y - 1))'
      <3>1. CASE y < H
        <4>1. y' = y
          BY <1>5, <2>1, <2>2, <3>1
        <4> QED BY <2>1, <2>2, <3>1, <4>1 DEF Reported
      <3>2. CASE y = H
        <4>1. y' = H - 1 /\ cell = CELLS /\ Moving
          BY <1>5, <2>1, <2>2, <3>2
        <4>2. \A i \in 0 .. CELLS - 1 : i < CELLS
          BY <1>6
        <4>3. y' - 1 = H - 2
          BY <1>5, <4>1
        <4>4. \A i \in 0 .. CELLS - 1 : i >= b => screen[i] = IF i = b THEN "P" ELSE " "
          BY <4>1, <4>2 DEF Moving
        <4> QED BY <2>1, <4>3, <4>4 DEF Reported
      <3> QED BY <1>5, <2>2, <3>1, <3>2
    <2>5. Grid'
      <3>1. 0 \in 0 .. CELLS
        BY <1>6
      <3> QED BY <1>1, <2>1, <3>1 DEF Grid
    <2>6. Left(8)'
      BY <1>2, <1>11
    <2> QED BY <1>4, <2>1, <2>2, <2>3, <2>4, <2>5, <2>6 DEF Ended
  <1> QED BY <1>2, <1>7, <1>8, <1>9, <1>10, <1>11

(* One element more.                                                       *)
OneMore(w, s, k, b) ==
  /\ IsSequence(w) /\ Len(w) = k + 1
  /\ \A i \in 1 .. k : w[i] = s[i]
  /\ w[k + 1] = b
LEMMA AppendSays ==
  ASSUME NEW s, NEW k, IsSequence(s), Len(s) = k, NEW b
  PROVE  OneMore(Append(s, b), s, k, b)
  <1>1. PICK S : s \in Seq(S)
    BY DEF IsSequence
  <1>2. s \in Seq(S \cup {b})
    <2>1. ToSet(s) \subseteq S \cup {b}
      BY <1>1 DEF ToSet
    <2> QED BY <1>1, <2>1, SeqOfMembers
  <1>3. Append(s, b) \in Seq(S \cup {b})
    BY <1>2, AppendProperties
  <1>4. Len(Append(s, b)) = Len(s) + 1 /\ (\A i \in 1 .. Len(s) : Append(s, b)[i] = s[i]) /\ Append(s, b)[Len(s) + 1] = b
    BY <1>2, AppendProperties
  <1> QED BY <1>3, <1>4 DEF IsSequence, OneMore

(* A byte of the report reaches the UART.                                  *)
LEMMA SendingNext ==
  ASSUME NEW k \in 0 .. 4, Sending(k), FifoRoom, mode = "panic", Vga \/ TxReady \/ TxWrite
  PROVE  Sending(k)' \/ (k < 4 /\ Sending(k + 1)') \/ (k = 4 /\ Leaving')
  <1>1. /\ Left(k) /\ Said(k) /\ Grid /\ at \in {"start", "outb"}
        /\ cell = 0 /\ vga_cursor_y \in 0 .. VGA_HEIGHT /\ Below(Row(vga_cursor_y + 1))
    BY DEF Sending
  <1>2. k \in 0 .. 7 /\ k + 1 \in 1 .. 5
    OBVIOUS
  <1>3. todo # <<>> /\ Head(todo) = PanicOp(k + 1) /\ (todo' = Tail(todo) => Left(k + 1)') /\ (todo' = todo => Left(k)')
    BY <1>1, <1>2, LeftFirst
  <1>4. Head(todo)[1] = "tx"
    BY <1>2, <1>3, PanicKinds
  <1>5. TxReady \/ TxWrite
    <2>1. ~Doing("step back") /\ ~Doing("again") /\ ~Doing("show")
      BY <1>4 DEF Doing
    <2>2. ~Vga
      BY <1>1, <2>1 DEF Vga, kprintc, Advance, Wrap, Down, Home, ScrollCell, ScrollEnd, vga_backspace, BackAgain
    <2> QED BY <2>2
  <1>6. UNCHANGED <<vga, cell>>
    BY <1>5 DEF TxReady, TxWrite
  <1>7. Grid' /\ Below(Row(vga_cursor_y + 1))'
    BY <1>1, <1>6 DEF Grid, Below, vga
  <1>8. vga_cursor_y' = vga_cursor_y /\ cell' = cell
    BY <1>6 DEF vga
  <1>9. CASE TxReady
    <2>1. at' = "outb" /\ todo' = todo /\ said' = said
      BY <1>9 DEF TxReady, Goto, uart
    <2>2. Said(k)'
      BY <1>1, <2>1 DEF Said, PanicOp, Tx, Show
    <2> QED BY <1>1, <1>3, <1>7, <1>8, <2>1, <2>2 DEF Sending
  <1>10. CASE TxWrite
    <2>1. at = "outb" /\ at' = "start" /\ todo' = Tail(todo) /\ outb(Head(todo)[2])
      BY <1>10 DEF TxWrite, Done
    <2>2. fifo < FIFO
      <3>1. /\ fifo \in Nat /\ FIFO \in Nat /\ FIFO >= Cardinality(Threads) + 2
            /\ Cardinality(Threads) \in Nat /\ Cardinality(ready) \in Nat
        BY ConsoleAssumption, ReadyCard DEF FifoRoom
      <3> QED BY <2>1, <3>1 DEF FifoRoom, Pending
    <2> DEFINE b == PanicOp(k + 1)[2]
    <2>3. said' = Append(said, b)
      BY <1>3, <2>1, <2>2 DEF outb
    <2>4. Said(k + 1)'
      <3>1. IsSequence(said) /\ Len(said) = k /\ \A i \in 1 .. k : said[i] = PanicOp(i)[2]
        BY <1>1 DEF Said
      <3> HIDE DEF b
      <3>2. IsSequence(said') /\ Len(said') = k + 1 /\ (\A i \in 1 .. k : said'[i] = said[i]) /\ said'[k + 1] = b
        <4>1. OneMore(Append(said, b), said, k, b)
          BY <3>1, AppendSays
        <4> QED BY <2>3, <4>1 DEF OneMore
      <3>3. \A i \in 1 .. k + 1 : said'[i] = PanicOp(i)[2]
        <4> TAKE i \in 1 .. k + 1
        <4>1. CASE i = k + 1
          BY <3>2, <4>1 DEF b
        <4>2. CASE i # k + 1
          <5>1. i \in 1 .. k
            BY <4>2
          <5> QED BY <3>1, <3>2, <5>1
        <4> QED BY <4>1, <4>2
      <3> QED BY <3>2, <3>3 DEF Said, PanicOp, Tx, Show
    <2>5. CASE k < 4
      BY <1>1, <1>3, <1>7, <1>8, <2>1, <2>4, <2>5 DEF Sending
    <2>6. CASE k = 4
      <3>1. Left(5)' /\ Said(5)'
        BY <1>3, <2>1, <2>4, <2>6
      <3> QED BY <1>1, <1>7, <1>8, <2>1, <2>6, <3>1 DEF Leaving
    <2> QED BY <2>5, <2>6
  <1> QED BY <1>5, <1>9, <1>10

LEMMA EndedNext ==
  ASSUME Ended
  PROVE  ~Vga /\ ~TxReady /\ ~TxWrite
  <1>1. todo = <<>>
    <2>1. 8 \in 0 .. 8 /\ Left(8)
      BY DEF Ended
    <2> QED BY <2>1, LeftNone
  <1>2. at = "start"
    BY DEF Ended
  <1> QED BY <1>1, <1>2 DEF Vga, kprintc, Advance, Wrap, Down, Home, ScrollCell, ScrollEnd, vga_backspace,
      BackAgain, TxReady, TxWrite, Doing

LEMMA PanickingNext ==
  ASSUME Panicking, FifoRoom, mode = "panic", Vga \/ TxReady \/ TxWrite
  PROVE  Panicking'
  <1>1. ASSUME NEW k \in 0 .. 4, Sending(k) PROVE Panicking'
    <2>1. Sending(k)' \/ (k < 4 /\ Sending(k + 1)') \/ (k = 4 /\ Leaving')
      BY <1>1, SendingNext
    <2>2. k < 4 => k + 1 \in 0 .. 4
      OBVIOUS
    <2> QED BY <2>1, <2>2 DEF Panicking
  <1>2. CASE Leaving
    BY <1>2, LeavingNext DEF Panicking
  <1>3. CASE Reporting
    BY <1>3, ReportingNext DEF Panicking
  <1>4. CASE Ending
    BY <1>4, EndingNext DEF Panicking
  <1>5. CASE Ended
    BY <1>5, EndedNext
  <1> QED BY <1>1, <1>2, <1>3, <1>4, <1>5 DEF Panicking

-----------------------------------------------------------------------------
(* Whatever the echo loop was doing, below the cursor's row all is blank.  *)
BlankFrom(f, v) == \A i \in 0 .. Bottom : i >= v => f[i] = " "
LEMMA ShownBelow ==
  ASSUME NEW f, NEW n \in Nat, n + VGA_HEIGHT <= ROWS, NEW v \in Nat,
         Canvas, cell = 0, Shown(f, n), BlankFrom(f, v),
         v <= Row(n + vga_cursor_y + 1)
  PROVE  Below(Row(vga_cursor_y + 1))
  <1> DEFINE y == vga_cursor_y
  <1>0. y \in 0 .. VGA_HEIGHT
    BY DEF Canvas
  <1>1. y + 1 \in Nat /\ n + (y + 1) = n + y + 1
    BY <1>0, Sizes
  <1>2. Row(n + (y + 1)) = Row(n) + Row(y + 1) /\ Row(n) \in Nat /\ Row(y + 1) \in Nat
    BY <1>1, RowIs
  <1>3. Row(n) + CELLS <= Bottom /\ Bottom \in Nat /\ CELLS \in Nat
    <2>1. /\ Row(n + 1 + VGA_HEIGHT) = Row(n) + CELLS + VGA_WIDTH
          /\ Row(n + 1 + VGA_HEIGHT) <= Bottom /\ Bottom \in Nat /\ CELLS \in Nat /\ Row(n) \in Nat
      BY Rows
    <2> DEFINE e == Row(n + 1 + VGA_HEIGHT)
    <2>2. e = Row(n) + CELLS + VGA_WIDTH /\ e <= Bottom
      BY <2>1
    <2> HIDE DEF e
    <2> QED BY <2>1, <2>2, Sizes
  <1> SUFFICES ASSUME NEW i \in 0 .. CELLS - 1, i >= Row(y + 1) PROVE screen[i] = " "
    BY DEF Below
  <1> DEFINE b == Row(n)
             r == Row(y + 1)
             e == Row(n + y + 1)
  <1>6. b \in Nat /\ r \in Nat /\ e = b + r /\ b + CELLS <= Bottom /\ v <= e /\ i >= r
    BY <1>1, <1>2, <1>3
  <1> HIDE DEF b, r, e
  <1>4. b + i \in 0 .. Bottom /\ b + i >= v /\ i >= 0
    BY <1>3, <1>6
  <1>5. screen[i] = f[b + i]
    BY <1>4 DEF Shown, b
  <1> QED BY <1>4, <1>5 DEF BlankFrom

LEMMA SettledBelow ==
  ASSUME NEW p, Sheet(p), Still(p)
  PROVE  Canvas /\ Below(Row(vga_cursor_y + 1))
  <1>1. Canvas /\ cell = 0 /\ CursorAt(p) /\ Shown(p.paper, p.top)
    BY DEF Still
  <1>2. /\ p.top \in Nat /\ p.top + VGA_HEIGHT <= ROWS /\ p.pos \in Nat
        /\ vga_cursor_y \in 0 .. VGA_HEIGHT - 1 /\ vga_cursor_x \in 0 .. VGA_WIDTH - 1
        /\ p.pos = Row(p.top + vga_cursor_y) + vga_cursor_x
    BY <1>1, OnSheet
  <1>3. p.pos + 1 <= Row(p.top + vga_cursor_y + 1) /\ p.pos + 1 \in Nat
    <2>1. Row(p.top + vga_cursor_y + 1) = Row(p.top + vga_cursor_y) + VGA_WIDTH /\ Row(p.top + vga_cursor_y) \in Nat
      BY <1>2, UnderCursor
    <2> QED BY <1>2, <2>1, Sizes
  <1>4. BlankFrom(p.paper, p.pos + 1)
    <2> SUFFICES ASSUME NEW i \in 0 .. Bottom PROVE i >= p.pos + 1 => p.paper[i] = " "
      BY DEF BlankFrom
    <2>1. i >= p.pos + 1 => i > p.pos
      BY <1>2, BottomNat
    <2> QED BY <2>1 DEF Sheet, BlankAfter
  <1>5. Below(Row(vga_cursor_y + 1))
    BY <1>1, <1>2, <1>3, <1>4, ShownBelow
  <1> QED BY <1>1, <1>5

LEMMA ShowingBelow ==
  ASSUME NEW p, NEW c, Showing(p, c)
  PROVE  Canvas /\ Below(Row(vga_cursor_y + 1)) /\ at \in {"start", "advance", "wrap", "down", "home", "scroll"}
  <1> DEFINE q == TypeOn(p, c)
             y == vga_cursor_y
             x == vga_cursor_x
             t == p.top
  <1>1. Sheet(p) /\ Sheet(q) /\ Clean(q) /\ Stage(p, q, c)
    BY DEF Showing
  <1>0. c # "\n" => q.pos = p.pos + 1
    BY TypeOnIs
  <1> HIDE DEF q
  <1>2. Canvas /\ at \in {"start", "advance", "wrap", "down", "home", "scroll"}
    BY <1>1 DEF Stage
  <1>3. CASE at = "start"
    <2>1. Still(p)
      BY <1>1, <1>3 DEF Stage, Still, Canvas
    <2> QED BY <1>1, <1>2, <2>1, SettledBelow
  <1>4. CASE y = VGA_HEIGHT
    <2>1. Row(y + 1) = CELLS + VGA_WIDTH /\ CELLS \in Nat /\ VGA_WIDTH \in Nat
      <3>1. VGA_HEIGHT \in 0 .. VGA_HEIGHT
        BY Sizes
      <3> QED BY <1>4, <3>1, ScreenRows, Sizes
    <2>2. \A i \in 0 .. CELLS - 1 : ~(i >= Row(y + 1))
      BY <2>1
    <2> QED BY <1>2, <2>2 DEF Below
  <1>5. CASE at # "start" /\ y # VGA_HEIGHT
    <2>1. Shown(q.paper, t) /\ cell = 0 /\ t \in Nat /\ t + VGA_HEIGHT <= ROWS /\ q.pos \in Nat
      BY <1>1, <1>2, <1>5 DEF Stage, Canvas, Sheet
    <2>2. y \in 0 .. VGA_HEIGHT - 1 /\ x \in 0 .. VGA_WIDTH /\ t + y \in Nat
      BY <1>2, <1>5, <2>1, Sizes DEF Canvas
    <2>3. Row(t + y + 1) = Row(t + y) + VGA_WIDTH /\ Row(t + y) \in Nat
      BY <2>2, RowIs
    <2>4. q.pos <= Row(t + y + 1)
      <3>1. CASE at = "advance"
        <4>1. CursorAt(p) /\ c # "\n"
          BY <1>1, <3>1 DEF Stage
        <4>2. p.pos = Row(t + y) + x /\ x < VGA_WIDTH
          BY <4>1 DEF CursorAt
        <4> QED BY <1>0, <2>2, <2>3, <4>1, <4>2, Sizes
      <3>2. CASE at = "wrap" \/ at = "down"
        <4>1. q.pos = Row(t + y + 1)
          BY <1>1, <3>2 DEF Stage
        <4> QED BY <2>1, <4>1
      <3>3. CASE at = "home"
        <4>1. q.pos = Row(t + y)
          BY <1>1, <3>3 DEF Stage
        <4> QED BY <2>1, <2>3, <4>1, Sizes
      <3>4. CASE at = "scroll"
        <4>1. q.pos = Row(t + y) + x
          BY <1>1, <3>4 DEF Stage
        <4> QED BY <2>2, <2>3, <4>1, Sizes
      <3> QED BY <1>2, <1>5, <3>1, <3>2, <3>3, <3>4
    <2>5. BlankFrom(q.paper, q.pos)
      <3> SUFFICES ASSUME NEW i \in 0 .. Bottom PROVE i >= q.pos => q.paper[i] = " "
        BY DEF BlankFrom
      <3>1. i >= q.pos => i = q.pos \/ i > q.pos
        BY <2>1, BottomNat
      <3>2. q.paper[q.pos] = " " /\ (i > q.pos => q.paper[i] = " ")
        BY <1>1 DEF Sheet, BlankAfter, Clean
      <3> QED BY <3>1, <3>2
    <2>6. Below(Row(y + 1))
      BY <1>2, <2>1, <2>4, <2>5, ShownBelow
    <2> QED BY <1>2, <2>6
  <1> QED BY <1>3, <1>4, <1>5

LEMMA EchoingBelow ==
  ASSUME Echoing
  PROVE  /\ Canvas /\ Below(Row(vga_cursor_y + 1))
         /\ at \in {"start", "advance", "wrap", "down", "home", "scroll", "outb"}
  <1>1. PICK p : Idle(p) \/ (\E c : Printing(p, c)) \/ NewLine(p)
                 \/ SteppingBack(p) \/ Blanking(p) \/ ReturningTo(p)
    BY DEF Echoing
  <1>2. CASE Idle(p) \/ SteppingBack(p) \/ ReturningTo(p)
    <2>1. Sheet(p) /\ Still(p) /\ at \in {"start", "outb"}
      BY <1>2 DEF Idle, SteppingBack, ReturningTo, Settled
    <2> QED BY <2>1, SettledBelow
  <1>3. CASE \E c : Showing(p, c)
    BY <1>3, ShowingBelow
  <1>4. (\E c : Printing(p, c)) \/ NewLine(p) \/ Blanking(p) => \E c : Showing(p, c)
    BY DEF Printing, NewLine, Blanking
  <1> QED BY <1>1, <1>2, <1>3, <1>4

(* A panic finds the screen so, wherever it stopped the echo loop.         *)
LEMMA PanicBegins ==
  ASSUME Echoing, said = <<>>, Panic
  PROVE  Panicking'
  <1>1. UNCHANGED <<vga, said>> /\ todo' = PanicOps /\ at' = "start" /\ cell' = 0
    BY DEF Panic, uart
  <1>2. /\ DOMAIN screen = 0 .. CELLS - 1 /\ vga_cursor_x \in 0 .. VGA_WIDTH
        /\ vga_cursor_y \in 0 .. VGA_HEIGHT /\ Below(Row(vga_cursor_y + 1))
    BY EchoingBelow DEF Canvas
  <1>3. Grid'
    <2>1. 0 \in 0 .. CELLS
      BY ScreenRows
    <2> QED BY <1>1, <1>2, <2>1 DEF Grid, vga
  <1>4. Below(Row(vga_cursor_y + 1))' /\ vga_cursor_y' = vga_cursor_y
    BY <1>1, <1>2 DEF Below, vga
  <1>5. Said(0)'
    <2>1. IsSequence(said') /\ Len(said') = 0
      BY <1>1, NoElements
    <2>2. \A i \in 1 .. 0 : FALSE
      OBVIOUS
    <2> QED BY <2>1, <2>2 DEF Said
  <1>6. Left(0)'
    <2>1. IsSequence(todo') /\ Len(todo') = 8 - 0
      BY <1>1, PanicOpsAre
    <2>2. ASSUME NEW i \in 1 .. 8 - 0 PROVE todo'[i] = PanicOp(0 + i)
      <3>1. i \in 1 .. 8 /\ 0 + i = i
        OBVIOUS
      <3> QED BY <1>1, <3>1, PanicOpsAre
    <2> QED BY <2>1, <2>2 DEF Left, PanicOp, Tx, Show
  <1>7. Sending(0)'
    BY <1>1, <1>2, <1>3, <1>4, <1>5, <1>6 DEF Sending
  <1>8. 0 \in 0 .. 4
    OBVIOUS
  <1> QED BY <1>7, <1>8 DEF Panicking

-----------------------------------------------------------------------------
(* The rest of the machine touches neither the screen nor the panic.       *)
LEMMA EchoingStays ==
  ASSUME Echoing, UNCHANGED <<vga, todo, at, cell, sheet>>
  PROVE  Echoing'
  <1>1. PICK p : Idle(p) \/ (\E c : Printing(p, c)) \/ NewLine(p)
                 \/ SteppingBack(p) \/ Blanking(p) \/ ReturningTo(p)
    BY DEF Echoing
  <1>2. UNCHANGED <<screen, vga_cursor_x, vga_cursor_y, todo, at, cell, paper, pos, top>>
    BY DEF vga, sheet
  <1>3. Canvas => Canvas'
    BY <1>2 DEF Canvas
  <1>4. ASSUME NEW f, NEW n, Shown(f, n) PROVE Shown(f, n)'
    BY <1>2, <1>4 DEF Shown
  <1>5. ASSUME NEW k, Then(k) PROVE Then(k)'
    BY <1>2, <1>5 DEF Then
  <1>6. ASSUME NEW q, CursorAt(q) PROVE CursorAt(q)'
    BY <1>2, <1>6 DEF CursorAt
  <1>7. ASSUME NEW q PROVE (Sheet(q) => Sheet(q)') /\ (Clean(q) => Clean(q)')
    BY DEF Sheet, Clean
  <1>8. ASSUME NEW q PROVE (Same(q) => Same(q)') /\ (SameBack(q) => SameBack(q)') /\ (SameErased(q) => SameErased(q)')
    BY <1>2 DEF Same, SameBack, SameErased
  <1>9. ASSUME NEW q, Settled(q) PROVE Settled(q)'
    <2>1. Sheet(q)' /\ Clean(q)'
      BY <1>7, <1>9 DEF Settled
    <2>2. Canvas' /\ CursorAt(q)' /\ Shown(q.paper, q.top)' /\ cell' = 0
      BY <1>2, <1>3, <1>4, <1>6, <1>9 DEF Settled, Still
    <2> QED BY <2>1, <2>2 DEF Settled, Still
  <1>10. ASSUME NEW q, NEW c, Showing(q, c) PROVE Showing(q, c)'
    <2> DEFINE r == TypeOn(q, c)
    <2>1. Sheet(q) /\ Sheet(r) /\ Clean(r) /\ Stage(q, r, c)
      BY <1>10 DEF Showing
    <2> HIDE DEF r
    <2>2. Sheet(q)' /\ Sheet(r)' /\ Clean(r)'
      BY <1>7, <2>1
    <2>3. Shown(IF at = "start" THEN q.paper ELSE r.paper, q.top)'
      <3> DEFINE f == IF at = "start" THEN q.paper ELSE r.paper
      <3>0. PICK g : g = f
        OBVIOUS
      <3>1. Shown(g, q.top)
        BY <2>1, <3>0 DEF Stage
      <3>2. Shown(g, q.top)'
        BY <1>4, <3>1
      <3>3. f' = g
        BY <1>2, <3>0
      <3> QED BY <3>2, <3>3
    <2>4. Canvas' /\ (CursorAt(q) => CursorAt(q)')
      BY <1>3, <1>6, <2>1 DEF Stage
    <2>5. Stage(q, r, c)'
      BY <1>2, <2>1, <2>3, <2>4 DEF Stage
    <2> QED BY <2>2, <2>5 DEF Showing, r
  <1>11. CASE Idle(p)
    <2>1. Idle(p)'
      BY <1>2, <1>5, <1>8, <1>9, <1>11 DEF Idle
    <2> QED BY <2>1 DEF Echoing
  <1>12. CASE \E c : Printing(p, c)
    <2>1. PICK c : Printing(p, c)
      BY <1>12
    <2>2. Printing(p, c)'
      BY <1>2, <1>5, <1>8, <1>10, <2>1 DEF Printing, Show
    <2> QED BY <2>2 DEF Echoing
  <1>13. CASE NewLine(p)
    <2>1. NewLine(p)'
      BY <1>2, <1>5, <1>7, <1>8, <1>10, <1>13 DEF NewLine, Show
    <2> QED BY <2>1 DEF Echoing
  <1>14. CASE SteppingBack(p)
    <2>1. SteppingBack(p)'
      BY <1>2, <1>5, <1>8, <1>9, <1>14 DEF SteppingBack, Show, StepBack, Again
    <2> QED BY <2>1 DEF Echoing
  <1>15. CASE Blanking(p)
    <2>1. Blanking(p)'
      BY <1>2, <1>5, <1>8, <1>10, <1>15 DEF Blanking, Show, Again
    <2> QED BY <2>1 DEF Echoing
  <1>16. CASE ReturningTo(p)
    <2>1. ReturningTo(p)'
      BY <1>2, <1>5, <1>8, <1>9, <1>16 DEF ReturningTo, Again
    <2> QED BY <2>1 DEF Echoing
  <1> QED BY <1>1, <1>11, <1>12, <1>13, <1>14, <1>15, <1>16

LEMMA PanicStays ==
  ASSUME UNCHANGED <<vga, todo, at, cell, said>>
  PROVE  (Panicking => Panicking') /\ (Ended => Ended')
  <1>1. UNCHANGED <<screen, vga_cursor_x, vga_cursor_y, todo, at, cell, said>>
    BY DEF vga
  <1>2. ASSUME NEW k PROVE (Left(k) => Left(k)') /\ (Said(k) => Said(k)')
    BY <1>1 DEF Left, Said, PanicOp, Tx, Show
  <1>3. (Grid => Grid') /\ (Clearing => Clearing') /\ (Moving => Moving')
    BY <1>1 DEF Grid, Clearing, Moving
  <1>5. ASSUME Below(Row(vga_cursor_y)) PROVE Below(Row(vga_cursor_y))'
    BY <1>1, <1>5 DEF Below
  <1>6. ASSUME Below(Row(vga_cursor_y + 1)) PROVE Below(Row(vga_cursor_y + 1))'
    BY <1>1, <1>6 DEF Below
  <1>7. ASSUME Reported(Row(vga_cursor_y)) PROVE Reported(Row(vga_cursor_y))'
    BY <1>1, <1>7 DEF Reported
  <1>8. ASSUME Reported(Row(vga_cursor_y - 1)) PROVE Reported(Row(vga_cursor_y - 1))'
    BY <1>1, <1>8 DEF Reported
  <1>9. Ended => Ended'
    BY <1>1, <1>2, <1>3, <1>8 DEF Ended
  <1>10. ASSUME NEW k \in 0 .. 4, Sending(k) PROVE Panicking'
    <2>1. Sending(k)'
      BY <1>1, <1>2, <1>3, <1>6, <1>10 DEF Sending
    <2> QED BY <2>1 DEF Panicking
  <1>11. Leaving => Leaving'
    BY <1>1, <1>2, <1>3, <1>5, <1>6 DEF Leaving
  <1>12. Reporting => Reporting'
    BY <1>1, <1>2, <1>3, <1>5, <1>7 DEF Reporting
  <1>13. Ending => Ending'
    BY <1>1, <1>2, <1>3, <1>7, <1>8 DEF Ending
  <1> QED BY <1>9, <1>10, <1>11, <1>12, <1>13 DEF Panicking

-----------------------------------------------------------------------------
(* The inductive invariant: the room in the UART, the echo loop in one of  *)
(* its states, or a panic in one of its own.                               *)
ScreenInv ==
  /\ FifoRoom
  /\ mode \in {"up", "panic", "halted"}
  /\ mode = "up" => Echoing /\ said = <<>>
  /\ mode = "panic" => Panicking
  /\ mode = "halted" => Ended

LEMMA ScreenInvInit == Init => ScreenInv
  <1> SUFFICES ASSUME Init PROVE ScreenInv
    OBVIOUS
  <1>1. mode = "up" /\ said = <<>>
    BY DEF Init
  <1> QED BY <1>1, FifoRoomInit, EchoingInit DEF ScreenInv

(* The UART and the other writers, which leave the screen alone.           *)
LEMMA OthersKeep ==
  ASSUME ScreenInv, FifoRoom', UNCHANGED <<vga, todo, at, cell, mode, sheet, said>>
  PROVE  ScreenInv'
  <1>1. mode' = mode /\ said' = said
    OBVIOUS
  <1>2. CASE mode = "up"
    <2>1. Echoing'
      BY <1>2, EchoingStays DEF ScreenInv
    <2> QED BY <1>1, <1>2, <2>1 DEF ScreenInv
  <1>3. CASE mode # "up"
    <2>1. (Panicking => Panicking') /\ (Ended => Ended')
      BY PanicStays
    <2> QED BY <1>1, <1>3, <2>1 DEF ScreenInv
  <1> QED BY <1>2, <1>3

LEMMA ScreenInvNext ==
  ASSUME ScreenInv, [Next]_vars
  PROVE  ScreenInv'
  <1>1. FifoRoom'
    BY FifoRoomNext DEF ScreenInv
  <1>2. ASSUME NEW c \in Keys, Echo(c) PROVE ScreenInv'
    <2>1. mode = "up" /\ mode' = "up" /\ said' = said
      BY <1>2 DEF Echo, uart
    <2>2. Echoing'
      BY <1>2, <2>1, EchoNext DEF ScreenInv
    <2> QED BY <1>1, <2>1, <2>2 DEF ScreenInv
  <1>3. CASE Panic
    <2>1. mode = "up" /\ mode' = "panic"
      BY <1>3 DEF Panic
    <2>2. Panicking'
      BY <1>3, <2>1, PanicBegins DEF ScreenInv
    <2> QED BY <1>1, <2>1, <2>2 DEF ScreenInv
  <1>4. CASE Vga \/ TxReady \/ TxWrite
    <2>1. mode' = mode
      BY <1>4 DEF Vga, TxReady, TxWrite
    <2>2. CASE mode = "up"
      <3>1. said' = said
        BY <1>4, <2>2 DEF Vga, TxReady, TxWrite, uart, outb
      <3>2. Echoing'
        BY <1>4, <2>2, EchoingNext DEF ScreenInv
      <3> QED BY <1>1, <2>1, <2>2, <3>1, <3>2 DEF ScreenInv
    <2>3. CASE mode = "panic"
      <3>1. Panicking'
        BY <1>4, <2>3, PanickingNext DEF ScreenInv
      <3> QED BY <1>1, <2>1, <2>3, <3>1 DEF ScreenInv
    <2>4. CASE mode = "halted"
      BY <1>4, <2>4, EndedNext DEF ScreenInv
    <2> QED BY <2>2, <2>3, <2>4 DEF ScreenInv
  <1>5. CASE Halt
    <2>1. mode = "panic" /\ mode' = "halted" /\ todo = <<>> /\ UNCHANGED <<vga, todo, at, cell, said>>
      BY <1>5 DEF Halt, uart
    <2>2. Ended
      <3>1. Panicking
        BY <2>1 DEF ScreenInv
      <3>2. \A k \in 0 .. 7 : ~Left(k)
        <4> SUFFICES ASSUME NEW k \in 0 .. 7, Left(k) PROVE FALSE
          OBVIOUS
        <4>1. k \in 0 .. 8 /\ k # 8
          OBVIOUS
        <4> QED BY <2>1, <4>1, LeftNone
      <3>3. ~Left(5) /\ ~Left(6) /\ ~Left(7) /\ \A k \in 0 .. 4 : ~Left(k)
        BY <3>2
      <3> QED BY <3>1, <3>3 DEF Panicking, Sending, Leaving, Reporting, Ending
    <2>3. Ended'
      BY <2>1, <2>2, PanicStays
    <2> QED BY <1>1, <2>1, <2>3 DEF ScreenInv
  <1>6. CASE UartSends
    <2>1. UNCHANGED <<vga, todo, at, cell, mode, sheet, said>>
      BY <1>6 DEF UartSends
    <2> QED BY <1>1, <2>1, OthersKeep
  <1>7. CASE SysWrite
    <2>1. mode = "up" /\ outb("u") /\ UNCHANGED <<vga, todo, at, cell, mode, sheet>>
      BY <1>7 DEF SysWrite
    <2>2. said' = said
      BY <2>1 DEF outb
    <2> QED BY <1>1, <2>1, <2>2, OthersKeep
  <1>8. ASSUME NEW t \in Threads, LogLine(t) \/ LogReady(t) PROVE ScreenInv'
    <2>1. UNCHANGED <<vga, todo, at, cell, mode, sheet, said>>
      BY <1>8 DEF LogLine, LogReady, uart
    <2> QED BY <1>1, <2>1, OthersKeep
  <1>9. ASSUME NEW t \in Threads, LogWrite(t) PROVE ScreenInv'
    <2>1. mode = "up" /\ outb(Head(line[t])[2]) /\ UNCHANGED <<vga, todo, at, cell, mode, sheet>>
      BY <1>9 DEF LogWrite
    <2>2. said' = said
      BY <2>1 DEF outb
    <2> QED BY <1>1, <2>1, <2>2, OthersKeep
  <1>10. CASE UNCHANGED vars
    <2>1. UNCHANGED <<vga, todo, at, cell, mode, sheet, said>>
      BY <1>10 DEF vars, uart
    <2> QED BY <1>1, <2>1, OthersKeep
  <1> QED BY <1>2, <1>3, <1>4, <1>5, <1>6, <1>7, <1>8, <1>9, <1>10 DEF Next, Writer, Halted

LEMMA PanicTypes ==
  ASSUME Panicking \/ Ended
  PROVE  Grid /\ vga_cursor_y \in 0 .. VGA_HEIGHT + 1 /\ at \in {"start", "advance", "home", "scroll", "outb"}
  <1> DEFINE y == vga_cursor_y
             H == VGA_HEIGHT
  <1>0. H \in Nat /\ H >= 2
    BY Sizes
  <1>1. ASSUME NEW k \in 0 .. 4, Sending(k)
        PROVE  Grid /\ y \in 0 .. H + 1 /\ at \in {"start", "advance", "home", "scroll", "outb"}
    <2>1. Grid /\ y \in 0 .. H /\ at \in {"start", "outb"}
      BY <1>1 DEF Sending
    <2>2. y \in 0 .. H + 1
      BY <1>0, <2>1
    <2> QED BY <2>1, <2>2
  <1>2. CASE Leaving
    <2>1. Grid /\ at \in {"start", "home", "scroll"}
      BY <1>2 DEF Leaving
    <2>2. y \in 0 .. H \/ y \in 1 .. H + 1
      BY <1>2, <2>1 DEF Leaving
    <2>3. y \in 0 .. H + 1
      BY <1>0, <2>2
    <2> QED BY <2>1, <2>3
  <1>3. CASE Reporting \/ Ended
    <2>1. Grid /\ at \in {"start", "advance", "scroll"} /\ y \in 1 .. H - 1
      BY <1>3 DEF Reporting, Ended
    <2>2. y \in 0 .. H + 1
      BY <1>0, <2>1
    <2> QED BY <2>1, <2>2
  <1>4. CASE Ending
    <2>1. Grid /\ at \in {"start", "home", "scroll"}
      BY <1>4 DEF Ending
    <2>2. y \in 1 .. H - 1 \/ y \in 2 .. H
      BY <1>4, <2>1 DEF Ending
    <2>3. y \in 0 .. H + 1
      BY <1>0, <2>2
    <2> QED BY <2>1, <2>3
  <1> QED BY <1>1, <1>2, <1>3, <1>4 DEF Panicking

LEMMA ScreenInvTypes == ScreenInv => TypeOK
  <1> SUFFICES ASSUME ScreenInv PROVE TypeOK
    OBVIOUS
  <1>1. fifo \in 0 .. FIFO /\ ready \subseteq Threads /\ mode \in {"up", "panic", "halted"} /\ lost = FALSE
    BY DEF ScreenInv, FifoRoom
  <1>2. lost \in BOOLEAN
    BY <1>1, Zenon
  <1>3. CASE mode = "up"
    <2>1. Canvas /\ at \in {"start", "advance", "wrap", "down", "home", "scroll", "outb"}
      BY <1>3, EchoingBelow DEF ScreenInv
    <2>2. vga_cursor_y \in 0 .. VGA_HEIGHT + 1
      <3>1. vga_cursor_y \in 0 .. VGA_HEIGHT
        BY <2>1 DEF Canvas
      <3> QED BY <3>1, Sizes
    <2> QED BY <1>1, <1>2, <2>1, <2>2 DEF TypeOK, Canvas
  <1>4. CASE mode # "up"
    <2>1. Panicking \/ Ended
      BY <1>1, <1>4 DEF ScreenInv
    <2>2. Grid /\ vga_cursor_y \in 0 .. VGA_HEIGHT + 1 /\ at \in {"start", "advance", "home", "scroll", "outb"}
      BY <2>1, PanicTypes
    <2> QED BY <1>1, <1>2, <2>2 DEF TypeOK, Grid
  <1> QED BY <1>3, <1>4

LEMMA WindowShown == ScreenInv => ScreenIsWindow
  <1> SUFFICES ASSUME ScreenInv, mode = "up", todo = <<>>
               PROVE  /\ \A i \in 0 .. CELLS - 1 : screen[i] = paper[top * VGA_WIDTH + i]
                      /\ vga_cursor_x < VGA_WIDTH
                      /\ top * VGA_WIDTH + vga_cursor_y * VGA_WIDTH + vga_cursor_x = pos
    BY ScreenInvTypes DEF ScreenIsWindow
  <1>1. PICK p : Settled(p) /\ Same(p) /\ at = "start"
    BY NothingLeft DEF ScreenInv
  <1>2. /\ Sheet(p) /\ Canvas /\ CursorAt(p) /\ cell = 0 /\ Shown(p.paper, p.top)
        /\ paper = p.paper /\ pos = p.pos /\ top = p.top
    BY <1>1 DEF Settled, Still, Same
  <1>3. /\ p.top \in Nat /\ vga_cursor_y \in 0 .. VGA_HEIGHT - 1 /\ vga_cursor_x \in 0 .. VGA_WIDTH - 1
        /\ p.pos = Row(p.top + vga_cursor_y) + vga_cursor_x
    BY <1>2, OnSheet
  <1>4. top * VGA_WIDTH = Row(p.top) /\ vga_cursor_y * VGA_WIDTH = Row(vga_cursor_y)
    BY <1>2 DEF Row
  <1>5. ASSUME NEW i \in 0 .. CELLS - 1 PROVE screen[i] = paper[Row(p.top) + i]
    <2>1. i >= cell
      BY <1>2
    <2> QED BY <1>2, <2>1 DEF Shown
  <1>6. p.pos = Row(p.top) + Row(vga_cursor_y) + vga_cursor_x
    <2>1. vga_cursor_y \in Nat /\ vga_cursor_x \in Nat
      BY <1>3, Sizes
    <2>2. Row(p.top + vga_cursor_y) = Row(p.top) + Row(vga_cursor_y)
      BY <1>3, <2>1, RowIs
    <2> QED BY <1>3, <2>2
  <1>7. vga_cursor_x < VGA_WIDTH
    BY <1>2 DEF CursorAt
  <1> QED BY <1>2, <1>4, <1>5, <1>6, <1>7

LEMMA ReportShown == ScreenInv => PanicReadable
  <1> SUFFICES ASSUME Ended PROVE PanicReadable
    BY DEF ScreenInv, PanicReadable
  <1>1. /\ Said(5) /\ vga_cursor_x = 0 /\ vga_cursor_y \in 1 .. VGA_HEIGHT - 1
        /\ Reported(Row(vga_cursor_y - 1))
    BY DEF Ended
  <1> DEFINE r == (vga_cursor_y - 1) * VGA_WIDTH
             m == <<"\r", "\n", "P", "\r", "\n">>
  <1>2. vga_cursor_y > 0 /\ r = Row(vga_cursor_y - 1) /\ Row(vga_cursor_y - 1) \in Nat
    <2>1. vga_cursor_y - 1 \in 0 .. VGA_HEIGHT /\ vga_cursor_y > 0
      BY <1>1, Sizes
    <2> QED BY <2>1, ScreenRows DEF Row
  <1> HIDE DEF r
  <1>3. \A i \in r .. CELLS - 1 : screen[i] = IF i = r THEN "P" ELSE " "
    <2> TAKE i \in r .. CELLS - 1
    <2>1. CELLS \in Nat /\ r \in Nat
      BY <1>2, ScreenRows
    <2>2. i \in 0 .. CELLS - 1 /\ i >= r
      BY <2>1
    <2> QED BY <1>1, <1>2, <2>2 DEF Reported
  <1>4. said = m
    <2>1. IsSequence(said) /\ Len(said) = 5 /\ \A i \in 1 .. 5 : said[i] = PanicOp(i)[2]
      BY <1>1 DEF Said
    <2>2. m \in Seq({"\r", "\n", "P"}) /\ Len(m) = 5 /\ m[1] = "\r" /\ m[2] = "\n" /\ m[3] = "P" /\ m[4] = "\r" /\ m[5] = "\n"
      OBVIOUS
    <2> HIDE DEF m
    <2>3. said[1] = m[1] /\ said[2] = m[2] /\ said[3] = m[3] /\ said[4] = m[4] /\ said[5] = m[5]
      BY <2>1, <2>2, PanicKinds
    <2>4. \A k \in 1 .. 5 : said[k] = m[k]
      <3> TAKE k \in 1 .. 5
      <3>1. k = 1 \/ k = 2 \/ k = 3 \/ k = 4 \/ k = 5
        OBVIOUS
      <3> QED BY <2>3, <3>1, Zenon
    <2>5. IsSequence(m)
      BY <2>2 DEF IsSequence
    <2> QED BY <2>1, <2>2, <2>4, <2>5, SameElements
  <1> QED BY <1>1, <1>2, <1>3, <1>4 DEF PanicReadable, r

(* Cursor, cells and scroll of kprintc stay in the ranges of their C types,*)
(* the FIFO of the UART within its size.                                   *)
THEOREM TypeCorrect == Spec => []TypeOK
  BY ScreenInvInit, ScreenInvNext, ScreenInvTypes, PTL DEF Spec

(* Between keys the screen is the window on what was typed, for every size *)
(* of the screen: no sequence of characters, newlines and backspaces, with *)
(* the wraps and scrolls of kprintc store by store, loses or misplaces one.*)
THEOREM ScreenFollows == Spec => []ScreenIsWindow
  BY ScreenInvInit, ScreenInvNext, WindowShown, PTL DEF Spec

(* The report of a panic stands alone on its row and below, and reaches the*)
(* serial port whole, wherever it stopped the echo loop.                   *)
THEOREM PanicIsReadable == Spec => []PanicReadable
  BY ScreenInvInit, ScreenInvNext, ReportShown, PTL DEF Spec
=============================================================================
