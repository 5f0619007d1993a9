------------------------------ MODULE Console ------------------------------
(***************************************************************************)
(* What the kernel shows after its sti: the VGA text screen (vga.c), which *)
(* the echo loop of kernel_main writes, and the serial port (serial.h),    *)
(* where the echo loop and the logging kernel threads (log.c) meet.  A CPU *)
(* exception, or kpanic, takes both over for good, wherever the others are.*)
(*                                                                         *)
(* kprintc and serial_putc run with interrupts on and are divided at their *)
(* stores, in source order.  The writer of the screen, the echo loop or a  *)
(* panic, is a sequence of operations still to do.  The branches of kprintc*)
(* for '\r' and '\t' have no caller and are left out.                      *)
(***************************************************************************)
EXTENDS SequencesExt

CONSTANTS
  VGA_WIDTH, VGA_HEIGHT,
  FIFO,          \* bytes the UART holds (16)
  Threads,       \* kernel threads that log
  ROWS           \* bound: rows of text ever typed

CELLS == VGA_WIDTH * VGA_HEIGHT

(* The cursor is two uint8_t, which reach one more than the last column and*)
(* two more than the last row.                                             *)
ASSUME ConsoleAssumption ==
  /\ VGA_WIDTH \in 2 .. 255
  /\ VGA_HEIGHT \in 2 .. 254
  /\ ROWS \in Nat /\ ROWS >= VGA_HEIGHT
  /\ IsFiniteSet(Threads)
  /\ FIFO \in Nat /\ FIFO >= Cardinality(Threads) + 2

VARIABLES
  screen, vga_cursor_x, vga_cursor_y,
  todo,          \* operations the writer of the screen has left
  at,            \* where it is in the first of them
  cell,          \* the next cell a scroll writes
  fifo,          \* bytes in the UART
  lost,          \* has the UART ever dropped a byte
  line,          \* what each thread has left of its line
  ready,         \* the threads that saw the UART ready and have not written
  mode,          \* "up", "panic", "halted"
  said,          \* what reached the UART since the panic
  paper, pos, top   \* reference: all cells ever typed, as one endless sheet,
                    \* the next to type, and the first row the screen shows

vga == <<screen, vga_cursor_x, vga_cursor_y>>
uart == <<fifo, lost, said>>
log == <<line, ready>>
sheet == <<paper, pos, top>>
vars == <<vga, todo, at, cell, uart, log, mode, sheet>>

(* Operations: a kprintc, the cursor moves of vga_backspace, a serial_putc.*)
Show(c) == <<"show", c>>
StepBack == <<"step back">>
Again    == <<"again">>
Tx(b)    == <<"tx", b>>
kprint(str) == [i \in DOMAIN str |-> Show(str[i])]
serial_puts(str) ==
  FlattenSeq([i \in DOMAIN str |-> IF str[i] = "\n" THEN <<Tx("\r"), Tx("\n")>> ELSE <<Tx(str[i])>>])

min_level == 0                  \* LOG_DEBUG
klog(level, msg) ==
  IF level < min_level THEN <<>>
  ELSE serial_puts(<<"[">>) \o serial_puts(<<"L">>) \o serial_puts(<<"]">>) \o serial_puts(msg)

-----------------------------------------------------------------------------
(* The reference: where typing a character, a newline or a backspace leaves*)
(* the sheet.  The screen follows when the cursor would leave it.          *)
TypeOn(p, c) ==
  LET at1 == IF c = "\n" THEN (p.pos \div VGA_WIDTH + 1) * VGA_WIDTH ELSE p.pos + 1
  IN  [paper |-> IF c = "\n" THEN p.paper ELSE [p.paper EXCEPT ![p.pos] = c],
       pos |-> at1,
       top |-> Max({p.top, at1 \div VGA_WIDTH - VGA_HEIGHT + 1})]
Erase(p) ==
  IF p.pos = p.top * VGA_WIDTH THEN p
  ELSE [p EXCEPT !.paper[p.pos - 1] = " ", !.pos = @ - 1]

TypePrompt(p) == TypeOn(TypeOn(p, "\n"), ">")
Blank == [i \in 0 .. (ROWS + 1) * VGA_WIDTH |-> " "]

Prompt == <<"\n", ">">>

(* khello_init, then the first prompt, printed after the sti.              *)
Init ==
  LET now == TypePrompt([paper |-> Blank, pos |-> 0, top |-> 0])
  IN  /\ screen = [i \in 0 .. CELLS - 1 |-> " "]
      /\ vga_cursor_x = 0 /\ vga_cursor_y = 0
      /\ todo = kprint(Prompt) /\ at = "start" /\ cell = 0
      /\ fifo = 0 /\ lost = FALSE /\ said = <<>>
      /\ line = [t \in Threads |-> <<>>] /\ ready = {}
      /\ mode = "up"
      /\ paper = now.paper /\ pos = now.pos /\ top = now.top

(* The body of the echo loop for a character it has read.                  *)
Keys == {"a", "\n", "bs", "\t"}
EchoOps(c) ==
  CASE c = "bs" -> <<StepBack, Show(" "), Again>>
    [] c = "\n" -> kprint(Prompt)
    [] c = "a"  -> kprint(<<c>>)
    [] OTHER    -> <<>>

Echo(c) ==
  LET now == [paper |-> paper, pos |-> pos, top |-> top]
      new == CASE c = "bs" -> Erase(now)
               [] c = "\n" -> TypePrompt(now)
               [] c = "a"  -> TypeOn(now, c)
               [] OTHER    -> now
  IN  /\ mode = "up" /\ todo = <<>>
      /\ pos \div VGA_WIDTH < ROWS - 1
      /\ todo' = EchoOps(c) \o <<Tx(c)>>
      /\ paper' = new.paper /\ pos' = new.pos /\ top' = new.top
      /\ UNCHANGED <<vga, at, cell, uart, log, mode>>

(* isr_handler_c for an exception of the user task, and kpanic: with       *)
(* interrupts off for good, first all of the serial text, then the screen. *)
Report == <<"\n", "P", "\n">>
PanicOps == serial_puts(Report) \o kprint(Report)
Panic ==
  /\ mode = "up"
  /\ mode' = "panic"
  /\ todo' = PanicOps /\ at' = "start" /\ cell' = 0
  /\ UNCHANGED <<vga, uart, log, sheet>>

Halt ==
  /\ mode = "panic" /\ todo = <<>>
  /\ mode' = "halted"
  /\ UNCHANGED <<vga, todo, at, cell, uart, log, sheet>>

-----------------------------------------------------------------------------
Doing(kind) == todo # <<>> /\ Head(todo)[1] = kind
Done == todo' = Tail(todo) /\ at' = "start"
Goto(place) == at' = place /\ UNCHANGED todo

(* kprintc, store by store.                                                *)
kprintc ==
  /\ Doing("show") /\ at = "start"
  /\ LET c == Head(todo)[2]
         idx == vga_cursor_y * VGA_WIDTH + vga_cursor_x
     IN  IF c = "\n"
         THEN vga_cursor_y' = vga_cursor_y + 1 /\ UNCHANGED screen /\ Goto("home")
         ELSE /\ screen' = IF idx < CELLS THEN [screen EXCEPT ![idx] = c] ELSE screen
              /\ UNCHANGED vga_cursor_y
              /\ Goto("advance")
  /\ UNCHANGED <<vga_cursor_x, cell>>

MutNoWrap == at = "advance" /\ vga_cursor_x' = vga_cursor_x + 1 /\ Goto("scroll")
             /\ UNCHANGED <<screen, vga_cursor_y, cell>>
Advance ==
  /\ at = "advance"
  /\ vga_cursor_x' = vga_cursor_x + 1
  /\ Goto(IF vga_cursor_x' >= VGA_WIDTH THEN "wrap" ELSE "scroll")
  /\ UNCHANGED <<screen, vga_cursor_y, cell>>

Wrap ==
  /\ at = "wrap"
  /\ vga_cursor_x' = 0
  /\ Goto("down")
  /\ UNCHANGED <<screen, vga_cursor_y, cell>>

Down ==
  /\ at = "down"
  /\ vga_cursor_y' = vga_cursor_y + 1
  /\ Goto("scroll")
  /\ UNCHANGED <<screen, vga_cursor_x, cell>>

MutNewlineKeepsColumn == at = "home" /\ Goto("scroll") /\ UNCHANGED <<vga, cell>>
Home ==
  /\ at = "home"
  /\ vga_cursor_x' = 0
  /\ Goto("scroll")
  /\ UNCHANGED <<screen, vga_cursor_y, cell>>

(* The scroll: every row copied up, the last one cleared, cell by cell.    *)
ScrollCell ==
  /\ at = "scroll" /\ vga_cursor_y >= VGA_HEIGHT /\ cell < CELLS
  /\ screen' = [screen EXCEPT ![cell] = IF cell < CELLS - VGA_WIDTH
                                        THEN screen[cell + VGA_WIDTH] ELSE " "]
  /\ cell' = cell + 1
  /\ UNCHANGED <<vga_cursor_x, vga_cursor_y, todo, at>>

ScrollEnd ==
  /\ at = "scroll" /\ (vga_cursor_y >= VGA_HEIGHT => cell = CELLS)
  /\ vga_cursor_y' = IF vga_cursor_y >= VGA_HEIGHT THEN VGA_HEIGHT - 1 ELSE vga_cursor_y
  /\ cell' = 0
  /\ Done
  /\ UNCHANGED <<screen, vga_cursor_x>>

(* vga_backspace: a step back, which returns early at the top left; then   *)
(* its kprintc, and another step back.                                     *)
CursorBack ==
  IF vga_cursor_x = 0
  THEN vga_cursor_x' = VGA_WIDTH - 1 /\ vga_cursor_y' = (vga_cursor_y - 1) % 256
  ELSE vga_cursor_x' = vga_cursor_x - 1 /\ UNCHANGED vga_cursor_y

vga_backspace ==
  /\ Doing("step back")
  /\ IF vga_cursor_x = 0 /\ vga_cursor_y = 0
     THEN todo' = SubSeq(todo, 4, Len(todo)) /\ UNCHANGED <<vga_cursor_x, vga_cursor_y>>
     ELSE todo' = Tail(todo) /\ CursorBack
  /\ UNCHANGED <<screen, at, cell>>

BackAgain ==
  /\ Doing("again")
  /\ CursorBack
  /\ todo' = Tail(todo)
  /\ UNCHANGED <<screen, at, cell>>

Vga ==
  /\ kprintc \/ Advance \/ Wrap \/ Down \/ Home \/ ScrollCell \/ ScrollEnd
     \/ vga_backspace \/ BackAgain
  /\ UNCHANGED <<uart, log, mode, sheet>>

-----------------------------------------------------------------------------
(* The UART: THRE says that its FIFO is empty.  A byte too many is dropped.*)
MutAlwaysReady == TRUE
MutReadyWhenFull == fifo # 0
serial_tx_ready == fifo = 0

outb(b) ==
  /\ fifo' = IF fifo < FIFO THEN fifo + 1 ELSE fifo
  /\ lost' = (lost \/ fifo = FIFO)
  /\ said' = IF mode = "panic" /\ fifo < FIFO THEN Append(said, b) ELSE said

UartSends ==
  /\ fifo > 0
  /\ fifo' = fifo - 1
  /\ UNCHANGED <<vga, todo, at, cell, lost, said, log, mode, sheet>>

(* serial_putc by the echo loop or a panic.                                *)
TxReady ==
  /\ Doing("tx") /\ at = "start"
  /\ serial_tx_ready
  /\ Goto("outb")
  /\ UNCHANGED <<vga, cell, uart, log, mode, sheet>>
TxWrite ==
  /\ Doing("tx") /\ at = "outb"
  /\ outb(Head(todo)[2])
  /\ Done
  /\ UNCHANGED <<vga, cell, log, mode, sheet>>

(* thread_a and thread_b: a line for the log, then a busy loop.            *)
LogLine(t) ==
  /\ mode = "up" /\ line[t] = <<>>
  /\ line' = [line EXCEPT ![t] = klog(1, <<"m", "\n">>)]
  /\ UNCHANGED <<vga, todo, at, cell, uart, ready, mode, sheet>>
LogReady(t) ==
  /\ mode = "up" /\ line[t] # <<>> /\ t \notin ready
  /\ serial_tx_ready
  /\ ready' = ready \cup {t}
  /\ UNCHANGED <<vga, todo, at, cell, uart, line, mode, sheet>>
LogWrite(t) ==
  /\ mode = "up" /\ t \in ready
  /\ outb(Head(line[t])[2])
  /\ line' = [line EXCEPT ![t] = Tail(@)]
  /\ ready' = ready \ {t}
  /\ UNCHANGED <<vga, todo, at, cell, mode, sheet>>

(* sys_write of a user program, a byte at a time with interrupts off.      *)
SysWrite ==
  /\ mode = "up" /\ serial_tx_ready
  /\ outb("u")
  /\ UNCHANGED <<vga, todo, at, cell, log, mode, sheet>>

Halted == mode = "halted" /\ UNCHANGED vars

Writer == Vga \/ TxReady \/ TxWrite \/ Halt

Next ==
  \/ \E c \in Keys : Echo(c)
  \/ Panic
  \/ Writer
  \/ UartSends
  \/ SysWrite
  \/ \E t \in Threads : LogLine(t) \/ LogReady(t) \/ LogWrite(t)
  \/ Halted

Spec == Init /\ [][Next]_vars

(* The UART sends what it holds; every task gets its turns (module Task),  *)
(* of 10 ms each, in which the UART sends all it holds while nobody else   *)
(* writes: a task that polls finds it empty again and again.               *)
Fairness ==
  /\ WF_vars(UartSends) /\ SF_vars(Writer)
  /\ \A t \in Threads : SF_vars(LogReady(t)) /\ WF_vars(LogWrite(t))
FairSpec == Spec /\ Fairness

-----------------------------------------------------------------------------
(* Every variable has its type.                                            *)
TypeOK ==
  /\ DOMAIN screen = 0 .. CELLS - 1
  /\ vga_cursor_x \in 0 .. VGA_WIDTH /\ vga_cursor_y \in 0 .. VGA_HEIGHT + 1
  /\ at \in {"start", "advance", "wrap", "down", "home", "scroll", "outb"}
  /\ cell \in 0 .. CELLS
  /\ fifo \in 0 .. FIFO /\ lost \in BOOLEAN
  /\ ready \subseteq Threads
  /\ mode \in {"up", "panic", "halted"}

(* Between keys the screen is the window on the sheet: wrapping, scrolling,*)
(* prompts, and backspaces over line ends and back into lines that moved up*)
(* all leave every typed cell where it belongs, and the cursor too.        *)
ScreenIsWindow ==
  /\ TypeOK
  /\ mode = "up" /\ todo = <<>> =>
    /\ \A i \in 0 .. CELLS - 1 : screen[i] = paper[top * VGA_WIDTH + i]
    /\ vga_cursor_x < VGA_WIDTH
    /\ top * VGA_WIDTH + vga_cursor_y * VGA_WIDTH + vga_cursor_x = pos

(* A panic is readable wherever it stopped the echo loop, in the middle of *)
(* a wrap or a scroll included: its text stands on a row of its own above  *)
(* the cursor, nothing else in that row or below, and reached the serial   *)
(* port complete and without a byte of anybody else.                       *)
PanicReadable ==
  mode = "halted" =>
    /\ vga_cursor_x = 0 /\ vga_cursor_y > 0
    /\ \A i \in (vga_cursor_y - 1) * VGA_WIDTH .. CELLS - 1 :
         screen[i] = IF i = (vga_cursor_y - 1) * VGA_WIDTH THEN "P" ELSE " "
    /\ said = <<"\r", "\n", "P", "\r", "\n">>

(* The UART drops no byte, although every writer may be preempted between  *)
(* its look at the status and its write.                                   *)
NoByteLost == ~lost

(* A line that a thread has begun ends, and so does the echo of a key,     *)
(* unless the machine panics; a panic comes to its end.                    *)
OutputEnds ==
  /\ \A t \in Threads : line[t] # <<>> ~> (line[t] = <<>> \/ mode # "up")
  /\ todo # <<>> ~> todo = <<>>
=============================================================================
