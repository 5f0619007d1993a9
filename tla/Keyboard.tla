------------------------------ MODULE Keyboard ------------------------------
(***************************************************************************)
(* The PS/2 keyboard driver (src/src/drivers/keyboard.c) and its reader,   *)
(* the echo loop at the end of kernel_main.  keyboard_irq_handler runs with*)
(* interrupts off and is one action; the loop runs with interrupts on and  *)
(* is divided where a handler can come in between.  The boot task may be   *)
(* preempted at any of these points, which changes nothing here.           *)
(*                                                                         *)
(* The handler sees bytes, not keys: an E0 prefix is taken for the release *)
(* of an unmapped key and ignored, and the byte after it for that of the   *)
(* main keyboard.  So both ctrl keys are 0x1D and both alt keys 0x38, and  *)
(* the shift codes a keyboard makes up around its navigation keys (E0 2A,  *)
(* E0 AA, E0 36, E0 B6) set and clear the shift flags like the real keys.  *)
(* A modifier's byte may therefore arrive in any order and number.         *)
(***************************************************************************)
EXTENDS SequencesExt

CONSTANTS
  KBD_BUFFER_SIZE,
  Letters,       \* keys with an entry in scancode_ascii and scancode_shift
  Specials,      \* backspace, enter and tab: the same character either way
  Modifiers      \* the modifiers whose bytes arrive

ASSUME KeyboardAssumption ==
  /\ KBD_BUFFER_SIZE \in Nat /\ KBD_BUFFER_SIZE >= 2
  /\ Modifiers \subseteq {"lshift", "rshift", "ctrl", "alt"}

(* A character: the key, and whether it was looked up in scancode_shift.   *)
Chars == (Letters \X BOOLEAN) \cup (Specials \X {FALSE})
None == <<>>
Slot == 0 .. KBD_BUFFER_SIZE - 1

VARIABLES
  kbd_buffer, kbd_head, kbd_tail,
  kbd_lshift, kbd_rshift, kbd_ctrl, kbd_alt,
  pc,      \* the echo loop: "check", "read", "advance", "echo" or "hlt"
  c,       \* the character keyboard_getchar holds or has returned
  typed    \* auxiliary: the number of characters typed so far, modulo 2

kbd   == <<kbd_buffer, kbd_head, kbd_tail>>
mods  == <<kbd_lshift, kbd_rshift, kbd_ctrl, kbd_alt>>
loop  == <<pc, c>>
vars  == <<kbd, mods, loop, typed>>

Init ==
  /\ kbd_buffer = [i \in Slot |-> None]
  /\ kbd_head = 0 /\ kbd_tail = 0
  /\ kbd_lshift = FALSE /\ kbd_rshift = FALSE /\ kbd_ctrl = FALSE /\ kbd_alt = FALSE
  /\ pc = "check" /\ c = None
  /\ typed = 0

-----------------------------------------------------------------------------
MutNoWrap(i) == i + 1
Succ(i) == (i + 1) % KBD_BUFFER_SIZE

MutPushWhenFull(ch) ==
  /\ kbd_buffer' = [kbd_buffer EXCEPT ![kbd_head] = ch]
  /\ kbd_head' = Succ(kbd_head)
  /\ UNCHANGED kbd_tail
MutDropEarly(ch) ==
  IF Succ(Succ(kbd_head)) # kbd_tail
  THEN /\ kbd_buffer' = [kbd_buffer EXCEPT ![kbd_head] = ch]
       /\ kbd_head' = Succ(kbd_head)
       /\ UNCHANGED kbd_tail
  ELSE UNCHANGED kbd
kbd_buffer_push(ch) ==
  IF Succ(kbd_head) # kbd_tail
  THEN /\ kbd_buffer' = [kbd_buffer EXCEPT ![kbd_head] = ch]
       /\ kbd_head' = Succ(kbd_head)
       /\ UNCHANGED kbd_tail
  ELSE UNCHANGED kbd

(* The character a mapped key stands for.                                  *)
Translate(k) ==
  <<k, k \in Letters /\ (kbd_lshift \/ kbd_rshift)>>

(* An interrupt ends a hlt of the CPU.                                     *)
Wakes == pc' = IF pc = "hlt" THEN "check" ELSE pc

(* keyboard_irq_handler on the make code of a mapped key, or its repeat.   *)
KeyDown(k) ==
  /\ kbd_buffer_push(Translate(k))
  /\ typed' = 1 - typed
  /\ Wakes
  /\ UNCHANGED <<mods, c>>

(* ... on a make code (down) or break code of a modifier ...               *)
Modifier(k, down) ==
  /\ kbd_lshift' = IF k = "lshift" THEN down ELSE kbd_lshift
  /\ kbd_rshift' = IF k = "rshift" THEN down ELSE kbd_rshift
  /\ kbd_ctrl' = IF k = "ctrl" THEN down ELSE kbd_ctrl
  /\ kbd_alt' = IF k = "alt" THEN down ELSE kbd_alt
  /\ Wakes
  /\ UNCHANGED <<kbd, c, typed>>

(* ... and on the break code of another key, an unmapped key or an E0 byte.*)
Ignored ==
  /\ Wakes
  /\ UNCHANGED <<kbd, mods, c, typed>>

-----------------------------------------------------------------------------
(* keyboard_has_key.                                                       *)
HasKey ==
  /\ pc = "check"
  /\ pc' = IF kbd_head # kbd_tail THEN "read" ELSE "hlt"
  /\ UNCHANGED <<kbd, mods, c, typed>>

(* keyboard_getchar: the test for an empty buffer and the load ...         *)
ReadTail == kbd_buffer[kbd_tail]

GetCharRead ==
  /\ pc = "read"
  /\ IF kbd_head = kbd_tail
     THEN c' = None /\ pc' = "hlt"
     ELSE c' = ReadTail /\ pc' = "advance"
  /\ UNCHANGED <<kbd, mods, typed>>

(* ... and the store to kbd_tail.                                          *)
GetCharAdvance ==
  /\ pc = "advance"
  /\ kbd_tail' = Succ(kbd_tail)
  /\ pc' = "echo"
  /\ UNCHANGED <<kbd_buffer, kbd_head, mods, c, typed>>

(* The character goes to VGA and serial; then the loop halts.              *)
EchoChar ==
  /\ pc = "echo"
  /\ c' = None
  /\ pc' = "hlt"
  /\ UNCHANGED <<kbd, mods, typed>>

(* A timer tick ends the hlt (the boot task's turn comes: module Task).    *)
MutTickNoWake == pc = "hlt" /\ FALSE /\ UNCHANGED vars   \* IRQ0 left masked
TickWakes ==
  /\ pc = "hlt"
  /\ pc' = "check"
  /\ UNCHANGED <<kbd, mods, c, typed>>

EchoLoop == HasKey \/ GetCharRead \/ GetCharAdvance \/ EchoChar

Next ==
  \/ \E k \in Letters \cup Specials : KeyDown(k)
  \/ \E k \in Modifiers : Modifier(k, TRUE) \/ Modifier(k, FALSE)
  \/ Ignored
  \/ EchoLoop \/ TickWakes

Spec == Init /\ [][Next]_vars

(* The boot task is scheduled again and again, and the timer keeps ticking:*)
(* Task!StarvationFree, as long as the machine is up and no program got    *)
(* into ring 3 with interrupts off.                                        *)
FairSpec == Spec /\ WF_vars(EchoLoop) /\ WF_vars(TickWakes)

-----------------------------------------------------------------------------
(* Every variable has its type.                                            *)
TypeOK ==
  /\ kbd_buffer \in [Slot -> Chars \cup {None}]
  /\ kbd_head \in Slot /\ kbd_tail \in Slot
  /\ mods \in BOOLEAN \X BOOLEAN \X BOOLEAN \X BOOLEAN
  /\ pc \in {"check", "read", "advance", "echo", "hlt"}
  /\ c \in Chars \cup {None}
  /\ typed \in {0, 1}

(* The buffer as a queue: the slots from kbd_tail up to kbd_head.          *)
Length == (kbd_head - kbd_tail) % KBD_BUFFER_SIZE
Queue == [i \in 1 .. Length |-> kbd_buffer[(kbd_tail + i - 1) % KBD_BUFFER_SIZE]]

(* The ring buffer and the echo loop implement KeyQueue, with interrupts   *)
(* between any two steps of the loop: characters come out in the order they*)
(* were typed, none twice and none out of the slot an interrupt is filling.*)
(* Every character typed goes into the queue unless the buffer is full: one*)
(* slot stays empty, so a buffer of size n is full with n - 1.             *)
KQ == INSTANCE KeyQueue WITH Capacity <- KBD_BUFFER_SIZE - 1, queue <- Queue,
                             out <- IF pc = "echo" THEN c ELSE None
ImplementsKeyQueue == KQ!Spec

(* A character in the buffer is echoed, even one that arrives between the  *)
(* loop's test for a key and its hlt.                                      *)
KeyEchoed ==
  \A i \in Slot : (kbd_tail = i /\ kbd_head # i) ~> kbd_tail # i
=============================================================================
