--------------------------------- MODULE Ps2 --------------------------------
(***************************************************************************)
(* The i8042 controller's two polling drivers: keyboard.rs and ps2mouse.rs. *)
(*                                                                         *)
(* Both read the one output queue of the controller, in which the bytes of *)
(* the keyboard and of the mouse (the AUX bit) are mixed; whoever reads a   *)
(* byte takes it away.  A scan code is the prefix E0, a Meta key, a press   *)
(* or a release of Shift, a release of another key, or the press of a key   *)
(* with a character, which is its number among the presses: which of its    *)
(* two characters it stands for, SHIFT, is left out.  Of a mouse byte only  *)
(* the synchronisation bit matters.                                         *)
(***************************************************************************)
EXTENDS Naturals, Sequences, FiniteSets

CONSTANTS
  KEYBUF_SIZE,     \* 256
  RETRY_INTERVAL,  \* 300
  QUEUE            \* bytes the controller holds; below the 16 that a poll reads

ASSUME Ps2Assumption ==
  KEYBUF_SIZE \in Nat \ {0, 1} /\ RETRY_INTERVAL \in Nat \ {0} /\ QUEUE \in 1..16

VARIABLES
  queue,           \* the controller's output queue
  KEYBUF,          \* the ring of characters, the oldest first
  EXTENDED,
  mouse,           \* INIT_DONE, INIT_FAILED, RETRY_TICKS, MOUSE_ENABLED, PACKET_BUF
  typed,           \* history: the number of keys pressed since keyboard::init
  read,            \* history: what read_key returned since then
  plain            \* history: no E0, no byte taken by the mouse, no full ring or queue

ps2Vars == <<queue, KEYBUF, EXTENDED, mouse, typed, read, plain>>
kbdVars == <<KEYBUF, EXTENDED, read>>

Key(n) == [aux |-> FALSE, code |-> "key", n |-> n]
ScanCode(c) == [aux |-> FALSE, code |-> c, n |-> 0]
MouseByte(c) == [aux |-> TRUE, code |-> c, n |-> 0]
Meta == 0          \* KEY_META; keys are numbered from 1

IsKey(b) == b.code = "key"

-----------------------------------------------------------------------------
(* The devices *)

(* External: a byte joins the queue, or is lost when it is full *)
Enqueue(b) == queue' = IF Len(queue) < QUEUE THEN Append(queue, b) ELSE queue

(* A key with a character is pressed *)
PressKey ==
  /\ typed' = typed + 1
  /\ Enqueue(Key(typed + 1))
  /\ plain' = (plain /\ Len(queue) < QUEUE)
  /\ UNCHANGED <<kbdVars, mouse>>

(* Any other scan code *)
OtherCode ==
  /\ \E c \in {"e0", "meta", "shift", "release"} :
       /\ Enqueue(ScanCode(c))
       /\ plain' = (plain /\ c # "e0")
  /\ UNCHANGED <<kbdVars, mouse, typed>>

(* The mouse sends a byte *)
MouseMoves ==
  /\ mouse.done
  /\ \E c \in {"sync", "data"} : Enqueue(MouseByte(c))
  /\ UNCHANGED <<kbdVars, mouse, typed, plain>>

-----------------------------------------------------------------------------
(* keyboard.rs *)

(* Mutant: a full ring gives up its oldest character *)
PushBufOldest(k, ch) ==
  [k EXCEPT !.buf = IF Len(@) < KEYBUF_SIZE - 1 THEN Append(@, ch) ELSE Append(Tail(@), ch)]

(* push_buf: dropped when the ring is full *)
PushBuf(k, ch) ==
  IF Len(k.buf) < KEYBUF_SIZE - 1 THEN [k EXCEPT !.buf = Append(@, ch)] ELSE [k EXCEPT !.full = TRUE]

(* handle_scancode.  A Meta key and Shift leave EXTENDED as it was. *)
HandleScancode(k, b) ==
  CASE b.code = "e0"      -> [k EXCEPT !.ext = TRUE]
    [] b.code = "meta"    -> PushBuf(k, Meta)
    [] b.code = "shift"   -> k
    [] b.code = "release" \/ (IsKey(b) /\ k.ext) -> [k EXCEPT !.ext = FALSE]
    [] IsKey(b) /\ ~k.ext -> PushBuf(k, b.n)

(* poll: every byte of the queue; those of the mouse are thrown away *)
Poll(bytes, k) ==
  LET poll[i \in 0 .. Len(bytes)] ==
        IF i = 0 THEN k
        ELSE IF bytes[i].aux THEN poll[i - 1]
        ELSE HandleScancode(poll[i - 1], bytes[i])
  IN  poll[Len(bytes)]

(* keyboard::init *)
KeyboardInit ==
  /\ KEYBUF' = <<>> /\ EXTENDED' = FALSE
  /\ queue' = <<>>
  /\ typed' = 0 /\ read' = <<>> /\ plain' = TRUE
  /\ UNCHANGED mouse

(* keyboard::poll, and read_key until the ring is empty.  read_key polls     *)
(* again each time; what arrives meanwhile comes with the next poll.         *)
ReadKeys ==
  LET k == Poll(queue, [buf |-> KEYBUF, ext |-> EXTENDED, full |-> FALSE])
  IN  /\ queue' = <<>>
      /\ KEYBUF' = <<>> /\ EXTENDED' = k.ext
      /\ read' = read \o k.buf
      /\ plain' = (plain /\ ~k.full)
      /\ UNCHANGED <<mouse, typed>>

(* One keyboard::read_key, as installer::wait_key and the games call it *)
ReadKey ==
  LET k == Poll(queue, [buf |-> KEYBUF, ext |-> EXTENDED, full |-> FALSE])
  IN  /\ k.buf # <<>>
      /\ queue' = <<>>
      /\ KEYBUF' = Tail(k.buf) /\ EXTENDED' = k.ext
      /\ read' = Append(read, Head(k.buf))
      /\ plain' = (plain /\ ~k.full)
      /\ UNCHANGED <<mouse, typed>>

-----------------------------------------------------------------------------
(* ps2mouse.rs *)

(* What the mouse takes from the queue is lost to the keyboard *)
Taken(bytes) == plain' = (plain /\ \A i \in DOMAIN bytes : ~IsKey(bytes[i]))

(* init: drain, configure, and wait for two acknowledgements, reading every  *)
(* byte that comes.  Without a mouse both waits run out.                     *)
MouseInit(m, answers) ==
  IF m.done \/ m.failed THEN m
  ELSE IF answers THEN [m EXCEPT !.done = TRUE, !.packet = <<>>]
  ELSE [m EXCEPT !.failed = TRUE, !.retry = 0]

(* One auxiliary byte.  A packet whose first byte lacks the bit moves up by  *)
(* one byte, or is dropped at the third time in one poll.                    *)
MouseByteRead(p, b) ==
  LET buf == Append(p.packet, b.code)
  IN  IF Len(buf) < 3 THEN [p EXCEPT !.packet = buf]
      ELSE IF buf[1] = "sync" THEN [p EXCEPT !.packet = <<>>]
      ELSE IF p.desyncs + 1 >= 3 THEN [p EXCEPT !.packet = <<>>, !.desyncs = @ + 1]
      ELSE [p EXCEPT !.packet = Tail(buf), !.desyncs = @ + 1]

(* poll of an initialised mouse; the bytes of the keyboard are read, too, and *)
(* skipped                                                                    *)
MouseRead(m) ==
  LET p[i \in 0 .. Len(queue)] ==
        IF i = 0 THEN [packet |-> m.packet, desyncs |-> 0]
        ELSE IF queue[i].aux THEN MouseByteRead(p[i - 1], queue[i])
        ELSE p[i - 1]
  IN  [m EXCEPT !.packet = p[Len(queue)].packet]

(* ps2mouse::poll.  After a failed init it tries again every RETRY_INTERVAL *)
(* polls and returns.                                                       *)
MousePoll(answers) ==
  LET retry == mouse.failed /\ mouse.retry + 1 >= RETRY_INTERVAL
      inits == mouse.enabled /\ ~mouse.done /\ (~mouse.failed \/ retry)
  IN  /\ mouse' = IF ~mouse.enabled THEN mouse
                  ELSE IF mouse.done THEN MouseRead(mouse)
                  ELSE IF mouse.failed /\ ~retry THEN [mouse EXCEPT !.retry = @ + 1]
                  ELSE MouseInit([mouse EXCEPT !.failed = FALSE, !.retry = 0], answers)
      /\ IF inits \/ (mouse.enabled /\ mouse.done)
         THEN queue' = <<>> /\ Taken(queue)
         ELSE UNCHANGED <<queue, plain>>
      /\ UNCHANGED <<kbdVars, typed>>

(* mouse reset *)
MouseReset(answers) ==
  /\ mouse' = MouseInit([mouse EXCEPT !.done = FALSE, !.failed = FALSE, !.packet = <<>>], answers)
  /\ queue' = <<>> /\ Taken(queue)
  /\ UNCHANGED <<kbdVars, typed>>

(* mouse on, mouse off: set_enabled *)
SetEnabled(on) ==
  /\ mouse' = [mouse EXCEPT !.enabled = on, !.packet = IF on THEN @ ELSE <<>>]
  /\ UNCHANGED <<queue, kbdVars, typed, plain>>

NoMouse == [done |-> FALSE, failed |-> FALSE, retry |-> 0, enabled |-> TRUE, packet |-> <<>>]

Ps2Init ==
  /\ queue = <<>> /\ KEYBUF = <<>> /\ EXTENDED = FALSE
  /\ mouse = NoMouse
  /\ typed = 0 /\ read = <<>> /\ plain = TRUE

(* The power fails *)
Ps2PowerOff ==
  /\ queue' = <<>> /\ KEYBUF' = <<>> /\ EXTENDED' = FALSE
  /\ mouse' = NoMouse
  /\ typed' = 0 /\ read' = <<>> /\ plain' = TRUE

-----------------------------------------------------------------------------
(* keyboard.rs, ps2mouse.rs: keys come out in the order in which they were  *)
(* pressed, none twice and none that was not; and none is lost as long as   *)
(* no E0 prefix was sent, the mouse driver took no byte of the keyboard and *)
(* nothing ran full.                                                        *)
KeysKept ==
  LET seen == read \o KEYBUF \o [i \in DOMAIN queue |-> queue[i].n]
      keys == {seen[i] : i \in DOMAIN seen} \ {Meta}
  IN  /\ \A i, j \in DOMAIN seen :
           i < j /\ seen[i] # Meta /\ seen[j] # Meta => seen[i] < seen[j]
      /\ keys \subseteq 1 .. typed
      /\ plain => keys = 1 .. typed

(* keyboard.rs, ps2mouse.rs: the keys are kept, and whatever the mouse and   *)
(* the other reader of the queue do, PACKET_POS stays below the three bytes  *)
(* of PACKET_BUF between two polls.                                          *)
InputKept == KeysKept /\ Len(mouse.packet) < 3
=============================================================================
