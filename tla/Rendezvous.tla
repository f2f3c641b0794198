------------------------------ MODULE Rendezvous ------------------------------
(***************************************************************************)
(* What the IPC of PureOS promises, without the process table, buffers or  *)
(* scheduler: a call is made of exactly one transfer to the process that   *)
(* was called and exactly one transfer back from it, of the message the    *)
(* caller had when it called, and the caller is in the call throughout.    *)
(* A call can end early only because its caller dies.                      *)
(***************************************************************************)
CONSTANTS Proc, Msg, NoTransfer

VARIABLES
  call,      \* call[c]: what process c has under way
  transfer   \* the last message handed over

Idle           == [phase |-> "idle"]
Offered(s, m)  == [phase |-> "offered", to |-> s, msg |-> m]
Accepted(s)    == [phase |-> "accepted", to |-> s]

Transfer(a, b, m) == [src |-> a, dst |-> b, msg |-> m]

Init ==
  /\ call = [c \in Proc |-> Idle]
  /\ transfer = NoTransfer

(* c calls s, which does not listen yet *)
Call(c, s, m) ==
  /\ call[c] = Idle
  /\ c # s
  /\ call' = [call EXCEPT ![c] = Offered(s, m)]
  /\ UNCHANGED transfer

(* c calls s, which takes the message at once *)
CallAccepted(c, s, m) ==
  /\ call[c] = Idle
  /\ c # s
  /\ call' = [call EXCEPT ![c] = Accepted(s)]
  /\ transfer' = Transfer(c, s, m)

(* s takes the message that c offered *)
Accept(s, c, m) ==
  /\ call[c] = Offered(s, m)
  /\ call' = [call EXCEPT ![c] = Accepted(s)]
  /\ transfer' = Transfer(c, s, m)

(* s answers c, and only then is c free again *)
Reply(s, c, m) ==
  /\ call[c] = Accepted(s)
  /\ call' = [call EXCEPT ![c] = Idle]
  /\ transfer' = Transfer(s, c, m)

(* c is killed in the middle of its call *)
Die(c) ==
  /\ call[c] # Idle
  /\ call' = [call EXCEPT ![c] = Idle]
  /\ UNCHANGED transfer

Next ==
  \E c \in Proc :
    \/ Die(c)
    \/ \E s \in Proc, m \in Msg :
         \/ Call(c, s, m)
         \/ CallAccepted(c, s, m)
         \/ Accept(s, c, m)
         \/ Reply(s, c, m)

Spec == Init /\ [][Next]_<<call, transfer>>
=============================================================================
