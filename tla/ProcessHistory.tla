--------------------------- MODULE ProcessHistory ---------------------------
(***************************************************************************)
(* The process table observed with a history variable, for a statement of  *)
(* the documentation that speaks of more than one moment.                  *)
(***************************************************************************)
EXTENDS Processes

VARIABLE heard   \* heard[s]: whose messages the program now in slot s was given

HInit ==
  /\ Init
  /\ heard = [s \in Slot |-> {}]

HNext ==
  /\ Next
  /\ heard' = [s \in Slot |->
                 IF ~Live(s)
                 THEN {}
                 ELSE heard[s] \cup {c \in Slot : /\ state[c] # BlockedOnReply(s)
                                                  /\ state'[c] = BlockedOnReply(s)}]

HSpec == HInit /\ [][HNext]_<<vars, heard>>

(* ARCHITECTURE.md, "IPC requires explicit send/receive": a caller is       *)
(* answered by a program that was given its message.                        *)
AnsweredByReceiver ==
  [][\A c \in Slot : (state[c] = BlockedOnReply(current) /\ state'[c] = Runnable)
                       => c \in heard[current]]_<<vars, heard>>
=============================================================================
