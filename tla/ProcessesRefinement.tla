------------------------- MODULE ProcessesRefinement -------------------------
(***************************************************************************)
(* The process table implements the abstract Rendezvous.                   *)
(***************************************************************************)
EXTENDS Processes

(* The call a process has under way, read off its state; a message that is  *)
(* offered is whatever the blocked sender's buffer holds.                   *)
CallOf(i) ==
  CASE state[i].tag = "BlockedOnSend" ->
         [phase |-> "offered", to |-> state[i].proc, msg |-> At(i, ipc_buffer[i])]
    [] state[i].tag = "BlockedOnReply" ->
         [phase |-> "accepted", to |-> state[i].proc]
    [] OTHER -> [phase |-> "idle"]

R == INSTANCE Rendezvous WITH
       Proc <- Slot,
       NoTransfer <- NoXfer,
       call <- [i \in Slot |-> CallOf(i)],
       transfer <- xfer

(* send_ipc, receive_ipc and reply_ipc together deliver each message once,  *)
(* unchanged since its sender blocked, to the process it was sent to, and   *)
(* free the sender only with that process's reply.                          *)
ImplementsRendezvous == R!Spec
=============================================================================
