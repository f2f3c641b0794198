------------------------------ MODULE FramePool ------------------------------
(***************************************************************************)
(* What a frame allocator promises: a frame is handed out only while it is *)
(* available, and an allocation fails only when nothing is available.      *)
(***************************************************************************)
CONSTANTS Frame, None

VARIABLES
  available,  \* the frames that may be handed out
  granted     \* the result of the last allocation

Init ==
  /\ available = Frame
  /\ granted = None

Alloc(f) ==
  /\ f \in available
  /\ available' = available \ {f}
  /\ granted' = f

AllocFails ==
  /\ available = {}
  /\ granted' = None
  /\ UNCHANGED available

Free(f) ==
  /\ f \in Frame \ available
  /\ available' = available \cup {f}
  /\ UNCHANGED granted

Next ==
  \/ \E f \in Frame : Alloc(f) \/ Free(f)
  \/ AllocFails

Spec == Init /\ [][Next]_<<available, granted>>
=============================================================================
