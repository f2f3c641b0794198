----------------------------- MODULE MCProcesses -----------------------------
(***************************************************************************)
(* The process table for TLC.                                              *)
(***************************************************************************)
EXTENDS ProcessesRefinement

(* Two contents of messages, a quantum of two ticks and loaded programs as  *)
(* long as the last slot has not been used.  With a third program, messages *)
(* are alike, one program at a time is loaded, and only yield_cpu switches, *)
(* which does what the last tick of a quantum does.                         *)
ThirdProgramPlain ==
  state[MAX_PROCESSES - 1] # Empty =>
    /\ quantum = 0
    /\ Cardinality({i \in Slot : layer_base[i] = ElfBase}) <= 1
    /\ \A i \in Slot : \A k \in DOMAIN mem[i] : mem[i][k] = ZeroMsg
=============================================================================
