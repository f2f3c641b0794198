------------------------------- MODULE MCBoot -------------------------------
(* Boot for TLC: a key alone, and after one that has no character *)
EXTENDS Boot

MCReport == {<<>>, <<1>>, <<2, 1>>}
=============================================================================
