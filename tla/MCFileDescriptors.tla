-------------------------- MODULE MCFileDescriptors --------------------------
(***************************************************************************)
(* FileDescriptors for TLC: two names below the root, two short texts.     *)
(***************************************************************************)
EXTENDS FileDescriptors, TLC

MCPath == {[abs |-> TRUE, comps |-> <<n>>] : n \in Name}
MCNameLen == [c \in Component |-> 1]
MCText == {<<1>>, <<1, 1>>}

(* The names of files are interchangeable, and the properties name none *)
NameSymmetry == Permutations(Name)
=============================================================================
