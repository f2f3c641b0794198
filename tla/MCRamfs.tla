------------------------------- MODULE MCRamfs -------------------------------
(***************************************************************************)
(* Ramfs for TLC: the paths and the texts of the shell commands.           *)
(***************************************************************************)
EXTENDS Ramfs

P(abs, comps) == [abs |-> abs, comps |-> comps]

(* Absolute and relative paths, one and two components long, with .. in     *)
(* front and as a new name, and the empty path of rm -r and of cd.          *)
MCPath ==
  {P(TRUE, <<"a">>), P(TRUE, <<"a", "b">>), P(FALSE, <<"b">>),
   P(FALSE, <<"..", "b">>), P(FALSE, <<"..">>), P(FALSE, <<>>)}

(* Short and long names: /a/a and /b just fit into a buffer of 4 bytes *)
MCNameLen == [c \in Component |-> CASE c = "b" -> 3 [] c = ".." -> 2 [] OTHER -> 1]

MCText == {<<>>, <<1>>, <<0, 1>>}
=============================================================================
