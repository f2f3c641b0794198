---------------------------- MODULE MCInterface -----------------------------
(* Interface for TLC: menus with one of each kind *)
EXTENDS Interface, Barrel

MCSize(app) == [w |-> DefW, h |-> DefH]
MCInstallLine == <<"b">>
MCDesktopLine == <<"a">>
MCBarrelLine == <<"a">>
MCStartItems == <<"Terminal", "Reboot">>

-----------------------------------------------------------------------------
(* Conditions: 0, which fails; 1 - 2 > 1 && !(2 * (1 + 1)), which holds in  *)
(* numbers of two bits; and !0                                              *)
MCCond ==
  <<[tokens |-> <<NumberToken(0)>>, holds |-> FALSE],
    [tokens |-> <<NumberToken(1), T("-"), NumberToken(2), T(">"), NumberToken(1), T("&&"), T("!"),
                  T("("), NumberToken(2), T("*"), T("("), NumberToken(1), T("+"), NumberToken(1),
                  T(")"), T(")")>>,
     holds |-> TRUE],
    [tokens |-> <<T("!"), NumberToken(0)>>, holds |-> TRUE]>>

P(n) == Stmt("print", n, <<>>, <<>>)
If(c, a, b) == Stmt("if", c, a, b)

(* An if, with or without else, on either side of a statement of a block of *)
(* an if; loops with and without break; let, and a variable that is printed;*)
(* and prints up to the end of the lexer's array and past it.  Some of the  *)
(* scripts with the long condition do not fit in the array.                 *)
MCScript ==
  LET inner == {If(c, <<P(1)>>, b) : c \in 1 .. 3, b \in {<<>>, <<P(2)>>}}
      body == {<<i, P(3)>> : i \in inner} \cup {<<P(3), i>> : i \in inner}
      break == Stmt("break", 0, <<>>, <<>>)
      let == Stmt("let", 1, <<>>, <<>>)
      show == Stmt("show", 0, <<>>, <<>>)
  IN  {<<If(c, b, <<>>), P(0)>> : c \in 1 .. 3, b \in body}
        \cup {<<If(c, <<P(0)>>, b), P(0)>> : c \in 1 .. 3, b \in body}
        \cup {<<If(c, b, b), let, P(0)>> : c \in 1 .. 3, b \in body}
        \cup {<<Stmt("loop", 0, b, <<>>), P(0)>> :
                 b \in {<<P(1)>>, <<P(1), break>>, <<P(1), If(1, <<break>>, <<P(2)>>), let>>}}
        \cup {<<Stmt("while", c, <<P(1)>>, <<>>), P(0)>> : c \in {1, 3}}
        \cup {<<let, show>>}
        \cup {[i \in 1 .. n |-> P(i % WORD)] : n \in {21, 22}}
        \cup {<<let>> \o [i \in 1 .. n |-> P(0)] : n \in {19, 20}}

(* What every script does *)
MCOutcome == [script \in MCScript |-> Exec(Tokens(script))]

(* The script fits in the lexer's array with its Eof *)
Fits(script) == Len(Tokens(script)) < MAX_TOKENS

(* tokenize, exec_block, skip_block: a script that fits in the array ends,   *)
(* if it has neither while nor break, and prints what it says, however its   *)
(* ifs are nested.  The heading's language has more that does not do what it *)
(* says: an if at the end of a block, loops, and variables that are printed. *)
PrintsAsWritten ==
  LET s == barrel.script
  IN  Fits(s) =>
        /\ ~Has({"while", "break"}, s) => ~barrel.hangs
        /\ ~IfAtEnd(s) /\ ~Has({"loop", "while", "show"}, s) => barrel.out = AsWritten(s)

(* Bound: scripts run before anything else has used the screen *)
FirstScripts == mode = "barrel" => wm.NEXT_ID = 1

(* Bound: the desktop is explored with one choice of the installer's disk *)
OneDisk == mode = "desktop" => SEL_DISK = 0
=============================================================================
