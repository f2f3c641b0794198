------------------------------- MODULE Barrel -------------------------------
(***************************************************************************)
(* The interpreter of the Barrel language (barrel.rs), which the shell runs *)
(* on a line.  It works on the tokens directly: exec_block moves ip over    *)
(* them and leaves a block at its closing brace, skip_block goes past it.   *)
(*                                                                          *)
(* A script is written as a tree of statements, with conditions out of a    *)
(* small set and one variable; Tokens lays it out, Lexed is what fits in    *)
(* the lexer's array, and AsWritten says what the script ought to print.    *)
(* Drawing, strings and input are left out.                                 *)
(***************************************************************************)
EXTENDS Naturals, Sequences, SequencesExt

CONSTANTS
  WORD,             \* 2^64: numbers are u64
  MAX_TOKENS,       \* 64, with the Eof
  MAX_VARS,         \* 16
  Cond,             \* conditions: the tokens of each and whether it holds
  MaxTurns          \* bound: a loop that goes round more often goes on for ever

ASSUME BarrelAssumption ==
  WORD \in Nat \ {0} /\ MAX_TOKENS \in Nat \ {0} /\ MAX_VARS \in Nat /\ MaxTurns \in Nat

T(t) == [t |-> t, n |-> 0]
NumberToken(n) == [t |-> "Number", n |-> n]

-----------------------------------------------------------------------------
(* The lexer *)

(* Tokens after which the loop goes on without a look at the array's end *)
Words == {"Number", "Ident", "print", "let", "if", "else", "loop", "while", "break"}

(* The other tokens end the loop when all but one place is taken *)
Lexed(all) ==
  LET ends == {i \in MAX_TOKENS - 1 .. Len(all) : all[i].t \notin Words}
  IN  IF ends = {} THEN all ELSE SubSeq(all, 1, Min(ends))

(* A token, or the Eof behind the last, is written past the array's end *)
Overruns(all) == Len(Lexed(all)) >= MAX_TOKENS

-----------------------------------------------------------------------------
(* Values and variables *)

Num(n) == [kind |-> "Num", n |-> n]
Nil == [kind |-> "Nil", n |-> 0]
Truthy(val) == val.n # 0

(* Env: a variable is named by where its name was put into strbuf, which    *)
(* differs from one occurrence of the name to the next: by the token         *)
Get(env, name) ==
  LET same == SelectSeq(env, LAMBDA v : v.name = name)
  IN  IF same = <<>> THEN Nil ELSE same[1].value

Set(env, name, val) ==
  IF \E i \in DOMAIN env : env[i].name = name
  THEN [i \in DOMAIN env |-> IF env[i].name = name THEN [env[i] EXCEPT !.value = val] ELSE env[i]]
  ELSE IF Len(env) < MAX_VARS THEN Append(env, [name |-> name, value |-> val]) ELSE env

-----------------------------------------------------------------------------
(* Expressions *)

Tok(s, ip) == IF ip \in DOMAIN s THEN s[ip].t ELSE "Eof"

(* The operators of eval_cmp, eval_add and eval_mul, which bind in this     *)
(* order; && and || are on one level with the comparisons                   *)
Operators == <<{"==", "!=", "<", ">", "<=", ">=", "&&", "||"}, {"+", "-"}, {"*", "/", "%"}>>

Bit(b) == IF b THEN 1 ELSE 0

Apply(op, a, b) ==
  CASE op = "==" -> Bit(a = b)
    [] op = "!=" -> Bit(a # b)
    [] op = "<"  -> Bit(a < b)
    [] op = ">"  -> Bit(a > b)
    [] op = "<=" -> Bit(a <= b)
    [] op = ">=" -> Bit(a >= b)
    [] op = "&&" -> Bit(a # 0 /\ b # 0)
    [] op = "||" -> Bit(a # 0 \/ b # 0)
    [] op = "+"  -> (a + b) % WORD
    [] op = "-"  -> (a + WORD - b) % WORD
    [] op = "*"  -> (a * b) % WORD
    [] op = "/"  -> IF b = 0 THEN 0 ELSE a \div b
    [] op = "%"  -> IF b = 0 THEN 0 ELSE a % b

RECURSIVE Eval(_, _, _, _), Rest(_, _, _, _)

(* eval_atom: the value, and ip behind it *)
EvalAtom(s, env, ip) ==
  LET inner == Eval(1, s, env, ip + 1)
      operand == Eval(4, s, env, ip + 1)
      negated(n) == IF operand.val = Nil THEN Nil ELSE Num(n)
  IN  CASE Tok(s, ip) = "Number" -> [val |-> Num(s[ip].n % WORD), ip |-> ip + 1]
        [] Tok(s, ip) = "Ident"  -> [val |-> Get(env, ip), ip |-> ip + 1]
        [] Tok(s, ip) = "("      -> [inner EXCEPT !.ip = IF Tok(s, @) = ")" THEN @ + 1 ELSE @]
        [] Tok(s, ip) = "-"      -> [operand EXCEPT !.val = negated((WORD - @.n) % WORD)]
        [] Tok(s, ip) = "!"      -> [operand EXCEPT !.val = negated(Bit(@.n = 0))]
        [] OTHER                 -> [val |-> Nil, ip |-> ip + 1]

(* eval_cmp, eval_add, eval_mul: levels 1, 2 and 3, from left to right *)
Eval(level, s, env, ip) ==
  IF level = 4 THEN EvalAtom(s, env, ip)
  ELSE Rest(level, s, env, Eval(level + 1, s, env, ip))

Rest(level, s, env, left) ==
  IF Tok(s, left.ip) \notin Operators[level] THEN left
  ELSE LET right == Eval(level + 1, s, env, left.ip + 1)
       IN  Rest(level, s, env, [val |-> Num(Apply(Tok(s, left.ip), left.val.n, right.val.n)),
                                ip |-> right.ip])

-----------------------------------------------------------------------------
(* Statements: st holds ip, the variables and the output *)

RECURSIVE Skip(_, _, _)
Skip(s, ip, depth) ==
  IF depth = 0 \/ ip > Len(s) THEN ip
  ELSE Skip(s, ip + 1, CASE s[ip].t = "{" -> depth + 1
                         [] s[ip].t = "}" -> depth - 1
                         [] OTHER -> depth)

(* Mutant: the first closing brace ends the block *)
SkipBlockFlat(s, ip) ==
  LET closing == {i \in ip .. Len(s) : s[i].t = "}"}
  IN  IF closing = {} THEN Len(s) + 1 ELSE 1 + CHOOSE i \in closing : \A j \in closing : i <= j

(* skip_block, from inside a block to behind its closing brace *)
SkipBlock(s, ip) == Skip(s, ip, 1)

Past(s, st, t) == IF Tok(s, st.ip) = t THEN [st EXCEPT !.ip = @ + 1] ELSE st

RECURSIVE ExecBlock(_, _), LoopTurns(_, _, _, _), WhileTurns(_, _, _, _, _)

(* A block of if: run, or skipped.  The closing brace that is looked for    *)
(* after a skipped block is one of the block around it.                     *)
Block(s, st, run) ==
  IF Tok(s, st.ip) # "{" THEN st
  ELSE LET body == [st EXCEPT !.ip = @ + 1]
       IN  Past(s, IF run THEN ExecBlock(s, body) ELSE [body EXCEPT !.ip = SkipBlock(s, @)], "}")

ExecPrint(s, st) ==
  LET r == Eval(1, s, st.env, st.ip + 1)
  IN  Past(s, [st EXCEPT !.ip = r.ip, !.out = Append(@, r.val)], ";")

ExecLet(s, st) ==
  LET name == st.ip + 1
      r == Eval(1, s, st.env, st.ip + 3)
  IN  Past(s, IF Tok(s, name) # "Ident" THEN [st EXCEPT !.ip = name]
              ELSE IF Tok(s, name + 1) # "=" THEN [st EXCEPT !.ip = name + 1]
              ELSE [st EXCEPT !.ip = r.ip, !.env = Set(@, name, r.val)], ";")

ExecIf(s, st) ==
  LET cond == Eval(1, s, st.env, st.ip + 1)
      then == Block(s, [st EXCEPT !.ip = cond.ip], Truthy(cond.val))
  IN  IF Tok(s, then.ip) # "else" \/ then.hangs THEN then
      ELSE Block(s, [then EXCEPT !.ip = @ + 1], ~Truthy(cond.val))

(* loop ends when its body has run to the closing brace, and goes round     *)
(* again when break has gone past that                                      *)
LoopTurns(s, st, start, turns) ==
  LET e == ExecBlock(s, [st EXCEPT !.ip = start])
  IN  IF e.hangs \/ e.ip > Len(s) \/ Tok(s, e.ip) = "}" THEN Past(s, e, "}")
      ELSE IF turns = MaxTurns THEN [e EXCEPT !.hangs = TRUE]
      ELSE LoopTurns(s, e, start, turns + 1)

ExecLoop(s, st) ==
  IF Tok(s, st.ip + 1) # "{" THEN Past(s, [st EXCEPT !.ip = @ + 1], "}")
  ELSE Past(s, LoopTurns(s, st, st.ip + 2, 1), "}")

WhileTurns(s, st, cond, start, turns) ==
  IF ~Truthy(Eval(1, s, st.env, cond).val)
  THEN Past(s, [st EXCEPT !.ip = SkipBlock(s, @)], "}")
  ELSE LET e == ExecBlock(s, [st EXCEPT !.ip = start])
       IN  IF e.hangs \/ turns = MaxTurns THEN [e EXCEPT !.hangs = TRUE]
           ELSE WhileTurns(s, e, cond, start, turns + 1)

ExecWhile(s, st) ==
  LET body == Eval(1, s, st.env, st.ip + 1).ip
  IN  IF Tok(s, body) # "{" THEN [st EXCEPT !.ip = body]
      ELSE WhileTurns(s, [st EXCEPT !.ip = body + 1], st.ip + 1, body + 1, 1)

Statement(s, st) ==
  CASE Tok(s, st.ip) = "print" -> ExecPrint(s, st)
    [] Tok(s, st.ip) = "let"   -> ExecLet(s, st)
    [] Tok(s, st.ip) = "if"    -> ExecIf(s, st)
    [] Tok(s, st.ip) = "loop"  -> ExecLoop(s, st)
    [] Tok(s, st.ip) = "while" -> ExecWhile(s, st)
    [] OTHER                   -> [st EXCEPT !.ip = @ + 1]

(* exec_block: break leaves the block for what is behind its closing brace *)
ExecBlock(s, st) ==
  IF st.hangs \/ Tok(s, st.ip) \in {"Eof", "}"} THEN st
  ELSE IF Tok(s, st.ip) = "break" THEN [st EXCEPT !.ip = SkipBlock(s, @ + 1)]
  ELSE ExecBlock(s, Statement(s, st))

(* exec, given all tokens of the line: a panic stops the kernel *)
Exec(all) ==
  LET s == Append(Lexed(all), T("Eof"))
      begin == [ip |-> 1, env |-> <<>>, out |-> <<>>, hangs |-> FALSE]
  IN  IF Overruns(all) THEN [begin EXCEPT !.hangs = TRUE] ELSE ExecBlock(s, begin)

-----------------------------------------------------------------------------
(* Scripts as trees *)

Stmt(kind, c, a, b) == [kind |-> kind, c |-> c, a |-> a, b |-> b]

RECURSIVE Tokens(_)

Braced(block) == <<T("{")>> \o Tokens(block) \o <<T("}")>>

Tokens(block) ==
  LET tokens(stmt) ==
        CASE stmt.kind = "print" -> <<T("print"), NumberToken(stmt.c), T(";")>>
          [] stmt.kind = "show"  -> <<T("print"), T("Ident"), T(";")>>
          [] stmt.kind = "let"   -> <<T("let"), T("Ident"), T("="), NumberToken(stmt.c), T(";")>>
          [] stmt.kind = "break" -> <<T("break"), T(";")>>
          [] stmt.kind = "loop"  -> <<T("loop")>> \o Braced(stmt.a)
          [] stmt.kind = "while" -> <<T("while")>> \o Cond[stmt.c].tokens \o Braced(stmt.a)
          [] stmt.kind = "if"    -> <<T("if")>> \o Cond[stmt.c].tokens \o Braced(stmt.a)
                                    \o (IF stmt.b = <<>> THEN <<>> ELSE <<T("else")>> \o Braced(stmt.b))
  IN  FlattenSeq([i \in DOMAIN block |-> tokens(block[i])])

(* What a script of print, let and if prints by the heading of barrel.rs *)
RECURSIVE AsWritten(_)
AsWritten(block) ==
  LET printed(stmt) ==
        CASE stmt.kind = "print" -> <<Num(stmt.c)>>
          [] stmt.kind = "let"   -> <<>>
          [] stmt.kind = "if"    -> AsWritten(IF Cond[stmt.c].holds THEN stmt.a ELSE stmt.b)
  IN  FlattenSeq([i \in DOMAIN block |-> printed(block[i])])

RECURSIVE Has(_, _)
Has(kinds, block) ==
  \E i \in DOMAIN block : block[i].kind \in kinds \/ Has(kinds, block[i].a) \/ Has(kinds, block[i].b)

(* An if is the last statement of a block in braces *)
RECURSIVE IfAtEnd(_)
IfAtEnd(block) ==
  \E i \in DOMAIN block :
    \E inner \in {block[i].a, block[i].b} :
      inner # <<>> /\ (inner[Len(inner)].kind = "if" \/ IfAtEnd(inner))
=============================================================================
