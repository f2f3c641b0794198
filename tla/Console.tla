------------------------------ MODULE Console -------------------------------
(***************************************************************************)
(* The text console: the cells of terminal.rs and the line editor of        *)
(* shell.rs.                                                                *)
(*                                                                          *)
(* terminal.rs keeps no text, only the cursor: the cells are what is on the *)
(* framebuffer, numbered row by row.  The prompt and a line of a command's  *)
(* output stand as one character each; colours, fonts and the glass effect  *)
(* are left out.                                                            *)
(***************************************************************************)
EXTENDS Naturals, Sequences, SequencesExt

CONSTANTS
  COLS, ROWS,       \* cols(), rows()
  CMD_BUF_SIZE,     \* 512
  Char              \* the characters that are typed

ASSUME ConsoleAssumption ==
  /\ COLS \in Nat \ {0} /\ ROWS \in Nat \ {0, 1} /\ CMD_BUF_SIZE \in Nat \ {0}
  /\ {"blank", "prompt", "text", "nl", "del"} \cap Char = {}

VARIABLES
  term,             \* the cells, CUR_ROW and CUR_COL
  CMD_BUF,          \* its first CMD_LEN characters
  BARREL_MODE,
  undisturbed       \* history: only the editor has written since the last prompt

consoleVars == <<term, CMD_BUF, BARREL_MODE, undisturbed>>

Cell == 0 .. ROWS * COLS - 1
Cleared == [cell |-> [c \in Cell |-> "blank"], row |-> 0, col |-> 0]   \* clear

-----------------------------------------------------------------------------
(* terminal.rs *)

Scroll(cell) ==
  [c \in Cell |-> IF c + COLS \in Cell THEN cell[c + COLS] ELSE "blank"]

Newline(t) ==
  IF t.row + 1 < ROWS
  THEN [t EXCEPT !.row = @ + 1, !.col = 0]
  ELSE [cell |-> Scroll(t.cell), row |-> ROWS - 1, col |-> 0]

PutCell(t, ch) ==
  [t EXCEPT !.cell[t.row * COLS + t.col] = ch, !.col = @ + 1]

(* Mutant: at the left margin the cursor stays where it is *)
BackspaceInRow(t) ==
  LET b == [t EXCEPT !.col = IF @ > 0 THEN @ - 1 ELSE 0]
  IN  [b EXCEPT !.cell[b.row * COLS + b.col] = "blank"]

(* From the left margin back to the end of the row above; the cell is erased *)
Backspace(t) ==
  LET b == IF t.col > 0 THEN [t EXCEPT !.col = @ - 1]
           ELSE IF t.row > 0 THEN [t EXCEPT !.row = @ - 1, !.col = COLS - 1]
           ELSE t
  IN  [b EXCEPT !.cell[b.row * COLS + b.col] = "blank"]

(* A printable character is put on the next row when this one is full *)
PutChar(t, ch) ==
  CASE ch = "nl"  -> Newline(t)
    [] ch = "del" -> Backspace(t)
    [] OTHER      -> PutCell(IF t.col >= COLS THEN Newline(t) ELSE t, ch)

(* write, of a line and of n times the same character *)
PutLine(t) == PutChar(PutChar(t, "text"), "nl")
Times(t, ch, n) ==
  LET put[i \in 0 .. n] == IF i = 0 THEN t ELSE PutChar(put[i - 1], ch)
  IN  put[n]

-----------------------------------------------------------------------------
(* shell.rs *)

(* What follows a command: CMD_LEN = 0 and show_prompt *)
ShowPrompt(t) ==
  /\ term' = PutChar(t, "prompt")
  /\ CMD_BUF' = <<>>
  /\ undisturbed' = TRUE

HandleChar(ch) ==
  /\ Len(CMD_BUF) < CMD_BUF_SIZE - 1
  /\ CMD_BUF' = Append(CMD_BUF, ch)
  /\ term' = PutChar(term, ch)
  /\ UNCHANGED <<BARREL_MODE, undisturbed>>

HandleBackspace ==
  /\ CMD_BUF # <<>>
  /\ CMD_BUF' = Front(CMD_BUF)
  /\ term' = PutChar(term, "del")
  /\ UNCHANGED <<BARREL_MODE, undisturbed>>

(* Escape takes back the whole line *)
HandleEscape ==
  /\ CMD_BUF' = <<>>
  /\ term' = Times(term, "del", Len(CMD_BUF))
  /\ UNCHANGED <<BARREL_MODE, undisturbed>>

(* Enter on an empty line, or with a command (of the shell or of Barrel)    *)
(* that prints a line, clears the screen, or enters or leaves Barrel         *)
ExecuteLine ==
  LET t == PutChar(term, "nl")
  IN  \/ /\ CMD_BUF = <<>>
         /\ ShowPrompt(t) /\ UNCHANGED BARREL_MODE
      \/ /\ CMD_BUF # <<>>
         /\ \E lines \in 0..1 : ShowPrompt(IF lines = 0 THEN t ELSE PutLine(t))
         /\ UNCHANGED BARREL_MODE
      \/ /\ CMD_BUF # <<>> /\ ~BARREL_MODE
         /\ ShowPrompt(Cleared) /\ UNCHANGED BARREL_MODE
      \/ /\ CMD_BUF # <<>> /\ BARREL_MODE' = ~BARREL_MODE
         /\ ShowPrompt(PutLine(t))

(* A driver prints from usb::poll in the middle of a line *)
DriverMessage ==
  /\ undisturbed /\ undisturbed' = FALSE
  /\ term' = PutLine(term)
  /\ UNCHANGED <<CMD_BUF, BARREL_MODE>>

ConsoleInit ==
  /\ term = PutChar(PutLine(Cleared), "prompt")
  /\ CMD_BUF = <<>> /\ BARREL_MODE = FALSE /\ undisturbed = TRUE

-----------------------------------------------------------------------------
(* handle_key: whatever was typed, erased, wrapped at the margin or         *)
(* scrolled off the top, the cells before the cursor show the end of the    *)
(* line that Enter will execute, as much of it as is left on the screen.    *)
LineShown ==
  LET cursor == term.row * COLS + term.col
  IN  undisturbed =>
        \A k \in 1 .. Len(CMD_BUF) :
          k <= cursor => term.cell[cursor - k] = CMD_BUF[Len(CMD_BUF) - k + 1]
=============================================================================
