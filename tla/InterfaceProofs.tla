--------------------------- MODULE InterfaceProofs ---------------------------
(***************************************************************************)
(* Proofs about the user interface, for a screen of any size, any number   *)
(* of windows and of disks and any menus.                                  *)
(***************************************************************************)
EXTENDS Interface, FiniteSetTheorems, SequenceTheorems, WellFoundedInduction, TLAPS

-----------------------------------------------------------------------------
(* The inductive invariants *)

(* The console: the cursor may be one column behind the last, and only the  *)
(* shell writes behind a prompt.                                            *)
Glyph == Char \cup {"blank", "prompt", "text"}
Terminals == [cell : [Cell -> Glyph], row : 0 .. ROWS - 1, col : 0 .. COLS]

CInv ==
  /\ term \in Terminals
  /\ CMD_BUF \in Seq(Char)
  /\ mode # "shell" => ~undisturbed
  /\ LineShown

(* The installer: the key that is waited for on the summary answers the     *)
(* summary.                                                                 *)
DInv ==
  /\ InstState = "Summary" /\ waiting => summary = SEL_DISK
  /\ InstallsShownDisk

(* A window: on the screen, and if it is minimized, where restore will put  *)
(* it, and not in the mouse's hand                                          *)
Win == [id : Nat, open : BOOLEAN, min : BOOLEAN, x : Int, y : Int, w : Int, h : Int,
        content : [x : Int, y : Int, w : Int, h : Int], drag : {<<>>} \cup (Int \X Int),
        resizing : BOOLEAN, saved : {<<>>} \cup (Int \X Int), z : Nat, app : App \cup {"None"}]

Whole(win) ==
  /\ win.x \in 0 .. FbW - win.w /\ win.y \in 0 .. FbH - win.h
  /\ win.w >= MIN_W /\ win.h >= MIN_H
  /\ win.content = ContentOf(win.x, win.y, win.w, win.h)
  /\ win.min => ~win.open /\ win.saved = <<win.x, win.y>> /\ win.drag = <<>> /\ ~win.resizing

(* The manager: a listed window is the first that has its id *)
Managers == [WINDOWS : [Slot -> Win], NEXT_ID : Nat \ {0}, TOP_Z : Nat,
             row : 0 .. TERM_BUF_ROWS - 1, col : 0 .. TERM_BUF_COLS]

Numbered(w, s) ==
  LET win == w.WINDOWS[s]
  IN  /\ win.id \in 1 .. w.NEXT_ID - 1 /\ win.z <= w.TOP_Z
      /\ \A r \in Slot : r < s => w.WINDOWS[r].id # win.id
      /\ \A r \in Slot \ {s} : win.open /\ w.WINDOWS[r].open => w.WINDOWS[r].z # win.z

Manages(w) ==
  /\ w \in Managers
  /\ \A s \in Listed(w) : Whole(w.WINDOWS[s]) /\ Numbered(w, s)

(* The open windows that the mouse holds, if it does, have these ids *)
Grabs(w, d, r) ==
  \A s \in Slot : LET win == w.WINDOWS[s]
                  IN  win.open => (win.drag # <<>> => win.id = d) /\ (win.resizing => win.id = r)

MInv ==
  /\ Manages(wm)
  /\ turn = "off" => Listed(wm) = {}
  /\ mode # "desktop" <=> turn = "off"
  /\ drag_win = 0 \/ resize_win = 0
  /\ drag_win # 0 \/ resize_win # 0 => mouse_pressed
  /\ Grabs(wm, drag_win, resize_win)
  /\ MENU_ACTIVE => ~START_MENU_ACTIVE /\ Listed(wm) = {}

-----------------------------------------------------------------------------
(* The console *)

LEMMA LeastNat ==
  ASSUME NEW S \in SUBSET Nat, S # {}
  PROVE  \E n \in S : \A m \in S : n <= m
<1>1. PICK n \in S : \A m \in S : ~(<<m, n>> \in OpToRel(<, Nat))
  BY NatLessThanWellFounded, WFMin
<1>2. \A m \in S : ~(m < n)
  BY <1>1 DEF OpToRel
<1> QED BY <1>2

Cursor(t) == t.row * COLS + t.col

(* The cells before the cursor of t show the end of the text *)
Shows(t, text) ==
  \A k \in 1 .. Len(text) : k <= Cursor(t) => t.cell[Cursor(t) - k] = text[Len(text) - k + 1]

(* Rows are laid out one behind the other *)
LEMMA RowsAdd ==
  ASSUME NEW r \in Nat, NEW n \in Nat, NEW c \in Nat
  PROVE  /\ r * c \in Nat /\ (r + 1) * c = r * c + c
         /\ r < n => r * c + c <= n * c
<1>1. r * c \in Nat /\ (r + 1) * c = r * c + c
  OBVIOUS
<1>2. ASSUME r < n PROVE r * c + c <= n * c
  <2>1. PICK d \in Nat : n = r + 1 + d
    BY <1>2
  <2>2. n * c = r * c + c + d * c /\ d * c \in Nat
    BY <2>1
  <2> QED BY <1>1, <2>2
<1> QED BY <1>1, <1>2

LEMMA CursorIs ==
  ASSUME NEW t \in Terminals
  PROVE  /\ t.row \in Nat /\ t.col \in Nat /\ COLS \in Nat \ {0} /\ ROWS \in Nat /\ ROWS > 1
         /\ t.row * COLS \in Nat /\ t.row * COLS + COLS <= ROWS * COLS /\ ROWS * COLS \in Nat
         /\ t.row = 0 => t.row * COLS = 0
         /\ t.row > 0 => t.row * COLS = (t.row - 1) * COLS + COLS /\ (t.row - 1) * COLS \in Nat
         /\ t.row + 1 < ROWS => (t.row + 1) * COLS = t.row * COLS + COLS
         /\ t.row + 1 = ROWS => ROWS * COLS = t.row * COLS + COLS
<1>1. /\ t.row \in Nat /\ t.col \in Nat /\ t.row < ROWS /\ COLS \in Nat \ {0} /\ ROWS \in Nat /\ ROWS > 1
  BY ConsoleAssumption DEF Terminals
<1>2. t.row * COLS \in Nat /\ t.row * COLS + COLS <= ROWS * COLS /\ (t.row + 1) * COLS = t.row * COLS + COLS
  BY <1>1, RowsAdd
<1>3. ROWS * COLS \in Nat
  BY <1>1, RowsAdd
<1>4. t.row = 0 => t.row * COLS = 0
  BY <1>1
<1>5. ASSUME t.row > 0 PROVE t.row * COLS = (t.row - 1) * COLS + COLS /\ (t.row - 1) * COLS \in Nat
  <2>1. PICK p \in Nat : t.row = p + 1
    BY <1>1, <1>5
  <2>2. p * COLS \in Nat /\ (p + 1) * COLS = p * COLS + COLS
    BY <1>1, RowsAdd
  <2>3. t.row - 1 = p
    BY <2>1
  <2> QED BY <2>1, <2>2, <2>3
<1> QED BY <1>1, <1>2, <1>3, <1>4, <1>5

LEMMA Ranges ==
  ASSUME NEW t \in Terminals
  PROVE  /\ t.row \in 0 .. ROWS - 1 /\ t.col \in 0 .. COLS /\ t.cell \in [Cell -> Glyph]
         /\ COLS \in Nat \ {0} /\ ROWS \in Nat /\ ROWS > 1
  BY ConsoleAssumption DEF Terminals

(* newline, at the right margin, leaves the text before the cursor *)
LEMMA NewlineKeeps ==
  ASSUME NEW t \in Terminals
  PROVE  LET n == Newline(t)
         IN  /\ n \in Terminals /\ n.col = 0 /\ n.row > 0
             /\ t.col = COLS =>
                  \A k \in Nat \ {0} : k <= Cursor(n) =>
                    k <= Cursor(t) /\ n.cell[Cursor(n) - k] = t.cell[Cursor(t) - k]
<1> DEFINE n == Newline(t)
           m == t.row * COLS
           size == ROWS * COLS
<1>1. /\ m \in Nat /\ size \in Nat /\ COLS \in Nat \ {0} /\ m + COLS <= size
      /\ t.row \in 0 .. ROWS - 1 /\ t.col \in 0 .. COLS /\ ROWS \in Nat /\ ROWS > 1
      /\ t.cell \in [Cell -> Glyph] /\ Cell = 0 .. size - 1 /\ Cursor(t) = m + t.col
  BY CursorIs DEF Terminals, Cell, Cursor
<1>2. CASE t.row + 1 < ROWS
  <2>1. n.row = t.row + 1 /\ n.col = 0 /\ n.cell = t.cell /\ n \in Terminals
    <3>1. t.row + 1 \in 0 .. ROWS - 1 /\ 0 \in 0 .. COLS
      BY <1>2, Ranges
    <3>2. n = [t EXCEPT !.row = t.row + 1, !.col = 0]
      BY <1>2 DEF Newline
    <3>3. n = [cell |-> t.cell, row |-> t.row + 1, col |-> 0]
      BY <3>2 DEF Terminals
    <3> HIDE DEF n
    <3> QED BY <3>1, <3>3, Ranges DEF Terminals
  <2>2. (t.row + 1) * COLS = m + COLS
    BY <1>2, CursorIs
  <2>3. Cursor(n) = m + COLS
    <3> HIDE DEF n, m
    <3> QED BY <1>1, <2>1, <2>2 DEF Cursor
  <2> HIDE DEF n, m, size
  <2> QED BY <1>1, <2>1, <2>3 DEF n
<1>3. CASE ~(t.row + 1 < ROWS)
  <2>1. n = [cell |-> Scroll(t.cell), row |-> ROWS - 1, col |-> 0]
    BY <1>3 DEF Newline
  <2>2. Scroll(t.cell) \in [Cell -> Glyph]
    BY <1>1 DEF Scroll, Glyph
  <2>3. n \in Terminals /\ n.row = ROWS - 1 /\ n.col = 0 /\ n.cell = Scroll(t.cell)
    BY <1>1, <2>1, <2>2 DEF Terminals
  <2>4. t.row + 1 = ROWS /\ n.row = t.row
    <3> HIDE DEF n
    <3>1. n.row = ROWS - 1
      BY <2>3
    <3> QED BY <1>1, <1>3, <3>1
  <2>5. size = m + COLS
    BY <2>4, CursorIs
  <2>6. Cursor(n) = m
    <3> HIDE DEF n
    <3> QED BY <1>1, <2>3, <2>4 DEF Cursor
  <2> HIDE DEF n, m, size
  <2>7. ASSUME t.col = COLS, NEW k \in Nat \ {0}, k <= Cursor(n)
        PROVE  k <= Cursor(t) /\ n.cell[Cursor(n) - k] = t.cell[Cursor(t) - k]
    <3>1. m - k \in Cell /\ m - k + COLS \in Cell /\ Cursor(t) - k = m - k + COLS
      BY <1>1, <2>5, <2>6, <2>7
    <3> QED BY <1>1, <2>3, <2>6, <2>7, <3>1 DEF Scroll
  <2> QED BY <1>1, <2>3, <2>4, <2>7 DEF n
<1> QED BY <1>2, <1>3

(* put_cell, inside the row *)
LEMMA PutCellKeeps ==
  ASSUME NEW t \in Terminals, t.col < COLS, NEW ch \in Glyph
  PROVE  LET p == PutCell(t, ch)
         IN  /\ p \in Terminals /\ Cursor(p) = Cursor(t) + 1 /\ Cursor(t) \in Nat
             /\ p.cell[Cursor(t)] = ch /\ \A c \in Cell : c # Cursor(t) => p.cell[c] = t.cell[c]
             /\ Cursor(t) \in Cell
<1> DEFINE p == PutCell(t, ch)
           m == t.row * COLS
           size == ROWS * COLS
<1>1. /\ m \in Nat /\ size \in Nat /\ COLS \in Nat \ {0} /\ m + COLS <= size
      /\ t.row \in 0 .. ROWS - 1 /\ t.col \in 0 .. COLS
      /\ t.cell \in [Cell -> Glyph] /\ Cell = 0 .. size - 1 /\ Cursor(t) = m + t.col
  BY CursorIs DEF Terminals, Cell, Cursor
<1>2. p = [t EXCEPT !.cell = [t.cell EXCEPT ![Cursor(t)] = ch], !.col = t.col + 1]
  BY DEF PutCell, Cursor
<1> HIDE DEF m, size, p
<1>3. Cursor(t) \in Cell /\ Cursor(t) \in Nat
  BY <1>1
<1>4. [t.cell EXCEPT ![Cursor(t)] = ch] \in [Cell -> Glyph]
  BY <1>1
<1>5. p \in Terminals /\ p.row = t.row /\ p.col = t.col + 1 /\ p.cell = [t.cell EXCEPT ![Cursor(t)] = ch]
  <2>1. t.col + 1 \in 0 .. COLS
    BY <1>1
  <2>2. p = [cell |-> [t.cell EXCEPT ![Cursor(t)] = ch], row |-> t.row, col |-> t.col + 1]
    BY <1>2 DEF Terminals
  <2> QED BY <1>4, <2>1, <2>2, Ranges DEF Terminals
<1>6. Cursor(p) = m + (t.col + 1)
  BY <1>5 DEF Cursor, m
<1> QED BY <1>1, <1>3, <1>5, <1>6 DEF p

(* backspace steps back and erases the cell *)
LEMMA BackspaceKeeps ==
  ASSUME NEW t \in Terminals
  PROVE  LET b == Backspace(t)
         IN  /\ b \in Terminals /\ Cursor(t) \in Nat
             /\ Cursor(b) = IF Cursor(t) > 0 THEN Cursor(t) - 1 ELSE 0
             /\ \A c \in Cell : c # Cursor(b) => b.cell[c] = t.cell[c]
<1> DEFINE b == Backspace(t)
           m == t.row * COLS
           size == ROWS * COLS
           u == IF t.col > 0 THEN [t EXCEPT !.col = t.col - 1]
                ELSE IF t.row > 0 THEN [t EXCEPT !.row = t.row - 1, !.col = COLS - 1]
                ELSE t
<1>1. /\ m \in Nat /\ size \in Nat /\ COLS \in Nat \ {0} /\ m + COLS <= size
      /\ t.row \in 0 .. ROWS - 1 /\ t.col \in 0 .. COLS
      /\ t.cell \in [Cell -> Glyph] /\ Cell = 0 .. size - 1 /\ Cursor(t) = m + t.col
      /\ t.row = 0 => m = 0
      /\ t.row > 0 => m = (t.row - 1) * COLS + COLS
  BY CursorIs DEF Terminals, Cell, Cursor
<1>2. b = [u EXCEPT !.cell = [u.cell EXCEPT ![Cursor(u)] = "blank"]]
  BY DEF Backspace, Cursor
<1> HIDE DEF b, m, size
<1>3. u \in Terminals /\ u.cell = t.cell /\ Cursor(u) = (IF Cursor(t) > 0 THEN Cursor(t) - 1 ELSE 0)
  <2>1. CASE t.col > 0
    <3>1. u \in Terminals /\ u.row = t.row /\ u.col = t.col - 1 /\ u.cell = t.cell
      BY <1>1, <2>1 DEF Terminals
    <3>2. Cursor(u) = m + (t.col - 1)
      BY <3>1 DEF Cursor, m
    <3> QED BY <1>1, <2>1, <3>1, <3>2
  <2>2. CASE ~(t.col > 0) /\ t.row > 0
    <3>1. u \in Terminals /\ u.row = t.row - 1 /\ u.col = COLS - 1 /\ u.cell = t.cell
      <4>1. t.row - 1 \in 0 .. ROWS - 1 /\ COLS - 1 \in 0 .. COLS
        BY <2>2, Ranges
      <4>2. u = [t EXCEPT !.row = t.row - 1, !.col = COLS - 1]
        BY <2>2
      <4>3. u = [cell |-> t.cell, row |-> t.row - 1, col |-> COLS - 1]
        BY <4>2 DEF Terminals
      <4> HIDE DEF u
      <4> QED BY <4>1, <4>3, Ranges DEF Terminals
    <3>2. Cursor(u) = (t.row - 1) * COLS + (COLS - 1)
      BY <3>1 DEF Cursor
    <3>3. (t.row - 1) * COLS = m - COLS /\ t.col = 0 /\ t.row # 0
      <4>1. (t.row - 1) * COLS \in Nat
        BY <2>2, CursorIs
      <4> QED BY <1>1, <2>2, <4>1
    <3>4. (t.row - 1) * COLS \in Nat
      BY <2>2, CursorIs
    <3> QED BY <1>1, <3>1, <3>2, <3>3, <3>4
  <2>3. CASE ~(t.col > 0) /\ ~(t.row > 0)
    BY <1>1, <2>3 DEF Cursor
  <2> QED BY <2>1, <2>2, <2>3
<1> HIDE DEF u
<1>4. Cursor(u) \in Cell /\ Cursor(t) \in Nat
  BY <1>1, <1>3
<1>5. [u.cell EXCEPT ![Cursor(u)] = "blank"] \in [Cell -> Glyph]
  BY <1>1, <1>3 DEF Glyph
<1>6. b \in Terminals /\ b.row = u.row /\ b.col = u.col /\ b.cell = [t.cell EXCEPT ![Cursor(u)] = "blank"]
  BY <1>2, <1>3, <1>5 DEF Terminals
<1>7. Cursor(b) = Cursor(u)
  BY <1>6 DEF Cursor
<1> QED BY <1>1, <1>3, <1>4, <1>6, <1>7 DEF b

(* putchar keeps the terminal in its bounds *)
LEMMA PutCharKeeps ==
  ASSUME NEW t \in Terminals, NEW ch \in Glyph \cup {"nl", "del"}
  PROVE  PutChar(t, ch) \in Terminals
<1>1. CASE ch = "nl"
  BY <1>1, NewlineKeeps DEF PutChar
<1>2. CASE ch = "del"
  BY <1>2, BackspaceKeeps DEF PutChar
<1>3. CASE ch \notin {"nl", "del"}
  <2> DEFINE u == IF t.col >= COLS THEN Newline(t) ELSE t
  <2>1. u \in Terminals /\ u.col < COLS
    <3>1. Newline(t) \in Terminals /\ Newline(t).col = 0 /\ COLS > 0 /\ COLS \in Nat /\ t.col \in Nat
      BY NewlineKeeps, CursorIs
    <3> QED BY <3>1
  <2>2. PutChar(t, ch) = PutCell(u, ch)
    BY <1>3 DEF PutChar
  <2>3. ch \in Glyph
    BY <1>3
  <2> HIDE DEF u
  <2> QED BY <2>1, <2>2, <2>3, PutCellKeeps
<1> QED BY <1>1, <1>2, <1>3

(* The n-fold write, which is defined by recursion *)
Puts(put, t, ch, n) ==
  put \in [0 .. n -> Terminals] /\ put[0] = t /\ \A i \in 1 .. n : put[i] = PutChar(put[i - 1], ch)

LEMMA PutsExist ==
  ASSUME NEW t \in Terminals, NEW ch \in Glyph \cup {"nl", "del"}, NEW N \in Nat
  PROVE  \E put : Puts(put, t, ch, N)
<1> DEFINE out == {n \in Nat : ~\E put : Puts(put, t, ch, n)}
<1> SUFFICES ASSUME out # {} PROVE FALSE
  OBVIOUS
<1>1. PICK n \in out : \A m \in out : n <= m
  <2>1. out \in SUBSET Nat
    OBVIOUS
  <2> HIDE DEF out
  <2> QED BY <2>1, LeastNat
<1>2. n \in Nat /\ ~\E put : Puts(put, t, ch, n)
  OBVIOUS
<1>3. n # 0
  <2> DEFINE e == [i \in 0 .. 0 |-> t]
  <2>1. Puts(e, t, ch, 0)
    BY DEF Puts
  <2> HIDE DEF e
  <2> QED BY <1>2, <2>1
<1>4. n - 1 \in Nat /\ n - 1 \notin out
  BY <1>1, <1>2, <1>3
<1>5. PICK put : Puts(put, t, ch, n - 1)
  BY <1>4
<1> DEFINE e == [i \in 0 .. n |-> IF i = n THEN PutChar(put[n - 1], ch) ELSE put[i]]
<1>6. PutChar(put[n - 1], ch) \in Terminals
  BY <1>4, <1>5, PutCharKeeps DEF Puts
<1>7. e \in [0 .. n -> Terminals]
  <2> SUFFICES ASSUME NEW i \in 0 .. n PROVE (IF i = n THEN PutChar(put[n - 1], ch) ELSE put[i]) \in Terminals
    OBVIOUS
  <2>1. i # n => i \in 0 .. n - 1
    BY <1>2
  <2> QED BY <1>5, <1>6, <2>1 DEF Puts
<1>8. e[0] = t
  BY <1>2, <1>3, <1>5 DEF Puts
<1>9. ASSUME NEW i \in 1 .. n PROVE e[i] = PutChar(e[i - 1], ch)
  <2>1. i - 1 \in 0 .. n - 1 /\ i - 1 # n /\ i - 1 \in 0 .. n /\ i \in 0 .. n
    BY <1>2
  <2>2. e[i - 1] = put[i - 1]
    BY <2>1
  <2>3. CASE i = n
    BY <2>1, <2>2, <2>3
  <2>4. CASE i # n
    <3>1. i \in 1 .. n - 1
      BY <1>2, <2>4
    <3> QED BY <1>5, <2>1, <2>2, <2>4, <3>1 DEF Puts
  <2> QED BY <2>3, <2>4
<1>10. Puts(e, t, ch, n)
  <2> HIDE DEF e
  <2> QED BY <1>7, <1>8, <1>9 DEF Puts
<1> HIDE DEF e
<1> QED BY <1>2, <1>10

LEMMA TimesKeeps ==
  ASSUME NEW t \in Terminals, NEW ch \in Glyph \cup {"nl", "del"}, NEW n \in Nat
  PROVE  Times(t, ch, n) \in Terminals
<1> DEFINE P(f) == f = [i \in 0 .. n |-> IF i = 0 THEN t ELSE PutChar(f[i - 1], ch)]
           put == CHOOSE f : P(f)
<1>1. Times(t, ch, n) = put[n]
  BY DEF Times
<1>2. P(put)
  <2>1. PICK f : Puts(f, t, ch, n)
    BY PutsExist
  <2>2. P(f)
    <3>1. f = [i \in 0 .. n |-> f[i]]
      BY <2>1 DEF Puts
    <3>2. \A i \in 0 .. n : f[i] = IF i = 0 THEN t ELSE PutChar(f[i - 1], ch)
      <4> SUFFICES ASSUME NEW i \in 0 .. n, i # 0 PROVE f[i] = PutChar(f[i - 1], ch)
        BY <2>1 DEF Puts
      <4>1. i \in 1 .. n
        OBVIOUS
      <4> QED BY <2>1, <4>1 DEF Puts
    <3> QED BY <3>1, <3>2
  <2> HIDE DEF P
  <2> QED BY <2>2
<1>3. \A i \in 0 .. n : put[i] = IF i = 0 THEN t ELSE PutChar(put[i - 1], ch)
  <2> HIDE DEF put
  <2> QED BY <1>2
<1> HIDE DEF put, P
<1> DEFINE out == {i \in 0 .. n : put[i] \notin Terminals}
<1>4. out = {}
  <2> SUFFICES ASSUME out # {} PROVE FALSE
    OBVIOUS
  <2>1. PICK i \in out : \A j \in out : i <= j
    <3>1. out \in SUBSET Nat
      OBVIOUS
    <3> HIDE DEF out
    <3> QED BY <3>1, LeastNat
  <2>2. i \in 0 .. n /\ put[i] \notin Terminals
    OBVIOUS
  <2>3. i # 0
    BY <1>3, <2>2
  <2>4. i - 1 \in 0 .. n /\ i - 1 \notin out
    BY <2>1, <2>2, <2>3
  <2>5. put[i - 1] \in Terminals
    BY <2>4
  <2> QED BY <1>3, <2>2, <2>3, <2>5, PutCharKeeps
<1> QED BY <1>1, <1>4

LEMMA PutLineKeeps ==
  ASSUME NEW t \in Terminals
  PROVE  PutLine(t) \in Terminals
<1>1. "text" \in Glyph \cup {"nl", "del"} /\ "nl" \in Glyph \cup {"nl", "del"}
  BY DEF Glyph
<1>2. PutChar(t, "text") \in Terminals
  BY <1>1, PutCharKeeps
<1> QED BY <1>1, <1>2, PutCharKeeps DEF PutLine

LEMMA ClearedIs == Cleared \in Terminals
<1>1. [c \in Cell |-> "blank"] \in [Cell -> Glyph]
  BY DEF Glyph
<1>2. 0 \in 0 .. ROWS - 1 /\ 0 \in 0 .. COLS
  BY ConsoleAssumption
<1> QED BY <1>1, <1>2 DEF Cleared, Terminals

(* A character that is typed appears behind the text *)
LEMMA CharShown ==
  ASSUME NEW t \in Terminals, NEW text \in Seq(Char), NEW ch \in Char, Shows(t, text)
  PROVE  PutChar(t, ch) \in Terminals /\ Shows(PutChar(t, ch), Append(text, ch))
<1> DEFINE u == IF t.col >= COLS THEN Newline(t) ELSE t
           p == PutCell(u, ch)
           n == Len(text)
           new == Append(text, ch)
<1>1. PutChar(t, ch) = p /\ ch \in Glyph
  BY ConsoleAssumption DEF PutChar, Glyph
<1>2. /\ u \in Terminals /\ u.col < COLS /\ Cursor(t) \in Nat
      /\ \A k \in Nat \ {0} : k <= Cursor(u) => k <= Cursor(t) /\ u.cell[Cursor(u) - k] = t.cell[Cursor(t) - k]
  <2>1. t.col \in Nat /\ COLS \in Nat /\ COLS > 0 /\ t.col <= COLS
    BY Ranges
  <2>2. Cursor(t) \in Nat
    BY BackspaceKeeps
  <2>3. CASE t.col >= COLS
    BY <2>1, <2>2, <2>3, NewlineKeeps
  <2>4. CASE ~(t.col >= COLS)
    BY <2>1, <2>2, <2>4
  <2> QED BY <2>3, <2>4
<1>3. n \in Nat /\ Len(new) = n + 1 /\ new[n + 1] = ch /\ \A i \in 1 .. n : new[i] = text[i]
  BY AppendProperties, LenProperties
<1> HIDE DEF u, p, n, new
<1>4. /\ p \in Terminals /\ Cursor(u) \in Nat /\ Cursor(p) = Cursor(u) + 1 /\ p.cell[Cursor(u)] = ch
      /\ Cursor(u) \in Cell /\ \A c \in Cell : c # Cursor(u) => p.cell[c] = u.cell[c]
  BY <1>1, <1>2, PutCellKeeps DEF p
<1>5. ASSUME NEW k \in 1 .. n + 1, k <= Cursor(p)
      PROVE  p.cell[Cursor(p) - k] = new[n + 1 - k + 1]
  <2>1. CASE k = 1
    BY <1>3, <1>4, <2>1
  <2>2. CASE k # 1
    <3> DEFINE j == k - 1
    <3>1. j \in 1 .. n /\ j \in Nat \ {0} /\ j <= Cursor(u) /\ Cursor(p) - k = Cursor(u) - j
          /\ n + 1 - k + 1 = n - j + 1 /\ n - j + 1 \in 1 .. n
      BY <1>3, <1>4, <1>5, <2>2
    <3> HIDE DEF j
    <3>2. Cursor(u) - j \in Cell /\ Cursor(u) - j # Cursor(u)
      <4>1. Cell = 0 .. ROWS * COLS - 1 /\ ROWS * COLS \in Nat
        BY CursorIs DEF Cell
      <4> QED BY <1>4, <3>1, <4>1
    <3>3. p.cell[Cursor(u) - j] = u.cell[Cursor(u) - j]
      BY <1>4, <3>2
    <3>4. j <= Cursor(t) /\ u.cell[Cursor(u) - j] = t.cell[Cursor(t) - j]
      BY <1>2, <3>1
    <3>5. t.cell[Cursor(t) - j] = text[n - j + 1]
      BY <3>1, <3>4 DEF Shows, n
    <3> QED BY <1>3, <3>1, <3>3, <3>4, <3>5
  <2> QED BY <2>1, <2>2
<1> QED BY <1>1, <1>3, <1>4, <1>5 DEF Shows, new

(* The text without its last character *)
LEMMA FrontIs ==
  ASSUME NEW text \in Seq(Char), text # <<>>
  PROVE  /\ Front(text) \in Seq(Char) /\ Len(Front(text)) = Len(text) - 1 /\ Len(text) \in Nat /\ Len(text) > 0
         /\ \A i \in 1 .. Len(text) - 1 : Front(text)[i] = text[i]
<1> DEFINE n == Len(text)
<1>0. n \in Nat /\ n > 0
  BY LenProperties, EmptySeq
<1>1. \A i \in 1 .. n - 1 : text[i] \in Char
  BY <1>0, ElementOfSeq
<1>2. /\ SubSeq(text, 1, n - 1) \in Seq(Char)
      /\ Len(SubSeq(text, 1, n - 1)) = IF 1 <= n - 1 THEN n - 1 - 1 + 1 ELSE 0
      /\ \A i \in 1 .. n - 1 - 1 + 1 : SubSeq(text, 1, n - 1)[i] = text[1 + i - 1]
  BY <1>0, <1>1, SubSeqProperties
<1>3. n - 1 - 1 + 1 = n - 1 /\ \A i \in 1 .. n - 1 : 1 + i - 1 = i
  BY <1>0
<1>4. Len(SubSeq(text, 1, n - 1)) = n - 1
  <2> DEFINE front1 == SubSeq(text, 1, n - 1)
  <2>1. Len(front1) = IF 1 <= n - 1 THEN n - 1 - 1 + 1 ELSE 0
    BY <1>2
  <2> HIDE DEF front1, n
  <2> QED BY <1>0, <2>1 DEF front1
<1> QED BY <1>0, <1>2, <1>3, <1>4 DEF Front

(* Backspace takes the last character of the text away *)
LEMMA BackShown ==
  ASSUME NEW t \in Terminals, NEW text \in Seq(Char), text # <<>>, Shows(t, text)
  PROVE  /\ PutChar(t, "del") \in Terminals /\ Front(text) \in Seq(Char)
         /\ Shows(PutChar(t, "del"), Front(text))
<1> DEFINE b == Backspace(t)
           n == Len(text)
           front == Front(text)
<1>1. PutChar(t, "del") = b
  BY DEF PutChar
<1>2. /\ b \in Terminals /\ Cursor(t) \in Nat
      /\ Cursor(b) = IF Cursor(t) > 0 THEN Cursor(t) - 1 ELSE 0
      /\ \A c \in Cell : c # Cursor(b) => b.cell[c] = t.cell[c]
  BY BackspaceKeeps
<1>3. n \in Nat /\ n > 0
  BY LenProperties, EmptySeq
<1>4. front \in Seq(Char) /\ Len(front) = n - 1 /\ \A i \in 1 .. n - 1 : front[i] = text[i]
  BY FrontIs
<1> HIDE DEF b, n, front
<1>5. ASSUME NEW k \in 1 .. n - 1, k <= Cursor(b)
      PROVE  b.cell[Cursor(b) - k] = front[n - 1 - k + 1]
  <2> DEFINE j == k + 1
  <2>1. /\ j \in 1 .. n /\ j <= Cursor(t) /\ Cursor(b) - k = Cursor(t) - j /\ n - 1 - k + 1 = n - j + 1
        /\ n - j + 1 \in 1 .. n - 1 /\ Cursor(t) - j # Cursor(b) /\ Cursor(t) - j \in Nat
    BY <1>2, <1>3, <1>5
  <2> HIDE DEF j
  <2>2. Cursor(t) - j \in Cell
    <3>1. /\ Cell = 0 .. ROWS * COLS - 1 /\ ROWS * COLS \in Nat /\ t.row * COLS \in Nat
          /\ t.row * COLS + COLS <= ROWS * COLS /\ COLS \in Nat
      BY CursorIs DEF Cell
    <3>2. Cursor(t) = t.row * COLS + t.col /\ t.col \in Nat /\ t.col <= COLS
      BY Ranges DEF Cursor
    <3>3. Cursor(t) <= ROWS * COLS
      BY <3>1, <3>2
    <3>4. Cursor(t) - j <= ROWS * COLS - 1 /\ j >= 1
      BY <1>2, <1>3, <2>1, <3>1, <3>3
    <3> QED BY <2>1, <3>1, <3>4
  <2>3. b.cell[Cursor(t) - j] = t.cell[Cursor(t) - j]
    BY <1>2, <2>1, <2>2
  <2>4. t.cell[Cursor(t) - j] = text[n - j + 1]
    BY <2>1 DEF Shows, n
  <2> QED BY <1>4, <2>1, <2>3, <2>4
<1> QED BY <1>1, <1>2, <1>4, <1>5 DEF Shows, b, front

LEMMA LineShownIs == LineShown <=> (undisturbed => Shows(term, CMD_BUF))
  BY DEF LineShown, Shows, Cursor

(* A prompt behind whatever is on the screen *)
LEMMA PromptKeeps ==
  ASSUME NEW t \in Terminals, ShowPrompt(t), mode' = "shell"
  PROVE  CInv'
<1>1. "prompt" \in Glyph \cup {"nl", "del"}
  BY DEF Glyph
<1>2. term' \in Terminals
  BY <1>1, PutCharKeeps DEF ShowPrompt
<1>3. CMD_BUF' = <<>> /\ CMD_BUF' \in Seq(Char) /\ Len(CMD_BUF') = 0
  BY DEF ShowPrompt
<1>4. LineShown'
  BY <1>3 DEF LineShown
<1> QED BY <1>2, <1>3, <1>4 DEF CInv

(* Text that is not the editor's *)
LEMMA DisturbedKeeps ==
  ASSUME CInv, term' \in Terminals, ~undisturbed', UNCHANGED CMD_BUF
  PROVE  CInv'
  BY DEF CInv, LineShown

LEMMA CInvInit == Init => CInv
<1> SUFFICES ASSUME Init PROVE CInv
  OBVIOUS
<1>1. "prompt" \in Glyph \cup {"nl", "del"}
  BY DEF Glyph
<1>2. term \in Terminals
  BY <1>1, ClearedIs, PutLineKeeps, PutCharKeeps DEF Init, ConsoleInit
<1>3. CMD_BUF = <<>> /\ CMD_BUF \in Seq(Char) /\ Len(CMD_BUF) = 0 /\ mode = "shell"
  BY DEF Init, ConsoleInit
<1> QED BY <1>2, <1>3 DEF CInv, LineShown

(* handle_key *)
LEMMA CInvShell ==
  ASSUME CInv, ShellStep
  PROVE  CInv'
<1>1. term \in Terminals /\ CMD_BUF \in Seq(Char) /\ mode = "shell" /\ mode' = "shell"
  BY DEF CInv, ShellStep
<1>2. undisturbed => Shows(term, CMD_BUF)
  BY LineShownIs DEF CInv
<1>3. ASSUME NEW ch \in Char, HandleChar(ch) PROVE CInv'
  <2>1. CMD_BUF' = Append(CMD_BUF, ch) /\ term' = PutChar(term, ch) /\ undisturbed' = undisturbed
    BY <1>3 DEF HandleChar
  <2>2. ch \in Glyph \cup {"nl", "del"}
    BY DEF Glyph
  <2>3. term' \in Terminals /\ CMD_BUF' \in Seq(Char)
    BY <1>1, <2>1, <2>2, PutCharKeeps, AppendProperties
  <2>4. undisturbed' => Shows(term', CMD_BUF')
    BY <1>1, <1>2, <2>1, CharShown
  <2>5. LineShown'
    BY <2>4 DEF LineShown, Shows, Cursor
  <2> QED BY <1>1, <2>3, <2>5 DEF CInv
<1>4. CASE HandleBackspace
  <2>1. CMD_BUF # <<>> /\ CMD_BUF' = Front(CMD_BUF) /\ term' = PutChar(term, "del") /\ undisturbed' = undisturbed
    BY <1>4 DEF HandleBackspace
  <2>2. term' \in Terminals
    BY <1>1, <2>1, PutCharKeeps
  <2>3. CMD_BUF' \in Seq(Char)
    BY <1>1, <2>1, FrontIs
  <2>4. undisturbed' => Shows(term', CMD_BUF')
    BY <1>1, <1>2, <2>1, BackShown
  <2>5. LineShown'
    BY <2>4 DEF LineShown, Shows, Cursor
  <2> QED BY <1>1, <2>2, <2>3, <2>5 DEF CInv
<1>5. CASE HandleEscape
  <2>1. CMD_BUF' = <<>> /\ term' = Times(term, "del", Len(CMD_BUF)) /\ Len(CMD_BUF) \in Nat
    BY <1>1, <1>5, LenProperties DEF HandleEscape
  <2>2. term' \in Terminals
    BY <1>1, <2>1, TimesKeeps
  <2>3. CMD_BUF' \in Seq(Char) /\ Len(CMD_BUF') = 0
    BY <2>1
  <2> QED BY <1>1, <2>2, <2>3 DEF CInv, LineShown
<1>6. CASE ExecuteLine
  <2> DEFINE t == PutChar(term, "nl")
  <2>1. t \in Terminals /\ PutLine(t) \in Terminals
    BY <1>1, PutCharKeeps, PutLineKeeps
  <2>2. \E u \in Terminals : ShowPrompt(u)
    <3> HIDE DEF t
    <3>1. \/ ShowPrompt(t) \/ ShowPrompt(PutLine(t)) \/ ShowPrompt(Cleared)
      BY <1>6, Zenon DEF ExecuteLine, t
    <3> QED BY <2>1, <3>1, ClearedIs
  <2> QED BY <1>1, <2>2, PromptKeeps
<1>7. CASE DriverMessage
  <2>1. term' = PutLine(term) /\ ~undisturbed' /\ UNCHANGED CMD_BUF
    BY <1>7 DEF DriverMessage
  <2> QED BY <1>1, <2>1, PutLineKeeps, DisturbedKeeps
<1> QED BY <1>3, <1>4, <1>5, <1>6, <1>7 DEF ShellStep

LEMMA CInvNext ==
  ASSUME CInv, [Next]_vars
  PROVE  CInv'
<1> DEFINE t == PutChar(term, "nl")
<1>1. /\ term \in Terminals /\ t \in Terminals /\ PutLine(t) \in Terminals /\ PutLine(term) \in Terminals
      /\ Cleared \in Terminals /\ PutLine(Cleared) \in Terminals
      /\ mode # "shell" => ~undisturbed
  BY ClearedIs, PutLineKeeps, PutCharKeeps DEF CInv
<1>2. CASE ShellStep
  BY <1>2, CInvShell
<1>3. CASE Install
  <2>1. term' = PutLine(t) /\ ~undisturbed' /\ UNCHANGED CMD_BUF
    BY <1>3 DEF Install
  <2> QED BY <1>1, <2>1, DisturbedKeeps
<1>4. CASE InstallStart
  <2>1. UNCHANGED <<term, undisturbed, CMD_BUF>> /\ mode = "install"
    BY <1>4 DEF InstallStart, consoleVars
  <2> QED BY <1>1, <2>1, DisturbedKeeps
<1>5. CASE InstallCancel
  BY <1>1, <1>5, PromptKeeps DEF InstallCancel
<1>6. CASE InstallerScreen
  <2>1. term' = PutLine(Cleared) /\ UNCHANGED <<undisturbed, CMD_BUF>> /\ mode = "installer"
    BY <1>6 DEF InstallerScreen
  <2> QED BY <1>1, <2>1, DisturbedKeeps
<1>7. CASE InstallerKey
  <2>1. UNCHANGED <<term, undisturbed, CMD_BUF>> /\ mode = "installer"
    BY <1>7 DEF InstallerKey, consoleVars
  <2> QED BY <1>1, <2>1, DisturbedKeeps
<1>8. CASE InstallerEscape
  <2>1. term' = Cleared /\ UNCHANGED <<undisturbed, CMD_BUF>> /\ mode = "installer"
    BY <1>8 DEF InstallerEscape
  <2> QED BY <1>1, <2>1, DisturbedKeeps
<1>9. CASE StartDesktop
  <2>1. term' = Cleared /\ ~undisturbed' /\ UNCHANGED CMD_BUF
    BY <1>9 DEF StartDesktop
  <2> QED BY <1>1, <2>1, DisturbedKeeps
<1>10. CASE DesktopTurn
  <2>1. UNCHANGED <<term, undisturbed, CMD_BUF>> /\ mode = "desktop"
    BY <1>10 DEF DesktopTurn, consoleVars
  <2> QED BY <1>1, <2>1, DisturbedKeeps
<1>11. CASE QuitDesktop
  BY <1>1, <1>11, PromptKeeps DEF QuitDesktop
<1>12. CASE RunBarrel
  <2>1. PICK n : n = Len(barrel'.out)
    OBVIOUS
  <2>2. term' = Times(t, "text", n) /\ ~undisturbed' /\ UNCHANGED CMD_BUF
    BY <1>12, <2>1 DEF RunBarrel
  <2>3. n \in Nat
    <3>1. PICK script \in Script :
            barrel' = [script |-> script, out |-> Outcome[script].out, hangs |-> Outcome[script].hangs]
      BY <1>12 DEF RunBarrel, RunScript
    <3>2. barrel'.out = Outcome[script].out
      BY <3>1
    <3> QED BY <2>1, <3>2, OutputIsSeq
  <2>4. "text" \in Glyph \cup {"nl", "del"}
    BY DEF Glyph
  <2>5. term' \in Terminals
    BY <1>1, <2>2, <2>3, <2>4, TimesKeeps
  <2> QED BY <2>2, <2>5, DisturbedKeeps
<1>13. CASE BarrelDone
  BY <1>1, <1>13, PromptKeeps DEF BarrelDone
<1>14. CASE Reboot
  <2>1. term' = PutChar(PutLine(Cleared), "prompt") /\ CMD_BUF' = <<>> /\ mode' = "shell"
    BY <1>14 DEF Reboot
  <2>2. "prompt" \in Glyph \cup {"nl", "del"}
    BY DEF Glyph
  <2>3. term' \in Terminals
    BY <1>1, <2>1, <2>2, PutCharKeeps
  <2>4. CMD_BUF' \in Seq(Char) /\ Len(CMD_BUF') = 0
    BY <2>1
  <2> QED BY <2>1, <2>3, <2>4 DEF CInv, LineShown
<1>15. CASE BarrelGoesOn \/ UNCHANGED vars
  <2>1. UNCHANGED <<term, undisturbed, CMD_BUF, mode>>
    BY <1>15 DEF BarrelGoesOn, vars, consoleVars
  <2> QED BY <2>1 DEF CInv, LineShown
<1> HIDE DEF t
<1> QED BY <1>2, <1>3, <1>4, <1>5, <1>6, <1>7, <1>8, <1>9, <1>10, <1>11, <1>12, <1>13, <1>14, <1>15 DEF Next

(* handle_key, whatever the size of the screen: the line that Enter will    *)
(* execute is the one the user sees, through margins, scrolling and erasing. *)
THEOREM LineIsShown == Spec => []LineShown
<1>1. Init => CInv
  BY CInvInit
<1>2. CInv /\ [Next]_vars => CInv'
  BY CInvNext
<1>3. CInv => LineShown
  BY DEF CInv
<1> QED BY <1>1, <1>2, <1>3, PTL DEF Spec

-----------------------------------------------------------------------------
(* The installer *)

LEMMA DInvNext ==
  ASSUME DInv, [Next]_vars
  PROVE  DInv'
<1>1. CASE UNCHANGED installerVars
  BY <1>1 DEF DInv, InstallsShownDisk, installerVars
<1>2. CASE InstallStart
  BY <1>2 DEF InstallStart, RunInstaller, DInv, InstallsShownDisk
<1>3. CASE InstallerScreen
  BY <1>3 DEF InstallerScreen, Screen, DInv, InstallsShownDisk
<1>4. CASE InstallerKey
  <2>1. waiting /\ waiting' = FALSE /\ summary' = summary
    BY <1>4 DEF InstallerKey, WaitKey
  <2>2. CASE InstState \in DOMAIN AfterEnter /\ InstState' = AfterEnter[InstState] /\ UNCHANGED SEL_DISK
    <3>1. DOMAIN AfterEnter = {"Welcome", "DiskSelection", "PartitionView", "Summary"}
      BY DEF AfterEnter
    <3>2. InstState' \in {"Install", "Complete"} => InstState = "Summary"
      BY <2>2, <3>1 DEF AfterEnter
    <3> QED BY <2>1, <2>2, <3>2 DEF DInv, InstallsShownDisk
  <2>3. CASE InstState \in DOMAIN AfterEscape /\ InstState' = AfterEscape[InstState]
    <3>1. DOMAIN AfterEscape = {"DiskSelection", "PartitionView", "Summary"}
      BY DEF AfterEscape
    <3>2. InstState' \notin {"Install", "Complete"}
      BY <2>3, <3>1 DEF AfterEscape
    <3> QED BY <2>1, <3>2 DEF DInv, InstallsShownDisk
  <2>4. CASE InstState = "DiskSelection" /\ UNCHANGED InstState
    BY <2>1, <2>4 DEF DInv, InstallsShownDisk
  <2>5. CASE InstState = "Install" /\ UNCHANGED <<InstState, SEL_DISK, STEP>>
    BY <2>1, <2>5 DEF DInv, InstallsShownDisk
  <2> QED BY <1>4, <2>2, <2>3, <2>4, <2>5 DEF InstallerKey, WaitKey
<1>5. CASE InstallerEscape
  BY <1>5 DEF InstallerEscape, Leave, DInv, InstallsShownDisk
<1>6. CASE Reboot
  BY <1>6 DEF Reboot, DInv, InstallsShownDisk
<1> QED BY <1>1, <1>2, <1>3, <1>4, <1>5, <1>6
        DEF Next, ShellStep, Install, InstallCancel, StartDesktop, DesktopTurn, QuitDesktop,
            RunBarrel, BarrelDone, BarrelGoesOn, vars

(* run_installer, with any number of disks and steps: no way through the    *)
(* screens installs on a disk that the summary did not show.                *)
THEOREM InstallsTheShownDisk == Spec => []InstallsShownDisk
<1>1. Init => DInv
  BY DEF Init, InstallerInit, DInv, InstallsShownDisk
<1>2. DInv /\ [Next]_vars => DInv'
  BY DInvNext
<1>3. DInv => InstallsShownDisk
  BY DEF DInv
<1> QED BY <1>1, <1>2, <1>3, PTL DEF Spec

-----------------------------------------------------------------------------
(* The window manager *)

LEMMA SlotsAre ==
  /\ Slot \in SUBSET Nat /\ \A w : Listed(w) \subseteq Slot
  /\ FbW \in Nat /\ FbH \in Nat /\ MIN_W \in Nat /\ MIN_H \in Nat
  /\ TITLE_H \in Nat /\ CONTENT_PAD \in Nat /\ TERM_BUF_ROWS \in Nat \ {0} /\ TERM_BUF_COLS \in Nat
  BY WindowsAssumption DEF Slot, Listed

LEMMA LeastIs ==
  ASSUME NEW S \in SUBSET Nat, S # {}
  PROVE  Min(S) \in S /\ \A m \in S : Min(S) <= m
  BY LeastNat DEF Min

(* find_by_id finds a listed window, or none *)
LEMMA FoundIs ==
  ASSUME NEW w, NEW id
  PROVE  \/ FindById(w, id) = {}
         \/ \E c \in Listed(w) : FindById(w, id) = {c} /\ w.WINDOWS[c].id = id
<1> DEFINE same == {s \in Listed(w) : w.WINDOWS[s].id = id}
<1>1. same \in SUBSET Nat
  BY SlotsAre
<1>2. FindById(w, id) = IF same = {} THEN {} ELSE {Min(same)}
  BY DEF FindById
<1>3. same # {} => Min(same) \in same
  <2> HIDE DEF same
  <2> QED BY <1>1, LeastIs
<1>4. Min(same) \in same => Min(same) \in Listed(w) /\ w.WINDOWS[Min(same)].id = id
  OBVIOUS
<1> QED BY <1>2, <1>3, <1>4

LEMMA FreeIs ==
  ASSUME NEW w
  PROVE  \/ FindSlot(w) = {}
         \/ \E c \in Slot : /\ FindSlot(w) = {c} /\ ~w.WINDOWS[c].open
                            /\ \A r \in Slot : r < c => w.WINDOWS[r].open
<1> DEFINE free == {s \in Slot : ~w.WINDOWS[s].open}
<1>1. free \in SUBSET Nat
  BY SlotsAre
<1>2. FindSlot(w) = IF free = {} THEN {} ELSE {Min(free)}
  BY DEF FindSlot
<1>3. free # {} => Min(free) \in free /\ \A m \in free : Min(free) <= m
  <2> HIDE DEF free
  <2> QED BY <1>1, LeastIs
<1>4. ASSUME free # {}, NEW r \in Slot, r < Min(free) PROVE w.WINDOWS[r].open
  <2>1. r \notin free
    <3> HIDE DEF free
    <3>1. PICK m : m = Min(free)
      OBVIOUS
    <3>2. m \in Nat /\ r \in Nat /\ r < m
      BY <1>1, <1>3, <1>4, <3>1, SlotsAre
    <3>3. ~(m <= r)
      BY <3>2
    <3> QED BY <1>3, <1>4, <3>1, <3>3
  <2> QED BY <2>1
<1>5. Min(free) \in free => Min(free) \in Slot /\ ~w.WINDOWS[Min(free)].open
  OBVIOUS
<1> QED BY <1>2, <1>3, <1>4, <1>5

IsListed(win) == win.open \/ win.min

LEMMA ListedIs ==
  \A w : \A s : s \in Listed(w) <=> s \in Slot /\ IsListed(w.WINDOWS[s])
  BY DEF Listed, IsListed

(* What may become of a window that is not raised *)
Follows(a, b) ==
  /\ b.id = a.id
  /\ IsListed(b) => IsListed(a) /\ b.z = a.z /\ Whole(b)
  /\ b.open => a.open

LEMMA FollowersManaged ==
  ASSUME NEW w, Manages(w), NEW u \in Managers, u.NEXT_ID = w.NEXT_ID, u.TOP_Z = w.TOP_Z,
         \A s \in Slot : Follows(w.WINDOWS[s], u.WINDOWS[s])
  PROVE  Manages(u)
<1> SUFFICES ASSUME NEW s \in Listed(u) PROVE Whole(u.WINDOWS[s]) /\ Numbered(u, s)
  BY DEF Manages
<1>1. s \in Slot /\ IsListed(u.WINDOWS[s]) /\ s \in Listed(w)
  BY ListedIs DEF Follows
<1>2. Numbered(w, s)
  BY <1>1 DEF Manages
<1>3. Whole(u.WINDOWS[s])
  BY <1>1 DEF Follows
<1>4. /\ u.WINDOWS[s].id = w.WINDOWS[s].id /\ u.WINDOWS[s].z = w.WINDOWS[s].z
      /\ u.WINDOWS[s].open => w.WINDOWS[s].open
  BY <1>1 DEF Follows
<1>5. ASSUME NEW r \in Slot PROVE /\ u.WINDOWS[r].id = w.WINDOWS[r].id
                                  /\ u.WINDOWS[r].open => w.WINDOWS[r].open /\ u.WINDOWS[r].z = w.WINDOWS[r].z
  BY DEF Follows, IsListed
<1>6. Numbered(u, s)
  BY <1>2, <1>4, <1>5 DEF Numbered
<1> QED BY <1>3, <1>6

(* A window in slot c comes to the top of the z-order *)
LEMMA RaisedManaged ==
  ASSUME NEW w, Manages(w), NEW u \in Managers, NEW c \in Listed(w),
         u.NEXT_ID = w.NEXT_ID, u.TOP_Z = w.TOP_Z + 1,
         \A s \in Slot \ {c} : u.WINDOWS[s] = w.WINDOWS[s],
         u.WINDOWS[c].id = w.WINDOWS[c].id, u.WINDOWS[c].z = w.TOP_Z + 1, Whole(u.WINDOWS[c])
  PROVE  Manages(u)
<1> SUFFICES ASSUME NEW s \in Listed(u) PROVE Whole(u.WINDOWS[s]) /\ Numbered(u, s)
  BY DEF Manages
<1>1. s \in Slot /\ c \in Slot /\ s \in Listed(w)
  BY ListedIs
<1>2. Whole(w.WINDOWS[s]) /\ Numbered(w, s) /\ Numbered(w, c)
  BY <1>1 DEF Manages
<1>3. w.TOP_Z \in Nat /\ \A r \in Slot : w.WINDOWS[r].z \in Nat
  BY DEF Manages, Managers, Win
<1>4. \A r \in Slot : u.WINDOWS[r].id = w.WINDOWS[r].id
  OBVIOUS
<1>5. \A r \in Slot \ {c} : w.WINDOWS[r].open => w.WINDOWS[r].z <= w.TOP_Z
  <2> SUFFICES ASSUME NEW r \in Slot \ {c}, w.WINDOWS[r].open PROVE w.WINDOWS[r].z <= w.TOP_Z
    OBVIOUS
  <2>1. r \in Listed(w)
    BY ListedIs DEF IsListed
  <2> QED BY <2>1 DEF Manages, Numbered
<1>6. CASE s = c
  <2>1. u.WINDOWS[c].z # w.TOP_Z /\ \A r \in Slot \ {c} : w.WINDOWS[r].open => w.WINDOWS[r].z # w.TOP_Z + 1
    BY <1>3, <1>5
  <2> QED BY <1>1, <1>2, <1>3, <1>4, <1>6, <2>1 DEF Numbered
<1>7. CASE s # c
  <2>1. u.WINDOWS[s] = w.WINDOWS[s]
    BY <1>1, <1>7
  <2>2. w.WINDOWS[s].z <= w.TOP_Z
    BY <1>2 DEF Numbered
  <2>3. w.WINDOWS[s].z <= u.TOP_Z /\ w.WINDOWS[s].z # w.TOP_Z + 1
    BY <1>1, <1>3, <2>2
  <2> QED BY <1>1, <1>2, <1>4, <1>7, <2>1, <2>3 DEF Numbered
<1> QED BY <1>6, <1>7

(* A window is created in the first slot that is not open *)
LEMMA CreatedManaged ==
  ASSUME NEW w, Manages(w), NEW u \in Managers, NEW c \in Slot, \A r \in Slot : r < c => w.WINDOWS[r].open,
         u.NEXT_ID = w.NEXT_ID + 1, u.TOP_Z = w.TOP_Z + 1,
         \A s \in Slot \ {c} : u.WINDOWS[s] = w.WINDOWS[s],
         u.WINDOWS[c].id = w.NEXT_ID, u.WINDOWS[c].z = w.TOP_Z + 1, Whole(u.WINDOWS[c])
  PROVE  Manages(u)
<1> SUFFICES ASSUME NEW s \in Listed(u) PROVE Whole(u.WINDOWS[s]) /\ Numbered(u, s)
  BY DEF Manages
<1>1. s \in Slot /\ s \in Nat /\ c \in Nat
  BY ListedIs, SlotsAre
<1>2. w.TOP_Z \in Nat /\ w.NEXT_ID \in Nat \ {0} /\ \A r \in Slot : w.WINDOWS[r].z \in Nat /\ w.WINDOWS[r].id \in Nat
  BY DEF Manages, Managers, Win
<1>3. \A r \in Slot : w.WINDOWS[r].open => w.WINDOWS[r].z <= w.TOP_Z /\ w.WINDOWS[r].id \in 1 .. w.NEXT_ID - 1
  <2> SUFFICES ASSUME NEW r \in Slot, w.WINDOWS[r].open
               PROVE  w.WINDOWS[r].z <= w.TOP_Z /\ w.WINDOWS[r].id \in 1 .. w.NEXT_ID - 1
    OBVIOUS
  <2>1. r \in Listed(w)
    BY ListedIs DEF IsListed
  <2> QED BY <2>1 DEF Manages, Numbered
<1>4. CASE s = c
  <2>1. \A r \in Slot : r < c => w.WINDOWS[r].id # w.NEXT_ID /\ r # c
    BY <1>1, <1>2, <1>3, SlotsAre
  <2>2. \A r \in Slot \ {c} : w.WINDOWS[r].open => w.WINDOWS[r].z # w.TOP_Z + 1
    BY <1>2, <1>3
  <2>3. w.NEXT_ID \in 1 .. u.NEXT_ID - 1 /\ w.TOP_Z + 1 <= u.TOP_Z
    BY <1>2
  <2> QED BY <1>4, <2>1, <2>2, <2>3 DEF Numbered
<1>5. CASE s # c
  <2>1. u.WINDOWS[s] = w.WINDOWS[s] /\ s \in Listed(w)
    BY <1>1, <1>5, ListedIs
  <2>2. Whole(w.WINDOWS[s]) /\ Numbered(w, s)
    BY <2>1 DEF Manages
  <2>3. w.WINDOWS[s].z <= w.TOP_Z /\ w.WINDOWS[s].id \in 1 .. w.NEXT_ID - 1
    BY <2>2 DEF Numbered
  <2>4. /\ w.WINDOWS[s].z <= u.TOP_Z /\ w.WINDOWS[s].z # w.TOP_Z + 1
        /\ w.WINDOWS[s].id \in 1 .. u.NEXT_ID - 1 /\ w.WINDOWS[s].id # w.NEXT_ID
    BY <1>1, <1>2, <2>3
  <2> QED BY <1>1, <1>5, <2>1, <2>2, <2>4 DEF Numbered
<1> QED BY <1>4, <1>5

(* A function over the windows of w that become other windows *)
LEMMA UpdatedIs ==
  ASSUME NEW w \in Managers, NEW f \in [Slot -> Win], NEW n \in Nat \ {0}, NEW z \in Nat,
         NEW u, u = [WINDOWS |-> f, NEXT_ID |-> n, TOP_Z |-> z, row |-> w.row, col |-> w.col]
  PROVE  /\ u \in Managers /\ u.WINDOWS = f /\ u.NEXT_ID = n /\ u.TOP_Z = z
         /\ u.row = w.row /\ u.col = w.col
  BY DEF Managers

(* What an operation on the windows must see to *)
Safe(w, u) == Manages(u) /\ \A d, r : Grabs(w, d, r) => Grabs(u, d, r)

LEMMA ClosedSlotIs ==
  ASSUME NEW id \in Nat
  PROVE  /\ ClosedSlot(id) \in Win /\ ClosedSlot(id).id = id
         /\ ~ClosedSlot(id).open /\ ~ClosedSlot(id).min
<1>1. ContentOf(0, 0, 0, 0) \in [x : Int, y : Int, w : Int, h : Int]
  BY SlotsAre DEF ContentOf
<1> QED BY <1>1 DEF ClosedSlot, Win

(* bring_to_front, of a window that is there *)
LEMMA FrontSafe ==
  ASSUME NEW w, Manages(w), NEW id
  PROVE  LET u == BringToFront(w, id)
         IN  /\ Safe(w, u) /\ Listed(u) = Listed(w) /\ u.row = w.row /\ u.col = w.col
             /\ \A s \in Slot : /\ u.WINDOWS[s].open = w.WINDOWS[s].open /\ u.WINDOWS[s].min = w.WINDOWS[s].min
                                /\ u.WINDOWS[s].id = w.WINDOWS[s].id
                                /\ u.WINDOWS[s].drag = w.WINDOWS[s].drag
                                /\ u.WINDOWS[s].resizing = w.WINDOWS[s].resizing
<1> DEFINE u == BringToFront(w, id)
           f == [s \in Slot |-> IF s \in FindById(w, id) THEN [w.WINDOWS[s] EXCEPT !.z = w.TOP_Z + 1]
                                ELSE w.WINDOWS[s]]
<1>1. w \in Managers /\ \A s \in Slot : w.WINDOWS[s] \in Win
  BY DEF Manages, Managers
<1>2. CASE FindById(w, id) = {}
  <2>1. u = w
    BY <1>2 DEF BringToFront
  <2> QED BY <2>1 DEF Safe
<1>3. ASSUME NEW c \in Listed(w), FindById(w, id) = {c}
      PROVE  /\ Manages(u) /\ u.row = w.row /\ u.col = w.col
             /\ \A s \in Slot : /\ u.WINDOWS[s].open = w.WINDOWS[s].open /\ u.WINDOWS[s].min = w.WINDOWS[s].min
                                /\ u.WINDOWS[s].id = w.WINDOWS[s].id
                                /\ u.WINDOWS[s].drag = w.WINDOWS[s].drag
                                /\ u.WINDOWS[s].resizing = w.WINDOWS[s].resizing
  <2>1. u = [WINDOWS |-> f, NEXT_ID |-> w.NEXT_ID, TOP_Z |-> w.TOP_Z + 1, row |-> w.row, col |-> w.col]
    BY <1>1, <1>3 DEF BringToFront, Update, Managers
  <2>2. w.NEXT_ID \in Nat \ {0} /\ w.TOP_Z \in Nat /\ w.TOP_Z + 1 \in Nat
    BY <1>1 DEF Managers
  <2>3. ASSUME NEW a \in Win
        PROVE  /\ [a EXCEPT !.z = w.TOP_Z + 1] \in Win /\ [a EXCEPT !.z = w.TOP_Z + 1].z = w.TOP_Z + 1
               /\ LET b == [a EXCEPT !.z = w.TOP_Z + 1]
                  IN  b.id = a.id /\ b.open = a.open /\ b.min = a.min /\ b.drag = a.drag /\ b.resizing = a.resizing
                      /\ (Whole(a) => Whole(b))
    BY <2>2 DEF Win, Whole
  <2>4. f \in [Slot -> Win]
    BY <1>1, <2>3
  <2>5. f[c] = [w.WINDOWS[c] EXCEPT !.z = w.TOP_Z + 1] /\ \A s \in Slot \ {c} : f[s] = w.WINDOWS[s]
    BY <1>3, SlotsAre
  <2>6. c \in Slot /\ Whole(w.WINDOWS[c])
    BY <1>3, ListedIs DEF Manages
  <2> HIDE DEF u, f
  <2>7. u \in Managers /\ u.WINDOWS = f /\ u.NEXT_ID = w.NEXT_ID /\ u.TOP_Z = w.TOP_Z + 1
        /\ u.row = w.row /\ u.col = w.col
    BY <1>1, <2>1, <2>2, <2>4, UpdatedIs
  <2>8. /\ f[c].z = w.TOP_Z + 1 /\ Whole(f[c]) /\ f[c].id = w.WINDOWS[c].id
        /\ f[c].open = w.WINDOWS[c].open /\ f[c].min = w.WINDOWS[c].min
        /\ f[c].drag = w.WINDOWS[c].drag /\ f[c].resizing = w.WINDOWS[c].resizing
    BY <1>1, <2>3, <2>5, <2>6
  <2>9. Manages(u)
    BY <1>3, <2>5, <2>7, <2>8, RaisedManaged
  <2> QED BY <2>5, <2>7, <2>8, <2>9
<1>4. CASE FindById(w, id) # {}
  <2>1. PICK c \in Listed(w) : FindById(w, id) = {c}
    BY <1>4, FoundIs
  <2>2. /\ Manages(u) /\ u.row = w.row /\ u.col = w.col
        /\ \A s \in Slot : /\ u.WINDOWS[s].open = w.WINDOWS[s].open /\ u.WINDOWS[s].min = w.WINDOWS[s].min
                           /\ u.WINDOWS[s].id = w.WINDOWS[s].id
                           /\ u.WINDOWS[s].drag = w.WINDOWS[s].drag
                           /\ u.WINDOWS[s].resizing = w.WINDOWS[s].resizing
    BY <1>3, <2>1
  <2> HIDE DEF u
  <2>3. Listed(u) = Listed(w)
    BY <2>2 DEF Listed
  <2>4. \A d, r : Grabs(w, d, r) => Grabs(u, d, r)
    BY <2>2 DEF Grabs
  <2> QED BY <2>2, <2>3, <2>4 DEF Safe, u
<1> QED BY <1>2, <1>4

(* No window is held when the mouse holds none: ids begin with 1 *)
LEMMA NoneHeld ==
  ASSUME NEW w, Manages(w), Grabs(w, 0, 0)
  PROVE  \A s \in Listed(w) : w.WINDOWS[s].drag = <<>> /\ ~w.WINDOWS[s].resizing
<1> SUFFICES ASSUME NEW s \in Listed(w) PROVE w.WINDOWS[s].drag = <<>> /\ ~w.WINDOWS[s].resizing
  OBVIOUS
<1>1. s \in Slot /\ IsListed(w.WINDOWS[s]) /\ Whole(w.WINDOWS[s]) /\ Numbered(w, s)
  BY ListedIs DEF Manages
<1>2. w.WINDOWS[s].id # 0
  <2>1. w.NEXT_ID \in Nat
    BY DEF Manages, Managers
  <2> QED BY <1>1, <2>1 DEF Numbered
<1> QED BY <1>1, <1>2 DEF Grabs, Whole, IsListed

LEMMA HiddenIs ==
  ASSUME NEW a \in Win, Whole(a), a.drag = <<>>, ~a.resizing
  PROVE  LET b == [a EXCEPT !.open = FALSE, !.min = TRUE, !.saved = <<a.x, a.y>>]
         IN  b \in Win /\ Whole(b) /\ b.id = a.id /\ b.z = a.z /\ ~b.open
  BY DEF Win, Whole

(* minimize, while the mouse holds nothing *)
LEMMA MinimizeKeeps ==
  ASSUME NEW w, Manages(w), NEW id, Grabs(w, 0, 0)
  PROVE  Manages(Minimize(w, id)) /\ Grabs(Minimize(w, id), 0, 0)
<1> DEFINE u == Minimize(w, id)
           hide(a) == IF a.open THEN [a EXCEPT !.open = FALSE, !.min = TRUE, !.saved = <<a.x, a.y>>] ELSE a
           f == [s \in Slot |-> IF s \in FindById(w, id) THEN hide(w.WINDOWS[s]) ELSE w.WINDOWS[s]]
<1>1. w \in Managers /\ \A s \in Slot : w.WINDOWS[s] \in Win
  BY DEF Manages, Managers
<1>2. u = [WINDOWS |-> f, NEXT_ID |-> w.NEXT_ID, TOP_Z |-> w.TOP_Z, row |-> w.row, col |-> w.col]
  <2>1. u = [w EXCEPT !.WINDOWS = f]
    <3>1. u = Update(w, FindById(w, id), hide)
      BY DEF Minimize
    <3> QED BY <3>1, <1>1 DEF Update, Managers
  <2> HIDE DEF f, u
  <2> QED BY <1>1, <2>1 DEF Managers
<1>3. ASSUME NEW s \in Slot, w.WINDOWS[s].open
      PROVE  LET a == w.WINDOWS[s]
             IN  /\ IsListed(a) /\ hide(a) \in Win /\ Whole(hide(a))
                 /\ hide(a).id = a.id /\ hide(a).z = a.z /\ ~hide(a).open
  <2>1. s \in Listed(w) /\ IsListed(w.WINDOWS[s])
    BY <1>3, ListedIs DEF IsListed
  <2>2. Whole(w.WINDOWS[s]) /\ w.WINDOWS[s].drag = <<>> /\ ~w.WINDOWS[s].resizing
    BY <2>1, NoneHeld DEF Manages
  <2> QED BY <1>1, <1>3, <2>1, <2>2, HiddenIs
<1>4. f \in [Slot -> Win]
  BY <1>1, <1>3
<1>5. \A s \in Slot : \/ f[s] = w.WINDOWS[s]
                      \/ f[s] = hide(w.WINDOWS[s]) /\ w.WINDOWS[s].open
  OBVIOUS
<1>6. u \in Managers /\ u.WINDOWS = f /\ u.NEXT_ID = w.NEXT_ID /\ u.TOP_Z = w.TOP_Z
  <2>1. w.NEXT_ID \in Nat \ {0} /\ w.TOP_Z \in Nat
    BY <1>1 DEF Managers
  <2> HIDE DEF u, f
  <2> QED BY <1>1, <1>2, <1>4, <2>1, UpdatedIs
<1> HIDE DEF u, f, hide
<1>7. ASSUME NEW s \in Slot
      PROVE  /\ Follows(w.WINDOWS[s], u.WINDOWS[s])
             /\ u.WINDOWS[s].open => u.WINDOWS[s] = w.WINDOWS[s]
  <2>1. IsListed(w.WINDOWS[s]) => Whole(w.WINDOWS[s])
    BY ListedIs DEF Manages
  <2> QED BY <1>3, <1>5, <1>6, <2>1 DEF Follows
<1>8. Manages(u)
  BY <1>6, <1>7, FollowersManaged
<1>9. Grabs(u, 0, 0)
  BY <1>7 DEF Grabs
<1> QED BY <1>8, <1>9 DEF u

LEMMA ShownIs ==
  ASSUME NEW a \in Win, Whole(a), a.min, NEW z \in Nat
  PROVE  LET b == [a EXCEPT !.open = TRUE, !.min = FALSE, !.z = z,
                            !.x = a.saved[1], !.y = a.saved[2], !.saved = <<>>]
         IN  b \in Win /\ Whole(b) /\ b.id = a.id /\ b.z = z /\ b.drag = <<>> /\ ~b.resizing
<1>1. a.saved = <<a.x, a.y>> /\ a.drag = <<>> /\ ~a.resizing
  BY DEF Whole
<1>2. a.saved[1] = a.x /\ a.saved[2] = a.y
  BY <1>1
<1> QED BY <1>1, <1>2 DEF Win, Whole

(* restore: a minimized window comes back where it was *)
LEMMA RestoreSafe ==
  ASSUME NEW w, Manages(w), NEW id
  PROVE  Safe(w, Restore(w, id))
<1> DEFINE u == Restore(w, id)
           found == {s \in FindById(w, id) : w.WINDOWS[s].min}
           show(a) == [a EXCEPT !.open = TRUE, !.min = FALSE, !.z = w.TOP_Z + 1,
                                !.x = a.saved[1], !.y = a.saved[2], !.saved = <<>>]
           f == [s \in Slot |-> IF s \in found THEN show(w.WINDOWS[s]) ELSE w.WINDOWS[s]]
<1>1. w \in Managers /\ \A s \in Slot : w.WINDOWS[s] \in Win
  BY DEF Manages, Managers
<1>2. CASE found = {}
  <2>1. u = w
    BY <1>2 DEF Restore
  <2> QED BY <2>1 DEF Safe
<1>3. CASE found # {}
  <2>1. PICK c \in Listed(w) : FindById(w, id) = {c} /\ w.WINDOWS[c].min
    BY <1>3, FoundIs
  <2>2. found = {c} /\ c \in Slot /\ Whole(w.WINDOWS[c])
    BY <2>1, ListedIs DEF Manages
  <2>3. u = [WINDOWS |-> f, NEXT_ID |-> w.NEXT_ID, TOP_Z |-> w.TOP_Z + 1, row |-> w.row, col |-> w.col]
    BY <1>1, <1>3 DEF Restore, Update, Managers
  <2>4. w.NEXT_ID \in Nat \ {0} /\ w.TOP_Z \in Nat /\ w.TOP_Z + 1 \in Nat
    BY <1>1 DEF Managers
  <2>5. LET b == show(w.WINDOWS[c])
        IN  b \in Win /\ Whole(b) /\ b.id = w.WINDOWS[c].id /\ b.z = w.TOP_Z + 1 /\ b.drag = <<>> /\ ~b.resizing
    BY <1>1, <2>1, <2>2, <2>4, ShownIs
  <2>6. f[c] = show(w.WINDOWS[c]) /\ \A s \in Slot \ {c} : f[s] = w.WINDOWS[s]
    BY <2>2
  <2>7. f \in [Slot -> Win]
    <3> HIDE DEF show
    <3> QED BY <1>1, <2>2, <2>5
  <2> HIDE DEF u, f, found, show
  <2>8. u \in Managers /\ u.WINDOWS = f /\ u.NEXT_ID = w.NEXT_ID /\ u.TOP_Z = w.TOP_Z + 1
    BY <1>1, <2>3, <2>4, <2>7, UpdatedIs
  <2>9. Manages(u)
    BY <2>1, <2>5, <2>6, <2>8, RaisedManaged
  <2>10. \A d, r : Grabs(w, d, r) => Grabs(u, d, r)
    BY <2>5, <2>6, <2>8 DEF Grabs
  <2> QED BY <2>9, <2>10 DEF Safe, u
<1> QED BY <1>2, <1>3

(* create, at a place where the window fits *)
LEMMA CreateSafe ==
  ASSUME NEW w, Manages(w), NEW width \in Nat, NEW height \in Nat, NEW x \in 0 .. FbW - width,
         NEW y \in 0 .. FbH - height, width >= MIN_W, height >= MIN_H, NEW app \in App
  PROVE  LET u == Create(w, x, y, width, height, app)
         IN  Safe(w, u) /\ u.row = w.row /\ u.col = w.col
<1> DEFINE u == Create(w, x, y, width, height, app)
           new == [id |-> w.NEXT_ID, open |-> TRUE, min |-> FALSE,
                   x |-> x, y |-> y, w |-> width, h |-> height,
                   content |-> ContentOf(x, y, width, height), drag |-> <<>>,
                   resizing |-> FALSE, saved |-> <<>>, z |-> w.TOP_Z + 1, app |-> app]
           f == [s \in Slot |-> IF s \in FindSlot(w) THEN new ELSE w.WINDOWS[s]]
<1>1. w \in Managers /\ \A s \in Slot : w.WINDOWS[s] \in Win
  BY DEF Manages, Managers
<1>2. CASE FindSlot(w) = {}
  <2>1. u = w
    BY <1>2 DEF Create
  <2> QED BY <2>1 DEF Safe
<1>3. CASE FindSlot(w) # {}
  <2>1. PICK c \in Slot : FindSlot(w) = {c} /\ ~w.WINDOWS[c].open /\ \A r \in Slot : r < c => w.WINDOWS[r].open
    BY <1>3, FreeIs
  <2>2. w.NEXT_ID \in Nat \ {0} /\ w.NEXT_ID + 1 \in Nat \ {0} /\ w.TOP_Z \in Nat /\ w.TOP_Z + 1 \in Nat
    BY <1>1 DEF Managers
  <2>3. u = [WINDOWS |-> f, NEXT_ID |-> w.NEXT_ID + 1, TOP_Z |-> w.TOP_Z + 1, row |-> w.row, col |-> w.col]
    BY <1>1, <1>3 DEF Create, Update, Managers
  <2>4. /\ x \in Int /\ y \in Int /\ width \in Int /\ height \in Int
        /\ ContentOf(x, y, width, height) \in [x : Int, y : Int, w : Int, h : Int]
    <3>1. x \in Int /\ y \in Int /\ width \in Int /\ height \in Int
      BY SlotsAre
    <3> QED BY <3>1, SlotsAre DEF ContentOf
  <2>5. new \in Win
    BY <2>2, <2>4 DEF Win
  <2>6. Whole(new) /\ new.id = w.NEXT_ID /\ new.z = w.TOP_Z + 1 /\ new.drag = <<>> /\ ~new.resizing
    BY DEF Whole
  <2>7. f[c] = new /\ \A s \in Slot \ {c} : f[s] = w.WINDOWS[s]
    BY <2>1
  <2>8. f \in [Slot -> Win]
    <3> HIDE DEF new
    <3> QED BY <1>1, <2>5
  <2> HIDE DEF u, f, new
  <2>9. /\ u \in Managers /\ u.WINDOWS = f /\ u.NEXT_ID = w.NEXT_ID + 1 /\ u.TOP_Z = w.TOP_Z + 1
        /\ u.row = w.row /\ u.col = w.col
    BY <1>1, <2>2, <2>3, <2>8, UpdatedIs
  <2>10. Manages(u)
    BY <2>1, <2>6, <2>7, <2>9, CreatedManaged
  <2>11. \A d, r : Grabs(w, d, r) => Grabs(u, d, r)
    BY <2>6, <2>7, <2>9 DEF Grabs
  <2> QED BY <2>9, <2>10, <2>11 DEF Safe, u
<1> QED BY <1>2, <1>3

(* The terminal's cursor moves *)
LEMMA TextSafe ==
  ASSUME NEW w, Manages(w), NEW u, u.WINDOWS = w.WINDOWS, u.NEXT_ID = w.NEXT_ID, u.TOP_Z = w.TOP_Z,
         u \in Managers
  PROVE  Safe(w, u) /\ Listed(u) = Listed(w)
<1>1. Listed(u) = Listed(w)
  BY DEF Listed
<1> QED BY <1>1 DEF Safe, Manages, Numbered, Grabs

LEMMA RowIs ==
  ASSUME NEW w \in Managers, NEW r \in 0 .. TERM_BUF_ROWS - 1, NEW c \in 0 .. TERM_BUF_COLS, NEW u,
         u = [WINDOWS |-> w.WINDOWS, NEXT_ID |-> w.NEXT_ID, TOP_Z |-> w.TOP_Z, row |-> r, col |-> c]
  PROVE  u \in Managers /\ u.WINDOWS = w.WINDOWS /\ u.NEXT_ID = w.NEXT_ID /\ u.TOP_Z = w.TOP_Z
  BY DEF Managers

LEMMA BannerSafe ==
  ASSUME NEW w, Manages(w), NEW app, NEW lines \in Nat
  PROVE  Safe(w, Banner(w, app, lines))
<1> DEFINE u == Banner(w, app, lines)
           below == (IF app = "Terminal" THEN 0 ELSE w.row) + lines
           row == IF below < TERM_BUF_ROWS THEN below ELSE TERM_BUF_ROWS - 1
           col == IF TERM_BUF_COLS < 2 THEN TERM_BUF_COLS ELSE 2
<1>1. w \in Managers /\ w.row \in 0 .. TERM_BUF_ROWS - 1
  BY DEF Manages, Managers
<1>2. row \in 0 .. TERM_BUF_ROWS - 1 /\ col \in 0 .. TERM_BUF_COLS /\ 0 \in 0 .. TERM_BUF_COLS
  BY <1>1, SlotsAre
<1>3. \/ u = w
      \/ u = [WINDOWS |-> w.WINDOWS, NEXT_ID |-> w.NEXT_ID, TOP_Z |-> w.TOP_Z, row |-> row, col |-> col]
      \/ u = [WINDOWS |-> w.WINDOWS, NEXT_ID |-> w.NEXT_ID, TOP_Z |-> w.TOP_Z, row |-> row, col |-> 0]
  BY <1>1 DEF Banner, Managers
<1> HIDE DEF u, row, col
<1>4. u = w \/ (u \in Managers /\ u.WINDOWS = w.WINDOWS /\ u.NEXT_ID = w.NEXT_ID /\ u.TOP_Z = w.TOP_Z)
  BY <1>1, <1>2, <1>3, RowIs
<1>5. Safe(w, w)
  BY DEF Safe
<1> QED BY <1>4, <1>5, TextSafe DEF u

LEMMA KeySafe ==
  ASSUME NEW w, Manages(w), NEW ch \in {"char", "back"}
  PROVE  Safe(w, SendKeyToActive(w, ch)) /\ Listed(SendKeyToActive(w, ch)) = Listed(w)
<1> DEFINE u == SendKeyToActive(w, ch)
           left == IF w.col > 0 THEN w.col - 1 ELSE 0
           right == IF w.col < TERM_BUF_COLS THEN w.col + 1 ELSE w.col
<1>1. w \in Managers /\ w.row \in 0 .. TERM_BUF_ROWS - 1 /\ w.col \in 0 .. TERM_BUF_COLS
  BY DEF Manages, Managers
<1>2. left \in 0 .. TERM_BUF_COLS /\ right \in 0 .. TERM_BUF_COLS
  BY <1>1, SlotsAre
<1>3. \/ u = w
      \/ u = [WINDOWS |-> w.WINDOWS, NEXT_ID |-> w.NEXT_ID, TOP_Z |-> w.TOP_Z, row |-> w.row, col |-> left]
      \/ u = [WINDOWS |-> w.WINDOWS, NEXT_ID |-> w.NEXT_ID, TOP_Z |-> w.TOP_Z, row |-> w.row, col |-> right]
  BY <1>1 DEF SendKeyToActive, TerminalWrite, Managers
<1> HIDE DEF u, left, right
<1>4. u = w \/ (u \in Managers /\ u.WINDOWS = w.WINDOWS /\ u.NEXT_ID = w.NEXT_ID /\ u.TOP_Z = w.TOP_Z)
  BY <1>1, <1>2, <1>3, RowIs
<1>5. Safe(w, w)
  BY DEF Safe
<1> QED BY <1>4, <1>5, TextSafe DEF u

LEMMA SafeIsTransitive ==
  ASSUME NEW w, NEW v, NEW u, Safe(w, v), Safe(v, u)
  PROVE  Safe(w, u)
  BY DEF Safe

(* What a menu or an icon starts *)
LEMMA LaunchSafe ==
  ASSUME NEW w, Manages(w), NEW action, NEW lines \in Nat
  PROVE  Safe(w, Launch(w, action, lines))
<1> DEFINE x == (FbW - DefW) \div 2
           y == (FbH - DefH) \div 3
           v == Create(w, x, y, Size(action).w, Size(action).h, action)
<1>1. CASE action \in App /\ FindSlot(w) # {}
  <2>1. /\ DefW \in 0 .. FbW /\ DefH \in 0 .. FbH
        /\ Size(action).w \in MIN_W .. FbW - x /\ Size(action).h \in MIN_H .. FbH - y
    BY <1>1, DesktopAssumption
  <2>2. x \in Nat /\ y \in Nat
    BY <2>1, SlotsAre
  <2>3. PICK width, height : width = Size(action).w /\ height = Size(action).h
    OBVIOUS
  <2> HIDE DEF x, y
  <2>4. /\ width \in Nat /\ height \in Nat /\ x \in 0 .. FbW - width /\ y \in 0 .. FbH - height
        /\ width >= MIN_W /\ height >= MIN_H
    BY <2>1, <2>2, <2>3, SlotsAre
  <2>5. Safe(w, v)
    BY <1>1, <2>3, <2>4, CreateSafe
  <2>6. Safe(v, Banner(v, action, lines))
    <3> HIDE DEF v
    <3> QED BY <2>5, BannerSafe DEF Safe
  <2>7. Launch(w, action, lines) = Banner(v, action, lines)
    BY <1>1 DEF Launch, x, y
  <2> HIDE DEF v
  <2> QED BY <2>5, <2>6, <2>7, SafeIsTransitive
<1>2. CASE ~(action \in App /\ FindSlot(w) # {})
  <2>1. Launch(w, action, lines) = w
    BY <1>2 DEF Launch
  <2> QED BY <2>1 DEF Safe
<1> QED BY <1>1, <1>2

LEMMA ClampIs ==
  ASSUME NEW v \in Int, NEW lo \in Int, NEW hi \in Int, lo <= hi
  PROVE  Clamp(v, lo, hi) \in lo .. hi
  BY DEF Clamp

(* A window follows the mouse *)
MovedTo(a, x, y) == [a EXCEPT !.x = x, !.y = y, !.content = ContentOf(x, y, a.w, a.h)]

LEMMA MovedIs ==
  ASSUME NEW a \in Win, Whole(a), a.drag # <<>>, NEW x, x \in 0 .. FbW - a.w, NEW y, y \in 0 .. FbH - a.h
  PROVE  LET b == MovedTo(a, x, y)
         IN  /\ b \in Win /\ Whole(b) /\ b.id = a.id /\ b.z = a.z /\ b.open = a.open /\ b.min = a.min
             /\ b.drag = a.drag /\ b.resizing = a.resizing
<1>1. ContentOf(x, y, a.w, a.h) \in [x : Int, y : Int, w : Int, h : Int] /\ x \in Int /\ y \in Int
  <2>1. a.w \in Int /\ a.h \in Int /\ x \in Int /\ y \in Int
    BY SlotsAre DEF Win
  <2> QED BY <2>1, SlotsAre DEF ContentOf
<1>2. ~a.min
  BY DEF Whole
<1>3. PICK c : c = ContentOf(x, y, a.w, a.h)
  OBVIOUS
<1>4. MovedTo(a, x, y) = [a EXCEPT !.x = x, !.y = y, !.content = c]
  BY <1>3 DEF MovedTo
<1>5. [a EXCEPT !.x = x, !.y = y, !.content = c] \in Win
  BY <1>1, <1>3 DEF Win
<1>6. LET b == [a EXCEPT !.x = x, !.y = y, !.content = c]
      IN  /\ b.id = a.id /\ b.z = a.z /\ b.open = a.open /\ b.min = a.min /\ b.w = a.w /\ b.h = a.h
          /\ b.drag = a.drag /\ b.resizing = a.resizing /\ b.x = x /\ b.y = y /\ b.content = c
  BY DEF Win
<1> QED BY <1>2, <1>3, <1>4, <1>5, <1>6 DEF Whole

(* A window takes another size *)
SizedTo(a, w, h) == [a EXCEPT !.w = w, !.h = h, !.content = ContentOf(a.x, a.y, w, h)]

LEMMA SizedIs ==
  ASSUME NEW a \in Win, Whole(a), a.resizing, NEW w, w \in MIN_W .. FbW - a.x, NEW h, h \in MIN_H .. FbH - a.y
  PROVE  LET b == SizedTo(a, w, h)
         IN  /\ b \in Win /\ Whole(b) /\ b.id = a.id /\ b.z = a.z /\ b.open = a.open /\ b.min = a.min
             /\ b.drag = a.drag /\ b.resizing = a.resizing
<1>1. ContentOf(a.x, a.y, w, h) \in [x : Int, y : Int, w : Int, h : Int] /\ w \in Int /\ h \in Int
  <2>1. a.x \in Int /\ a.y \in Int /\ w \in Int /\ h \in Int
    BY SlotsAre DEF Win
  <2> QED BY <2>1, SlotsAre DEF ContentOf
<1>2. ~a.min /\ a.x \in 0 .. FbW - w /\ a.y \in 0 .. FbH - h
  <2>1. a.x \in Int /\ a.y \in Int /\ a.x >= 0 /\ a.y >= 0
    BY SlotsAre DEF Win, Whole
  <2>2. ~a.min
    BY DEF Whole
  <2> QED BY <1>1, <2>1, <2>2, SlotsAre
<1>3. PICK c : c = ContentOf(a.x, a.y, w, h)
  OBVIOUS
<1>4. SizedTo(a, w, h) = [a EXCEPT !.w = w, !.h = h, !.content = c]
  BY <1>3 DEF SizedTo
<1>5. [a EXCEPT !.w = w, !.h = h, !.content = c] \in Win
  BY <1>1, <1>3 DEF Win
<1>6. LET b == [a EXCEPT !.w = w, !.h = h, !.content = c]
      IN  /\ b.id = a.id /\ b.z = a.z /\ b.open = a.open /\ b.min = a.min /\ b.w = w /\ b.h = h
          /\ b.drag = a.drag /\ b.resizing = a.resizing /\ b.x = a.x /\ b.y = a.y /\ b.content = c
  BY DEF Win
<1>7. w >= MIN_W /\ h >= MIN_H
  BY <1>1, SlotsAre
<1> QED BY <1>2, <1>3, <1>4, <1>5, <1>6, <1>7 DEF Whole

(* What becomes of the windows while one is dragged or resized *)
Held(a, b) ==
  /\ b \in Win /\ b.id = a.id /\ b.z = a.z /\ b.open = a.open /\ b.min = a.min
  /\ b.drag = a.drag /\ b.resizing = a.resizing
  /\ IsListed(a) => Whole(b)

LEMMA HeldSafe ==
  ASSUME NEW w, Manages(w), NEW f, NEW u,
         u = [WINDOWS |-> f, NEXT_ID |-> w.NEXT_ID, TOP_Z |-> w.TOP_Z, row |-> w.row, col |-> w.col],
         DOMAIN f = Slot, f = [s \in Slot |-> f[s]], \A s \in Slot : Held(w.WINDOWS[s], f[s])
  PROVE  Safe(w, u) /\ Listed(u) = Listed(w)
<1>1. w \in Managers /\ w.NEXT_ID \in Nat \ {0} /\ w.TOP_Z \in Nat
  BY DEF Manages, Managers
<1>2. f \in [Slot -> Win]
  BY DEF Held
<1>3. u \in Managers /\ u.WINDOWS = f /\ u.NEXT_ID = w.NEXT_ID /\ u.TOP_Z = w.TOP_Z
  BY <1>1, <1>2, UpdatedIs
<1>4. \A s \in Slot : Follows(w.WINDOWS[s], u.WINDOWS[s])
  BY <1>3 DEF Held, Follows, IsListed
<1>5. Manages(u)
  BY <1>3, <1>4, FollowersManaged
<1>6. Listed(u) = Listed(w)
  BY <1>3 DEF Held, Listed
<1>7. \A d, r : Grabs(w, d, r) => Grabs(u, d, r)
  BY <1>3 DEF Held, Grabs
<1> QED BY <1>5, <1>6, <1>7 DEF Safe

LEMMA DragSafe ==
  ASSUME NEW w, Manages(w), NEW id, NEW mx \in Int, NEW my \in Int
  PROVE  Safe(w, DragUpdate(w, id, mx, my)) /\ Listed(DragUpdate(w, id, mx, my)) = Listed(w)
<1> DEFINE u == DragUpdate(w, id, mx, my)
           x(a) == Clamp(mx - a.drag[1], 0, FbW - a.w)
           y(a) == Clamp(my - a.drag[2], 0, FbH - a.h)
           move(a) == IF a.drag = <<>> THEN a
                      ELSE [a EXCEPT !.x = x(a), !.y = y(a), !.content = ContentOf(x(a), y(a), a.w, a.h)]
           f == [s \in Slot |-> IF s \in FindById(w, id) THEN move(w.WINDOWS[s]) ELSE w.WINDOWS[s]]
<1>1. w \in Managers /\ \A s \in Slot : w.WINDOWS[s] \in Win
  BY DEF Manages, Managers
<1>2. u = [WINDOWS |-> f, NEXT_ID |-> w.NEXT_ID, TOP_Z |-> w.TOP_Z, row |-> w.row, col |-> w.col]
  <2>1. u = [w EXCEPT !.WINDOWS = f]
    <3>1. u = Update(w, FindById(w, id), move)
      BY DEF DragUpdate
    <3> QED BY <3>1, <1>1 DEF Update, Managers
  <2> HIDE DEF f, u
  <2> QED BY <1>1, <2>1 DEF Managers
<1>3. ASSUME NEW s \in Slot PROVE Held(w.WINDOWS[s], f[s])
  <2>1. PICK a \in Win : a = w.WINDOWS[s]
    BY <1>1
  <2>2. IsListed(a) => Whole(a)
    BY <2>1, ListedIs DEF Manages
  <2>3. Held(a, a)
    BY <2>2 DEF Held
  <2>4. ASSUME s \in FindById(w, id), a.drag # <<>> PROVE Held(a, move(a))
    <3>1. s \in Listed(w)
      BY <2>4, FoundIs
    <3>2. Whole(a)
      BY <2>1, <3>1 DEF Manages
    <3>3. a.drag[1] \in Int /\ a.drag[2] \in Int /\ a.w \in Int /\ a.h \in Int /\ 0 <= FbW - a.w /\ 0 <= FbH - a.h
      <4>1. a.drag \in Int \X Int /\ a.w \in Int /\ a.h \in Int /\ a.x \in Int /\ a.y \in Int
        BY <2>4 DEF Win
      <4>2. a.x >= 0 /\ a.x <= FbW - a.w /\ a.y >= 0 /\ a.y <= FbH - a.h
        BY <3>2, <4>1, SlotsAre DEF Whole
      <4> QED BY <4>1, <4>2, SlotsAre
    <3>4. x(a) \in 0 .. FbW - a.w /\ y(a) \in 0 .. FbH - a.h
      <4>1. PICK p, q, m, n : p = mx - a.drag[1] /\ q = my - a.drag[2] /\ m = FbW - a.w /\ n = FbH - a.h
        OBVIOUS
      <4>2. p \in Int /\ q \in Int /\ m \in Int /\ n \in Int /\ 0 <= m /\ 0 <= n
        BY <3>3, <4>1, SlotsAre
      <4>3. Clamp(p, 0, m) \in 0 .. m /\ Clamp(q, 0, n) \in 0 .. n
        BY <4>2, ClampIs
      <4> QED BY <4>1, <4>3
    <3>5. move(a) = MovedTo(a, x(a), y(a))
      BY <2>4 DEF MovedTo
    <3> HIDE DEF x, y, move
    <3> QED BY <2>4, <3>2, <3>4, <3>5, MovedIs DEF Held
  <2>5. f[s] = a \/ (s \in FindById(w, id) /\ a.drag # <<>> /\ f[s] = move(a))
    BY <2>1
  <2> HIDE DEF f, move
  <2> QED BY <2>1, <2>3, <2>4, <2>5
<1>4. DOMAIN f = Slot /\ f = [s \in Slot |-> f[s]]
  OBVIOUS
<1> HIDE DEF u, f
<1>5. Safe(w, u) /\ Listed(u) = Listed(w)
  BY <1>2, <1>3, <1>4, HeldSafe
<1> QED BY <1>5 DEF u

LEMMA ResizeSafe ==
  ASSUME NEW w, Manages(w), NEW id, NEW mx \in Int, NEW my \in Int
  PROVE  Safe(w, ResizeUpdate(w, id, mx, my)) /\ Listed(ResizeUpdate(w, id, mx, my)) = Listed(w)
<1> DEFINE u == ResizeUpdate(w, id, mx, my)
           width(a) == Clamp(mx - a.x, MIN_W, FbW - a.x)
           height(a) == Clamp(my - a.y, MIN_H, FbH - a.y)
           size(a) == IF ~a.resizing THEN a
                      ELSE [a EXCEPT !.w = width(a), !.h = height(a),
                                     !.content = ContentOf(a.x, a.y, width(a), height(a))]
           f == [s \in Slot |-> IF s \in FindById(w, id) THEN size(w.WINDOWS[s]) ELSE w.WINDOWS[s]]
<1>1. w \in Managers /\ \A s \in Slot : w.WINDOWS[s] \in Win
  BY DEF Manages, Managers
<1>2. u = [WINDOWS |-> f, NEXT_ID |-> w.NEXT_ID, TOP_Z |-> w.TOP_Z, row |-> w.row, col |-> w.col]
  <2>1. u = [w EXCEPT !.WINDOWS = f]
    <3>1. u = Update(w, FindById(w, id), size)
      BY DEF ResizeUpdate
    <3> QED BY <3>1, <1>1 DEF Update, Managers
  <2> HIDE DEF f, u
  <2> QED BY <1>1, <2>1 DEF Managers
<1>3. ASSUME NEW s \in Slot PROVE Held(w.WINDOWS[s], f[s])
  <2>1. PICK a \in Win : a = w.WINDOWS[s]
    BY <1>1
  <2>2. IsListed(a) => Whole(a)
    BY <2>1, ListedIs DEF Manages
  <2>3. Held(a, a)
    BY <2>2 DEF Held
  <2>4. ASSUME s \in FindById(w, id), a.resizing PROVE Held(a, size(a))
    <3>1. s \in Listed(w)
      BY <2>4, FoundIs
    <3>2. Whole(a)
      BY <2>1, <3>1 DEF Manages
    <3>3. /\ a.x \in Int /\ a.y \in Int /\ FbW - a.x \in Int /\ FbH - a.y \in Int
          /\ MIN_W \in Int /\ MIN_H \in Int /\ MIN_W <= FbW - a.x /\ MIN_H <= FbH - a.y
      <4>1. a.w \in Int /\ a.h \in Int /\ a.x \in Int /\ a.y \in Int
        BY DEF Win
      <4>2. a.x <= FbW - a.w /\ a.y <= FbH - a.h /\ a.w >= MIN_W /\ a.h >= MIN_H
        BY <3>2, <4>1, SlotsAre DEF Whole
      <4> QED BY <4>1, <4>2, SlotsAre
    <3>4. width(a) \in MIN_W .. FbW - a.x /\ height(a) \in MIN_H .. FbH - a.y
      <4>1. mx - a.x \in Int /\ my - a.y \in Int
        BY <3>3
      <4> QED BY <3>3, <4>1, ClampIs
    <3>5. size(a) = SizedTo(a, width(a), height(a))
      BY <2>4 DEF SizedTo
    <3> HIDE DEF width, height, size
    <3>6. PICK p, q : p = width(a) /\ q = height(a)
      OBVIOUS
    <3>7. p \in MIN_W .. FbW - a.x /\ q \in MIN_H .. FbH - a.y /\ a.resizing
      BY <2>4, <3>4, <3>6
    <3>8. LET b == SizedTo(a, p, q)
          IN  /\ b \in Win /\ Whole(b) /\ b.id = a.id /\ b.z = a.z /\ b.open = a.open /\ b.min = a.min
              /\ b.drag = a.drag /\ b.resizing = a.resizing
      BY <3>2, <3>7, SizedIs
    <3> QED BY <3>5, <3>6, <3>8 DEF Held
  <2>5. f[s] = a \/ (s \in FindById(w, id) /\ a.resizing /\ f[s] = size(a))
    BY <2>1
  <2> HIDE DEF f, size
  <2> QED BY <2>1, <2>3, <2>4, <2>5
<1>4. DOMAIN f = Slot /\ f = [s \in Slot |-> f[s]]
  OBVIOUS
<1> HIDE DEF u, f
<1>5. Safe(w, u) /\ Listed(u) = Listed(w)
  BY <1>2, <1>3, <1>4, HeldSafe
<1> QED BY <1>5 DEF u

-----------------------------------------------------------------------------
(* Several windows at once *)

(* The windows of these slots are closed *)
Closing(w, found) ==
  [w EXCEPT !.WINDOWS = [s \in Slot |-> IF s \in found
                                        THEN IF @[s].open THEN ClosedSlot(@[s].id) ELSE @[s]
                                        ELSE @[s]]]

LEMMA ClosingSafe ==
  ASSUME NEW w, Manages(w), NEW found
  PROVE  Safe(w, Closing(w, found))
<1> DEFINE u == Closing(w, found)
           f == [s \in Slot |-> IF s \in found
                                THEN IF w.WINDOWS[s].open THEN ClosedSlot(w.WINDOWS[s].id) ELSE w.WINDOWS[s]
                                ELSE w.WINDOWS[s]]
<1>1. w \in Managers /\ \A s \in Slot : w.WINDOWS[s] \in Win /\ w.WINDOWS[s].id \in Nat
  BY DEF Manages, Managers, Win
<1>2. u = [WINDOWS |-> f, NEXT_ID |-> w.NEXT_ID, TOP_Z |-> w.TOP_Z, row |-> w.row, col |-> w.col]
  BY <1>1 DEF Closing, Managers
<1>3. f \in [Slot -> Win]
  BY <1>1, ClosedSlotIs
<1>4. u \in Managers /\ u.WINDOWS = f /\ u.NEXT_ID = w.NEXT_ID /\ u.TOP_Z = w.TOP_Z
  <2>1. w.NEXT_ID \in Nat \ {0} /\ w.TOP_Z \in Nat
    BY <1>1 DEF Managers
  <2> HIDE DEF u, f
  <2> QED BY <1>1, <1>2, <1>3, <2>1, UpdatedIs
<1>5. ASSUME NEW s \in Slot
      PROVE  /\ Follows(w.WINDOWS[s], u.WINDOWS[s])
             /\ u.WINDOWS[s].open => u.WINDOWS[s] = w.WINDOWS[s]
  <2>1. \/ u.WINDOWS[s] = w.WINDOWS[s]
        \/ u.WINDOWS[s] = ClosedSlot(w.WINDOWS[s].id)
    BY <1>4
  <2>2. IsListed(w.WINDOWS[s]) => Whole(w.WINDOWS[s])
    BY ListedIs DEF Manages
  <2> HIDE DEF u
  <2> QED BY <1>1, <2>1, <2>2, ClosedSlotIs DEF Follows, IsListed
<1> HIDE DEF u, f
<1>6. Manages(u)
  BY <1>4, <1>5, FollowersManaged
<1>7. ASSUME NEW d, NEW r, Grabs(w, d, r) PROVE Grabs(u, d, r)
  BY <1>5, <1>7 DEF Grabs
<1> QED BY <1>6, <1>7 DEF Safe, u

LEMMA CloseSafe ==
  ASSUME NEW w, Manages(w), NEW id
  PROVE  Safe(w, Close(w, id))
<1>1. Close(w, id) = Closing(w, FindById(w, id))
  BY DEF Close, Closing, Update
<1> QED BY <1>1, ClosingSafe

(* drag_end: nothing is held any more *)
LEMMA DropSafe ==
  ASSUME NEW w, Manages(w)
  PROVE  /\ Manages(DragEnd(w)) /\ Listed(DragEnd(w)) = Listed(w)
         /\ \A d, r : Grabs(DragEnd(w), d, r)
<1> DEFINE u == DragEnd(w)
           drop(a) == [a EXCEPT !.drag = <<>>, !.resizing = FALSE]
           f == [s \in Slot |-> drop(w.WINDOWS[s])]
<1>1. w \in Managers /\ \A s \in Slot : w.WINDOWS[s] \in Win
  BY DEF Manages, Managers
<1>2. u = [WINDOWS |-> f, NEXT_ID |-> w.NEXT_ID, TOP_Z |-> w.TOP_Z, row |-> w.row, col |-> w.col]
  <2>1. u = [w EXCEPT !.WINDOWS = f]
    <3>1. u = Update(w, Slot, drop)
      BY DEF DragEnd
    <3> QED BY <3>1, <1>1 DEF Update, Managers
  <2> HIDE DEF f, u
  <2> QED BY <1>1, <2>1 DEF Managers
<1>3. ASSUME NEW a \in Win
      PROVE  /\ drop(a) \in Win /\ drop(a).id = a.id /\ drop(a).open = a.open /\ drop(a).min = a.min
             /\ drop(a).z = a.z /\ drop(a).drag = <<>> /\ ~drop(a).resizing /\ (Whole(a) => Whole(drop(a)))
  BY DEF Win, Whole
<1> HIDE DEF drop
<1>4. f \in [Slot -> Win]
  BY <1>1, <1>3
<1>5. u \in Managers /\ u.WINDOWS = f /\ u.NEXT_ID = w.NEXT_ID /\ u.TOP_Z = w.TOP_Z
  <2>1. w.NEXT_ID \in Nat \ {0} /\ w.TOP_Z \in Nat
    BY <1>1 DEF Managers
  <2> HIDE DEF u, f
  <2> QED BY <1>1, <1>2, <1>4, <2>1, UpdatedIs
<1>6. \A s \in Slot : u.WINDOWS[s] = drop(w.WINDOWS[s])
  BY <1>5
<1> HIDE DEF u, f
<1>7. ASSUME NEW s \in Slot PROVE Follows(w.WINDOWS[s], u.WINDOWS[s])
  <2>1. IsListed(w.WINDOWS[s]) => Whole(w.WINDOWS[s])
    BY ListedIs DEF Manages
  <2> QED BY <1>1, <1>3, <1>6, <2>1 DEF Follows, IsListed
<1>8. Manages(u)
  BY <1>5, <1>7, FollowersManaged
<1>9. Listed(u) = Listed(w)
  BY <1>1, <1>3, <1>6 DEF Listed
<1>10. \A d, r : Grabs(u, d, r)
  BY <1>1, <1>3, <1>6 DEF Grabs
<1> QED BY <1>8, <1>9, <1>10 DEF u

(* The list is empty exactly when open_count says so *)
LEMMA CountIs == \A w : OpenCount(w) = 0 <=> Listed(w) = {}
<1> SUFFICES ASSUME NEW w PROVE OpenCount(w) = 0 <=> Listed(w) = {}
  OBVIOUS
<1>1. IsFiniteSet(Slot)
  BY WindowsAssumption, FS_Interval DEF Slot
<1>2. IsFiniteSet(Listed(w))
  BY <1>1, SlotsAre, FS_Subset
<1> QED BY <1>2, FS_EmptySet DEF OpenCount

(* A manager whose windows are all closed *)
LEMMA NoneManaged ==
  ASSUME NEW w \in Managers, Listed(w) = {}
  PROVE  Manages(w) /\ \A d, r : Grabs(w, d, r)
<1>1. \A s \in Slot : ~w.WINDOWS[s].open
  BY DEF Listed
<1> QED BY <1>1 DEF Manages, Grabs

LEMMA StartSafe ==
  ASSUME NEW w, Manages(w), Listed(w) = {}
  PROVE  LET u == WindowsStart(w)
         IN  Manages(u) /\ Listed(u) = {} /\ \A d, r : Grabs(u, d, r)
<1> DEFINE u == WindowsStart(w)
           f == [s \in Slot |-> IF w.WINDOWS[s].open THEN ClosedSlot(w.WINDOWS[s].id) ELSE w.WINDOWS[s]]
<1>1. w \in Managers /\ \A s \in Slot : w.WINDOWS[s] \in Win
  BY DEF Manages, Managers
<1>2. \A s \in Slot : ~w.WINDOWS[s].open /\ ~w.WINDOWS[s].min
  BY DEF Listed
<1>3. u = [WINDOWS |-> f, NEXT_ID |-> 1, TOP_Z |-> 0, row |-> w.row, col |-> w.col]
  <2>1. u = [w EXCEPT !.WINDOWS = f, !.NEXT_ID = 1, !.TOP_Z = 0]
    BY DEF WindowsStart
  <2> HIDE DEF f, u
  <2> QED BY <1>1, <2>1 DEF Managers
<1>4. f \in [Slot -> Win] /\ \A s \in Slot : f[s] = w.WINDOWS[s]
  BY <1>1, <1>2
<1>5. u \in Managers /\ u.WINDOWS = f
  <2> HIDE DEF u, f
  <2> QED BY <1>1, <1>3, <1>4, UpdatedIs
<1>6. Listed(u) = {}
  BY <1>2, <1>4, <1>5 DEF Listed
<1> HIDE DEF u, f
<1> QED BY <1>5, <1>6, NoneManaged DEF u

-----------------------------------------------------------------------------
(* The mouse on a window *)

(* Of some open windows one is on top *)
LEMMA TopIs ==
  ASSUME NEW w, Manages(w), NEW slots \in SUBSET Slot, slots # {}, \A s \in slots : w.WINDOWS[s].open
  PROVE  TopOf(w, slots) \in slots
<1> DEFINE depth(s) == w.TOP_Z - w.WINDOWS[s].z
           D == {depth(s) : s \in slots}
<1>1. ASSUME NEW s \in slots PROVE w.WINDOWS[s].z \in Nat /\ w.TOP_Z \in Nat /\ w.WINDOWS[s].z <= w.TOP_Z
  <2>1. s \in Listed(w)
    BY ListedIs DEF IsListed
  <2>2. w.WINDOWS[s] \in Win /\ w.TOP_Z \in Nat
    BY DEF Manages, Managers
  <2> QED BY <2>1, <2>2 DEF Manages, Numbered, Win
<1>2. D \in SUBSET Nat /\ D # {}
  <2>1. ASSUME NEW s \in slots PROVE depth(s) \in Nat
    BY <1>1
  <2> HIDE DEF depth
  <2> QED BY <2>1
<1>3. PICK n \in D : \A m \in D : n <= m
  <2> HIDE DEF D
  <2> QED BY <1>2, LeastNat
<1>4. PICK s \in slots : n = depth(s)
  OBVIOUS
<1>5. \A r \in slots : w.WINDOWS[r].z <= w.WINDOWS[s].z
  <2> SUFFICES ASSUME NEW r \in slots PROVE w.WINDOWS[r].z <= w.WINDOWS[s].z
    OBVIOUS
  <2>1. depth(s) <= depth(r)
    <3> HIDE DEF depth
    <3> QED BY <1>3, <1>4
  <2> QED BY <1>1, <2>1
<1> QED BY <1>5 DEF TopOf

(* A mark is set on an open window *)
Marked(a, b) ==
  /\ b \in Win /\ b.id = a.id /\ b.z = a.z /\ b.open = a.open /\ b.min = a.min /\ (Whole(a) => Whole(b))

LEMMA DraggedIs ==
  ASSUME NEW a \in Win, a.open, NEW p \in Int, NEW q \in Int
  PROVE  LET b == [a EXCEPT !.drag = <<p, q>>] IN Marked(a, b) /\ b.resizing = a.resizing
  BY DEF Win, Whole, Marked

LEMMA ResizedIs ==
  ASSUME NEW a \in Win, a.open
  PROVE  LET b == [a EXCEPT !.resizing = TRUE] IN Marked(a, b) /\ b.drag = a.drag
  BY DEF Win, Whole, Marked

Mark(w, c, b) == [w EXCEPT !.WINDOWS[c] = b]

LEMMA MarkedManaged ==
  ASSUME NEW w, Manages(w), NEW c \in Slot, NEW b, Marked(w.WINDOWS[c], b)
  PROVE  LET u == Mark(w, c, b)
         IN  /\ Manages(u) /\ u.WINDOWS[c] = b
             /\ \A s \in Slot \ {c} : u.WINDOWS[s] = w.WINDOWS[s]
<1> DEFINE u == Mark(w, c, b)
<1>1. w \in Managers /\ w.NEXT_ID \in Nat \ {0} /\ w.TOP_Z \in Nat /\ w.WINDOWS \in [Slot -> Win]
  BY DEF Manages, Managers
<1> DEFINE f == [w.WINDOWS EXCEPT ![c] = b]
<1>2. f \in [Slot -> Win] /\ f[c] = b /\ \A s \in Slot \ {c} : f[s] = w.WINDOWS[s]
  BY <1>1 DEF Marked
<1>3. u = [WINDOWS |-> f, NEXT_ID |-> w.NEXT_ID, TOP_Z |-> w.TOP_Z, row |-> w.row, col |-> w.col]
  <2>1. u = [w EXCEPT !.WINDOWS = f]
    BY DEF Mark
  <2> HIDE DEF f, u
  <2> QED BY <1>1, <2>1 DEF Managers
<1> HIDE DEF f, u
<1>4. u \in Managers /\ u.WINDOWS = f /\ u.NEXT_ID = w.NEXT_ID /\ u.TOP_Z = w.TOP_Z
  BY <1>1, <1>2, <1>3, UpdatedIs
<1>5. ASSUME NEW s \in Slot PROVE Follows(w.WINDOWS[s], u.WINDOWS[s])
  <2>1. IsListed(w.WINDOWS[s]) => Whole(w.WINDOWS[s])
    BY ListedIs DEF Manages
  <2> QED BY <1>2, <1>4, <2>1 DEF Follows, IsListed, Marked
<1>6. Manages(u)
  BY <1>4, <1>5, FollowersManaged
<1> QED BY <1>2, <1>4, <1>6 DEF u

(* handle_mouse, on the window in slot c, while the mouse holds nothing *)
LEMMA PressKeeps ==
  ASSUME NEW w, Manages(w), Grabs(w, 0, 0), NEW c \in Slot, w.WINDOWS[c].open,
         NEW mx \in Int, NEW my \in Int
  PROVE  LET u == Press(w, c, mx, my)
             part == Part(w.WINDOWS[c], mx, my)
             id == w.WINDOWS[c].id
         IN  /\ Manages(u)
             /\ part = "title" => Grabs(u, id, 0)
             /\ part = "resize" => Grabs(u, 0, id)
             /\ part = "content" => Grabs(u, 0, 0)
<1> DEFINE u == Press(w, c, mx, my)
           part == Part(w.WINDOWS[c], mx, my)
           id == w.WINDOWS[c].id
           v == BringToFront(w, id)
<1>1. /\ Manages(v) /\ Grabs(v, 0, 0) /\ v.WINDOWS[c].open
      /\ v.WINDOWS[c].id = id
  BY FrontSafe DEF Safe
<1>2. w.WINDOWS[c] \in Win /\ w.WINDOWS[c].x \in Int /\ w.WINDOWS[c].y \in Int
  BY DEF Manages, Managers, Win
<1> HIDE DEF v
<1>3. v.WINDOWS[c] \in Win
  BY <1>1 DEF Manages, Managers
<1>4. ASSUME NEW s \in Slot, v.WINDOWS[s].open PROVE v.WINDOWS[s].drag = <<>> /\ ~v.WINDOWS[s].resizing
  <2>1. s \in Listed(v)
    BY <1>4, ListedIs DEF IsListed
  <2> QED BY <1>1, <2>1, NoneHeld
<1>5. ASSUME NEW b, Marked(v.WINDOWS[c], b), NEW d, NEW r,
             b.drag # <<>> => id = d, b.resizing => id = r
      PROVE  Manages(Mark(v, c, b)) /\ Grabs(Mark(v, c, b), d, r)
  <2>1. PICK t : t = Mark(v, c, b)
    OBVIOUS
  <2>2. Manages(t) /\ t.WINDOWS[c] = b /\ \A s \in Slot \ {c} : t.WINDOWS[s] = v.WINDOWS[s]
    BY <1>1, <1>5, <2>1, MarkedManaged
  <2>3. Grabs(t, d, r)
    BY <1>1, <1>4, <1>5, <2>2 DEF Grabs, Marked
  <2> QED BY <2>1, <2>2, <2>3
<1>6. ASSUME part = "title" PROVE Manages(u) /\ Grabs(u, id, 0)
  <2>1. PICK p, q : p = mx - w.WINDOWS[c].x /\ q = my - w.WINDOWS[c].y
    OBVIOUS
  <2>2. p \in Int /\ q \in Int
    BY <1>2, <2>1
  <2>3. PICK b : b = [v.WINDOWS[c] EXCEPT !.drag = <<p, q>>]
    OBVIOUS
  <2>4. Marked(v.WINDOWS[c], b) /\ b.resizing = v.WINDOWS[c].resizing
    BY <1>1, <1>3, <2>2, <2>3, DraggedIs
  <2>5. ~v.WINDOWS[c].resizing
    BY <1>1, <1>4
  <2>6. u = Mark(v, c, b)
    BY <1>6, <2>1, <2>3 DEF Press, Mark, v
  <2> QED BY <1>5, <2>4, <2>5, <2>6
<1>7. ASSUME part = "resize" PROVE Manages(u) /\ Grabs(u, 0, id)
  <2>1. PICK b : b = [v.WINDOWS[c] EXCEPT !.resizing = TRUE]
    OBVIOUS
  <2>2. Marked(v.WINDOWS[c], b) /\ b.drag = v.WINDOWS[c].drag
    BY <1>1, <1>3, <2>1, ResizedIs
  <2>3. v.WINDOWS[c].drag = <<>>
    BY <1>1, <1>4
  <2>4. u = Mark(v, c, b)
    BY <1>7, <2>1 DEF Press, Mark, v
  <2> QED BY <1>5, <2>2, <2>3, <2>4
<1>8. ASSUME part = "content" PROVE Manages(u) /\ Grabs(u, 0, 0)
  <2>1. u = v
    BY <1>8 DEF Press, v
  <2> QED BY <1>1, <2>1
<1>9. ASSUME part \notin {"title", "resize", "content"} PROVE u = w
  BY <1>9 DEF Press
<1> HIDE DEF u, part
<1> QED BY <1>6, <1>7, <1>8, <1>9 DEF u, part

(* A click on the taskbar *)
LEMMA TaskbarSafe ==
  ASSUME NEW w, Manages(w), NEW n
  PROVE  Safe(w, TaskbarClick(w, n))
<1>1. PICK id : id = w.WINDOWS[WindowAt(w, n)].id
  OBVIOUS
<1>2. TaskbarClick(w, n) \in {w, Restore(w, id), BringToFront(w, id)}
  BY <1>1 DEF TaskbarClick
<1>3. Safe(w, w)
  BY DEF Safe
<1>4. Safe(w, Restore(w, id)) /\ Safe(w, BringToFront(w, id))
  BY RestoreSafe, FrontSafe
<1> QED BY <1>2, <1>3, <1>4

LEMMA MenuSafe ==
  ASSUME NEW w, Manages(w), NEW item
  PROVE  Safe(w, MenuClick(w, item))
<1>1. MenuClick(w, item) = w \/ MenuClick(w, item) = Launch(w, item, 1)
  BY DEF MenuClick
<1>2. Safe(w, w)
  BY DEF Safe
<1> QED BY <1>1, <1>2, LaunchSafe

(* What the rest of a turn begins with *)
Turns(t) ==
  /\ Manages(t.wm) /\ Grabs(t.wm, t.drag, t.resize)
  /\ t.drag = 0 \/ t.resize = 0
  /\ t.menu => ~START_MENU_ACTIVE /\ Listed(t.wm) = {}

(* A click on the windows, while the mouse holds none *)
LEMMA ClickedTurns ==
  ASSUME NEW w, Manages(w), Grabs(w, 0, 0), drag_win = 0, resize_win = 0,
         NEW icon, NEW mx \in Int, NEW my \in Int
  PROVE  Turns(Clicked(w, icon, mx, my))
<1> DEFINE under == Under(w, mx, my)
           top == TopOf(w, under)
           part == Part(w.WINDOWS[top], mx, my)
           id == w.WINDOWS[top].id
           state(u, d, r) == [wm |-> u, menu |-> FALSE, drag |-> d, resize |-> r]
<1>1. ASSUME NEW u, NEW d, NEW r, Manages(u), Grabs(u, d, r), d = 0 \/ r = 0
      PROVE  Turns(state(u, d, r))
  BY <1>1 DEF Turns
<1>2. CASE under = {}
  <2>1. Clicked(w, icon, mx, my) = state(Launch(w, icon, 2), 0, 0)
    BY <1>2 DEF Clicked
  <2>2. Manages(Launch(w, icon, 2)) /\ Grabs(Launch(w, icon, 2), 0, 0)
    BY LaunchSafe DEF Safe
  <2> QED BY <1>1, <2>1, <2>2
<1>3. CASE under # {}
  <2>1. under \in SUBSET Slot /\ \A s \in under : w.WINDOWS[s].open
    BY DEF Under
  <2>2. top \in under
    <3> HIDE DEF under
    <3> QED BY <1>3, <2>1, TopIs
  <2>3. top \in Slot /\ w.WINDOWS[top].open
    BY <2>1, <2>2
  <2>4. part \in {"minimize", "close", "resize", "title", "content"}
    BY DEF Part
  <2>5. LET c == Clicked(w, icon, mx, my)
        IN  /\ part = "close" => c = state(Close(w, id), 0, 0)
            /\ part = "minimize" => c = state(Minimize(w, id), 0, 0)
            /\ part = "title" => c = state(Press(w, top, mx, my), id, 0)
            /\ part = "resize" => c = state(Press(w, top, mx, my), 0, id)
            /\ part = "content" => c = state(Press(w, top, mx, my), 0, 0)
    <3>1. ASSUME part = "close" PROVE Clicked(w, icon, mx, my) = state(Close(w, id), 0, 0)
      BY <1>3, <3>1 DEF Clicked
    <3>2. ASSUME part = "minimize" PROVE Clicked(w, icon, mx, my) = state(Minimize(w, id), 0, 0)
      BY <1>3, <3>2 DEF Clicked
    <3>3. ASSUME part = "title" PROVE Clicked(w, icon, mx, my) = state(Press(w, top, mx, my), id, 0)
      BY <1>3, <3>3 DEF Clicked
    <3>4. ASSUME part = "resize" PROVE Clicked(w, icon, mx, my) = state(Press(w, top, mx, my), 0, id)
      BY <1>3, <3>4 DEF Clicked
    <3>5. ASSUME part = "content" PROVE Clicked(w, icon, mx, my) = state(Press(w, top, mx, my), 0, 0)
      BY <1>3, <3>5 DEF Clicked
    <3> QED BY <3>1, <3>2, <3>3, <3>4, <3>5
  <2>6. /\ Manages(Press(w, top, mx, my))
        /\ part = "title" => Grabs(Press(w, top, mx, my), id, 0)
        /\ part = "resize" => Grabs(Press(w, top, mx, my), 0, id)
        /\ part = "content" => Grabs(Press(w, top, mx, my), 0, 0)
    <3> HIDE DEF top
    <3> QED BY <2>3, PressKeeps
  <2>7. Manages(Close(w, id)) /\ Grabs(Close(w, id), 0, 0)
    BY CloseSafe DEF Safe
  <2>8. Manages(Minimize(w, id)) /\ Grabs(Minimize(w, id), 0, 0)
    BY MinimizeKeeps
  <2> HIDE DEF part, top, id, state
  <2> QED BY <1>1, <2>4, <2>5, <2>6, <2>7, <2>8
<1> QED BY <1>2, <1>3

(* drag_update and resize_update, with the button down *)
LEMMA HeldMoves ==
  ASSUME NEW t, Manages(t.wm), NEW mx \in Int, NEW my \in Int, NEW left
  PROVE  LET u == Moved(t, mx, my, left)
         IN  /\ Manages(u) /\ Listed(u) = Listed(t.wm)
             /\ left => \A d, r : Grabs(t.wm, d, r) => Grabs(u, d, r)
             /\ ~left => \/ u = t.wm /\ (mouse_pressed => t.drag = 0 /\ t.resize = 0)
                         \/ \A d, r : Grabs(u, d, r)
<1> DEFINE dragged == IF left /\ t.drag # 0 THEN DragUpdate(t.wm, t.drag, mx, my) ELSE t.wm
           resized == IF left /\ t.resize # 0 THEN ResizeUpdate(dragged, t.resize, mx, my) ELSE dragged
           drops == mouse_pressed /\ ~left /\ (t.drag # 0 \/ t.resize # 0)
           u == Moved(t, mx, my, left)
<1>1. Safe(t.wm, t.wm)
  BY DEF Safe
<1>2. Safe(t.wm, dragged) /\ Listed(dragged) = Listed(t.wm)
  BY <1>1, DragSafe
<1>3. Safe(dragged, resized) /\ Listed(resized) = Listed(dragged)
  <2> HIDE DEF dragged
  <2>1. Manages(dragged)
    BY <1>2 DEF Safe
  <2>2. Safe(dragged, dragged)
    BY <2>1 DEF Safe
  <2> QED BY <2>1, <2>2, ResizeSafe
<1>4. ~left => resized = t.wm
  OBVIOUS
<1>5. u = IF drops THEN DragEnd(resized) ELSE resized
  BY DEF Moved
<1> HIDE DEF dragged, resized, u
<1>6. Manages(resized) /\ \A d, r : Grabs(t.wm, d, r) => Grabs(resized, d, r)
  BY <1>2, <1>3 DEF Safe
<1>7. CASE drops
  <2>1. u = DragEnd(resized)
    BY <1>5, <1>7
  <2>2. Manages(u) /\ Listed(u) = Listed(resized) /\ \A d, r : Grabs(u, d, r)
    BY <1>6, <2>1, DropSafe
  <2> QED BY <1>2, <1>3, <2>2 DEF u
<1>8. CASE ~drops
  <2>1. u = resized
    BY <1>5, <1>8
  <2> QED BY <1>2, <1>3, <1>4, <1>6, <1>8, <2>1 DEF u
<1> QED BY <1>7, <1>8

(* The rest of a turn *)
LEMMA TurnEnds ==
  ASSUME NEW t, Turns(t), NEW mx \in Int, NEW my \in Int, NEW left, NEW right,
         t.drag # 0 \/ t.resize # 0 => left \/ mouse_pressed,
         EndOfTurn(t, mx, my, left, right)
  PROVE  /\ Manages(wm') /\ turn' = "usb"
         /\ drag_win' = 0 \/ resize_win' = 0
         /\ drag_win' # 0 \/ resize_win' # 0 => mouse_pressed'
         /\ Grabs(wm', drag_win', resize_win')
         /\ MENU_ACTIVE' => ~START_MENU_ACTIVE' /\ Listed(wm') = {}
<1>1. /\ wm' = Moved(t, mx, my, left) /\ turn' = "usb" /\ mouse_pressed' = left
      /\ drag_win' = (IF left THEN t.drag ELSE 0) /\ resize_win' = (IF left THEN t.resize ELSE 0)
      /\ START_MENU_ACTIVE' = START_MENU_ACTIVE
      /\ MENU_ACTIVE' = (t.menu \/ OpensContextMenu(t.wm, right))
  BY DEF EndOfTurn
<1>2. /\ Manages(wm') /\ Listed(wm') = Listed(t.wm)
      /\ left => \A d, r : Grabs(t.wm, d, r) => Grabs(wm', d, r)
      /\ ~left => \/ wm' = t.wm /\ (mouse_pressed => t.drag = 0 /\ t.resize = 0)
                  \/ \A d, r : Grabs(wm', d, r)
  BY <1>1, HeldMoves DEF Turns
<1>3. Grabs(wm', drag_win', resize_win')
  <2>1. CASE left
    BY <1>1, <1>2, <2>1 DEF Turns
  <2>2. CASE ~left
    <3>1. drag_win' = 0 /\ resize_win' = 0
      BY <1>1, <2>2
    <3>2. CASE \A d, r : Grabs(wm', d, r)
      BY <3>2
    <3>3. CASE wm' = t.wm /\ (mouse_pressed => t.drag = 0 /\ t.resize = 0)
      <4>1. t.drag = 0 /\ t.resize = 0
        BY <2>2, <3>3
      <4> QED BY <3>1, <3>3, <4>1 DEF Turns
    <3> QED BY <1>2, <2>2, <3>2, <3>3
  <2> QED BY <2>1, <2>2
<1>4. ASSUME MENU_ACTIVE' PROVE ~START_MENU_ACTIVE' /\ Listed(wm') = {}
  <2>1. t.menu \/ OpensContextMenu(t.wm, right)
    BY <1>1, <1>4
  <2>2. ~START_MENU_ACTIVE /\ Listed(t.wm) = {}
    BY <2>1, CountIs DEF Turns, OpensContextMenu
  <2> QED BY <1>1, <1>2, <2>2
<1>5. (drag_win' = 0 \/ resize_win' = 0) /\ (drag_win' # 0 \/ resize_win' # 0 => mouse_pressed')
  BY <1>1 DEF Turns
<1> QED BY <1>1, <1>2, <1>3, <1>4, <1>5

-----------------------------------------------------------------------------
(* The desktop's actions *)

(* What a turn keeps, apart from who reads the keys *)
Kept ==
  /\ Manages(wm) /\ turn \in {"usb", "ps2", "mouse"}
  /\ drag_win = 0 \/ resize_win = 0
  /\ drag_win # 0 \/ resize_win # 0 => mouse_pressed
  /\ Grabs(wm, drag_win, resize_win)
  /\ MENU_ACTIVE => ~START_MENU_ACTIVE /\ Listed(wm) = {}

(* A turn that leaves the mouse *)
LEMMA MouseUntouched ==
  ASSUME MInv, Safe(wm, wm'), turn' \in {"usb", "ps2", "mouse"}, UNCHANGED mouseVars,
         MENU_ACTIVE' => ~START_MENU_ACTIVE' /\ Listed(wm') = {}
  PROVE  Kept'
<1>1. drag_win' = drag_win /\ resize_win' = resize_win /\ mouse_pressed' = mouse_pressed
  BY DEF mouseVars
<1>2. Grabs(wm', drag_win, resize_win)
  BY DEF MInv, Safe
<1> QED BY <1>1, <1>2 DEF Kept, Safe, MInv

LEMMA ToggleKeeps ==
  ASSUME MENU_ACTIVE => ~START_MENU_ACTIVE, ToggleStart
  PROVE  ~MENU_ACTIVE'
  BY DEF ToggleStart, RestoreMenuBg

LEMMA UsbKeyKeeps == MInv /\ UsbKey => Kept'
<1> SUFFICES ASSUME MInv, UsbKey PROVE Kept'
  OBVIOUS
<1>1. Manages(wm) /\ (MENU_ACTIVE => ~START_MENU_ACTIVE /\ Listed(wm) = {})
  BY DEF MInv
<1>2. turn = "usb" /\ UNCHANGED mouseVars
  BY DEF UsbKey
<1>3. Safe(wm, wm)
  BY <1>1 DEF Safe
<1>4. CASE got_escape' = TRUE /\ UNCHANGED <<wm, menuVars, turn>>
  <2>1. wm' = wm /\ turn' = turn /\ MENU_ACTIVE' = MENU_ACTIVE /\ START_MENU_ACTIVE' = START_MENU_ACTIVE
    BY <1>4 DEF menuVars
  <2>2. Safe(wm, wm') /\ (MENU_ACTIVE' => ~START_MENU_ACTIVE' /\ Listed(wm') = {})
    BY <1>1, <1>3, <2>1
  <2> QED BY <1>2, <2>1, <2>2, MouseUntouched
<1>5. CASE ToggleStart /\ UNCHANGED <<wm, got_escape, turn>>
  <2>1. wm' = wm /\ turn' = turn /\ ~MENU_ACTIVE'
    BY <1>1, <1>5, ToggleKeeps
  <2> QED BY <1>2, <1>3, <2>1, MouseUntouched
<1>6. CASE /\ START_MENU_ACTIVE /\ START_MENU_ACTIVE' = FALSE
           /\ StartItems[START_SEL + 1] # "Reboot"
           /\ wm' = Launch(wm, StartItems[START_SEL + 1], 1)
           /\ turn' = "ps2" /\ UNCHANGED <<MENU_ACTIVE, START_SEL, got_escape>>
  <2>1. ~MENU_ACTIVE'
    BY <1>1, <1>6
  <2>2. Safe(wm, wm')
    BY <1>1, <1>6, LaunchSafe
  <2> QED BY <1>2, <1>6, <2>1, <2>2, MouseUntouched
<1>7. CASE /\ START_MENU_ACTIVE
           /\ START_SEL' \in {START_SEL - 1, START_SEL + 1} \cap (0 .. Len(StartItems) - 1)
           /\ UNCHANGED <<wm, MENU_ACTIVE, START_MENU_ACTIVE, got_escape, turn>>
  <2>1. ~MENU_ACTIVE' /\ wm' = wm /\ turn' = turn
    BY <1>1, <1>7
  <2> QED BY <1>2, <1>3, <2>1, MouseUntouched
<1>8. CASE /\ \E ch \in {"char", "back"} : wm' = SendKeyToActive(wm, ch)
           /\ UNCHANGED <<menuVars, got_escape, turn>>
  <2>1. Safe(wm, wm') /\ Listed(wm') = Listed(wm)
    BY <1>1, <1>8, KeySafe
  <2>2. turn' = turn /\ MENU_ACTIVE' = MENU_ACTIVE /\ START_MENU_ACTIVE' = START_MENU_ACTIVE
    BY <1>8 DEF menuVars
  <2>3. MENU_ACTIVE' => ~START_MENU_ACTIVE' /\ Listed(wm') = {}
    BY <1>1, <2>1, <2>2
  <2> QED BY <1>2, <2>1, <2>2, <2>3, MouseUntouched
<1> QED BY <1>4, <1>5, <1>6, <1>7, <1>8 DEF UsbKey

LEMMA Ps2KeyKeeps == MInv /\ Ps2Key => Kept'
<1> SUFFICES ASSUME MInv, Ps2Key PROVE Kept'
  OBVIOUS
<1>1. Manages(wm) /\ (MENU_ACTIVE => ~START_MENU_ACTIVE /\ Listed(wm) = {})
  BY DEF MInv
<1>2. turn' = "ps2" /\ UNCHANGED mouseVars
  BY DEF Ps2Key
<1>3. Safe(wm, wm)
  BY <1>1 DEF Safe
<1>4. CASE got_escape' = TRUE /\ UNCHANGED <<wm, menuVars>>
  <2>1. wm' = wm /\ MENU_ACTIVE' = MENU_ACTIVE /\ START_MENU_ACTIVE' = START_MENU_ACTIVE
    BY <1>4 DEF menuVars
  <2>2. Safe(wm, wm') /\ (MENU_ACTIVE' => ~START_MENU_ACTIVE' /\ Listed(wm') = {})
    BY <1>1, <1>3, <2>1
  <2> QED BY <1>2, <2>2, MouseUntouched
<1>5. CASE ToggleStart /\ UNCHANGED <<wm, got_escape>>
  <2>1. wm' = wm /\ ~MENU_ACTIVE'
    BY <1>1, <1>5, ToggleKeeps
  <2> QED BY <1>2, <1>3, <2>1, MouseUntouched
<1>6. CASE /\ ~MENU_ACTIVE /\ ~START_MENU_ACTIVE /\ OpenCount(wm) = 0
           /\ \E icon \in Icons \ {"Reboot"} : wm' = Launch(wm, icon, 2)
           /\ UNCHANGED <<menuVars, got_escape>>
  <2>1. ~MENU_ACTIVE'
    BY <1>6 DEF menuVars
  <2>2. Safe(wm, wm')
    BY <1>1, <1>6, LaunchSafe
  <2> QED BY <1>2, <2>1, <2>2, MouseUntouched
<1>7. CASE /\ \E ch \in {"char", "back"} : wm' = SendKeyToActive(wm, ch)
           /\ UNCHANGED <<menuVars, got_escape>>
  <2>1. Safe(wm, wm') /\ Listed(wm') = Listed(wm)
    BY <1>1, <1>7, KeySafe
  <2>2. MENU_ACTIVE' = MENU_ACTIVE /\ START_MENU_ACTIVE' = START_MENU_ACTIVE
    BY <1>7 DEF menuVars
  <2>3. MENU_ACTIVE' => ~START_MENU_ACTIVE' /\ Listed(wm') = {}
    BY <1>1, <2>1, <2>2
  <2> QED BY <1>2, <2>1, <2>3, MouseUntouched
<1> QED BY <1>4, <1>5, <1>6, <1>7 DEF Ps2Key

LEMMA EscapeKeeps == MInv /\ Escape => Kept'
<1> SUFFICES ASSUME MInv, Escape PROVE Kept'
  OBVIOUS
<1>1. Manages(wm) /\ (MENU_ACTIVE => ~START_MENU_ACTIVE)
  BY DEF MInv
<1>2. ~MENU_ACTIVE'
  BY <1>1 DEF Escape, RestoreMenuBg
<1>3. turn' = "mouse" /\ UNCHANGED mouseVars
  BY DEF Escape, mouseVars
<1> DEFINE low == {s \in Listed(wm) : wm.WINDOWS[s].id < EscIds}
<1>4. wm' = wm \/ wm' = Closing(wm, low)
  BY DEF Escape, Update, Closing
<1>5. Safe(wm, wm')
  <2> HIDE DEF low
  <2>1. Safe(wm, wm)
    BY <1>1 DEF Safe
  <2> QED BY <1>1, <1>4, <2>1, ClosingSafe
<1> QED BY <1>2, <1>3, <1>5, MouseUntouched

LEMMA PressStartKeeps == MInv /\ PressStart => Kept'
<1> SUFFICES ASSUME MInv, PressStart PROVE Kept'
  OBVIOUS
<1>1. Manages(wm) /\ (MENU_ACTIVE => ~START_MENU_ACTIVE)
  BY DEF MInv
<1>2. /\ turn' = "usb" /\ mouse_pressed' = TRUE
      /\ drag_win' = drag_win /\ resize_win' = resize_win
  BY DEF PressStart
<1>3. Safe(wm, wm') /\ ~MENU_ACTIVE'
  <2>1. Safe(wm, wm)
    BY <1>1 DEF Safe
  <2>2. CASE ToggleStart /\ UNCHANGED wm
    BY <1>1, <2>1, <2>2, ToggleKeeps
  <2>3. CASE /\ START_MENU_ACTIVE /\ START_MENU_ACTIVE' = FALSE
             /\ \E i \in DOMAIN StartItems : /\ StartItems[i] # "Reboot"
                                             /\ START_SEL' = i - 1
                                             /\ wm' = Launch(wm, StartItems[i], 1)
             /\ UNCHANGED MENU_ACTIVE
    <3>1. Safe(wm, wm')
      BY <1>1, <2>3, LaunchSafe
    <3>2. ~MENU_ACTIVE'
      BY <1>1, <2>3
    <3> QED BY <3>1, <3>2
  <2>4. CASE /\ START_MENU_ACTIVE /\ START_MENU_ACTIVE' = FALSE
             /\ UNCHANGED <<wm, MENU_ACTIVE, START_SEL>>
    BY <1>1, <2>1, <2>4
  <2> QED BY <2>2, <2>3, <2>4 DEF PressStart
<1>4. Grabs(wm', drag_win, resize_win)
  BY <1>3 DEF MInv, Safe
<1> QED BY <1>2, <1>3, <1>4 DEF Kept, Safe, MInv

LEMMA PressLeftKeeps == MInv /\ PressLeft => Kept'
<1> SUFFICES ASSUME MInv, PressLeft PROVE Kept'
  OBVIOUS
<1>1. Manages(wm) /\ Grabs(wm, 0, 0) /\ drag_win = 0 /\ resize_win = 0
  BY DEF MInv, PressLeft
<1> DEFINE Ends(w) == \E mx \in 0 .. FbW - 1, my \in 0 .. FbH - 1, icon \in Icons \ {"Reboot"} :
                      \E t \in {Clicked(w, icon, mx, my)}, right \in BOOLEAN :
                        EndOfTurn(t, mx, my, TRUE, right)
           After(v) == \E n \in 0 .. OpenCount(v) : \E w \in {TaskbarClick(v, n)} : Ends(w)
<1>2. PICK item : \E v \in {MenuClick(wm, item)} : After(v)
  BY DEF PressLeft
<1>3. PICK v, n, w : v = MenuClick(wm, item) /\ w = TaskbarClick(v, n) /\ Ends(w)
  <2>1. PICK v \in {MenuClick(wm, item)} : After(v)
    BY <1>2
  <2> HIDE DEF Ends
  <2>2. PICK n \in 0 .. OpenCount(v) : \E w \in {TaskbarClick(v, n)} : Ends(w)
    BY <2>1
  <2> QED BY <2>2
<1>4. PICK mx \in 0 .. FbW - 1, my \in 0 .. FbH - 1, icon \in Icons, right \in BOOLEAN :
        EndOfTurn(Clicked(w, icon, mx, my), mx, my, TRUE, right)
  BY <1>3
<1>5. Manages(w) /\ Grabs(w, 0, 0)
  <2>1. Manages(v) /\ Grabs(v, 0, 0)
    BY <1>1, <1>3, MenuSafe DEF Safe
  <2> QED BY <1>3, <2>1, TaskbarSafe DEF Safe
<1>6. mx \in Int /\ my \in Int
  BY SlotsAre
<1>7. PICK t : t = Clicked(w, icon, mx, my)
  OBVIOUS
<1>8. Turns(t)
  BY <1>1, <1>5, <1>6, <1>7, ClickedTurns
<1> QED BY <1>4, <1>6, <1>7, <1>8, TurnEnds DEF Kept

LEMMA MoveMouseKeeps == MInv /\ MoveMouse => Kept'
<1> SUFFICES ASSUME MInv, MoveMouse PROVE Kept'
  OBVIOUS
<1>1. PICK t : t = [wm |-> wm, menu |-> MENU_ACTIVE, drag |-> drag_win, resize |-> resize_win]
  OBVIOUS
<1>2. PICK left, right, mx, my : /\ mx \in 0 .. FbW - 1 \/ mx = 0
                                 /\ my \in 0 .. FbH - 1 \/ my = 0
                                 /\ EndOfTurn(t, mx, my, left, right)
  BY <1>1 DEF MoveMouse
<1>3. mx \in Int /\ my \in Int
  BY <1>2, SlotsAre
<1>4. t.wm = wm /\ t.drag = drag_win /\ t.resize = resize_win /\ t.menu = MENU_ACTIVE
  BY <1>1
<1>5. Turns(t) /\ (t.drag # 0 \/ t.resize # 0 => mouse_pressed)
  BY <1>4 DEF Turns, MInv
<1> QED BY <1>2, <1>3, <1>5, TurnEnds DEF Kept

(* The desktop has no window left, or none yet *)
LEMMA EmptyKeeps ==
  ASSUME MInv, Listed(wm) = {}, wm' = WindowsStart(wm)
  PROVE  Manages(wm') /\ Listed(wm') = {} /\ \A d, r : Grabs(wm', d, r)
<1>1. Manages(wm)
  BY DEF MInv
<1> QED BY <1>1, StartSafe

LEMMA NewManager ==
  LET u == [WINDOWS |-> [s \in Slot |-> ClosedSlot(0)], NEXT_ID |-> 1, TOP_Z |-> 0, row |-> 0, col |-> 0]
  IN  Manages(u) /\ Listed(u) = {} /\ \A d, r : Grabs(u, d, r)
<1> DEFINE f == [s \in Slot |-> ClosedSlot(0)]
           u == [WINDOWS |-> f, NEXT_ID |-> 1, TOP_Z |-> 0, row |-> 0, col |-> 0]
<1>1. ClosedSlot(0) \in Win /\ ~ClosedSlot(0).open /\ ~ClosedSlot(0).min
  BY ClosedSlotIs
<1>2. f \in [Slot -> Win]
  BY <1>1
<1>3. 0 \in 0 .. TERM_BUF_ROWS - 1 /\ 0 \in 0 .. TERM_BUF_COLS
  BY SlotsAre
<1>4. u \in Managers /\ u.WINDOWS = f
  <2> HIDE DEF f
  <2> QED BY <1>2, <1>3 DEF Managers
<1>5. Listed(u) = {}
  BY <1>1, <1>4 DEF Listed
<1>6. Manages(u) /\ \A d, r : Grabs(u, d, r)
  <2> HIDE DEF u
  <2> QED BY <1>4, <1>5, NoneManaged
<1> QED BY <1>5, <1>6

LEMMA MInvInit == Init => MInv
<1> SUFFICES ASSUME Init PROVE MInv
  OBVIOUS
<1>1. Manages(wm) /\ Listed(wm) = {} /\ \A d, r : Grabs(wm, d, r)
  BY NewManager DEF Init, DesktopInit, WindowsInit
<1>2. turn = "off" /\ mode = "shell" /\ drag_win = 0 /\ resize_win = 0 /\ MENU_ACTIVE = FALSE
  BY DEF Init, DesktopInit
<1> QED BY <1>1, <1>2 DEF MInv

(* Only the desktop changes what the desktop keeps *)
LEMMA ElsewhereKeeps ==
  ASSUME MInv, UNCHANGED desktopVars, mode' # "desktop" <=> mode # "desktop"
  PROVE  MInv'
<1>1. /\ wm' = wm /\ turn' = turn /\ drag_win' = drag_win /\ resize_win' = resize_win
      /\ mouse_pressed' = mouse_pressed
      /\ MENU_ACTIVE' = MENU_ACTIVE /\ START_MENU_ACTIVE' = START_MENU_ACTIVE
  BY DEF desktopVars, menuVars, mouseVars
<1> QED BY <1>1 DEF MInv

LEMMA MInvNext == MInv /\ [Next]_vars => MInv'
<1> SUFFICES ASSUME MInv, [Next]_vars PROVE MInv'
  OBVIOUS
<1>1. ASSUME UNCHANGED desktopVars, mode' # "desktop" <=> mode # "desktop" PROVE MInv'
  BY <1>1, ElsewhereKeeps
<1>2. CASE ShellStep
  BY <1>1, <1>2 DEF ShellStep
<1>3. CASE Install \/ InstallStart \/ InstallCancel
  BY <1>1, <1>3 DEF Install, InstallStart, InstallCancel
<1>4. CASE InstallerScreen \/ InstallerKey \/ InstallerEscape
  BY <1>1, <1>4 DEF InstallerScreen, InstallerKey, InstallerEscape
<1>5. CASE RunBarrel \/ BarrelDone
  BY <1>1, <1>5 DEF RunBarrel, BarrelDone
<1>6. CASE BarrelGoesOn \/ UNCHANGED vars
  BY <1>1, <1>6 DEF BarrelGoesOn, vars
<1>7. CASE StartDesktop
  <2>1. /\ turn = "off" /\ turn' = "usb" /\ mode' = "desktop" /\ wm' = WindowsStart(wm)
        /\ UNCHANGED <<menuVars, mouseVars>>
    BY <1>7 DEF StartDesktop, RunDesktop
  <2>2. Listed(wm) = {}
    BY <2>1 DEF MInv
  <2>3. Manages(wm') /\ Listed(wm') = {} /\ \A d, r : Grabs(wm', d, r)
    BY <2>1, <2>2, EmptyKeeps
  <2>4. /\ drag_win' = drag_win /\ resize_win' = resize_win /\ mouse_pressed' = mouse_pressed
        /\ MENU_ACTIVE' = MENU_ACTIVE /\ START_MENU_ACTIVE' = START_MENU_ACTIVE
    BY <2>1 DEF menuVars, mouseVars
  <2>5. /\ drag_win = 0 \/ resize_win = 0
        /\ drag_win # 0 \/ resize_win # 0 => mouse_pressed
        /\ MENU_ACTIVE => ~START_MENU_ACTIVE
    BY DEF MInv
  <2>6. turn' # "off" /\ mode' = "desktop"
    BY <2>1
  <2> QED BY <2>3, <2>4, <2>5, <2>6 DEF MInv
<1>8. CASE DesktopTurn
  <2>1. mode' = "desktop"
    BY <1>8 DEF DesktopTurn
  <2>2. Kept'
    BY <1>8, UsbKeyKeeps, Ps2KeyKeeps, EscapeKeeps, PressStartKeeps, PressLeftKeeps, MoveMouseKeeps
       DEF DesktopTurn, DesktopStep
  <2> QED BY <2>1, <2>2 DEF Kept, MInv
<1>9. CASE QuitDesktop
  <2>1. /\ turn' = "off" /\ mode' = "shell" /\ wm' = WindowsStart(wm) /\ OpenCount(wm) = 0
        /\ drag_win' = 0 /\ resize_win' = 0 /\ ~MENU_ACTIVE'
    BY <1>9 DEF QuitDesktop, Quit, menuVars
  <2>2. Listed(wm) = {}
    BY <2>1, CountIs
  <2>3. Manages(wm') /\ Listed(wm') = {} /\ \A d, r : Grabs(wm', d, r)
    BY <2>1, <2>2, EmptyKeeps
  <2>4. mode' # "desktop" <=> turn' = "off"
    BY <2>1
  <2> QED BY <2>1, <2>3, <2>4 DEF MInv
<1>10. CASE Reboot
  <2>1. /\ turn' = "off" /\ mode' = "shell" /\ drag_win' = 0 /\ resize_win' = 0 /\ MENU_ACTIVE' = FALSE
        /\ wm' = [WINDOWS |-> [s \in Slot |-> ClosedSlot(0)], NEXT_ID |-> 1, TOP_Z |-> 0, row |-> 0, col |-> 0]
    BY <1>10 DEF Reboot
  <2>2. Manages(wm') /\ Listed(wm') = {} /\ \A d, r : Grabs(wm', d, r)
    BY <2>1, NewManager
  <2>3. mode' # "desktop" <=> turn' = "off"
    BY <2>1
  <2> QED BY <2>1, <2>2, <2>3 DEF MInv
<1> QED BY <1>2, <1>3, <1>4, <1>5, <1>6, <1>7, <1>8, <1>9, <1>10 DEF Next

(* A listed window is the one that its id finds *)
LEMMA NamesItself ==
  ASSUME NEW w, Manages(w), NEW s \in Listed(w)
  PROVE  /\ FindById(w, w.WINDOWS[s].id) = {s}
         /\ IsMinimized(w, w.WINDOWS[s].id) = w.WINDOWS[s].min
<1> DEFINE id == w.WINDOWS[s].id
<1>1. s \in Slot /\ s \in Nat /\ Numbered(w, s)
  BY ListedIs, SlotsAre DEF Manages
<1>2. ASSUME NEW S \in SUBSET Slot, s \in S, \A r \in S : w.WINDOWS[r].id = id PROVE Min(S) = s
  <2>1. S \in SUBSET Nat /\ S # {}
    BY <1>2, SlotsAre
  <2>2. Min(S) \in S /\ Min(S) <= s
    BY <1>2, <2>1, LeastIs
  <2>3. PICK m \in Nat : m = Min(S)
    BY <2>1, <2>2
  <2>4. m \in Slot /\ m <= s /\ w.WINDOWS[m].id = id
    BY <1>2, <2>2, <2>3
  <2>5. ~(m < s)
    BY <1>1, <2>4 DEF Numbered
  <2> QED BY <1>1, <2>3, <2>4, <2>5
<1>3. FindById(w, id) = {s}
  <2> DEFINE same == {r \in Listed(w) : w.WINDOWS[r].id = id}
  <2>1. same \in SUBSET Slot /\ s \in same /\ \A r \in same : w.WINDOWS[r].id = id
    BY SlotsAre
  <2>2. FindById(w, id) = IF same = {} THEN {} ELSE {Min(same)}
    BY DEF FindById
  <2> HIDE DEF same, id
  <2> QED BY <1>2, <2>1, <2>2
<1>4. IsMinimized(w, id) = w.WINDOWS[s].min
  <2> DEFINE same == {r \in Slot : w.WINDOWS[r].id = id}
  <2>1. same \in SUBSET Slot /\ s \in same /\ \A r \in same : w.WINDOWS[r].id = id
    BY <1>1
  <2>2. IsMinimized(w, id) = (same # {} /\ w.WINDOWS[Min(same)].min)
    BY DEF IsMinimized
  <2>3. w.WINDOWS[s].min \in BOOLEAN
    <3>1. w.WINDOWS[s] \in Win
      BY <1>1 DEF Manages, Managers
    <3> QED BY <3>1 DEF Win
  <2> HIDE DEF same, id
  <2>4. Min(same) = s /\ same # {}
    BY <1>2, <2>1
  <2> QED BY <2>2, <2>3, <2>4
<1> QED BY <1>3, <1>4

(* The window manager of window.rs, for a screen of any size, any sizes of  *)
(* applications that fit it and any number of windows: every listed window  *)
(* is whole on the screen with its content rectangle in it, its id finds    *)
(* it, no two open windows share a place in the z-order, and the terminal   *)
(* cursor stays in the buffer it indexes.                                   *)
THEOREM WindowsAreSound == Spec => []WindowsSound
<1>1. MInv => WindowsSound
  <2> SUFFICES ASSUME MInv PROVE WindowsSound
    OBVIOUS
  <2>1. Manages(wm)
    BY DEF MInv
  <2>2. wm.row < TERM_BUF_ROWS /\ wm.col <= TERM_BUF_COLS
    <3>1. wm.row \in 0 .. TERM_BUF_ROWS - 1 /\ wm.col \in 0 .. TERM_BUF_COLS
      BY <2>1 DEF Manages, Managers
    <3> QED BY <3>1, SlotsAre
  <2>3. WindowsOnScreen
    BY <2>1 DEF WindowsOnScreen, Manages, Whole
  <2>4. WindowsNamed
    <3> SUFFICES ASSUME NEW s \in Listed(wm)
                 PROVE  LET win == wm.WINDOWS[s]
                        IN  /\ FindById(wm, win.id) = {s}
                            /\ IsMinimized(wm, win.id) = win.min
                            /\ win.z <= wm.TOP_Z
                            /\ \A r \in Slot \ {s} : win.open /\ wm.WINDOWS[r].open => wm.WINDOWS[r].z # win.z
      BY DEF WindowsNamed
    <3>1. Numbered(wm, s)
      BY <2>1 DEF Manages
    <3> QED BY <2>1, <3>1, NamesItself DEF Numbered
  <2> QED BY <2>2, <2>3, <2>4 DEF WindowsSound
<1> QED BY <1>1, MInvInit, MInvNext, PTL DEF Spec

(* desktop_loop, for any menus and icons: the context menu is up only over  *)
(* the bare desktop, the mouse holds at most one window and only with the   *)
(* button down, and no other open window is marked as dragged or resized.   *)
THEOREM MenusAndGrabsHold == Spec => []MenusAndGrabs
<1>1. MInv => MenusAndGrabs
  <2> SUFFICES ASSUME MInv PROVE MenusAndGrabs
    OBVIOUS
  <2>1. MENU_ACTIVE => ~START_MENU_ACTIVE /\ OpenCount(wm) = 0
    BY CountIs DEF MInv
  <2>2. /\ drag_win = 0 \/ resize_win = 0
        /\ drag_win # 0 \/ resize_win # 0 => mouse_pressed
        /\ Grabs(wm, drag_win, resize_win)
    BY DEF MInv
  <2> QED BY <2>1, <2>2 DEF MenusAndGrabs, Grabs
<1> QED BY <1>1, MInvInit, MInvNext, PTL DEF Spec
=============================================================================
