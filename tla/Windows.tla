------------------------------ MODULE Windows -------------------------------
(***************************************************************************)
(* The window manager (window.rs): a fixed array of windows, each with its *)
(* place on the screen, its place in the z-order and its application.       *)
(*                                                                          *)
(* The operators take the manager's state wm and give the next one, for the *)
(* desktop's loop makes several calls in one turn.  Drawing is left out,    *)
(* with the saved backgrounds and the dirty flags, and of the text that all *)
(* terminal windows share only the cursor is kept.  A slot that is Closed   *)
(* and not minimized keeps its id, the one field of it that is still read.  *)
(***************************************************************************)
EXTENDS Integers, Sequences, FiniteSets, FiniteSetsExt

CONSTANTS
  MAX_WINDOWS,              \* 8
  FbW, FbH,                 \* framebuffer::width and height
  TITLE_H, CONTENT_PAD,     \* 28 and 2
  GAP, HANDLE,              \* 4: around the buttons; 12: the corner that resizes
  MIN_W, MIN_H,             \* 160 and 100
  TERM_BUF_ROWS, TERM_BUF_COLS   \* 16 and 32

ASSUME WindowsAssumption ==
  /\ MAX_WINDOWS \in Nat \ {0}
  /\ FbW \in Nat /\ FbH \in Nat
  /\ TITLE_H \in Nat /\ CONTENT_PAD \in Nat /\ GAP \in Nat /\ HANDLE \in Nat
  /\ MIN_W \in Nat /\ MIN_W >= 2 * TITLE_H + GAP /\ MIN_W >= HANDLE
  /\ MIN_H \in Nat /\ MIN_H >= HANDLE /\ MIN_H > TITLE_H + 2 * CONTENT_PAD
  /\ TERM_BUF_ROWS \in Nat \ {0} /\ TERM_BUF_COLS \in Nat

VARIABLE wm                 \* WINDOWS, NEXT_ID, TOP_Z, TERM_BUF_ROW and TERM_BUF_COL

Slot == 0 .. MAX_WINDOWS - 1

(* The content rectangle of a window at x, y of size w, h *)
ContentOf(x, y, w, h) ==
  [x |-> x + CONTENT_PAD, y |-> y + TITLE_H + CONTENT_PAD,
   w |-> w - 2 * CONTENT_PAD, h |-> h - TITLE_H - 2 * CONTENT_PAD]

ClosedSlot(id) ==
  [id |-> id, open |-> FALSE, min |-> FALSE, x |-> 0, y |-> 0, w |-> 0, h |-> 0,
   content |-> ContentOf(0, 0, 0, 0), drag |-> <<>>, resizing |-> FALSE,
   saved |-> <<>>, z |-> 0, app |-> "None"]

(* Open or minimized: in the list that the taskbar shows *)
Listed(w) == {s \in Slot : w.WINDOWS[s].open \/ w.WINDOWS[s].min}
OpenCount(w) == Cardinality(Listed(w))

(* find_by_id: the lowest listed slot with the id *)
FindById(w, id) ==
  LET same == {s \in Listed(w) : w.WINDOWS[s].id = id}
  IN  IF same = {} THEN {} ELSE {Min(same)}

(* f applied to the window found, if there is one *)
Update(w, found, f(_)) ==
  [w EXCEPT !.WINDOWS = [s \in Slot |-> IF s \in found THEN f(@[s]) ELSE @[s]]]

-----------------------------------------------------------------------------
(* Life of a window *)

WindowsStart(w) ==
  [w EXCEPT !.WINDOWS = [s \in Slot |-> IF @[s].open THEN ClosedSlot(@[s].id) ELSE @[s]],
            !.NEXT_ID = 1, !.TOP_Z = 0]

(* Mutant: the last free slot *)
FindSlotLast(w) == LET free == {s \in Slot : ~w.WINDOWS[s].open}
                   IN  IF free = {} THEN {} ELSE {Max(free)}

(* find_slot: the first slot that is not Open; a minimized window's too *)
FindSlot(w) == LET free == {s \in Slot : ~w.WINDOWS[s].open}
               IN  IF free = {} THEN {} ELSE {Min(free)}

(* create and set_app_kind *)
Create(w, x, y, width, height, app) ==
  LET new(old) == [id |-> w.NEXT_ID, open |-> TRUE, min |-> FALSE,
                   x |-> x, y |-> y, w |-> width, h |-> height,
                   content |-> ContentOf(x, y, width, height), drag |-> <<>>,
                   resizing |-> FALSE, saved |-> <<>>, z |-> w.TOP_Z + 1, app |-> app]
  IN  IF FindSlot(w) = {} THEN w
      ELSE [Update(w, FindSlot(w), new) EXCEPT !.NEXT_ID = @ + 1, !.TOP_Z = @ + 1]

(* A minimized window is Closed already *)
Close(w, id) ==
  LET close(win) == IF win.open THEN ClosedSlot(win.id) ELSE win
  IN  Update(w, FindById(w, id), close)

BringToFront(w, id) ==
  LET front(win) == [win EXCEPT !.z = w.TOP_Z + 1]
  IN  IF FindById(w, id) = {} THEN w
      ELSE [Update(w, FindById(w, id), front) EXCEPT !.TOP_Z = @ + 1]

Minimize(w, id) ==
  LET hide(win) == IF win.open THEN [win EXCEPT !.open = FALSE, !.min = TRUE,
                                                !.saved = <<win.x, win.y>>]
                   ELSE win
  IN  Update(w, FindById(w, id), hide)

Restore(w, id) ==
  LET show(win) == [win EXCEPT !.open = TRUE, !.min = FALSE, !.z = w.TOP_Z + 1,
                               !.x = win.saved[1], !.y = win.saved[2], !.saved = <<>>]
      found == {s \in FindById(w, id) : w.WINDOWS[s].min}
  IN  IF found = {} THEN w ELSE [Update(w, found, show) EXCEPT !.TOP_Z = @ + 1]

(* is_minimized asks the first slot with the id, closed ones included *)
IsMinimized(w, id) ==
  LET same == {s \in Slot : w.WINDOWS[s].id = id}
  IN  same # {} /\ w.WINDOWS[Min(same)].min

(* window_id_at, for the n-th of the list *)
WindowAt(w, n) ==
  CHOOSE s \in Listed(w) : Cardinality({r \in Listed(w) : r < s}) = n - 1

-----------------------------------------------------------------------------
(* The mouse *)

Clamp(v, lo, hi) == LET m == IF v < lo THEN lo ELSE v IN IF m > hi THEN hi ELSE m
Within(v, from, size) == v >= from /\ v < from + size

(* The open windows under a point, and the one on top *)
Under(w, mx, my) ==
  {s \in Slot : LET win == w.WINDOWS[s]
                IN  win.open /\ Within(mx, win.x, win.w) /\ Within(my, win.y, win.h)}
TopOf(w, slots) == CHOOSE s \in slots : \A r \in slots : w.WINDOWS[r].z <= w.WINDOWS[s].z

(* What of a window is at a point *)
Part(win, mx, my) ==
  LET button == TITLE_H - 2 * GAP
      right == win.x + win.w
      inRow == Within(my, win.y + GAP, button)
  IN  IF Within(mx, right - 2 * TITLE_H - GAP, button) /\ inRow THEN "minimize"
      ELSE IF Within(mx, right - TITLE_H - GAP, button) /\ inRow THEN "close"
      ELSE IF mx >= right - HANDLE /\ my >= win.y + win.h - HANDLE THEN "resize"
      ELSE IF Within(my, win.y, TITLE_H) THEN "title"
      ELSE "content"

(* handle_mouse with the left button, when a window is there *)
Press(w, s, mx, my) ==
  LET part == Part(w.WINDOWS[s], mx, my)
      front == BringToFront(w, w.WINDOWS[s].id)
  IN  CASE part = "title" ->
             [front EXCEPT !.WINDOWS[s].drag = <<mx - w.WINDOWS[s].x, my - w.WINDOWS[s].y>>]
        [] part = "resize"  -> [front EXCEPT !.WINDOWS[s].resizing = TRUE]
        [] part = "content" -> front
        [] OTHER            -> w

DragUpdate(w, id, mx, my) ==
  LET move(win) == LET x == Clamp(mx - win.drag[1], 0, FbW - win.w)
                       y == Clamp(my - win.drag[2], 0, FbH - win.h)
                   IN  IF win.drag = <<>> THEN win
                       ELSE [win EXCEPT !.x = x, !.y = y,
                                        !.content = ContentOf(x, y, win.w, win.h)]
  IN  Update(w, FindById(w, id), move)

ResizeUpdate(w, id, mx, my) ==
  LET size(win) == LET width == Clamp(mx - win.x, MIN_W, FbW - win.x)
                       height == Clamp(my - win.y, MIN_H, FbH - win.y)
                   IN  IF ~win.resizing THEN win
                       ELSE [win EXCEPT !.w = width, !.h = height,
                                        !.content = ContentOf(win.x, win.y, width, height)]
  IN  Update(w, FindById(w, id), size)

DragEnd(w) ==
  LET drop(win) == [win EXCEPT !.drag = <<>>, !.resizing = FALSE]
  IN  Update(w, Slot, drop)

-----------------------------------------------------------------------------
(* The text of the terminal windows *)

TerminalWrite(w, ch) ==
  CASE ch = "nl"   -> [w EXCEPT !.row = IF @ + 1 < TERM_BUF_ROWS THEN @ + 1 ELSE TERM_BUF_ROWS - 1,
                                !.col = 0]
    [] ch = "back" -> [w EXCEPT !.col = IF @ > 0 THEN @ - 1 ELSE 0]
    [] ch = "char" -> [w EXCEPT !.col = IF @ < TERM_BUF_COLS THEN @ + 1 ELSE @]

(* send_key_to_active: the terminal that has the top of the z-order *)
SendKeyToActive(w, ch) ==
  IF \E s \in Slot : /\ w.WINDOWS[s].open /\ w.WINDOWS[s].app = "Terminal"
                     /\ w.WINDOWS[s].z = w.TOP_Z
  THEN TerminalWrite(w, ch) ELSE w

WindowsInit ==
  wm = [WINDOWS |-> [s \in Slot |-> ClosedSlot(0)], NEXT_ID |-> 1, TOP_Z |-> 0,
        row |-> 0, col |-> 0]

-----------------------------------------------------------------------------
(* drag_update, resize_update, minimize, restore: every listed window is    *)
(* whole on the screen and no smaller than MIN_W by MIN_H, so that the      *)
(* unsigned subtractions that place its buttons do not wrap, and its        *)
(* content rectangle goes where it goes.                                    *)
WindowsOnScreen ==
  \A s \in Listed(wm) :
    LET win == wm.WINDOWS[s]
    IN  /\ win.x \in 0 .. FbW - win.w /\ win.y \in 0 .. FbH - win.h
        /\ win.w >= MIN_W /\ win.h >= MIN_H
        /\ win.content = ContentOf(win.x, win.y, win.w, win.h)

(* find_by_id, is_minimized, handle_mouse: an id names one listed window,   *)
(* also when ids start again while closed slots keep theirs; is_minimized   *)
(* answers about that window; no two open windows share a place in the      *)
(* z-order, and none is above TOP_Z.                                        *)
WindowsNamed ==
  \A s \in Listed(wm) :
    LET win == wm.WINDOWS[s]
    IN  /\ FindById(wm, win.id) = {s}
        /\ IsMinimized(wm, win.id) = win.min
        /\ win.z <= wm.TOP_Z
        /\ \A r \in Slot \ {s} : win.open /\ wm.WINDOWS[r].open => wm.WINDOWS[r].z # win.z

(* What the window manager keeps: windows on the screen, found by their     *)
(* ids, and a terminal cursor inside the buffer it indexes.                 *)
WindowsSound ==
  /\ WindowsOnScreen /\ WindowsNamed
  /\ wm.row < TERM_BUF_ROWS /\ wm.col <= TERM_BUF_COLS
=============================================================================
