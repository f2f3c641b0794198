------------------------------ MODULE Desktop -------------------------------
(***************************************************************************)
(* The desktop (desktop.rs): the loop that reads keys and the mouse and     *)
(* drives the window manager, the context menu and the start menu.          *)
(*                                                                          *)
(* A turn of the loop reads the USB keys, the PS/2 keys and then acts on    *)
(* the mouse, whose position and buttons it samples.  Which icon, menu item *)
(* or taskbar indicator lies under the pointer is left open; what of which  *)
(* window does is not.  The clock and all drawing are left out.             *)
(***************************************************************************)
EXTENDS Windows

CONSTANTS
  App,              \* the applications of menus and icons
  Size(_),          \* the size of an application's window
  StartItems,       \* START_ITEMS, a sequence of applications and other actions
  CtxItems,         \* CTX_MENU_ITEMS
  Icons,            \* DESKTOP_ICONS, and "none"
  DefW, DefH,       \* 320 and 240, fitted to the screen
  EscIds,           \* 8: Escape closes the windows with ids below
  MaxId, MaxZ       \* bounds: windows opened, places in the z-order given out

ASSUME DesktopAssumption ==
  /\ DefW \in 0 .. FbW /\ DefH \in 0 .. FbH
  /\ \A app \in App : /\ Size(app).w \in MIN_W .. FbW - (FbW - DefW) \div 2
                      /\ Size(app).h \in MIN_H .. FbH - (FbH - DefH) \div 3
  /\ "none" \in Icons /\ "Cancel" \in CtxItems

VARIABLES
  MENU_ACTIVE, START_MENU_ACTIVE, START_SEL,
  drag_win, resize_win, mouse_pressed, right_pressed, got_escape,
  turn              \* the part of the loop that runs, or "off"

menuVars == <<MENU_ACTIVE, START_MENU_ACTIVE, START_SEL>>
mouseVars == <<drag_win, resize_win, mouse_pressed, right_pressed>>
desktopVars == <<wm, menuVars, mouseVars, got_escape, turn>>

InBounds(w) == w.NEXT_ID <= MaxId + 1 /\ w.TOP_Z <= MaxZ

-----------------------------------------------------------------------------
(* What menus and icons start *)

(* The banners; that of Apps, an icon's only, goes on in the shared text *)
Banner(w, app, lines) ==
  LET below == (IF app = "Terminal" THEN 0 ELSE w.row) + lines
      row == IF below < TERM_BUF_ROWS THEN below ELSE TERM_BUF_ROWS - 1
  IN  CASE app = "Terminal" ->
             [w EXCEPT !.row = row, !.col = IF TERM_BUF_COLS < 2 THEN TERM_BUF_COLS ELSE 2]
        [] app = "Desktop" /\ lines = 2 -> [w EXCEPT !.row = row, !.col = 0]
        [] OTHER -> w

(* exec_start_action, handle_menu_click and handle_icon_click, on a window: *)
(* where it is placed depends on the default size                           *)
Launch(w, action, lines) ==
  IF action \in App /\ FindSlot(w) # {}
  THEN Banner(Create(w, (FbW - DefW) \div 2, (FbH - DefH) \div 3,
                     Size(action).w, Size(action).h, action), action, lines)
  ELSE w

(* restore_menu_bg, where the flag is tested first *)
RestoreMenuBg == MENU_ACTIVE' = FALSE

(* Mutant: the context menu stays *)
ToggleStartOver ==
  /\ START_MENU_ACTIVE' = ~START_MENU_ACTIVE
  /\ UNCHANGED <<MENU_ACTIVE, START_SEL>>

(* draw_start_menu or close_start_menu; a context menu is taken away first *)
ToggleStart ==
  /\ START_MENU_ACTIVE' = ~START_MENU_ACTIVE
  /\ IF START_MENU_ACTIVE THEN UNCHANGED MENU_ACTIVE ELSE RestoreMenuBg
  /\ UNCHANGED START_SEL

-----------------------------------------------------------------------------
(* Keys: any number from USB, then any number from the PS/2 keyboard *)

ReadingKeys == turn \in {"usb", "ps2"}

UsbKey ==
  /\ turn = "usb"
  /\ \/ got_escape' = TRUE /\ UNCHANGED <<wm, menuVars, turn>>
     \/ ToggleStart /\ UNCHANGED <<wm, got_escape, turn>>
     \/ \* Enter: no more keys are read
        /\ START_MENU_ACTIVE /\ START_MENU_ACTIVE' = FALSE
        /\ StartItems[START_SEL + 1] # "Reboot"
        /\ wm' = Launch(wm, StartItems[START_SEL + 1], 1)
        /\ turn' = "ps2" /\ UNCHANGED <<MENU_ACTIVE, START_SEL, got_escape>>
     \/ \* w and s
        /\ START_MENU_ACTIVE
        /\ START_SEL' \in {START_SEL - 1, START_SEL + 1} \cap (0 .. Len(StartItems) - 1)
        /\ UNCHANGED <<wm, MENU_ACTIVE, START_MENU_ACTIVE, got_escape, turn>>
     \/ /\ \E ch \in {"char", "back"} : wm' = SendKeyToActive(wm, ch)
        /\ UNCHANGED <<menuVars, got_escape, turn>>
  /\ InBounds(wm')
  /\ UNCHANGED mouseVars

Ps2Key ==
  /\ ReadingKeys /\ turn' = "ps2"
  /\ \/ got_escape' = TRUE /\ UNCHANGED <<wm, menuVars>>
     \/ ToggleStart /\ UNCHANGED <<wm, got_escape>>
     \/ \* Enter or space, with the pointer on an icon
        /\ ~MENU_ACTIVE /\ ~START_MENU_ACTIVE /\ OpenCount(wm) = 0
        /\ \E icon \in Icons \ {"Reboot"} : wm' = Launch(wm, icon, 2)
        /\ UNCHANGED <<menuVars, got_escape>>
     \/ /\ \E ch \in {"char", "back"} : wm' = SendKeyToActive(wm, ch)
        /\ UNCHANGED <<menuVars, got_escape>>
  /\ InBounds(wm')
  /\ UNCHANGED mouseVars

(* Escape takes away a menu, or else closes windows *)
Escape ==
  /\ ReadingKeys /\ got_escape
  /\ MENU_ACTIVE \/ START_MENU_ACTIVE \/ OpenCount(wm) > 0
  /\ START_MENU_ACTIVE' = FALSE
  /\ IF START_MENU_ACTIVE THEN UNCHANGED MENU_ACTIVE ELSE RestoreMenuBg
  /\ wm' = IF MENU_ACTIVE \/ START_MENU_ACTIVE THEN wm
           ELSE LET close(win) == IF win.open THEN ClosedSlot(win.id) ELSE win
                IN  Update(wm, {s \in Listed(wm) : wm.WINDOWS[s].id < EscIds}, close)
  /\ turn' = "mouse" /\ got_escape' = FALSE
  /\ UNCHANGED <<START_SEL, mouseVars>>

(* With nothing left to close, Escape leaves the desktop.  The loop's        *)
(* variables end here, and run sets NEXT_ID and TOP_Z before they are read   *)
Quit ==
  /\ ReadingKeys /\ got_escape
  /\ ~MENU_ACTIVE /\ ~START_MENU_ACTIVE /\ OpenCount(wm) = 0
  /\ turn' = "off" /\ got_escape' = FALSE
  /\ wm' = WindowsStart(wm)
  /\ drag_win' = 0 /\ resize_win' = 0 /\ mouse_pressed' = FALSE /\ right_pressed' = FALSE
  /\ UNCHANGED menuVars

-----------------------------------------------------------------------------
(* The mouse *)

Holding == drag_win # 0 \/ resize_win # 0

AtMouse == turn = "mouse" \/ (ReadingKeys /\ ~got_escape)

(* The left button goes down on the start button, or with the start menu up: *)
(* the rest of the turn is skipped, right_pressed = right_down too           *)
PressStart ==
  /\ AtMouse /\ ~mouse_pressed
  /\ \/ ToggleStart /\ UNCHANGED wm
     \/ /\ START_MENU_ACTIVE /\ START_MENU_ACTIVE' = FALSE
        /\ \E i \in DOMAIN StartItems : /\ StartItems[i] # "Reboot"
                                        /\ START_SEL' = i - 1
                                        /\ wm' = Launch(wm, StartItems[i], 1)
        /\ UNCHANGED MENU_ACTIVE
     \/ /\ START_MENU_ACTIVE /\ START_MENU_ACTIVE' = FALSE
        /\ UNCHANGED <<wm, MENU_ACTIVE, START_SEL>>
  /\ InBounds(wm')
  /\ mouse_pressed' = TRUE /\ turn' = "usb"
  /\ UNCHANGED <<drag_win, resize_win, right_pressed, got_escape>>

(* The rest of a turn, from the right button on, with the windows, the      *)
(* context menu and what the mouse holds as they are by then, in t          *)
Moved(t, mx, my, left) ==
  LET dragged == IF left /\ t.drag # 0 THEN DragUpdate(t.wm, t.drag, mx, my) ELSE t.wm
      resized == IF left /\ t.resize # 0 THEN ResizeUpdate(dragged, t.resize, mx, my) ELSE dragged
  IN  IF mouse_pressed /\ ~left /\ (t.drag # 0 \/ t.resize # 0) THEN DragEnd(resized)
      ELSE resized

(* A right click opens the context menu over the bare desktop; the screen is *)
(* larger than the menu, so draw_context_menu does not return early          *)
OpensContextMenu(w, right) ==
  right /\ ~right_pressed /\ ~START_MENU_ACTIVE /\ OpenCount(w) = 0

EndOfTurn(t, mx, my, left, right) ==
  /\ InBounds(t.wm)
  /\ wm' = Moved(t, mx, my, left)
  /\ MENU_ACTIVE' = (t.menu \/ OpensContextMenu(t.wm, right))
  /\ drag_win' = IF left THEN t.drag ELSE 0
  /\ resize_win' = IF left THEN t.resize ELSE 0
  /\ mouse_pressed' = left /\ right_pressed' = right
  /\ turn' = "usb"
  /\ UNCHANGED <<START_MENU_ACTIVE, START_SEL, got_escape>>

(* handle_menu_click: outside the menu nothing is started.  It answers      *)
(* false either way, and the click goes on to the windows                   *)
MenuClick(w, item) == IF MENU_ACTIVE THEN Launch(w, item, 1) ELSE w

(* An indicator of the taskbar, n, or none, 0: the click goes on as well *)
TaskbarClick(w, n) ==
  IF n = 0 THEN w
  ELSE LET id == w.WINDOWS[WindowAt(w, n)].id
       IN  IF IsMinimized(w, id) THEN Restore(w, id) ELSE BringToFront(w, id)

(* A window under the point, or else an icon *)
Clicked(w, icon, mx, my) ==
  LET under == Under(w, mx, my)
      top == TopOf(w, under)
      part == Part(w.WINDOWS[top], mx, my)
      id == w.WINDOWS[top].id
      t == [wm |-> w, menu |-> FALSE, drag |-> drag_win, resize |-> resize_win]
  IN  IF under = {} THEN [t EXCEPT !.wm = Launch(w, icon, 2)]
      ELSE CASE part = "close"    -> [t EXCEPT !.wm = Close(w, id)]
             [] part = "minimize" -> [t EXCEPT !.wm = Minimize(w, id)]
             [] part = "title"    -> [t EXCEPT !.wm = Press(w, top, mx, my), !.drag = id]
             [] part = "resize"   -> [t EXCEPT !.wm = Press(w, top, mx, my), !.resize = id]
             [] part = "content"  -> [t EXCEPT !.wm = Press(w, top, mx, my)]

(* The left button goes down elsewhere *)
PressLeft ==
  /\ AtMouse /\ ~mouse_pressed /\ ~START_MENU_ACTIVE
  /\ \E item \in IF MENU_ACTIVE THEN CtxItems \ {"Reboot"} ELSE {"Cancel"} :
     \E afterMenu \in {MenuClick(wm, item)} :
     \E n \in 0 .. OpenCount(afterMenu) :
     \E w \in {TaskbarClick(afterMenu, n)} :
     \E mx \in 0 .. FbW - 1, my \in 0 .. FbH - 1, icon \in Icons \ {"Reboot"} :
     \E t \in {Clicked(w, icon, mx, my)}, right \in BOOLEAN :
       EndOfTurn(t, mx, my, TRUE, right)

(* It stays up, stays down or goes up; where, matters to a held window only *)
MoveMouse ==
  /\ AtMouse
  /\ \E left \in {FALSE, mouse_pressed}, right \in BOOLEAN :
     \E mx \in IF left /\ Holding THEN 0 .. FbW - 1 ELSE {0},
        my \in IF left /\ Holding THEN 0 .. FbH - 1 ELSE {0} :
       EndOfTurn([wm |-> wm, menu |-> MENU_ACTIVE, drag |-> drag_win, resize |-> resize_win],
                 mx, my, left, right)

(* reset_system, from the start menu, the context menu or an icon *)
RebootChosen ==
  \/ turn = "usb" /\ START_MENU_ACTIVE /\ StartItems[START_SEL + 1] = "Reboot"
  \/ /\ AtMouse /\ ~mouse_pressed
     /\ \/ START_MENU_ACTIVE /\ \E i \in DOMAIN StartItems : StartItems[i] = "Reboot"
        \/ MENU_ACTIVE /\ "Reboot" \in CtxItems
        \/ /\ ~START_MENU_ACTIVE /\ "Reboot" \in Icons
           /\ \E mx \in 0 .. FbW - 1, my \in 0 .. FbH - 1 : Under(wm, mx, my) = {}

-----------------------------------------------------------------------------
(* run *)
RunDesktop ==
  /\ turn = "off" /\ turn' = "usb"
  /\ wm' = WindowsStart(wm)
  /\ UNCHANGED <<menuVars, mouseVars, got_escape>>

DesktopStep == UsbKey \/ Ps2Key \/ Escape \/ PressStart \/ PressLeft \/ MoveMouse

DesktopInit ==
  /\ WindowsInit
  /\ MENU_ACTIVE = FALSE /\ START_MENU_ACTIVE = FALSE /\ START_SEL = 0
  /\ drag_win = 0 /\ resize_win = 0 /\ mouse_pressed = FALSE /\ right_pressed = FALSE
  /\ got_escape = FALSE /\ turn = "off"

-----------------------------------------------------------------------------
(* desktop_loop: the context menu, whose background was saved when it was   *)
(* drawn, is up only over the bare desktop, without the start menu or a     *)
(* window in the list; and the mouse holds at most one window, with the     *)
(* button down, the only open one marked as dragged or resized.             *)
MenusAndGrabs ==
  /\ MENU_ACTIVE => ~START_MENU_ACTIVE /\ OpenCount(wm) = 0
  /\ drag_win = 0 \/ resize_win = 0
  /\ drag_win # 0 \/ resize_win # 0 => mouse_pressed
  /\ \A s \in Slot : LET win == wm.WINDOWS[s]
                     IN  win.open => /\ win.drag # <<>> => win.id = drag_win
                                     /\ win.resizing => win.id = resize_win
=============================================================================
