----------------------------- MODULE Interface ------------------------------
(***************************************************************************)
(* The kernel's one user interface: the shell, and the commands install and *)
(* desktop and Barrel's scripts, which keep the screen and the keyboard     *)
(* until they return.                                                       *)
(***************************************************************************)
EXTENDS Console, Installer, Desktop

CONSTANTS
  InstallLine, DesktopLine,  \* the lines that name these commands
  BarrelLine,                \* a line that holds a script, whichever it is
  Script, Outcome            \* the scripts; what each prints and whether it hangs

ASSUME OutputIsSeq == \A script \in Script : Len(Outcome[script].out) \in Nat

VARIABLES
  mode,             \* who reads the keys: "shell", "install", "installer", "desktop", "barrel"
  barrel            \* the script run last, its output and whether it hangs

vars == <<consoleVars, installerVars, desktopVars, barrel, mode>>

NoRun == [script |-> <<>>, out |-> <<>>, hangs |-> FALSE]

Init == ConsoleInit /\ InstallerInit /\ DesktopInit /\ barrel = NoRun /\ mode = "shell"

(* handle_key, and what usb::poll prints *)
ShellStep ==
  /\ mode = "shell"
  /\ \/ \E ch \in Char : HandleChar(ch)
     \/ HandleBackspace
     \/ HandleEscape
     \/ ExecuteLine
     \/ DriverMessage
  /\ UNCHANGED <<installerVars, desktopVars, barrel, mode>>

(* The line is the command install, which begins to print *)
Install ==
  /\ mode = "shell" /\ CMD_BUF = InstallLine /\ ~BARREL_MODE
  /\ mode' = "install"
  /\ term' = PutLine(PutChar(term, "nl"))
  /\ undisturbed' = FALSE
  /\ UNCHANGED <<CMD_BUF, BARREL_MODE, installerVars, desktopVars, barrel>>

(* cmd_install: Enter runs the installer, as often as it returns, and Escape *)
(* goes back to the shell                                                    *)
InstallStart ==
  /\ mode = "install" /\ mode' = "installer"
  /\ RunInstaller
  /\ UNCHANGED <<consoleVars, desktopVars, barrel>>

InstallCancel ==
  /\ mode = "install" /\ mode' = "shell"
  /\ ShowPrompt(PutLine(term))
  /\ UNCHANGED <<BARREL_MODE, installerVars, desktopVars, barrel>>

(* Every screen begins by clearing the console *)
InstallerScreen ==
  /\ mode = "installer"
  /\ Screen
  /\ term' = PutLine(Cleared)
  /\ UNCHANGED <<CMD_BUF, BARREL_MODE, undisturbed, desktopVars, mode, barrel>>

InstallerKey ==
  /\ mode = "installer"
  /\ WaitKey
  /\ UNCHANGED <<consoleVars, desktopVars, mode, barrel>>

InstallerEscape ==
  /\ mode = "installer" /\ mode' = "install"
  /\ Leave
  /\ term' = Cleared
  /\ UNCHANGED <<CMD_BUF, BARREL_MODE, undisturbed, desktopVars, barrel>>

(* The line is the command desktop; the wallpaper covers the text, and      *)
(* whoever leaves the desktop clears the screen                             *)
StartDesktop ==
  /\ mode = "shell" /\ CMD_BUF = DesktopLine /\ ~BARREL_MODE
  /\ mode' = "desktop"
  /\ RunDesktop
  /\ term' = Cleared
  /\ undisturbed' = FALSE
  /\ UNCHANGED <<CMD_BUF, BARREL_MODE, installerVars, barrel>>

DesktopTurn ==
  /\ mode = "desktop"
  /\ DesktopStep
  /\ UNCHANGED <<consoleVars, installerVars, mode, barrel>>

(* Escape: clear_desktop, and the shell's prompt *)
QuitDesktop ==
  /\ mode = "desktop" /\ mode' = "shell"
  /\ Quit
  /\ ShowPrompt(PutLine(Cleared))
  /\ UNCHANGED <<BARREL_MODE, installerVars, barrel>>

(* barrel::exec on a line *)
RunScript ==
  \E script \in Script :
    barrel' = [script |-> script, out |-> Outcome[script].out, hangs |-> Outcome[script].hangs]

(* execute_barrel: the line is a script, which prints while it runs *)
RunBarrel ==
  /\ mode = "shell" /\ CMD_BUF = BarrelLine /\ BARREL_MODE
  /\ mode' = "barrel"
  /\ RunScript
  /\ term' = Times(PutChar(term, "nl"), "text", Len(barrel'.out))
  /\ undisturbed' = FALSE
  /\ UNCHANGED <<CMD_BUF, BARREL_MODE, installerVars, desktopVars>>

BarrelDone ==
  /\ mode = "barrel" /\ ~barrel.hangs
  /\ mode' = "shell" /\ barrel' = NoRun
  /\ ShowPrompt(term)
  /\ UNCHANGED <<BARREL_MODE, installerVars, desktopVars>>

(* No key stops a script that goes on for ever *)
BarrelGoesOn ==
  /\ mode = "barrel" /\ barrel.hangs
  /\ UNCHANGED vars

(* reset_system: the machine starts again *)
Reboot ==
  /\ (mode = "installer" /\ Reboots) \/ (mode = "desktop" /\ RebootChosen)
  /\ mode' = "shell"
  /\ term' = PutChar(PutLine(Cleared), "prompt")
  /\ CMD_BUF' = <<>> /\ BARREL_MODE' = FALSE /\ undisturbed' = TRUE
  /\ InstState' = "Welcome" /\ SEL_DISK' = 0 /\ STEP' = 0 /\ waiting' = FALSE /\ summary' = DISK_N
  /\ wm' = [WINDOWS |-> [s \in Slot |-> ClosedSlot(0)], NEXT_ID |-> 1, TOP_Z |-> 0,
            row |-> 0, col |-> 0]
  /\ MENU_ACTIVE' = FALSE /\ START_MENU_ACTIVE' = FALSE /\ START_SEL' = 0
  /\ drag_win' = 0 /\ resize_win' = 0 /\ mouse_pressed' = FALSE /\ right_pressed' = FALSE
  /\ got_escape' = FALSE /\ turn' = "off" /\ UNCHANGED barrel

Next == \/ ShellStep
        \/ Install \/ InstallStart \/ InstallCancel
        \/ InstallerScreen \/ InstallerKey \/ InstallerEscape
        \/ StartDesktop \/ DesktopTurn \/ QuitDesktop
        \/ RunBarrel \/ BarrelDone \/ BarrelGoesOn
        \/ Reboot

Spec == Init /\ [][Next]_vars
=============================================================================
