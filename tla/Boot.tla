-------------------------------- MODULE Boot --------------------------------
(***************************************************************************)
(* kernel_main (main.rs) and the loop of the shell (shell.rs), as far as   *)
(* they drive the disk, the i8042 and USB: one thread, interrupts off.     *)
(*                                                                         *)
(* The machine may lack a disk, a PS/2 mouse or an EHCI controller.  The   *)
(* power may fail after any step; the machine then starts again.           *)
(***************************************************************************)
EXTENDS Storage, Ps2, Usb

CONSTANT
  MaxEvents        \* bound: all that happens from outside (see Event) or goes wrong

VARIABLES
  hw,              \* what the machine has
  phase,           \* where kernel_main or the shell's loop is
  events

vars == <<storageVars, ps2Vars, usbVars, hw, phase, events>>

-----------------------------------------------------------------------------
(* kernel_main *)

(* blockfs::init; a sector that is misread or not written is an event *)
BootDisk ==
  /\ phase = "disk"
  /\ \E reads, writes \in BOOLEAN :
       /\ \/ InitBlockfs(hw.disk, reads) /\ writes
          \/ FormatWrite(reads, writes)
       /\ events' = IF reads /\ writes THEN events ELSE events + 1
  /\ events' <= MaxEvents
  /\ phase' = IF fmt' = <<>> THEN "keyboard" ELSE "disk"
  /\ UNCHANGED <<ps2Vars, usbVars, hw>>

BootKeyboard ==
  /\ phase = "keyboard" /\ phase' = "usb"
  /\ KeyboardInit
  /\ UNCHANGED <<storageVars, usbVars, hw, events>>

BootUsb ==
  /\ phase = "usb" /\ phase' = "first poll"
  /\ InitController(hw.ehci)
  /\ UNCHANGED <<storageVars, ps2Vars, hw, events>>

(* usb::poll, by kernel_main once and then by the shell; a reset or an      *)
(* enumeration that fails is an event                                       *)
UsbPoll ==
  /\ phase \in {"first poll", "poll"}
  /\ LET next == IF phase = "poll" THEN "keys" ELSE "poll"
     IN  \/ ~USB_READY /\ phase' = next /\ UNCHANGED <<usbVars, events>>
         \/ /\ USB_READY /\ phase' = phase
            /\ \E p \in Port, ok \in BOOLEAN :
                 PollPort(p, ok) /\ events' = IF ok THEN events ELSE events + 1
         \/ USB_READY /\ phase' = next /\ PollInterrupts /\ UNCHANGED events
  /\ events' <= MaxEvents
  /\ UNCHANGED <<storageVars, ps2Vars, hw>>

-----------------------------------------------------------------------------
(* The loop of shell::run *)

(* key_read until there is no more; keyboard::poll and read_key likewise *)
Keys ==
  /\ phase = "keys" /\ phase' = "mouse"
  /\ UsbReadKeys /\ ReadKeys
  /\ UNCHANGED <<storageVars, hw, events>>

Mouse ==
  /\ phase = "mouse" /\ phase' = "keys again"
  /\ MousePoll(hw.mouse)
  /\ UNCHANGED <<storageVars, usbVars, hw, events>>

(* keyboard::poll and read_key once more *)
KeysAgain ==
  /\ phase = "keys again" /\ phase' = "poll"
  /\ ReadKeys
  /\ UNCHANGED <<storageVars, usbVars, hw, events>>

Step == BootDisk \/ BootKeyboard \/ BootUsb \/ UsbPoll \/ Keys \/ Mouse \/ KeysAgain

(* handle_key runs a command, which reads keys itself or is mouse on, off or *)
(* reset                                                                     *)
Command ==
  /\ phase \in {"keys", "keys again"}
  /\ \/ ReadKey
     \/ MouseReset(hw.mouse)
     \/ \E on \in BOOLEAN : on # mouse.enabled /\ SetEnabled(on)
  /\ UNCHANGED <<storageVars, usbVars, phase>>

-----------------------------------------------------------------------------
(* What happens outside the kernel *)

InputPs2 == /\ phase # "disk"
            /\ PressKey \/ OtherCode \/ MouseMoves
            /\ UNCHANGED <<storageVars, usbVars, phase>>

InputUsb == /\ \/ \E p \in Port : Plug(p) \/ Unplug(p)
               \/ Transfer
            /\ UNCHANGED <<storageVars, ps2Vars, phase>>

PowerOff ==
  /\ StoragePowerOff /\ Ps2PowerOff /\ UsbPowerOff
  /\ phase' = "disk"

Event == /\ events < MaxEvents /\ events' = events + 1
         /\ InputPs2 \/ InputUsb \/ Command \/ PowerOff
         /\ UNCHANGED hw

(* What is missing counts as an event *)
Init == /\ StorageInit /\ Ps2Init /\ UsbInit
        /\ hw \in [disk : BOOLEAN, mouse : BOOLEAN, ehci : BOOLEAN]
        /\ events = Cardinality({part \in DOMAIN hw : ~hw[part]})
        /\ phase = "disk"

Next == Step \/ Event

(* The kernel's one thread goes on *)
Spec == Init /\ [][Next]_vars /\ WF_vars(Step)

-----------------------------------------------------------------------------
(* kernel_main: whatever hardware is missing or fails, and wherever the     *)
(* power failed before, the machine comes up: it reaches the shell's loop,  *)
(* and the loop keeps coming back to the keyboard.                          *)
ComesUp == []<>(phase = "keys")
=============================================================================
