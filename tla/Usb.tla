--------------------------------- MODULE Usb --------------------------------
(***************************************************************************)
(* USB (usb/mod.rs, usb/ehci.rs, usb/hid.rs): the root hub, enumeration,   *)
(* the table of devices and the interrupt transfers of keyboard and mouse. *)
(*                                                                         *)
(* Devices come and go at any time; the kernel looks at one port after     *)
(* another and then at the two transfer descriptors.  A control transfer   *)
(* reports an error or success, and success also when it has only run out  *)
(* of time, with the buffer still zero.                                    *)
(***************************************************************************)
EXTENDS Naturals, Sequences, FiniteSets, FiniteSetsExt

CONSTANTS
  Port,            \* ports of the root hub: 0 .. n_ports - 1
  MAX_DEVICES,
  ADDRESSES,       \* values of a u8
  KEY_BUF_SIZE,    \* 16
  REPEAT_DELAY,    \* 30
  REPEAT_RATE,     \* 6
  Report,          \* reports of a keyboard: the keys held, without repetition
  Mute             \* keys for which keycode_to_ascii has no character

ASSUME UsbAssumption ==
  /\ Port = 0 .. (Cardinality(Port) - 1)
  /\ MAX_DEVICES \in Nat \ {0} /\ ADDRESSES \in Nat /\ ADDRESSES > 1 /\ KEY_BUF_SIZE > 1
  /\ REPEAT_DELAY > 1 /\ REPEAT_RATE > 0
  /\ <<>> \in Report

VARIABLES
  port,            \* per port: what is plugged in, and whether it is enabled
  at,              \* the port that poll_root_hub looks at next
  USB_READY,
  USB_DEVICES, NEXT_ADDR,
  INT_QTD, INT_QTD_MOUSE,   \* token ("done", "active", "error") and device address
  kbd,             \* LAST_KEYS, REPEAT_KEY, REPEAT_COUNTER, REPEAT_ACTIVE, KEY_BUF
  assigned         \* history: addresses given out, with the port of each

usbVars == <<port, at, USB_READY, USB_DEVICES, NEXT_ADDR, INT_QTD, INT_QTD_MOUSE, kbd, assigned>>
tableVars == <<USB_DEVICES, NEXT_ADDR, INT_QTD, INT_QTD_MOUSE, assigned>>

Slot == 0 .. (MAX_DEVICES - 1)
Kind == {"keyboard", "mouse", "other"}
NoKey == 0
Empty == [valid |-> FALSE, port |-> 0, address |-> 0, state |-> "Detached",
          hid |-> FALSE, kind |-> "other", buf |-> <<>>]
Idle == [token |-> "done", address |-> 0]
NoKeys == [last |-> {}, key |-> NoKey, counter |-> 0, active |-> FALSE, buf |-> <<>>]

-----------------------------------------------------------------------------
(* The bus *)

(* External: a device is plugged in or pulled out; the port is disabled *)
Plug(p) ==
  /\ port[p].dev = "none"
  /\ \E d \in Kind : port' = [port EXCEPT ![p] = [dev |-> d, enabled |-> FALSE]]
  /\ UNCHANGED <<at, USB_READY, tableVars, kbd>>

Unplug(p) ==
  /\ port[p].dev # "none"
  /\ port' = [port EXCEPT ![p] = [dev |-> "none", enabled |-> FALSE]]
  /\ UNCHANGED <<at, USB_READY, tableVars, kbd>>

(* External: the controller ends the transfer of the keyboard, whose buffer  *)
(* is that of slot 0.  The mouse's is never carried out: only INT_QH is in    *)
(* the frame list, and its link to INT_QH_MOUSE is cut (ehci.rs:600, 852).    *)
Transfer ==
  /\ INT_QTD.token = "active" /\ INT_QTD.address # 0
  /\ \E p \in Port : port[p].dev # "none" /\ port[p].enabled
  /\ \/ \E r \in Report : /\ USB_DEVICES' = [USB_DEVICES EXCEPT ![0].buf = r]
                          /\ INT_QTD' = [INT_QTD EXCEPT !.token = "done"]
     \/ INT_QTD' = [INT_QTD EXCEPT !.token = "error"] /\ UNCHANGED USB_DEVICES
  /\ UNCHANGED <<port, at, USB_READY, NEXT_ADDR, INT_QTD_MOUSE, kbd, assigned>>

-----------------------------------------------------------------------------
(* The table of devices: usb/mod.rs *)

Valid == {i \in Slot : USB_DEVICES[i].valid}

(* alloc_device: the first free slot *)
AllocDevice == IF Valid = Slot THEN <<>> ELSE <<Min(Slot \ Valid)>>

(* Mutant: the counter of addresses wraps past 0 *)
AssignAddressWraps(i, p) ==
  /\ NEXT_ADDR' = (NEXT_ADDR % (ADDRESSES - 1)) + 1
  /\ assigned' = assigned \cup {<<NEXT_ADDR, p>>}

(* assign_address: u8 arithmetic; after the last address NEXT_ADDR is 0 and  *)
(* no device gets one any more                                               *)
AssignAddress(i, p) ==
  /\ NEXT_ADDR # 0
  /\ NEXT_ADDR' = (NEXT_ADDR + 1) % ADDRESSES
  /\ assigned' = assigned \cup {<<NEXT_ADDR, p>>}

Addressed(p) == [Empty EXCEPT !.valid = TRUE, !.port = p, !.address = NEXT_ADDR, !.state = "Addressed"]

-----------------------------------------------------------------------------
(* usb/ehci.rs *)

(* What enumerate_device and setup_hid_device make of the entry d: if all    *)
(* goes well, and otherwise.  An error of SET_ADDRESS frees the slot, any     *)
(* later one leaves the device in the table as far as it has come.            *)
Gone(d) == [d EXCEPT !.valid = FALSE]
Described(d, kind) == [d EXCEPT !.hid = kind # "other"]
Configured(d, kind) == [Described(d, kind) EXCEPT !.state = "Configured"]
Enumerated(d, kind) ==
  IF kind = "other" THEN Configured(d, kind)
  ELSE [Configured(d, kind) EXCEPT !.state = "Ready", !.kind = kind]
Abandoned(d, kind) ==
  {Gone(d), d, Described(d, kind), Configured(d, kind), [Configured(d, kind) EXCEPT !.kind = kind]}

(* setup_int_qh, setup_int_qh_mouse: the transfer is aimed at the device *)
SetupIntQh(d) ==
  IF d.state # "Ready" THEN UNCHANGED <<INT_QTD, INT_QTD_MOUSE>>
  ELSE IF d.kind = "mouse"
  THEN /\ INT_QTD_MOUSE' = [token |-> "active", address |-> d.address]
       /\ UNCHANGED INT_QTD
  ELSE /\ INT_QTD' = [token |-> "active", address |-> d.address]
       /\ UNCHANGED INT_QTD_MOUSE

(* enumerate_device: a full table, a lack of addresses and an error of the  *)
(* first descriptor change nothing                                          *)
EnumerateDevice(p, ok) ==
  \/ /\ AllocDevice = <<>> \/ NEXT_ADDR = 0 \/ ~ok
     /\ UNCHANGED tableVars
  \/ \E i \in Slot :
       /\ AllocDevice = <<i>>
       /\ AssignAddress(i, p)
       /\ \E d \in IF ok THEN {Enumerated(Addressed(p), port[p].dev)}
                       ELSE Abandoned(Addressed(p), port[p].dev) :
            /\ USB_DEVICES' = [USB_DEVICES EXCEPT ![i] = d]
            /\ SetupIntQh(d)

Already(p) == \E i \in Valid : USB_DEVICES[i].port = p

(* The device of port p is removed from the table *)
Removed(p) == [i \in Slot |-> IF USB_DEVICES[i].valid /\ USB_DEVICES[i].port = p
                              THEN Gone(USB_DEVICES[i]) ELSE USB_DEVICES[i]]

(* poll_root_hub, one port, of which the reset or the enumeration goes well  *)
(* or not.  Connected and enabled are as read before the reset, so a port is *)
(* enumerated by the poll after the one that resets it.                      *)
PollPort(p, ok) ==
  LET connected == port[p].dev # "none"
      enabled == port[p].enabled
  IN  /\ at = p /\ at' = p + 1
      /\ port' = IF connected /\ ~enabled THEN [port EXCEPT ![p].enabled = ok] ELSE port
      /\ CASE connected /\ enabled /\ ~Already(p) -> EnumerateDevice(p, ok)
           [] ~connected /\ Already(p) ->
                /\ ok /\ USB_DEVICES' = Removed(p)
                /\ UNCHANGED <<NEXT_ADDR, INT_QTD, INT_QTD_MOUSE, assigned>>
           [] OTHER -> (ok \/ (connected /\ ~enabled)) /\ UNCHANGED tableVars
      /\ UNCHANGED <<USB_READY, kbd>>

-----------------------------------------------------------------------------
(* usb/hid.rs *)

(* keycode_to_ascii of each key: a character, or nothing; shift is left out *)
KeycodeToAscii(keys) == LET HasChar(key) == key \notin Mute IN SelectSeq(keys, HasChar)

(* The new keys of a report, in its order *)
NewKeys(k, r) == LET IsNew(key) == key \notin k.last IN SelectSeq(r, IsNew)

(* push_key of the characters: dropped when the ring is full *)
PushAll(buf, keys) ==
  LET all == buf \o KeycodeToAscii(keys)
  IN  SubSeq(all, 1, Min({KEY_BUF_SIZE - 1, Len(all)}))

(* process_report: new keys are pushed; the first key held repeats after     *)
(* REPEAT_DELAY reports and then every REPEAT_RATE                           *)
ProcessReport(k, r) ==
  LET new == NewKeys(k, r)
      first == IF r = <<>> THEN NoKey ELSE r[1]
      pushed == [k EXCEPT !.last = {r[i] : i \in DOMAIN r}, !.buf = PushAll(@, new)]
      due == IF k.active THEN REPEAT_RATE ELSE REPEAT_DELAY
  IN  IF r = <<>> THEN [pushed EXCEPT !.key = NoKey, !.counter = 0, !.active = FALSE]
      ELSE IF new # <<>> \/ first # k.key
        THEN [pushed EXCEPT !.key = first, !.counter = 1, !.active = FALSE]
      ELSE IF k.counter + 1 < due THEN [pushed EXCEPT !.counter = @ + 1]
      ELSE [pushed EXCEPT !.counter = 0, !.active = TRUE, !.buf = PushAll(@, <<k.key>>)]

(* The first ready device of a kind, whose buffer poll_interrupts reads *)
Ready(kind) == {i \in Valid : /\ USB_DEVICES[i].state = "Ready" /\ USB_DEVICES[i].hid
                              /\ USB_DEVICES[i].kind = kind}

(* poll_interrupts: a transfer that has ended without error is handed on,   *)
(* and both are started again.  What a mouse report does is the pointer's    *)
(* position, not modelled here.                                             *)
PollInterrupts ==
  /\ at = Cardinality(Port)
  /\ at' = 0
  /\ kbd' = IF INT_QTD.token = "done" /\ Ready("keyboard") # {}
            THEN ProcessReport(kbd, USB_DEVICES[Min(Ready("keyboard"))].buf) ELSE kbd
  /\ INT_QTD' = [INT_QTD EXCEPT !.token = "active"]
  /\ INT_QTD_MOUSE' = [INT_QTD_MOUSE EXCEPT !.token = "active"]
  /\ UNCHANGED <<port, USB_READY, USB_DEVICES, NEXT_ADDR, assigned>>

(* key_read until the ring is empty *)
UsbReadKeys ==
  /\ kbd' = [kbd EXCEPT !.buf = <<>>]
  /\ UNCHANGED <<port, at, USB_READY, tableVars>>

(* usb::init: find_controller and init_controller *)
InitController(works) ==
  /\ USB_READY' = works
  /\ UNCHANGED <<port, at, tableVars, kbd>>

NoTable ==
  [table |-> [i \in Slot |-> Empty], kbd |-> NoKeys]

UsbInit ==
  /\ port = [p \in Port |-> [dev |-> "none", enabled |-> FALSE]]
  /\ at = 0 /\ USB_READY = FALSE
  /\ USB_DEVICES = NoTable.table /\ NEXT_ADDR = 1
  /\ INT_QTD = Idle /\ INT_QTD_MOUSE = Idle
  /\ kbd = NoTable.kbd /\ assigned = {}

(* The power fails: the devices stay plugged in *)
UsbPowerOff ==
  /\ port' = [p \in Port |-> [port[p] EXCEPT !.enabled = FALSE]]
  /\ at' = 0 /\ USB_READY' = FALSE
  /\ USB_DEVICES' = NoTable.table /\ NEXT_ADDR' = 1
  /\ INT_QTD' = Idle /\ INT_QTD_MOUSE' = Idle
  /\ kbd' = NoTable.kbd /\ assigned' = {}

-----------------------------------------------------------------------------
(* poll_root_hub, enumerate_device: however devices are plugged in, pulled   *)
(* out and fail, no two entries of the table are of one port or have one     *)
(* address, no address is 0 or is ever given out twice, and the keyboard's    *)
(* transfer goes to an address that was assigned.                            *)
DevicesSound ==
  /\ \A i, j \in Valid : i # j => /\ USB_DEVICES[i].port # USB_DEVICES[j].port
                                  /\ USB_DEVICES[i].address # USB_DEVICES[j].address
  /\ \A i \in Valid : <<USB_DEVICES[i].address, USB_DEVICES[i].port>> \in assigned
  /\ \A a, b \in assigned : a[1] = b[1] => a = b
  /\ \A a \in assigned : a[1] \in 1 .. (ADDRESSES - 1)
  /\ INT_QTD.address # 0 => \E a \in assigned : a[1] = INT_QTD.address
=============================================================================
