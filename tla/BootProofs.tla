----------------------------- MODULE BootProofs -----------------------------
(***************************************************************************)
(* Proofs about the start of the kernel, for any number of ports, devices,  *)
(* addresses and events: the disk that is mounted, and the table of USB     *)
(* devices.                                                                 *)
(***************************************************************************)
EXTENDS Boot, WellFoundedInduction, SequenceTheorems, TLAPS

-----------------------------------------------------------------------------
(* The disk *)

(* The disk is as format leaves it after n writes, without faults *)
Written(n) ==
  /\ disk[SUPER] = (IF n >= 1 THEN SUPER ELSE Blank)
  /\ disk[INODE_BITMAP] = (IF n >= 2 THEN INODE_BITMAP ELSE Blank)
  /\ disk[BLOCK_BITMAP] = (IF n >= 3 THEN BLOCK_BITMAP ELSE Blank)
  /\ disk[INODE_TABLE] = (IF n >= 5 THEN {0, 1} ELSE IF n = 4 THEN {0} ELSE {})

DiskInv ==
  /\ DOMAIN disk = Sector
  /\ disk = [s \in Sector |-> disk[s]]
  /\ fmt = <<>> \/ \E n \in 0 .. 4 : fmt = <<n>>
  /\ MOUNTED => fmt = <<>>
  /\ ~cut /\ ~fault => /\ \A n \in 0 .. 4 : fmt = <<n>> => Written(n)
                       /\ fmt = <<>> => Written(0) \/ Written(5)
                       /\ MOUNTED => Written(5)

LEMMA SectorsDiffer ==
  /\ SUPER # INODE_BITMAP /\ SUPER # BLOCK_BITMAP /\ SUPER # INODE_TABLE
  /\ INODE_BITMAP # BLOCK_BITMAP /\ INODE_BITMAP # INODE_TABLE /\ BLOCK_BITMAP # INODE_TABLE
  /\ Sector = {SUPER, INODE_BITMAP, BLOCK_BITMAP, INODE_TABLE}
  BY DEF SUPER, INODE_BITMAP, BLOCK_BITMAP, INODE_TABLE, Sector

LEMMA BlankIs ==
  /\ BlankDisk = [s \in Sector |-> IF s = INODE_TABLE THEN {} ELSE Blank]
  /\ Blank # SUPER
<1>1. Blank # "super"
  BY StorageAssumption
<1> QED BY <1>1 DEF BlankDisk, NoInode, SUPER

(* Write number n of format makes the next of these disks *)
LEMMA FormatStepKeeps ==
  ASSUME DiskInv, NEW n \in 1 .. 5, fmt = <<n - 1>>, NEW reads \in BOOLEAN, NEW writes \in BOOLEAN,
         FormatStep(n, 5, reads, writes)
  PROVE  DiskInv'
<1>1. /\ fmt' = (IF n = 5 THEN <<>> ELSE <<n>>) /\ MOUNTED' = (n = 5) /\ cut' = cut
      /\ fault' = (fault \/ ~reads \/ ~writes)
  BY DEF FormatStep
<1>3. DOMAIN disk' = Sector /\ disk' = [s \in Sector |-> disk'[s]]
  <2>1. CASE Format[n].sector = INODE_TABLE
    <3>1. \/ disk' = [disk EXCEPT ![INODE_TABLE] = ReadSector(INODE_TABLE, reads) \cup {Format[n].inode}]
          \/ disk' = disk
      BY <2>1 DEF FormatStep, WriteInode, WriteSector
    <3> QED BY <3>1 DEF DiskInv
  <2>2. CASE Format[n].sector # INODE_TABLE
    <3>1. \/ disk' = [disk EXCEPT ![Format[n].sector] = Format[n].sector]
          \/ disk' = disk
      BY <2>2 DEF FormatStep, WriteSector
    <3> QED BY <3>1 DEF DiskInv
  <2> QED BY <2>1, <2>2
<1>4. ASSUME ~cut, ~fault, reads, writes PROVE Written(n)'
  <2>1. Written(n - 1)
    BY <1>4 DEF DiskInv
  <2>2. CASE n = 1
    <3>1. disk' = [disk EXCEPT ![SUPER] = SUPER]
      BY <1>4, <2>2, SectorsDiffer DEF FormatStep, WriteSector, Format
    <3> QED BY <2>1, <2>2, <3>1, SectorsDiffer DEF Written, DiskInv
  <2>3. CASE n = 2
    <3>1. disk' = [disk EXCEPT ![INODE_BITMAP] = INODE_BITMAP]
      BY <1>4, <2>3, SectorsDiffer DEF FormatStep, WriteSector, Format
    <3> QED BY <2>1, <2>3, <3>1, SectorsDiffer DEF Written, DiskInv
  <2>4. CASE n = 3
    <3>1. disk' = [disk EXCEPT ![BLOCK_BITMAP] = BLOCK_BITMAP]
      BY <1>4, <2>4, SectorsDiffer DEF FormatStep, WriteSector, Format
    <3> QED BY <2>1, <2>4, <3>1, SectorsDiffer DEF Written, DiskInv
  <2>5. CASE n = 4
    <3>1. disk' = [disk EXCEPT ![INODE_TABLE] = disk[INODE_TABLE] \cup {0}]
      BY <1>4, <2>5, SectorsDiffer DEF FormatStep, WriteInode, WriteSector, ReadSector, Format
    <3>2. disk[INODE_TABLE] \cup {0} = {0}
      BY <2>1, <2>5 DEF Written
    <3> QED BY <2>1, <2>5, <3>1, <3>2, SectorsDiffer DEF Written, DiskInv
  <2>6. CASE n = 5
    <3>1. disk' = [disk EXCEPT ![INODE_TABLE] = disk[INODE_TABLE] \cup {1}]
      BY <1>4, <2>6, SectorsDiffer DEF FormatStep, WriteInode, WriteSector, ReadSector, Format
    <3>2. disk[INODE_TABLE] \cup {1} = {0, 1}
      BY <2>1, <2>6 DEF Written
    <3> QED BY <2>1, <2>6, <3>1, <3>2, SectorsDiffer DEF Written, DiskInv
  <2> QED BY <2>2, <2>3, <2>4, <2>5, <2>6
<1>5. CASE n = 5
  BY <1>1, <1>3, <1>4, <1>5 DEF DiskInv
<1>6. CASE n # 5
  <2>0. n \in 0 .. 4 /\ <<n>> # <<>>
    BY <1>6
  <2>1. n \in 0 .. 4 /\ fmt' = <<n>> /\ ~MOUNTED' /\ fmt' # <<>>
    BY <1>1, <1>6, <2>0
  <2>2. \A m \in 0 .. 4 : fmt' = <<m>> => m = n
    BY <2>1
  <2> QED BY <1>1, <1>3, <1>4, <2>1, <2>2 DEF DiskInv
<1> QED BY <1>5, <1>6

LEMMA InitBlockfsKeeps ==
  ASSUME DiskInv, NEW answers \in BOOLEAN, NEW reads \in BOOLEAN, InitBlockfs(answers, reads)
  PROVE  DiskInv'
<1> DEFINE magic == ReadSector(SUPER, reads) = SUPER
<1>1. /\ fmt = <<>> /\ disk' = disk /\ cut' = cut /\ fault' = (fault \/ (answers /\ ~reads))
      /\ MOUNTED' = (answers /\ magic) /\ fmt' = (IF answers /\ ~magic THEN <<0>> ELSE <<>>)
  BY DEF InitBlockfs
<1>2. fmt' = <<0>> => fmt' # <<>> /\ \A n \in 0 .. 4 : fmt' = <<n>> => n = 0
  OBVIOUS
<1>3. fmt' = <<>> => \A n \in 0 .. 4 : fmt' # <<n>>
  OBVIOUS
<1>4. 0 \in 0 .. 4
  OBVIOUS
<1>5. ASSUME ~cut', ~fault'
      PROVE  /\ \A n \in 0 .. 4 : fmt' = <<n>> => Written(n)'
             /\ fmt' = <<>> => Written(0)' \/ Written(5)'
             /\ MOUNTED' => Written(5)'
  <2>1. Written(0) \/ Written(5)
    BY <1>1, <1>5 DEF DiskInv
  <2>2. answers => (magic <=> disk[SUPER] = SUPER)
    BY <1>1, <1>5 DEF ReadSector
  <2>3. Written(0)' <=> Written(0)
    BY <1>1 DEF Written
  <2>4. Written(5)' <=> Written(5)
    BY <1>1 DEF Written
  <2>5. Written(0) => disk[SUPER] # SUPER
    BY BlankIs DEF Written
  <2>6. Written(5) => disk[SUPER] = SUPER
    BY DEF Written
  <2> HIDE DEF magic
  <2> QED BY <1>1, <1>2, <1>3, <2>1, <2>2, <2>3, <2>4, <2>5, <2>6
<1>6. (fmt' = <<>> \/ fmt' = <<0>>) /\ (MOUNTED' => fmt' = <<>>)
  <2> HIDE DEF magic
  <2> QED BY <1>1
<1>7. DOMAIN disk' = Sector /\ disk' = [s \in Sector |-> disk'[s]]
  BY <1>1 DEF DiskInv
<1> QED BY <1>4, <1>5, <1>6, <1>7 DEF DiskInv

LEMMA DiskPowerOff ==
  ASSUME DiskInv, StoragePowerOff
  PROVE  DiskInv'
<1>1. fmt' = <<>> /\ MOUNTED' = FALSE /\ disk' = disk /\ fault' = fault
      /\ cut' = (cut \/ (fmt # <<>> /\ fmt[1] > 0))
  BY DEF StoragePowerOff
<1>2. \A n \in 0 .. 4 : fmt' # <<n>>
  BY <1>1
<1>3. ASSUME ~cut', ~fault' PROVE Written(0)' \/ Written(5)'
  <2>1. CASE fmt = <<>>
    BY <2>1, <1>1, <1>3 DEF DiskInv, Written
  <2>2. CASE fmt # <<>>
    <3>1. PICK n \in 0 .. 4 : fmt = <<n>>
      BY <2>2 DEF DiskInv
    <3>2. n = 0
      <4>1. fmt[1] = n
        BY <3>1
      <4>2. ~(n > 0)
        BY <1>1, <1>3, <2>2, <4>1
      <4> QED BY <4>2
    <3>3. Written(0)
      BY <1>1, <1>3, <3>1, <3>2 DEF DiskInv
    <3> QED BY <1>1, <3>3 DEF Written
  <2> QED BY <2>1, <2>2
<1> QED BY <1>1, <1>2, <1>3 DEF DiskInv

LEMMA DiskInit ==
  ASSUME StorageInit
  PROVE  DiskInv
<1>1. Written(0)
  BY BlankIs, SectorsDiffer DEF StorageInit, Written
<1>2. disk = BlankDisk /\ MOUNTED = FALSE /\ fmt = <<>>
  BY DEF StorageInit
<1>3. \A n \in 0 .. 4 : fmt # <<n>>
  BY <1>2
<1>4. DOMAIN disk = Sector /\ disk = [s \in Sector |-> disk[s]]
  BY <1>2, BlankIs
<1> QED BY <1>1, <1>2, <1>3, <1>4 DEF DiskInv

LEMMA DiskMounted ==
  ASSUME DiskInv
  PROVE  MountedDiskComplete
<1>1. Written(5) => Complete
  BY SectorsDiffer DEF Written, Complete
<1> QED BY <1>1 DEF DiskInv, MountedDiskComplete

BootHw == hw \in [disk : BOOLEAN, mouse : BOOLEAN, ehci : BOOLEAN]

LEMMA DiskNext ==
  ASSUME BootHw, DiskInv, [Next]_vars
  PROVE  DiskInv' /\ BootHw'
<1>1. UNCHANGED storageVars => DiskInv'
  <2> SUFFICES ASSUME UNCHANGED storageVars PROVE DiskInv'
    OBVIOUS
  <2>1. disk' = disk /\ MOUNTED' = MOUNTED /\ fmt' = fmt /\ cut' = cut /\ fault' = fault
    BY DEF storageVars
  <2>2. \A n \in 0 .. 5 : Written(n)' <=> Written(n)
    BY <2>1 DEF Written
  <2>3. /\ \A n \in 0 .. 4 : Written(n)' <=> Written(n)
        /\ Written(0)' <=> Written(0)
        /\ Written(5)' <=> Written(5)
    BY <2>2
  <2> QED BY <2>1, <2>3 DEF DiskInv
<1>2. CASE BootDisk
  <2>1. PICK reads \in BOOLEAN, writes \in BOOLEAN :
          InitBlockfs(hw.disk, reads) \/ FormatWrite(reads, writes)
    BY <1>2 DEF BootDisk
  <2>2. CASE InitBlockfs(hw.disk, reads)
    <3>1. hw.disk \in BOOLEAN
      BY DEF BootHw
    <3> QED BY <1>2, <2>2, <3>1, InitBlockfsKeeps DEF BootDisk, BootHw
  <2>3. CASE FormatWrite(reads, writes)
    <3>1. PICK n \in 0 .. 4 : fmt = <<n>>
      BY <2>3 DEF DiskInv, FormatWrite
    <3>2. FormatStep(n + 1, 5, reads, writes)
      BY <2>3, <3>1 DEF FormatWrite, Format
    <3>3. n + 1 \in 1 .. 5 /\ (n + 1) - 1 = n
      OBVIOUS
    <3>4. fmt = <<(n + 1) - 1>>
      BY <3>1, <3>3
    <3>5. DiskInv'
      BY <3>2, <3>3, <3>4, FormatStepKeeps
    <3> QED BY <1>2, <3>5 DEF BootDisk, BootHw
  <2> QED BY <2>1, <2>2, <2>3
<1>3. CASE PowerOff /\ UNCHANGED hw
  BY <1>3, DiskPowerOff DEF PowerOff, BootHw
<1>4. CASE UNCHANGED <<storageVars, hw>>
  BY <1>1, <1>4 DEF BootHw
<1>5. CASE Step
  BY <1>2, <1>4, <1>5 DEF Step, BootKeyboard, BootUsb, UsbPoll, Keys, Mouse, KeysAgain
<1>6. CASE Event
  BY <1>3, <1>4, <1>6 DEF Event, InputPs2, InputUsb, Command
<1>7. CASE UNCHANGED vars
  BY <1>4, <1>7 DEF vars
<1> QED BY <1>5, <1>6, <1>7 DEF Next

(* blockfs::init: wherever the power fails, how often, and whatever the     *)
(* hardware lacks, a disk that is mounted holds all that format writes,     *)
(* unless format was cut after its first write or the disk failed.          *)
THEOREM BootMountedDiskComplete == Spec => []MountedDiskComplete
<1>1. Init => DiskInv /\ BootHw
  BY DiskInit DEF Init, BootHw
<1>2. DiskInv /\ BootHw /\ [Next]_vars => (DiskInv /\ BootHw)'
  BY DiskNext
<1>3. DiskInv => MountedDiskComplete
  BY DiskMounted
<1> QED BY <1>1, <1>2, <1>3, PTL DEF Spec

-----------------------------------------------------------------------------
(* The table of USB devices *)

Device ==
  [valid : BOOLEAN, port : Port \cup {0}, address : Nat,
   state : {"Detached", "Addressed", "Configured", "Ready"}, hid : BOOLEAN, kind : Kind, buf : Report]

(* Addresses are given out in ascending order, and none after the last *)
UsbInv ==
  /\ port \in [Port -> [dev : Kind \cup {"none"}, enabled : BOOLEAN]]
  /\ USB_DEVICES \in [Slot -> Device]
  /\ NEXT_ADDR \in 0 .. (ADDRESSES - 1)
  /\ assigned \subseteq (1 .. (ADDRESSES - 1)) \X Port
  /\ NEXT_ADDR # 0 => \A a \in assigned : a[1] < NEXT_ADDR
  /\ INT_QTD \in [token : {"done", "active", "error"}, address : Nat]
  /\ DevicesSound

LEMMA UsbFacts ==
  /\ MAX_DEVICES \in Nat /\ MAX_DEVICES > 0 /\ ADDRESSES \in Nat /\ ADDRESSES > 1
  /\ <<>> \in Report /\ 0 \in Slot /\ Slot \subseteq Nat
<1>1. /\ MAX_DEVICES \in Nat \ {0} /\ ADDRESSES \in Nat /\ ADDRESSES > 1 /\ <<>> \in Report
  BY UsbAssumption
<1> QED BY <1>1 DEF Slot

LEMMA LeastNat ==
  ASSUME NEW S \in SUBSET Nat, S # {}
  PROVE  \E n \in S : \A m \in S : n <= m
<1>1. PICK n \in S : \A m \in S : ~(<<m, n>> \in OpToRel(<, Nat))
  BY NatLessThanWellFounded, WFMin
<1>2. \A m \in S : ~(m < n)
  BY <1>1 DEF OpToRel
<1> QED BY <1>2

LEMMA MinIs ==
  ASSUME NEW S \in SUBSET Nat, S # {}
  PROVE  Min(S) \in S
  BY LeastNat DEF Min

LEMMA AllocDeviceIs ==
  ASSUME NEW i \in Slot, AllocDevice = <<i>>
  PROVE  ~USB_DEVICES[i].valid
<1>1. Valid # Slot /\ Valid \subseteq Slot
  <2>1. <<i>> # <<>>
    OBVIOUS
  <2> QED BY <2>1 DEF AllocDevice, Valid
<1> DEFINE S == Slot \ Valid
<1>2. S \in SUBSET Nat /\ S # {}
  BY <1>1, UsbFacts
<1>3. AllocDevice = <<Min(S)>>
  BY <1>1 DEF AllocDevice
<1> HIDE DEF S
<1>4. i = Min(S) /\ Min(S) \in S
  BY <1>2, <1>3, MinIs
<1> QED BY <1>4 DEF S, Valid

LEMMA EmptyIs == Empty \in Device /\ ~Empty.valid
  BY UsbFacts DEF Empty, Device, Kind

(* The table of a machine that has just started *)
LEMMA NoTableIs ==
  /\ NoTable.table \in [Slot -> Device]
  /\ \A i \in Slot : ~NoTable.table[i].valid
<1>1. NoTable.table = [i \in Slot |-> Empty]
  BY DEF NoTable
<1> QED BY <1>1, EmptyIs

LEMMA UsbStart ==
  ASSUME port \in [Port -> [dev : Kind \cup {"none"}, enabled : BOOLEAN]],
         USB_DEVICES = NoTable.table, NEXT_ADDR = 1, INT_QTD = Idle, assigned = {}
  PROVE  UsbInv
<1>1. Valid = {} /\ USB_DEVICES \in [Slot -> Device]
  BY NoTableIs DEF Valid
<1>2. INT_QTD \in [token : {"done", "active", "error"}, address : Nat] /\ INT_QTD.address = 0
  BY DEF Idle
<1>3. NEXT_ADDR \in 0 .. (ADDRESSES - 1)
  BY UsbFacts
<1>4. DevicesSound
  BY <1>1, <1>2 DEF DevicesSound
<1> QED BY <1>1, <1>2, <1>3, <1>4 DEF UsbInv

(* Entries of the table that change, but not their validity, port and address, *)
(* or that become invalid                                                      *)
LEMMA TableShrinks ==
  ASSUME UsbInv, port' \in [Port -> [dev : Kind \cup {"none"}, enabled : BOOLEAN]],
         USB_DEVICES' \in [Slot -> Device], NEXT_ADDR' = NEXT_ADDR, assigned' = assigned,
         INT_QTD' \in [token : {"done", "active", "error"}, address : Nat],
         INT_QTD'.address = INT_QTD.address,
         \A i \in Slot : USB_DEVICES'[i].valid =>
           /\ USB_DEVICES[i].valid /\ USB_DEVICES'[i].port = USB_DEVICES[i].port
           /\ USB_DEVICES'[i].address = USB_DEVICES[i].address
  PROVE  UsbInv'
<1>1. DevicesSound'
  <2>1. \A i \in Valid' : /\ i \in Valid /\ USB_DEVICES'[i].port = USB_DEVICES[i].port
                          /\ USB_DEVICES'[i].address = USB_DEVICES[i].address
    BY DEF Valid
  <2> QED BY <2>1 DEF DevicesSound, UsbInv
<1> QED BY <1>1 DEF UsbInv

(* What enumerate_device leaves of a device, it is of the port and address   *)
LEMMA EnumeratedIs ==
  ASSUME UsbInv, NEW p \in Port, port[p].dev # "none", NEW ok \in BOOLEAN,
         NEW d \in IF ok THEN {Enumerated(Addressed(p), port[p].dev)}
                   ELSE Abandoned(Addressed(p), port[p].dev)
  PROVE  d \in Device /\ d.port = p /\ d.address = NEXT_ADDR
<1> DEFINE a == Addressed(p)
           k == port[p].dev
           Same(e) == e \in Device /\ e.port = p /\ e.address = NEXT_ADDR
<1>1. k \in Kind /\ NEXT_ADDR \in Nat
  BY UsbFacts DEF UsbInv
<1>2. Same(a)
  BY <1>1, EmptyIs DEF Addressed, Device
<1>3. ASSUME NEW e, Same(e)
      PROVE  Same(Gone(e)) /\ Same(Described(e, k)) /\ Same([e EXCEPT !.state = "Configured"])
             /\ Same([e EXCEPT !.state = "Ready", !.kind = k]) /\ Same([e EXCEPT !.kind = k])
  <2> HIDE DEF a, k
  <2>1. Same(Gone(e))
    BY <1>3 DEF Gone, Device
  <2>2. Same(Described(e, k))
    BY <1>3 DEF Described, Device
  <2>3. Same([e EXCEPT !.state = "Configured"])
    BY <1>3 DEF Device
  <2>4. Same([e EXCEPT !.state = "Ready", !.kind = k])
    BY <1>1, <1>3 DEF Device
  <2>5. Same([e EXCEPT !.kind = k])
    BY <1>1, <1>3 DEF Device
  <2> QED BY <2>1, <2>2, <2>3, <2>4, <2>5
<1> HIDE DEF a, k, Same
<1>4. Same(Described(a, k))
  BY <1>2, <1>3
<1>5. Same(Configured(a, k))
  BY <1>3, <1>4 DEF Configured
<1>6. Same(Enumerated(a, k))
  BY <1>3, <1>5 DEF Enumerated
<1>7. \A e \in Abandoned(a, k) : Same(e)
  BY <1>2, <1>3, <1>4, <1>5 DEF Abandoned
<1>8. Same(d)
  BY <1>6, <1>7 DEF a, k
<1> QED BY <1>8 DEF Same

LEMMA EnumerateKeeps ==
  ASSUME UsbInv, NEW p \in Port, port[p].dev # "none", ~Already(p), NEW ok \in BOOLEAN,
         EnumerateDevice(p, ok), port' = port
  PROVE  UsbInv'
<1>1. CASE UNCHANGED tableVars
  BY <1>1 DEF tableVars, UsbInv, DevicesSound, Valid
<1>2. CASE ~UNCHANGED tableVars
  <2>1. PICK i \in Slot :
          /\ AllocDevice = <<i>>
          /\ AssignAddress(i, p)
          /\ \E d \in IF ok THEN {Enumerated(Addressed(p), port[p].dev)}
                      ELSE Abandoned(Addressed(p), port[p].dev) :
               /\ USB_DEVICES' = [USB_DEVICES EXCEPT ![i] = d]
               /\ SetupIntQh(d)
    BY <1>2 DEF EnumerateDevice
  <2>2. PICK d \in IF ok THEN {Enumerated(Addressed(p), port[p].dev)}
                   ELSE Abandoned(Addressed(p), port[p].dev) :
               /\ USB_DEVICES' = [USB_DEVICES EXCEPT ![i] = d]
               /\ SetupIntQh(d)
    BY <2>1
  <2>3. d \in Device /\ d.port = p /\ d.address = NEXT_ADDR
    BY EnumeratedIs
  <2>4. ~USB_DEVICES[i].valid
    BY <2>1, AllocDeviceIs
  <2> DEFINE new == <<NEXT_ADDR, p>>
  <2>5. NEXT_ADDR # 0 /\ NEXT_ADDR' = (NEXT_ADDR + 1) % ADDRESSES /\ assigned' = assigned \cup {new}
    BY <2>1 DEF AssignAddress
  <2>6. NEXT_ADDR \in 1 .. (ADDRESSES - 1)
    BY <2>5, UsbFacts DEF UsbInv
  <2>7. NEXT_ADDR' \in 0 .. (ADDRESSES - 1) /\ (NEXT_ADDR' # 0 => NEXT_ADDR' = NEXT_ADDR + 1)
    <3>1. CASE NEXT_ADDR = ADDRESSES - 1
      <4>1. NEXT_ADDR + 1 = ADDRESSES /\ ADDRESSES % ADDRESSES = 0
        BY <3>1, UsbFacts
      <4> QED BY <2>5, <4>1, UsbFacts
    <3>2. CASE NEXT_ADDR # ADDRESSES - 1
      <4>1. NEXT_ADDR + 1 \in 0 .. (ADDRESSES - 1) /\ (NEXT_ADDR + 1) % ADDRESSES = NEXT_ADDR + 1
        BY <2>6, <3>2, UsbFacts
      <4> QED BY <2>5, <4>1
    <3> QED BY <3>1, <3>2
  <2>8. USB_DEVICES' \in [Slot -> Device] /\ USB_DEVICES'[i] = d
        /\ \A j \in Slot \ {i} : USB_DEVICES'[j] = USB_DEVICES[j]
    BY <2>2, <2>3 DEF UsbInv
  <2>9. new \in (1 .. (ADDRESSES - 1)) \X Port /\ new[1] = NEXT_ADDR /\ new[2] = p
    BY <2>6
  <2>10. assigned \subseteq (1 .. (ADDRESSES - 1)) \X Port /\ \A a \in assigned : a[1] < NEXT_ADDR
    BY <2>5 DEF UsbInv
  <2>11. assigned' \subseteq (1 .. (ADDRESSES - 1)) \X Port
    BY <2>5, <2>9, <2>10
  <2>12. \A a \in assigned : a[1] \in Nat /\ a[1] < NEXT_ADDR
    BY <2>10, UsbFacts
  <2>13. NEXT_ADDR' # 0 => \A a \in assigned' : a[1] < NEXT_ADDR'
    <3> SUFFICES ASSUME NEXT_ADDR' = NEXT_ADDR + 1, NEW a \in assigned' PROVE a[1] < NEXT_ADDR + 1
      BY <2>7
    <3>1. CASE a \in assigned
      BY <2>6, <2>12, <3>1
    <3>2. CASE a = new
      <4>1. a[1] = NEXT_ADDR
        BY <2>9, <3>2
      <4> HIDE DEF new
      <4> QED BY <2>6, <4>1
    <3> QED BY <2>5, <3>1, <3>2
  <2> HIDE DEF new
  <2>14. /\ INT_QTD' \in [token : {"done", "active", "error"}, address : Nat]
         /\ INT_QTD'.address \in {INT_QTD.address, NEXT_ADDR}
    <3>1. INT_QTD' = INT_QTD \/ INT_QTD' = [token |-> "active", address |-> d.address]
      BY <2>2 DEF SetupIntQh
    <3>2. d.address \in Nat
      BY <2>3, <2>6, UsbFacts
    <3>3. CASE INT_QTD' = INT_QTD
      BY <3>3 DEF UsbInv
    <3>4. CASE INT_QTD' = [token |-> "active", address |-> d.address]
      BY <2>3, <3>2, <3>4
    <3> QED BY <3>1, <3>3, <3>4
  <2>15. \A j \in Valid' : j = i \/ (j \in Valid /\ j # i /\ USB_DEVICES'[j] = USB_DEVICES[j])
    BY <2>8 DEF Valid
  <2>16. \A j \in Valid : /\ USB_DEVICES[j].port # p /\ USB_DEVICES[j].address # NEXT_ADDR
    <3> SUFFICES ASSUME NEW j \in Valid PROVE USB_DEVICES[j].port # p /\ USB_DEVICES[j].address # NEXT_ADDR
      OBVIOUS
    <3>1. USB_DEVICES[j].port # p
      BY DEF Already
    <3>2. <<USB_DEVICES[j].address, USB_DEVICES[j].port>> \in assigned
      BY DEF UsbInv, DevicesSound
    <3>3. USB_DEVICES[j].address \in Nat /\ USB_DEVICES[j].address < NEXT_ADDR
      BY <2>12, <3>2
    <3> QED BY <2>6, <3>1, <3>3
  <2>17. DevicesSound'
    <3>1. ASSUME NEW j \in Valid', NEW k \in Valid', j # k
          PROVE  /\ USB_DEVICES'[j].port # USB_DEVICES'[k].port
                 /\ USB_DEVICES'[j].address # USB_DEVICES'[k].address
      <4>1. CASE j = i
        <5>1. k \in Valid /\ USB_DEVICES'[k] = USB_DEVICES[k]
          BY <2>15, <3>1, <4>1
        <5> QED BY <2>3, <2>8, <2>16, <4>1, <5>1
      <4>2. CASE k = i
        <5>1. j \in Valid /\ USB_DEVICES'[j] = USB_DEVICES[j]
          BY <2>15, <3>1, <4>2
        <5> QED BY <2>3, <2>8, <2>16, <4>2, <5>1
      <4>3. CASE j # i /\ k # i
        BY <2>15, <3>1, <4>3 DEF UsbInv, DevicesSound
      <4> QED BY <4>1, <4>2, <4>3
    <3>2. \A j \in Valid' : <<USB_DEVICES'[j].address, USB_DEVICES'[j].port>> \in assigned'
      <4> SUFFICES ASSUME NEW j \in Valid' PROVE <<USB_DEVICES'[j].address, USB_DEVICES'[j].port>> \in assigned'
        OBVIOUS
      <4>1. CASE j = i
        BY <2>3, <2>5, <2>8, <4>1 DEF new
      <4>2. CASE j # i
        BY <2>5, <2>15, <4>2 DEF UsbInv, DevicesSound
      <4> QED BY <4>1, <4>2
    <3>3. ASSUME NEW a \in assigned', NEW b \in assigned', a[1] = b[1] PROVE a = b
      <4>1. CASE a \in assigned /\ b \in assigned
        BY <3>3, <4>1 DEF UsbInv, DevicesSound
      <4>2. CASE a = new \/ b = new
        BY <2>5, <2>6, <2>9, <2>12, <3>3, <4>2
      <4> QED BY <2>5, <4>1, <4>2
    <3>4. \A a \in assigned' : a[1] \in 1 .. (ADDRESSES - 1)
      BY <2>11
    <3>5. INT_QTD'.address # 0 => \E a \in assigned' : a[1] = INT_QTD'.address
      <4>1. CASE INT_QTD'.address = INT_QTD.address
        BY <2>5, <4>1 DEF UsbInv, DevicesSound
      <4>2. CASE INT_QTD'.address = NEXT_ADDR
        BY <2>5, <2>9, <4>2
      <4> QED BY <2>14, <4>1, <4>2
    <3> QED BY <3>1, <3>2, <3>3, <3>4, <3>5 DEF DevicesSound
  <2>18. port' \in [Port -> [dev : Kind \cup {"none"}, enabled : BOOLEAN]]
    BY DEF UsbInv
  <2> QED BY <2>7, <2>8, <2>11, <2>13, <2>14, <2>17, <2>18 DEF UsbInv
<1> QED BY <1>1, <1>2

LEMMA PollPortKeeps ==
  ASSUME UsbInv, NEW p \in Port, NEW ok \in BOOLEAN, PollPort(p, ok)
  PROVE  UsbInv'
<1> DEFINE connected == port[p].dev # "none"
           enabled == port[p].enabled
<1>0. port' = IF connected /\ ~enabled THEN [port EXCEPT ![p].enabled = ok] ELSE port
  BY DEF PollPort
<1>1. port' \in [Port -> [dev : Kind \cup {"none"}, enabled : BOOLEAN]]
  BY <1>0 DEF UsbInv
<1>2. CASE connected /\ enabled /\ ~Already(p)
  <2>1. EnumerateDevice(p, ok) /\ port' = port
    BY <1>0, <1>2 DEF PollPort
  <2> QED BY <1>2, <2>1, EnumerateKeeps
<1>3. CASE ~connected /\ Already(p)
  <2>1. USB_DEVICES' = Removed(p) /\ NEXT_ADDR' = NEXT_ADDR /\ INT_QTD' = INT_QTD /\ assigned' = assigned
    BY <1>3 DEF PollPort
  <2>2. USB_DEVICES \in [Slot -> Device]
    BY DEF UsbInv
  <2>3. \A d \in Device : Gone(d) \in Device /\ ~Gone(d).valid
    BY DEF Gone, Device
  <2>4. USB_DEVICES' \in [Slot -> Device]
    BY <2>1, <2>2, <2>3 DEF Removed
  <2>5. \A i \in Slot : USB_DEVICES'[i] = USB_DEVICES[i] \/ ~USB_DEVICES'[i].valid
    BY <2>1, <2>2, <2>3 DEF Removed
  <2>6. INT_QTD' \in [token : {"done", "active", "error"}, address : Nat]
    BY <2>1 DEF UsbInv
  <2> QED BY <1>1, <2>1, <2>4, <2>5, <2>6, TableShrinks
<1>4. CASE ~(connected /\ enabled /\ ~Already(p)) /\ ~(~connected /\ Already(p))
  <2>1. UNCHANGED tableVars
    BY <1>4 DEF PollPort
  <2>2. USB_DEVICES' = USB_DEVICES /\ NEXT_ADDR' = NEXT_ADDR /\ INT_QTD' = INT_QTD /\ assigned' = assigned
    BY <2>1 DEF tableVars
  <2> QED BY <1>1, <2>2 DEF UsbInv, DevicesSound, Valid
<1> QED BY <1>2, <1>3, <1>4

LEMMA UsbNext ==
  ASSUME UsbInv, [Next]_vars
  PROVE  UsbInv'
<1>0. USB_DEVICES \in [Slot -> Device] /\ INT_QTD \in [token : {"done", "active", "error"}, address : Nat]
      /\ port \in [Port -> [dev : Kind \cup {"none"}, enabled : BOOLEAN]]
  BY DEF UsbInv
<1>1. ASSUME UNCHANGED tableVars, port' \in [Port -> [dev : Kind \cup {"none"}, enabled : BOOLEAN]]
      PROVE  UsbInv'
  <2>1. USB_DEVICES' = USB_DEVICES /\ NEXT_ADDR' = NEXT_ADDR /\ INT_QTD' = INT_QTD /\ assigned' = assigned
    BY <1>1 DEF tableVars
  <2> QED BY <1>1, <2>1 DEF UsbInv, DevicesSound, Valid
<1>2. CASE UNCHANGED usbVars
  <2>1. UNCHANGED tableVars /\ port' = port
    BY <1>2 DEF usbVars, tableVars
  <2> QED BY <1>0, <1>1, <2>1
<1>3. CASE BootUsb
  <2>1. UNCHANGED tableVars /\ port' = port
    BY <1>3 DEF BootUsb, InitController
  <2> QED BY <1>0, <1>1, <2>1
<1>4. CASE UsbPoll
  <2>1. CASE PollInterrupts
    <3>1. /\ INT_QTD' = [INT_QTD EXCEPT !.token = "active"] /\ port' = port
          /\ USB_DEVICES' = USB_DEVICES /\ NEXT_ADDR' = NEXT_ADDR /\ assigned' = assigned
      BY <2>1 DEF PollInterrupts
    <3>2. /\ INT_QTD' \in [token : {"done", "active", "error"}, address : Nat]
          /\ INT_QTD'.address = INT_QTD.address
      BY <1>0, <3>1
    <3> QED BY <1>0, <3>1, <3>2, TableShrinks
  <2>2. CASE \E p \in Port, ok \in BOOLEAN : PollPort(p, ok)
    BY <2>2, PollPortKeeps
  <2> QED BY <1>2, <1>4, <2>1, <2>2 DEF UsbPoll
<1>5. CASE Keys
  <2>1. UNCHANGED tableVars /\ port' = port
    BY <1>5 DEF Keys, UsbReadKeys
  <2> QED BY <1>0, <1>1, <2>1
<1>6. CASE Step
  BY <1>2, <1>3, <1>4, <1>5, <1>6 DEF Step, BootDisk, BootKeyboard, Mouse, KeysAgain
<1>7. CASE InputUsb
  <2>1. ASSUME NEW p \in Port, Plug(p) \/ Unplug(p) PROVE UsbInv'
    <3>1. \E d \in Kind \cup {"none"} : port' = [port EXCEPT ![p] = [dev |-> d, enabled |-> FALSE]]
      BY <2>1 DEF Plug, Unplug
    <3>2. UNCHANGED tableVars
      BY <2>1 DEF Plug, Unplug
    <3>3. port' \in [Port -> [dev : Kind \cup {"none"}, enabled : BOOLEAN]]
      BY <1>0, <3>1
    <3> QED BY <1>1, <3>2, <3>3
  <2>2. CASE Transfer
    <3>1. port' = port /\ NEXT_ADDR' = NEXT_ADDR /\ assigned' = assigned
      BY <2>2 DEF Transfer
    <3>2. /\ INT_QTD' \in [token : {"done", "active", "error"}, address : Nat]
          /\ INT_QTD'.address = INT_QTD.address
      BY <1>0, <2>2 DEF Transfer
    <3>3. USB_DEVICES' = USB_DEVICES \/ \E r \in Report : USB_DEVICES' = [USB_DEVICES EXCEPT ![0].buf = r]
      BY <2>2 DEF Transfer
    <3>4. ASSUME NEW r \in Report, NEW d \in Device
          PROVE  /\ [d EXCEPT !.buf = r] \in Device /\ [d EXCEPT !.buf = r].valid = d.valid
                 /\ [d EXCEPT !.buf = r].port = d.port /\ [d EXCEPT !.buf = r].address = d.address
      BY DEF Device
    <3>5. /\ USB_DEVICES' \in [Slot -> Device]
          /\ \A i \in Slot : /\ USB_DEVICES'[i].valid = USB_DEVICES[i].valid
                             /\ USB_DEVICES'[i].port = USB_DEVICES[i].port
                             /\ USB_DEVICES'[i].address = USB_DEVICES[i].address
      <4>1. CASE USB_DEVICES' = USB_DEVICES
        BY <1>0, <4>1
      <4>2. ASSUME NEW r \in Report, USB_DEVICES' = [USB_DEVICES EXCEPT ![0].buf = r] PROVE <3>5
        <5> DEFINE d == [USB_DEVICES[0] EXCEPT !.buf = r]
        <5>1. /\ d \in Device /\ d.valid = USB_DEVICES[0].valid
              /\ d.port = USB_DEVICES[0].port /\ d.address = USB_DEVICES[0].address
          BY <1>0, <3>4, UsbFacts
        <5>2. USB_DEVICES' = [USB_DEVICES EXCEPT ![0] = d]
          BY <4>2
        <5> HIDE DEF d
        <5> QED BY <1>0, <5>1, <5>2, UsbFacts
      <4> QED BY <3>3, <4>1, <4>2
    <3> QED BY <1>0, <3>1, <3>2, <3>5, TableShrinks
  <2> QED BY <1>7, <2>1, <2>2 DEF InputUsb
<1>8. CASE PowerOff
  <2>1. /\ port' = [p \in Port |-> [port[p] EXCEPT !.enabled = FALSE]]
        /\ USB_DEVICES' = NoTable.table /\ NEXT_ADDR' = 1 /\ INT_QTD' = Idle /\ assigned' = {}
    BY <1>8 DEF PowerOff, UsbPowerOff
  <2>2. port' \in [Port -> [dev : Kind \cup {"none"}, enabled : BOOLEAN]]
    BY <1>0, <2>1
  <2>3. Valid' = {} /\ USB_DEVICES' \in [Slot -> Device]
    BY <2>1, NoTableIs DEF Valid
  <2>4. INT_QTD' \in [token : {"done", "active", "error"}, address : Nat] /\ INT_QTD'.address = 0
    BY <2>1 DEF Idle
  <2>5. NEXT_ADDR' \in 0 .. (ADDRESSES - 1)
    BY <2>1, UsbFacts
  <2>6. DevicesSound'
    BY <2>1, <2>3, <2>4 DEF DevicesSound
  <2> QED BY <2>1, <2>2, <2>3, <2>4, <2>5, <2>6 DEF UsbInv
<1>9. CASE Event
  BY <1>2, <1>7, <1>8, <1>9 DEF Event, InputPs2, Command
<1>10. CASE UNCHANGED vars
  BY <1>2, <1>10 DEF vars
<1> QED BY <1>6, <1>9, <1>10 DEF Next

(* poll_root_hub, enumerate_device: however devices come, go and fail, the  *)
(* entries of the table have ports and addresses of their own, no address   *)
(* is given out twice, and the keyboard's transfer goes to one of them.     *)
THEOREM BootDevicesSound == Spec => []DevicesSound
<1>1. Init => UsbInv
  <2> SUFFICES ASSUME UsbInit PROVE UsbInv
    BY DEF Init
  <2>1. port \in [Port -> [dev : Kind \cup {"none"}, enabled : BOOLEAN]]
    BY DEF UsbInit
  <2> QED BY <2>1, UsbStart DEF UsbInit
<1>2. UsbInv /\ [Next]_vars => UsbInv'
  BY UsbNext
<1>3. UsbInv => DevicesSound
  BY DEF UsbInv
<1> QED BY <1>1, <1>2, <1>3, PTL DEF Spec

-----------------------------------------------------------------------------
(* The keyboard and the mouse on the i8042 *)

(* A function defined by recursion over 0 .. n exists *)
LEMMA RecursionExists ==
  ASSUME NEW S, NEW s \in S, NEW N \in Nat, NEW g \in [1 .. N -> [S -> S]]
  PROVE  \E f \in [0 .. N -> S] : f[0] = s /\ \A i \in 1 .. N : f[i] = g[i][f[i - 1]]
<1> DEFINE Good(f, n) == f \in [0 .. n -> S] /\ f[0] = s /\ \A i \in 1 .. n : f[i] = g[i][f[i - 1]]
           out == {n \in 0 .. N : ~\E f : Good(f, n)}
<1> SUFFICES ASSUME out # {} PROVE FALSE
  <2>1. N \in 0 .. N
    OBVIOUS
  <2>2. out = {} => \E f : Good(f, N)
    BY <2>1
  <2> QED BY <2>2
<1>1. PICK n \in out : \A m \in out : n <= m
  <2>1. out \in SUBSET Nat
    OBVIOUS
  <2> HIDE DEF out
  <2> QED BY <2>1, LeastNat
<1>2. n \in 0 .. N /\ ~\E f : Good(f, n)
  OBVIOUS
<1>3. n # 0
  <2> DEFINE e == [i \in 0 .. 0 |-> s]
  <2>1. Good(e, 0)
    OBVIOUS
  <2> HIDE DEF e, Good
  <2> QED BY <1>2, <2>1
<1>4. n - 1 \in 0 .. N /\ n - 1 \notin out /\ n \in 1 .. N
  BY <1>1, <1>2, <1>3
<1>5. PICK f : Good(f, n - 1)
  BY <1>4
<1>6. g[n][f[n - 1]] \in S
  <2>1. f[n - 1] \in S
    BY <1>4, <1>5
  <2> QED BY <1>4, <2>1
<1> DEFINE e == [i \in 0 .. n |-> IF i = n THEN g[n][f[n - 1]] ELSE f[i]]
<1>7. e \in [0 .. n -> S]
  <2> SUFFICES ASSUME NEW i \in 0 .. n PROVE (IF i = n THEN g[n][f[n - 1]] ELSE f[i]) \in S
    OBVIOUS
  <2>1. i # n => i \in 0 .. n - 1
    BY <1>4
  <2> QED BY <1>5, <1>6, <2>1
<1>8. e[0] = s
  BY <1>3, <1>4, <1>5
<1>9. ASSUME NEW i \in 1 .. n PROVE e[i] = g[i][e[i - 1]]
  <2>1. i - 1 \in 0 .. n /\ i - 1 # n /\ i \in 0 .. n
    BY <1>4
  <2>2. e[i - 1] = f[i - 1]
    BY <2>1
  <2>3. CASE i = n
    BY <2>1, <2>2, <2>3
  <2>4. CASE i # n
    <3>1. i \in 1 .. n - 1
      BY <1>4, <2>4
    <3>2. f[i] = g[i][f[i - 1]]
      BY <1>5, <3>1
    <3> QED BY <2>1, <2>2, <2>4, <3>2
  <2> QED BY <2>3, <2>4
<1>10. Good(e, n)
  <2> HIDE DEF e
  <2> QED BY <1>7, <1>8, <1>9
<1> HIDE DEF e, Good
<1> QED BY <1>2, <1>10

(* The keys in a sequence, 0 standing for what is none *)
Elems(s) == {s[i] : i \in 1 .. Len(s)}
Before(A, B) == \A a \in A, b \in B : a # 0 /\ b # 0 => a < b
Ordered(s) == \A i, j \in 1 .. Len(s) : i < j /\ s[i] # 0 /\ s[j] # 0 => s[i] < s[j]

LEMMA OrderedAppend ==
  ASSUME NEW s \in Seq(Nat), NEW m \in Nat
  PROVE  /\ Append(s, m) \in Seq(Nat) /\ Elems(Append(s, m)) = Elems(s) \cup {m}
         /\ Ordered(s) /\ Before(Elems(s), {m}) => Ordered(Append(s, m))
<1> DEFINE t == Append(s, m)
<1>1. /\ t \in Seq(Nat) /\ Len(s) \in Nat /\ Len(t) = Len(s) + 1 /\ t[Len(s) + 1] = m
      /\ \A i \in 1 .. Len(s) : t[i] = s[i]
  BY AppendProperties
<1> HIDE DEF t
<1>2. \A i \in 1 .. Len(t) : i \in 1 .. Len(s) \/ i = Len(s) + 1
  BY <1>1
<1>3. Elems(t) = Elems(s) \cup {m}
  <2>1. Elems(t) \subseteq Elems(s) \cup {m}
    BY <1>1, <1>2 DEF Elems
  <2>2. \A i \in 1 .. Len(s) : i \in 1 .. Len(t)
    BY <1>1
  <2>3. Len(s) + 1 \in 1 .. Len(t)
    BY <1>1
  <2>4. Elems(s) \cup {m} \subseteq Elems(t)
    BY <1>1, <2>2, <2>3 DEF Elems
  <2> QED BY <2>1, <2>4
<1>4. ASSUME Ordered(s), Before(Elems(s), {m}) PROVE Ordered(t)
  <2> SUFFICES ASSUME NEW i \in 1 .. Len(t), NEW j \in 1 .. Len(t), i < j, t[i] # 0, t[j] # 0
               PROVE  t[i] < t[j]
    BY DEF Ordered
  <2>1. i \in 1 .. Len(s)
    BY <1>1
  <2>2. CASE j \in 1 .. Len(s)
    BY <1>1, <1>4, <2>1, <2>2 DEF Ordered
  <2>3. CASE j = Len(s) + 1
    <3>1. s[i] \in Elems(s) /\ t[i] = s[i] /\ t[j] = m
      BY <1>1, <2>1, <2>3 DEF Elems
    <3> QED BY <1>4, <3>1 DEF Before
  <2> QED BY <1>2, <2>2, <2>3
<1> QED BY <1>1, <1>3, <1>4 DEF t

LEMMA OrderedConcat ==
  ASSUME NEW s \in Seq(Nat), NEW t \in Seq(Nat)
  PROVE  /\ s \o t \in Seq(Nat) /\ Elems(s \o t) = Elems(s) \cup Elems(t)
         /\ Ordered(s) /\ Ordered(t) /\ Before(Elems(s), Elems(t)) => Ordered(s \o t)
<1> DEFINE u == s \o t
<1>1. /\ u \in Seq(Nat) /\ Len(s) \in Nat /\ Len(t) \in Nat /\ Len(u) = Len(s) + Len(t)
      /\ \A i \in 1 .. Len(s) + Len(t) : u[i] = IF i <= Len(s) THEN s[i] ELSE t[i - Len(s)]
  BY ConcatProperties
<1> HIDE DEF u
<1>2. ASSUME NEW i \in 1 .. Len(u)
      PROVE  \/ i \in 1 .. Len(s) /\ u[i] = s[i]
             \/ i > Len(s) /\ i - Len(s) \in 1 .. Len(t) /\ u[i] = t[i - Len(s)]
  BY <1>1
<1>3. \A i \in 1 .. Len(s) : i \in 1 .. Len(u) /\ u[i] = s[i]
  BY <1>1
<1>4. ASSUME NEW i \in 1 .. Len(t)
      PROVE  i + Len(s) \in 1 .. Len(u) /\ u[i + Len(s)] = t[i]
  <2>1. i + Len(s) \in 1 .. Len(s) + Len(t) /\ ~(i + Len(s) <= Len(s)) /\ (i + Len(s)) - Len(s) = i
    BY <1>1
  <2> QED BY <1>1, <2>1
<1>5. Elems(u) = Elems(s) \cup Elems(t)
  <2>1. Elems(u) \subseteq Elems(s) \cup Elems(t)
    BY <1>2 DEF Elems
  <2>2. Elems(s) \cup Elems(t) \subseteq Elems(u)
    BY <1>3, <1>4 DEF Elems
  <2> QED BY <2>1, <2>2
<1>6. ASSUME Ordered(s), Ordered(t), Before(Elems(s), Elems(t)) PROVE Ordered(u)
  <2> SUFFICES ASSUME NEW i \in 1 .. Len(u), NEW j \in 1 .. Len(u), i < j, u[i] # 0, u[j] # 0
               PROVE  u[i] < u[j]
    BY DEF Ordered
  <2>1. CASE j \in 1 .. Len(s) /\ u[j] = s[j]
    <3>1. i \in 1 .. Len(s)
      BY <1>1, <2>1
    <3> QED BY <1>3, <1>6, <2>1, <3>1 DEF Ordered
  <2>2. CASE j > Len(s) /\ j - Len(s) \in 1 .. Len(t) /\ u[j] = t[j - Len(s)]
    <3>1. CASE i \in 1 .. Len(s) /\ u[i] = s[i]
      <4>1. u[i] \in Elems(s) /\ u[j] \in Elems(t)
        BY <2>2, <3>1 DEF Elems
      <4> QED BY <1>6, <4>1 DEF Before
    <3>2. CASE i > Len(s) /\ i - Len(s) \in 1 .. Len(t) /\ u[i] = t[i - Len(s)]
      <4>1. i - Len(s) < j - Len(s)
        BY <1>1
      <4> QED BY <1>6, <2>2, <3>2, <4>1 DEF Ordered
    <3> QED BY <1>2, <3>1, <3>2
  <2> QED BY <1>2, <2>1, <2>2
<1> QED BY <1>1, <1>5, <1>6 DEF u

LEMMA OrderedTail ==
  ASSUME NEW s \in Seq(Nat), s # <<>>
  PROVE  /\ Tail(s) \in Seq(Nat) /\ Head(s) \in Nat /\ Elems(s) = {Head(s)} \cup Elems(Tail(s))
         /\ Ordered(s) => Ordered(Tail(s)) /\ Before({Head(s)}, Elems(Tail(s)))
<1> DEFINE t == Tail(s)
<1>1. /\ t \in Seq(Nat) /\ Len(s) \in Nat \ {0} /\ Len(t) = Len(s) - 1 /\ Head(s) = s[1] /\ Head(s) \in Nat
      /\ \A i \in 1 .. Len(t) : t[i] = s[i + 1]
  BY HeadTailProperties
<1> HIDE DEF t
<1>2. \A i \in 1 .. Len(t) : i + 1 \in 1 .. Len(s) /\ 1 < i + 1
  BY <1>1
<1>3. 1 \in 1 .. Len(s)
  BY <1>1
<1>4. Elems(s) = {Head(s)} \cup Elems(t)
  <2>1. ASSUME NEW i \in 1 .. Len(s) PROVE s[i] \in {Head(s)} \cup Elems(t)
    <3>1. i # 1 => i - 1 \in 1 .. Len(t) /\ (i - 1) + 1 = i
      BY <1>1
    <3>2. i # 1 => t[i - 1] = s[i]
      BY <1>1, <3>1
    <3> QED BY <1>1, <3>1, <3>2 DEF Elems
  <2>2. Elems(s) \subseteq {Head(s)} \cup Elems(t)
    BY <2>1 DEF Elems
  <2>3. {Head(s)} \cup Elems(t) \subseteq Elems(s)
    BY <1>1, <1>2, <1>3 DEF Elems
  <2> QED BY <2>2, <2>3
<1>5. ASSUME Ordered(s) PROVE Ordered(t)
  <2> SUFFICES ASSUME NEW i \in 1 .. Len(t), NEW j \in 1 .. Len(t), i < j, t[i] # 0, t[j] # 0
               PROVE  t[i] < t[j]
    BY DEF Ordered
  <2>1. i + 1 < j + 1
    BY <1>1
  <2> QED BY <1>1, <1>2, <1>5, <2>1 DEF Ordered
<1>6. ASSUME Ordered(s) PROVE Before({Head(s)}, Elems(t))
  <2> SUFFICES ASSUME NEW i \in 1 .. Len(t), s[1] # 0, t[i] # 0 PROVE s[1] < t[i]
    BY <1>1 DEF Before, Elems
  <2> QED BY <1>1, <1>2, <1>3, <1>6 DEF Ordered
<1> QED BY <1>1, <1>4, <1>5, <1>6 DEF t

Code == {"e0", "meta", "shift", "release", "key", "sync", "data"}
Byte ==
  {b \in [aux : BOOLEAN, code : Code, n : Nat] :
     /\ b.n # 0 => IsKey(b) /\ ~b.aux
     /\ ~b.aux => b.code \in {"e0", "meta", "shift", "release", "key"}}
KeyState == [buf : Seq(Nat), ext : BOOLEAN, full : BOOLEAN]

Numbers(q) == [i \in 1 .. Len(q) |-> q[i].n]
First(q, i) == {q[j].n : j \in 1 .. i}
Rest(q, i) == {q[j].n : j \in i + 1 .. Len(q)}
PollStep(k, b) == IF b.aux THEN k ELSE HandleScancode(k, b)

LEMMA PushBufIs ==
  ASSUME NEW k \in KeyState, NEW m \in Nat
  PROVE  \/ PushBuf(k, m) = [buf |-> Append(k.buf, m), ext |-> k.ext, full |-> k.full]
         \/ PushBuf(k, m) = [buf |-> k.buf, ext |-> k.ext, full |-> TRUE]
  BY DEF PushBuf, KeyState

(* What one byte of the queue makes of the ring: nothing, its key is pushed, *)
(* or the ring is full                                                      *)
Reads(k, b, u) ==
  /\ u \in KeyState
  /\ \/ u.buf = k.buf /\ u.full = k.full /\ (u.ext => k.ext \/ b.code = "e0") /\ (b.n = 0 \/ k.ext)
     \/ u.buf = Append(k.buf, b.n) /\ u.full = k.full /\ u.ext = k.ext
     \/ u.buf = k.buf /\ u.full

LEMMA PollStepReads ==
  ASSUME NEW k \in KeyState, NEW b \in Byte
  PROVE  Reads(k, b, PollStep(k, b))
<1> DEFINE u == PollStep(k, b)
<1>0. /\ k.buf \in Seq(Nat) /\ k.ext \in BOOLEAN /\ k.full \in BOOLEAN /\ b.n \in Nat /\ b.aux \in BOOLEAN
      /\ k = [buf |-> k.buf, ext |-> k.ext, full |-> k.full]
      /\ b.n # 0 => IsKey(b) /\ ~b.aux
  BY DEF KeyState, Byte
<1>1. ASSUME u = PushBuf(k, b.n) PROVE Reads(k, b, u)
  <2>1. Append(k.buf, b.n) \in Seq(Nat)
    BY <1>0
  <2>2. CASE u = [buf |-> Append(k.buf, b.n), ext |-> k.ext, full |-> k.full]
    <3>1. u \in KeyState
      BY <1>0, <2>1, <2>2 DEF KeyState
    <3>2. u.buf = Append(k.buf, b.n) /\ u.full = k.full /\ u.ext = k.ext
      BY <2>2
    <3> QED BY <3>1, <3>2 DEF Reads
  <2>3. CASE u = [buf |-> k.buf, ext |-> k.ext, full |-> TRUE]
    <3>1. u \in KeyState
      BY <1>0, <2>3 DEF KeyState
    <3>2. u.buf = k.buf /\ u.full = TRUE
      BY <2>3
    <3> QED BY <3>1, <3>2 DEF Reads
  <2> QED BY <1>0, <1>1, <2>2, <2>3, PushBufIs
<1>2. ASSUME NEW e \in BOOLEAN, u = [buf |-> k.buf, ext |-> e, full |-> k.full],
             e => k.ext \/ b.code = "e0", b.n = 0 \/ k.ext
      PROVE  Reads(k, b, u)
  <2>1. u \in KeyState
    BY <1>0, <1>2 DEF KeyState
  <2>2. u.buf = k.buf /\ u.full = k.full /\ u.ext = e
    BY <1>2
  <2> QED BY <1>2, <2>1, <2>2 DEF Reads
<1>3. CASE b.aux
  BY <1>0, <1>2, <1>3 DEF PollStep
<1>4. CASE ~b.aux /\ b.code = "e0"
  <2>1. u = [buf |-> k.buf, ext |-> TRUE, full |-> k.full]
    BY <1>0, <1>4 DEF PollStep, HandleScancode, IsKey
  <2>2. b.n = 0
    BY <1>0, <1>4 DEF IsKey
  <2> QED BY <1>2, <1>4, <2>1, <2>2
<1>5. CASE ~b.aux /\ b.code = "meta"
  <2>1. b.n = 0
    BY <1>0, <1>5 DEF IsKey
  <2>2. u = PushBuf(k, b.n)
    BY <1>5, <2>1 DEF PollStep, HandleScancode, IsKey, Meta
  <2> QED BY <1>1, <2>2
<1>6. CASE ~b.aux /\ b.code = "shift"
  <2>1. u = k
    BY <1>6 DEF PollStep, HandleScancode, IsKey
  <2>2. b.n = 0
    BY <1>0, <1>6 DEF IsKey
  <2> QED BY <1>0, <1>2, <2>1, <2>2
<1>7. CASE ~b.aux /\ (b.code = "release" \/ (b.code = "key" /\ k.ext))
  <2>1. u = [buf |-> k.buf, ext |-> FALSE, full |-> k.full]
    BY <1>0, <1>7 DEF PollStep, HandleScancode, IsKey
  <2>2. b.n = 0 \/ k.ext
    BY <1>0, <1>7 DEF IsKey
  <2> QED BY <1>2, <2>1, <2>2
<1>8. CASE ~b.aux /\ b.code = "key" /\ ~k.ext
  <2>1. u = PushBuf(k, b.n)
    BY <1>8 DEF PollStep, HandleScancode, IsKey
  <2> QED BY <1>1, <2>1
<1>9. b.aux \/ (~b.aux /\ b.code \in {"e0", "meta", "shift", "release", "key"})
  BY <1>0 DEF Byte
<1> QED BY <1>3, <1>4, <1>5, <1>6, <1>7, <1>8, <1>9

(* Poll is a fold of PollStep over the queue *)
LEMMA PollIs ==
  ASSUME NEW q \in Seq(Byte), NEW k \in KeyState
  PROVE  \E f : /\ f[0] = k /\ Poll(q, k) = f[Len(q)]
                /\ \A i \in 1 .. Len(q) : f[i] = PollStep(f[i - 1], q[i])
<1> DEFINE n == Len(q)
           Step1(f, i) == IF i = 0 THEN k
                          ELSE IF q[i].aux THEN f[i - 1] ELSE HandleScancode(f[i - 1], q[i])
           W(f) == f = [i \in 0 .. Len(q) |-> Step1(f, i)]
           poll == CHOOSE f : W(f)
           g == [i \in 1 .. n |-> [u \in KeyState |-> PollStep(u, q[i])]]
<1>0. n \in Nat /\ \A i \in 1 .. n : q[i] \in Byte
  OBVIOUS
<1>1. Poll(q, k) = poll[n]
  BY DEF Poll
<1>2. W(poll)
  <2>1. g \in [1 .. n -> [KeyState -> KeyState]]
    BY <1>0, PollStepReads DEF Reads
  <2>2. PICK f \in [0 .. n -> KeyState] : f[0] = k /\ \A i \in 1 .. n : f[i] = g[i][f[i - 1]]
    <3> HIDE DEF g, n
    <3>1. n \in Nat
      BY <1>0
    <3> QED BY <2>1, <3>1, RecursionExists
  <2>3. ASSUME NEW i \in 0 .. n PROVE f[i] = Step1(f, i)
    <3>1. i # 0 => i \in 1 .. n /\ i - 1 \in 0 .. n
      BY <1>0
    <3>2. i # 0 => f[i] = PollStep(f[i - 1], q[i])
      BY <2>2, <3>1
    <3> QED BY <2>2, <3>2 DEF PollStep
  <2>4. W(f)
    <3>1. f = [i \in 0 .. n |-> f[i]]
      BY <2>2
    <3> HIDE DEF Step1
    <3> QED BY <2>3, <3>1
  <2> HIDE DEF W
  <2> QED BY <2>4
<1>3. \A i \in 0 .. n : poll[i] = Step1(poll, i)
  <2> HIDE DEF poll, Step1
  <2> QED BY <1>2
<1> HIDE DEF poll, W
<1>4. ASSUME NEW i \in 1 .. n PROVE poll[i] = PollStep(poll[i - 1], q[i])
  <2>1. i \in 0 .. n /\ i # 0
    BY <1>0
  <2> QED BY <1>3, <2>1 DEF PollStep
<1>5. poll[0] = k
  <2>1. 0 \in 0 .. n
    BY <1>0
  <2> QED BY <1>3, <2>1
<1> QED BY <1>1, <1>4, <1>5

(* After i bytes of q the ring holds, in order, what it held before and      *)
(* keys of these bytes: all of them if nothing was extended or dropped       *)
Polled(u, i, q, old, clean) ==
  /\ u \in KeyState /\ Ordered(u.buf) /\ Before(Elems(u.buf), Rest(q, i))
  /\ Elems(u.buf) \subseteq old \cup First(q, i) \cup {0}
  /\ clean /\ ~u.full => ~u.ext /\ old \cup First(q, i) \subseteq Elems(u.buf) \cup {0}

LEMMA RestFirst ==
  ASSUME NEW q \in Seq(Byte), NEW i \in 1 .. Len(q), Ordered(Numbers(q))
  PROVE  /\ First(q, i) = First(q, i - 1) \cup {q[i].n}
         /\ Rest(q, i - 1) = Rest(q, i) \cup {q[i].n}
         /\ Before({q[i].n}, Rest(q, i))
<1>0. Len(q) \in Nat /\ i \in Nat
  OBVIOUS
<1>1. 1 .. i = (1 .. (i - 1)) \cup {i}
  BY <1>0
<1>2. (i - 1) + 1 .. Len(q) = (i + 1 .. Len(q)) \cup {i}
  BY <1>0
<1>3. First(q, i) = First(q, i - 1) \cup {q[i].n}
  BY <1>1 DEF First
<1>4. Rest(q, i - 1) = Rest(q, i) \cup {q[i].n}
  BY <1>2 DEF Rest
<1>5. Before({q[i].n}, Rest(q, i))
  <2> SUFFICES ASSUME NEW j \in i + 1 .. Len(q), q[i].n # 0, q[j].n # 0 PROVE q[i].n < q[j].n
    BY DEF Before, Rest
  <2>1. j \in 1 .. Len(q) /\ i < j
    BY <1>0
  <2>2. Len(Numbers(q)) = Len(q) /\ Numbers(q)[i] = q[i].n /\ Numbers(q)[j] = q[j].n
    BY <1>0, <2>1 DEF Numbers
  <2> QED BY <2>1, <2>2 DEF Ordered
<1> QED BY <1>3, <1>4, <1>5

LEMMA PolledStep ==
  ASSUME NEW q \in Seq(Byte), NEW i \in 1 .. Len(q), Ordered(Numbers(q)), NEW old, NEW clean \in BOOLEAN,
         clean => q[i].code # "e0",
         NEW u, Polled(u, i - 1, q, old, clean)
  PROVE  Polled(PollStep(u, q[i]), i, q, old, clean)
<1> DEFINE b == q[i]
           w == PollStep(u, q[i])
<1>0. b \in Byte /\ b.n \in Nat
  BY DEF Byte
<1>1. /\ u \in KeyState /\ u.buf \in Seq(Nat) /\ Ordered(u.buf) /\ Before(Elems(u.buf), Rest(q, i - 1))
      /\ Elems(u.buf) \subseteq old \cup First(q, i - 1) \cup {0}
      /\ clean /\ ~u.full => ~u.ext /\ old \cup First(q, i - 1) \subseteq Elems(u.buf) \cup {0}
  BY DEF Polled, KeyState
<1>2. /\ First(q, i) = First(q, i - 1) \cup {b.n} /\ Rest(q, i - 1) = Rest(q, i) \cup {b.n}
      /\ Before({b.n}, Rest(q, i))
  BY RestFirst
<1>3. Reads(u, b, w)
  BY <1>0, <1>1, PollStepReads
<1> HIDE DEF w, b
<1>4. w \in KeyState
  BY <1>3 DEF Reads
<1>5. CASE u.buf = w.buf
  <2>1. Ordered(w.buf) /\ Before(Elems(w.buf), Rest(q, i)) /\ Elems(w.buf) \subseteq old \cup First(q, i) \cup {0}
    BY <1>1, <1>2, <1>5 DEF Before
  <2>2. CASE w.full = u.full /\ (w.ext => u.ext \/ b.code = "e0") /\ (b.n = 0 \/ u.ext)
    <3>1. ASSUME clean, ~w.full PROVE ~w.ext /\ old \cup First(q, i) \subseteq Elems(w.buf) \cup {0}
      <4>1. ~u.ext /\ old \cup First(q, i - 1) \subseteq Elems(u.buf) \cup {0}
        BY <1>1, <2>2, <3>1
      <4>2. b.n = 0 /\ ~w.ext
        BY <2>2, <3>1, <4>1 DEF b
      <4> QED BY <1>2, <1>5, <4>1, <4>2
    <3> QED BY <1>4, <2>1, <3>1 DEF Polled, w
  <2>3. CASE w.full
    BY <1>4, <2>1, <2>3 DEF Polled, w
  <2>4. CASE w.buf = Append(u.buf, b.n)
    <3>1. Len(w.buf) = Len(u.buf) + 1 /\ Len(u.buf) \in Nat
      BY <1>0, <1>1, <2>4, AppendProperties
    <3> QED BY <1>5, <3>1
  <2> QED BY <1>3, <2>2, <2>3, <2>4 DEF Reads
<1>6. CASE w.buf = Append(u.buf, b.n) /\ w.full = u.full /\ w.ext = u.ext
  <2>1. Elems(w.buf) = Elems(u.buf) \cup {b.n}
    BY <1>0, <1>1, <1>6, OrderedAppend
  <2>2. Before(Elems(u.buf), {b.n})
    BY <1>1, <1>2 DEF Before
  <2>3. Ordered(w.buf)
    BY <1>0, <1>1, <1>6, <2>2, OrderedAppend
  <2>4. Before(Elems(w.buf), Rest(q, i))
    BY <1>1, <1>2, <2>1 DEF Before
  <2>5. Elems(w.buf) \subseteq old \cup First(q, i) \cup {0}
    BY <1>1, <1>2, <2>1
  <2>6. ASSUME clean, ~w.full PROVE ~w.ext /\ old \cup First(q, i) \subseteq Elems(w.buf) \cup {0}
    <3>1. ~u.full
      BY <1>6, <2>6
    <3> QED BY <1>1, <1>2, <1>6, <2>1, <2>6, <3>1
  <2> QED BY <1>4, <2>3, <2>4, <2>5, <2>6 DEF Polled, w
<1> QED BY <1>3, <1>5, <1>6 DEF Reads

LEMMA PollKeeps ==
  ASSUME NEW q \in Seq(Byte), Ordered(Numbers(q)), NEW old, NEW clean \in BOOLEAN,
         clean => \A i \in 1 .. Len(q) : q[i].code # "e0",
         NEW k, Polled(k, 0, q, old, clean)
  PROVE  Polled(Poll(q, k), Len(q), q, old, clean)
<1>0. k \in KeyState /\ Len(q) \in Nat
  BY DEF Polled
<1>1. PICK f : /\ f[0] = k /\ Poll(q, k) = f[Len(q)]
               /\ \A i \in 1 .. Len(q) : f[i] = PollStep(f[i - 1], q[i])
  BY <1>0, PollIs
<1> DEFINE out == {i \in 0 .. Len(q) : ~Polled(f[i], i, q, old, clean)}
<1>2. out = {}
  <2> SUFFICES ASSUME out # {} PROVE FALSE
    OBVIOUS
  <2>1. PICK i \in out : \A j \in out : i <= j
    <3>1. out \in SUBSET Nat
      OBVIOUS
    <3> HIDE DEF out
    <3> QED BY <3>1, LeastNat
  <2>2. i \in 0 .. Len(q) /\ ~Polled(f[i], i, q, old, clean)
    OBVIOUS
  <2>3. i # 0
    BY <1>1, <2>2
  <2>4. i - 1 \in 0 .. Len(q) /\ i - 1 \notin out /\ i \in 1 .. Len(q)
    BY <1>0, <2>1, <2>2, <2>3
  <2>5. Polled(f[i - 1], i - 1, q, old, clean)
    BY <2>4
  <2>6. clean => q[i].code # "e0"
    BY <2>4
  <2>7. Polled(PollStep(f[i - 1], q[i]), i, q, old, clean)
    BY <2>4, <2>5, <2>6, PolledStep
  <2> QED BY <1>1, <2>2, <2>4, <2>7
<1>3. Len(q) \in 0 .. Len(q)
  BY <1>0
<1> QED BY <1>1, <1>2, <1>3

(* The keys that read_key returned, in rd, the ones of the ring, in buf, and *)
(* those of the queue q follow each other in order                           *)
SeenKeys(q, buf, rd) == Elems(rd) \cup Elems(buf) \cup Elems(Numbers(q))
KeysInv(q, buf, rd, ext, pl, ty) ==
  /\ q \in Seq(Byte) /\ buf \in Seq(Nat) /\ rd \in Seq(Nat) /\ ext \in BOOLEAN /\ pl \in BOOLEAN /\ ty \in Nat
  /\ Ordered(rd) /\ Ordered(buf) /\ Ordered(Numbers(q))
  /\ Before(Elems(rd), Elems(buf)) /\ Before(Elems(rd), Elems(Numbers(q)))
  /\ Before(Elems(buf), Elems(Numbers(q)))
  /\ SeenKeys(q, buf, rd) \subseteq 0 .. ty
  /\ pl => /\ ~ext /\ \A i \in 1 .. Len(q) : q[i].code # "e0"
           /\ 1 .. ty \subseteq SeenKeys(q, buf, rd)

LEMMA NumbersAre ==
  ASSUME NEW q \in Seq(Byte)
  PROVE  /\ Numbers(q) \in Seq(Nat) /\ Len(Numbers(q)) = Len(q)
         /\ \A i \in 1 .. Len(q) : q[i].n \in Nat /\ Numbers(q)[i] = q[i].n
         /\ Elems(Numbers(q)) = First(q, Len(q)) /\ Elems(Numbers(q)) = Rest(q, 0)
<1>1. Len(q) \in Nat /\ \A i \in 1 .. Len(q) : q[i].n \in Nat
  BY DEF Byte
<1>2. Numbers(q) \in Seq(Nat) /\ Len(Numbers(q)) = Len(q) /\ \A i \in 1 .. Len(q) : Numbers(q)[i] = q[i].n
  BY <1>1 DEF Numbers
<1>3. Elems(Numbers(q)) = First(q, Len(q))
  BY <1>1, <1>2 DEF Elems, First
<1>4. Rest(q, 0) = First(q, Len(q))
  BY <1>1 DEF Rest, First
<1> QED BY <1>1, <1>2, <1>3, <1>4

LEMMA EmptyHasNone ==
  /\ Numbers(<<>>) = <<>> /\ Elems(<<>>) = {} /\ Ordered(<<>>) /\ <<>> \in Seq(Byte) /\ <<>> \in Seq(Nat)
  /\ Len(<<>>) = 0
<1>1. Len(<<>>) = 0 /\ 1 .. 0 = {}
  OBVIOUS
<1>2. Numbers(<<>>) = <<>>
  BY <1>1 DEF Numbers
<1>3. Elems(<<>>) = {} /\ Ordered(<<>>)
  BY <1>1 DEF Elems, Ordered
<1> QED BY <1>1, <1>2, <1>3

LEMMA KeysStart == KeysInv(<<>>, <<>>, <<>>, FALSE, TRUE, 0)
<1>1. SeenKeys(<<>>, <<>>, <<>>) = {}
  BY EmptyHasNone DEF SeenKeys
<1>2. 1 .. 0 = {}
  OBVIOUS
<1> QED BY <1>1, <1>2, EmptyHasNone DEF KeysInv, Before

(* A byte joins the queue *)
LEMMA KeysAppend ==
  ASSUME NEW q, NEW buf, NEW rd, NEW ext, NEW pl, NEW ty, KeysInv(q, buf, rd, ext, pl, ty),
         NEW b \in Byte, NEW ty2 \in Nat, NEW pl2 \in BOOLEAN, pl2 => pl /\ b.code # "e0",
         (b.n = 0 /\ ty2 = ty) \/ (b.n = ty2 /\ ty2 = ty + 1)
  PROVE  KeysInv(Append(q, b), buf, rd, ext, pl2, ty2)
<1> DEFINE q2 == Append(q, b)
<1>0. /\ q \in Seq(Byte) /\ buf \in Seq(Nat) /\ rd \in Seq(Nat) /\ ext \in BOOLEAN /\ pl \in BOOLEAN /\ ty \in Nat
      /\ Ordered(rd) /\ Ordered(buf) /\ Ordered(Numbers(q))
      /\ Before(Elems(rd), Elems(buf)) /\ Before(Elems(rd), Elems(Numbers(q)))
      /\ Before(Elems(buf), Elems(Numbers(q)))
      /\ SeenKeys(q, buf, rd) \subseteq 0 .. ty
      /\ pl => /\ ~ext /\ \A i \in 1 .. Len(q) : q[i].code # "e0"
               /\ 1 .. ty \subseteq SeenKeys(q, buf, rd)
  BY DEF KeysInv
<1>1. b.n \in Nat
  BY DEF Byte
<1>2. /\ q2 \in Seq(Byte) /\ Len(q) \in Nat /\ Len(q2) = Len(q) + 1 /\ q2[Len(q) + 1] = b
      /\ \A i \in 1 .. Len(q) : q2[i] = q[i]
  BY <1>0, AppendProperties
<1> HIDE DEF q2
<1>3. \A i \in 1 .. Len(q2) : i \in 1 .. Len(q) \/ i = Len(q) + 1
  BY <1>2
<1>4. Numbers(q2) = Append(Numbers(q), b.n)
  <2> DEFINE s == Numbers(q)
             t == Append(s, b.n)
  <2>1. s \in Seq(Nat) /\ Len(s) = Len(q) /\ \A i \in 1 .. Len(q) : s[i] = q[i].n
    BY <1>0, NumbersAre
  <2>2. /\ t \in Seq(Nat) /\ Len(t) = Len(q) + 1 /\ t[Len(q) + 1] = b.n
        /\ \A i \in 1 .. Len(q) : t[i] = q[i].n
    BY <1>1, <2>1, AppendProperties
  <2>3. Numbers(q2) \in Seq(Nat) /\ Len(Numbers(q2)) = Len(q2) /\ \A i \in 1 .. Len(q2) : Numbers(q2)[i] = q2[i].n
    BY <1>2, NumbersAre
  <2> HIDE DEF t, s
  <2>4. \A i \in 1 .. Len(q2) : Numbers(q2)[i] = t[i]
    BY <1>2, <1>3, <2>2, <2>3
  <2> QED BY <1>2, <2>2, <2>3, <2>4 DEF t, s
<1>5. Elems(Numbers(q2)) = Elems(Numbers(q)) \cup {b.n}
  BY <1>0, <1>1, <1>4, NumbersAre, OrderedAppend
<1>6. /\ Elems(rd) \subseteq 0 .. ty /\ Elems(buf) \subseteq 0 .. ty /\ Elems(Numbers(q)) \subseteq 0 .. ty
  BY <1>0 DEF SeenKeys
<1>7. ASSUME NEW A \in SUBSET (0 .. ty) PROVE Before(A, {b.n})
  <2> SUFFICES ASSUME NEW a \in A, b.n # 0 PROVE a < b.n
    BY DEF Before
  <2>1. a \in 0 .. ty
    OBVIOUS
  <2> QED BY <1>0, <2>1
<1>8. Ordered(Numbers(q2))
  BY <1>0, <1>1, <1>4, <1>6, <1>7, NumbersAre, OrderedAppend
<1>9. Before(Elems(rd), {b.n}) /\ Before(Elems(buf), {b.n})
  BY <1>6, <1>7
<1>10. Before(Elems(rd), Elems(Numbers(q2))) /\ Before(Elems(buf), Elems(Numbers(q2)))
  BY <1>0, <1>5, <1>9 DEF Before
<1>11. SeenKeys(q2, buf, rd) = SeenKeys(q, buf, rd) \cup {b.n}
  BY <1>5 DEF SeenKeys
<1>12. SeenKeys(q2, buf, rd) \subseteq 0 .. ty2
  <2>1. 0 .. ty \subseteq 0 .. ty2 /\ b.n \in 0 .. ty2
    BY <1>0, <1>1
  <2> QED BY <1>0, <1>11, <2>1
<1>13. ASSUME pl2
       PROVE  /\ ~ext /\ \A i \in 1 .. Len(q2) : q2[i].code # "e0"
              /\ 1 .. ty2 \subseteq SeenKeys(q2, buf, rd)
  <2>1. /\ ~ext /\ \A i \in 1 .. Len(q) : q[i].code # "e0"
        /\ 1 .. ty \subseteq SeenKeys(q, buf, rd) /\ b.code # "e0"
    BY <1>0, <1>13
  <2>2. \A i \in 1 .. Len(q2) : q2[i].code # "e0"
    BY <1>2, <1>3, <2>1
  <2>3. 1 .. ty2 \subseteq (1 .. ty) \cup {b.n}
    BY <1>0
  <2> QED BY <1>11, <2>1, <2>2, <2>3
<1> QED BY <1>0, <1>2, <1>8, <1>10, <1>12, <1>13 DEF KeysInv, q2

(* A key is lost, or nothing happens *)
LEMMA KeysLost ==
  ASSUME NEW q, NEW buf, NEW rd, NEW ext, NEW pl, NEW ty, KeysInv(q, buf, rd, ext, pl, ty),
         NEW ty2 \in Nat, ty2 >= ty, NEW pl2 \in BOOLEAN, pl2 => pl /\ ty2 = ty
  PROVE  KeysInv(q, buf, rd, ext, pl2, ty2)
<1>1. ty \in Nat /\ SeenKeys(q, buf, rd) \subseteq 0 .. ty
  BY DEF KeysInv
<1>2. SeenKeys(q, buf, rd) \subseteq 0 .. ty2
  BY <1>1
<1> QED BY <1>2 DEF KeysInv

(* poll moves the queue into the ring *)
LEMMA KeysPolled ==
  ASSUME NEW q, NEW buf, NEW rd, NEW ext, NEW pl, NEW ty, KeysInv(q, buf, rd, ext, pl, ty),
         NEW k, k = Poll(q, [buf |-> buf, ext |-> ext, full |-> FALSE]),
         NEW pl2 \in BOOLEAN, pl2 <=> pl /\ ~k.full
  PROVE  k.buf \in Seq(Nat) /\ KeysInv(<<>>, k.buf, rd, k.ext, pl2, ty)
<1> DEFINE k0 == [buf |-> buf, ext |-> ext, full |-> FALSE]
           new == Elems(Numbers(q))
<1>0. /\ q \in Seq(Byte) /\ buf \in Seq(Nat) /\ rd \in Seq(Nat) /\ ext \in BOOLEAN /\ pl \in BOOLEAN /\ ty \in Nat
      /\ Ordered(rd) /\ Ordered(buf) /\ Ordered(Numbers(q))
      /\ Before(Elems(rd), Elems(buf)) /\ Before(Elems(rd), new) /\ Before(Elems(buf), new)
      /\ SeenKeys(q, buf, rd) \subseteq 0 .. ty
      /\ pl => /\ ~ext /\ \A i \in 1 .. Len(q) : q[i].code # "e0"
               /\ 1 .. ty \subseteq SeenKeys(q, buf, rd)
  BY DEF KeysInv
<1>1. k0 \in KeyState /\ k0.buf = buf /\ k0.ext = ext /\ k0.full = FALSE /\ k = Poll(q, k0)
  BY <1>0 DEF KeyState
<1>2. First(q, 0) = {}
  <2>1. 1 .. 0 = {}
    OBVIOUS
  <2> QED BY <2>1 DEF First
<1>3. new = Rest(q, 0) /\ new = First(q, Len(q))
  BY <1>0, NumbersAre
<1> HIDE DEF k0
<1>4. Polled(k0, 0, q, Elems(buf), pl)
  BY <1>0, <1>1, <1>2, <1>3 DEF Polled
<1>5. Polled(k, Len(q), q, Elems(buf), pl)
  BY <1>0, <1>1, <1>4, PollKeeps
<1>6. /\ k \in KeyState /\ k.buf \in Seq(Nat) /\ k.ext \in BOOLEAN /\ Ordered(k.buf)
      /\ Elems(k.buf) \subseteq Elems(buf) \cup new \cup {0}
      /\ pl /\ ~k.full => ~k.ext /\ Elems(buf) \cup new \subseteq Elems(k.buf) \cup {0}
  BY <1>3, <1>5 DEF Polled, KeyState
<1>7. Before(Elems(rd), Elems(k.buf))
  BY <1>0, <1>6 DEF Before
<1>8. SeenKeys(<<>>, k.buf, rd) = Elems(rd) \cup Elems(k.buf)
  BY EmptyHasNone DEF SeenKeys
<1>9. SeenKeys(q, buf, rd) = Elems(rd) \cup Elems(buf) \cup new
  BY DEF SeenKeys
<1>10. SeenKeys(<<>>, k.buf, rd) \subseteq 0 .. ty
  <2>1. 0 \in 0 .. ty
    BY <1>0
  <2> QED BY <1>0, <1>6, <1>8, <1>9, <2>1
<1>11. ASSUME pl2 PROVE ~k.ext /\ 1 .. ty \subseteq SeenKeys(<<>>, k.buf, rd)
  <2>1. pl /\ ~k.full
    BY <1>11
  <2>2. \A m \in 1 .. ty : m # 0
    OBVIOUS
  <2> QED BY <1>0, <1>6, <1>8, <1>9, <2>1, <2>2
<1>12. \A i \in 1 .. Len(<<>>) : FALSE
  BY EmptyHasNone
<1>13. Before(Elems(rd), Elems(Numbers(<<>>))) /\ Before(Elems(k.buf), Elems(Numbers(<<>>)))
       /\ Ordered(Numbers(<<>>)) /\ <<>> \in Seq(Byte)
  BY EmptyHasNone DEF Before
<1> QED BY <1>0, <1>6, <1>7, <1>10, <1>11, <1>12, <1>13 DEF KeysInv

LEMMA KeysReadAll ==
  ASSUME NEW s, NEW rd, NEW ext, NEW pl, NEW ty, KeysInv(<<>>, s, rd, ext, pl, ty)
  PROVE  KeysInv(<<>>, <<>>, rd \o s, ext, pl, ty)
<1>0. /\ s \in Seq(Nat) /\ rd \in Seq(Nat) /\ Ordered(rd) /\ Ordered(s) /\ Before(Elems(rd), Elems(s))
  BY DEF KeysInv
<1>1. /\ rd \o s \in Seq(Nat) /\ Elems(rd \o s) = Elems(rd) \cup Elems(s) /\ Ordered(rd \o s)
  BY <1>0, OrderedConcat
<1>2. SeenKeys(<<>>, <<>>, rd \o s) = SeenKeys(<<>>, s, rd)
  BY <1>1, EmptyHasNone DEF SeenKeys
<1> QED BY <1>1, <1>2, EmptyHasNone DEF KeysInv, Before

LEMMA KeysReadOne ==
  ASSUME NEW s, s # <<>>, NEW rd, NEW ext, NEW pl, NEW ty, KeysInv(<<>>, s, rd, ext, pl, ty)
  PROVE  KeysInv(<<>>, Tail(s), Append(rd, Head(s)), ext, pl, ty)
<1>0. /\ s \in Seq(Nat) /\ rd \in Seq(Nat) /\ Ordered(rd) /\ Ordered(s) /\ Before(Elems(rd), Elems(s))
  BY DEF KeysInv
<1>1. /\ Tail(s) \in Seq(Nat) /\ Head(s) \in Nat /\ Elems(s) = {Head(s)} \cup Elems(Tail(s))
      /\ Ordered(Tail(s)) /\ Before({Head(s)}, Elems(Tail(s)))
  BY <1>0, OrderedTail
<1>2. Before(Elems(rd), {Head(s)}) /\ Before(Elems(rd), Elems(Tail(s)))
  BY <1>0, <1>1 DEF Before
<1>3. /\ Append(rd, Head(s)) \in Seq(Nat) /\ Elems(Append(rd, Head(s))) = Elems(rd) \cup {Head(s)}
      /\ Ordered(Append(rd, Head(s)))
  BY <1>0, <1>1, <1>2, OrderedAppend
<1>4. Before(Elems(Append(rd, Head(s))), Elems(Tail(s)))
  BY <1>1, <1>2, <1>3 DEF Before
<1>5. SeenKeys(<<>>, Tail(s), Append(rd, Head(s))) = SeenKeys(<<>>, s, rd)
  BY <1>1, <1>3 DEF SeenKeys
<1>6. Elems(Numbers(<<>>)) = {}
  BY EmptyHasNone
<1> QED BY <1>1, <1>3, <1>4, <1>5, <1>6 DEF KeysInv, Before

(* The mouse driver reads the queue *)
LEMMA KeysTaken ==
  ASSUME NEW q, NEW buf, NEW rd, NEW ext, NEW pl, NEW ty, KeysInv(q, buf, rd, ext, pl, ty),
         NEW pl2 \in BOOLEAN, pl2 <=> pl /\ \A i \in DOMAIN q : ~IsKey(q[i])
  PROVE  KeysInv(<<>>, buf, rd, ext, pl2, ty)
<1>0. q \in Seq(Byte) /\ DOMAIN q = 1 .. Len(q) /\ ty \in Nat
  BY DEF KeysInv
<1>1. SeenKeys(<<>>, buf, rd) = Elems(rd) \cup Elems(buf)
  BY EmptyHasNone DEF SeenKeys
<1>2. SeenKeys(q, buf, rd) = Elems(rd) \cup Elems(buf) \cup First(q, Len(q))
  BY <1>0, NumbersAre DEF SeenKeys
<1>3. SeenKeys(<<>>, buf, rd) \subseteq 0 .. ty
  BY <1>1, <1>2 DEF KeysInv
<1>4. ASSUME pl2 PROVE ~ext /\ 1 .. ty \subseteq SeenKeys(<<>>, buf, rd)
  <2>1. pl /\ \A i \in 1 .. Len(q) : ~IsKey(q[i]) /\ q[i] \in Byte
    BY <1>0, <1>4
  <2>2. \A i \in 1 .. Len(q) : q[i].n = 0
    BY <2>1 DEF Byte
  <2>3. First(q, Len(q)) \subseteq {0}
    BY <2>2 DEF First
  <2>4. \A m \in 1 .. ty : m # 0
    OBVIOUS
  <2>5. ~ext /\ 1 .. ty \subseteq SeenKeys(q, buf, rd)
    BY <2>1 DEF KeysInv
  <2> QED BY <1>1, <1>2, <2>3, <2>4, <2>5
<1>5. \A i \in 1 .. Len(<<>>) : FALSE
  BY EmptyHasNone
<1>6. Before(Elems(rd), Elems(Numbers(<<>>))) /\ Before(Elems(buf), Elems(Numbers(<<>>)))
      /\ Ordered(Numbers(<<>>)) /\ <<>> \in Seq(Byte)
  BY EmptyHasNone DEF Before
<1> QED BY <1>3, <1>4, <1>5, <1>6 DEF KeysInv

MouseRecord == [done : BOOLEAN, failed : BOOLEAN, retry : Nat, enabled : BOOLEAN, packet : Seq(Code)]
Mice == {m \in MouseRecord : Len(m.packet) < 3}
Packets == {p \in [packet : Seq(Code), desyncs : Nat] : Len(p.packet) < 3}
LEMMA BytesAre ==
  ASSUME NEW a \in BOOLEAN, NEW c \in Code, NEW n \in Nat,
         n # 0 => c = "key" /\ ~a, ~a => c \in {"e0", "meta", "shift", "release", "key"}
  PROVE  [aux |-> a, code |-> c, n |-> n] \in Byte
  BY DEF Byte, IsKey

MouseStep(p, b) == IF b.aux THEN MouseByteRead(p, b) ELSE p

LEMMA MouseStepKeeps ==
  ASSUME NEW p \in Packets, NEW b \in Byte
  PROVE  MouseStep(p, b) \in Packets
<1> DEFINE buf == Append(p.packet, b.code)
<1>1. p.packet \in Seq(Code) /\ p.desyncs \in Nat /\ Len(p.packet) \in Nat /\ Len(p.packet) < 3 /\ b.code \in Code
  BY DEF Packets, Byte
<1>2. buf \in Seq(Code) /\ Len(buf) = Len(p.packet) + 1
  BY <1>1, AppendProperties
<1>3. Len(buf) >= 3 => Tail(buf) \in Seq(Code) /\ Len(Tail(buf)) < 3
  <2>1. Len(buf) >= 3 => buf # <<>> /\ Len(buf) = 3
    BY <1>1, <1>2
  <2> HIDE DEF buf
  <2> QED BY <1>2, <2>1, HeadTailProperties
<1>4. ASSUME NEW s \in Seq(Code), Len(s) < 3, NEW d \in Nat
      PROVE  [p EXCEPT !.packet = s, !.desyncs = d] \in Packets
  BY <1>4 DEF Packets
<1>5. ASSUME NEW s \in Seq(Code), Len(s) < 3 PROVE [p EXCEPT !.packet = s] \in Packets
  BY <1>5 DEF Packets
<1>6. p.desyncs + 1 \in Nat /\ <<>> \in Seq(Code) /\ Len(<<>>) < 3
  BY <1>1
<1>7. MouseByteRead(p, b) \in Packets
  <2>1. MouseByteRead(p, b) =
          IF Len(buf) < 3 THEN [p EXCEPT !.packet = buf]
          ELSE IF buf[1] = "sync" THEN [p EXCEPT !.packet = <<>>]
          ELSE IF p.desyncs + 1 >= 3 THEN [p EXCEPT !.packet = <<>>, !.desyncs = p.desyncs + 1]
          ELSE [p EXCEPT !.packet = Tail(buf), !.desyncs = p.desyncs + 1]
    BY DEF MouseByteRead
  <2>2. Len(buf) < 3 \/ Len(buf) >= 3
    BY <1>1, <1>2
  <2> HIDE DEF buf
  <2> QED BY <1>2, <1>3, <1>4, <1>5, <1>6, <2>1, <2>2
<1> QED BY <1>7 DEF MouseStep

LEMMA MouseFold ==
  ASSUME NEW q \in Seq(Byte), NEW p \in Packets
  PROVE  \E f \in [0 .. Len(q) -> Packets] :
           f[0] = p /\ \A i \in 1 .. Len(q) : f[i] = MouseStep(f[i - 1], q[i])
<1> DEFINE n == Len(q)
           g == [i \in 1 .. n |-> [u \in Packets |-> MouseStep(u, q[i])]]
<1>1. n \in Nat
  OBVIOUS
<1>2. g \in [1 .. n -> [Packets -> Packets]]
  BY MouseStepKeeps
<1>3. PICK f \in [0 .. n -> Packets] : f[0] = p /\ \A i \in 1 .. n : f[i] = g[i][f[i - 1]]
  <2> HIDE DEF g, n
  <2> QED BY <1>1, <1>2, RecursionExists
<1>4. ASSUME NEW i \in 1 .. n PROVE f[i] = MouseStep(f[i - 1], q[i])
  <2>1. i - 1 \in 0 .. n
    BY <1>1
  <2> QED BY <1>3, <2>1
<1> QED BY <1>3, <1>4

LEMMA MouseReadKeeps ==
  ASSUME queue \in Seq(Byte), NEW m \in Mice
  PROVE  MouseRead(m) \in Mice
<1> DEFINE n == Len(queue)
           p0 == [packet |-> m.packet, desyncs |-> 0]
           Step1(f, i) == IF i = 0 THEN p0
                          ELSE IF queue[i].aux THEN MouseByteRead(f[i - 1], queue[i]) ELSE f[i - 1]
           W(f) == f = [i \in 0 .. Len(queue) |-> Step1(f, i)]
           p == CHOOSE f : W(f)
<1>0. n \in Nat /\ p0 \in Packets /\ \A i \in 1 .. n : queue[i] \in Byte
  BY DEF Packets, Mice, MouseRecord
<1>1. MouseRead(m) = [m EXCEPT !.packet = p[n].packet]
  BY DEF MouseRead
<1>2. W(p)
  <2>2. PICK f \in [0 .. n -> Packets] :
          f[0] = p0 /\ \A i \in 1 .. n : f[i] = MouseStep(f[i - 1], queue[i])
    <3> HIDE DEF p0
    <3> QED BY <1>0, MouseFold
  <2>3. ASSUME NEW i \in 0 .. n PROVE f[i] = Step1(f, i)
    <3>1. i # 0 => i \in 1 .. n /\ i - 1 \in 0 .. n
      BY <1>0
    <3>2. i # 0 => f[i] = MouseStep(f[i - 1], queue[i])
      BY <2>2, <3>1
    <3> HIDE DEF p0
    <3> QED BY <2>2, <3>2 DEF MouseStep
  <2>4. W(f)
    <3>1. f = [i \in 0 .. n |-> f[i]]
      BY <2>2
    <3> HIDE DEF Step1
    <3> QED BY <2>3, <3>1
  <2> HIDE DEF W
  <2> QED BY <2>4
<1>3. \A i \in 0 .. n : p[i] = Step1(p, i)
  <2> HIDE DEF p, Step1
  <2> QED BY <1>2
<1> HIDE DEF p, W
<1> DEFINE out == {i \in 0 .. n : p[i] \notin Packets}
<1>4. out = {}
  <2> SUFFICES ASSUME out # {} PROVE FALSE
    OBVIOUS
  <2>1. PICK i \in out : \A j \in out : i <= j
    <3>1. out \in SUBSET Nat
      OBVIOUS
    <3> HIDE DEF out
    <3> QED BY <3>1, LeastNat
  <2>2. i \in 0 .. n /\ p[i] \notin Packets
    OBVIOUS
  <2>3. i # 0
    BY <1>0, <1>3, <2>2
  <2>4. i - 1 \in 0 .. n /\ i - 1 \notin out /\ i \in 1 .. n
    BY <1>0, <2>1, <2>2, <2>3
  <2>5. p[i - 1] \in Packets /\ queue[i] \in Byte
    BY <1>0, <2>4
  <2>6. p[i] = MouseStep(p[i - 1], queue[i])
    BY <1>3, <2>2, <2>3 DEF MouseStep
  <2> QED BY <2>2, <2>5, <2>6, MouseStepKeeps
<1>5. p[n] \in Packets
  <2>1. n \in 0 .. n
    BY <1>0
  <2> QED BY <1>4, <2>1
<1>6. p[n].packet \in Seq(Code) /\ Len(p[n].packet) < 3
  BY <1>5 DEF Packets
<1> QED BY <1>1, <1>6 DEF Mice, MouseRecord

LEMMA MouseInitKeeps ==
  ASSUME NEW m \in Mice, NEW answers \in BOOLEAN
  PROVE  MouseInit(m, answers) \in Mice
<1>1. <<>> \in Seq(Code) /\ Len(<<>>) = 0 /\ 0 \in Nat
  OBVIOUS
<1>2. [m EXCEPT !.done = TRUE, !.packet = <<>>] \in Mice
  <2> DEFINE w == [m EXCEPT !.done = TRUE, !.packet = <<>>]
  <2>1. w \in MouseRecord
    BY <1>1 DEF Mice, MouseRecord
  <2>2. w.packet = <<>>
    BY DEF Mice, MouseRecord
  <2> HIDE DEF w
  <2>3. w \in Mice
    BY <1>1, <2>1, <2>2 DEF Mice
  <2> QED BY <2>3 DEF w
<1>3. [m EXCEPT !.failed = TRUE, !.retry = 0] \in Mice
  BY <1>1 DEF Mice, MouseRecord
<1> QED BY <1>2, <1>3 DEF MouseInit

Ps2Inv == KeysInv(queue, KEYBUF, read, EXTENDED, plain, typed) /\ mouse \in Mice

LEMMA NoMouseIs == NoMouse \in Mice
<1>1. <<>> \in Seq(Code) /\ Len(<<>>) = 0 /\ 0 \in Nat
  OBVIOUS
<1> QED BY <1>1 DEF NoMouse, Mice, MouseRecord

LEMMA Ps2Unchanged == Ps2Inv /\ UNCHANGED ps2Vars => Ps2Inv'
  BY DEF Ps2Inv, ps2Vars

LEMMA Ps2Types ==
  ASSUME Ps2Inv
  PROVE  /\ queue \in Seq(Byte) /\ KEYBUF \in Seq(Nat) /\ read \in Seq(Nat) /\ typed \in Nat
         /\ EXTENDED \in BOOLEAN /\ plain \in BOOLEAN /\ mouse \in Mice
  BY DEF Ps2Inv, KeysInv

LEMMA PressKeyKeeps == Ps2Inv /\ PressKey => Ps2Inv'
<1> SUFFICES ASSUME Ps2Inv, PressKey PROVE Ps2Inv'
  OBVIOUS
<1> DEFINE b == Key(typed + 1)
           pl2 == plain /\ Len(queue) < QUEUE
<1>1. /\ KEYBUF' = KEYBUF /\ EXTENDED' = EXTENDED /\ read' = read /\ mouse' = mouse
      /\ typed' = typed + 1 /\ plain' = pl2 /\ queue' = IF Len(queue) < QUEUE THEN Append(queue, b) ELSE queue
  BY DEF PressKey, kbdVars, Enqueue
<1>2. b \in Byte /\ b.n = typed + 1 /\ b.code # "e0" /\ typed + 1 \in Nat /\ typed + 1 >= typed
  <2>1. typed + 1 \in Nat /\ typed + 1 >= typed /\ "key" \in Code
    BY Ps2Types DEF Code
  <2>2. b \in Byte
    BY <2>1, BytesAre DEF Key
  <2>3. b.n = typed + 1 /\ b.code = "key"
    BY DEF Key
  <2> QED BY <2>1, <2>2, <2>3
<1>3. pl2 \in BOOLEAN /\ (pl2 => plain)
  BY Ps2Types
<1>4. CASE Len(queue) < QUEUE
  <2>1. KeysInv(Append(queue, b), KEYBUF, read, EXTENDED, pl2, typed + 1)
    <3> HIDE DEF b, pl2
    <3> QED BY <1>2, <1>3, KeysAppend DEF Ps2Inv
  <2> QED BY <1>1, <1>4, <2>1 DEF Ps2Inv
<1>5. CASE ~(Len(queue) < QUEUE)
  <2>1. KeysInv(queue, KEYBUF, read, EXTENDED, FALSE, typed + 1)
    BY <1>2, KeysLost DEF Ps2Inv
  <2>2. plain' = FALSE
    BY <1>1, <1>5
  <2> QED BY <1>1, <1>5, <2>1, <2>2 DEF Ps2Inv
<1> QED BY <1>4, <1>5

(* A byte that is no key joins the queue *)
LEMMA OtherByteKeeps ==
  ASSUME Ps2Inv, NEW b \in Byte, b.n = 0, Enqueue(b), NEW pl2 \in BOOLEAN, pl2 => plain /\ b.code # "e0",
         plain' = pl2, UNCHANGED <<kbdVars, mouse, typed>>
  PROVE  Ps2Inv'
<1>1. /\ KEYBUF' = KEYBUF /\ EXTENDED' = EXTENDED /\ read' = read /\ mouse' = mouse /\ typed' = typed
      /\ queue' = IF Len(queue) < QUEUE THEN Append(queue, b) ELSE queue
  BY DEF kbdVars, Enqueue
<1>2. typed \in Nat /\ typed >= typed
  BY Ps2Types
<1>3. KeysInv(Append(queue, b), KEYBUF, read, EXTENDED, pl2, typed)
  BY <1>2, KeysAppend DEF Ps2Inv
<1>4. KeysInv(queue, KEYBUF, read, EXTENDED, pl2, typed)
  BY <1>2, KeysLost DEF Ps2Inv
<1> QED BY <1>1, <1>3, <1>4 DEF Ps2Inv

LEMMA OtherInputKeeps == Ps2Inv /\ (OtherCode \/ MouseMoves) => Ps2Inv'
<1> SUFFICES ASSUME Ps2Inv, OtherCode \/ MouseMoves PROVE Ps2Inv'
  OBVIOUS
<1>1. plain \in BOOLEAN
  BY Ps2Types
<1>2. CASE OtherCode
  <2>1. PICK c \in {"e0", "meta", "shift", "release"} : Enqueue(ScanCode(c)) /\ plain' = (plain /\ c # "e0")
    BY <1>2 DEF OtherCode
  <2>2. ScanCode(c) \in Byte /\ ScanCode(c).n = 0 /\ ScanCode(c).code = c
    <3>1. c \in Code /\ c \in {"e0", "meta", "shift", "release", "key"}
      BY DEF Code
    <3>2. ScanCode(c) \in Byte
      BY <3>1, BytesAre DEF ScanCode
    <3> QED BY <3>2 DEF ScanCode
  <2>3. UNCHANGED <<kbdVars, mouse, typed>>
    BY <1>2 DEF OtherCode
  <2> DEFINE pl2 == plain /\ c # "e0"
  <2>4. pl2 \in BOOLEAN /\ (pl2 => plain /\ ScanCode(c).code # "e0") /\ plain' = pl2
    BY <1>1, <2>1, <2>2
  <2> HIDE DEF pl2
  <2> QED BY <2>1, <2>2, <2>3, <2>4, OtherByteKeeps
<1>3. CASE MouseMoves
  <2>1. PICK c \in {"sync", "data"} : Enqueue(MouseByte(c))
    BY <1>3 DEF MouseMoves
  <2>2. MouseByte(c) \in Byte /\ MouseByte(c).n = 0 /\ MouseByte(c).code # "e0"
    <3>1. c \in Code /\ c # "e0"
      BY DEF Code
    <3>2. MouseByte(c) \in Byte
      BY <3>1, BytesAre DEF MouseByte
    <3> QED BY <3>1, <3>2 DEF MouseByte
  <2>3. UNCHANGED <<kbdVars, mouse, typed>> /\ plain' = plain
    BY <1>3 DEF MouseMoves
  <2> QED BY <1>1, <2>1, <2>2, <2>3, OtherByteKeeps
<1> QED BY <1>2, <1>3

LEMMA ReadKeysKeeps == Ps2Inv /\ (ReadKeys \/ ReadKey) => Ps2Inv'
<1> SUFFICES ASSUME Ps2Inv, ReadKeys \/ ReadKey PROVE Ps2Inv'
  OBVIOUS
<1> DEFINE k == Poll(queue, [buf |-> KEYBUF, ext |-> EXTENDED, full |-> FALSE])
           pl2 == plain /\ ~k.full
<1>1. pl2 \in BOOLEAN /\ (pl2 <=> plain /\ ~k.full) /\ k = Poll(queue, [buf |-> KEYBUF, ext |-> EXTENDED, full |-> FALSE])
  BY Ps2Types
<1>2. /\ queue' = <<>> /\ EXTENDED' = k.ext /\ plain' = pl2 /\ mouse' = mouse /\ typed' = typed
      /\ \/ KEYBUF' = <<>> /\ read' = read \o k.buf
         \/ k.buf # <<>> /\ KEYBUF' = Tail(k.buf) /\ read' = Append(read, Head(k.buf))
  BY DEF ReadKeys, ReadKey
<1> HIDE DEF k, pl2
<1>3. KeysInv(<<>>, k.buf, read, k.ext, pl2, typed)
  BY <1>1, KeysPolled DEF Ps2Inv
<1>4. CASE KEYBUF' = <<>> /\ read' = read \o k.buf
  BY <1>2, <1>3, <1>4, KeysReadAll DEF Ps2Inv
<1>5. CASE k.buf # <<>> /\ KEYBUF' = Tail(k.buf) /\ read' = Append(read, Head(k.buf))
  BY <1>2, <1>3, <1>5, KeysReadOne DEF Ps2Inv
<1> QED BY <1>2, <1>4, <1>5

LEMMA MouseTakesKeeps ==
  ASSUME Ps2Inv, queue' = <<>>, Taken(queue), UNCHANGED <<kbdVars, typed>>, mouse' \in Mice
  PROVE  Ps2Inv'
<1> DEFINE pl2 == plain /\ \A i \in DOMAIN queue : ~IsKey(queue[i])
<1>1. pl2 \in BOOLEAN /\ (pl2 <=> plain /\ \A i \in DOMAIN queue : ~IsKey(queue[i])) /\ plain' = pl2
  BY Ps2Types DEF Taken
<1>2. KEYBUF' = KEYBUF /\ EXTENDED' = EXTENDED /\ read' = read /\ typed' = typed
  BY DEF kbdVars
<1> HIDE DEF pl2
<1>3. KeysInv(<<>>, KEYBUF, read, EXTENDED, pl2, typed)
  BY <1>1, KeysTaken DEF Ps2Inv
<1> QED BY <1>1, <1>2, <1>3 DEF Ps2Inv

LEMMA MouseKeeps ==
  ASSUME Ps2Inv, NEW answers \in BOOLEAN,
         MousePoll(answers) \/ MouseReset(answers) \/ \E on \in BOOLEAN : SetEnabled(on)
  PROVE  Ps2Inv'
<1>0. mouse \in Mice /\ queue \in Seq(Byte) /\ <<>> \in Seq(Code) /\ Len(<<>>) = 0
  BY Ps2Types
<1>1. /\ mouse.retry + 1 \in Nat
      /\ [mouse EXCEPT !.retry = @ + 1] \in Mice
      /\ [mouse EXCEPT !.failed = FALSE, !.retry = 0] \in Mice
      /\ [mouse EXCEPT !.done = FALSE, !.failed = FALSE, !.packet = <<>>] \in Mice
  <2>1. mouse.retry + 1 \in Nat
    BY <1>0 DEF Mice, MouseRecord
  <2>2. [mouse EXCEPT !.retry = mouse.retry + 1] \in Mice
    BY <1>0, <2>1 DEF Mice, MouseRecord
  <2>3. [mouse EXCEPT !.failed = FALSE, !.retry = 0] \in Mice
    BY <1>0 DEF Mice, MouseRecord
  <2>4. [mouse EXCEPT !.done = FALSE, !.failed = FALSE, !.packet = <<>>] \in Mice
    <3> DEFINE w == [mouse EXCEPT !.done = FALSE, !.failed = FALSE, !.packet = <<>>]
    <3>1. w \in MouseRecord
      BY <1>0 DEF Mice, MouseRecord
    <3>2. w.packet = <<>>
      BY <1>0 DEF Mice, MouseRecord
    <3> HIDE DEF w
    <3>3. w \in Mice
      BY <1>0, <3>1, <3>2 DEF Mice
    <3> QED BY <3>3 DEF w
  <2> QED BY <2>1, <2>2, <2>3, <2>4
<1>2. UNCHANGED <<queue, kbdVars, typed, plain>> /\ mouse' \in Mice => Ps2Inv'
  BY DEF Ps2Inv, kbdVars
<1>3. CASE MousePoll(answers)
  <2>1. mouse' \in Mice
    <3>1. MouseRead(mouse) \in Mice
      BY <1>0, MouseReadKeeps
    <3>2. MouseInit([mouse EXCEPT !.failed = FALSE, !.retry = 0], answers) \in Mice
      BY <1>1, MouseInitKeeps
    <3> QED BY <1>0, <1>1, <1>3, <3>1, <3>2 DEF MousePoll
  <2>2. /\ (queue' = <<>> /\ Taken(queue)) \/ UNCHANGED <<queue, plain>>
        /\ UNCHANGED <<kbdVars, typed>>
    BY <1>3 DEF MousePoll
  <2> QED BY <1>2, <2>1, <2>2, MouseTakesKeeps
<1>4. CASE MouseReset(answers)
  <2>1. mouse' \in Mice
    BY <1>1, <1>4, MouseInitKeeps DEF MouseReset
  <2> QED BY <1>4, <2>1, MouseTakesKeeps DEF MouseReset
<1>5. CASE \E on \in BOOLEAN : SetEnabled(on)
  <2>1. PICK on \in BOOLEAN : SetEnabled(on)
    BY <1>5
  <2>2. mouse' = [mouse EXCEPT !.enabled = on, !.packet = IF on THEN mouse.packet ELSE <<>>]
    BY <2>1 DEF SetEnabled
  <2>3. mouse' \in Mice
    <3> DEFINE s == IF on THEN mouse.packet ELSE <<>>
    <3>1. s \in Seq(Code) /\ Len(s) < 3
      BY <1>0 DEF Mice, MouseRecord
    <3>2. mouse' = [mouse EXCEPT !.enabled = on, !.packet = s]
      BY <2>2
    <3> HIDE DEF s
    <3>3. mouse' \in MouseRecord
      BY <1>0, <3>1, <3>2 DEF Mice, MouseRecord
    <3>4. mouse'.packet = s
      BY <1>0, <3>2 DEF Mice, MouseRecord
    <3> QED BY <3>1, <3>3, <3>4 DEF Mice
  <2> QED BY <1>2, <2>1, <2>3 DEF SetEnabled
<1> QED BY <1>3, <1>4, <1>5

LEMMA Ps2Next ==
  ASSUME BootHw, Ps2Inv, [Next]_vars
  PROVE  Ps2Inv'
<1>1. CASE UNCHANGED ps2Vars
  BY <1>1, Ps2Unchanged
<1>2. hw.mouse \in BOOLEAN
  BY DEF BootHw
<1>3. CASE KeyboardInit \/ Ps2PowerOff
  <2>1. /\ queue' = <<>> /\ KEYBUF' = <<>> /\ read' = <<>> /\ EXTENDED' = FALSE /\ plain' = TRUE /\ typed' = 0
        /\ mouse' = mouse \/ mouse' = NoMouse
    BY <1>3 DEF KeyboardInit, Ps2PowerOff
  <2>2. mouse' \in Mice
    BY <2>1, NoMouseIs DEF Ps2Inv
  <2> QED BY <2>1, <2>2, KeysStart DEF Ps2Inv
<1>4. CASE Step
  <2>1. CASE Mouse
    BY <1>2, <2>1, MouseKeeps DEF Mouse
  <2>2. CASE Keys \/ KeysAgain
    BY <2>2, ReadKeysKeeps DEF Keys, KeysAgain
  <2> QED BY <1>1, <1>3, <1>4, <2>1, <2>2 DEF Step, BootDisk, BootKeyboard, BootUsb, UsbPoll
<1>5. CASE Event
  <2>1. CASE InputPs2
    BY <2>1, PressKeyKeeps, OtherInputKeeps DEF InputPs2
  <2>2. CASE Command
    <3>1. ReadKey \/ MouseReset(hw.mouse) \/ \E on \in BOOLEAN : SetEnabled(on)
      BY <2>2 DEF Command
    <3> QED BY <1>2, <3>1, ReadKeysKeeps, MouseKeeps
  <2> QED BY <1>1, <1>3, <1>5, <2>1, <2>2 DEF Event, InputUsb, PowerOff
<1>6. CASE UNCHANGED vars
  BY <1>1, <1>6 DEF vars
<1> QED BY <1>4, <1>5, <1>6 DEF Next

LEMMA Ps2Kept ==
  ASSUME Ps2Inv
  PROVE  InputKept
<1> DEFINE num == [i \in DOMAIN queue |-> queue[i].n]
           held == read \o KEYBUF
           seen == held \o num
           keys == {seen[i] : i \in DOMAIN seen} \ {Meta}
<1>0. /\ KeysInv(queue, KEYBUF, read, EXTENDED, plain, typed) /\ mouse \in Mice
      /\ queue \in Seq(Byte) /\ KEYBUF \in Seq(Nat) /\ read \in Seq(Nat) /\ typed \in Nat
  BY Ps2Types DEF Ps2Inv
<1>1. num = Numbers(queue) /\ num \in Seq(Nat)
  <2>1. DOMAIN queue = 1 .. Len(queue)
    BY <1>0
  <2>2. num = Numbers(queue)
    BY <2>1 DEF Numbers
  <2> QED BY <1>0, <2>2, NumbersAre
<1> HIDE DEF num
<1>2. held \in Seq(Nat) /\ Elems(held) = Elems(read) \cup Elems(KEYBUF) /\ Ordered(held)
  BY <1>0, OrderedConcat DEF KeysInv
<1>3. Before(Elems(held), Elems(num))
  BY <1>0, <1>1, <1>2 DEF KeysInv, Before
<1> HIDE DEF held
<1>4. seen \in Seq(Nat) /\ Elems(seen) = Elems(held) \cup Elems(num) /\ Ordered(seen)
  BY <1>0, <1>1, <1>2, <1>3, OrderedConcat DEF KeysInv
<1>5. Elems(seen) = SeenKeys(queue, KEYBUF, read)
  BY <1>1, <1>2, <1>4 DEF SeenKeys
<1> HIDE DEF seen
<1>6. DOMAIN seen = 1 .. Len(seen)
  BY <1>4
<1>7. keys = SeenKeys(queue, KEYBUF, read) \ {0}
  BY <1>5, <1>6 DEF Elems, Meta
<1>8. \A i, j \in DOMAIN seen : i < j /\ seen[i] # Meta /\ seen[j] # Meta => seen[i] < seen[j]
  BY <1>4, <1>6 DEF Ordered, Meta
<1>9. (0 .. typed) \ {0} = 1 .. typed
  BY <1>0
<1>10. keys \subseteq 1 .. typed /\ (plain => keys = 1 .. typed)
  BY <1>0, <1>7, <1>9 DEF KeysInv
<1>11. KeysKept
  BY <1>8, <1>10 DEF KeysKept, seen, held, num
<1>12. Len(mouse.packet) < 3
  BY <1>0 DEF Mice
<1> QED BY <1>11, <1>12 DEF InputKept

(* keyboard.rs, ps2mouse.rs: however the shell, its commands, the keyboard   *)
(* and the mouse interleave on the one queue of the i8042, keys come out in  *)
(* the order in which they were pressed, none twice, none is lost unless an  *)
(* E0, the mouse driver or a full buffer took it, and a packet of the mouse  *)
(* never outgrows its buffer.                                                *)
THEOREM BootInputKept == Spec => []InputKept
<1>1. Init => Ps2Inv /\ BootHw
  BY KeysStart, NoMouseIs DEF Init, Ps2Init, Ps2Inv, BootHw
<1>2. Ps2Inv /\ BootHw /\ [Next]_vars => Ps2Inv' /\ BootHw'
  <2>1. BootHw /\ [Next]_vars => BootHw'
    BY DEF BootHw, Next, Step, Event, BootDisk, BootKeyboard, BootUsb, UsbPoll, Keys, Mouse, KeysAgain, vars
  <2> QED BY <2>1, Ps2Next
<1>3. Ps2Inv => InputKept
  BY Ps2Kept
<1> QED BY <1>1, <1>2, <1>3, PTL DEF Spec
=============================================================================
