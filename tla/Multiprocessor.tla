---------------------------- MODULE Multiprocessor ----------------------------
(***************************************************************************)
(* Processor start-up and work queues (smp.rs, acpi.rs, apic.rs).          *)
(*                                                                         *)
(* The boot processor (BSP) prepares a slot for every processor, sends     *)
(* INIT and two SIPIs, and waits for a limited time.  The other processors *)
(* run the trampoline at 0x8000 at the same time as each other and as the  *)
(* BSP: they share its GDT, whose entry 1 the first one patches, claim a   *)
(* slot with lock xadd, and count themselves with an ordinary increment.   *)
(* Afterwards work is handed to a processor through a ring that the BSP    *)
(* writes and the processor drains.                                        *)
(***************************************************************************)
EXTENDS Integers, Sequences, FiniteSets, SequencesExt

CONSTANTS
  AP,                \* the application processors of the machine
  BSP,               \* the boot processor
  ApicId,            \* lapic_id() of each processor
  Firmware,          \* what the firmware may offer: its RSDP and its MADT
  MAX_CPUS,          \* slots of PERCPU_ARRAY
  WORK_QUEUE_SIZE,   \* entries of a work ring
  AP_WAIT_ATTEMPTS,  \* how often the BSP looks at AP_READY_COUNT
  MaxWork            \* bound: items pushed in all

Cpu == AP \cup {BSP}
CpuId == 0 .. MAX_CPUS - 1

ASSUME CpusFit == /\ IsFiniteSet(AP) /\ BSP \notin AP
                  /\ MAX_CPUS \in Nat /\ Cardinality(Cpu) <= MAX_CPUS
ASSUME ApicIdsDiffer == /\ ApicId \in [Cpu -> Nat]
                        /\ \A c, d \in Cpu : ApicId[c] = ApicId[d] => c = d

(* A slot that nobody has claimed yet has APIC id 0 *)
ASSUME BspHasIdZero == \A a \in AP : ApicId[a] # 0

ASSUME QueueHolds == WORK_QUEUE_SIZE \in Nat /\ WORK_QUEUE_SIZE > 1

VARIABLES
  boot,            \* what smp::init does next, "up" once it has returned
  cpu_count,       \* hw::cpu_threads(), clamped
  target,          \* the processors that are sent INIT and SIPI
  waited,          \* turns of the waiting loop
  seen,            \* AP_READY_COUNT as the BSP last loaded it
  mode,            \* where each processor is on its way to the idle loop
  gdt64,           \* entry 1 of the trampoline's GDT is a 64-bit segment
  slot_counter,    \* the word at 0x1018
  slot,            \* the slot a processor claimed
  PERCPU_ARRAY, AP_READY_COUNT, CPU_COUNT,
  loaded,          \* AP_READY_COUNT in a register of the processor that adds 1
  queue, head, tail,   \* WORK_QUEUES, WORK_QUEUE_HEADS, WORK_QUEUE_TAILS
  push,            \* push_work under way
  drain,           \* process_work_queue under way, on each processor
  pushed, ran      \* history: what push_work accepted, what was called

startVars == <<boot, cpu_count, target, waited, seen, CPU_COUNT>>
apVars == <<mode, gdt64, slot_counter, slot, PERCPU_ARRAY, AP_READY_COUNT, loaded>>
workVars == <<queue, head, tail, push, drain, pushed, ran>>
vars == <<startVars, apVars, workVars>>

NoPush == [step |-> "none", cpu |-> 0, tail |-> 0, arg |-> 0]
NoDrain == [step |-> "none", cpu |-> 0, head |-> 0]

-----------------------------------------------------------------------------
(* validate_rsdp: signature, revision, length and checksum are right; no    *)
(* RSDP that find_rsdp could return is not valid either.                    *)
ValidateRsdp(rsdp) == rsdp = "valid"

(* find_table through the XSDT: an empty table when there is none *)
FindTable(firmware) == IF ValidateRsdp(firmware.rsdp) THEN firmware.madt ELSE <<>>

(* parse_madt: the enabled entries, as many as the buffer holds *)
ParseMadt(madt) ==
  LET enabled == SelectSeq(madt, LAMBDA e : e.enabled)
  IN {enabled[i].cpu : i \in 1 .. (IF Len(enabled) < MAX_CPUS THEN Len(enabled) ELSE MAX_CPUS)}

(* apic_id_to_cpu_id: the first slot with that id, slot 0 when there is none *)
ApicIdToCpuId(id) ==
  LET found == {i \in CpuId : PERCPU_ARRAY[i].apic_id = id}
  IN IF found = {} THEN 0 ELSE CHOOSE i \in found : \A j \in found : i <= j

-----------------------------------------------------------------------------
(* smp::init on the boot processor *)

(* One processor only: nothing is started.  Otherwise slot 0 is the BSP's,  *)
(* the others get a stack and no APIC id, and slot_counter starts at 1.     *)
Prepare ==
  /\ boot = "detect"
  /\ \E threads \in 1 .. Cardinality(Cpu) :
       /\ cpu_count' = threads
       /\ IF threads <= 1
            THEN boot' = "up" /\ CPU_COUNT' = 1 /\ UNCHANGED <<PERCPU_ARRAY, slot_counter>>
            ELSE /\ boot' = "acpi"
                 /\ PERCPU_ARRAY' = [i \in CpuId |->
                      [apic_id |-> IF i = 0 THEN ApicId[BSP] ELSE 0,
                       ap_ready |-> i = 0]]
                 /\ slot_counter' = 1
                 /\ UNCHANGED CPU_COUNT
  /\ UNCHANGED <<target, waited, seen, mode, gdt64, slot, AP_READY_COUNT, loaded, workVars>>

(* The processors of the MADT one by one; without ACPI, a broadcast *)
FindProcessors ==
  /\ boot = "acpi"
  /\ \E firmware \in Firmware :
       LET found == ParseMadt(FindTable(firmware))
       IN target' = IF found = {} THEN AP ELSE found \ {BSP}
  /\ boot' = "init"
  /\ UNCHANGED <<cpu_count, waited, seen, CPU_COUNT, apVars, workVars>>

(* What INIT and SIPI do to the processors they reach: the ones that wait   *)
(* for a SIPI start, the others ignore it.                                  *)
InitIpi(S) == [a \in AP |-> IF a \in S THEN "wait_sipi" ELSE mode[a]]
StartupIpi(S) == [a \in AP |-> IF a \in S /\ mode[a] = "wait_sipi" THEN "real" ELSE mode[a]]

SendInit ==
  /\ boot = "init"
  /\ boot' = "sipi1"
  /\ mode' = InitIpi(target)
  /\ UNCHANGED <<cpu_count, target, waited, seen, CPU_COUNT>>
  /\ UNCHANGED <<gdt64, slot_counter, slot, PERCPU_ARRAY, AP_READY_COUNT, loaded, workVars>>

(* A processor may miss a SIPI *)
SendSipi ==
  /\ boot \in {"sipi1", "sipi2"}
  /\ boot' = IF boot = "sipi1" THEN "sipi2" ELSE "wait"
  /\ \E heard \in SUBSET target : mode' = StartupIpi(heard)
  /\ UNCHANGED <<cpu_count, target, waited, seen, CPU_COUNT>>
  /\ UNCHANGED <<gdt64, slot_counter, slot, PERCPU_ARRAY, AP_READY_COUNT, loaded, workVars>>

(* Mutant: the time limit is not looked at *)
WaitForever ==
  /\ boot = "wait"
  /\ \E count \in {seen, AP_READY_COUNT} :
       /\ seen' = count
       /\ IF count < cpu_count - 1
            THEN waited' = waited /\ boot' = boot
            ELSE waited' = waited /\ boot' = "check"
  /\ UNCHANGED <<cpu_count, target, CPU_COUNT, apVars, workVars>>

(* The loads of AP_READY_COUNT are not volatile: each is done anew or keeps *)
(* the value of an earlier one.                                             *)
WaitForAps ==
  /\ boot = "wait"
  /\ \E count \in {seen, AP_READY_COUNT} :
       /\ seen' = count
       /\ IF count < cpu_count - 1 /\ waited < AP_WAIT_ATTEMPTS
            THEN waited' = waited + 1 /\ boot' = boot
            ELSE waited' = waited /\ boot' = "check"
  /\ UNCHANGED <<cpu_count, target, CPU_COUNT, apVars, workVars>>

(* Mutant: the processors detected are taken for the ones that woke up *)
EndWaitHopeful ==
  /\ boot = "check"
  /\ boot' = "up"
  /\ seen' = seen
  /\ CPU_COUNT' = cpu_count
  /\ UNCHANGED <<cpu_count, target, waited, apVars, workVars>>

(* "All APs ready" leaves CPU_COUNT at 1; the warning sets it *)
EndWait ==
  /\ boot = "check"
  /\ boot' = "up"
  /\ \E count \in {seen, AP_READY_COUNT} :
       /\ seen' = count
       /\ CPU_COUNT' = IF count >= cpu_count - 1 THEN CPU_COUNT ELSE 1 + count
  /\ UNCHANGED <<cpu_count, target, waited, apVars, workVars>>

-----------------------------------------------------------------------------
(* The trampoline and ap_main on processor a *)

Goto(a, from, to) == mode[a] = from /\ mode' = [mode EXCEPT ![a] = to]

(* jmp 0x08:0x8060.  Once another processor has made entry 1 a 64-bit       *)
(* segment, the 32-bit code is decoded as 16-bit code and the processor is  *)
(* lost.                                                                    *)
EnterProtected(a) ==
  /\ Goto(a, "real", IF gdt64 THEN "lost" ELSE "protected")
  /\ UNCHANGED <<gdt64, slot_counter, slot, PERCPU_ARRAY, AP_READY_COUNT, loaded>>

EnterLong(a) ==
  /\ Goto(a, "protected", "long")
  /\ gdt64' = TRUE
  /\ UNCHANGED <<slot_counter, slot, PERCPU_ARRAY, AP_READY_COUNT, loaded>>

(* Mutant: xadd without the lock prefix *)
ClaimSlotUnlocked(a) ==
  /\ Goto(a, "long", "claimed")
  /\ slot' = [slot EXCEPT ![a] = slot_counter]
  /\ slot_counter' = IF \E b \in AP \ {a} : mode[b] = "long" THEN slot_counter ELSE slot_counter + 1
  /\ UNCHANGED <<gdt64, PERCPU_ARRAY, AP_READY_COUNT, loaded>>

ClaimSlot(a) ==
  /\ Goto(a, "long", "claimed")
  /\ slot' = [slot EXCEPT ![a] = slot_counter]
  /\ slot_counter' = slot_counter + 1
  /\ UNCHANGED <<gdt64, PERCPU_ARRAY, AP_READY_COUNT, loaded>>

(* ap_main up to the load of AP_READY_COUNT += 1 *)
MarkReady(a) ==
  /\ Goto(a, "claimed", "counting")
  /\ PERCPU_ARRAY' = [PERCPU_ARRAY EXCEPT ![slot[a]] =
                        [apic_id |-> ApicId[a], ap_ready |-> TRUE]]
  /\ loaded' = [loaded EXCEPT ![a] = AP_READY_COUNT]
  /\ UNCHANGED <<gdt64, slot_counter, slot, AP_READY_COUNT>>

CountReady(a) ==
  /\ Goto(a, "counting", "idle")
  /\ AP_READY_COUNT' = loaded[a] + 1
  /\ UNCHANGED <<gdt64, slot_counter, slot, PERCPU_ARRAY, loaded>>

ApStep(a) ==
  /\ \/ EnterProtected(a) \/ EnterLong(a) \/ ClaimSlot(a)
     \/ MarkReady(a) \/ CountReady(a)
  /\ UNCHANGED <<startVars, workVars>>

-----------------------------------------------------------------------------
(* Work queues *)

Accepted == FoldFunction(LAMBDA items, n : n + Len(items), 0, pushed)

(* Mutant: a full ring is not noticed *)
PushWorkAnyway(c) ==
  /\ boot = "up" /\ drain[BSP] = NoDrain /\ push = NoPush
  /\ Accepted < MaxWork
  /\ push' = [step |-> "store", cpu |-> c, tail |-> tail[c], arg |-> Accepted + 1]
  /\ UNCHANGED <<queue, head, tail, drain, pushed, ran>>

(* push_work(c, handler, arg) on the BSP: load the indices, refuse when the *)
(* ring is full, store the item, publish the new tail.                      *)
PushWork(c) ==
  /\ boot = "up" /\ drain[BSP] = NoDrain /\ push = NoPush
  /\ Accepted < MaxWork
  /\ (tail[c] + 1) % WORK_QUEUE_SIZE # head[c]
  /\ push' = [step |-> "store", cpu |-> c, tail |-> tail[c], arg |-> Accepted + 1]
  /\ UNCHANGED <<queue, head, tail, drain, pushed, ran>>

StoreItem ==
  /\ push.step = "store"
  /\ queue' = [queue EXCEPT ![push.cpu][push.tail] = push.arg]
  /\ push' = [push EXCEPT !.step = "publish"]
  /\ UNCHANGED <<head, tail, drain, pushed, ran>>

PublishTail ==
  /\ push.step = "publish"
  /\ tail' = [tail EXCEPT ![push.cpu] = (push.tail + 1) % WORK_QUEUE_SIZE]
  /\ pushed' = [pushed EXCEPT ![push.cpu] = Append(@, push.arg)]
  /\ push' = NoPush
  /\ UNCHANGED <<queue, head, drain, ran>>

(* hlt ends in the idle loop of a processor (which keeps interrupts off, so *)
(* that only an NMI or an SMI ends it); the IPI reaches the BSP.            *)
Wake(c) ==
  /\ drain[c] = NoDrain
  /\ \/ c \in AP /\ mode[c] = "idle" /\ drain' = [drain EXCEPT ![c] =
          [step |-> "look", cpu |-> slot[c], head |-> 0]]
     \/ c = BSP /\ boot = "up" /\ cpu_count > 1 /\ push = NoPush
          /\ drain' = [drain EXCEPT ![c] =
               [step |-> "look", cpu |-> ApicIdToCpuId(ApicId[c]), head |-> 0]]
  /\ UNCHANGED <<queue, head, tail, push, pushed, ran>>

(* process_work_queue: call the item at the head, then move the head *)
CallItem(c) ==
  LET q == drain[c].cpu IN
  /\ drain[c].step = "look"
  /\ IF head[q] = tail[q]
       THEN drain' = [drain EXCEPT ![c] = NoDrain] /\ UNCHANGED ran
       ELSE /\ drain' = [drain EXCEPT ![c].step = "called", ![c].head = head[q]]
            /\ ran' = [ran EXCEPT ![q] = Append(@, queue[q][head[q]])]
  /\ UNCHANGED <<queue, head, tail, push, pushed>>

MoveHead(c) ==
  /\ drain[c].step = "called"
  /\ head' = [head EXCEPT ![drain[c].cpu] = (drain[c].head + 1) % WORK_QUEUE_SIZE]
  /\ drain' = [drain EXCEPT ![c].step = "look"]
  /\ UNCHANGED <<queue, tail, push, pushed, ran>>

WorkStep ==
  /\ \/ \E c \in CpuId : PushWork(c)
     \/ StoreItem
     \/ PublishTail
     \/ \E c \in Cpu : Wake(c) \/ CallItem(c) \/ MoveHead(c)
  /\ UNCHANGED <<startVars, apVars>>

-----------------------------------------------------------------------------
Init ==
  /\ boot = "detect" /\ cpu_count = 0 /\ target = {} /\ waited = 0 /\ seen = 0
  /\ mode = [a \in AP |-> "firmware"]
  /\ gdt64 = FALSE
  /\ slot_counter = 0
  /\ slot = [a \in AP |-> 0]
  /\ PERCPU_ARRAY = [i \in CpuId |-> [apic_id |-> 0, ap_ready |-> FALSE]]
  /\ AP_READY_COUNT = 0
  /\ CPU_COUNT = 1
  /\ loaded = [a \in AP |-> 0]
  /\ queue = [i \in CpuId |-> [j \in 0 .. WORK_QUEUE_SIZE - 1 |-> 0]]
  /\ head = [i \in CpuId |-> 0] /\ tail = [i \in CpuId |-> 0]
  /\ push = NoPush
  /\ drain = [c \in Cpu |-> NoDrain]
  /\ pushed = [i \in CpuId |-> <<>>] /\ ran = [i \in CpuId |-> <<>>]

BspStep == Prepare \/ FindProcessors \/ SendInit \/ SendSipi \/ WaitForAps \/ EndWait

Next == BspStep \/ (\E a \in AP : ApStep(a)) \/ WorkStep

(* The BSP goes on executing smp::init; nothing is assumed of the others *)
Spec == Init /\ [][Next]_vars /\ WF_vars(BspStep)

-----------------------------------------------------------------------------
(* Properties *)

Ready == {a \in AP : mode[a] \in {"counting", "idle"}}
Claimed == {a \in AP : mode[a] \in {"claimed", "counting", "idle"}}

(* Whatever the order in which processors start, and however late, each has *)
(* a slot (and with it a stack) of its own that is not the BSP's, and its   *)
(* APIC id leads back to that slot (lock xadd, apic_id_to_cpu_id).          *)
SlotsOwned ==
  /\ \A a \in Claimed : slot[a] # 0 /\ \A b \in Claimed \ {a} : slot[a] # slot[b]
  /\ \A a \in Ready : ApicIdToCpuId(ApicId[a]) = slot[a]

(* Lost increments and late processors make the counts too small, never too *)
(* large: CPU_COUNT and AP_READY_COUNT stand for processors that are ready. *)
CountsSound ==
  /\ AP_READY_COUNT <= Cardinality(Ready)
  /\ CPU_COUNT <= 1 + Cardinality(Ready)

(* A queue calls its items in the order in which push_work accepted them,   *)
(* each once, although the BSP and the processor use the ring at the same   *)
(* time without a lock ("lock-free single-consumer").                       *)
WorkInOrder == \A c \in CpuId : IsPrefix(ran[c], pushed[c])

(* Start-up comes to an end although processors miss SIPIs, are lost in the *)
(* trampoline or never count themselves.                                    *)
BootCompletes == <>(boot = "up")
=============================================================================
