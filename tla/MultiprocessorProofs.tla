------------------------ MODULE MultiprocessorProofs ------------------------
(***************************************************************************)
(* Proofs about processor start-up and the work queues, for any number of   *)
(* processors that fit into PERCPU_ARRAY, any tables of the firmware, any   *)
(* size of a queue, and any interleaving of the processors.                 *)
(***************************************************************************)
EXTENDS Multiprocessor, FiniteSetTheorems, SequenceTheorems, TLAPS

Mode == {"firmware", "wait_sipi", "real", "protected", "lost", "long", "claimed", "counting", "idle"}

Started == \E a \in AP : mode[a] # "firmware"
Prepared == boot \in {"acpi", "init"} \/ Started

SlotTypes ==
  /\ mode \in [AP -> Mode]
  /\ slot \in [AP -> Nat] /\ slot_counter \in Nat
  /\ PERCPU_ARRAY \in [CpuId -> [apic_id : Nat, ap_ready : BOOLEAN]]

(* The counter has counted the slots claimed, which bounds it *)
SlotsCounted ==
  /\ Prepared => slot_counter = 1 + Cardinality(Claimed)
  /\ \A a \in Claimed : slot[a] # 0 /\ slot[a] < slot_counter
  /\ \A a, b \in Claimed : slot[a] = slot[b] => a = b

(* Slots hold the APIC id of their owner, or 0 *)
IdsKept ==
  /\ Prepared => PERCPU_ARRAY[0].apic_id = ApicId[BSP]
  /\ \A a \in Ready : PERCPU_ARRAY[slot[a]].apic_id = ApicId[a]
  /\ \A i \in CpuId \ {0} : (\A a \in Ready : slot[a] # i) => PERCPU_ARRAY[i].apic_id = 0

(* The trampoline is entered only after smp::init has prepared the slots *)
SInv ==
  /\ boot \in {"detect", "acpi", "init"} => ~Started
  /\ SlotTypes /\ SlotsCounted /\ IdsKept

-----------------------------------------------------------------------------
(* Any set of application processors is finite and smaller than the array *)
LEMMA SetsFit ==
  ASSUME NEW S \in SUBSET AP
  PROVE  IsFiniteSet(S) /\ Cardinality(S) \in Nat /\ Cardinality(S) + 1 <= MAX_CPUS
<1>1. IsFiniteSet(S) /\ Cardinality(S) <= Cardinality(AP)
  BY CpusFit, FS_Subset
<1>2. Cardinality(S) \in Nat /\ Cardinality(AP) \in Nat
  BY <1>1, CpusFit, FS_CardinalityType
<1>3. Cardinality(Cpu) = Cardinality(AP) + 1
  BY CpusFit, FS_AddElement DEF Cpu
<1> QED BY <1>1, <1>2, <1>3, CpusFit

(* A claimed slot is a slot of the array other than the BSP's *)
LEMMA SlotInArray ==
  ASSUME SInv, NEW a \in Claimed
  PROVE  slot[a] \in CpuId \ {0} /\ slot[a] \in Nat
<1>1. a \in AP /\ Started
  BY DEF Claimed, Started
<1>2. slot[a] \in Nat /\ slot[a] # 0 /\ slot[a] < 1 + Cardinality(Claimed)
  BY <1>1 DEF SInv, SlotTypes, SlotsCounted, Prepared
<1>3. Cardinality(Claimed) \in Nat /\ Cardinality(Claimed) + 1 <= MAX_CPUS
  BY SetsFit DEF Claimed
<1> QED BY <1>2, <1>3, CpusFit DEF CpuId

LEMMA ZeroInArray == 0 \in CpuId
<1>1. Cardinality({}) = 0 /\ {} \in SUBSET AP
  BY FS_EmptySet
<1> QED BY <1>1, SetsFit, CpusFit DEF CpuId

(* The invariant gives each processor its slot *)
LEMMA SInvOwned ==
  ASSUME SInv
  PROVE  SlotsOwned
<1>1. ASSUME NEW a \in Claimed
      PROVE  slot[a] # 0 /\ \A b \in Claimed \ {a} : slot[a] # slot[b]
  BY <1>1 DEF SInv, SlotsCounted
<1>2. ASSUME NEW a \in Ready
      PROVE  ApicIdToCpuId(ApicId[a]) = slot[a]
  <2>1. a \in Claimed /\ a \in AP /\ a \in Cpu /\ BSP \in Cpu /\ a # BSP
    BY <1>2, CpusFit DEF Ready, Claimed, Cpu
  <2>2. slot[a] \in CpuId \ {0}
    BY <2>1, SlotInArray
  <2>3. PERCPU_ARRAY[slot[a]].apic_id = ApicId[a]
    BY <1>2 DEF SInv, IdsKept
  <2>4. ASSUME NEW i \in CpuId, PERCPU_ARRAY[i].apic_id = ApicId[a]
        PROVE  i = slot[a]
    <3>1. i # 0
      BY <2>1, <2>4, ApicIdsDiffer DEF SInv, IdsKept, Prepared, Started, Claimed
    <3>2. PICK b \in Ready : slot[b] = i
      BY <3>1, <2>1, <2>4, BspHasIdZero DEF SInv, IdsKept
    <3>3. ApicId[b] = ApicId[a] /\ b \in Cpu
      BY <3>2, <2>4 DEF SInv, IdsKept, Ready, Cpu
    <3> QED BY <3>2, <3>3, <2>1, ApicIdsDiffer
  <2>5. {i \in CpuId : PERCPU_ARRAY[i].apic_id = ApicId[a]} = {slot[a]}
    BY <2>2, <2>3, <2>4
  <2>6. slot[a] \in Nat
    BY <2>1, SlotInArray
  <2>7. (CHOOSE i \in {slot[a]} : \A j \in {slot[a]} : i <= j) = slot[a]
    BY <2>6
  <2> QED BY <2>5, <2>7 DEF ApicIdToCpuId
<1> QED BY <1>1, <1>2 DEF SlotsOwned

-----------------------------------------------------------------------------
LEMMA SInvInit == Init => SInv
<1> SUFFICES ASSUME Init PROVE SInv
  OBVIOUS
<1>1. ~Started /\ Claimed = {} /\ Ready = {} /\ ~Prepared
  BY DEF Init, Started, Claimed, Ready, Prepared
<1>2. SlotTypes
  BY DEF Init, SlotTypes, Mode
<1>3. SlotsCounted /\ IdsKept
  BY <1>1 DEF SlotsCounted, IdsKept, Init
<1> QED BY <1>1, <1>2, <1>3 DEF SInv

(* Steps that start, lose or count no processor, and write no slot, change  *)
(* none of the state that the invariant reads but the first modes           *)
LEMMA SInvFrame ==
  ASSUME SInv, SlotTypes', Prepared' => Prepared,
         boot' \in {"detect", "acpi", "init"} => ~Started',
         Claimed' = Claimed, Ready' = Ready, UNCHANGED <<slot, slot_counter, PERCPU_ARRAY>>
  PROVE  SInv'
<1>1. SlotsCounted'
  BY DEF SInv, SlotsCounted
<1>2. IdsKept'
  BY DEF SInv, IdsKept
<1> QED BY <1>1, <1>2 DEF SInv

LEMMA SInvPrepare ==
  ASSUME SInv, Prepare
  PROVE  SInv'
<1>1. ~Started /\ mode' = mode /\ slot' = slot /\ boot = "detect"
  BY DEF SInv, Prepare
<1>2. Claimed = {} /\ Ready = {} /\ ~Started' /\ Claimed' = {} /\ Ready' = {}
  BY <1>1 DEF Started, Claimed, Ready
<1>3. CASE boot' = "up" /\ UNCHANGED <<PERCPU_ARRAY, slot_counter>>
  <2>1. ~Prepared'
    BY <1>2, <1>3 DEF Prepared
  <2>2. SlotTypes'
    BY <1>1, <1>3 DEF SInv, SlotTypes
  <2> QED BY <2>1, <2>2, <1>1, <1>2, <1>3, SInvFrame
<1>4. CASE /\ PERCPU_ARRAY' = [i \in CpuId |-> [apic_id |-> IF i = 0 THEN ApicId[BSP] ELSE 0,
                                                ap_ready |-> i = 0]]
           /\ slot_counter' = 1
  <2>1. ApicId[BSP] \in Nat
    BY ApicIdsDiffer DEF Cpu
  <2>2. SlotTypes'
    BY <1>1, <1>4, <2>1 DEF SInv, SlotTypes
  <2>3. SlotsCounted'
    BY <1>2, <1>4, FS_EmptySet DEF SlotsCounted
  <2>4. IdsKept'
    BY <1>2, <1>4, ZeroInArray DEF IdsKept
  <2> QED BY <1>2, <2>2, <2>3, <2>4 DEF SInv
<1> QED BY <1>3, <1>4 DEF Prepare

LEMMA SInvBsp ==
  ASSUME SInv, BspStep
  PROVE  SInv'
<1>1. CASE Prepare
  BY <1>1, SInvPrepare
<1>2. CASE FindProcessors
  <2>1. UNCHANGED <<mode, slot, slot_counter, PERCPU_ARRAY>> /\ boot = "acpi" /\ boot' = "init"
    BY <1>2 DEF FindProcessors, apVars
  <2>2. Claimed' = Claimed /\ Ready' = Ready /\ Started' = Started
    BY <2>1 DEF Claimed, Ready, Started
  <2> QED BY <2>1, <2>2, SInvFrame DEF SInv, SlotTypes, Prepared
<1>3. CASE SendInit
  <2>1. /\ UNCHANGED <<slot, slot_counter, PERCPU_ARRAY>> /\ boot = "init" /\ boot' = "sipi1"
        /\ mode' = [a \in AP |-> IF a \in target THEN "wait_sipi" ELSE mode[a]]
    BY <1>3 DEF SendInit, InitIpi
  <2>2. \A a \in AP : mode[a] = "firmware"
    BY <2>1 DEF SInv, Started
  <2>3. Claimed' = Claimed /\ Ready' = Ready
    BY <2>1, <2>2 DEF Claimed, Ready
  <2>4. SlotTypes'
    BY <2>1, <2>2 DEF SInv, SlotTypes, Mode
  <2> QED BY <2>1, <2>3, <2>4, SInvFrame DEF Prepared
<1>4. CASE SendSipi
  <2>1. PICK heard \in SUBSET target : mode' = StartupIpi(heard)
    BY <1>4 DEF SendSipi
  <2>2. UNCHANGED <<slot, slot_counter, PERCPU_ARRAY>> /\ boot' \in {"sipi2", "wait"}
    BY <1>4 DEF SendSipi
  <2>3. mode' = [a \in AP |-> IF a \in heard /\ mode[a] = "wait_sipi" THEN "real" ELSE mode[a]]
    BY <2>1 DEF StartupIpi
  <2>4. Claimed' = Claimed /\ Ready' = Ready
    BY <2>3 DEF Claimed, Ready
  <2>5. SlotTypes'
    BY <2>2, <2>3 DEF SInv, SlotTypes, Mode
  <2>6. Started' => Started
    BY <2>3 DEF Started
  <2> QED BY <2>2, <2>4, <2>5, <2>6, SInvFrame DEF Prepared
<1>5. CASE WaitForAps \/ EndWait
  <2>1. UNCHANGED <<mode, slot, slot_counter, PERCPU_ARRAY>> /\ boot' \in {"wait", "check", "up"}
    BY <1>5 DEF WaitForAps, EndWait, apVars
  <2>2. Claimed' = Claimed /\ Ready' = Ready /\ Started' = Started
    BY <2>1 DEF Claimed, Ready, Started
  <2> QED BY <2>1, <2>2, SInvFrame DEF SInv, SlotTypes, Prepared
<1> QED BY <1>1, <1>2, <1>3, <1>4, <1>5 DEF BspStep

LEMMA SInvClaim ==
  ASSUME SInv, NEW a \in AP, ClaimSlot(a), boot' = boot
  PROVE  SInv'
<1>1. /\ mode[a] = "long" /\ mode' = [mode EXCEPT ![a] = "claimed"]
      /\ slot' = [slot EXCEPT ![a] = slot_counter]
      /\ slot_counter' = slot_counter + 1 /\ PERCPU_ARRAY' = PERCPU_ARRAY
  BY DEF ClaimSlot, Goto
<1>2. mode \in [AP -> Mode] /\ slot \in [AP -> Nat] /\ slot_counter \in Nat
  BY DEF SInv, SlotTypes
<1>3. Started /\ Started' /\ Prepared
  BY <1>1, <1>2 DEF Started, Prepared
<1>4. Claimed' = Claimed \cup {a} /\ a \notin Claimed /\ Ready' = Ready /\ a \notin Ready
  BY <1>1, <1>2 DEF Claimed, Ready
<1>5. IsFiniteSet(Claimed) /\ Cardinality(Claimed) \in Nat
  BY SetsFit DEF Claimed
<1>6. Cardinality(Claimed') = Cardinality(Claimed) + 1
  BY <1>4, <1>5, FS_AddElement
<1>7. slot_counter = 1 + Cardinality(Claimed)
  BY <1>3 DEF SInv, SlotsCounted
<1>8. SlotTypes'
  BY <1>1, <1>2 DEF SInv, SlotTypes, Mode
<1>9. /\ slot'[a] = slot_counter
      /\ \A b \in Claimed : slot'[b] = slot[b] /\ slot[b] # 0 /\ slot[b] < slot_counter
  BY <1>1, <1>2, <1>4 DEF SInv, SlotsCounted, Claimed
<1>10. SlotsCounted'
  <2>1. \A b \in Claimed' : slot'[b] # 0 /\ slot'[b] < slot_counter'
    <3>1. \A b \in Claimed : slot[b] \in Nat
      BY <1>2 DEF Claimed
    <3> QED BY <1>1, <1>2, <1>4, <1>5, <1>7, <1>9, <3>1
  <2>2. \A b, c \in Claimed' : slot'[b] = slot'[c] => b = c
    <3>1. \A b, c \in Claimed : slot[b] = slot[c] => b = c
      BY DEF SInv, SlotsCounted
    <3>2. \A b \in Claimed : slot'[b] # slot_counter
      <4>1. \A b \in Claimed : slot[b] \in Nat
        BY <1>2 DEF Claimed
      <4> QED BY <1>2, <1>9, <4>1
    <3> QED BY <1>4, <1>9, <3>1, <3>2
  <2>3. slot_counter' = 1 + Cardinality(Claimed')
    BY <1>1, <1>5, <1>6, <1>7
  <2> QED BY <2>1, <2>2, <2>3 DEF SlotsCounted
<1>11. \A b \in Ready : slot'[b] = slot[b]
  BY <1>1, <1>2, <1>4 DEF Ready
<1>12. IdsKept'
  BY <1>1, <1>3, <1>4, <1>11 DEF SInv, IdsKept
<1> QED BY <1>3, <1>8, <1>10, <1>12 DEF SInv

LEMMA SInvMark ==
  ASSUME SInv, NEW a \in AP, MarkReady(a), boot' = boot
  PROVE  SInv'
<1>1. /\ mode[a] = "claimed" /\ mode' = [mode EXCEPT ![a] = "counting"]
      /\ PERCPU_ARRAY' = [PERCPU_ARRAY EXCEPT ![slot[a]] = [apic_id |-> ApicId[a], ap_ready |-> TRUE]]
      /\ UNCHANGED <<slot_counter, slot>>
  BY DEF MarkReady, Goto
<1>2. mode \in [AP -> Mode] /\ PERCPU_ARRAY \in [CpuId -> [apic_id : Nat, ap_ready : BOOLEAN]]
  BY DEF SInv, SlotTypes
<1>3. Started /\ Started' /\ Prepared
  BY <1>1, <1>2 DEF Started, Prepared
<1>4. Claimed' = Claimed /\ a \in Claimed /\ Ready' = Ready \cup {a} /\ Ready \subseteq Claimed
  BY <1>1, <1>2 DEF Claimed, Ready
<1>5. slot[a] \in CpuId \ {0}
  BY <1>4, SlotInArray
<1>6. ApicId[a] \in Nat
  BY ApicIdsDiffer DEF Cpu
<1>7. SlotTypes'
  BY <1>1, <1>2, <1>6 DEF SInv, SlotTypes, Mode
<1>8. SlotsCounted'
  BY <1>1, <1>3, <1>4 DEF SInv, SlotsCounted
<1>9. IdsKept'
  <2>1. PERCPU_ARRAY'[slot[a]].apic_id = ApicId[a]
    BY <1>1, <1>2, <1>5
  <2>2. \A i \in CpuId \ {slot[a]} : PERCPU_ARRAY'[i] = PERCPU_ARRAY[i]
    BY <1>1, <1>2
  <2>3. PERCPU_ARRAY'[0].apic_id = ApicId[BSP]
    BY <2>2, <1>3, <1>5, ZeroInArray DEF SInv, IdsKept
  <2>4. \A b \in Ready' : PERCPU_ARRAY'[slot[b]].apic_id = ApicId[b]
    <3>1. ASSUME NEW b \in Ready, b # a
          PROVE  PERCPU_ARRAY'[slot[b]].apic_id = ApicId[b]
      <4>1. slot[b] # slot[a] /\ slot[b] \in CpuId
        BY <3>1, <1>4, SlotInArray DEF SInv, SlotsCounted
      <4> QED BY <4>1, <2>2, <3>1 DEF SInv, IdsKept
    <3> QED BY <3>1, <2>1, <1>4
  <2>5. \A i \in CpuId \ {0} : (\A b \in Ready' : slot[b] # i) => PERCPU_ARRAY'[i].apic_id = 0
    BY <2>2, <1>4 DEF SInv, IdsKept
  <2> QED BY <2>3, <2>4, <2>5, <1>1 DEF IdsKept
<1> QED BY <1>3, <1>7, <1>8, <1>9 DEF SInv

LEMMA SInvAp ==
  ASSUME SInv, NEW a \in AP, ApStep(a)
  PROVE  SInv'
<1>1. boot' = boot
  BY DEF ApStep, startVars
<1>2. CASE ClaimSlot(a)
  BY <1>1, <1>2, SInvClaim
<1>3. CASE MarkReady(a)
  BY <1>1, <1>3, SInvMark
<1>4. CASE EnterProtected(a) \/ EnterLong(a) \/ CountReady(a)
  <2>1. PICK from, to \in Mode :
          /\ mode[a] = from /\ mode' = [mode EXCEPT ![a] = to] /\ from # "firmware"
          /\ from \in {"claimed", "counting", "idle"} <=> to \in {"claimed", "counting", "idle"}
          /\ from \in {"counting", "idle"} <=> to \in {"counting", "idle"}
    BY <1>4 DEF EnterProtected, EnterLong, CountReady, Goto, Mode
  <2>2. UNCHANGED <<slot, slot_counter, PERCPU_ARRAY>>
    BY <1>4 DEF EnterProtected, EnterLong, CountReady
  <2>3. mode \in [AP -> Mode]
    BY DEF SInv, SlotTypes
  <2>4. Claimed' = Claimed /\ Ready' = Ready
    BY <2>1, <2>3 DEF Claimed, Ready
  <2>5. Started
    BY <2>1 DEF Started
  <2>6. SlotTypes'
    BY <2>1, <2>2, <2>3 DEF SInv, SlotTypes
  <2> QED BY <1>1, <2>2, <2>4, <2>5, <2>6, SInvFrame DEF SInv, Prepared
<1> QED BY <1>2, <1>3, <1>4 DEF ApStep

LEMMA SInvStep ==
  ASSUME SInv, [Next]_vars
  PROVE  SInv'
<1>1. CASE BspStep
  BY <1>1, SInvBsp
<1>2. CASE \E a \in AP : ApStep(a)
  BY <1>2, SInvAp
<1>3. CASE WorkStep \/ UNCHANGED vars
  <2>1. UNCHANGED <<boot, mode, slot, slot_counter, PERCPU_ARRAY>>
    BY <1>3 DEF WorkStep, vars, startVars, apVars
  <2>2. Claimed' = Claimed /\ Ready' = Ready /\ Started' = Started
    BY <2>1 DEF Claimed, Ready, Started
  <2> QED BY <2>1, <2>2, SInvFrame DEF SInv, SlotTypes, Prepared
<1> QED BY <1>1, <1>2, <1>3 DEF Next

(* Every processor that has come through the trampoline has a slot of its   *)
(* own, and its APIC id leads back to it (lock xadd, apic_id_to_cpu_id).    *)
THEOREM SlotsAreOwned == Spec => []SlotsOwned
<1>1. Init => SInv
  BY SInvInit
<1>2. SInv /\ [Next]_vars => SInv'
  BY SInvStep
<1>3. SInv => SlotsOwned
  BY SInvOwned
<1> QED BY <1>1, <1>2, <1>3, PTL DEF Spec

-----------------------------------------------------------------------------
(* The counts.  What a processor has loaded of AP_READY_COUNT leaves room   *)
(* for itself, and what the BSP has seen of it stays covered, because no    *)
(* processor ceases to be ready.                                            *)
CountTypes ==
  /\ mode \in [AP -> Mode]
  /\ AP_READY_COUNT \in Nat /\ seen \in Nat /\ CPU_COUNT \in Nat
  /\ loaded \in [AP -> Nat]

CountsCovered(n) ==
  /\ AP_READY_COUNT <= n /\ seen <= n /\ CPU_COUNT <= 1 + n
  /\ \A a \in AP : mode[a] = "counting" => loaded[a] + 1 <= n

CInv == SInv /\ CountTypes /\ CountsCovered(Cardinality(Ready))

LEMMA ReadyCounts ==
  /\ IsFiniteSet(Ready) /\ Cardinality(Ready) \in Nat
  /\ IsFiniteSet(Ready') /\ Cardinality(Ready') \in Nat
<1>1. Ready \in SUBSET AP /\ Ready' \in SUBSET AP
  BY DEF Ready
<1> QED BY <1>1, SetsFit

LEMMA CInvInit == Init => CInv
<1> SUFFICES ASSUME Init PROVE CInv
  OBVIOUS
<1>1. Cardinality(Ready) \in Nat
  BY ReadyCounts
<1>2. CountTypes
  BY DEF Init, CountTypes, Mode
<1>3. CountsCovered(Cardinality(Ready))
  BY <1>1 DEF Init, CountsCovered
<1> QED BY <1>2, <1>3, SInvInit DEF CInv

LEMMA CInvBsp ==
  ASSUME CInv, BspStep
  PROVE  CInv'
<1>1. SInv'
  BY SInvBsp DEF CInv
<1>2. UNCHANGED <<AP_READY_COUNT, loaded>>
  BY DEF BspStep, Prepare, FindProcessors, SendInit, SendSipi, WaitForAps, EndWait, apVars
<1>3. Cardinality(Ready) \in Nat
  BY ReadyCounts
<1>4. AP_READY_COUNT \in Nat /\ seen \in Nat /\ CPU_COUNT \in Nat
  BY DEF CInv, CountTypes
<1>5. AP_READY_COUNT <= Cardinality(Ready) /\ seen <= Cardinality(Ready) /\ CPU_COUNT <= 1 + Cardinality(Ready)
  BY DEF CInv, CountsCovered
<1>6. /\ seen' \in Nat /\ CPU_COUNT' \in Nat
      /\ seen' <= Cardinality(Ready) /\ CPU_COUNT' <= 1 + Cardinality(Ready)
  <2>1. CASE Prepare
    BY <2>1, <1>3, <1>4, <1>5 DEF Prepare
  <2>2. CASE FindProcessors \/ SendInit \/ SendSipi
    BY <2>2, <1>4, <1>5 DEF FindProcessors, SendInit, SendSipi
  <2>3. CASE WaitForAps
    BY <2>3, <1>4, <1>5 DEF WaitForAps
  <2>4. CASE EndWait
    <3>1. PICK count \in {seen, AP_READY_COUNT} :
            seen' = count /\ CPU_COUNT' = IF count >= cpu_count - 1 THEN CPU_COUNT ELSE 1 + count
      BY <2>4 DEF EndWait
    <3> QED BY <3>1, <1>3, <1>4, <1>5
  <2> QED BY <2>1, <2>2, <2>3, <2>4 DEF BspStep
<1>7. /\ Ready' = Ready /\ \A a \in AP : mode'[a] = "counting" => mode[a] = "counting"
  <2>1. CASE SendInit
    <3>1. \A a \in AP : mode[a] = "firmware"
      BY <2>1 DEF SendInit, CInv, SInv, Started
    <3> QED BY <2>1, <3>1 DEF SendInit, InitIpi, Ready
  <2>2. CASE SendSipi
    BY <2>2 DEF SendSipi, StartupIpi, Ready
  <2>3. CASE Prepare \/ FindProcessors \/ WaitForAps \/ EndWait
    <3>1. mode' = mode
      BY <2>3 DEF Prepare, FindProcessors, WaitForAps, EndWait, apVars
    <3> QED BY <3>1 DEF Ready
  <2> QED BY <2>1, <2>2, <2>3 DEF BspStep
<1>8. CountTypes'
  BY <1>1, <1>2, <1>6 DEF CInv, SInv, SlotTypes, CountTypes
<1>9. CountsCovered(Cardinality(Ready))'
  BY <1>2, <1>5, <1>6, <1>7 DEF CInv, CountsCovered
<1> QED BY <1>1, <1>8, <1>9 DEF CInv

LEMMA CInvAp ==
  ASSUME CInv, NEW a \in AP, ApStep(a)
  PROVE  CInv'
<1> DEFINE n == Cardinality(Ready)
<1>1. SInv'
  BY SInvAp DEF CInv
<1>2. n \in Nat /\ IsFiniteSet(Ready)
  BY ReadyCounts
<1>3. UNCHANGED <<seen, CPU_COUNT>>
  BY DEF ApStep, startVars
<1>4. mode \in [AP -> Mode] /\ loaded \in [AP -> Nat] /\ AP_READY_COUNT \in Nat /\ seen \in Nat /\ CPU_COUNT \in Nat
  BY DEF CInv, CountTypes
<1>5. /\ AP_READY_COUNT <= n /\ seen <= n /\ CPU_COUNT <= 1 + n
      /\ \A b \in AP : mode[b] = "counting" => loaded[b] + 1 <= n
  BY DEF CInv, CountsCovered
<1>6. mode' \in [AP -> Mode]
  BY <1>1 DEF SInv, SlotTypes
<1>7. CASE MarkReady(a)
  <2>1. /\ mode[a] = "claimed" /\ mode' = [mode EXCEPT ![a] = "counting"]
        /\ loaded' = [loaded EXCEPT ![a] = AP_READY_COUNT] /\ AP_READY_COUNT' = AP_READY_COUNT
    BY <1>7 DEF MarkReady, Goto
  <2>2. Ready' = Ready \cup {a} /\ a \notin Ready
    BY <2>1, <1>4 DEF Ready
  <2>3. Cardinality(Ready') = n + 1
    BY <2>2, <1>2, FS_AddElement
  <2>4. \A b \in AP : mode'[b] = "counting" => loaded'[b] + 1 <= n + 1
    BY <2>1, <1>2, <1>4, <1>5
  <2>5. AP_READY_COUNT' <= n + 1 /\ seen' <= n + 1 /\ CPU_COUNT' <= 1 + (n + 1)
    BY <2>1, <1>2, <1>3, <1>4, <1>5
  <2>6. CountTypes'
    BY <2>1, <1>3, <1>4, <1>6 DEF CountTypes
  <2> QED BY <1>1, <2>3, <2>4, <2>5, <2>6 DEF CInv, CountsCovered
<1>8. CASE CountReady(a)
  <2>1. /\ mode[a] = "counting" /\ mode' = [mode EXCEPT ![a] = "idle"]
        /\ AP_READY_COUNT' = loaded[a] + 1 /\ loaded' = loaded
    BY <1>8 DEF CountReady, Goto
  <2>2. Ready' = Ready
    BY <2>1, <1>4 DEF Ready
  <2>3. CountTypes'
    BY <2>1, <1>3, <1>4, <1>6 DEF CountTypes
  <2>4. \A b \in AP : mode'[b] = "counting" => loaded'[b] + 1 <= n
    BY <2>1, <1>4, <1>5
  <2> QED BY <1>1, <1>3, <1>5, <2>1, <2>2, <2>3, <2>4 DEF CInv, CountsCovered
<1>9. CASE EnterProtected(a) \/ EnterLong(a) \/ ClaimSlot(a)
  <2>1. UNCHANGED <<AP_READY_COUNT, loaded>>
    BY <1>9 DEF EnterProtected, EnterLong, ClaimSlot
  <2>2. PICK to \in {"protected", "lost", "long", "claimed"} :
          mode[a] \in {"real", "protected", "long"} /\ mode' = [mode EXCEPT ![a] = to]
    BY <1>9 DEF EnterProtected, EnterLong, ClaimSlot, Goto
  <2>3. Ready' = Ready /\ \A b \in AP : mode'[b] = "counting" => mode[b] = "counting"
    BY <2>2, <1>4 DEF Ready
  <2>4. CountTypes'
    BY <2>1, <1>3, <1>4, <1>6 DEF CountTypes
  <2> QED BY <1>1, <1>3, <1>5, <2>1, <2>3, <2>4 DEF CInv, CountsCovered
<1> QED BY <1>7, <1>8, <1>9 DEF ApStep

LEMMA CInvStep ==
  ASSUME CInv, [Next]_vars
  PROVE  CInv'
<1>1. CASE BspStep
  BY <1>1, CInvBsp
<1>2. CASE \E a \in AP : ApStep(a)
  BY <1>2, CInvAp
<1>3. CASE WorkStep \/ UNCHANGED vars
  <2>1. SInv'
    BY SInvStep DEF CInv
  <2>2. UNCHANGED <<mode, AP_READY_COUNT, seen, CPU_COUNT, loaded>>
    BY <1>3 DEF WorkStep, vars, startVars, apVars
  <2>3. Ready' = Ready
    BY <2>2 DEF Ready
  <2> QED BY <2>1, <2>2, <2>3 DEF CInv, CountTypes, CountsCovered
<1> QED BY <1>1, <1>2, <1>3 DEF Next

(* Lost increments of AP_READY_COUNT and late processors never make the     *)
(* counts of smp::init larger than the number of processors that are ready. *)
THEOREM CountsAreSound == Spec => []CountsSound
<1>1. Init => CInv
  BY CInvInit
<1>2. CInv /\ [Next]_vars => CInv'
  BY CInvStep
<1>3. CInv => CountsSound
  BY DEF CInv, CountsCovered, CountsSound
<1> QED BY <1>1, <1>2, <1>3, PTL DEF Spec

-----------------------------------------------------------------------------
(* The work queues.  Of one queue: h and t are its indices, sl its entries,  *)
(* pu what was accepted, ra what was called and m how often the head has     *)
(* moved.  Positions are taken modulo the size by one subtraction.           *)
W == WORK_QUEUE_SIZE
Wrap(x) == IF x < W THEN x ELSE x - W
IsSeq(s) == \E S : s \in Seq(S)

Ring(h, t, sl, pu, ra, m) ==
  /\ h \in 0 .. W - 1 /\ DOMAIN sl = 0 .. W - 1
  /\ IsSeq(pu) /\ IsSeq(ra)
  /\ m \in Nat /\ m <= Len(ra) /\ Len(ra) <= m + 1 /\ Len(ra) <= Len(pu) /\ Len(pu) - m <= W - 1
  /\ t = Wrap(h + (Len(pu) - m))
  /\ \A i \in 0 .. (Len(pu) - m) - 1 : sl[Wrap(h + i)] = pu[m + 1 + i]
  /\ \A i \in 1 .. Len(ra) : ra[i] = pu[i]

LEMMA SizeIs == W \in Nat /\ W > 1
  BY QueueHolds DEF W

LEMMA LenIs == \A s : IsSeq(s) => Len(s) \in Nat
  BY LenProperties DEF IsSeq

LEMMA AppendIs ==
  ASSUME NEW s, IsSeq(s), NEW x
  PROVE  /\ IsSeq(Append(s, x)) /\ Len(Append(s, x)) = Len(s) + 1 /\ Len(s) \in Nat
         /\ \A i \in 1 .. Len(s) : Append(s, x)[i] = s[i]
         /\ Append(s, x)[Len(s) + 1] = x
<1>1. PICK S : s \in Seq(S)
  BY DEF IsSeq
<1> DEFINE T == S \cup {x}
<1>2. s \in Seq(T) /\ x \in T
  BY <1>1, SeqMonotonic
<1> HIDE DEF T
<1>3. /\ Append(s, x) \in Seq(T) /\ Len(Append(s, x)) = Len(s) + 1 /\ Len(s) \in Nat
      /\ \A i \in 1 .. Len(s) : Append(s, x)[i] = s[i]
      /\ Append(s, x)[Len(s) + 1] = x
  BY <1>2, AppendProperties, LenProperties
<1> QED BY <1>3 DEF IsSeq

LEMMA NextPosition ==
  ASSUME NEW x \in 0 .. W - 1
  PROVE  (x + 1) % WORK_QUEUE_SIZE = Wrap(x + 1)
<1>1. CASE x = W - 1
  <2>1. x + 1 = W /\ W % W = 0
    BY <1>1, SizeIs
  <2> QED BY <2>1, SizeIs DEF Wrap, W
<1>2. CASE x # W - 1
  <2>1. x + 1 \in 0 .. W - 1 /\ (x + 1) % W = x + 1
    BY <1>2, SizeIs
  <2> QED BY <2>1, SizeIs DEF Wrap, W
<1> QED BY <1>1, <1>2

(* push_work stores an item, in an entry that nobody reads *)
LEMMA RingStore ==
  ASSUME NEW h, NEW t, NEW sl, NEW pu, NEW ra, NEW m, Ring(h, t, sl, pu, ra, m),
         Len(pu) - m <= W - 2, NEW x
  PROVE  Ring(h, t, [sl EXCEPT ![t] = x], pu, ra, m) /\ [sl EXCEPT ![t] = x][t] = x
<1> DEFINE n == Len(pu) - m
           s == [sl EXCEPT ![t] = x]
<1>1. /\ h \in 0 .. W - 1 /\ DOMAIN sl = 0 .. W - 1 /\ t = Wrap(h + n) /\ m \in Nat
      /\ Len(pu) \in Nat /\ Len(ra) \in Nat /\ m <= Len(ra) /\ Len(ra) <= Len(pu)
      /\ \A i \in 0 .. n - 1 : sl[Wrap(h + i)] = pu[m + 1 + i]
  BY LenIs DEF Ring
<1>2. n \in Nat /\ n <= W - 2
  BY <1>1
<1> HIDE DEF n
<1>3. t \in 0 .. W - 1
  BY <1>1, <1>2, SizeIs DEF Wrap
<1>4. s[t] = x /\ DOMAIN s = 0 .. W - 1 /\ \A j \in 0 .. W - 1 : j # t => s[j] = sl[j]
  BY <1>1, <1>3
<1> HIDE DEF s
<1>5. ASSUME NEW i \in 0 .. n - 1 PROVE s[Wrap(h + i)] = pu[m + 1 + i]
  <2>1. Wrap(h + i) \in 0 .. W - 1 /\ Wrap(h + i) # t
    BY <1>1, <1>2, SizeIs DEF Wrap
  <2> QED BY <1>1, <1>4, <2>1
<1>6. \A i \in 0 .. (Len(pu) - m) - 1 : s[Wrap(h + i)] = pu[m + 1 + i]
  BY <1>5 DEF n
<1> QED BY <1>4, <1>6 DEF Ring, s

(* push_work publishes it *)
LEMMA RingPublish ==
  ASSUME NEW h, NEW t, NEW sl, NEW pu, NEW ra, NEW m, Ring(h, t, sl, pu, ra, m),
         Len(pu) - m <= W - 2
  PROVE  Ring(h, (t + 1) % WORK_QUEUE_SIZE, sl, Append(pu, sl[t]), ra, m)
<1> DEFINE n == Len(pu) - m
           p == Append(pu, sl[t])
           len == Len(pu)
           rl == Len(ra)
<1>1. /\ h \in 0 .. W - 1 /\ DOMAIN sl = 0 .. W - 1 /\ t = Wrap(h + n) /\ m \in Nat
      /\ IsSeq(pu) /\ IsSeq(ra)
      /\ len \in Nat /\ rl \in Nat /\ m <= rl /\ rl <= m + 1 /\ rl <= len
      /\ \A i \in 0 .. n - 1 : sl[Wrap(h + i)] = pu[m + 1 + i]
      /\ \A i \in 1 .. rl : ra[i] = pu[i]
  BY LenIs DEF Ring
<1>2. n \in Nat /\ n <= W - 2
  BY <1>1
<1>3. t \in 0 .. W - 1
  <2> HIDE DEF n
  <2> QED BY <1>1, <1>2, SizeIs DEF Wrap
<1>4. (t + 1) % WORK_QUEUE_SIZE = Wrap(h + (n + 1))
  <2>1. (t + 1) % WORK_QUEUE_SIZE = Wrap(t + 1)
    BY <1>3, NextPosition
  <2> HIDE DEF n
  <2>2. Wrap(t + 1) = Wrap(h + (n + 1))
    BY <1>1, <1>2, SizeIs DEF Wrap
  <2> QED BY <2>1, <2>2
<1>5. IsSeq(p) /\ Len(p) = len + 1 /\ (\A i \in 1 .. len : p[i] = pu[i]) /\ p[len + 1] = sl[t]
  BY <1>1, AppendIs
<1> HIDE DEF p
<1>6. ASSUME NEW i \in 0 .. n PROVE sl[Wrap(h + i)] = p[m + 1 + i]
  <2>1. CASE i = n
    <3>1. m + 1 + i = len + 1
      BY <1>1, <2>1
    <3> QED BY <1>1, <1>5, <2>1, <3>1
  <2>2. CASE i # n
    <3>1. i \in 0 .. n - 1 /\ m + 1 + i \in 1 .. len
      BY <1>1, <1>2, <2>2
    <3> QED BY <1>1, <1>5, <3>1
  <2> QED BY <2>1, <2>2
<1>7. \A i \in 1 .. rl : ra[i] = p[i]
  BY <1>1, <1>5
<1>8. Len(p) - m = n + 1 /\ (n + 1) - 1 = n /\ n + 1 <= W - 1 /\ rl <= Len(p)
  BY <1>1, <1>2, <1>5, SizeIs
<1> HIDE DEF n, len, rl
<1>9. \A i \in 0 .. (Len(p) - m) - 1 : sl[Wrap(h + i)] = p[m + 1 + i]
  BY <1>6, <1>8
<1> QED BY <1>1, <1>4, <1>5, <1>7, <1>8, <1>9 DEF Ring, p, rl

(* process_work_queue calls the item at the head *)
LEMMA RingCall ==
  ASSUME NEW h, NEW t, NEW sl, NEW pu, NEW ra, Ring(h, t, sl, pu, ra, Len(ra)), h # t
  PROVE  Ring(h, t, sl, pu, Append(ra, sl[h]), Len(ra))
<1> DEFINE n == Len(pu) - Len(ra)
           r == Append(ra, sl[h])
           m == Len(ra)
<1>1. /\ h \in 0 .. W - 1 /\ t = Wrap(h + n) /\ IsSeq(ra)
      /\ Len(pu) \in Nat /\ m \in Nat /\ m <= Len(pu) /\ n <= W - 1
      /\ \A i \in 0 .. n - 1 : sl[Wrap(h + i)] = pu[m + 1 + i]
      /\ \A i \in 1 .. m : ra[i] = pu[i]
  BY LenIs DEF Ring
<1>2. n \in Nat /\ n # 0
  <2>1. n \in Nat
    BY <1>1
  <2> HIDE DEF n
  <2> QED BY <1>1, <2>1, SizeIs DEF Wrap
<1>3. sl[h] = pu[m + 1]
  <2>1. 0 \in 0 .. n - 1 /\ m + 1 + 0 = m + 1
    BY <1>1, <1>2
  <2>2. Wrap(h + 0) = h
    BY <1>1, SizeIs DEF Wrap
  <2>3. sl[Wrap(h + 0)] = pu[m + 1 + 0]
    BY <1>1, <2>1
  <2> HIDE DEF m
  <2> QED BY <2>1, <2>2, <2>3
<1>4. IsSeq(r) /\ Len(r) = m + 1 /\ (\A i \in 1 .. m : r[i] = ra[i]) /\ r[m + 1] = sl[h]
  BY <1>1, AppendIs
<1> HIDE DEF r
<1>5. ASSUME NEW i \in 1 .. m + 1 PROVE r[i] = pu[i]
  <2>1. CASE i = m + 1
    BY <1>3, <1>4, <2>1
  <2>2. CASE i # m + 1
    <3>1. i \in 1 .. m
      BY <1>1, <2>2
    <3> QED BY <1>1, <1>4, <3>1
  <2> QED BY <2>1, <2>2
<1>6. m <= Len(r) /\ Len(r) <= m + 1 /\ Len(r) <= Len(pu)
  BY <1>1, <1>2, <1>4
<1>7. \A i \in 1 .. Len(r) : r[i] = pu[i]
  BY <1>4, <1>5
<1> HIDE DEF m
<1> QED BY <1>4, <1>6, <1>7 DEF Ring, r, m

(* and moves the head past it *)
LEMMA RingMove ==
  ASSUME NEW h, NEW t, NEW sl, NEW pu, NEW ra, Ring(h, t, sl, pu, ra, Len(ra) - 1)
  PROVE  Ring((h + 1) % WORK_QUEUE_SIZE, t, sl, pu, ra, Len(ra))
<1> DEFINE n == Len(pu) - Len(ra)
           m == Len(ra) - 1
           g == Wrap(h + 1)
<1>1. /\ h \in 0 .. W - 1 /\ t = Wrap(h + (Len(pu) - m)) /\ IsSeq(ra) /\ IsSeq(pu) /\ DOMAIN sl = 0 .. W - 1
      /\ Len(pu) \in Nat /\ Len(ra) \in Nat /\ m \in Nat /\ Len(ra) <= Len(pu) /\ Len(pu) - m <= W - 1
      /\ \A i \in 0 .. (Len(pu) - m) - 1 : sl[Wrap(h + i)] = pu[m + 1 + i]
      /\ \A i \in 1 .. Len(ra) : ra[i] = pu[i]
  BY LenIs DEF Ring
<1>2. Len(pu) - m = n + 1 /\ n \in Nat /\ n <= W - 2 /\ m + 1 = Len(ra)
  BY <1>1, SizeIs
<1>3. (h + 1) % WORK_QUEUE_SIZE = g
  BY <1>1, NextPosition
<1> HIDE DEF n, m
<1>4. g \in 0 .. W - 1 /\ t = Wrap(g + n)
  <2>1. t = Wrap(h + (n + 1))
    BY <1>1, <1>2
  <2> QED BY <1>1, <1>2, <2>1, SizeIs DEF Wrap
<1>5. ASSUME NEW i \in 0 .. n - 1 PROVE sl[Wrap(g + i)] = pu[Len(ra) + 1 + i]
  <2>1. i + 1 \in 0 .. (n + 1) - 1 /\ i + 1 \in 0 .. (Len(pu) - m) - 1
    BY <1>2
  <2>2. sl[Wrap(h + (i + 1))] = pu[m + 1 + (i + 1)]
    BY <1>1, <2>1
  <2>3. m + 1 + (i + 1) = Len(ra) + 1 + i
    BY <1>1, <1>2
  <2>4. Wrap(h + (i + 1)) = Wrap(g + i)
    BY <1>1, <1>2, SizeIs DEF Wrap
  <2> QED BY <2>2, <2>3, <2>4
<1>6. \A i \in 0 .. (Len(pu) - Len(ra)) - 1 : sl[Wrap(g + i)] = pu[Len(ra) + 1 + i]
  BY <1>5 DEF n
<1>7. t = Wrap(g + (Len(pu) - Len(ra))) /\ Len(pu) - Len(ra) <= W - 1
  BY <1>2, <1>4, SizeIs DEF n
<1>8. Len(ra) <= Len(ra) /\ Len(ra) <= Len(ra) + 1
  BY <1>1
<1> HIDE DEF g
<1> QED BY <1>1, <1>3, <1>4, <1>6, <1>7, <1>8 DEF Ring

(* a ring that push_work does not find full has an entry to spare *)
LEMMA RingNotFull ==
  ASSUME NEW h, NEW t, NEW sl, NEW pu, NEW ra, NEW m, Ring(h, t, sl, pu, ra, m),
         (t + 1) % WORK_QUEUE_SIZE # h
  PROVE  Len(pu) - m <= W - 2 /\ t \in 0 .. W - 1
<1> DEFINE n == Len(pu) - m
<1>1. /\ h \in 0 .. W - 1 /\ t = Wrap(h + n) /\ n <= W - 1
      /\ m \in Nat /\ Len(pu) \in Nat /\ Len(ra) \in Nat /\ m <= Len(ra) /\ Len(ra) <= Len(pu)
  BY LenIs DEF Ring
<1>2. n \in Nat
  BY <1>1
<1> HIDE DEF n
<1>3. t \in 0 .. W - 1
  BY <1>1, <1>2, SizeIs DEF Wrap
<1>4. Wrap(t + 1) # h
  BY <1>3, NextPosition
<1>5. n <= W - 2
  BY <1>1, <1>2, <1>4, SizeIs DEF Wrap
<1> QED BY <1>3, <1>5 DEF n

-----------------------------------------------------------------------------
(* A queue has one consumer, the processor whose slot it is, and one        *)
(* producer, the BSP.                                                       *)
Owns(c) == IF c = BSP THEN 0 ELSE slot[c]
Calling(q) == \E c \in Cpu : drain[c].step = "called" /\ drain[c].cpu = q
Moved(q) == IF Calling(q) THEN Len(ran[q]) - 1 ELSE Len(ran[q])

BspSlot == cpu_count > 1 => PERCPU_ARRAY[0].apic_id = ApicId[BSP]

WorkTypes ==
  /\ DOMAIN queue = CpuId /\ DOMAIN head = CpuId /\ DOMAIN tail = CpuId
  /\ DOMAIN pushed = CpuId /\ DOMAIN ran = CpuId
  /\ drain \in [Cpu -> [step : {"none", "look", "called"}, cpu : CpuId, head : 0 .. W - 1]]
  /\ push \in [step : {"none", "store", "publish"}, cpu : CpuId, tail : 0 .. W - 1, arg : {push.arg}]

Drains(c) ==
  /\ drain[c].step # "none" => drain[c].cpu = Owns(c) /\ (c # BSP => mode[c] = "idle")
  /\ drain[c].step = "called" => drain[c].head = head[drain[c].cpu]

RingKept(q) == Ring(head[q], tail[q], queue[q], pushed[q], ran[q], Moved(q))

Pushes ==
  push.step # "none" =>
    /\ push.tail = tail[push.cpu]
    /\ Len(pushed[push.cpu]) - Moved(push.cpu) <= W - 2
    /\ push.step = "publish" => queue[push.cpu][push.tail] = push.arg

WInv == /\ SInv /\ BspSlot /\ WorkTypes
        /\ \A c \in Cpu : Drains(c)
        /\ \A q \in CpuId : RingKept(q)
        /\ Pushes

LEMMA OneDrainer ==
  ASSUME WInv, NEW c \in Cpu, NEW d \in Cpu,
         drain[c].step # "none", drain[d].step # "none", drain[c].cpu = drain[d].cpu
  PROVE  c = d
<1>1. Drains(c) /\ Drains(d)
  BY DEF WInv
<1>2. Owns(c) = Owns(d) /\ (c # BSP => mode[c] = "idle") /\ (d # BSP => mode[d] = "idle")
  BY <1>1 DEF Drains
<1>3. (c # BSP => c \in Claimed) /\ (d # BSP => d \in Claimed)
  BY <1>2 DEF Cpu, Claimed
<1>4. \A a, b \in Claimed : slot[a] # 0 /\ (slot[a] = slot[b] => a = b)
  BY DEF WInv, SInv, SlotsCounted
<1> QED BY <1>2, <1>3, <1>4 DEF Owns

LEMMA WInvInit == Init => WInv
<1> SUFFICES ASSUME Init PROVE WInv
  OBVIOUS
<1>1. SInv
  BY SInvInit
<1>2. 0 \in CpuId /\ 0 \in 0 .. W - 1
  BY ZeroInArray, SizeIs
<1>3. BspSlot
  BY DEF Init, BspSlot
<1>4. WorkTypes
  BY <1>2 DEF Init, WorkTypes, NoDrain, NoPush
<1>5. \A c \in Cpu : drain[c].step = "none"
  BY DEF Init, NoDrain
<1>6. \A c \in Cpu : Drains(c)
  BY <1>5 DEF Drains
<1>7. ASSUME NEW q \in CpuId PROVE RingKept(q)
  <2>1. /\ head[q] = 0 /\ tail[q] = 0 /\ pushed[q] = <<>> /\ ran[q] = <<>>
        /\ queue[q] = [j \in 0 .. W - 1 |-> 0]
    BY DEF Init, W
  <2>2. Len(<<>>) = 0 /\ IsSeq(<<>>)
    BY EmptySeq DEF IsSeq
  <2>3. Moved(q) = 0
    BY <1>5, <2>1, <2>2 DEF Moved, Calling
  <2>4. Wrap(0 + (0 - 0)) = 0 /\ 0 - 0 <= W - 1 /\ 0 <= 0 + 1
    BY SizeIs DEF Wrap
  <2>5. Ring(0, 0, [j \in 0 .. W - 1 |-> 0], <<>>, <<>>, 0)
    BY <1>2, <2>2, <2>4 DEF Ring
  <2> QED BY <2>1, <2>3, <2>5 DEF RingKept
<1>8. Pushes
  BY DEF Init, NoPush, Pushes
<1> QED BY <1>1, <1>3, <1>4, <1>6, <1>7, <1>8 DEF WInv

(* Start-up leaves the queues alone and the owner of a queue that drains it *)
LEMMA WInvStart ==
  ASSUME WInv, BspStep \/ \E a \in AP : ApStep(a)
  PROVE  WInv'
<1>1. SInv /\ SInv'
  BY SInvStep DEF WInv, Next
<1>2. UNCHANGED <<queue, head, tail, push, drain, pushed, ran>>
  BY DEF BspStep, Prepare, FindProcessors, SendInit, SendSipi, WaitForAps, EndWait, ApStep, workVars
<1>3. BspSlot'
  <2>1. CASE Prepare
    <3>1. PICK threads \in 1 .. Cardinality(Cpu) :
            /\ cpu_count' = threads
            /\ IF threads <= 1 THEN TRUE
               ELSE PERCPU_ARRAY' = [i \in CpuId |-> [apic_id |-> IF i = 0 THEN ApicId[BSP] ELSE 0,
                                                      ap_ready |-> i = 0]]
      BY <2>1 DEF Prepare
    <3> QED BY <3>1, ZeroInArray DEF BspSlot
  <2>2. CASE FindProcessors \/ SendInit \/ SendSipi \/ WaitForAps \/ EndWait
    <3>1. UNCHANGED <<cpu_count, PERCPU_ARRAY>>
      BY <2>2 DEF FindProcessors, SendInit, SendSipi, WaitForAps, EndWait, apVars
    <3> QED BY <3>1 DEF WInv, BspSlot
  <2>3. ASSUME NEW a \in AP, ApStep(a) PROVE BspSlot'
    <3>1. cpu_count' = cpu_count
      BY <2>3 DEF ApStep, startVars
    <3>2. CASE MarkReady(a)
      <4>1. mode[a] = "claimed"
            /\ PERCPU_ARRAY' = [PERCPU_ARRAY EXCEPT ![slot[a]] = [apic_id |-> ApicId[a], ap_ready |-> TRUE]]
        BY <3>2 DEF MarkReady, Goto
      <4>2. slot[a] # 0
        BY <1>1, <4>1 DEF SInv, SlotsCounted, Claimed
      <4>3. PERCPU_ARRAY'[0] = PERCPU_ARRAY[0]
        BY <4>1, <4>2, <1>1, ZeroInArray DEF SInv, SlotTypes
      <4> QED BY <3>1, <4>3 DEF WInv, BspSlot
    <3>3. CASE EnterProtected(a) \/ EnterLong(a) \/ ClaimSlot(a) \/ CountReady(a)
      <4>1. PERCPU_ARRAY' = PERCPU_ARRAY
        BY <3>3 DEF EnterProtected, EnterLong, ClaimSlot, CountReady
      <4> QED BY <3>1, <4>1 DEF WInv, BspSlot
    <3> QED BY <2>3, <3>2, <3>3 DEF ApStep
  <2> QED BY <2>1, <2>2, <2>3 DEF BspStep
<1>4. ASSUME NEW c \in AP, mode[c] = "idle" PROVE mode'[c] = "idle" /\ slot'[c] = slot[c]
  <2>1. Started /\ boot \notin {"detect", "acpi", "init"}
    BY <1>1, <1>4 DEF SInv, Started
  <2>2. CASE BspStep
    <3>1. slot' = slot /\ (mode' = mode \/ SendSipi)
      BY <2>1, <2>2 DEF BspStep, Prepare, FindProcessors, SendInit, SendSipi, WaitForAps, EndWait, apVars
    <3>2. CASE SendSipi
      BY <1>4, <3>1, <3>2 DEF SendSipi, StartupIpi
    <3> QED BY <1>4, <3>1, <3>2
  <2>3. ASSUME NEW a \in AP, ApStep(a) PROVE mode'[c] = "idle" /\ slot'[c] = slot[c]
    <3>1. mode[a] # "idle" /\ \E to : mode' = [mode EXCEPT ![a] = to]
      BY <2>3 DEF ApStep, EnterProtected, EnterLong, ClaimSlot, MarkReady, CountReady, Goto
    <3>2. slot' = slot \/ slot' = [slot EXCEPT ![a] = slot_counter]
      BY <2>3 DEF ApStep, EnterProtected, EnterLong, ClaimSlot, MarkReady, CountReady
    <3>3. c # a /\ mode \in [AP -> Mode] /\ slot \in [AP -> Nat]
      BY <1>1, <1>4, <3>1 DEF SInv, SlotTypes
    <3> QED BY <1>4, <3>1, <3>2, <3>3
  <2> QED BY <2>2, <2>3
<1>5. WorkTypes'
  BY <1>2 DEF WInv, WorkTypes
<1>6. ASSUME NEW c \in Cpu PROVE Drains(c)'
  <2>1. Drains(c)
    BY DEF WInv
  <2>2. drain[c].step # "none" => Owns(c)' = Owns(c) /\ (c # BSP => mode'[c] = "idle")
    BY <1>4, <2>1 DEF Drains, Owns, Cpu
  <2> QED BY <1>2, <2>1, <2>2 DEF Drains
<1>7. ASSUME NEW q \in CpuId PROVE RingKept(q)' /\ Moved(q)' = Moved(q)
  <2>1. Moved(q)' = Moved(q)
    BY <1>2 DEF Moved, Calling
  <2> QED BY <1>2, <2>1 DEF WInv, RingKept
<1>8. Pushes'
  <2>1. push.cpu \in CpuId
    BY DEF WInv, WorkTypes
  <2>2. Moved(push.cpu)' = Moved(push.cpu)
    BY <1>2 DEF Moved, Calling
  <2> QED BY <1>2, <2>2 DEF WInv, Pushes
<1> QED BY <1>1, <1>3, <1>5, <1>6, <1>7, <1>8 DEF WInv

-----------------------------------------------------------------------------
(* What a step of the queues must show *)
LEMMA WInvWork ==
  ASSUME WInv, UNCHANGED <<startVars, apVars>>, WorkTypes', \A c \in Cpu : Drains(c)',
         \A q \in CpuId : RingKept(q)', Pushes'
  PROVE  WInv'
<1>1. UNCHANGED <<boot, cpu_count, mode, slot, slot_counter, PERCPU_ARRAY>>
  BY DEF startVars, apVars
<1>2. Claimed' = Claimed /\ Ready' = Ready /\ Started' = Started
  BY <1>1 DEF Claimed, Ready, Started
<1>3. SInv'
  BY <1>1, <1>2, SInvFrame DEF WInv, SInv, SlotTypes, Prepared
<1>4. BspSlot'
  BY <1>1 DEF WInv, BspSlot
<1> QED BY <1>3, <1>4 DEF WInv

(* The producer changes neither what is called nor what is drained *)
LEMMA WInvPushes ==
  ASSUME WInv, UNCHANGED <<startVars, apVars>>, UNCHANGED <<head, drain, ran>>
  PROVE  /\ \A c \in Cpu : Drains(c)'
         /\ \A q : Moved(q)' = Moved(q)
<1>1. mode' = mode /\ slot' = slot
  BY DEF apVars
<1>2. ASSUME NEW c \in Cpu PROVE Drains(c)'
  <2>1. Drains(c) /\ Owns(c)' = Owns(c)
    BY <1>1 DEF WInv, Owns
  <2> QED BY <1>1, <2>1 DEF Drains
<1>3. ASSUME NEW q PROVE Moved(q)' = Moved(q)
  BY DEF Moved, Calling
<1> QED BY <1>2, <1>3

LEMMA WInvPushWork ==
  ASSUME WInv, NEW c \in CpuId, PushWork(c), UNCHANGED <<startVars, apVars>>
  PROVE  WInv'
<1>1. /\ (tail[c] + 1) % WORK_QUEUE_SIZE # head[c]
      /\ push' = [step |-> "store", cpu |-> c, tail |-> tail[c], arg |-> Accepted + 1]
      /\ UNCHANGED <<queue, head, tail, drain, pushed, ran>>
  BY DEF PushWork
<1>2. (\A d \in Cpu : Drains(d)') /\ \A q : Moved(q)' = Moved(q)
  BY <1>1, WInvPushes
<1>3. \A q \in CpuId : RingKept(q)'
  BY <1>1, <1>2 DEF WInv, RingKept
<1>4. Len(pushed[c]) - Moved(c) <= W - 2 /\ tail[c] \in 0 .. W - 1
  <2>1. Ring(head[c], tail[c], queue[c], pushed[c], ran[c], Moved(c))
    BY DEF WInv, RingKept
  <2> QED BY <1>1, <2>1, RingNotFull
<1>5. WorkTypes'
  BY <1>1, <1>4 DEF WInv, WorkTypes
<1>6. Moved(c)' = Moved(c)
  BY <1>2
<1>7. Pushes'
  <2>1. push'.cpu = c /\ push'.tail = tail[c] /\ push'.step = "store"
    BY <1>1
  <2>2. Moved(push.cpu)' = Moved(c)
    BY <1>1, <2>1 DEF Moved, Calling
  <2> QED BY <1>1, <1>4, <2>1, <2>2 DEF Pushes
<1> QED BY <1>2, <1>3, <1>5, <1>7, WInvWork

LEMMA WInvStore ==
  ASSUME WInv, StoreItem, UNCHANGED <<startVars, apVars>>
  PROVE  WInv'
<1> DEFINE p == push.cpu
           t == push.tail
           x == push.arg
<1>1. /\ push.step = "store"
      /\ queue' = [queue EXCEPT ![p] = [queue[p] EXCEPT ![t] = x]]
      /\ push' = [push EXCEPT !.step = "publish"]
      /\ UNCHANGED <<head, tail, drain, pushed, ran>>
  BY DEF StoreItem
<1>2. (\A d \in Cpu : Drains(d)') /\ \A q : Moved(q)' = Moved(q)
  BY <1>1, WInvPushes
<1>3. /\ push \in [step : {"none", "store", "publish"}, cpu : CpuId, tail : 0 .. W - 1, arg : {x}]
      /\ p \in CpuId /\ DOMAIN queue = CpuId
  BY DEF WInv, WorkTypes
<1>4. t = tail[p] /\ Len(pushed[p]) - Moved(p) <= W - 2
  BY <1>1 DEF WInv, Pushes
<1>5. push'.cpu = p /\ push'.tail = t /\ push'.arg = x /\ push'.step = "publish"
  BY <1>1, <1>3
<1>6. WorkTypes'
  <2>1. push' \in [step : {"none", "store", "publish"}, cpu : CpuId, tail : 0 .. W - 1, arg : {x}]
    BY <1>1, <1>3
  <2>2. DOMAIN queue' = CpuId
    BY <1>1, <1>3
  <2> QED BY <1>1, <1>5, <2>1, <2>2 DEF WInv, WorkTypes
<1>7. /\ Ring(head[p], tail[p], [queue[p] EXCEPT ![tail[p]] = x], pushed[p], ran[p], Moved(p))
      /\ [queue[p] EXCEPT ![tail[p]] = x][tail[p]] = x
  <2>1. Ring(head[p], tail[p], queue[p], pushed[p], ran[p], Moved(p))
    BY <1>3 DEF WInv, RingKept
  <2>2. t = tail[p] /\ Len(pushed[p]) - Moved(p) <= W - 2
    BY <1>4
  <2> HIDE DEF p, x, t
  <2> QED BY <2>1, <2>2, RingStore, Zenon
<1>8. queue'[p] = [queue[p] EXCEPT ![tail[p]] = x] /\ \A q \in CpuId : q # p => queue'[q] = queue[q]
  BY <1>1, <1>3, <1>4
<1> HIDE DEF p, t, x
<1>9. ASSUME NEW q \in CpuId PROVE RingKept(q)'
  <2>1. Moved(q)' = Moved(q)
    BY <1>2
  <2>2. CASE q = p
    BY <1>1, <1>7, <1>8, <2>1, <2>2 DEF RingKept
  <2>3. CASE q # p
    BY <1>1, <1>8, <2>1, <2>3 DEF WInv, RingKept
  <2> QED BY <2>2, <2>3
<1>10. Pushes'
  <2>1. Moved(push.cpu)' = Moved(p)
    BY <1>1, <1>5 DEF Moved, Calling
  <2> QED BY <1>1, <1>4, <1>5, <1>7, <1>8, <2>1 DEF Pushes
<1> QED BY <1>2, <1>6, <1>9, <1>10, WInvWork

LEMMA WInvPublish ==
  ASSUME WInv, PublishTail, UNCHANGED <<startVars, apVars>>
  PROVE  WInv'
<1> DEFINE p == push.cpu
           x == push.arg
<1>1. /\ push.step = "publish"
      /\ tail' = [tail EXCEPT ![p] = (push.tail + 1) % WORK_QUEUE_SIZE]
      /\ pushed' = [pushed EXCEPT ![p] = Append(pushed[p], x)]
      /\ push' = NoPush
      /\ UNCHANGED <<queue, head, drain, ran>>
  BY DEF PublishTail
<1>2. (\A d \in Cpu : Drains(d)') /\ \A q : Moved(q)' = Moved(q)
  BY <1>1, WInvPushes
<1>3. p \in CpuId /\ DOMAIN tail = CpuId /\ DOMAIN pushed = CpuId
  BY DEF WInv, WorkTypes
<1>4. push.tail = tail[p] /\ Len(pushed[p]) - Moved(p) <= W - 2 /\ queue[p][tail[p]] = x
  BY <1>1 DEF WInv, Pushes
<1>5. 0 \in CpuId /\ 0 \in 0 .. W - 1
  BY ZeroInArray, SizeIs
<1>6. push'.step = "none" /\ NoPush \in [step : {"none", "store", "publish"}, cpu : CpuId, tail : 0 .. W - 1, arg : {NoPush.arg}]
  BY <1>1, <1>5 DEF NoPush
<1>7. WorkTypes'
  BY <1>1, <1>3, <1>6 DEF WInv, WorkTypes
<1>8. Pushes'
  BY <1>6 DEF Pushes
<1>9. Ring(head[p], (tail[p] + 1) % WORK_QUEUE_SIZE, queue[p], Append(pushed[p], queue[p][tail[p]]), ran[p], Moved(p))
  <2>1. Ring(head[p], tail[p], queue[p], pushed[p], ran[p], Moved(p))
    BY <1>3 DEF WInv, RingKept
  <2> HIDE DEF p
  <2> QED BY <1>4, <2>1, RingPublish
<1>10. /\ tail'[p] = (tail[p] + 1) % WORK_QUEUE_SIZE /\ pushed'[p] = Append(pushed[p], x)
       /\ \A q \in CpuId : q # p => tail'[q] = tail[q] /\ pushed'[q] = pushed[q]
  BY <1>1, <1>3, <1>4
<1> HIDE DEF p, x
<1>11. ASSUME NEW q \in CpuId PROVE RingKept(q)'
  <2>1. Moved(q)' = Moved(q)
    BY <1>2
  <2>2. CASE q = p
    BY <1>1, <1>4, <1>9, <1>10, <2>1, <2>2 DEF RingKept
  <2>3. CASE q # p
    BY <1>1, <1>10, <2>1, <2>3 DEF WInv, RingKept
  <2> QED BY <2>2, <2>3
<1> QED BY <1>2, <1>7, <1>8, <1>11, WInvWork

(* The consumer c of queue p: what changes for the other queues is nothing,  *)
(* and what it moves only makes room.                                        *)
LEMMA WInvDrains ==
  ASSUME WInv, UNCHANGED <<startVars, apVars>>, UNCHANGED <<queue, tail, push, pushed>>,
         NEW c \in Cpu, NEW d \in [step : {"none", "look", "called"}, cpu : CpuId, head : 0 .. W - 1],
         drain' = [drain EXCEPT ![c] = d],
         NEW p \in CpuId, DOMAIN head' = CpuId, DOMAIN ran' = CpuId,
         \A q \in CpuId : q # p => head'[q] = head[q] /\ ran'[q] = ran[q],
         drain[c].step # "none" => drain[c].cpu = p,
         d.step # "none" => d.cpu = p /\ d.cpu = Owns(c) /\ (c # BSP => mode[c] = "idle"),
         d.step = "called" => d.head = head'[p],
         drain[c].step = "none" => head' = head,
         RingKept(p)', Moved(p) \in Nat, Moved(p)' \in Nat, Moved(p) <= Moved(p)'
  PROVE  WInv'
<1>1. mode' = mode /\ slot' = slot
  BY DEF apVars
<1>2. drain \in [Cpu -> [step : {"none", "look", "called"}, cpu : CpuId, head : 0 .. W - 1]]
  BY DEF WInv, WorkTypes
<1>3. drain'[c] = d /\ \A e \in Cpu : e # c => drain'[e] = drain[e]
  BY <1>2
<1>4. drain' \in [Cpu -> [step : {"none", "look", "called"}, cpu : CpuId, head : 0 .. W - 1]]
  BY <1>2
<1>5. WorkTypes'
  BY <1>4 DEF WInv, WorkTypes
<1>6. ASSUME NEW e \in Cpu PROVE Drains(e)'
  <2>1. Owns(e)' = Owns(e)
    BY <1>1 DEF Owns
  <2>2. CASE e = c
    BY <1>1, <1>3, <2>1, <2>2 DEF Drains
  <2>3. CASE e # c
    <3>1. Drains(e) /\ drain'[e] = drain[e] /\ drain[e].cpu \in CpuId
      BY <1>2, <1>3, <2>3 DEF WInv
    <3>2. drain[e].step = "called" => head'[drain[e].cpu] = head[drain[e].cpu]
      <4>1. CASE drain[c].step = "none"
        BY <4>1
      <4>2. CASE drain[c].step # "none" /\ drain[e].step = "called"
        <5>1. drain[e].cpu # p
          BY <4>2, <2>3, OneDrainer
        <5> QED BY <5>1, <3>1
      <4> QED BY <4>1, <4>2
    <3> QED BY <1>1, <2>1, <3>1, <3>2 DEF Drains
  <2> QED BY <2>2, <2>3
<1>7. ASSUME NEW q \in CpuId, q # p PROVE Moved(q)' = Moved(q)
  <2>1. Calling(q)' <=> Calling(q)
    BY <1>3, <1>7 DEF Calling
  <2> QED BY <1>7, <2>1 DEF Moved
<1>8. ASSUME NEW q \in CpuId PROVE RingKept(q)'
  BY <1>7 DEF WInv, RingKept
<1>9. Pushes'
  <2> DEFINE s == push.cpu
  <2>1. s \in CpuId /\ Moved(push.cpu)' = Moved(s)'
    BY DEF WInv, WorkTypes, Moved, Calling
  <2>2. CASE push.step # "none"
    <3>1. /\ push.tail = tail[s] /\ Len(pushed[s]) - Moved(s) <= W - 2
          /\ push.step = "publish" => queue[s][push.tail] = push.arg
      BY <2>2 DEF WInv, Pushes
    <3>2. Len(pushed[s]) \in Nat
      BY <2>1, LenIs DEF WInv, RingKept, Ring
    <3>3. Len(pushed[s]) - Moved(s)' <= W - 2
      <4>1. CASE s = p
        <5>1. Moved(s) = Moved(p) /\ Moved(s)' = Moved(p)'
          BY <4>1 DEF Moved, Calling
        <5> QED BY <3>1, <3>2, <5>1, SizeIs
      <4>2. CASE s # p
        BY <1>7, <2>1, <3>1, <4>2
      <4> QED BY <4>1, <4>2
    <3> QED BY <2>1, <3>1, <3>3 DEF Pushes
  <2> QED BY <2>2 DEF Pushes
<1> QED BY <1>5, <1>6, <1>8, <1>9, WInvWork

(* The BSP's APIC id leads to slot 0, the first *)
LEMMA BspOwnsZero ==
  ASSUME WInv, cpu_count > 1
  PROVE  ApicIdToCpuId(ApicId[BSP]) = 0
<1> DEFINE found == {i \in CpuId : PERCPU_ARRAY[i].apic_id = ApicId[BSP]}
<1>1. 0 \in found
  BY ZeroInArray DEF WInv, BspSlot
<1>2. \A i \in found : i \in Nat
  BY CpusFit DEF CpuId
<1> HIDE DEF found
<1>3. (CHOOSE i \in found : \A j \in found : i <= j) = 0
  BY <1>1, <1>2
<1> QED BY <1>1, <1>3 DEF ApicIdToCpuId, found

(* The queue of a processor, and how far its head is *)
LEMMA RingFacts ==
  ASSUME WInv, NEW q \in CpuId
  PROVE  /\ Ring(head[q], tail[q], queue[q], pushed[q], ran[q], Moved(q))
         /\ Moved(q) \in Nat /\ Len(ran[q]) \in Nat /\ head[q] \in 0 .. W - 1
  BY LenIs DEF WInv, RingKept, Ring

LEMMA WInvWake ==
  ASSUME WInv, NEW c \in Cpu, Wake(c), UNCHANGED <<startVars, apVars>>
  PROVE  WInv'
<1> DEFINE d == [step |-> "look", cpu |-> Owns(c), head |-> 0]
<1>1. drain[c] = NoDrain /\ UNCHANGED <<queue, head, tail, push, pushed, ran>>
  BY DEF Wake
<1>2. drain' = [drain EXCEPT ![c] = d] /\ (c # BSP => c \in AP /\ mode[c] = "idle")
  <2>1. CASE c \in AP /\ mode[c] = "idle" /\ drain' = [drain EXCEPT ![c] = [step |-> "look", cpu |-> slot[c], head |-> 0]]
    <3>1. c # BSP
      BY <2>1, CpusFit
    <3> QED BY <2>1, <3>1 DEF Owns
  <2>2. CASE c = BSP /\ cpu_count > 1
             /\ drain' = [drain EXCEPT ![c] = [step |-> "look", cpu |-> ApicIdToCpuId(ApicId[c]), head |-> 0]]
    BY <2>2, BspOwnsZero DEF Owns
  <2> QED BY <2>1, <2>2 DEF Wake
<1>3. Owns(c) \in CpuId
  <2>1. CASE c = BSP
    BY <2>1, ZeroInArray DEF Owns
  <2>2. CASE c # BSP
    <3>1. c \in Claimed
      BY <1>2, <2>2 DEF Claimed
    <3> QED BY <2>2, <3>1, SlotInArray DEF WInv, Owns
  <2> QED BY <2>1, <2>2
<1>4. d \in [step : {"none", "look", "called"}, cpu : CpuId, head : 0 .. W - 1]
  BY <1>3, SizeIs
<1>5. d.step = "look" /\ d.cpu = Owns(c) /\ drain[c].step = "none"
  BY <1>1 DEF NoDrain
<1> HIDE DEF d
<1>6. DOMAIN head' = CpuId /\ DOMAIN ran' = CpuId
      /\ drain \in [Cpu -> [step : {"none", "look", "called"}, cpu : CpuId, head : 0 .. W - 1]]
  BY <1>1 DEF WInv, WorkTypes
<1>7. Moved(Owns(c))' = Moved(Owns(c)) /\ Moved(Owns(c)) \in Nat /\ RingKept(Owns(c))'
  <2>1. PICK q : q = Owns(c)
    OBVIOUS
  <2>2. q \in CpuId /\ Owns(c)' = q
    BY <1>3, <2>1 DEF Owns, apVars
  <2>3. drain'[c] = d /\ \A e \in Cpu : e # c => drain'[e] = drain[e]
    BY <1>2, <1>6
  <2>4. \A e \in Cpu : (drain'[e].step = "called" /\ drain'[e].cpu = q)
                       <=> (drain[e].step = "called" /\ drain[e].cpu = q)
    BY <1>5, <2>3
  <2>5. Calling(q)' <=> Calling(q)
    BY <2>4, Zenon DEF Calling
  <2>6. Moved(q)' = Moved(q)
    BY <1>1, <2>5, Zenon DEF Moved
  <2>7. RingKept(q)'
    BY <1>1, <2>2, <2>6 DEF WInv, RingKept
  <2>8. Moved(q) \in Nat
    BY <2>2, RingFacts
  <2>9. Moved(Owns(c))' = Moved(q)' /\ Moved(Owns(c)) = Moved(q)
    BY <2>1, <2>2 DEF Moved, Calling
  <2>10. RingKept(Owns(c))'
    BY <2>2, <2>7, <2>9 DEF RingKept
  <2> QED BY <2>6, <2>8, <2>9, <2>10
<1> DEFINE p == Owns(c)
<1>8. p \in CpuId /\ Owns(c)' = p /\ Moved(p)' = Moved(p) /\ Moved(p) <= Moved(p)' /\ Moved(p) \in Nat /\ RingKept(p)'
  BY <1>3, <1>7 DEF Owns, apVars
<1> QED BY <1>1, <1>2, <1>4, <1>5, <1>6, <1>8, WInvDrains

LEMMA WInvCall ==
  ASSUME WInv, NEW c \in Cpu, CallItem(c), UNCHANGED <<startVars, apVars>>
  PROVE  WInv'
<1> DEFINE p == drain[c].cpu
<1>1. drain[c].step = "look" /\ UNCHANGED <<queue, head, tail, push, pushed>>
  BY DEF CallItem
<1>2. /\ drain \in [Cpu -> [step : {"none", "look", "called"}, cpu : CpuId, head : 0 .. W - 1]]
      /\ p \in CpuId /\ DOMAIN head = CpuId /\ DOMAIN ran = CpuId
  BY DEF WInv, WorkTypes
<1>3. p = Owns(c) /\ (c # BSP => mode[c] = "idle")
  BY <1>1 DEF WInv, Drains
<1>4. ~Calling(p)
  BY <1>1, OneDrainer DEF Calling
<1>5. Moved(p) = Len(ran[p]) /\ Moved(p) \in Nat /\ head[p] \in 0 .. W - 1
      /\ Ring(head[p], tail[p], queue[p], pushed[p], ran[p], Len(ran[p]))
  BY <1>2, <1>4, RingFacts DEF Moved
<1>6. CASE head[p] = tail[p]
  <2>1. drain' = [drain EXCEPT ![c] = NoDrain] /\ ran' = ran
    BY <1>6 DEF CallItem
  <2>2. NoDrain \in [step : {"none", "look", "called"}, cpu : CpuId, head : 0 .. W - 1] /\ NoDrain.step = "none"
    BY ZeroInArray, SizeIs DEF NoDrain
  <2>3. drain'[c] = NoDrain /\ \A e \in Cpu : e # c => drain'[e] = drain[e]
    BY <1>2, <2>1
  <2> HIDE DEF p
  <2>4. ~(\E e \in Cpu : drain'[e].step = "called" /\ drain'[e].cpu = p)
    BY <1>4, <2>2, <2>3 DEF Calling
  <2> DEFINE q == p
  <2>5. PICK k \in CpuId : k = p
    BY <1>2
  <2>6. Moved(k)' = Moved(k) /\ Moved(k) \in Nat /\ Moved(k) <= Moved(k)' /\ RingKept(k)'
    BY <1>1, <1>4, <1>5, <2>1, <2>4, <2>5 DEF Moved, Calling, RingKept
  <2>7. drain[c].cpu = k
    BY <2>5 DEF p
  <2> QED BY <1>1, <1>2, <2>1, <2>2, <2>6, <2>7, WInvDrains
<1>7. CASE head[p] # tail[p]
  <2> DEFINE d == [drain[c] EXCEPT !.step = "called", !.head = head[p]]
             r == Append(ran[p], queue[p][head[p]])
  <2>1. drain' = [drain EXCEPT ![c] = d] /\ ran' = [ran EXCEPT ![p] = r]
    BY <1>7 DEF CallItem
  <2>2. d \in [step : {"none", "look", "called"}, cpu : CpuId, head : 0 .. W - 1]
        /\ d.step = "called" /\ d.cpu = p /\ d.head = head[p]
    BY <1>2, <1>5
  <2> HIDE DEF d
  <2>3. drain'[c] = d /\ \A e \in Cpu : e # c => drain'[e] = drain[e]
    BY <1>2, <2>1
  <2>4. ran'[p] = r /\ DOMAIN ran' = CpuId /\ \A q \in CpuId : q # p => ran'[q] = ran[q]
    BY <1>2, <2>1
  <2>5. Ring(head[p], tail[p], queue[p], pushed[p], r, Len(ran[p]))
    <3> HIDE DEF p
    <3> QED BY <1>5, <1>7, RingCall
  <2>6. Len(r) = Len(ran[p]) + 1
    <3>1. IsSeq(ran[p])
      BY <1>5 DEF Ring
    <3> HIDE DEF p
    <3> QED BY <3>1, AppendIs
  <2>7. PICK k \in CpuId : k = p
    BY <1>2
  <2> HIDE DEF r
  <2>8. Calling(k)'
    BY <2>2, <2>3, <2>7 DEF Calling
  <2>9. Moved(k)' = Len(ran[p]) /\ Moved(k) = Len(ran[p])
    BY <1>5, <2>4, <2>6, <2>7, <2>8 DEF Moved
  <2>10. RingKept(k)' /\ Moved(k) \in Nat /\ Moved(k)' \in Nat /\ Moved(k) <= Moved(k)'
    BY <1>1, <1>5, <2>4, <2>5, <2>7, <2>9 DEF RingKept
  <2>11. drain[c].cpu = k /\ d.cpu = k /\ d.cpu = Owns(c) /\ d.head = head'[k]
         /\ \A q \in CpuId : q # k => head'[q] = head[q] /\ ran'[q] = ran[q]
    BY <1>1, <1>3, <2>2, <2>4, <2>7
  <2> QED BY <1>1, <1>2, <1>3, <2>1, <2>2, <2>4, <2>10, <2>11, WInvDrains
<1> QED BY <1>6, <1>7

LEMMA WInvMove ==
  ASSUME WInv, NEW c \in Cpu, MoveHead(c), UNCHANGED <<startVars, apVars>>
  PROVE  WInv'
<1> DEFINE p == drain[c].cpu
           d == [drain[c] EXCEPT !.step = "look"]
<1>1. /\ drain[c].step = "called" /\ UNCHANGED <<queue, tail, push, pushed, ran>>
      /\ head' = [head EXCEPT ![p] = (drain[c].head + 1) % WORK_QUEUE_SIZE]
      /\ drain' = [drain EXCEPT ![c] = d]
  BY DEF MoveHead
<1>2. /\ drain \in [Cpu -> [step : {"none", "look", "called"}, cpu : CpuId, head : 0 .. W - 1]]
      /\ p \in CpuId /\ DOMAIN head = CpuId /\ DOMAIN ran = CpuId
  BY DEF WInv, WorkTypes
<1>3. p = Owns(c) /\ (c # BSP => mode[c] = "idle") /\ drain[c].head = head[p]
  BY <1>1 DEF WInv, Drains
<1>4. d \in [step : {"none", "look", "called"}, cpu : CpuId, head : 0 .. W - 1] /\ d.step = "look" /\ d.cpu = p
  BY <1>2
<1> HIDE DEF d
<1>5. drain'[c] = d /\ \A e \in Cpu : e # c => drain'[e] = drain[e]
  BY <1>1, <1>2
<1>6. ASSUME NEW e \in Cpu, e # c PROVE ~(drain[e].step = "called" /\ drain[e].cpu = p)
  BY <1>1, <1>6, OneDrainer
<1>7. head'[p] = (head[p] + 1) % WORK_QUEUE_SIZE /\ DOMAIN head' = CpuId /\ \A q \in CpuId : q # p => head'[q] = head[q]
  BY <1>1, <1>2, <1>3
<1>8. Calling(p)
  BY <1>1 DEF Calling
<1>9. Moved(p) = Len(ran[p]) - 1 /\ Moved(p) \in Nat /\ Len(ran[p]) \in Nat
      /\ Ring(head[p], tail[p], queue[p], pushed[p], ran[p], Len(ran[p]) - 1)
  BY <1>2, <1>8, RingFacts DEF Moved
<1>10. Ring((head[p] + 1) % WORK_QUEUE_SIZE, tail[p], queue[p], pushed[p], ran[p], Len(ran[p]))
  <2> HIDE DEF p
  <2> QED BY <1>9, RingMove
<1>11. PICK k \in CpuId : k = p
  BY <1>2
<1> HIDE DEF p
<1>12. ~Calling(k)'
  BY <1>4, <1>5, <1>6, <1>11 DEF Calling
<1>13. Moved(k)' = Len(ran[p]) /\ Moved(k) = Len(ran[p]) - 1
  BY <1>1, <1>9, <1>11, <1>12 DEF Moved
<1>14. RingKept(k)' /\ Moved(k) \in Nat /\ Moved(k)' \in Nat /\ Moved(k) <= Moved(k)'
  BY <1>1, <1>7, <1>9, <1>10, <1>11, <1>13 DEF RingKept
<1>15. drain[c].cpu = k /\ d.cpu = k /\ d.cpu = Owns(c)
       /\ \A q \in CpuId : q # k => head'[q] = head[q] /\ ran'[q] = ran[q]
  BY <1>1, <1>3, <1>4, <1>7, <1>11 DEF p
<1> QED BY <1>1, <1>2, <1>3, <1>4, <1>7, <1>14, <1>15, WInvDrains

LEMMA WInvStep ==
  ASSUME WInv, [Next]_vars
  PROVE  WInv'
<1>1. CASE BspStep \/ \E a \in AP : ApStep(a)
  BY <1>1, WInvStart
<1>2. CASE WorkStep
  <2>1. UNCHANGED <<startVars, apVars>>
    BY <1>2 DEF WorkStep
  <2>2. CASE StoreItem \/ PublishTail
    BY <2>1, <2>2, WInvStore, WInvPublish
  <2>3. ASSUME NEW c \in CpuId, PushWork(c) PROVE WInv'
    BY <2>1, <2>3, WInvPushWork
  <2>4. ASSUME NEW c \in Cpu, Wake(c) \/ CallItem(c) \/ MoveHead(c) PROVE WInv'
    BY <2>1, <2>4, WInvWake, WInvCall, WInvMove
  <2> QED BY <1>2, <2>2, <2>3, <2>4 DEF WorkStep
<1>3. CASE UNCHANGED vars
  <2>1. UNCHANGED <<startVars, apVars>> /\ UNCHANGED <<queue, head, tail, push, drain, pushed, ran>>
    BY <1>3 DEF vars, workVars
  <2>2. (\A d \in Cpu : Drains(d)') /\ \A q : Moved(q)' = Moved(q)
    BY <2>1, WInvPushes
  <2>3. \A q \in CpuId : RingKept(q)'
    BY <2>1, <2>2 DEF WInv, RingKept
  <2>4. WorkTypes'
    BY <2>1 DEF WInv, WorkTypes
  <2>5. Moved(push.cpu)' = Moved(push.cpu)
    BY <2>1 DEF Moved, Calling
  <2>6. Pushes'
    BY <2>1, <2>5 DEF WInv, Pushes
  <2> QED BY <2>1, <2>2, <2>3, <2>4, <2>6, WInvWork
<1> QED BY <1>1, <1>2, <1>3 DEF Next

LEMMA WInvOrder ==
  ASSUME WInv
  PROVE  WorkInOrder
<1>1. ASSUME NEW q \in CpuId PROVE IsPrefix(ran[q], pushed[q])
  <2> DEFINE r == ran[q]
             u == pushed[q]
  <2>1. /\ IsSeq(r) /\ IsSeq(u) /\ Len(r) \in Nat /\ Len(u) \in Nat /\ Len(r) <= Len(u)
        /\ \A i \in 1 .. Len(r) : r[i] = u[i]
    BY LenIs DEF WInv, RingKept, Ring
  <2> HIDE DEF r, u
  <2>2. SubSeq(r, 1, Len(r)) = [i \in 1 .. Len(r) |-> r[i]] /\ SubSeq(u, 1, Len(r)) = [i \in 1 .. Len(r) |-> u[i]]
    <3>1. PICK S, T : r \in Seq(S) /\ u \in Seq(T)
      BY <2>1 DEF IsSeq
    <3> QED BY <2>1, <3>1, SubSeqProperties
  <2>3. SubSeq(r, 1, Len(r)) = SubSeq(u, 1, Len(r))
    BY <2>1, <2>2
  <2> QED BY <2>1, <2>3 DEF IsPrefix, r, u
<1> QED BY <1>1 DEF WorkInOrder

(* Every queue calls its items in the order in which push_work accepted      *)
(* them, each once, for any size of the ring and any interleaving of the     *)
(* stores, loads and calls of producer and consumer.                         *)
THEOREM WorkRunsInOrder == Spec => []WorkInOrder
<1>1. Init => WInv
  BY WInvInit
<1>2. WInv /\ [Next]_vars => WInv'
  BY WInvStep
<1>3. WInv => WorkInOrder
  BY WInvOrder
<1> QED BY <1>1, <1>2, <1>3, PTL DEF Spec
=============================================================================
