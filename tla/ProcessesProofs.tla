--------------------------- MODULE ProcessesProofs ---------------------------
(***************************************************************************)
(* Proofs about the process table, for any number of slots, any size of    *)
(* the layers, any quantum and any set of messages.                        *)
(***************************************************************************)
EXTENDS ProcessesRefinement, WellFoundedInduction, TLAPS

(* What is proved inductive: none of the three parts is inductive alone.    *)
(* The types of mem need the buffers in their layers, and the state of the  *)
(* CPU's new owner needs the kernel thread to be runnable.                  *)
IInv == TypeOK /\ SchedulerSafe /\ BlockedBufferInLayer

(* The scans of find_free_slot, receive_ipc and next_runnable_after stop at *)
(* a first hit whenever there is a hit.                                     *)
LEMMA MinExists ==
  ASSUME NEW S \in SUBSET Nat, S # {}
  PROVE  \E n \in S : \A m \in S : n <= m
<1>1. IsWellFoundedOn(OpToRel(<, Nat), Nat)
  BY NatLessThanWellFounded
<1>2. PICK n \in S : \A m \in S : ~(<<m, n>> \in OpToRel(<, Nat))
  BY <1>1, WFMin
<1>3. \A m \in S : ~(m < n)
  BY <1>2 DEF OpToRel
<1> QED BY <1>3

(* next_runnable_after returns a runnable slot as long as the kernel thread *)
(* is runnable, so block_current never enters its hlt loop.                 *)
LEMMA NextRunnableIsRunnable ==
  ASSUME NEW st \in [Slot -> ProcessState], NEW c \in Slot,
         st[0] = Runnable
  PROVE  /\ RunnableSteps(st, c) # {}
         /\ NextRunnableAfter(st, c) \in Slot
         /\ st[NextRunnableAfter(st, c)] = Runnable
<1> USE ProcessesAssumption
<1>1. MAX_PROCESSES - c \in 1 .. MAX_PROCESSES
  BY DEF Slot
<1>2. (c + (MAX_PROCESSES - c)) % MAX_PROCESSES = 0
  BY DEF Slot
<1>3. RunnableSteps(st, c) # {}
  BY <1>1, <1>2 DEF RunnableSteps
<1>4. RunnableSteps(st, c) \subseteq Nat
  BY DEF RunnableSteps
<1>5. \E n \in RunnableSteps(st, c) : \A m \in RunnableSteps(st, c) : n <= m
  BY <1>3, <1>4, MinExists
<1> DEFINE first == CHOOSE n \in RunnableSteps(st, c) :
                      \A m \in RunnableSteps(st, c) : n <= m
<1>6. first \in RunnableSteps(st, c)
  BY <1>5
<1> HIDE DEF first
<1>7. (c + first) % MAX_PROCESSES \in Slot
  BY <1>6 DEF RunnableSteps, Slot
<1>8. st[(c + first) % MAX_PROCESSES] = Runnable
  BY <1>6 DEF RunnableSteps
<1>9. NextRunnableAfter(st, c) = (c + first) % MAX_PROCESSES
  BY DEF NextRunnableAfter, first
<1> QED BY <1>3, <1>7, <1>8, <1>9

LEMMA FindFreeSlotIsFree ==
  ASSUME FreeSlots # {}
  PROVE  FindFreeSlot \in Slot \ {0} /\ ~Live(FindFreeSlot)
<1>1. FreeSlots \subseteq Nat
  BY ProcessesAssumption DEF FreeSlots, Slot
<1>2. \E i \in FreeSlots : \A j \in FreeSlots : i <= j
  BY <1>1, MinExists
<1>3. FindFreeSlot \in FreeSlots
  BY <1>2 DEF FindFreeSlot
<1> QED BY <1>3 DEF FreeSlots

LEMMA FirstSenderSends ==
  ASSUME NEW i \in Slot, Senders(i) # {}
  PROVE  FirstSender(i) \in Slot /\ state[FirstSender(i)] = BlockedOnSend(i)
<1>1. Senders(i) \subseteq Nat
  BY ProcessesAssumption DEF Senders, Slot
<1>2. \E s \in Senders(i) : \A t \in Senders(i) : s <= t
  BY <1>1, MinExists
<1>3. FirstSender(i) \in Senders(i)
  BY <1>2 DEF FirstSender
<1> QED BY <1>3 DEF Senders

LEMMA SlotFacts == 0 \in Slot /\ Slot \subseteq Nat
  BY ProcessesAssumption DEF Slot

(* A message that contains_range accepts is inside the modelled memory *)
LEMMA RangeInMemory ==
  ASSUME TypeOK, NEW i \in Slot, NEW ptr \in Nat, ContainsRange(i, ptr)
  PROVE  /\ ptr - layer_base[i] \in 0 .. LAYER - 1
         /\ At(i, ptr) \in Msg
<1>1. layer_base[i] \in Nat /\ layer_size[i] \in 0 .. LAYER
  BY DEF TypeOK
<1>2. ptr - layer_base[i] \in 0 .. LAYER - 1
  BY <1>1, ProcessesAssumption DEF ContainsRange
<1> QED BY <1>2 DEF TypeOK, At

LEMMA Tags ==
  /\ Runnable \in ProcessState /\ Exited \in ProcessState
  /\ Empty \in ProcessState /\ BlockedOnReceive \in ProcessState
  /\ \A t \in Slot : BlockedOnSend(t) \in ProcessState
  /\ \A t \in Slot : BlockedOnReply(t) \in ProcessState
  BY DEF ProcessState

LEMMA InitIInv == Init => IInv
<1> SUFFICES ASSUME Init PROVE IInv
  OBVIOUS
<1> USE ProcessesAssumption, SlotFacts, Tags DEF Init
<1>1. TypeOK
  <2>1. state \in [Slot -> ProcessState]
    OBVIOUS
  <2>2. xfer \in Xfer
    BY DEF NoXfer, Xfer
  <2>3. mem \in [Slot -> [0 .. LAYER - 1 -> Msg]]
    OBVIOUS
  <2> QED BY <2>1, <2>2, <2>3 DEF TypeOK
<1>2. SchedulerSafe
  BY DEF SchedulerSafe
<1>3. BlockedBufferInLayer
  BY DEF BlockedBufferInLayer, Runnable, Empty
<1> QED BY <1>1, <1>2, <1>3 DEF IInv

(* switch_context to a runnable slot *)
LEMMA SwitchKeepsTypes ==
  ASSUME NEW next \in Slot, NEW suspended \in SUBSET Slot,
         SwitchTo(next, suspended)
  PROVE  current' = next /\ inReceive' \subseteq Slot
  BY DEF SwitchTo

(* block_current hands the CPU to a runnable process *)
LEMMA BlockCurrentSwitches ==
  ASSUME NEW st \in [Slot -> ProcessState], st[0] = Runnable, current \in Slot,
         NEW suspended \in SUBSET Slot, BlockCurrent(st, suspended)
  PROVE  current' \in Slot /\ st[current'] = Runnable /\ inReceive' \subseteq Slot
<1>1. /\ RunnableSteps(st, current) # {}
      /\ NextRunnableAfter(st, current) \in Slot
      /\ st[NextRunnableAfter(st, current)] = Runnable
  BY NextRunnableIsRunnable
<1> QED BY <1>1 DEF BlockCurrent, SwitchTo

(* yield_cpu and the timer hand the CPU to a runnable process *)
LEMMA SwitchKeepsIInv ==
  ASSUME IInv, SwitchTo(NextRunnableAfter(state, current), inReceive),
         quantum' \in 0 .. QUANTUM - 1,
         UNCHANGED <<state, pcbVars, ipcVars, mem, xfer>>
  PROVE  IInv'
<1>1. /\ NextRunnableAfter(state, current) \in Slot
      /\ state[NextRunnableAfter(state, current)] = Runnable
  BY NextRunnableIsRunnable DEF IInv, TypeOK, SchedulerSafe
<1>2. current' \in Slot /\ state[current'] = Runnable /\ inReceive' \subseteq Slot
  BY <1>1 DEF SwitchTo, IInv, TypeOK
<1>3. TypeOK'
  BY <1>2 DEF IInv, TypeOK, pcbVars, ipcVars
<1>4. SchedulerSafe'
  BY <1>2 DEF IInv, SchedulerSafe
<1>5. BlockedBufferInLayer'
  BY DEF IInv, BlockedBufferInLayer, ContainsRange, pcbVars, ipcVars
<1> QED BY <1>3, <1>4, <1>5 DEF IInv

LEMMA YieldCpuIInv == IInv /\ YieldCpu => IInv'
  BY SwitchKeepsIInv DEF YieldCpu, IInv, TypeOK

LEMMA TimerTickIInv == IInv /\ TimerTick => IInv'
<1> SUFFICES ASSUME IInv, TimerTick PROVE IInv'
  OBVIOUS
<1>0. quantum \in 0 .. QUANTUM - 1 /\ QUANTUM \in Nat \ {0}
  BY ProcessesAssumption DEF IInv, TypeOK
<1>1. CASE quantum + 1 >= QUANTUM
  BY <1>0, <1>1, SwitchKeepsIInv DEF TimerTick
<1>2. CASE ~(quantum + 1 >= QUANTUM)
  <2>1. quantum' \in 0 .. QUANTUM - 1 /\ UNCHANGED <<current, inReceive>>
    BY <1>0, <1>2 DEF TimerTick
  <2>2. TypeOK'
    BY <2>1 DEF TimerTick, IInv, TypeOK, pcbVars, ipcVars
  <2>3. SchedulerSafe'
    BY <2>1 DEF TimerTick, IInv, SchedulerSafe
  <2>4. BlockedBufferInLayer'
    BY DEF TimerTick, IInv, BlockedBufferInLayer, ContainsRange, pcbVars, ipcVars
  <2> QED BY <2>2, <2>3, <2>4 DEF IInv
<1> QED BY <1>1, <1>2

(* A new process: the slot was free, and its state holds no buffer *)
LEMMA ProvisionIInv ==
  ASSUME IInv, FreeSlots # {}, NEW base \in Nat, NEW size \in 0 .. LAYER,
         NEW st \in {Runnable, Exited},
         Provision(FindFreeSlot, base, size, st),
         UNCHANGED <<quantum, xfer>>, inReceive' \subseteq Slot,
         \/ UNCHANGED current
         \/ current' = FindFreeSlot /\ st = Runnable
  PROVE  IInv'
<1> DEFINE i == FindFreeSlot
<1>1. i \in Slot \ {0} /\ ~Live(i)
  BY FindFreeSlotIsFree
<1>2. state \in [Slot -> ProcessState] /\ current \in Slot
  BY DEF IInv, TypeOK
<1>3. i # current
  BY <1>1 DEF IInv, SchedulerSafe, Live, Runnable
<1> HIDE DEF i
<1>4. state' = [state EXCEPT ![i] = st]
  BY DEF Provision, i
<1>5. TypeOK'
  <2>1. state' \in [Slot -> ProcessState]
    BY <1>2, <1>4, Tags
  <2>2. current' \in Slot
    BY <1>1, <1>2 DEF i
  <2>3. /\ layer_base' \in [Slot -> Nat]
        /\ layer_size' \in [Slot -> 0 .. LAYER]
        /\ ipc_buffer' \in [Slot -> Nat]
        /\ ipc_peer' \in [Slot -> Slot]
    BY SlotFacts DEF Provision, IInv, TypeOK
  <2>4. mem' \in [Slot -> [0 .. LAYER - 1 -> Msg]]
    BY ProcessesAssumption DEF Provision, IInv, TypeOK
  <2> QED BY <2>1, <2>2, <2>3, <2>4 DEF IInv, TypeOK
<1>6. SchedulerSafe'
  <2>1. state'[0] = Runnable
    BY <1>1, <1>2, <1>4, SlotFacts DEF IInv, SchedulerSafe
  <2>2. state'[current'] = Runnable
    BY <1>1, <1>2, <1>3, <1>4 DEF IInv, SchedulerSafe, i
  <2> QED BY <2>1, <2>2 DEF SchedulerSafe
<1>7. BlockedBufferInLayer'
  <2> SUFFICES ASSUME NEW j \in Slot,
                      state'[j].tag \in {"BlockedOnSend", "BlockedOnReceive",
                                         "BlockedOnReply"}
               PROVE  ContainsRange(j, ipc_buffer[j])'
    BY DEF BlockedBufferInLayer
  <2>1. j # i
    BY <1>1, <1>2, <1>4 DEF Runnable, Exited
  <2>2. /\ state'[j] = state[j] /\ ipc_buffer'[j] = ipc_buffer[j]
        /\ layer_base'[j] = layer_base[j] /\ layer_size'[j] = layer_size[j]
    BY <1>4, <2>1 DEF Provision, IInv, TypeOK, i
  <2> QED BY <2>2 DEF IInv, BlockedBufferInLayer, ContainsRange
<1> QED BY <1>5, <1>6, <1>7 DEF IInv

LEMMA LayerFacts ==
  /\ ElfBase \in Nat
  /\ LAYER \in 0 .. LAYER
  /\ \A i \in Slot : i * LAYER \in Nat
  BY ProcessesAssumption, SlotFacts DEF ElfBase

LEMMA CreateIInv == IInv /\ Create => IInv'
<1> SUFFICES ASSUME IInv, Create PROVE IInv'
  OBVIOUS
<1> USE LayerFacts, FindFreeSlotIsFree
<1>0. inReceive \subseteq Slot
  BY DEF IInv, TypeOK
<1>1. CASE SpawnInitialUser
  BY <1>0, <1>1, ProvisionIInv DEF SpawnInitialUser, ProvisionPcb
<1>2. CASE CreateProcess
  BY <1>0, <1>2, ProvisionIInv DEF CreateProcess, ProvisionPcb
<1>3. CASE \E ok \in BOOLEAN : CreateThread(ok)
  <2>1. PICK ok \in BOOLEAN : CreateThread(ok)
    BY <1>3
  <2>2. CASE ok
    BY <1>0, <2>1, <2>2, ProvisionIInv DEF CreateThread, ProvisionPcb
  <2>3. CASE ~ok
    BY <1>0, <2>1, <2>3, ProvisionIInv DEF CreateThread, ProvisionPcb
  <2> QED BY <2>2, <2>3
<1>4. CASE \E size \in 0 .. LAYER : Exec(size)
  BY <1>0, <1>4, ProvisionIInv DEF Exec, ProvisionPcbElf
<1>5. CASE \E size \in 0 .. LAYER : CompileAndRun(size)
  BY <1>0, <1>5, ProvisionIInv DEF CompileAndRun, ProvisionPcbElf, SwitchTo
<1> QED BY <1>1, <1>2, <1>3, <1>4, <1>5 DEF Create

LEMMA ExitProcessIInv == IInv /\ ExitProcess => IInv'
<1> SUFFICES ASSUME IInv, ExitProcess PROVE IInv'
  OBVIOUS
<1>1. /\ state' \in [Slot -> ProcessState] /\ state'[0] = Runnable
      /\ current \in Slot /\ inReceive \in SUBSET Slot
  BY SlotFacts, Tags DEF ExitProcess, IInv, TypeOK, SchedulerSafe
<1>2. current' \in Slot /\ state'[current'] = Runnable /\ inReceive' \subseteq Slot
  BY <1>1, BlockCurrentSwitches DEF ExitProcess
<1>3. TypeOK'
  BY <1>1, <1>2 DEF ExitProcess, IInv, TypeOK, pcbVars, ipcVars
<1>4. SchedulerSafe'
  BY <1>1, <1>2 DEF SchedulerSafe
<1>5. BlockedBufferInLayer'
  BY DEF ExitProcess, IInv, TypeOK, BlockedBufferInLayer, ContainsRange, Exited,
         pcbVars, ipcVars
<1> QED BY <1>3, <1>4, <1>5 DEF IInv

LEMMA KillProcessIInv ==
  ASSUME IInv, NEW pid \in Slot, KillProcess(pid)
  PROVE  IInv'
<1>1. state' \in [Slot -> ProcessState] /\ inReceive' \subseteq Slot
  BY Tags DEF KillProcess, IInv, TypeOK
<1>2. TypeOK'
  BY <1>1 DEF KillProcess, IInv, TypeOK, pcbVars, ipcVars
<1>3. SchedulerSafe'
  BY SlotFacts DEF KillProcess, IInv, TypeOK, SchedulerSafe
<1>4. BlockedBufferInLayer'
  BY DEF KillProcess, IInv, TypeOK, BlockedBufferInLayer, ContainsRange, Exited,
         pcbVars, ipcVars
<1> QED BY <1>2, <1>3, <1>4 DEF IInv

LEMMA UserStoreIInv ==
  ASSUME IInv, NEW ptr \in Nat, NEW m \in Msg, UserStore(ptr, m)
  PROVE  IInv'
<1>1. mem' \in [Slot -> [0 .. LAYER - 1 -> Msg]]
  BY DEF UserStore, IInv, TypeOK
<1>2. TypeOK'
  BY <1>1 DEF UserStore, IInv, TypeOK, pcbVars, ipcVars
<1>3. SchedulerSafe'
  BY DEF UserStore, IInv, SchedulerSafe
<1>4. BlockedBufferInLayer'
  BY DEF UserStore, IInv, BlockedBufferInLayer, ContainsRange, pcbVars, ipcVars
<1> QED BY <1>2, <1>3, <1>4 DEF IInv

(* copy_user_message between two buffers that lie in their layers *)
LEMMA CopyKeepsTypes ==
  ASSUME TypeOK, NEW src \in Slot, NEW srcPtr \in Nat, ContainsRange(src, srcPtr),
         NEW dst \in Slot, NEW dstPtr,
         CopyUserMessage(src, srcPtr, dst, dstPtr)
  PROVE  mem' \in [Slot -> [0 .. LAYER - 1 -> Msg]] /\ xfer' \in Xfer
<1>1. At(src, srcPtr) \in Msg
  BY RangeInMemory
<1>2. mem' \in [Slot -> [0 .. LAYER - 1 -> Msg]]
  BY <1>1 DEF CopyUserMessage, TypeOK
<1>3. xfer' \in Xfer
  BY <1>1 DEF CopyUserMessage, Xfer
<1> QED BY <1>2, <1>3

LEMMA SendToReceiverIInv ==
  ASSUME IInv, NEW ptr \in Nat, NEW target \in Slot, SendToReceiver(target, ptr)
  PROVE  IInv'
<1>0. TypeOK /\ current \in Slot /\ inReceive \in SUBSET Slot
  BY DEF IInv, TypeOK
<1>1. state' = [state EXCEPT ![target] = Runnable, ![current] = BlockedOnReply(target)]
  BY DEF SendToReceiver
<1>2. state' \in [Slot -> ProcessState] /\ state'[0] = Runnable
  BY <1>0, <1>1, SlotFacts, Tags DEF SendToReceiver, IInv, TypeOK, SchedulerSafe
<1>3. current' \in Slot /\ state'[current'] = Runnable /\ inReceive' \subseteq Slot
  BY <1>0, <1>2, BlockCurrentSwitches DEF SendToReceiver
<1>4. mem' \in [Slot -> [0 .. LAYER - 1 -> Msg]] /\ xfer' \in Xfer
  BY <1>0, CopyKeepsTypes DEF SendToReceiver
<1>5. ipc_peer' \in [Slot -> Slot] /\ ipc_buffer' \in [Slot -> Nat]
  BY <1>0 DEF SendToReceiver, TypeOK
<1>6. TypeOK'
  BY <1>0, <1>2, <1>3, <1>4, <1>5 DEF SendToReceiver, TypeOK, pcbVars
<1>7. SchedulerSafe'
  BY <1>2, <1>3 DEF SchedulerSafe
<1>8. BlockedBufferInLayer'
  <2> SUFFICES ASSUME NEW j \in Slot,
                      state'[j].tag \in {"BlockedOnSend", "BlockedOnReceive",
                                         "BlockedOnReply"}
               PROVE  ContainsRange(j, ipc_buffer[j])'
    BY DEF BlockedBufferInLayer
  <2>1. CASE j = current
    BY <1>0, <2>1 DEF SendToReceiver, TypeOK, ContainsRange, pcbVars
  <2>2. CASE j # current
    <3>1. j # target
      BY <1>0, <1>1, <2>2 DEF TypeOK, Runnable
    <3>2. state'[j] = state[j] /\ ipc_buffer'[j] = ipc_buffer[j]
      BY <1>0, <1>1, <2>2, <3>1 DEF SendToReceiver, TypeOK
    <3> QED BY <3>2 DEF SendToReceiver, IInv, BlockedBufferInLayer, ContainsRange, pcbVars
  <2> QED BY <2>1, <2>2
<1> QED BY <1>6, <1>7, <1>8 DEF IInv

LEMMA SendAndWaitIInv ==
  ASSUME IInv, NEW ptr \in Nat, NEW target \in Slot, SendAndWait(target, ptr)
  PROVE  IInv'
<1>0. TypeOK /\ current \in Slot /\ inReceive \in SUBSET Slot
  BY DEF IInv, TypeOK
<1>1. state' \in [Slot -> ProcessState] /\ state'[0] = Runnable
  BY <1>0, SlotFacts, Tags DEF SendAndWait, IInv, TypeOK, SchedulerSafe
<1>2. current' \in Slot /\ state'[current'] = Runnable /\ inReceive' \subseteq Slot
  BY <1>0, <1>1, BlockCurrentSwitches DEF SendAndWait
<1>3. TypeOK'
  BY <1>0, <1>1, <1>2 DEF SendAndWait, TypeOK, pcbVars
<1>4. SchedulerSafe'
  BY <1>1, <1>2 DEF SchedulerSafe
<1>5. BlockedBufferInLayer'
  BY <1>0 DEF SendAndWait, IInv, TypeOK, BlockedBufferInLayer, ContainsRange, pcbVars
<1> QED BY <1>3, <1>4, <1>5 DEF IInv

LEMMA ReceiveAndWaitIInv ==
  ASSUME IInv, NEW ptr \in Nat, ReceiveAndWait(ptr)
  PROVE  IInv'
<1>0. TypeOK /\ current \in Slot /\ inReceive \cup {current} \in SUBSET Slot
  BY DEF IInv, TypeOK
<1>1. state' \in [Slot -> ProcessState] /\ state'[0] = Runnable
  BY <1>0, SlotFacts, Tags DEF ReceiveAndWait, IInv, TypeOK, SchedulerSafe
<1>2. current' \in Slot /\ state'[current'] = Runnable /\ inReceive' \subseteq Slot
  BY <1>0, <1>1, BlockCurrentSwitches DEF ReceiveAndWait
<1>3. TypeOK'
  BY <1>0, <1>1, <1>2, SlotFacts DEF ReceiveAndWait, TypeOK, pcbVars
<1>4. SchedulerSafe'
  BY <1>1, <1>2 DEF SchedulerSafe
<1>5. BlockedBufferInLayer'
  BY <1>0 DEF ReceiveAndWait, IInv, TypeOK, BlockedBufferInLayer, ContainsRange, pcbVars
<1> QED BY <1>3, <1>4, <1>5 DEF IInv

LEMMA ReceiveFromSenderIInv ==
  ASSUME IInv, NEW ptr \in Nat, ReceiveFromSender(ptr)
  PROVE  IInv'
<1> DEFINE sender == FirstSender(current)
<1>0. TypeOK /\ current \in Slot
  BY DEF IInv, TypeOK
<1>1. sender \in Slot /\ state[sender] = BlockedOnSend(current)
  BY <1>0, FirstSenderSends DEF ReceiveFromSender
<1>2. ContainsRange(sender, ipc_buffer[sender]) /\ ipc_buffer[sender] \in Nat
  BY <1>0, <1>1 DEF IInv, TypeOK, BlockedBufferInLayer, BlockedOnSend
<1> HIDE DEF sender
<1>3. /\ CopyUserMessage(sender, ipc_buffer[sender], current, ptr)
      /\ ipc_buffer' = [ipc_buffer EXCEPT ![current] = ptr]
      /\ state' = [state EXCEPT ![sender] = BlockedOnReply(current)]
      /\ UNCHANGED <<pcbVars, ipc_peer, current, quantum, inReceive>>
  BY <1>2 DEF ReceiveFromSender, sender
<1>4. sender # current /\ sender # 0
  BY <1>1 DEF IInv, SchedulerSafe, Runnable, BlockedOnSend
<1>5. TypeOK'
  <2>1. mem' \in [Slot -> [0 .. LAYER - 1 -> Msg]] /\ xfer' \in Xfer
    BY <1>0, <1>1, <1>2, <1>3, CopyKeepsTypes
  <2> QED BY <1>0, <1>1, <1>3, <2>1, Tags DEF TypeOK, pcbVars
<1>6. SchedulerSafe'
  BY <1>0, <1>1, <1>3, <1>4, SlotFacts DEF IInv, TypeOK, SchedulerSafe
<1>7. BlockedBufferInLayer'
  <2> SUFFICES ASSUME NEW j \in Slot,
                      state'[j].tag \in {"BlockedOnSend", "BlockedOnReceive",
                                         "BlockedOnReply"}
               PROVE  ContainsRange(j, ipc_buffer[j])'
    BY DEF BlockedBufferInLayer
  <2>1. j # current
    BY <1>0, <1>3, <1>4 DEF IInv, TypeOK, SchedulerSafe, Runnable
  <2>2. ContainsRange(j, ipc_buffer[j])
    BY <1>0, <1>1, <1>2, <1>3 DEF IInv, TypeOK, BlockedBufferInLayer
  <2> QED BY <1>0, <1>3, <2>1, <2>2 DEF TypeOK, ContainsRange, pcbVars
<1> QED BY <1>5, <1>6, <1>7 DEF IInv

LEMMA ReplyIpcIInv ==
  ASSUME IInv, NEW ptr \in Nat, NEW target \in Slot, ReplyIpc(target, ptr)
  PROVE  IInv'
<1>0. TypeOK /\ current \in Slot
  BY DEF IInv, TypeOK
<1>1. TypeOK'
  <2>1. mem' \in [Slot -> [0 .. LAYER - 1 -> Msg]] /\ xfer' \in Xfer
    BY <1>0, CopyKeepsTypes DEF ReplyIpc
  <2> QED BY <1>0, <2>1, Tags DEF ReplyIpc, TypeOK, pcbVars
<1>2. SchedulerSafe'
  BY <1>0, SlotFacts DEF ReplyIpc, IInv, TypeOK, SchedulerSafe
<1>3. BlockedBufferInLayer'
  BY <1>0 DEF ReplyIpc, IInv, TypeOK, BlockedBufferInLayer, ContainsRange, Runnable, pcbVars
<1> QED BY <1>1, <1>2, <1>3 DEF IInv

LEMMA PtrIsNat == Ptr \subseteq Nat
  BY DEF Ptr

LEMMA NextIInv == IInv /\ [Next]_vars => IInv'
<1> SUFFICES ASSUME IInv, [Next]_vars PROVE IInv'
  OBVIOUS
<1>1. CASE YieldCpu
  BY <1>1, YieldCpuIInv
<1>2. CASE TimerTick
  BY <1>2, TimerTickIInv
<1>3. CASE Create
  BY <1>3, CreateIInv
<1>4. CASE ExitProcess
  BY <1>4, ExitProcessIInv
<1>5. CASE \E pid \in Slot : KillProcess(pid)
  BY <1>5, KillProcessIInv
<1>6. CASE Ipc
  BY <1>6, PtrIsNat, UserStoreIInv, SendToReceiverIInv, SendAndWaitIInv,
     ReceiveFromSenderIInv, ReceiveAndWaitIInv, ReplyIpcIInv DEF Ipc
<1>7. CASE UNCHANGED vars
  BY <1>7 DEF vars, pcbVars, ipcVars, IInv, TypeOK, SchedulerSafe,
     BlockedBufferInLayer, ContainsRange
<1> QED BY <1>1, <1>2, <1>3, <1>4, <1>5, <1>6, <1>7 DEF Next

LEMMA Invariance == Spec => []IInv
  BY InitIInv, NextIInv, PTL DEF Spec

(* The fields of the process table and the memory of the layers keep their  *)
(* types under every system call and every tick.                            *)
THEOREM TypeCorrect == Spec => []TypeOK
<1>1. IInv => TypeOK
  BY DEF IInv
<1> QED BY <1>1, Invariance, PTL

(* block_current always finds a process to switch to: the CPU is never left *)
(* to a process that is blocked, dead or absent.                            *)
THEOREM SchedulerIsSafe == Spec => []SchedulerSafe
<1>1. IInv => SchedulerSafe
  BY DEF IInv
<1> QED BY <1>1, Invariance, PTL

(* The buffers of blocked processes stay inside their layers, whatever      *)
(* happens to their slots.                                                  *)
THEOREM BuffersInLayers == Spec => []BlockedBufferInLayer
<1>1. IInv => BlockedBufferInLayer
  BY DEF IInv
<1> QED BY <1>1, Invariance, PTL

-----------------------------------------------------------------------------
(* The process table implements Rendezvous, and a process woken in          *)
(* receive_ipc has its message and its caller                               *)

(* Everything that CallOf(j) is read from *)
Untouched(j) ==
  /\ state'[j] = state[j]
  /\ mem'[j] = mem[j]
  /\ layer_base'[j] = layer_base[j]
  /\ ipc_buffer'[j] = ipc_buffer[j]

NotCalling(st) == st.tag \notin {"BlockedOnSend", "BlockedOnReply"}

calls == [i \in Slot |-> CallOf(i)]

LEMMA UntouchedCall ==
  ASSUME NEW j \in Slot, Untouched(j)
  PROVE  CallOf(j)' = CallOf(j)
  BY DEF Untouched, CallOf, At

LEMMA IdleCall ==
  ASSUME NEW j \in Slot
  PROVE  /\ NotCalling(state[j]) => CallOf(j) = R!Idle
         /\ NotCalling(state'[j]) => CallOf(j)' = R!Idle
  BY DEF NotCalling, CallOf, R!Idle

(* A slot that is in no call before and after a step *)
Quiet(j) == NotCalling(state[j]) /\ NotCalling(state'[j])

(* A step that hands over no message and leaves every slot alone or out of  *)
(* any call is invisible to Rendezvous.                                     *)
LEMMA InvisibleStep ==
  ASSUME \A j \in Slot : Untouched(j) \/ Quiet(j), UNCHANGED xfer
  PROVE  UNCHANGED <<calls, xfer>>
<1>1. \A j \in Slot : CallOf(j)' = CallOf(j)
  BY UntouchedCall, IdleCall DEF Quiet
<1> QED BY <1>1 DEF calls

(* A step that changes the call of c alone *)
LEMMA OneCallChanges ==
  ASSUME NEW c \in Slot, \A j \in Slot \ {c} : Untouched(j) \/ Quiet(j)
  PROVE  calls' = [calls EXCEPT ![c] = CallOf(c)']
<1>1. \A j \in Slot \ {c} : CallOf(j)' = CallOf(j)
  BY UntouchedCall, IdleCall DEF Quiet
<1> QED BY <1>1 DEF calls

LEMMA ProvisionInvisible ==
  ASSUME IInv, FreeSlots # {}, NEW base, NEW size, NEW st \in {Runnable, Exited},
         Provision(FindFreeSlot, base, size, st), UNCHANGED xfer
  PROVE  UNCHANGED <<calls, xfer>>
<1> DEFINE i == FindFreeSlot
<1>1. i \in Slot /\ ~Live(i)
  BY FindFreeSlotIsFree
<1> HIDE DEF i
<1>2. /\ state' = [state EXCEPT ![i] = st]
      /\ layer_base' = [layer_base EXCEPT ![i] = base]
      /\ ipc_buffer' = [ipc_buffer EXCEPT ![i] = 0]
      /\ mem' = [mem EXCEPT ![i] = [k \in 0 .. LAYER - 1 |-> ZeroMsg]]
  BY DEF Provision, i
<1>3. Quiet(i)
  BY <1>1, <1>2 DEF IInv, TypeOK, Live, Quiet, NotCalling, Runnable, Exited
<1>4. \A j \in Slot \ {i} : Untouched(j)
  BY <1>2 DEF IInv, TypeOK, Untouched
<1> QED BY <1>3, <1>4, InvisibleStep

LEMMA CreateInvisible == IInv /\ Create => UNCHANGED <<calls, xfer>>
<1> SUFFICES ASSUME IInv, Create PROVE UNCHANGED <<calls, xfer>>
  OBVIOUS
<1>1. CASE SpawnInitialUser
  BY <1>1, ProvisionInvisible DEF SpawnInitialUser, ProvisionPcb
<1>2. CASE CreateProcess
  BY <1>2, ProvisionInvisible DEF CreateProcess, ProvisionPcb
<1>3. CASE \E ok \in BOOLEAN : CreateThread(ok)
  <2>1. PICK ok \in BOOLEAN : CreateThread(ok)
    BY <1>3
  <2>2. CASE ok
    BY <2>1, <2>2, ProvisionInvisible DEF CreateThread, ProvisionPcb
  <2>3. CASE ~ok
    BY <2>1, <2>3, ProvisionInvisible DEF CreateThread, ProvisionPcb
  <2> QED BY <2>2, <2>3
<1>4. CASE \E size \in 0 .. LAYER : Exec(size)
  BY <1>4, ProvisionInvisible DEF Exec, ProvisionPcbElf
<1>5. CASE \E size \in 0 .. LAYER : CompileAndRun(size)
  BY <1>5, ProvisionInvisible DEF CompileAndRun, ProvisionPcbElf
<1> QED BY <1>1, <1>2, <1>3, <1>4, <1>5 DEF Create

(* The process that has the CPU is in no call *)
LEMMA CurrentNotCalling ==
  ASSUME IInv
  PROVE  current \in Slot /\ NotCalling(state[current]) /\ CallOf(current) = R!Idle
<1>1. current \in Slot /\ state[current] = Runnable
  BY DEF IInv, TypeOK, SchedulerSafe
<1>2. NotCalling(state[current])
  BY <1>1 DEF NotCalling, Runnable
<1> QED BY <1>1, <1>2, IdleCall

LEMMA KillDies ==
  ASSUME IInv, NEW pid \in Slot, KillProcess(pid)
  PROVE  R!Die(pid) \/ UNCHANGED <<calls, xfer>>
<1>1. \A j \in Slot \ {pid} : Untouched(j)
  BY DEF KillProcess, IInv, TypeOK, Untouched, pcbVars, ipcVars
<1>2. CallOf(pid)' = R!Idle
  BY IdleCall DEF KillProcess, IInv, TypeOK, NotCalling, Exited
<1>3. calls' = [calls EXCEPT ![pid] = R!Idle] /\ UNCHANGED xfer
  BY <1>1, <1>2, OneCallChanges DEF KillProcess
<1>4. CASE calls[pid] = R!Idle
  BY <1>3, <1>4 DEF calls
<1>5. CASE calls[pid] # R!Idle
  BY <1>3, <1>5 DEF calls, R!Die
<1> QED BY <1>4, <1>5

LEMMA UserStoreInvisible ==
  ASSUME IInv, NEW ptr \in Nat, NEW m \in Msg, UserStore(ptr, m)
  PROVE  UNCHANGED <<calls, xfer>>
<1>1. Quiet(current)
  BY CurrentNotCalling DEF UserStore, Quiet
<1>2. \A j \in Slot \ {current} : Untouched(j)
  BY DEF UserStore, IInv, TypeOK, Untouched, pcbVars, ipcVars
<1> QED BY <1>1, <1>2, InvisibleStep DEF UserStore

LEMMA SendToReceiverCalls ==
  ASSUME IInv, NEW ptr \in Nat, NEW target \in Slot, SendToReceiver(target, ptr)
  PROVE  \E m \in Msg : R!CallAccepted(current, target, m)
<1>0. TypeOK /\ CallOf(current) = R!Idle
  BY CurrentNotCalling DEF IInv
<1>c. PICK c \in Slot : c = current
  BY CurrentNotCalling
<1>1. Quiet(target)
  BY <1>0, <1>c DEF SendToReceiver, TypeOK, Quiet, NotCalling, Runnable, BlockedOnReceive
<1>2. \A j \in Slot \ {c, target} : Untouched(j)
  BY <1>0, <1>c DEF SendToReceiver, CopyUserMessage, TypeOK, Untouched, pcbVars
<1>3. CallOf(c)' = R!Accepted(target)
  BY <1>0, <1>c DEF SendToReceiver, TypeOK, CallOf, BlockedOnReply, R!Accepted
<1>4. calls' = [calls EXCEPT ![c] = R!Accepted(target)]
  BY <1>1, <1>2, <1>3, OneCallChanges
<1>5. At(c, ptr) \in Msg
  BY <1>0, <1>c, RangeInMemory DEF SendToReceiver
<1>6. xfer' = R!Transfer(c, target, At(c, ptr))
  BY <1>c DEF SendToReceiver, CopyUserMessage, R!Transfer
<1>7. calls[c] = R!Idle /\ c # target
  BY <1>0, <1>c DEF calls, SendToReceiver
<1> QED BY <1>c, <1>4, <1>5, <1>6, <1>7 DEF R!CallAccepted, calls

LEMMA SendAndWaitCalls ==
  ASSUME IInv, NEW ptr \in Nat, NEW target \in Slot, SendAndWait(target, ptr)
  PROVE  \E m \in Msg : R!Call(current, target, m)
<1>0. TypeOK /\ CallOf(current) = R!Idle
  BY CurrentNotCalling DEF IInv
<1>c. PICK c \in Slot : c = current
  BY CurrentNotCalling
<1>1. \A j \in Slot \ {c} : Untouched(j)
  BY <1>0, <1>c DEF SendAndWait, TypeOK, Untouched, pcbVars
<1>2. At(c, ptr) \in Msg
  BY <1>0, <1>c, RangeInMemory DEF SendAndWait
<1>3. CallOf(c)' = R!Offered(target, At(c, ptr))
  BY <1>0, <1>c DEF SendAndWait, TypeOK, CallOf, At, BlockedOnSend, R!Offered, pcbVars
<1>4. calls' = [calls EXCEPT ![c] = R!Offered(target, At(c, ptr))]
  BY <1>1, <1>3, OneCallChanges
<1>5. calls[c] = R!Idle /\ c # target /\ UNCHANGED xfer
  BY <1>0, <1>c DEF calls, SendAndWait
<1> QED BY <1>c, <1>2, <1>4, <1>5 DEF R!Call, calls

LEMMA ReceiveFromSenderAccepts ==
  ASSUME IInv, NEW ptr \in Nat, ReceiveFromSender(ptr)
  PROVE  \E c \in Slot, m \in Msg : R!Accept(current, c, m)
<1>0. TypeOK /\ current \in Slot /\ NotCalling(state[current])
  BY CurrentNotCalling DEF IInv
<1>s. PICK s \in Slot : s = FirstSender(current) /\ state[s] = BlockedOnSend(current)
  BY <1>0, FirstSenderSends DEF ReceiveFromSender
<1> DEFINE msg == At(s, ipc_buffer[s])
<1>2. ContainsRange(s, ipc_buffer[s]) /\ ipc_buffer[s] \in Nat
  BY <1>0, <1>s DEF IInv, TypeOK, BlockedBufferInLayer, BlockedOnSend
<1>3. msg \in Msg
  BY <1>0, <1>2, RangeInMemory
<1>4. calls[s] = R!Offered(current, msg)
  BY <1>s DEF calls, CallOf, BlockedOnSend, R!Offered
<1>5. /\ CopyUserMessage(s, ipc_buffer[s], current, ptr)
      /\ ipc_buffer' = [ipc_buffer EXCEPT ![current] = ptr]
      /\ state' = [state EXCEPT ![s] = BlockedOnReply(current)]
      /\ UNCHANGED <<layer_base, current>>
  BY <1>s, <1>2 DEF ReceiveFromSender, pcbVars
<1>6. s # current
  BY <1>0, <1>s DEF NotCalling, BlockedOnSend
<1>7. Quiet(current)
  BY <1>0, <1>5, <1>6 DEF TypeOK, Quiet
<1>8. \A j \in Slot \ {current, s} : Untouched(j)
  BY <1>0, <1>5 DEF CopyUserMessage, TypeOK, Untouched
<1>9. CallOf(s)' = R!Accepted(current)
  BY <1>0, <1>5 DEF TypeOK, CallOf, BlockedOnReply, R!Accepted
<1>10. calls' = [calls EXCEPT ![s] = R!Accepted(current)]
  BY <1>7, <1>8, <1>9, OneCallChanges
<1>11. xfer' = R!Transfer(s, current, msg)
  BY <1>5 DEF CopyUserMessage, R!Transfer
<1>12. R!Accept(current, s, msg)
  BY <1>4, <1>10, <1>11 DEF R!Accept, calls
<1> QED BY <1>3, <1>12

LEMMA ReplyIpcReplies ==
  ASSUME IInv, NEW ptr \in Nat, NEW target \in Slot, ReplyIpc(target, ptr)
  PROVE  \E m \in Msg : R!Reply(current, target, m)
<1>0. TypeOK /\ current \in Slot
  BY CurrentNotCalling DEF IInv
<1>1. \A j \in Slot \ {target} : Untouched(j)
  BY <1>0 DEF ReplyIpc, CopyUserMessage, TypeOK, Untouched, pcbVars
<1>2. CallOf(target)' = R!Idle
  BY <1>0, IdleCall DEF ReplyIpc, TypeOK, NotCalling, Runnable
<1>3. calls' = [calls EXCEPT ![target] = R!Idle]
  BY <1>1, <1>2, OneCallChanges
<1>4. At(current, ptr) \in Msg
  BY <1>0, RangeInMemory DEF ReplyIpc
<1>5. xfer' = R!Transfer(current, target, At(current, ptr))
  BY DEF ReplyIpc, CopyUserMessage, R!Transfer
<1>6. calls[target] = R!Accepted(current)
  BY DEF ReplyIpc, calls, CallOf, BlockedOnReply, R!Accepted
<1> QED BY <1>3, <1>4, <1>5, <1>6 DEF R!Reply, calls

LEMMA NextImplements == IInv /\ [Next]_vars => [R!Next]_<<calls, xfer>>
<1> SUFFICES ASSUME IInv, [Next]_vars PROVE [R!Next]_<<calls, xfer>>
  OBVIOUS
<1>0. /\ TypeOK /\ current \in Slot /\ NotCalling(state[current])
      /\ Ptr \subseteq Nat
  BY CurrentNotCalling, PtrIsNat DEF IInv
<1>1. CASE YieldCpu \/ TimerTick \/ UNCHANGED vars
  <2>1. \A j \in Slot : Untouched(j)
    BY <1>1 DEF YieldCpu, TimerTick, vars, Untouched, pcbVars, ipcVars
  <2>2. UNCHANGED xfer
    BY <1>1 DEF YieldCpu, TimerTick, vars
  <2> QED BY <2>1, <2>2, InvisibleStep
<1>2. CASE Create
  BY <1>2, CreateInvisible
<1>3. CASE ExitProcess
  <2>1. \A j \in Slot \ {current} : Untouched(j)
    BY <1>0, <1>3 DEF ExitProcess, TypeOK, Untouched, pcbVars, ipcVars
  <2>2. Quiet(current)
    BY <1>0, <1>3 DEF ExitProcess, TypeOK, Quiet, NotCalling, Exited
  <2> QED BY <1>3, <2>1, <2>2, InvisibleStep DEF ExitProcess
<1>4. CASE \E pid \in Slot : KillProcess(pid)
  BY <1>4, KillDies DEF R!Next
<1>5. ASSUME NEW ptr \in Ptr, ReceiveAndWait(ptr)
      PROVE  UNCHANGED <<calls, xfer>>
  <2>1. \A j \in Slot \ {current} : Untouched(j)
    BY <1>0, <1>5 DEF ReceiveAndWait, TypeOK, Untouched, pcbVars
  <2>2. Quiet(current)
    BY <1>0, <1>5 DEF ReceiveAndWait, TypeOK, Quiet, NotCalling, BlockedOnReceive
  <2> QED BY <1>5, <2>1, <2>2, InvisibleStep DEF ReceiveAndWait
<1>6. CASE Ipc
  <2>1. PICK ptr \in Ptr :
          \/ \E m \in Msg : UserStore(ptr, m)
          \/ \E target \in Slot : SendToReceiver(target, ptr)
          \/ \E target \in Slot : SendAndWait(target, ptr)
          \/ ReceiveFromSender(ptr)
          \/ ReceiveAndWait(ptr)
          \/ \E target \in Slot : ReplyIpc(target, ptr)
    BY <1>6 DEF Ipc
  <2>2. ptr \in Nat
    BY <1>0
  <2>3. CASE \E m \in Msg : UserStore(ptr, m)
    BY <2>2, <2>3, UserStoreInvisible
  <2>4. CASE \E target \in Slot : SendToReceiver(target, ptr)
    BY <1>0, <2>2, <2>4, SendToReceiverCalls DEF R!Next
  <2>5. CASE \E target \in Slot : SendAndWait(target, ptr)
    BY <1>0, <2>2, <2>5, SendAndWaitCalls DEF R!Next
  <2>6. CASE ReceiveFromSender(ptr)
    BY <1>0, <2>2, <2>6, ReceiveFromSenderAccepts DEF R!Next
  <2>7. CASE ReceiveAndWait(ptr)
    BY <1>5, <2>7
  <2>8. CASE \E target \in Slot : ReplyIpc(target, ptr)
    BY <1>0, <2>2, <2>8, ReplyIpcReplies DEF R!Next
  <2> QED BY <2>1, <2>3, <2>4, <2>5, <2>6, <2>7, <2>8
<1> QED BY <1>1, <1>2, <1>3, <1>4, <1>6 DEF Next

LEMMA InitImplements == Init => R!Init
  BY DEF Init, R!Init, CallOf, R!Idle, Runnable, Empty

(* send_ipc, receive_ipc and reply_ipc implement Rendezvous: each message   *)
(* goes once, unchanged, to the process it was sent to, and its sender is   *)
(* free again only with that process's reply or dead.                       *)
THEOREM ImplementsRendezvousTheorem == Spec => ImplementsRendezvous
<1>1. [Next]_vars /\ IInv => [R!Next]_<<calls, xfer>>
  BY NextImplements
<1>2. ImplementsRendezvous <=> R!Init /\ [][R!Next]_<<calls, xfer>>
  BY DEF ImplementsRendezvous, R!Spec, calls
<1> QED BY <1>1, <1>2, InitImplements, Invariance, PTL DEF Spec

(* The step of WokenWithMessage, for one process *)
Woken(i) ==
  (state[i] = BlockedOnReceive /\ state'[i] = Runnable)
    => /\ xfer' = [src |-> current, dst |-> i, msg |-> At(i, ipc_buffer[i])']
       /\ ipc_peer'[i] = current
       /\ state'[current] = BlockedOnReply(i)

LEMMA ProvisionKeepsLive ==
  ASSUME IInv, FreeSlots # {}, NEW base, NEW size, NEW st,
         Provision(FindFreeSlot, base, size, st), NEW i \in Slot, Live(i)
  PROVE  state'[i] = state[i]
<1>1. i # FindFreeSlot
  BY FindFreeSlotIsFree
<1> QED BY <1>1 DEF Provision, IInv, TypeOK

LEMMA CreateKeepsLive ==
  ASSUME IInv, Create, NEW i \in Slot, Live(i)
  PROVE  state'[i] = state[i]
  BY ProvisionKeepsLive
     DEF Create, SpawnInitialUser, CreateProcess, CreateThread, Exec,
         CompileAndRun, ProvisionPcb, ProvisionPcbElf

(* The CPU's owner is none of the processes suspended in receive_ipc *)
CurrentNotSuspended == current \notin inReceive

LEMMA NextCurrentNotSuspended ==
  ASSUME IInv, CurrentNotSuspended, [Next]_vars
  PROVE  CurrentNotSuspended'
<1> USE DEF CurrentNotSuspended
<1>1. CASE YieldCpu \/ TimerTick \/ UNCHANGED vars
  BY <1>1 DEF YieldCpu, TimerTick, SwitchTo, vars
<1>2. CASE Create
  BY <1>2 DEF Create, SpawnInitialUser, CreateProcess, CreateThread, Exec,
              CompileAndRun, SwitchTo
<1>3. CASE ExitProcess
  BY <1>3 DEF ExitProcess, BlockCurrent, SwitchTo
<1>4. CASE \E pid \in Slot : KillProcess(pid)
  BY <1>4 DEF KillProcess
<1>5. CASE Ipc
  BY <1>5 DEF Ipc, UserStore, SendToReceiver, SendAndWait, ReceiveFromSender,
              ReceiveAndWait, ReplyIpc, BlockCurrent, SwitchTo
<1> QED BY <1>1, <1>2, <1>3, <1>4, <1>5 DEF Next

LEMMA SuspendedInvariance == Spec => [](IInv /\ CurrentNotSuspended)
<1>1. Init => CurrentNotSuspended
  BY DEF Init, CurrentNotSuspended
<1>2. IInv /\ CurrentNotSuspended /\ [Next]_vars => CurrentNotSuspended'
  BY NextCurrentNotSuspended
<1> QED BY <1>1, <1>2, InitIInv, NextIInv, PTL DEF Spec

LEMMA NextWakes ==
  ASSUME IInv, [Next]_vars, NEW i \in Slot
  PROVE  Woken(i)
<1> SUFFICES ASSUME state[i] = BlockedOnReceive, state'[i] = Runnable
             PROVE  /\ xfer' = [src |-> current, dst |-> i,
                                msg |-> At(i, ipc_buffer[i])']
                    /\ ipc_peer'[i] = current
                    /\ state'[current] = BlockedOnReply(i)
  BY DEF Woken
<1>0. TypeOK /\ current \in Slot /\ state'[i] # state[i] /\ Live(i) /\ i # current
  BY DEF IInv, TypeOK, SchedulerSafe, Runnable, BlockedOnReceive, Live
<1>1. ~(YieldCpu \/ TimerTick \/ UNCHANGED vars)
  BY <1>0 DEF YieldCpu, TimerTick, vars
<1>2. ~Create
  BY <1>0, CreateKeepsLive
<1>3. ~ExitProcess
  BY <1>0 DEF ExitProcess, TypeOK
<1>4. ~\E pid \in Slot : KillProcess(pid)
  <2>1. Exited # Runnable
    BY DEF Exited, Runnable
  <2>2. \A pid \in Slot : KillProcess(pid) => state'[i] \in {state[i], Exited}
    BY <1>0 DEF KillProcess, TypeOK
  <2> QED BY <1>0, <2>1, <2>2
<1>5. PICK ptr \in Ptr :
        \/ \E m \in Msg : UserStore(ptr, m)
        \/ \E target \in Slot : SendToReceiver(target, ptr)
        \/ \E target \in Slot : SendAndWait(target, ptr)
        \/ ReceiveFromSender(ptr)
        \/ ReceiveAndWait(ptr)
        \/ \E target \in Slot : ReplyIpc(target, ptr)
  BY <1>1, <1>2, <1>3, <1>4 DEF Next, Ipc
<1>6. ~(\E m \in Msg : UserStore(ptr, m)) /\ ~ReceiveAndWait(ptr)
  BY <1>0 DEF UserStore, ReceiveAndWait, TypeOK
<1>7. ~\E target \in Slot : SendAndWait(target, ptr)
  BY <1>0 DEF SendAndWait, TypeOK
<1>8. ~ReceiveFromSender(ptr)
  <2>1. ASSUME ReceiveFromSender(ptr) PROVE FALSE
    <3>1. FirstSender(current) \in Slot /\ state[FirstSender(current)] = BlockedOnSend(current)
      BY <1>0, <2>1, FirstSenderSends DEF ReceiveFromSender
    <3>2. i # FirstSender(current)
      BY <3>1 DEF BlockedOnSend, BlockedOnReceive
    <3> QED BY <1>0, <2>1, <3>2 DEF ReceiveFromSender, TypeOK
  <2> QED BY <2>1
<1>9. ~\E target \in Slot : ReplyIpc(target, ptr)
  <2>1. BlockedOnReply(current) # BlockedOnReceive
    BY DEF BlockedOnReply, BlockedOnReceive
  <2>2. \A target \in Slot : ReplyIpc(target, ptr) => target # i
    BY <2>1 DEF ReplyIpc
  <2>3. \A target \in Slot : ReplyIpc(target, ptr) => state'[i] = state[i]
    BY <1>0, <2>2 DEF ReplyIpc, TypeOK
  <2> QED BY <1>0, <2>3
<1>10. PICK target \in Slot : SendToReceiver(target, ptr)
  BY <1>5, <1>6, <1>7, <1>8, <1>9
<1>11. target = i
  BY <1>0, <1>10 DEF SendToReceiver, TypeOK
<1>12. ipc_buffer[i] - layer_base[i] \in 0 .. LAYER - 1 /\ ipc_buffer[i] \in Nat
  BY <1>0, <1>10, <1>11, RangeInMemory DEF SendToReceiver, TypeOK
<1>13. ipc_buffer'[i] = ipc_buffer[i] /\ layer_base' = layer_base
  BY <1>0, <1>10, <1>11 DEF SendToReceiver, TypeOK, pcbVars
<1>14. mem'[i][ipc_buffer[i] - layer_base[i]] = At(current, ptr)
  <2> DEFINE k == ipc_buffer[i] - layer_base[i]
             msg == At(current, ptr)
  <2>1. mem' = [mem EXCEPT ![i][k] = msg]
    BY <1>10, <1>11 DEF SendToReceiver, CopyUserMessage
  <2>2. mem \in [Slot -> [0 .. LAYER - 1 -> Msg]] /\ k \in 0 .. LAYER - 1
    BY <1>0, <1>12 DEF TypeOK
  <2> HIDE DEF k, msg
  <2>3. mem'[i] = [mem[i] EXCEPT ![k] = msg]
    BY <2>1, <2>2
  <2>4. mem'[i][k] = msg
    BY <2>2, <2>3
  <2> QED BY <2>4 DEF k, msg
<1>15. At(i, ipc_buffer[i])' = At(current, ptr)
  BY <1>13, <1>14 DEF At
<1>16. xfer' = [src |-> current, dst |-> i, msg |-> At(current, ptr)]
  BY <1>10, <1>11 DEF SendToReceiver, CopyUserMessage
<1>17. ipc_peer'[i] = current /\ state'[current] = BlockedOnReply(i)
  BY <1>0, <1>10, <1>11 DEF SendToReceiver, TypeOK
<1> QED BY <1>15, <1>16, <1>17

(* A process leaves its wait in receive_ipc only with a message in its      *)
(* buffer, from the process that ipc_peer names, which waits for its reply. *)
THEOREM WokenTheorem == Spec => WokenWithMessage
<1>1. IInv /\ [Next]_vars
        => [\A i \in inReceive :
              (state[i] = BlockedOnReceive /\ state'[i] = Runnable)
                => /\ xfer' = [src |-> current, dst |-> i,
                               msg |-> At(i, ipc_buffer[i])']
                   /\ ipc_peer'[i] = current
                   /\ state'[current] = BlockedOnReply(i)]_vars
  BY NextWakes DEF IInv, TypeOK, Woken
<1> QED BY <1>1, Invariance, PTL DEF Spec, WokenWithMessage

(* A process that waits for i's reply leaves that state by i's reply or dead *)
LEMMA NextKeepsCaller ==
  ASSUME IInv, [Next]_vars, NEW i \in Slot, i # current, NEW c \in Slot,
         state[c] = BlockedOnReply(i)
  PROVE  state'[c] \in {BlockedOnReply(i), Exited}
<1>0. TypeOK /\ current \in Slot /\ Live(c) /\ c # current
  BY DEF IInv, TypeOK, SchedulerSafe, Live, Runnable, BlockedOnReply
<1>1. CASE YieldCpu \/ TimerTick \/ UNCHANGED vars
  BY <1>1 DEF YieldCpu, TimerTick, vars
<1>2. CASE Create
  BY <1>0, <1>2, CreateKeepsLive
<1>3. CASE ExitProcess
  BY <1>0, <1>3 DEF ExitProcess, TypeOK
<1>4. CASE \E pid \in Slot : KillProcess(pid)
  BY <1>0, <1>4 DEF KillProcess, TypeOK
<1>5. CASE \E ptr \in Ptr : \/ \E m \in Msg : UserStore(ptr, m)
                            \/ ReceiveAndWait(ptr)
                            \/ \E target \in Slot : SendAndWait(target, ptr)
  BY <1>0, <1>5 DEF UserStore, ReceiveAndWait, SendAndWait, TypeOK
<1>6. CASE \E ptr \in Ptr, target \in Slot : SendToReceiver(target, ptr)
  BY <1>0, <1>6 DEF SendToReceiver, TypeOK, BlockedOnReceive, BlockedOnReply
<1>7. CASE \E ptr \in Ptr : ReceiveFromSender(ptr)
  <2>1. FirstSender(current) \in Slot /\ state[FirstSender(current)] = BlockedOnSend(current)
    BY <1>0, <1>7, FirstSenderSends DEF ReceiveFromSender
  <2>2. c # FirstSender(current)
    BY <2>1 DEF BlockedOnSend, BlockedOnReply
  <2> QED BY <1>0, <1>7, <2>2 DEF ReceiveFromSender, TypeOK
<1>8. CASE \E ptr \in Ptr, target \in Slot : ReplyIpc(target, ptr)
  <2>1. PICK ptr \in Ptr, target \in Slot : ReplyIpc(target, ptr)
    BY <1>8
  <2>2. c # target
    BY <2>1 DEF ReplyIpc, BlockedOnReply
  <2> QED BY <1>0, <2>1, <2>2 DEF ReplyIpc, TypeOK
<1> QED BY <1>1, <1>2, <1>3, <1>4, <1>5, <1>6, <1>7, <1>8 DEF Next, Ipc

(* Until a woken receiver runs, its caller goes on waiting for it or is     *)
(* killed: nobody else can take the reply that receive_ipc's caller owes.   *)
THEOREM CallerWaitsTheorem == Spec => CallerWaitsForReceiver
<1>1. IInv /\ CurrentNotSuspended /\ [Next]_vars
        => [\A i \in inReceive :
              LET caller == ipc_peer[i] IN
                (state[i] = Runnable /\ state[caller] = BlockedOnReply(i))
                  => state'[caller] \in {BlockedOnReply(i), Exited}]_vars
  BY NextKeepsCaller DEF IInv, TypeOK, CurrentNotSuspended
<1> QED BY <1>1, SuspendedInvariance, PTL DEF Spec, CallerWaitsForReceiver

-----------------------------------------------------------------------------
(* Round robin *)

LEMMA NextRunnablePassesOn ==
  ASSUME NEW st \in [Slot -> ProcessState], NEW c \in Slot \ {0}, st[0] = Runnable
  PROVE  PassesOn(st, c, NextRunnableAfter(st, c))
<1> DEFINE N == MAX_PROCESSES
           steps == RunnableSteps(st, c)
           first == CHOOSE n \in steps : \A m \in steps : n <= m
<1>0. N \in Nat /\ c \in Nat /\ 0 < c /\ c < N
  BY ProcessesAssumption DEF Slot
<1>1. \A n \in 1 .. N : n < N - c => (c + n) % N = c + n
  BY <1>0
<1>2. N - c \in 1 .. N /\ (c + (N - c)) % N = 0
  BY <1>0
<1>3. N - c \in steps
  BY <1>2 DEF RunnableSteps
<1>4. steps \in SUBSET (1 .. N)
  BY DEF RunnableSteps
<1>5. \E n \in steps : \A m \in steps : n <= m
  <2>1. steps \in SUBSET Nat
    BY <1>0, <1>4
  <2> HIDE DEF steps
  <2> QED BY <1>3, <2>1, MinExists
<1>6. first \in steps /\ \A m \in steps : first <= m
  <2> HIDE DEF steps
  <2> QED BY <1>5
<1>7. NextRunnableAfter(st, c) = (c + first) % N
  BY DEF NextRunnableAfter
<1> HIDE DEF first, steps
<1>8. first \in 1 .. N /\ first <= N - c
  BY <1>3, <1>4, <1>6
<1>9. ASSUME NEW j \in Slot, c < j, j < c + first PROVE st[j] # Runnable
  <2>1. j \in Nat /\ j < N
    BY <1>0 DEF Slot
  <2>2. j - c \in 1 .. N /\ j - c < N - c /\ c + (j - c) = j /\ j - c < first
    BY <1>0, <1>8, <1>9, <2>1
  <2>3. j - c \notin steps
    BY <1>4, <1>6, <1>8, <2>2
  <2>4. (c + (j - c)) % N = j
    BY <1>1, <2>2
  <2> QED BY <2>2, <2>3, <2>4 DEF steps, RunnableSteps
<1>10. CASE first = N - c
  <2>1. NextRunnableAfter(st, c) = 0
    BY <1>2, <1>7, <1>10
  <2>2. c + first = N /\ \A j \in Slot : j < N
    BY <1>0, <1>10 DEF Slot
  <2> QED BY <1>9, <2>1, <2>2 DEF PassesOn
<1>11. CASE first # N - c
  <2>1. (c + first) % N = c + first /\ c + first > c /\ c + first # 0
    BY <1>0, <1>1, <1>8, <1>11
  <2> QED BY <1>7, <1>9, <2>1 DEF PassesOn
<1> QED BY <1>10, <1>11

LEMMA PassesOnMoves ==
  ASSUME NEW st, NEW c \in Slot \ {0}, NEW n, PassesOn(st, c, n)
  PROVE  n # c
<1>1. c \in Nat \ {0}
  BY SlotFacts
<1> QED BY <1>1 DEF PassesOn

LEMMA NextRoundRobin ==
  ASSUME IInv, [Next]_vars, current # 0
  PROVE  /\ current' = current \/ PassesOn(state', current, current')
         /\ GiveUpCpu => current' # current
<1>0. /\ state \in [Slot -> ProcessState] /\ state[0] = Runnable /\ current \in Slot \ {0}
      /\ IInv' /\ state' \in [Slot -> ProcessState] /\ state'[0] = Runnable
  BY NextIInv DEF IInv, TypeOK, SchedulerSafe
<1>1. PassesOn(state', current, NextRunnableAfter(state', current))
  BY <1>0, NextRunnablePassesOn
<1>2. ASSUME NEW s, BlockCurrent(state', s) PROVE PassesOn(state', current, current')
  <2>1. RunnableSteps(state', current) # {}
    BY <1>0, NextRunnableIsRunnable
  <2> QED BY <1>1, <1>2, <2>1 DEF BlockCurrent, SwitchTo
<1>3. GiveUpCpu => PassesOn(state', current, current')
  <2>1. YieldCpu => PassesOn(state', current, current')
    BY <1>1 DEF YieldCpu, SwitchTo
  <2> QED BY <1>2, <2>1 DEF GiveUpCpu, ExitProcess, ReceiveAndWait, SendToReceiver, SendAndWait
<1>4. TimerTick => current' = current \/ PassesOn(state', current, current')
  BY <1>1 DEF TimerTick, SwitchTo
<1>5. Create => current' = current
  BY DEF Create, SpawnInitialUser, CreateProcess, CreateThread, Exec, CompileAndRun
<1>6. Next => \/ GiveUpCpu \/ TimerTick \/ Create \/ current' = current
  BY DEF Next, GiveUpCpu, Ipc, KillProcess, UserStore, ReceiveFromSender, ReplyIpc
<1>7. GiveUpCpu => current' # current
  BY <1>0, <1>3, PassesOnMoves
<1> QED BY <1>3, <1>4, <1>5, <1>6, <1>7 DEF vars

(* The part of ShellRegainsCpu that needs no fairness: every time a program  *)
(* gives up the CPU or is preempted, it goes to the next runnable slot above *)
(* or, when there is none, to the shell.                                     *)
THEOREM SchedulerRoundRobin == Spec => RoundRobin
<1>1. IInv /\ [Next]_vars
        => [current # 0 => /\ current' = current \/ PassesOn(state', current, current')
                           /\ GiveUpCpu => current' # current]_vars
  BY NextRoundRobin
<1> QED BY <1>1, Invariance, PTL DEF Spec, RoundRobin
=============================================================================
