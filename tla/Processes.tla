------------------------------ MODULE Processes ------------------------------
(***************************************************************************)
(* The process table, the round-robin scheduler and the rendezvous IPC of  *)
(* kernel/src/syscall.rs, with the parts of elf.rs, barrelc.rs, apic.rs    *)
(* and idt.rs that create, start or preempt a process.                     *)
(*                                                                         *)
(* One CPU runs the process table (the other cores never touch it), with   *)
(* interrupts masked for as long as a system call lasts.  A system call is *)
(* therefore one step, up to the context switch that may end it: the       *)
(* process that is switched to goes on in the same step to the point where *)
(* its own system call returns.  A call that only returns an error code    *)
(* changes nothing and is a stuttering step.                               *)
(*                                                                         *)
(* Addresses count in units of one IPC message (IPC_MESSAGE_SIZE bytes),   *)
(* and a message is one value: the 64 bytes are copied as a whole because  *)
(* nothing can run between two of them.                                    *)
(***************************************************************************)
EXTENDS Integers, FiniteSets

CONSTANTS
  MAX_PROCESSES,  \* slots of PROCESS_TABLE; slot 0 is the kernel thread (shell)
  LAYER,          \* EPHEMERAL_BYTES_PER_PROCESS, in messages
  QUANTUM,        \* ticks between two preemptions, 5 in timer_tick_handler
  APIC_READY,     \* apic.rs: no statement of the kernel ever makes it true
  Msg,            \* contents of a message
  ZeroMsg         \* the content of memory that alloc_frame has just zeroed

ASSUME ProcessesAssumption ==
  /\ MAX_PROCESSES \in Nat \ {0}
  /\ LAYER \in Nat \ {0}
  /\ QUANTUM \in Nat \ {0}
  /\ APIC_READY \in BOOLEAN
  /\ ZeroMsg \in Msg

Slot == 0 .. MAX_PROCESSES - 1

(* enum ProcessState: the tag, and the slot number two of the variants carry *)
Empty            == [tag |-> "Empty",            proc |-> 0]
Runnable         == [tag |-> "Runnable",         proc |-> 0]
BlockedOnReceive == [tag |-> "BlockedOnReceive", proc |-> 0]
Exited           == [tag |-> "Exited",           proc |-> 0]
BlockedOnSend(target) == [tag |-> "BlockedOnSend", proc |-> target]
BlockedOnReply(peer)  == [tag |-> "BlockedOnReply", proc |-> peer]

ProcessState ==
  {Empty, Runnable, BlockedOnReceive, Exited}
    \cup {BlockedOnSend(t) : t \in Slot} \cup {BlockedOnReply(p) : p \in Slot}

VARIABLES
  state,       \* PROCESS_TABLE[i].state
  layer_base,  \* PROCESS_TABLE[i].layer_base
  layer_size,  \* PROCESS_TABLE[i].layer_size
  ipc_buffer,  \* PROCESS_TABLE[i].ipc_buffer
  ipc_peer,    \* PROCESS_TABLE[i].ipc_peer
  current,     \* CURRENT_PROCESS_ID
  quantum,     \* PREEMPT_QUANTUM
  inReceive,   \* the processes suspended in receive_ipc's block_current
  mem,         \* mem[i][k]: message k of the layer of process i
  xfer         \* the last copy_user_message (history: nothing reads it)

vars == <<state, layer_base, layer_size, ipc_buffer, ipc_peer, current,
          quantum, inReceive, mem, xfer>>

pcbVars == <<layer_base, layer_size>>
ipcVars == <<ipc_buffer, ipc_peer>>

NoXfer == [src |-> 0, dst |-> 0, msg |-> ZeroMsg]
Xfer   == [src : Slot, dst : Slot, msg : Msg]

Live(i) == state[i].tag \notin {"Empty", "Exited"}

(* ProcessControlBlock::contains_range for a message at ptr *)
ContainsRange(i, ptr) ==
  /\ ptr >= layer_base[i]
  /\ ptr + 1 <= layer_base[i] + layer_size[i]

(* The message a process has at a pointer of its layer *)
At(i, ptr) == mem[i][ptr - layer_base[i]]

-----------------------------------------------------------------------------
(* Scheduling *)

(* Mutant: slot 0 is taken only when nothing else is runnable, like an idle *)
(* thread                                                                   *)
RunnableStepsIdle(st, c) ==
  LET all == {n \in 1 .. MAX_PROCESSES : st[(c + n) % MAX_PROCESSES] = Runnable}
      users == {n \in all : (c + n) % MAX_PROCESSES # 0}
  IN  IF users = {} THEN all ELSE users

(* next_runnable_after: the first runnable slot at distance 1, 2, ... from  *)
(* c, which is c itself when no other slot is runnable.                     *)
RunnableSteps(st, c) ==
  {n \in 1 .. MAX_PROCESSES : st[(c + n) % MAX_PROCESSES] = Runnable}

NextRunnableAfter(st, c) ==
  LET first == CHOOSE n \in RunnableSteps(st, c) :
                 \A m \in RunnableSteps(st, c) : n <= m
  IN  (c + first) % MAX_PROCESSES

(* switch_context: the process that gets the CPU leaves receive_ipc, if it  *)
(* is one of those that were suspended there.                               *)
SwitchTo(next, suspended) ==
  /\ current' = next
  /\ inReceive' = suspended \ {next}

(* block_current, once the caller has stored the process's new state in st: *)
(* with nothing runnable it halts in place.                                 *)
BlockCurrent(st, suspended) ==
  SwitchTo(IF RunnableSteps(st, current) = {}
           THEN current ELSE NextRunnableAfter(st, current), suspended)

(* yield_cpu, and each turn of the waiting loop of sys_input *)
YieldCpu ==
  /\ current # 0
  /\ SwitchTo(NextRunnableAfter(state, current), inReceive)
  /\ UNCHANGED <<state, pcbVars, ipcVars, quantum, mem, xfer>>

(* Mutant: the quantum is compared with > *)
TimerTickLate ==
  /\ APIC_READY
  /\ current # 0
  /\ IF quantum + 1 > QUANTUM
     THEN /\ quantum' = 0
          /\ SwitchTo(NextRunnableAfter(state, current), inReceive)
     ELSE /\ quantum' = quantum + 1
          /\ UNCHANGED <<current, inReceive>>
  /\ UNCHANGED <<state, pcbVars, ipcVars, mem, xfer>>

(* timer_stub, apic::timer_tick and timer_tick_handler: the shell is never  *)
(* preempted, another process is every QUANTUM ticks.  main.rs leaves the   *)
(* timer off, and APIC_READY false: with it true the module is the kernel   *)
(* that the handler was written for.                                        *)
TimerTick ==
  /\ APIC_READY
  /\ current # 0
  /\ IF quantum + 1 >= QUANTUM
     THEN /\ quantum' = 0
          /\ SwitchTo(NextRunnableAfter(state, current), inReceive)
     ELSE /\ quantum' = quantum + 1
          /\ UNCHANGED <<current, inReceive>>
  /\ UNCHANGED <<state, pcbVars, ipcVars, mem, xfer>>

-----------------------------------------------------------------------------
(* Creation and termination *)

(* find_free_slot: slot 0 is never handed out *)
FreeSlots == {i \in Slot \ {0} : ~Live(i)}
FindFreeSlot == CHOOSE i \in FreeSlots : \A j \in FreeSlots : i <= j

(* provision_pcb and provision_pcb_elf: every field of the PCB is reset.    *)
(* An ordinary process gets the layer of its slot, a loaded one the range   *)
(* of its segments.                                                         *)
Provision(i, base, size, st) ==
  /\ state' = [state EXCEPT ![i] = st]
  /\ layer_base' = [layer_base EXCEPT ![i] = base]
  /\ layer_size' = [layer_size EXCEPT ![i] = size]
  /\ ipc_buffer' = [ipc_buffer EXCEPT ![i] = 0]
  /\ ipc_peer' = [ipc_peer EXCEPT ![i] = 0]
  /\ mem' = [mem EXCEPT ![i] = [k \in 0 .. LAYER - 1 |-> ZeroMsg]]

ProvisionPcb(i, st) == Provision(i, i * LAYER, LAYER, st)

(* The segments of an ELF file may lie anywhere and be of any size; the     *)
(* files here are linked where no layer is.                                 *)
ElfBase == MAX_PROCESSES * LAYER
ProvisionPcbElf(i, size) == Provision(i, ElfBase, size, Runnable)

(* spawn_initial_user, from the shell's demo command.  The slot is runnable *)
(* before its pages are mapped, and stays so when mapping them fails.       *)
SpawnInitialUser ==
  /\ current = 0
  /\ FreeSlots # {}
  /\ ProvisionPcb(FindFreeSlot, Runnable)
  /\ UNCHANGED <<current, quantum, inReceive, xfer>>

(* create_process (syscall 3) *)
CreateProcess ==
  /\ current # 0
  /\ FreeSlots # {}
  /\ ProvisionPcb(FindFreeSlot, Runnable)
  /\ UNCHANGED <<current, quantum, inReceive, xfer>>

(* create_thread (syscall 4): the stack must be 0 or lie in the NEW         *)
(* process's layer, else the slot that was just provisioned is Exited.      *)
CreateThread(stackOk) ==
  /\ current # 0
  /\ FreeSlots # {}
  /\ ProvisionPcb(FindFreeSlot, IF stackOk THEN Runnable ELSE Exited)
  /\ UNCHANGED <<current, quantum, inReceive, xfer>>

(* elf::exec, from the shell, the file manager or syscall 15, of a file     *)
(* whose pages could all be allocated; a failed load leaves the slot free.  *)
Exec(size) ==
  /\ FreeSlots # {}
  /\ ProvisionPcbElf(FindFreeSlot, size)
  /\ UNCHANGED <<current, quantum, inReceive, xfer>>

(* barrelc::compile_and_run: exec, then run_slot of the new process *)
CompileAndRun(size) ==
  /\ current = 0
  /\ FreeSlots # {}
  /\ ProvisionPcbElf(FindFreeSlot, size)
  /\ SwitchTo(FindFreeSlot, inReceive)
  /\ UNCHANGED <<quantum, xfer>>

(* exit_process (syscall 6): nobody who waits for this process is woken *)
ExitProcess ==
  /\ current # 0
  /\ state' = [state EXCEPT ![current] = Exited]
  /\ BlockCurrent(state', inReceive)
  /\ UNCHANGED <<pcbVars, ipcVars, quantum, mem, xfer>>

(* Mutant: without the refusal to kill the caller *)
KillProcessAny(pid) ==
  /\ current = 0
  /\ Live(pid)
  /\ state' = [state EXCEPT ![pid] = Exited]
  /\ inReceive' = inReceive \ {pid}
  /\ UNCHANGED <<pcbVars, ipcVars, current, quantum, mem, xfer>>

(* kill_process, from the shell's kill command: any live process but the    *)
(* shell itself.  A process killed inside receive_ipc never returns from it. *)
KillProcess(pid) ==
  /\ current = 0
  /\ pid # current
  /\ Live(pid)
  /\ state' = [state EXCEPT ![pid] = Exited]
  /\ inReceive' = inReceive \ {pid}
  /\ UNCHANGED <<pcbVars, ipcVars, current, quantum, mem, xfer>>

-----------------------------------------------------------------------------
(* Rendezvous IPC *)

(* The user program stores a message in its own layer *)
UserStore(ptr, m) ==
  /\ current # 0
  /\ ContainsRange(current, ptr)
  /\ mem' = [mem EXCEPT ![current][ptr - layer_base[current]] = m]
  /\ UNCHANGED <<state, pcbVars, ipcVars, current, quantum, inReceive, xfer>>

(* copy_user_message *)
CopyUserMessage(src, srcPtr, dst, dstPtr) ==
  /\ mem' = [mem EXCEPT ![dst][dstPtr - layer_base[dst]] = At(src, srcPtr)]
  /\ xfer' = [src |-> src, dst |-> dst, msg |-> At(src, srcPtr)]

(* Mutant: the receiver is not told who called *)
SendToReceiverUnnamed(target, ptr) ==
  /\ current # 0
  /\ target # current
  /\ ContainsRange(current, ptr)
  /\ state[target] = BlockedOnReceive
  /\ ContainsRange(target, ipc_buffer[target])
  /\ CopyUserMessage(current, ptr, target, ipc_buffer[target])
  /\ ipc_buffer' = [ipc_buffer EXCEPT ![current] = ptr]
  /\ state' = [state EXCEPT ![target] = Runnable,
                            ![current] = BlockedOnReply(target)]
  /\ BlockCurrent(state', inReceive)
  /\ UNCHANGED <<pcbVars, ipc_peer, quantum>>

(* send_ipc (syscall 7) to a process that already waits in receive_ipc *)
SendToReceiver(target, ptr) ==
  /\ current # 0
  /\ target # current
  /\ ContainsRange(current, ptr)
  /\ state[target] = BlockedOnReceive
  /\ ContainsRange(target, ipc_buffer[target])
  /\ CopyUserMessage(current, ptr, target, ipc_buffer[target])
  /\ ipc_peer' = [ipc_peer EXCEPT ![target] = current]
  /\ ipc_buffer' = [ipc_buffer EXCEPT ![current] = ptr]
  /\ state' = [state EXCEPT ![target] = Runnable,
                            ![current] = BlockedOnReply(target)]
  /\ BlockCurrent(state', inReceive)
  /\ UNCHANGED <<pcbVars, quantum>>

(* Mutant: without the check of the sender's buffer *)
SendAndWaitUnchecked(target, ptr) ==
  /\ current # 0
  /\ target # current
  /\ Live(target)
  /\ state[target] # BlockedOnReceive
  /\ ipc_buffer' = [ipc_buffer EXCEPT ![current] = ptr]
  /\ state' = [state EXCEPT ![current] = BlockedOnSend(target)]
  /\ BlockCurrent(state', inReceive)
  /\ UNCHANGED <<pcbVars, ipc_peer, quantum, mem, xfer>>

(* send_ipc to a live process that is doing something else *)
SendAndWait(target, ptr) ==
  /\ current # 0
  /\ target # current
  /\ Live(target)
  /\ ContainsRange(current, ptr)
  /\ state[target] # BlockedOnReceive
  /\ ipc_buffer' = [ipc_buffer EXCEPT ![current] = ptr]
  /\ state' = [state EXCEPT ![current] = BlockedOnSend(target)]
  /\ BlockCurrent(state', inReceive)
  /\ UNCHANGED <<pcbVars, ipc_peer, quantum, mem, xfer>>

(* The senders receive_ipc finds, and the one its scan stops at *)
Senders(i) == {s \in Slot : state[s] = BlockedOnSend(i)}
FirstSender(i) == CHOOSE s \in Senders(i) : \A t \in Senders(i) : s <= t

(* Mutant: the sender stays BlockedOnSend, and is received from again *)
ReceiveFromSenderAgain(ptr) ==
  /\ current # 0
  /\ ContainsRange(current, ptr)
  /\ Senders(current) # {}
  /\ LET sender == FirstSender(current)
     IN  CopyUserMessage(sender, ipc_buffer[sender], current, ptr)
  /\ ipc_buffer' = [ipc_buffer EXCEPT ![current] = ptr]
  /\ UNCHANGED <<state, pcbVars, ipc_peer, current, quantum, inReceive>>

(* receive_ipc (syscall 8) with a sender waiting; ipc_peer is left alone.   *)
(* A sender whose buffer is not in its layer would be made Exited.          *)
ReceiveFromSender(ptr) ==
  /\ current # 0
  /\ ContainsRange(current, ptr)
  /\ Senders(current) # {}
  /\ LET sender == FirstSender(current)
         src == ipc_buffer[sender]
     IN  IF ContainsRange(sender, src)
         THEN /\ CopyUserMessage(sender, src, current, ptr)
              /\ ipc_buffer' = [ipc_buffer EXCEPT ![current] = ptr]
              /\ state' = [state EXCEPT ![sender] = BlockedOnReply(current)]
         ELSE /\ state' = [state EXCEPT ![sender] = Exited]
              /\ UNCHANGED <<mem, xfer, ipc_buffer>>
  /\ UNCHANGED <<pcbVars, ipc_peer, current, quantum, inReceive>>

(* receive_ipc with no sender: block until one comes *)
ReceiveAndWait(ptr) ==
  /\ current # 0
  /\ ContainsRange(current, ptr)
  /\ Senders(current) = {}
  /\ ipc_buffer' = [ipc_buffer EXCEPT ![current] = ptr]
  /\ ipc_peer' = [ipc_peer EXCEPT ![current] = 0]
  /\ state' = [state EXCEPT ![current] = BlockedOnReceive]
  /\ BlockCurrent(state', inReceive \cup {current})
  /\ UNCHANGED <<pcbVars, quantum, mem, xfer>>

(* Mutant: any process may answer one that waits for a reply *)
ReplyIpcToAny(target, ptr) ==
  /\ current # 0
  /\ ContainsRange(current, ptr)
  /\ state[target].tag = "BlockedOnReply"
  /\ ContainsRange(target, ipc_buffer[target])
  /\ CopyUserMessage(current, ptr, target, ipc_buffer[target])
  /\ ipc_peer' = [ipc_peer EXCEPT ![target] = current]
  /\ ipc_buffer' = [ipc_buffer EXCEPT ![target] = 0]
  /\ state' = [state EXCEPT ![target] = Runnable]
  /\ UNCHANGED <<pcbVars, current, quantum, inReceive>>

(* reply_ipc (syscall 9): only to a process that waits for this one's reply *)
ReplyIpc(target, ptr) ==
  /\ current # 0
  /\ ContainsRange(current, ptr)
  /\ state[target] = BlockedOnReply(current)
  /\ ContainsRange(target, ipc_buffer[target])
  /\ CopyUserMessage(current, ptr, target, ipc_buffer[target])
  /\ ipc_peer' = [ipc_peer EXCEPT ![target] = current]
  /\ ipc_buffer' = [ipc_buffer EXCEPT ![target] = 0]
  /\ state' = [state EXCEPT ![target] = Runnable]
  /\ UNCHANGED <<pcbVars, current, quantum, inReceive>>

-----------------------------------------------------------------------------
(* init_process_manager: only the kernel thread exists, and it is running *)
Init ==
  /\ state = [i \in Slot |-> IF i = 0 THEN Runnable ELSE Empty]
  /\ layer_base = [i \in Slot |-> 0]
  /\ layer_size = [i \in Slot |-> IF i = 0 THEN LAYER ELSE 0]
  /\ ipc_buffer = [i \in Slot |-> 0]
  /\ ipc_peer = [i \in Slot |-> 0]
  /\ current = 0
  /\ quantum = 0
  /\ inReceive = {}
  /\ mem = [i \in Slot |-> [k \in 0 .. LAYER - 1 |-> ZeroMsg]]
  /\ xfer = NoXfer

(* The pointers a program may pass: those of its layer (others are refused) *)
Ptr == 0 .. (MAX_PROCESSES + 1) * LAYER - 1

Create ==
  \/ SpawnInitialUser
  \/ CreateProcess
  \/ \E ok \in BOOLEAN : CreateThread(ok)
  \/ \E size \in 0 .. LAYER : Exec(size)
  \/ \E size \in 0 .. LAYER : CompileAndRun(size)

Ipc ==
  \E ptr \in Ptr :
    \/ \E m \in Msg : UserStore(ptr, m)
    \/ \E target \in Slot : SendToReceiver(target, ptr)
    \/ \E target \in Slot : SendAndWait(target, ptr)
    \/ ReceiveFromSender(ptr)
    \/ ReceiveAndWait(ptr)
    \/ \E target \in Slot : ReplyIpc(target, ptr)

Next ==
  \/ YieldCpu
  \/ TimerTick
  \/ Create
  \/ ExitProcess
  \/ \E pid \in Slot : KillProcess(pid)
  \/ Ipc

Spec == Init /\ [][Next]_vars

(* The system calls after which another process runs *)
GiveUpCpu ==
  \/ YieldCpu
  \/ ExitProcess
  \/ \E ptr \in Ptr : \/ ReceiveAndWait(ptr)
                     \/ \E target \in Slot : \/ SendToReceiver(target, ptr)
                                            \/ SendAndWait(target, ptr)

(* A timer that is on keeps ticking, whatever the program does *)
TimerSpec == Spec /\ WF_vars(TimerTick)

-----------------------------------------------------------------------------
(* Properties *)

(* Every field of the process table, and the memory of the layers, keeps    *)
(* its type; in particular PREEMPT_QUANTUM stays below QUANTUM.             *)
TypeOK ==
  /\ state \in [Slot -> ProcessState]
  /\ layer_base \in [Slot -> Nat]
  /\ layer_size \in [Slot -> 0 .. LAYER]
  /\ ipc_buffer \in [Slot -> Nat]
  /\ ipc_peer \in [Slot -> Slot]
  /\ current \in Slot
  /\ quantum \in 0 .. QUANTUM - 1
  /\ inReceive \subseteq Slot
  /\ mem \in [Slot -> [0 .. LAYER - 1 -> Msg]]
  /\ xfer \in Xfer

(* The process that has the CPU is runnable, and so is the kernel thread,   *)
(* whatever is killed, exits or blocks: block_current always finds a        *)
(* process to switch to and its hlt loop is never entered.                  *)
SchedulerSafe ==
  /\ state[current] = Runnable
  /\ state[0] = Runnable

(* The buffer a blocked process has registered is a message of its own      *)
(* layer, also after its slot was reused by a program with another layer:   *)
(* the second contains_range checks of send_ipc, receive_ipc and reply_ipc  *)
(* never fail, so receive_ipc never makes a sender Exited behind its back.  *)
BlockedBufferInLayer ==
  \A i \in Slot :
    state[i].tag \in {"BlockedOnSend", "BlockedOnReceive", "BlockedOnReply"}
      => ContainsRange(i, ipc_buffer[i])

(* A process suspended in receive_ipc is woken only by the copy of a        *)
(* message into its buffer, by a sender that ipc_peer names and that now    *)
(* waits for its reply.                                                     *)
WokenWithMessage ==
  [][\A i \in inReceive :
       (state[i] = BlockedOnReceive /\ state'[i] = Runnable)
         => /\ xfer' = [src |-> current, dst |-> i, msg |-> At(i, ipc_buffer[i])']
            /\ ipc_peer'[i] = current
            /\ state'[current] = BlockedOnReply(i)]_vars

(* Until a woken receiver runs, its caller goes on waiting for the reply,   *)
(* unless it is killed: the id receive_ipc returns is not stale by itself.  *)
CallerWaitsForReceiver ==
  [][\A i \in inReceive :
       LET caller == ipc_peer[i] IN
         (state[i] = Runnable /\ state[caller] = BlockedOnReply(i))
           => state'[caller] \in {BlockedOnReply(i), Exited}]_vars

(* The CPU goes from slot c up to slot n or back to the kernel thread, and   *)
(* passes over no runnable slot                                              *)
PassesOn(st, c, n) ==
  /\ n = 0 \/ n > c
  /\ \A j \in Slot : c < j /\ (n = 0 \/ j < n) => st[j] # Runnable

(* next_runnable_after, yield_cpu, block_current: while a program runs, the  *)
(* CPU moves only upwards, slot by runnable slot, or back to the kernel      *)
(* thread, and a program that gives it up always passes it on.  So at most   *)
(* MAX_PROCESSES - 1 programs run before the shell does, whatever they       *)
(* create, kill and wake on the way.                                         *)
RoundRobin ==
  [][current # 0 => /\ current' = current \/ PassesOn(state', current, current')
                    /\ GiveUpCpu => current' # current]_vars

(* read.md, "Preemptive Round-Robin", and the comment of timer_tick_handler: *)
(* the timer takes the CPU from a program that never gives it up.            *)
TimerPreempts == \A i \in Slot \ {0} : (current = i) ~> (current # i)
=============================================================================
