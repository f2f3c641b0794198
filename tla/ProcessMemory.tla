---------------------------- MODULE ProcessMemory ----------------------------
(***************************************************************************)
(* The physical memory of processes: what spawn_initial_user,              *)
(* create_process, elf::exec, memory_allocate, exit_process and            *)
(* kill_process do with frames and page tables (kernel/src/syscall.rs,     *)
(* elf.rs, cpu.rs, frame.rs).                                              *)
(*                                                                         *)
(* A process keeps its frames in a list: frames_head, and in the first     *)
(* word of each frame the next one.  Its address space is a PML4 of its    *)
(* own whose 512 entries are copied from the PML4 in CR3, so everything    *)
(* below an entry that was present is shared with the creator: the         *)
(* identity map always, the tables of layers and of loaded programs when   *)
(* the creator has them.                                                   *)
(*                                                                         *)
(* A handler that loops over pages or frames is one step per iteration; it *)
(* runs with interrupts masked, so nothing else can step while the job it  *)
(* has under way lasts.  Whether a process is blocked or running makes no  *)
(* difference here; Processes has that.                                    *)
(***************************************************************************)
EXTENDS Integers, FiniteSets

CONSTANTS
  SLOTS,          \* user slots 1 .. SLOTS
  FRAMES,         \* whole frames in the pool
  LAYER_PAGES,    \* pages of an ephemeral layer
  CODE_PAGES,     \* pages of code a loaded or spawned program has
  STACK_PAGES,    \* pages of its stack
  PROGRAMS,       \* programs made in one behaviour: a bound of the model
  UserWord        \* what programs store to the first word of their pages

ASSUME ProcessMemoryAssumption ==
  /\ SLOTS \in Nat \ {0}
  /\ FRAMES \in Nat
  /\ LAYER_PAGES \in Nat \ {0}
  /\ CODE_PAGES \in 1 .. LAYER_PAGES
  /\ STACK_PAGES \in Nat
  /\ PROGRAMS \in Nat
  /\ UserWord \subseteq 0 .. FRAMES + 1

Slot  == 1 .. SLOTS
Frame == 1 .. FRAMES
Page  == 0 .. LAYER_PAGES + STACK_PAGES - 1

(* What the first word of a page of machine code or data is, when it is     *)
(* read as an address: neither null nor the address of a frame.             *)
CodeWord == FRAMES + 1

(* Where pages lie.  Area i is the layer of slot i; then come the addresses *)
(* that loaded programs are linked at, high (LOAD_VADDR of barrelc.rs) and  *)
(* low (0x400000, inside the identity map), the pages of the kernel image   *)
(* that hold user_demo, and those that hold USER_STACKS[i].                 *)
LoadAt     == SLOTS + 1
LowAt      == SLOTS + 2
CodeAt     == SLOTS + 3
StackAt(i) == SLOTS + 3 + i
Area       == 1 .. SLOTS + 3 + SLOTS
LowArea    == LowAt .. SLOTS + 3 + SLOTS

(* Two entries of the PML4 that the firmware leaves empty *)
Region == {"layers", "load"}
RegionOf(a) == IF a = LoadAt THEN "load" ELSE "layers"

(* The table that a PML4 entry names: a frame, or the identity map of the   *)
(* firmware, or 0 for none.  The levels below it are taken as one table of  *)
(* the region and one for each area in it.                                  *)
Firmware == FRAMES + 1
Root == 0 .. FRAMES + 1

VARIABLES
  pool_next, free_list_head, word,  \* the allocator: see FrameAllocator
  live,         \* live[i]: slot i is neither Empty nor Exited
  frames_head,  \* PROCESS_TABLE[i].frames_head
  next_free,    \* PROCESS_TABLE[i].next_free, in pages from layer_base
  layer_base,   \* PROCESS_TABLE[i].layer_base: the area
  layer_pages,  \* PROCESS_TABLE[i].layer_size, in pages
  pml4,         \* pml4[i][r]: what the slot's PML4 has for region r
  lower,        \* lower[t]: the areas that have their tables below t
  pte,          \* pte[t][<<a, p>>]: the frame that page p of area a is mapped
                \* to below t, or 0 (in the identity map: itself)
  job,          \* the handler under way
  huge,         \* the firmware has mapped physical memory with huge pages
  halted,       \* a fault in the kernel has stopped the machine, or a program
                \* stored to a page table: nothing is followed from there
  held,         \* history: frames allocated for the pages of the slot's program
  origin,       \* history: which handler made the program in slot i
  made,         \* history: how many programs there have been
  tables,       \* history: frames made page tables, which are never freed
  cut,          \* history: slots with a frame whose first word was stored to
  stray         \* history: some program stored the address of a frame there

allocVars == <<pool_next, free_list_head, word>>
pcbVars == <<live, frames_head, next_free, layer_base, layer_pages>>
mapVars == <<pml4, lower, pte, huge>>
histVars == <<held, origin, made, tables, cut, stray>>
vars == <<allocVars, pcbVars, mapVars, job, halted, histVars>>

NoJob == [op |-> "none", slot |-> 0, area |-> 0, page |-> 0, end |-> 0, frame |-> 0]
Job(op, i, a, page, end) ==
  [op |-> op, slot |-> i, area |-> a, page |-> page, end |-> end, frame |-> 0]

NoTable  == [r \in Region |-> 0]
Unmapped == [v \in Area \X Page |-> 0]
Idle == job.op = "none" /\ ~halted

RootOf(i, a) == IF a \in LowArea THEN Firmware ELSE pml4[i][RegionOf(a)]

(* The frame that page p of the slot's own layer is mapped to *)
Mapping(i, p) == pte[RootOf(i, layer_base[i])][<<layer_base[i], p>>]

-----------------------------------------------------------------------------
(* frame.rs *)

Exhausted == free_list_head = 0 /\ pool_next > FRAMES
TopFrame == IF free_list_head # 0 THEN free_list_head ELSE pool_next

(* Mutant: the head of the free list is handed out and stays its head *)
AllocFrameStuck(w) ==
  /\ ~Exhausted
  /\ TopFrame \in Frame
  /\ pool_next' = IF free_list_head # 0 THEN pool_next ELSE pool_next + 1
  /\ word' = [word EXCEPT ![TopFrame] = w]
  /\ UNCHANGED free_list_head

(* alloc_frame that succeeds, storing w where the caller then writes *)
AllocFrame(w) ==
  /\ ~Exhausted
  /\ TopFrame \in Frame
  /\ IF free_list_head # 0
     THEN free_list_head' = word[free_list_head] /\ UNCHANGED pool_next
     ELSE pool_next' = pool_next + 1 /\ UNCHANGED free_list_head
  /\ word' = [word EXCEPT ![TopFrame] = w]

-----------------------------------------------------------------------------
(* The life of a process *)

FreeSlots == {i \in Slot : ~live[i]}
FindFreeSlot == CHOOSE i \in FreeSlots : \A j \in FreeSlots : i <= j

(* Mutant: layer_base is EPHEMERAL_BASE for every slot *)
ProvisionAtBase(i, area, pages) ==
  /\ live' = [live EXCEPT ![i] = TRUE]
  /\ frames_head' = [frames_head EXCEPT ![i] = 0]
  /\ next_free' = [next_free EXCEPT ![i] = 0]
  /\ layer_base' = [layer_base EXCEPT ![i] = IF area = i THEN 1 ELSE area]
  /\ layer_pages' = [layer_pages EXCEPT ![i] = pages]

(* provision_pcb and provision_pcb_elf: frames_head always starts at 0 *)
Provision(i, area, pages) ==
  /\ live' = [live EXCEPT ![i] = TRUE]
  /\ frames_head' = [frames_head EXCEPT ![i] = 0]
  /\ next_free' = [next_free EXCEPT ![i] = 0]
  /\ layer_base' = [layer_base EXCEPT ![i] = area]
  /\ layer_pages' = [layer_pages EXCEPT ![i] = pages]

(* clone_current_pml4_for: every entry of the PML4 in CR3 is copied, that   *)
(* of process c or, for 0, of the kernel, which has none of the two regions *)
ClonePml4(i, c) ==
  /\ pml4' = [pml4 EXCEPT ![i] = IF c = 0 THEN NoTable ELSE pml4[c]]
  /\ UNCHANGED <<lower, pte, huge>>

NewProgram(i, handler) ==
  /\ made < PROGRAMS
  /\ made' = made + 1
  /\ held' = [held EXCEPT ![i] = {}]
  /\ origin' = [origin EXCEPT ![i] = handler]
  /\ cut' = cut \ {i}
  /\ UNCHANGED <<tables, stray>>

(* The shell and the programs it runs can ask for a new one *)
Creator == {0} \cup {c \in Slot : live[c]}

(* create_process; create_thread adds nothing to the memory *)
CreateProcess(c) ==
  /\ Idle
  /\ FreeSlots # {}
  /\ ClonePml4(FindFreeSlot, c)
  /\ Provision(FindFreeSlot, FindFreeSlot, LAYER_PAGES)
  /\ NewProgram(FindFreeSlot, "create")
  /\ UNCHANGED <<allocVars, job, halted>>

(* spawn_initial_user up to its loops, a command of the shell: the slot is  *)
(* live from here on                                                        *)
BeginSpawn ==
  /\ Idle
  /\ FreeSlots # {}
  /\ ClonePml4(FindFreeSlot, 0)
  /\ Provision(FindFreeSlot, FindFreeSlot, LAYER_PAGES)
  /\ NewProgram(FindFreeSlot, "spawn")
  /\ job' = Job("spawn", FindFreeSlot, CodeAt, 0, CODE_PAGES + STACK_PAGES)
  /\ UNCHANGED <<allocVars, halted>>

(* elf::exec up to its loops, for a program linked at a: the slot is still  *)
(* free, its frame list empty                                               *)
BeginExec(c, a) ==
  /\ Idle
  /\ FreeSlots # {}
  /\ ClonePml4(FindFreeSlot, c)
  /\ frames_head' = [frames_head EXCEPT ![FindFreeSlot] = 0]
  /\ NewProgram(FindFreeSlot, "exec")
  /\ job' = Job("exec", FindFreeSlot, a, 0, CODE_PAGES + STACK_PAGES)
  /\ UNCHANGED <<allocVars, live, next_free, layer_base, layer_pages, halted>>

(* memory_allocate up to its loop *)
BeginAllocate(i, pages) ==
  /\ Idle
  /\ live[i]
  /\ next_free[i] + pages <= layer_pages[i]
  /\ job' = Job("allocate", i, layer_base[i], next_free[i], next_free[i] + pages)
  /\ UNCHANGED <<allocVars, pcbVars, mapVars, halted, histVars>>

-----------------------------------------------------------------------------
(* One page of spawn_initial_user, exec or memory_allocate *)

PageJob == job.op \in {"spawn", "exec", "allocate"} /\ job.page < job.end /\ ~halted

CodePage == job.op # "allocate" /\ job.page < CODE_PAGES

(* The page that the job is at; the stack of a spawned program is elsewhere *)
PageArea == IF job.op = "spawn" /\ ~CodePage THEN StackAt(job.slot) ELSE job.area

(* map_page walks down from the PML4 of the slot: a table is missing, or a  *)
(* huge page of the identity map is in the way.                             *)
JobRoot == RootOf(job.slot, PageArea)
MeetsHuge == PageArea \in LowArea /\ huge
NeedsTable == ~MeetsHuge /\ PageArea \notin lower[JobRoot]

AsksForFrame == PageJob /\ (job.frame = 0 \/ NeedsTable)

(* Mutant: next_free moves although pages are missing *)
PageOutOfMemoryMoves ==
  /\ AsksForFrame
  /\ Exhausted
  /\ next_free' = IF job.op = "allocate"
                  THEN [next_free EXCEPT ![job.slot] = job.end] ELSE next_free
  /\ job' = NoJob
  /\ UNCHANGED <<allocVars, live, frames_head, layer_base, layer_pages, mapVars,
                 halted, histVars>>

(* alloc_frame has nothing left, for the page or for a table: the handler   *)
(* returns ERR_OUT_OF_MEMORY and undoes nothing.                            *)
PageOutOfMemory ==
  /\ AsksForFrame
  /\ Exhausted
  /\ job' = NoJob
  /\ UNCHANGED <<allocVars, pcbVars, mapVars, halted, histVars>>

(* alloc_frame reads the next free frame out of a head that is no frame:    *)
(* exception_handler halts.                                                 *)
AllocFaults ==
  /\ AsksForFrame
  /\ ~Exhausted
  /\ TopFrame \notin Frame
  /\ halted' = TRUE
  /\ UNCHANGED <<allocVars, pcbVars, mapVars, job, histVars>>

(* Mutant: the frame is not linked to the ones tracked before *)
PageFrameUnlinked ==
  /\ PageJob
  /\ job.frame = 0
  /\ AllocFrame(0)
  /\ frames_head' = IF job.op = "spawn" THEN frames_head
                    ELSE [frames_head EXCEPT ![job.slot] = TopFrame]
  /\ held' = [held EXCEPT ![job.slot] = @ \cup {TopFrame}]
  /\ job' = [job EXCEPT !.frame = TopFrame]
  /\ UNCHANGED <<live, next_free, layer_base, layer_pages, mapVars, halted, origin,
                 made, tables, cut, stray>>

(* alloc_frame; exec and memory_allocate go on to track_frame *)
PageFrame ==
  /\ PageJob
  /\ job.frame = 0
  /\ LET i == job.slot
     IN  IF job.op = "spawn"
         THEN AllocFrame(0) /\ UNCHANGED frames_head
         ELSE /\ AllocFrame(frames_head[i])
              /\ frames_head' = [frames_head EXCEPT ![i] = TopFrame]
  /\ held' = [held EXCEPT ![job.slot] = @ \cup {TopFrame}]
  /\ job' = [job EXCEPT !.frame = TopFrame]
  /\ UNCHANGED <<live, next_free, layer_base, layer_pages, mapVars, halted, origin,
                 made, tables, cut, stray>>

(* map_page meets a huge page and returns false; so does the handler *)
MapFails ==
  /\ PageJob
  /\ job.frame # 0
  /\ MeetsHuge
  /\ job' = NoJob
  /\ UNCHANGED <<allocVars, pcbVars, mapVars, halted, histVars>>

(* next_table allocates a table frame, which no list ever records: the one  *)
(* of the region goes into the slot's PML4, that of the area into a table   *)
(* that other address spaces may share                                      *)
MapNeedsTable ==
  /\ PageJob
  /\ job.frame # 0
  /\ NeedsTable
  /\ AllocFrame(0)
  /\ IF JobRoot = 0
     THEN /\ pml4' = [pml4 EXCEPT ![job.slot][RegionOf(PageArea)] = TopFrame]
          /\ lower' = [lower EXCEPT ![TopFrame] = {}]
          /\ pte' = [pte EXCEPT ![TopFrame] = Unmapped]
     ELSE /\ lower' = [lower EXCEPT ![JobRoot] = @ \cup {PageArea}]
          /\ UNCHANGED <<pml4, pte>>
  /\ tables' = tables \cup {TopFrame}
  /\ UNCHANGED <<pcbVars, huge, job, halted, held, origin, made, cut, stray>>

(* map_page succeeds, replacing what was mapped there for everybody who     *)
(* shares the table.  A spawned page is tracked now, then a page of code is *)
(* copied: exec copies from the file; spawn_initial_user copies from the    *)
(* page of the kernel that it has just mapped to the new frame, so it reads *)
(* what it writes.                                                          *)
MapPage ==
  /\ PageJob
  /\ job.frame # 0
  /\ ~MeetsHuge
  /\ ~NeedsTable
  /\ LET i == job.slot
         f == job.frame
     IN  /\ pte' = [pte EXCEPT ![JobRoot][<<PageArea, job.page>>] = f]
         /\ frames_head' = IF job.op = "spawn"
                           THEN [frames_head EXCEPT ![i] = f] ELSE frames_head
         /\ word' = [word EXCEPT ![f] = IF job.op = "spawn" THEN frames_head[i]
                                        ELSE IF CodePage THEN CodeWord ELSE @]
  /\ job' = [job EXCEPT !.page = @ + 1, !.frame = 0]
  /\ UNCHANGED <<pool_next, free_list_head, live, next_free, layer_base, layer_pages,
                 pml4, lower, huge, halted, held, origin, made, tables, cut, stray>>

(* The loop is over: memory_allocate moves next_free, exec provisions *)
EndPages ==
  /\ job.op \in {"spawn", "exec", "allocate"}
  /\ job.page = job.end
  /\ CASE job.op = "spawn" -> UNCHANGED pcbVars
       [] job.op = "exec" -> Provision(job.slot, job.area, CODE_PAGES)
       [] job.op = "allocate" ->
            /\ next_free' = [next_free EXCEPT ![job.slot] = job.end]
            /\ UNCHANGED <<live, frames_head, layer_base, layer_pages>>
  /\ job' = NoJob
  /\ UNCHANGED <<allocVars, mapVars, halted, histVars>>

(* A program stores to the first word of a page it was given, in whatever   *)
(* frame the page has by now                                                *)
UserWrites(i, p, w) ==
  /\ Idle
  /\ live[i]
  /\ p < next_free[i]
  /\ Mapping(i, p) \in Frame
  /\ word' = [word EXCEPT ![Mapping(i, p)] = w]
  /\ halted' = (Mapping(i, p) \in tables)
  /\ cut' = cut \cup {j \in Slot : live[j] /\ Mapping(i, p) \in held[j]}
  /\ stray' = (stray \/ w \in Frame)
  /\ UNCHANGED <<pool_next, free_list_head, pcbVars, mapVars, job, held, origin, made,
                 tables>>

-----------------------------------------------------------------------------
(* exit_process and kill_process: the slot is Exited, then                  *)
(* free_process_frames follows the list.                                    *)
BeginExit(i) ==
  /\ Idle
  /\ live[i]
  /\ live' = [live EXCEPT ![i] = FALSE]
  /\ job' = [Job("free", i, 0, 0, 0) EXCEPT !.frame = frames_head[i]]
  /\ UNCHANGED <<allocVars, frames_head, next_free, layer_base, layer_pages, mapVars,
                 halted, histVars>>

(* One turn of its loop: read the next address, then free the frame *)
FreeOne ==
  /\ job.op = "free"
  /\ ~halted
  /\ job.frame \in Frame
  /\ job' = [job EXCEPT !.frame = word[job.frame]]
  /\ word' = [word EXCEPT ![job.frame] = free_list_head]
  /\ free_list_head' = job.frame
  /\ UNCHANGED <<pool_next, pcbVars, mapVars, halted, histVars>>

(* Reading through an address that is no frame faults in the kernel, and    *)
(* exception_handler halts.                                                 *)
FreeFaults ==
  /\ job.op = "free"
  /\ ~halted
  /\ job.frame \notin Frame \cup {0}
  /\ halted' = TRUE
  /\ UNCHANGED <<allocVars, pcbVars, mapVars, job, histVars>>

EndFree ==
  /\ job.op = "free"
  /\ job.frame = 0
  /\ frames_head' = [frames_head EXCEPT ![job.slot] = 0]
  /\ job' = NoJob
  /\ UNCHANGED <<allocVars, live, next_free, layer_base, layer_pages, mapVars, halted,
                 histVars>>

-----------------------------------------------------------------------------
Init ==
  /\ pool_next = 1
  /\ free_list_head = 0
  /\ word = [f \in Frame |-> 0]
  /\ live = [i \in Slot |-> FALSE]
  /\ frames_head = [i \in Slot |-> 0]
  /\ next_free = [i \in Slot |-> 0]
  /\ layer_base = [i \in Slot |-> 0]
  /\ layer_pages = [i \in Slot |-> 0]
  /\ pml4 = [i \in Slot |-> NoTable]
  /\ lower = [t \in Root |-> IF t = Firmware THEN LowArea ELSE {}]
  /\ pte = [t \in Root |-> Unmapped]
  /\ job = NoJob
  /\ huge \in BOOLEAN
  /\ halted = FALSE
  /\ held = [i \in Slot |-> {}]
  /\ origin = [i \in Slot |-> "none"]
  /\ made = 0
  /\ tables = {}
  /\ cut = {}
  /\ stray = FALSE

PageStep ==
  \/ PageOutOfMemory
  \/ AllocFaults
  \/ PageFrame
  \/ MapFails
  \/ MapNeedsTable
  \/ MapPage
  \/ EndPages

FreeStep ==
  \/ FreeOne
  \/ FreeFaults
  \/ EndFree

Next ==
  \/ \E c \in Creator : CreateProcess(c)
  \/ BeginSpawn
  \/ \E c \in Creator, a \in {LoadAt, LowAt} : BeginExec(c, a)
  \/ \E i \in Slot, pages \in 1 .. LAYER_PAGES : BeginAllocate(i, pages)
  \/ \E i \in Slot, p \in Page, w \in UserWord : UserWrites(i, p, w)
  \/ \E i \in Slot : BeginExit(i)
  \/ PageStep
  \/ FreeStep

Spec == Init /\ [][Next]_vars

-----------------------------------------------------------------------------
(* Properties *)

(* A program that runs, or is being loaded *)
InUse(i) == live[i] \/ (job.op = "exec" /\ job.slot = i)

(* Its layer is the one of its slot, not where a file was linked *)
OwnLayer(i) == origin[i] \in {"create", "spawn"}

(* The frames of the list that starts at head: the smallest set that has    *)
(* head in it and, with every frame, the one its first word names           *)
Follows(S, head) ==
  /\ head \in Frame => head \in S
  /\ \A f \in S : word[f] \in Frame => word[f] \in S
Listed(head) ==
  LET lists == {S \in SUBSET Frame : Follows(S, head)}
  IN  {f \in Frame : \A S \in lists : f \in S}

FreeList == Listed(free_list_head)
Available == FreeList \cup pool_next .. FRAMES

(* Whatever is spawned, loaded, allocated, killed or runs out of memory     *)
(* half-way, and whatever data programs leave in pages they have or had, a  *)
(* frame that a program was given or that is a page table has that one use  *)
(* and cannot be handed out again.  Only a program that stores the address  *)
(* of a frame at the start of a page is excepted.                           *)
NoFrameUsedTwice ==
  stray \/
  /\ tables \cap Available = {}
  /\ \A i \in Slot : InUse(i) =>
       /\ held[i] \cap (Available \cup tables) = {}
       /\ \A j \in Slot \ {i} : InUse(j) => held[i] \cap held[j] = {}

(* The step that ends free_process_frames for a program *)
ExitDone(handlers) ==
  job.op = "free" /\ job'.op = "none" /\ origin[job.slot] \in handlers

(* read.md, "Frame reclamation", for the programs of create_process and,    *)
(* where the firmware has no huge pages, of spawn_initial_user: when        *)
(* free_process_frames comes to its end, every frame the program was given  *)
(* is in the free list, those of an allocation that failed half-way         *)
(* included, unless a program stored to the start of one of them.           *)
FramesReturned ==
  [][ExitDone({"create"} \cup IF huge THEN {} ELSE {"spawn"})
       => job.slot \in cut \/ stray \/ held[job.slot] \subseteq FreeList]_vars

(* memory_allocate reports success only for pages that are all mapped, each *)
(* to a frame of its own, also when it is called again after it ran out of  *)
(* memory half-way and left next_free behind the pages it had mapped, and   *)
(* although the tables may be those of the program that created this one.   *)
AllocatedPagesMapped ==
  stray \/
  \A i \in Slot : live[i] /\ OwnLayer(i) =>
    \A p \in 0 .. next_free[i] - 1 :
      /\ Mapping(i, p) \in held[i]
      /\ \A q \in 0 .. next_free[i] - 1 : Mapping(i, p) = Mapping(i, q) => p = q

(* Memory that memory_allocate has returned is never mapped away from a     *)
(* program while it lives, not by its creator, a process it created or the  *)
(* next one in a slot, who all map pages into the same tables.              *)
AllocatedPagesStay ==
  [][\A i \in Slot : (live[i] /\ live'[i] /\ OwnLayer(i)) =>
       \A p \in 0 .. next_free[i] - 1 : stray \/ Mapping(i, p)' = Mapping(i, p)]_vars

(* read.md, "private address space", and the comment of spawn_initial_user: *)
(* loading a program changes no page that another one has in its layer.     *)
MappedPrivately ==
  [][\A i \in Slot : (live[i] /\ live'[i] /\ job.slot # i) =>
       \A p \in 0 .. layer_pages[i] - 1 : Mapping(i, p)' = Mapping(i, p)]_vars
=============================================================================
