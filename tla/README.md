# PureOS in TLA+

TLA+ specifications of the PureOS kernel (`kernel/src`), checked with TLC on small
instances and, for the core, proved with TLAPS for every instance. `PROJECT.json`
maps each definition to the lines it models and lists runs, mutants, findings,
hazards and theorems.

## 1. The system and its parts

PureOS is an x86_64 kernel without a heap: every component
keeps its state in `static mut` arrays. One processor runs the kernel, the shell
(process 0) and the user programs; the others idle on work queues. System calls run
with interrupts masked (`init_syscall_msrs` clears IF through FMASK), so a system
call is atomic up to a context switch it makes itself.

| Part | State | Operations | What makes it hard |
|---|---|---|---|
| Process manager, scheduler (`syscall.rs`, `context.rs`, `apic.rs`) | `PROCESS_TABLE`, `CURRENT_PROCESS_ID`, `PREEMPT_QUANTUM` | create, thread, exec, run, exit, kill, yield, timer tick | slots are reused; who runs next; halting with nothing runnable |
| Rendezvous IPC (`syscall.rs`) | `state`, `ipc_buffer`, `ipc_peer` of each slot | send, receive, reply | state stored before blocking and used after other processes ran |
| Frame allocator (`frame.rs`) | `POOL_NEXT`, `FREE_LIST_HEAD`, links in free frames | alloc, free, statistics | the list lives in memory that had owners |
| Process memory (`syscall.rs`, `elf.rs`, `cpu.rs`) | `frames_head`, `next_free`, page tables | spawn, exec, memory_allocate, exit, kill | running out of frames at any point; lists kept in the frames; page tables shared between processes |
| In-memory file system (`fs.rs`), file commands (`commands.rs`) | `NODES`, `DATA`, `DATA_NEXT`, `CWD` | mkdir, touch, cd, rm, write, cp, mv | index reuse, removal of the current directory, full pool |
| File descriptors (`syscall.rs`) | `FD_TABLES` | open, close, read, write, lseek, dup | files removed and replaced behind open descriptors |
| SMP (`smp.rs`, `acpi.rs`, `apic.rs`) | `PERCPU_ARRAY`, `AP_READY_COUNT`, work queues, the trampoline's page | start-up, push, process | processors run one trampoline at once, unsynchronised counters and queues |
| Network (`net/`) | ARP cache, UDP handlers, DNS cache, `TCP_CONN`, the card's ring | ARP, DHCP, DNS, TCP, HTTP | lost and stray answers, timeouts, waits inside the handling of frames |
| Disk (`ata.rs`, `blockfs.rs`) | sectors, `MOUNTED` | detect, mount, format | power failure between sector writes, failures reported as success |
| Input (`keyboard.rs`, `ps2mouse.rs`, `usb/`) | `KEYBUF`, prefix state, mouse packet, `USB_DEVICES`, transfers | scan codes, packets, enumeration, reports | two drivers on one queue, devices that come and go |
| Shell and console (`shell.rs`, `terminal.rs`) | `CMD_BUF`, cursor, the cells | edit, execute, scroll | wrapping and erasing, output in the middle of a line |
| Windows, desktop (`window.rs`, `desktop.rs`) | `WINDOWS`, `NEXT_ID`, `TOP_Z`, menus, what the mouse holds | create, close, minimize, drag, resize, click | reuse of slots, several modes of one loop |
| Installer (`installer.rs`) | `STATE`, `SEL_DISK`, `STEP` | screens and keys | going back and starting again with static state |
| Barrel (`barrel.rs`, `barrelc.rs`) | variables, position in the tokens | interpret, compile | ends of blocks found by counting braces |

How they interact: the shell calls `fs`, `kill_process`, `spawn_initial_user`,
`elf::exec` and `barrelc::compile_and_run` directly; programs reach the process
manager, IPC, memory and descriptors by system calls; exit and kill release frames
and clear descriptors; descriptors hold node indices of the file system. The timer
interrupt would enter the scheduler through `apic::timer_tick`, but nothing starts the
timer: interrupts are masked from `main.rs`:112 on. `kernel_main` starts the
disk, the keyboard, USB and the other processors in turn and enters the shell, whose
loop polls USB, the keyboard and the mouse; there are no input interrupts. `install`,
`desktop`, `net` and a Barrel script keep that one thread until they return.

What correctness means, per part: scheduler: somebody runnable always has the CPU and
passes over nobody when giving it up; IPC: each call is one transfer there and one back, to and from
the process called; allocator: no frame is lost or handed out twice; process memory:
no frame serves two programs, allocated pages stay, and frames come back; file system: a tree, with
stable contents; descriptors: they lead to files, and die with the process; SMP: each
processor has a slot of its own, and work is done once and in order; network: what was
received is neither doubled nor out of order, and addresses are the latest; disk: what mounts is
complete; input: keys in order, once; shell: the line shown is the line executed;
windows: ids lead to one window on the screen, and the mouse lets go of it; installer:
the disk shown is the disk taken; Barrel: scripts print what they say.

## 2. Modules

| Module | Models |
|---|---|
| `Processes` | process table, scheduler and IPC; one action per system call or shell command |
| `Rendezvous` | abstract: what IPC promises |
| `ProcessesRefinement` | the mapping from `Processes` to `Rendezvous` |
| `MCProcesses` | bounds of these for TLC |
| `ProcessHistory` | `Processes` with a history of who heard whom |
| `ProcessesProofs` | theorems about these |
| `FramePool` | abstract: what a frame allocator promises |
| `FrameAllocator`, `MCFrameAllocator` | `frame.rs`; the second says which words the owners of frames leave |
| `FrameAllocatorProofs` | theorems about it |
| `ProcessMemory` | frames and page mappings of processes, one page or frame per step |
| `ProcessMemoryProofs` | theorems about it |
| `Ramfs`, `MCRamfs` | `fs.rs` and the shell's file commands |
| `FileDescriptors`, `MCFileDescriptors` | descriptors composed with `Ramfs` |
| `FileDescriptorsProofs` | theorems about these two |
| `Multiprocessor`, `MCMultiprocessor` | start of the other processors, one step per mode of the trampoline, and the work rings, one step per access to shared memory |
| `MultiprocessorProofs` | theorems about it |
| `Network` | the protocols and the command `net`; a step handles one frame or ends one wait |
| `NetworkProofs` | theorems about it |
| `Storage`, `Ps2`, `Usb` | disk and block file system; keyboard and mouse on the i8042; EHCI, its devices and HID reports |
| `Boot`, `MCBoot` | `kernel_main` and the shell's loop, composing these three, with power failures |
| `BootProofs` | theorems about its disk, its keyboard and mouse, and its USB devices |
| `Console`, `Installer`, `Windows`, `Desktop`, `Barrel` | terminal and line editor; installer; window table; the desktop's loop; interpreter |
| `Interface`, `MCInterface` | these five as one user sees them, one at a time; the second gives `Interface` the scripts and what `Barrel`'s recursive operators compute for them |
| `InterfaceProofs` | theorems about console, installer, windows and desktop |

Correspondence with the code. Variables carry the names of the Rust statics or fields
where TLA+ allows. A step is one system call or shell command, up to and including the
context switch that ends it; in `ProcessMemory`, whose handlers loop over pages and can
fail at each one, a step is one iteration, and `job` keeps every other action out until
the handler returns. Calls that only return an error are stuttering steps. Operators
whose comment begins with *Mutant* are deliberately wrong variants of the operator after
them, used to show that a property can fail.

Abstractions. A message is one value and addresses count in messages. In `Processes`,
`inReceive` (who is suspended inside `receive_ipc`) stands for the saved kernel stack,
and `xfer` is history. That freeing frames can fault is left to
`ProcessMemory`. In `FrameAllocator` addresses are frame numbers and a frame is
its first word, the only part the allocator touches. In `Ramfs` a path is a flag and a
list of names, of which only the lengths count in `path_of`'s buffer; the tree starts as
after `rm -rf /` and `DATA_POOL` counts what the initial files left of the pool. In `FileDescriptors` flags
are left out, because nothing reads them when a file is read or written.

In `ProcessMemory` an address space is what `clone_current_pml4_for` makes it: a PML4
whose entries are copied from the creator's, so that whatever hangs below an entry that
was present is shared. `pml4[i]` has the two entries that the firmware leaves empty, for
the layers and for the addresses that barrelc links at; all lower addresses (`LowAt`, the
pages of `user_demo` and of `USER_STACKS`) are in the identity map, `Firmware`, which is
in every address space. Below a PML4 entry the three levels are taken as one table of the
region and one for each area in it. `huge` says whether the firmware maps memory with
huge pages, which `map_page` does not split. The frames of the pool are assumed to lie
apart from the low pages that are remapped, and what a remapped page of the kernel does
to the kernel is not followed: in the code the page that held `user_demo` is a zeroed
frame after `run`, and writing through read-only pages is a matter of the firmware's
flags. `halted` is a fault in the kernel, or a program's store to a frame that is a page
table by then; nothing is followed from there.

In `Multiprocessor` a processor is where it has got to in the trampoline; the tables the
trampoline loads are left out but for the descriptor that its mode switches patch. In
`Network` the wire is any frame at any time, because the code looks at no sequence
number and at one port; loss is a frame that does not arrive, and the waits under way
are a stack. A malformed header, past which `handle_ipv4` and `handle_udp` index, panics
and stops the kernel; a frame whose length is no multiple of 4 skews the ring, after
which the driver reads garbage. In `Storage` a sector holds what `format` writes or something else. In
`Ps2` a key is its number among the presses; in `Usb` a port, a device and a report are
small values, and `Mute` are the keys without a character. In `Console` the prompt and a
line of output are one character each. In `Windows` a pixel is a cell of a screen four
by three. In `Barrel` a script is a tree of statements laid out as tokens; `Lexed` is what
of them the lexer's array takes, `Overruns` whether it panics, and `AsWritten` says what
the tree prints, without looking at tokens. Strings, the lexer's buffer of 256 bytes for
them and for names, input and drawing are left out.

## 3. Runs

| Run | Checks | Shows |
|---|---|---|
| `processes` | `TypeOK`, `SchedulerSafe`, `BlockedBufferInLayer`, `ImplementsRendezvous`, `WokenWithMessage`, `CallerWaitsForReceiver`, `RoundRobin` | 4 slots, 2 message contents, ticks at any moment, quantum 2 |
| `processes_timer` | `TimerPreempts`, violated | no tick ever takes the CPU from a program |
| `ipc_incarnation` | `AnsweredByReceiver`, violated | a reused slot answers its predecessor's call |
| `frame_allocator` | `TypeOK`, `ListIsStack`, `FramesConserved`, `RealStatsExact`, `ImplementsFramePool` | 4 frames, arbitrary words left by owners |
| `process_memory` | `NoFrameUsedTwice`, `AllocatedPagesMapped`, `AllocatedPagesStay`, `FramesReturned` | 2 slots, 6 frames, 3 programs, memory running out at every point |
| `mem_shared` | `MappedPrivately`, violated | a program is loaded over another one |
| `ramfs` | `TypeOK`, `Tree`, `PathsResolve`, `FilesKeepContents` | 4 nodes, 3 bytes, paths with `..`, chains cut at 2, paths at 4 bytes |
| `file_descriptors` | `FdTypeOK`, `DescriptorsNameFiles`, `DeadHoldNoFile` | 3 descriptors, 2 files, the shell interfering |
| `multiprocessor` | `SlotsOwned`, `CountsSound`, `WorkInOrder`, `BootCompletes` | 3 processors, 5 kinds of firmware tables, missed SIPIs, 4 items of work |
| `network` | `ArpLatest`, `PiecesKept` | 3 hosts, 2 cache entries, 5 frames of any kind at any time |
| `boot` | `MountedDiskComplete`, `InputKept`, `DevicesSound`, `ComesUp` | 2 USB ports, 4 events: missing or failing hardware, power failures, keys, devices, commands |
| `interface` | `LineShown`, `InstallsShownDisk`, `WindowsSound`, `MenusAndGrabs`, `PrintsAsWritten` | 2 by 2 cells, 2 disks, 2 windows, 118 scripts |

Bounds. Three slots are the smallest table in which two programs can rendezvous while
the shell kills and creates; four let a third program interfere between the wake-up of
a receiver and its run, which `CallerWaitsForReceiver` is about. Once the fourth slot has
been used, `ThirdProgramPlain` leaves one message content, one loaded program at a time,
and `yield_cpu` in place of the last tick of a quantum, which does the same. One message per layer
suffices because every call names one buffer and the pointer checks compare with the
layer's bounds, which `Ptr` exceeds on both sides. A quantum of 2 distinguishes a tick
that preempts from one that does not. Four frames give lists of every shape up to four
deep. Six frames for two programs of up to two pages, a page of code, a page of stack and
their tables run out in every handler; three programs let a slot be used again while the
other's tables are shared. Programs store null or a word that is no frame; the addresses
of frames, with which every property of `process_memory` holds vacuously (`stray`), are
left to the theorems. Four nodes allow a directory with two children or a chain of three;
three bytes let a file shrink and grow in place, move to a new block, and fail. Names of
one and of three bytes fill a path buffer of four exactly, fall short of it and overflow
it, as nine nested names of 28 bytes, the longest there are, do the 256 of `pwd`. The run
of descriptors bounds the table to the three standard entries, which a program may
close and use for files, and treats the names of files as interchangeable.
Three processors are the fewest of which two can race in the trampoline; rings of three
entries hold two items and are full and wrap with four. Five frames fill the cache of
two entries, evict from it, and let a connection be opened and receive two pieces within
nested waits; buffers of one and two pieces fill. Four events let the power fail twice
between writes and in between something else happen, fill the key ring of two with a
queue of three, and plug, enumerate, pull out and plug again a device; addresses run out
after two. A screen of two by two wraps and scrolls with three characters; lines are cut
at five. Two window slots and three ids are reused and run out (`MaxId`, `MaxZ`). The
scripts are an if, with or without else, on either side of a statement in either branch
of an if, three conditions each, the loops, a variable, and prints that just fit the
lexer's 64 tokens or do not; some of the scripts with the longest condition do not fit
either, and panic or are cut. A loop goes on for ever when it goes round twice, because no
variable it could test ever changes. `OneDisk` and
`FirstScripts` keep the desktop and the scripts from being explored once for every state
of the other, with which they share nothing. `CHECK_DEADLOCK` is off in `ProcessMemory`,
where a kernel fault stops the machine, in `Network`, where a panic does or a wait has
no end, and in `Multiprocessor`, where all processors
idle once the work is done.

Fairness. `multiprocessor` assumes only that the boot processor goes on executing
`smp::init`, and `boot` that the one thread goes on; both loops are bounded by counts in
the code. `processes_timer` assumes that an enabled tick is taken in the end; in the
kernel none is ever enabled, which is what this run shows. Whether a program gives up
the CPU is up to the program, so that nothing here says that the shell gets it back:
`RoundRobin` says that whoever gives it up passes it on, and it needs no fairness.

The timer. The kernel as it boots is `APIC_READY = FALSE`. `processes` and `network` set
it to TRUE although it never is, because they check safety only and a tick is something
that may happen, not something that must: their behaviours include all those without
ticks, and the properties then also hold of the kernel for which `timer_tick_handler` and
the time-outs were written. `DNS_SERVER` is set nowhere either; `network` gives it a
value to reach DNS and HTTP. No liveness is stated of the network's commands: as the
kernel boots, a wait whose answer is lost never ends.

## 4. Proofs

For every number of slots, layer size, quantum and set of messages:

* `TypeCorrect`, `SchedulerIsSafe`, `BuffersInLayers` (`ProcessesProofs`). The inductive
  invariant is the conjunction `IInv` of the three properties; they need one another: a
  buffer check (`ContainsRange`) is arithmetic on typed fields, the next process is
  runnable because slot 0 is, and a blocked process's layer changes only when its slot is
  provisioned, which needs a slot that is not live. `NextRunnableIsRunnable` is the lemma
  that the modular scan finds a runnable slot, by a least-element argument.
* `SchedulerRoundRobin` (`ProcessesProofs`), from `IInv`: while a program runs, the CPU goes
  from slot to slot upwards and passes over no runnable one, or back to the shell, and a
  program that yields, exits or blocks does pass it on. This bounds the turns of programs
  between two of the shell's by `MAX_PROCESSES` - 1. `NextRunnablePassesOn` is the lemma that
  the modular scan stops at slot 0 before it wraps, because the shell is runnable.
* `ImplementsRendezvousTheorem`, `WokenTheorem`, `CallerWaitsTheorem` (`ProcessesProofs`).
  The refinement maps each step to one abstract step or a stutter under `IInv`; the
  offered message is unchanged because only the running process stores to its layer and a
  blocked process is not the running one. `CallerWaitsTheorem` adds the invariant that
  the running process is not suspended in `receive_ipc`.

For every pool size and every set of words that owners may leave:

* `AllocatorTypes`, `FreeListIsStack`, `FramesAreConserved`, `AllocatorImplementsPool`
  (`FrameAllocatorProofs`), from `FInv`, the conjunction of the first three. That a push
  or pop keeps the list needs that no frame is on it twice and no owner can write to a
  frame on it, which is `FramesConserved`; that needs the list to be the stack.
* `StatsAreExact` (`FrameAllocatorProofs`): what `real_stats` counts by following the links.
  `WalkVisits` gives the walk in closed form (turn n is at the entry n + 1 of the stack,
  or at null), by a least-counterexample argument; the stack is then a bijection from
  the turns to the freed frames (`FreedCount`), and the three parts of the pool add up.

For every finite set of processors that fits `PERCPU_ARRAY`, with APIC ids that differ:

* `SlotsAreOwned` (`MultiprocessorProofs`), from `SInv`: the trampoline's counter is one
  more than the number of processors that claimed a slot, the claimed slots differ and
  lie below it, and the array keeps the id of every ready processor and 0 where nobody
  has been. The count is what makes `lock xadd` hand out fresh slots within the array.
* `CountsAreSound` (`MultiprocessorProofs`), from `CInv`: `AP_READY_COUNT` is at most the
  number of ready processors, and a processor between its load and its store has loaded
  a value that leaves room for itself. The second part is needed because the store of a
  stale value may lower the count but must not raise it beyond those that are ready.
* `WorkRunsInOrder` (`MultiprocessorProofs`), for rings of any size from 2 on, from `WInv`:
  `RingKept` says that the slots from head to tail hold what was accepted and not yet
  called, also while a `push_work` or a drain is between two of its accesses (`Pushes`,
  `Drains`). It needs `SInv`, because a queue has one consumer only if its slot has one
  owner.

For all hosts, cache sizes, buffer sizes and sequences of frames:

* `CacheIsLatest` (`NetworkProofs`), from `AInv`: the cache has an address once and with
  the MAC announced last. It is inductive only together with the type of the frames in
  the ring. `AddKeepsLatest` has the three ways of `arp_cache_add`: update, append,
  drop the first entry.
* `PagesArePiecedTogether` (`NetworkProofs`), from `PInv`: what `rxbuf` and the page hold,
  and the segments that wait for ARP in the middle of their handling (`Flight`), are the
  pieces that arrived, each once and in order.

For every number of slots, frames and pages:

* `FramesUsedOnce`, `PagesAreMapped`, `PagesStayMapped` (`ProcessMemoryProofs`), from `IInv`:
  until a program has stored the address of a frame at the start of a page (`stray`),
  `MInv` holds. There are a set F and a set L[i] for each slot such that the free list stays
  inside F and the list of slot i inside L[i], no frame of a list is named twice in it, F,
  the L[i] and the page tables are disjoint, and the frames of a program in use are outside
  F, the tables and the lists of others. The lists themselves do not appear: data may cut a
  list short (`Ends`), and all that matters is that what is left leads nowhere else.
  `SpacesOk` says that the entries of a PML4 are tables made for it or for whom it was cloned
  from. Shared tables do no harm to layers, because every page of area i that a created or
  spawned program in slot i allocates is mapped under its own area, whoever else has the
  table (`OwnRoot`, `MapPageKeeps`); that is why the two properties are not stated for loaded
  programs, whose area others use as well. Beyond `stray` a frame's address may stand in any
  list, and the three would be false.
* `ReclaimsFrames` (`ProcessMemoryProofs`), from `RInv`, which adds to `IInv` that the list of a
  created or spawned program has all its tracked frames, and that while it is freed the
  rest of it and the free list together have them, unless a program stored to one of them
  (`cut`). A list is the smallest set that is closed under the words, so each step is an
  argument about closed sets and needs no induction along the list.
For every number of nodes, names and bytes of the pool, and of slots and descriptors:

* `RamfsTypeOK`, `RamfsTree`, `RamfsPathsResolve`, `RamfsFilesKeepContents`
  (`FileDescriptorsProofs`), from `RamInv`, whose core `FsInv` says that children and
  parents name each other, that siblings have different names, that some order of the
  nodes has every parent before its children, and that the blocks of files do not overlap
  and end below `DATA_NEXT`. The walks of the code (`rm_recursive`, `path_of`, `resolve`)
  are recursive functions in the model; what they return is proved by induction over a
  set of numbers that is closed under successor.
* `DescriptorTypeOK`, `DescriptorsLeadToFiles`, `DeadSlotsHoldNoFile` and
  `FilesUnderDescriptors`, from `FdInv`: the file system under the descriptors keeps
  `FsInv`, and an entry that is not stale names a file. `FilesUnderDescriptors` carries the
  four properties of `Ramfs` over to the composition.

For every number of ports, table entries, addresses and events:

* `BootMountedDiskComplete` (`BootProofs`), from `DiskInv`: with n of the writes of `format`
  done the disk is `Written(n)`, and with no `format` under way it has none or all of
  them, as long as neither the power failed behind the superblock nor the disk.
* `BootInputKept` (`BootProofs`), from `Ps2Inv`. Its core, `KeysInv`, says `KeysKept` of the
  keys read, in the ring and in the queue one by one, and adds that while `plain` holds no
  E0 is in the queue or was the last byte handled; without that a key could be dropped
  unnoticed. The proof looks at one byte at a time: `PollStepReads` shows that handling it
  puts its number at the end of the ring, or finds the ring full, or leaves the ring alone
  because it is no key or follows an E0. `PolledStep` is that step
  of the induction over the bytes of the queue (`PollKeeps`), and `OrderedAppend`,
  `OrderedConcat` and `OrderedTail` are the facts about sequences in order. For the mouse
  the same induction (`MouseFold`) keeps the packet below three bytes.
* `BootDevicesSound` (`BootProofs`), from `UsbInv`: every address given out lies below
  `NEXT_ADDR` until that has wrapped to 0, from when on none is given out.

For every size of the screen and of the window table, any disks, menus, icons and
applications that fit the screen, and whatever scripts print:

* `LineIsShown` (`InterfaceProofs`), from `CInv`: the terminal keeps its type, with the
  cursor up to one column behind the last, and only the shell writes behind an
  undisturbed prompt. `Shows` says it with cells numbered through the rows: the cells
  before the cursor are the end of the text. `newline` at the margin, `scroll` and
  `backspace` over the margin shift or keep that numbering (`NewlineKeeps`,
  `BackspaceKeeps`), and the text behind the top of the screen drops out of the claim.
* `InstallsTheShownDisk` (`InterfaceProofs`), from `DInv`: while the summary's key is waited
  for, the summary shows the selected disk.
* `WindowsAreSound`, `MenusAndGrabsHold` (`InterfaceProofs`), from `MInv`, in which the two
  need each other. `Manages` says that a listed window is whole on the screen, that its id
  was given out and no slot below has it, closed ones included, and that a minimized one
  has been let go of and is saved where it is; without the last part `restore` could bring
  back a window off the screen or still marked as dragged. `Grabs` says which ids the
  marks of open windows have. Each operation of `window.rs` is shown to be `Safe` (it keeps
  `Manages`, and `Grabs` for all ids), which composes along the several calls of one turn
  of `desktop_loop`; `minimize` and a press are safe only while nothing is held
  (`MinimizeKeeps`, `PressKeeps`), which is so because they need the button to go down.

Assumptions. The theorems use the named assumptions on constants that the modules state
and TLC evaluates in the runs (`ProcessesAssumption`, `FrameAllocatorAssumption`, `CpusFit`,
`ApicIdsDiffer`, `BspHasIdZero`, `QueueHolds`, `NetworkAssumption`,
`ProcessMemoryAssumption`, `RamfsAssumption`, `FileDescriptorsAssumption`,
`StorageAssumption`, `Ps2Assumption`, `UsbAssumption`, `ConsoleAssumption`, `WindowsAssumption`,
`DesktopAssumption`, `OutputIsSeq`): sizes are positive, a ring holds something, the controller holds no more bytes than
a poll reads, names of
files are not empty, a new window fits the screen where the desktop puts it, a window of
the least size has room for its buttons. No theorem has a
hypothesis besides them; what programs must not do for a property of `ProcessMemory` to
hold is part of the property.

Checked by TLC only: liveness (`BootCompletes`, `ComesUp`), which the prover does not do, and
`PrintsAsWritten`, which is about the recursive operators of an interpreter and would need
induction over the trees of scripts.

## 5. What the model showed about the code

Three runs end in a counterexample; `PROJECT.json` quotes the statements they refute.

* `ipc_incarnation`: a call is bound to the slot number of the process called, not to the
  program in it: after a kill and a new program in the slot, the new one can answer.
* `processes_timer`: the timer never preempts. Interrupts are masked, `apic::init` has no
  callers and `APIC_READY` is set to true nowhere, so `TICK_COUNT` stays 0. `main.rs`:178
  says so at boot; `read.md` (9, 64) and `shell.rs`:288 say that the timer preempts.
* `mem_shared`: only the top level of the page tables is private. Two programs linked at
  the same low address are loaded over each other, and over the kernel's identity map.

Other behaviour of the code that the modules reproduce, and that a reader of the
properties should know. Processes, memory and files:

* The link to a process's next frame is the first word of each page that
  `memory_allocate` gives it. A program that stores there, and then ends, makes the kernel
  follow its data as an address and fault (`FreeFaults`). `read.md`:36 calls kill a real end
  of the process, with `free_process_frames`; the properties end where the machine halts.
* `provision_pcb_elf` resets `frames_head` after `elf::exec` tracked the frames of a program,
  so that they are never returned, although `read.md`:59 and `elf.rs`:108 say that frames are
  freed on exit. `FramesReturned` is about created and spawned programs.
* `spawn_initial_user` maps the zeroed frame over the page it then copies from (`MapPage`),
  although its comment (481) says that it copies the code: the program is entered at zeros,
  and so is the page of the kernel. The frame list is intact for the same reason, so that
  ending a spawned program returns its frames.
* Page tables are returned by nobody: `FramesReturned` is about frames of pages.
* Where the firmware maps memory with huge pages, `run` fails at the first page; the slot
  stays runnable, and the frame is in no list. `FramesReturned` therefore speaks of
  spawned programs without huge pages only.
* A loaded program's `next_free` starts at its code: its first `memory_allocate` maps new
  pages over the code. `AllocatedPagesStay` is about created and spawned programs. Its
  read-only segments are mapped without the user bit, so that ring 3 cannot read them.
* A page that a process mapped stays in the shared tables after its end, in a frame that
  others are given; whoever shares the tables can still store to it. `NoFrameUsedTwice`
  holds as long as no such store is the address of a frame (`stray`): such an address on
  the free list, or in a program's list, is handed out or freed as if it belonged there.
* A program that stores a null first word in a page cuts the frame list short, and frames
  behind it are lost; `FramesReturned` excepts programs with such a frame (`cut`).
* `exit` and `kill` wake nobody who waits for the process.
* `mv` onto the same file, or with the data pool full, removes the file; `rm` of the
  current directory leaves `CWD` at a free node; a directory can be named `.` or `..` and
  is then unreachable, which `PathsResolve` excepts, as it does chains beyond the 32
  directories that `path_of` follows and paths beyond the caller's buffer.
* A descriptor whose file was removed leads to whatever takes the node next;
  `DescriptorsNameFiles` excepts such descriptors and shows that they are the only ones.
  Opening a console device with a full table takes descriptor 1 or 0 from what it was.

Processors:

* The first processor through the trampoline patches entry 1 of the GDT (at 0x8028) for
  long mode; one that enters protected mode later decodes 32-bit code as 16-bit and is
  lost. `BootCompletes` holds because the wait is limited.
* The ready count is incremented without a lock. Increments get lost, and the boot
  processor then waits for its limit; `CountsSound` says that it never counts too many.
  When all are ready, `CPU_COUNT` stays 1: only the branch after the limit sets it.
* With more processors than `MAX_CPUS` a broadcast SIPI takes `percpu_ptr_table` beyond
  its end; the module assumes that they fit (`CpusFit`). `push_work` and `send_ipi` have
  no callers, and idle processors have interrupts off.
* Unclaimed slots hold APIC id 0: `apic_id_to_cpu_id` would send a processor with id 0
  that is not the boot processor to the first slot that nobody claimed. The module
  assumes that there is none (`BspHasIdZero`).

Network:

* Without ticks no wait runs out: a lost answer keeps `net` for ever, although `http.rs`:7
  and `dns.rs`:38 speak of timeouts.
* A frame with IP options, with a total length below the header's or a UDP length below 8
  panics the kernel (`eth.rs`:238, 247, 298). A frame whose length is no multiple of 4 leaves
  `rx_cur` off the next frame (`nic.rs`:216).
* A wait for ARP handles any frame, and the acknowledgement of a segment may wait for ARP
  again: waits nest as deep as frames arrive.
* No answer is checked for its DNS id, TCP sequence number, port or sender; RST is
  ignored, and data that comes with FIN is lost. The DNS cache returns its address
  whatever the name; `handle_udp` has the ports the wrong way round; `udp_listen` enters
  a port again each time. DHCP cannot succeed, because nothing sets
  `got_offer`, and `net dhcp` never initialises the card itself: it looks for an address
  three characters long.

Disk and input:

* `format` writes the magic first: after a power failure the half-made disk is mounted.
  A misread superblock formats a good disk. `MountedDiskComplete` excepts both
  and shows that nothing else leads to an incomplete disk.
* `ps2mouse::poll` takes keyboard bytes away, although its comment (163) says that it
  leaves them; `InputKept` excepts those keys. A Meta key leaves the E0 state as it was.
* Two USB devices plugged in at once both answer at address 0. A failure after
  SET_ADDRESS leaves an entry that is never tried again. Addresses go up to 255 before
  they end, beyond the 127 that USB has. The keyboard's reports go into the buffer of
  slot 0, and the queue head of the mouse is cut off the schedule, so that its reports
  never arrive. Keys held when the keyboard is pulled out count as held when it is back.

User interface:

* `usb::poll` prints messages in the middle of a line; `LineShown` holds until then, and
  again from the next prompt.
* Creating a window may take the slot of a minimized one, which is gone then. Escape
  closes neither minimized windows nor ids from 8 on, so that it may not leave the
  desktop at all. `handle_menu_click` returns false always, although its comment
  (`desktop.rs`:313) says otherwise, and the click goes on to what is below. The start
  menu is drawn in one place and clicked in another. Terminal windows share one buffer.
* The installer writes nothing, its last screen never shows, and Enter then reboots.
* In Barrel an if at the end of a block that skips its own block takes the brace behind
  it, so that `if 1 { if 0 { print 1 } } else { print 2 }` prints 2. `loop` runs its body
  once, unless break ends it: then it goes on for ever, as `while` does with a condition
  that holds. Each occurrence of a name is a variable of its own, and `let x = 1; print x`
  prints nil. The heading (`barrel.rs`:10-20) promises all four; `PrintsAsWritten` excepts
  them, and shows that scripts without `while` and `break` end and that the other nestings
  print what they say. A script that takes more than 64 tokens, its end included, is cut off
  or panics (`barrel.rs`:105): only some tokens are followed by a look at the end of the array.

## 6. Plan

Modules to add: the Barrel compiler's jump patching against the interpreter's tree;
`config.rs` on the file system.

Not modelled, and not planned: pixel drawing, decoders of pictures, 3D, games, sound, the
firmware's boot loader and the manual pages: straight-line code or pure data, without
state that interleavings or failures could disturb. `settings.rs` and `filer.rs` have no
callers.
