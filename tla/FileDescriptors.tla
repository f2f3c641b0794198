--------------------------- MODULE FileDescriptors ---------------------------
(***************************************************************************)
(* The file descriptors of processes (kernel/src/syscall.rs), composed     *)
(* with the file system that the shell changes behind their back (Ramfs).  *)
(*                                                                         *)
(* A descriptor holds the index of a node, and nothing in fs.rs knows of   *)
(* descriptors.  Any live process may make the next system call; a call    *)
(* that only returns an error is a stuttering step, and buffers are taken  *)
(* to lie in the caller's layer.  The flags of an open, and those that     *)
(* F_SETFD stores, are left out: no operation on a file ever reads them.   *)
(***************************************************************************)
EXTENDS Ramfs

CONSTANTS
  PROCS,    \* user slots 1 .. PROCS
  MAX_FDS   \* entries of a descriptor table

ASSUME FileDescriptorsAssumption ==
  /\ PROCS \in Nat
  /\ MAX_FDS \in Nat /\ MAX_FDS >= 3

Proc == 1 .. PROCS
Fd == 0 .. MAX_FDS - 1

VARIABLES
  alive,     \* alive[p]: slot p is neither Empty nor Exited
  fd_table,  \* FD_TABLES
  stale      \* history: <<p, fd>> whose file was removed since it was opened

fdVars == <<alive, fd_table, stale>>

FdEntry(kind, inode) == [kind |-> kind, inode |-> inode, offset |-> 0]
FreeEntry == FdEntry("Free", 0)
FreeTable == [fd \in Fd |-> FreeEntry]

(* init_fd_table *)
StdTable ==
  [fd \in Fd |-> IF fd = 0 THEN FdEntry("ConsoleIn", 0)
                 ELSE IF fd \in {1, 2} THEN FdEntry("ConsoleOut", 0)
                 ELSE FreeEntry]

FreeFds(p) == {fd \in Fd : fd_table[p][fd].kind = "Free"}

(* find_free_fd, with the descriptor to take when there is none *)
FindFreeFd(p, full) ==
  IF FreeFds(p) = {} THEN full
  ELSE CHOOSE fd \in FreeFds(p) : \A g \in FreeFds(p) : fd <= g

(* Entry fd of process p becomes e, and is stale or not *)
SetFd(p, fd, e, old) ==
  /\ fd_table' = [fd_table EXCEPT ![p][fd] = e]
  /\ stale' = IF old THEN stale \cup {<<p, fd>>} ELSE stale \ {<<p, fd>>}

-----------------------------------------------------------------------------
(* The life of a process, as far as its descriptors go *)

DeadProcs == {p \in Proc : ~alive[p]}

(* provision_pcb or provision_pcb_elf in the first free slot; create_thread *)
(* with a bad stack makes the slot Exited again and leaves its table.       *)
Start(ok) ==
  /\ DeadProcs # {}
  /\ LET p == CHOOSE q \in DeadProcs : \A r \in DeadProcs : q <= r
     IN  /\ alive' = [alive EXCEPT ![p] = ok]
         /\ fd_table' = [fd_table EXCEPT ![p] = StdTable]
  /\ UNCHANGED <<vars, stale>>

(* Mutant: the table of a process that ends is left as it is *)
EndKeepsTable(p) ==
  /\ alive[p]
  /\ alive' = [alive EXCEPT ![p] = FALSE]
  /\ UNCHANGED <<vars, fd_table, stale>>

(* exit_process and kill_process *)
End(p) ==
  /\ alive[p]
  /\ alive' = [alive EXCEPT ![p] = FALSE]
  /\ fd_table' = [fd_table EXCEPT ![p] = FreeTable]
  /\ stale' = {s \in stale : s[1] # p}
  /\ UNCHANGED <<vars>>

-----------------------------------------------------------------------------
(* System calls *)

(* sys_open of /dev/console, /dev/stdout, /dev/stdin or /dev/kbd: with the  *)
(* table full, descriptor 1 or 0 is taken from whatever it was.             *)
OpenDevice(p, kind) ==
  /\ alive[p]
  /\ LET fd == FindFreeFd(p, IF kind = "ConsoleOut" THEN 1 ELSE 0)
     IN  SetFd(p, fd, FdEntry(kind, 0), FALSE)
  /\ UNCHANGED <<vars, alive>>

(* Mutant: whatever the path leads to is opened, directories too *)
OpenFileAny(p, path) ==
  /\ alive[p]
  /\ Resolve(path) # NoNode
  /\ FreeFds(p) # {}
  /\ SetFd(p, FindFreeFd(p, 0), FdEntry("File", Resolve(path)), FALSE)
  /\ UNCHANGED <<vars, alive>>

(* sys_open of a file *)
OpenFile(p, path) ==
  /\ alive[p]
  /\ Resolve(path) # NoNode
  /\ fs.nodes[Resolve(path)].kind = "File"
  /\ FreeFds(p) # {}
  /\ SetFd(p, FindFreeFd(p, 0), FdEntry("File", Resolve(path)), FALSE)
  /\ UNCHANGED <<vars, alive>>

SysClose(p, fd) ==
  /\ alive[p]
  /\ fd_table[p][fd].kind # "Free"
  /\ SetFd(p, fd, FreeEntry, FALSE)
  /\ UNCHANGED <<vars, alive>>

(* sys_dup, and sys_fcntl with F_DUPFD: the copy has an offset of its own *)
SysDup(p, fd) ==
  /\ alive[p]
  /\ fd_table[p][fd].kind # "Free"
  /\ FreeFds(p) # {}
  /\ SetFd(p, FindFreeFd(p, 0), fd_table[p][fd], <<p, fd>> \in stale)
  /\ UNCHANGED <<vars, alive>>

(* sys_write to a file: the whole contents are replaced, whatever the       *)
(* offset of the descriptor.                                                *)
SysWrite(p, fd, text) ==
  /\ alive[p]
  /\ text # <<>>
  /\ fd_table[p][fd].kind = "File"
  /\ fs' = FsWrite(fs, fd_table[p][fd].inode, text)
  /\ UNCHANGED <<cwd, alive, fd_table, stale>>

(* Mutant: the offset moves by the length asked for *)
SysReadBeyond(p, fd, len) ==
  /\ alive[p]
  /\ len > 0
  /\ fd_table[p][fd].kind = "File"
  /\ fd_table' = [fd_table EXCEPT ![p][fd].offset = @ + len]
  /\ UNCHANGED <<vars, alive, stale>>

(* sys_read from a file: the offset moves past the bytes that were there *)
SysRead(p, fd, len) ==
  LET e == fd_table[p][fd]
      size == Len(FsRead(fs, e.inode))
      avail == IF size > e.offset THEN size - e.offset ELSE 0
  IN  /\ alive[p]
      /\ len > 0
      /\ e.kind = "File"
      /\ fd_table' = [fd_table EXCEPT ![p][fd].offset =
                        @ + (IF len < avail THEN len ELSE avail)]
      /\ UNCHANGED <<vars, alive, stale>>

(* sys_lseek: from the start, the current offset or the end, clamped *)
SysLseek(p, fd, offset, whence) ==
  LET e == fd_table[p][fd]
      size == fs.nodes[e.inode].len
      to == offset + (CASE whence = 0 -> 0 [] whence = 1 -> e.offset [] whence = 2 -> size)
  IN  /\ alive[p]
      /\ e.kind = "File"
      /\ fd_table' = [fd_table EXCEPT ![p][fd].offset =
                        IF to < 0 THEN 0 ELSE IF to > size THEN size ELSE to]
      /\ UNCHANGED <<vars, alive, stale>>

(* A shell command, which sees no descriptor *)
Shell ==
  /\ Next
  /\ stale' = stale \cup {s \in Proc \X Fd :
                            LET e == fd_table[s[1]][s[2]]
                            IN  e.kind = "File" /\ fs'.nodes[e.inode].kind = "Free"}
  /\ UNCHANGED <<alive, fd_table>>

FInit ==
  /\ Init
  /\ alive = [p \in Proc |-> FALSE]
  /\ fd_table = [p \in Proc |-> FreeTable]
  /\ stale = {}

FNext ==
  \/ Shell
  \/ \E ok \in BOOLEAN : Start(ok)
  \/ \E p \in Proc :
       \/ End(p)
       \/ \E kind \in {"ConsoleOut", "ConsoleIn"} : OpenDevice(p, kind)
       \/ \E path \in Path : OpenFile(p, path)
       \/ \E fd \in Fd :
            \/ SysClose(p, fd)
            \/ SysDup(p, fd)
            \/ \E text \in Text : SysWrite(p, fd, text)
            \/ \E len \in 1 .. DATA_POOL : SysRead(p, fd, len)
            \/ \E off \in -1 .. DATA_POOL, whence \in 0 .. 2 : SysLseek(p, fd, off, whence)

FSpec == FInit /\ [][FNext]_<<vars, fdVars>>

-----------------------------------------------------------------------------
(* Properties *)

FdEntryType ==
  [kind : {"Free", "ConsoleOut", "ConsoleIn", "File"}, inode : Node,
   offset : 0 .. DATA_POOL]

(* Descriptors name nodes, and an offset never runs past the data pool, not *)
(* even when the file shrinks under a reader that is far into it.           *)
FdTypeOK ==
  /\ alive \in [Proc -> BOOLEAN]
  /\ fd_table \in [Proc -> [Fd -> FdEntryType]]
  /\ stale \subseteq Proc \X Fd

(* As long as the shell has not removed the file a descriptor was opened    *)
(* on, the descriptor leads to a file: never to a directory or a free node. *)
DescriptorsNameFiles ==
  \A p \in Proc, fd \in Fd :
    (fd_table[p][fd].kind = "File" /\ <<p, fd>> \notin stale)
      => fs.nodes[fd_table[p][fd].inode].kind = "File"

(* A slot without a process holds no file, however the process ended and    *)
(* whatever was opened or duplicated before: the next program in the slot   *)
(* inherits nothing.                                                        *)
DeadHoldNoFile ==
  \A p \in Proc, fd \in Fd : ~alive[p] => fd_table[p][fd].kind # "File"
=============================================================================
