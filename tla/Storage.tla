------------------------------ MODULE Storage ------------------------------
(***************************************************************************)
(* The ATA driver (ata.rs) and the block file system (blockfs.rs), as the  *)
(* start of the kernel uses them: blockfs::init mounts the disk, formatting *)
(* it first when it finds no superblock.                                   *)
(*                                                                         *)
(* A sector holds what format writes into it, or Blank: anything else.     *)
(* The sector of the inode table holds a set of inodes.  The driver's wait  *)
(* gives up after a while and goes on (poll_drq), so a read may return      *)
(* Blank and a write may get lost, and both still report success.  Memory   *)
(* is lost when the power fails; the disk stays.                            *)
(***************************************************************************)
EXTENDS Naturals, Sequences, FiniteSets

CONSTANT Blank   \* what format never writes

ASSUME StorageAssumption == Blank \notin {"super", "inode bitmap", "block bitmap"}

VARIABLES
  disk,          \* what the sectors hold
  DISK_PRESENT, MOUNTED,
  fmt,           \* <<>>, or <<n>>: format has written n times
  cut,           \* history: the power failed while format was writing its tables
  fault          \* history: a read or a write failed unnoticed

storageVars == <<disk, DISK_PRESENT, MOUNTED, fmt, cut, fault>>

SUPER == "super"
INODE_BITMAP == "inode bitmap"
BLOCK_BITMAP == "block bitmap"
INODE_TABLE == "inode table"
Sector == {SUPER, INODE_BITMAP, BLOCK_BITMAP, INODE_TABLE}

NoInode == {}
BlankDisk == [s \in Sector |-> IF s = INODE_TABLE THEN NoInode ELSE Blank]

(* What format writes, in its order; the last two are write_inode *)
Format ==
  << [sector |-> SUPER], [sector |-> INODE_BITMAP], [sector |-> BLOCK_BITMAP],
     [sector |-> INODE_TABLE, inode |-> 0], [sector |-> INODE_TABLE, inode |-> 1] >>

Complete == /\ \A s \in Sector \ {INODE_TABLE} : disk[s] = s
            /\ disk[INODE_TABLE] = {0, 1}

-----------------------------------------------------------------------------
(* ata.rs *)

(* Mutant: the answer to IDENTIFY is awaited for ever *)
DetectNoTimeout(answers) == answers /\ DISK_PRESENT' = TRUE

(* detect: no answer in time, status 0 and an ATAPI signature all mean that *)
(* there is no disk                                                         *)
Detect(answers) == DISK_PRESENT' = answers

(* read_sector of a present disk, which works or not; it returns true *)
ReadSector(s, works) == IF works THEN disk[s] ELSE BlankDisk[s]

(* write_sector likewise *)
WriteSector(s, content, works) == disk' = IF works THEN [disk EXCEPT ![s] = content] ELSE disk

-----------------------------------------------------------------------------
(* blockfs.rs *)

(* write_inode: read the sector, whatever comes of it, put the inode into   *)
(* it and write it back                                                     *)
WriteInode(num, reads, writes) ==
  WriteSector(INODE_TABLE, ReadSector(INODE_TABLE, reads) \cup {num}, writes)

(* init, up to format *)
InitBlockfs(answers, reads) ==
  /\ ~MOUNTED /\ fmt = <<>>
  /\ Detect(answers)
  /\ LET magic == ReadSector(SUPER, reads) = SUPER
     IN  /\ MOUNTED' = (answers /\ magic)
         /\ fmt' = IF answers /\ ~magic THEN <<0>> ELSE <<>>
  /\ fault' = (fault \/ (answers /\ ~reads))
  /\ UNCHANGED <<disk, cut>>

(* Write number n of format, of which there are last; then init mounts *)
FormatStep(n, last, reads, writes) ==
  /\ LET w == Format[n]
     IN  IF w.sector = INODE_TABLE THEN WriteInode(w.inode, reads, writes)
         ELSE WriteSector(w.sector, w.sector, writes)
  /\ fault' = (fault \/ ~reads \/ ~writes)
  /\ fmt' = IF n = last THEN <<>> ELSE <<n>>
  /\ MOUNTED' = (n = last)
  /\ UNCHANGED <<DISK_PRESENT, cut>>

(* Mutant: the last write of format is left out *)
FormatWriteShort(reads, writes) ==
  fmt # <<>> /\ FormatStep(fmt[1] + 1, Len(Format) - 1, reads, writes)

(* format writes once more *)
FormatWrite(reads, writes) ==
  fmt # <<>> /\ FormatStep(fmt[1] + 1, Len(Format), reads, writes)

(* The power fails *)
StoragePowerOff ==
  /\ DISK_PRESENT' = FALSE /\ MOUNTED' = FALSE /\ fmt' = <<>>
  /\ cut' = (cut \/ (fmt # <<>> /\ fmt[1] > 0))
  /\ UNCHANGED <<disk, fault>>

StorageInit ==
  /\ disk = BlankDisk
  /\ DISK_PRESENT = FALSE /\ MOUNTED = FALSE /\ fmt = <<>>
  /\ cut = FALSE /\ fault = FALSE

-----------------------------------------------------------------------------
(* blockfs::init: a mounted disk holds the superblock, both bitmaps and the *)
(* inodes of the root and of /dev, unless the power failed after format had *)
(* written the superblock and before it was through, or the disk failed.    *)
(* A power failure before the superblock is written does no harm, however   *)
(* often it happens.                                                        *)
MountedDiskComplete == MOUNTED /\ ~cut /\ ~fault => Complete
=============================================================================
