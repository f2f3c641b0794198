----------------------------- MODULE Installer ------------------------------
(***************************************************************************)
(* The installer (installer.rs): a screen is shown, then a key of the       *)
(* keyboard is waited for.  It writes to no disk.                           *)
(***************************************************************************)
EXTENDS Naturals

CONSTANTS
  DISK_N,           \* 3
  STEPS             \* 6

ASSUME InstallerAssumption == DISK_N \in Nat \ {0} /\ STEPS \in Nat \ {0}

VARIABLES
  InstState,        \* STATE
  SEL_DISK, STEP,
  waiting,          \* wait_key runs
  summary           \* history: the disk of the last summary shown, or DISK_N

installerVars == <<InstState, SEL_DISK, STEP, waiting, summary>>

RunInstaller ==
  /\ InstState' = "Welcome" /\ waiting' = FALSE /\ summary' = DISK_N
  /\ UNCHANGED <<SEL_DISK, STEP>>

(* A screen.  That of Install does one step of the installation *)
Screen ==
  /\ ~waiting /\ waiting' = TRUE
  /\ summary' = IF InstState = "Summary" THEN SEL_DISK ELSE summary
  /\ STEP' = IF InstState = "Install" THEN STEP + 1 ELSE STEP
  /\ InstState' = IF InstState = "Install" /\ STEP' >= STEPS THEN "Complete" ELSE InstState
  /\ UNCHANGED SEL_DISK

(* Mutant: the partitions are the last thing to confirm *)
AfterEnterShort ==
  [Welcome |-> "DiskSelection", DiskSelection |-> "PartitionView",
   PartitionView |-> "Install", Summary |-> "Install"]

AfterEnter ==
  [Welcome |-> "DiskSelection", DiskSelection |-> "PartitionView",
   PartitionView |-> "Summary", Summary |-> "Install"]

AfterEscape ==
  [DiskSelection |-> "Welcome", PartitionView |-> "DiskSelection",
   Summary |-> "DiskSelection"]

(* wait_key, where it returns true *)
WaitKey ==
  /\ waiting /\ waiting' = FALSE
  /\ \/ /\ InstState \in DOMAIN AfterEnter
        /\ InstState' = AfterEnter[InstState]
        /\ STEP' = IF InstState = "Summary" THEN 0 ELSE STEP
        /\ UNCHANGED SEL_DISK
     \/ /\ InstState \in DOMAIN AfterEscape
        /\ InstState' = AfterEscape[InstState]
        /\ UNCHANGED <<SEL_DISK, STEP>>
     \/ /\ InstState = "DiskSelection"
        /\ \/ SEL_DISK > 0 /\ SEL_DISK' = SEL_DISK - 1
           \/ SEL_DISK < DISK_N - 1 /\ SEL_DISK' = SEL_DISK + 1
        /\ UNCHANGED <<InstState, STEP>>
     \/ InstState = "Install" /\ UNCHANGED <<InstState, SEL_DISK, STEP>>
  /\ UNCHANGED summary

(* wait_key, where it returns false: Escape.  What the next run_installer     *)
(* sets before it reads is set here                                         *)
Leave ==
  /\ waiting /\ InstState \in {"Welcome", "Complete"}
  /\ InstState' = "Welcome" /\ STEP' = 0 /\ waiting' = FALSE /\ summary' = DISK_N
  /\ UNCHANGED SEL_DISK

(* Enter at the end restarts the machine *)
Reboots == waiting /\ InstState = "Complete"

InstallerInit ==
  /\ InstState = "Welcome" /\ SEL_DISK = 0 /\ STEP = 0
  /\ waiting = FALSE /\ summary = DISK_N

-----------------------------------------------------------------------------
(* run_installer: the installation that runs, or is complete, is of the     *)
(* disk that the summary with its warning showed, in this run of the        *)
(* installer.                                                               *)
InstallsShownDisk == InstState \in {"Install", "Complete"} => summary = SEL_DISK
=============================================================================
