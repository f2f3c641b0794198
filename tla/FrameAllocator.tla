---------------------------- MODULE FrameAllocator ----------------------------
(***************************************************************************)
(* kernel/src/frame.rs: the physical frame allocator.  Frames are numbered *)
(* 1 .. FRAMES in address order (frame::init rounds the pool up to a frame *)
(* boundary and a tail shorter than a frame is never handed out); 0 is the *)
(* null address.  A frame's first eight bytes are its word: the allocator  *)
(* keeps the free list in the words of the free frames, while the owner of *)
(* a frame may store anything there.                                       *)
(***************************************************************************)
EXTENDS Integers, Sequences, FiniteSets

CONSTANTS
  FRAMES,   \* whole frames between POOL_BASE and POOL_END
  Word      \* the values the owner of a frame may leave in its first word

ASSUME FrameAllocatorAssumption ==
  /\ FRAMES \in Nat
  /\ 0 \in Word

Frame == 1 .. FRAMES

VARIABLES
  pool_next,       \* POOL_NEXT: the first frame never handed out
  free_list_head,  \* FREE_LIST_HEAD
  word,            \* word[f]: the first word of frame f
  owned,           \* the frames that callers hold
  granted,         \* the frame the last alloc_frame returned, 0 for None
  stack            \* history: the frames freed and not reused, latest first

allocVars == <<pool_next, free_list_head, word, stack>>
vars == <<allocVars, owned, granted>>

(* frame::init of a pool that is not empty *)
Init ==
  /\ pool_next = 1
  /\ free_list_head = 0
  /\ word = [f \in Frame |-> 0]
  /\ owned = {}
  /\ granted = 0
  /\ stack = <<>>

(* Mutant: the frame is zeroed before its link is read *)
AllocFromListZeroFirst ==
  /\ free_list_head # 0
  /\ free_list_head' = 0
  /\ word' = [word EXCEPT ![free_list_head] = 0]
  /\ granted' = free_list_head
  /\ owned' = owned \cup {free_list_head}
  /\ stack' = Tail(stack)
  /\ UNCHANGED pool_next

(* alloc_frame, from the free list: pop its head and zero it *)
AllocFromList ==
  /\ free_list_head # 0
  /\ free_list_head' = word[free_list_head]
  /\ word' = [word EXCEPT ![free_list_head] = 0]
  /\ granted' = free_list_head
  /\ owned' = owned \cup {free_list_head}
  /\ stack' = Tail(stack)
  /\ UNCHANGED pool_next

(* Mutant: POOL_END is compared with the frame's start, not its end *)
AllocFromPoolTail ==
  /\ free_list_head = 0
  /\ pool_next <= FRAMES + 1
  /\ pool_next' = pool_next + 1
  /\ word' = [word EXCEPT ![pool_next] = 0]
  /\ granted' = pool_next
  /\ owned' = owned \cup {pool_next}
  /\ UNCHANGED <<free_list_head, stack>>

(* Mutant: POOL_NEXT is not moved *)
AllocFromPoolStays ==
  /\ free_list_head = 0
  /\ pool_next <= FRAMES
  /\ word' = [word EXCEPT ![pool_next] = 0]
  /\ granted' = pool_next
  /\ owned' = owned \cup {pool_next}
  /\ UNCHANGED <<pool_next, free_list_head, stack>>

(* alloc_frame, from the part of the pool that was never used *)
AllocFromPool ==
  /\ free_list_head = 0
  /\ pool_next <= FRAMES
  /\ pool_next' = pool_next + 1
  /\ word' = [word EXCEPT ![pool_next] = 0]
  /\ granted' = pool_next
  /\ owned' = owned \cup {pool_next}
  /\ UNCHANGED <<free_list_head, stack>>

(* Mutant: None as soon as the pool is used up, the free list forgotten *)
AllocNoneEarly ==
  /\ pool_next > FRAMES
  /\ granted' = 0
  /\ UNCHANGED <<allocVars, owned>>

(* alloc_frame returning None *)
AllocNone ==
  /\ free_list_head = 0
  /\ pool_next > FRAMES
  /\ granted' = 0
  /\ UNCHANGED <<allocVars, owned>>

(* free_frame of a frame its owner gives back: push it on the list *)
FreeFrame(f) ==
  /\ f \in owned
  /\ word' = [word EXCEPT ![f] = free_list_head]
  /\ free_list_head' = f
  /\ owned' = owned \ {f}
  /\ stack' = <<f>> \o stack
  /\ UNCHANGED <<pool_next, granted>>

(* The owner of a frame writes to its first word *)
OwnerWrites(f, w) ==
  /\ f \in owned
  /\ word' = [word EXCEPT ![f] = w]
  /\ UNCHANGED <<pool_next, free_list_head, owned, granted, stack>>

Next ==
  \/ AllocFromList
  \/ AllocFromPool
  \/ AllocNone
  \/ \E f \in owned : FreeFrame(f)
  \/ \E f \in owned, w \in Word : OwnerWrites(f, w)

Spec == Init /\ [][Next]_vars

-----------------------------------------------------------------------------
(* The statistics *)

(* Mutant: the frame at POOL_NEXT is counted as used *)
BumpFreeLess == FRAMES - pool_next

(* stats().free_frames, which counts the pool beyond POOL_NEXT only *)
BumpFree == FRAMES - (pool_next - 1)

(* real_stats follows the free list from its head to the null address: f    *)
(* after n turns of its loop                                                *)
Walk[n \in 0 .. FRAMES] ==
  IF n = 0 THEN free_list_head ELSE IF Walk[n - 1] = 0 THEN 0 ELSE word[Walk[n - 1]]

(* It counts a turn for every frame it comes to *)
RealFree == BumpFree + Cardinality({n \in 0 .. FRAMES : Walk[n] # 0})

-----------------------------------------------------------------------------
(* Properties *)

(* POOL_NEXT never passes POOL_END by a frame, and every link is null, a     *)
(* frame, or what an owner wrote.                                           *)
TypeOK ==
  /\ pool_next \in 1 .. FRAMES + 1
  /\ free_list_head \in Frame \cup {0}
  /\ word \in [Frame -> Word \cup Frame \cup {0}]
  /\ owned \subseteq Frame
  /\ granted \in Frame \cup {0}
  /\ stack \in Seq(Frame)

Freed == {stack[i] : i \in 1 .. Len(stack)}
Fresh == pool_next .. FRAMES

(* The list that FREE_LIST_HEAD and the words of the free frames spell is   *)
(* the stack of freed frames: the owners' writes never reach into it, and   *)
(* a push or a pop never loses the rest of it.                              *)
ListIsStack ==
  /\ free_list_head = IF stack = <<>> THEN 0 ELSE stack[1]
  /\ \A i \in 1 .. Len(stack) :
       word[stack[i]] = IF i = Len(stack) THEN 0 ELSE stack[i + 1]

(* Every frame is in exactly one place: held by a caller, on the free list  *)
(* once, or still beyond POOL_NEXT.                                         *)
FramesConserved ==
  /\ \A i, j \in 1 .. Len(stack) : stack[i] = stack[j] => i = j
  /\ owned \cap Freed = {}
  /\ owned \cap Fresh = {}
  /\ Freed \cap Fresh = {}
  /\ owned \cup Freed \cup Fresh = Frame

(* real_stats (the free, top and info commands) counts exactly the frames   *)
(* that no caller holds: its walk of the list ends and counts none twice,   *)
(* so used_frames never underflows.                                         *)
RealStatsExact == Walk[FRAMES] = 0 /\ FRAMES - RealFree = Cardinality(owned)

P == INSTANCE FramePool WITH
       available <- Freed \cup Fresh, None <- 0

(* alloc_frame hands out only frames nobody holds, and says None only when  *)
(* all of them are held: free_frame's list and POOL_NEXT together are one   *)
(* pool, and none of its frames is ever lost or handed out twice.           *)
ImplementsFramePool == P!Spec
=============================================================================
