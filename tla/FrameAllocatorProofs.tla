------------------------ MODULE FrameAllocatorProofs ------------------------
(***************************************************************************)
(* Proofs about the frame allocator, for a pool of any size and whatever   *)
(* the owners of frames write into them.                                   *)
(***************************************************************************)
EXTENDS FrameAllocator, SequenceTheorems, FiniteSetTheorems, TLAPS

(* A pop follows the word of the head, so that TypeOK needs ListIsStack;    *)
(* that a write by an owner leaves the list alone needs FramesConserved.    *)
FInv == TypeOK /\ ListIsStack /\ FramesConserved

LEMMA PushFacts ==
  ASSUME NEW s \in Seq(Frame), NEW f \in Frame
  PROVE  /\ <<f>> \o s \in Seq(Frame)
         /\ Len(<<f>> \o s) = Len(s) + 1
         /\ (<<f>> \o s)[1] = f
         /\ \A i \in 2 .. Len(s) + 1 : (<<f>> \o s)[i] = s[i - 1]
<1>1. <<f>> \in Seq(Frame) /\ Len(<<f>>) = 1 /\ <<f>>[1] = f
  OBVIOUS
<1>2. Len(s) \in Nat
  OBVIOUS
<1>3. /\ <<f>> \o s \in Seq(Frame)
      /\ Len(<<f>> \o s) = Len(<<f>>) + Len(s)
      /\ \A i \in 1 .. Len(<<f>>) + Len(s) :
           (<<f>> \o s)[i] = IF i <= Len(<<f>>) THEN <<f>>[i] ELSE s[i - Len(<<f>>)]
  BY <1>1, ConcatProperties
<1>4. Len(<<f>> \o s) = Len(s) + 1
  BY <1>1, <1>2, <1>3
<1>5. (<<f>> \o s)[1] = f
  BY <1>1, <1>2, <1>3
<1>6. \A i \in 2 .. Len(s) + 1 : (<<f>> \o s)[i] = s[i - 1]
  BY <1>1, <1>2, <1>3
<1> QED BY <1>3, <1>4, <1>5, <1>6

LEMMA StackFacts ==
  ASSUME TypeOK
  PROVE  /\ stack \in Seq(Frame) /\ Len(stack) \in Nat
         /\ \A i \in 1 .. Len(stack) : stack[i] \in Frame
         /\ stack = <<>> <=> Len(stack) = 0
         /\ Frame \subseteq Nat \ {0}
  BY FrameAllocatorAssumption DEF TypeOK, Frame

LEMMA InitFInv == Init => FInv
<1> SUFFICES ASSUME Init PROVE FInv
  OBVIOUS
<1> USE FrameAllocatorAssumption DEF Init
<1>1. TypeOK
  BY DEF TypeOK, Frame
<1>2. ListIsStack
  BY DEF ListIsStack
<1>3. FramesConserved
  BY DEF FramesConserved, Freed, Fresh, Frame
<1> QED BY <1>1, <1>2, <1>3 DEF FInv

(* The head of a list that is not empty *)
LEMMA HeadOfList ==
  ASSUME FInv, free_list_head # 0
  PROVE  /\ stack # <<>> /\ Len(stack) \in Nat \ {0}
         /\ free_list_head = stack[1] /\ free_list_head \in Frame
         /\ word[free_list_head] = IF Len(stack) = 1 THEN 0 ELSE stack[2]
<1>1. TypeOK /\ ListIsStack
  BY DEF FInv
<1>2. stack # <<>> /\ free_list_head = stack[1] /\ free_list_head \in Frame
  BY <1>1 DEF TypeOK, ListIsStack
<1>3. Len(stack) \in Nat \ {0}
  BY <1>1, <1>2, StackFacts
<1>4. 1 \in 1 .. Len(stack) /\ 1 + 1 = 2
  BY <1>3
<1>5. word[stack[1]] = IF 1 = Len(stack) THEN 0 ELSE stack[1 + 1]
  BY <1>1, <1>4 DEF ListIsStack
<1> QED BY <1>2, <1>3, <1>4, <1>5

LEMMA AllocFromListFInv == FInv /\ AllocFromList => FInv'
<1> SUFFICES ASSUME FInv, AllocFromList PROVE FInv'
  OBVIOUS
<1> DEFINE h == free_list_head
<1>0. TypeOK /\ ListIsStack /\ FramesConserved
  BY DEF FInv
<1>1. /\ stack # <<>> /\ Len(stack) \in Nat \ {0} /\ h = stack[1] /\ h \in Frame
      /\ word[h] = IF Len(stack) = 1 THEN 0 ELSE stack[2]
  BY HeadOfList DEF AllocFromList
<1>2. /\ stack' \in Seq(Frame) /\ Len(stack') = Len(stack) - 1
      /\ \A i \in 1 .. Len(stack') : stack'[i] = stack[i + 1]
  BY <1>0, <1>1, HeadTailProperties DEF AllocFromList, TypeOK
<1>3. \A i \in 1 .. Len(stack) : stack[i] \in Frame
  BY <1>0, StackFacts
<1>4. free_list_head' = IF Len(stack) = 1 THEN 0 ELSE stack[2]
  BY <1>1 DEF AllocFromList
<1>5. TypeOK'
  <2>0. Len(stack) # 1 => 2 \in 1 .. Len(stack)
    <3>1. \A n \in Nat \ {0} : n # 1 => 2 \in 1 .. n
      OBVIOUS
    <3> QED BY <1>1, <3>1
  <2>1. free_list_head' \in Frame \cup {0}
    BY <1>3, <1>4, <2>0
  <2>2. word' \in [Frame -> Word \cup Frame \cup {0}]
    BY <1>0 DEF AllocFromList, TypeOK
  <2> QED BY <1>0, <1>1, <1>2, <2>1, <2>2 DEF AllocFromList, TypeOK
<1>6. ListIsStack'
  <2>1. stack' = <<>> <=> Len(stack) = 1
    BY <1>1, <1>2
  <2>2. free_list_head' = IF stack' = <<>> THEN 0 ELSE stack'[1]
    BY <1>1, <1>2, <1>4, <2>1
  <2>3. ASSUME NEW i \in 1 .. Len(stack')
        PROVE  word'[stack'[i]] = IF i = Len(stack') THEN 0 ELSE stack'[i + 1]
    <3>1. i + 1 \in 1 .. Len(stack) /\ 1 \in 1 .. Len(stack) /\ i + 1 # 1
      BY <1>1, <1>2
    <3>2. stack[i + 1] # stack[1]
      BY <1>0, <3>1 DEF FramesConserved
    <3>3. word'[stack'[i]] = word[stack[i + 1]]
      BY <1>0, <1>1, <1>2, <1>3, <3>1, <3>2 DEF AllocFromList, TypeOK
    <3>4. word[stack[i + 1]] = IF i + 1 = Len(stack) THEN 0 ELSE stack[i + 1 + 1]
      BY <1>0, <3>1 DEF ListIsStack
    <3>5. i # Len(stack') => stack'[i + 1] = stack[i + 1 + 1]
      BY <1>1, <1>2
    <3> QED BY <1>1, <1>2, <3>3, <3>4, <3>5
  <2> QED BY <2>2, <2>3 DEF ListIsStack
<1>7. FramesConserved'
  <2>1. /\ \A i, j \in 1 .. Len(stack) : stack[i] = stack[j] => i = j
        /\ owned \cap Freed = {} /\ owned \cap Fresh = {} /\ Freed \cap Fresh = {}
        /\ owned \cup Freed \cup Fresh = Frame
    BY <1>0 DEF FramesConserved
  <2>2. \A i, j \in 1 .. Len(stack') : stack'[i] = stack'[j] => i = j
    <3> SUFFICES ASSUME NEW i \in 1 .. Len(stack'), NEW j \in 1 .. Len(stack'),
                        stack'[i] = stack'[j]
                 PROVE  i = j
      OBVIOUS
    <3>1. i + 1 \in 1 .. Len(stack) /\ j + 1 \in 1 .. Len(stack)
      BY <1>1, <1>2
    <3>2. i + 1 = j + 1
      BY <1>2, <2>1, <3>1
    <3> QED BY <3>2
  <2>3. Freed' = Freed \ {h}
    <3>1. ASSUME NEW x \in Freed' PROVE x \in Freed \ {h}
      <4>1. PICK i \in 1 .. Len(stack') : x = stack'[i]
        BY DEF Freed
      <4>2. i + 1 \in 1 .. Len(stack) /\ 1 \in 1 .. Len(stack) /\ i + 1 # 1
        BY <1>1, <1>2
      <4>3. x = stack[i + 1] /\ stack[i + 1] # stack[1]
        BY <1>2, <2>1, <4>1, <4>2
      <4> QED BY <1>1, <4>2, <4>3 DEF Freed
    <3>2. ASSUME NEW x \in Freed \ {h} PROVE x \in Freed'
      <4>1. PICK i \in 1 .. Len(stack) : x = stack[i]
        BY DEF Freed
      <4>2. i - 1 \in 1 .. Len(stack')
        BY <1>1, <1>2, <4>1
      <4>3. x = stack'[i - 1]
        BY <1>2, <4>1, <4>2
      <4> QED BY <4>2, <4>3 DEF Freed
    <3> QED BY <3>1, <3>2
  <2>4. h \in Freed
    BY <1>1 DEF Freed
  <2>5. owned' = owned \cup {h} /\ Fresh' = Fresh
    BY DEF AllocFromList, Fresh
  <2> QED BY <2>1, <2>2, <2>3, <2>4, <2>5 DEF FramesConserved
<1> QED BY <1>5, <1>6, <1>7 DEF FInv

LEMMA AllocFromPoolFInv == FInv /\ AllocFromPool => FInv'
<1> SUFFICES ASSUME FInv, AllocFromPool PROVE FInv'
  OBVIOUS
<1>0. TypeOK /\ ListIsStack /\ FramesConserved /\ FRAMES \in Nat
  BY FrameAllocatorAssumption DEF FInv
<1>1. pool_next \in Frame /\ pool_next \in Fresh
  BY <1>0 DEF AllocFromPool, TypeOK, Frame, Fresh
<1>2. Fresh' = Fresh \ {pool_next}
  BY <1>0 DEF AllocFromPool, TypeOK, Fresh
<1>3. TypeOK'
  BY <1>0, <1>1 DEF AllocFromPool, TypeOK, Frame
<1>4. Freed' = Freed /\ pool_next \notin Freed
  BY <1>0, <1>1 DEF AllocFromPool, FramesConserved, Freed
<1>5. ListIsStack'
  <2>1. \A i \in 1 .. Len(stack) : stack[i] # pool_next /\ stack[i] \in Frame
    BY <1>0, <1>4, StackFacts DEF Freed
  <2>2. \A i \in 1 .. Len(stack) : word'[stack[i]] = word[stack[i]]
    BY <1>0, <2>1 DEF AllocFromPool, TypeOK
  <2> QED BY <1>0, <2>2 DEF AllocFromPool, ListIsStack
<1>6. FramesConserved'
  <2>1. owned' = owned \cup {pool_next} /\ stack' = stack
    BY DEF AllocFromPool
  <2> QED BY <1>0, <1>1, <1>2, <1>4, <2>1 DEF FramesConserved
<1> QED BY <1>3, <1>5, <1>6 DEF FInv

LEMMA AllocNoneFInv == FInv /\ AllocNone => FInv'
  BY DEF FInv, AllocNone, allocVars, TypeOK, ListIsStack, FramesConserved, Freed, Fresh

LEMMA FreeFrameFInv ==
  ASSUME FInv, NEW f \in owned, FreeFrame(f)
  PROVE  FInv'
<1>0. TypeOK /\ ListIsStack /\ FramesConserved /\ f \in Frame
  BY DEF FInv, TypeOK
<1>1. /\ stack' \in Seq(Frame) /\ Len(stack') = Len(stack) + 1 /\ stack'[1] = f
      /\ \A i \in 2 .. Len(stack) + 1 : stack'[i] = stack[i - 1]
  BY <1>0, PushFacts DEF FreeFrame, TypeOK
<1>2. /\ Len(stack) \in Nat /\ stack = <<>> <=> Len(stack) = 0
      /\ \A i \in 1 .. Len(stack) : stack[i] \in Frame
  BY <1>0, StackFacts
<1>3. \A i \in 1 .. Len(stack) : stack[i] # f
  BY <1>0 DEF FramesConserved, Freed
<1>4. TypeOK'
  BY <1>0, <1>1 DEF FreeFrame, TypeOK
<1>5. ListIsStack'
  <2>1. free_list_head' = stack'[1] /\ stack' # <<>>
    BY <1>1, <1>2 DEF FreeFrame
  <2>2. ASSUME NEW i \in 1 .. Len(stack')
        PROVE  word'[stack'[i]] = IF i = Len(stack') THEN 0 ELSE stack'[i + 1]
    <3>1. CASE i = 1
      <4>1. word'[f] = IF Len(stack) = 0 THEN 0 ELSE stack[1]
        BY <1>0, <1>2 DEF FreeFrame, TypeOK, ListIsStack
      <4>2. Len(stack) # 0 => stack'[2] = stack[1]
        BY <1>1, <1>2
      <4> QED BY <1>1, <1>2, <3>1, <4>1, <4>2
    <3>2. CASE i # 1
      <4>1. i - 1 \in 1 .. Len(stack) /\ stack'[i] = stack[i - 1]
        BY <1>1, <1>2, <3>2
      <4>2. word'[stack[i - 1]] = word[stack[i - 1]]
        BY <1>0, <1>2, <1>3, <4>1 DEF FreeFrame, TypeOK
      <4>3. word[stack[i - 1]] = IF i - 1 = Len(stack) THEN 0 ELSE stack[i - 1 + 1]
        BY <1>0, <4>1 DEF ListIsStack
      <4>4. i # Len(stack') => stack'[i + 1] = stack[i - 1 + 1]
        <5> SUFFICES ASSUME i # Len(stack') PROVE stack'[i + 1] = stack[i - 1 + 1]
          OBVIOUS
        <5>1. i + 1 \in 2 .. Len(stack) + 1 /\ (i + 1) - 1 = i - 1 + 1
          BY <1>1, <1>2, <3>2
        <5>2. stack'[i + 1] = stack[(i + 1) - 1]
          BY <1>1, <5>1
        <5> QED BY <5>1, <5>2
      <4> QED BY <1>1, <1>2, <4>1, <4>2, <4>3, <4>4
    <3> QED BY <3>1, <3>2
  <2> QED BY <2>1, <2>2 DEF ListIsStack
<1>6. FramesConserved'
  <2>1. \A i, j \in 1 .. Len(stack') : stack'[i] = stack'[j] => i = j
    <3> SUFFICES ASSUME NEW i \in 1 .. Len(stack'), NEW j \in 1 .. Len(stack'),
                        stack'[i] = stack'[j]
                 PROVE  i = j
      OBVIOUS
    <3>1. /\ i # 1 => i - 1 \in 1 .. Len(stack) /\ stack'[i] = stack[i - 1]
          /\ j # 1 => j - 1 \in 1 .. Len(stack) /\ stack'[j] = stack[j - 1]
      BY <1>1, <1>2
    <3>2. CASE i = 1 \/ j = 1
      BY <1>1, <1>3, <3>1, <3>2
    <3>3. CASE i # 1 /\ j # 1
      <4>1. i - 1 = j - 1
        BY <1>0, <3>1, <3>3 DEF FramesConserved
      <4> QED BY <4>1
    <3> QED BY <3>2, <3>3
  <2>2. Freed' = Freed \cup {f}
    <3>1. ASSUME NEW x \in Freed' PROVE x \in Freed \cup {f}
      <4>1. PICK i \in 1 .. Len(stack') : x = stack'[i]
        BY DEF Freed
      <4>2. CASE i = 1
        BY <1>1, <4>1, <4>2
      <4>3. CASE i # 1
        <5>1. i - 1 \in 1 .. Len(stack) /\ x = stack[i - 1]
          BY <1>1, <1>2, <4>1, <4>3
        <5> QED BY <5>1 DEF Freed
      <4> QED BY <4>2, <4>3
    <3>2. ASSUME NEW x \in Freed PROVE x \in Freed'
      <4>1. PICK i \in 1 .. Len(stack) : x = stack[i]
        BY DEF Freed
      <4>2. i + 1 \in 1 .. Len(stack') /\ stack'[i + 1] = x
        BY <1>1, <1>2, <4>1
      <4> QED BY <4>2 DEF Freed
    <3>3. f \in Freed'
      <4>1. 1 \in 1 .. Len(stack')
        BY <1>1, <1>2
      <4> QED BY <1>1, <4>1 DEF Freed
    <3> QED BY <3>1, <3>2, <3>3
  <2>3. owned' = owned \ {f} /\ Fresh' = Fresh
    BY DEF FreeFrame, Fresh
  <2> QED BY <1>0, <2>1, <2>2, <2>3 DEF FramesConserved
<1> QED BY <1>4, <1>5, <1>6 DEF FInv

LEMMA OwnerWritesFInv ==
  ASSUME FInv, NEW f \in owned, NEW w \in Word, OwnerWrites(f, w)
  PROVE  FInv'
<1>0. TypeOK /\ ListIsStack /\ FramesConserved
  BY DEF FInv
<1>1. TypeOK'
  BY <1>0 DEF OwnerWrites, TypeOK
<1>2. FramesConserved'
  BY <1>0 DEF OwnerWrites, FramesConserved, Freed, Fresh
<1>3. \A i \in 1 .. Len(stack) : word'[stack[i]] = word[stack[i]]
  BY <1>0, StackFacts DEF OwnerWrites, FramesConserved, Freed, TypeOK
<1>4. ListIsStack'
  BY <1>0, <1>3 DEF OwnerWrites, ListIsStack
<1> QED BY <1>1, <1>2, <1>4 DEF FInv

LEMMA NextFInv == FInv /\ [Next]_vars => FInv'
<1> SUFFICES ASSUME FInv, [Next]_vars PROVE FInv'
  OBVIOUS
<1>1. CASE UNCHANGED vars
  BY <1>1 DEF vars, allocVars, FInv, TypeOK, ListIsStack, FramesConserved, Freed, Fresh
<1>2. CASE Next
  BY <1>2, AllocFromListFInv, AllocFromPoolFInv, AllocNoneFInv, FreeFrameFInv,
     OwnerWritesFInv DEF Next
<1> QED BY <1>1, <1>2

LEMMA FInvariance == Spec => []FInv
  BY InitFInv, NextFInv, PTL DEF Spec

(* POOL_NEXT stays within the pool, and the list head is null or a frame *)
THEOREM AllocatorTypes == Spec => []TypeOK
<1>1. FInv => TypeOK
  BY DEF FInv
<1> QED BY <1>1, FInvariance, PTL

(* The linked list in the frames is at all times the stack of the frames    *)
(* freed and not reused, whatever the owners of other frames write.         *)
THEOREM FreeListIsStack == Spec => []ListIsStack
<1>1. FInv => ListIsStack
  BY DEF FInv
<1> QED BY <1>1, FInvariance, PTL

(* No frame is ever lost, listed twice, or both free and held *)
THEOREM FramesAreConserved == Spec => []FramesConserved
<1>1. FInv => FramesConserved
  BY DEF FInv
<1> QED BY <1>1, FInvariance, PTL

LEMMA NextImplementsPool ==
  ASSUME FInv, [Next]_vars
  PROVE  [P!Next]_<<Freed \cup Fresh, granted>>
<1>0. TypeOK /\ ListIsStack /\ FramesConserved /\ FRAMES \in Nat
  BY FrameAllocatorAssumption DEF FInv
<1>1. FInv'
  BY NextFInv
<1>2. /\ owned \subseteq Frame /\ owned' \subseteq Frame
      /\ Freed \cup Fresh = Frame \ owned
      /\ (Freed \cup Fresh)' = Frame \ owned'
  BY <1>0, <1>1 DEF FInv, TypeOK, FramesConserved
<1>3. CASE AllocFromList
  <2>1. free_list_head \in Freed
    <3>1. free_list_head = stack[1] /\ Len(stack) \in Nat \ {0}
      BY <1>3, HeadOfList DEF AllocFromList
    <3>2. 1 \in 1 .. Len(stack)
      BY <3>1
    <3> QED BY <3>1, <3>2 DEF Freed
  <2>2. P!Alloc(free_list_head)
    BY <1>2, <1>3, <2>1 DEF AllocFromList, P!Alloc
  <2>3. free_list_head \in Frame
    BY <1>2, <2>1
  <2> QED BY <2>2, <2>3 DEF P!Next
<1>4. CASE AllocFromPool
  <2>1. pool_next \in Fresh /\ pool_next \in Frame
    BY <1>0, <1>4 DEF AllocFromPool, TypeOK, Fresh, Frame
  <2>2. P!Alloc(pool_next)
    BY <1>2, <1>4, <2>1 DEF AllocFromPool, P!Alloc
  <2> QED BY <2>1, <2>2 DEF P!Next
<1>5. CASE AllocNone
  <2>1. Fresh = {}
    BY <1>0, <1>5 DEF AllocNone, TypeOK, Fresh
  <2>2. stack = <<>>
    <3>1. ASSUME stack # <<>> PROVE FALSE
      <4>1. Len(stack) \in Nat \ {0} /\ \A i \in 1 .. Len(stack) : stack[i] \in Nat \ {0}
        BY <1>0, <3>1, StackFacts
      <4>2. 1 \in 1 .. Len(stack)
        BY <4>1
      <4> QED BY <1>0, <1>5, <3>1, <4>1, <4>2 DEF AllocNone, ListIsStack
    <3> QED BY <3>1
  <2>3. Freed = {}
    BY <2>2 DEF Freed
  <2>4. Freed' = {} /\ Fresh' = {}
    BY <1>5, <2>1, <2>3 DEF AllocNone, allocVars, Freed, Fresh
  <2>5. P!AllocFails
    BY <1>5, <2>1, <2>3, <2>4 DEF AllocNone, P!AllocFails
  <2> QED BY <2>5 DEF P!Next
<1>6. CASE \E f \in owned : FreeFrame(f)
  <2>1. PICK f \in owned : FreeFrame(f)
    BY <1>6
  <2>2. P!Free(f)
    BY <1>2, <2>1 DEF FreeFrame, P!Free
  <2>3. f \in Frame
    BY <1>2
  <2> QED BY <2>2, <2>3 DEF P!Next
<1>7. CASE (\E f \in owned, w \in Word : OwnerWrites(f, w)) \/ UNCHANGED vars
  BY <1>2, <1>7 DEF OwnerWrites, vars
<1> QED BY <1>3, <1>4, <1>5, <1>6, <1>7 DEF Next

(* alloc_frame and free_frame together implement the abstract pool: a       *)
(* frame is granted only while nobody holds it, and None only when every    *)
(* frame is held.                                                           *)
THEOREM AllocatorImplementsPool == Spec => ImplementsFramePool
<1>1. Init => P!Init
  <2> SUFFICES ASSUME Init PROVE P!Init
    OBVIOUS
  <2>1. Freed = {} /\ Fresh = Frame
    BY DEF Init, Freed, Fresh, Frame
  <2> QED BY <2>1 DEF Init, P!Init
<1>2. FInv /\ [Next]_vars => [P!Next]_<<Freed \cup Fresh, granted>>
  BY NextImplementsPool
<1>3. ImplementsFramePool <=> P!Init /\ [][P!Next]_<<Freed \cup Fresh, granted>>
  BY DEF ImplementsFramePool, P!Spec
<1> QED BY <1>1, <1>2, <1>3, FInvariance, PTL DEF Spec

-----------------------------------------------------------------------------
(* The statistics *)

LEMMA LeastNat ==
  ASSUME NEW S \in SUBSET Nat, S # {}
  PROVE  \E n \in S : \A m \in S : n <= m
<1>1. PICK n \in S : \A m \in S : ~(<<m, n>> \in OpToRel(<, Nat))
  BY NatLessThanWellFounded, WFMin
<1>2. \A m \in S : ~(m < n)
  BY <1>1 DEF OpToRel
<1> QED BY <1>2

(* The frame the walk is at after n turns: the freed frames one by one,     *)
(* then the null address                                                    *)
Visits(n) == IF n < Len(stack) THEN stack[n + 1] ELSE 0

(* One turn of the walk goes from a freed frame to the next *)
LEMMA OneTurn ==
  ASSUME FInv, NEW n \in Nat
  PROVE  /\ Visits(0) = free_list_head
         /\ n # 0 => Visits(n) = IF Visits(n - 1) = 0 THEN 0 ELSE word[Visits(n - 1)]
         /\ Visits(n) # 0 <=> n < Len(stack)
<1>0. TypeOK /\ ListIsStack
  BY DEF FInv
<1>1. /\ Len(stack) \in Nat /\ stack = <<>> <=> Len(stack) = 0
      /\ \A i \in 1 .. Len(stack) : stack[i] \in Nat \ {0}
  BY <1>0, StackFacts
<1>2. Visits(0) = free_list_head
  BY <1>0, <1>1 DEF ListIsStack, Visits
<1>3. Visits(n) # 0 <=> n < Len(stack)
  <2>1. n < Len(stack) => n + 1 \in 1 .. Len(stack)
    BY <1>1
  <2> QED BY <1>1, <2>1 DEF Visits
<1>4. ASSUME n # 0
      PROVE  Visits(n) = IF Visits(n - 1) = 0 THEN 0 ELSE word[Visits(n - 1)]
  <2>1. CASE n - 1 < Len(stack)
    <3>1. n \in 1 .. Len(stack) /\ (n - 1) + 1 = n
      BY <1>1, <1>4, <2>1
    <3>2. Visits(n - 1) = stack[n] /\ stack[n] # 0
      BY <1>1, <2>1, <3>1 DEF Visits
    <3>3. word[stack[n]] = IF n = Len(stack) THEN 0 ELSE stack[n + 1]
      BY <1>0, <3>1 DEF ListIsStack
    <3>4. n < Len(stack) <=> n # Len(stack)
      BY <1>1, <3>1
    <3> QED BY <3>2, <3>3, <3>4 DEF Visits
  <2>2. CASE ~(n - 1 < Len(stack))
    <3>1. ~(n < Len(stack))
      BY <1>1, <2>2
    <3> QED BY <2>2, <3>1 DEF Visits
  <2> QED BY <2>1, <2>2
<1> QED BY <1>2, <1>3, <1>4

LEMMA WalkVisits ==
  ASSUME FInv
  PROVE  \A n \in 0 .. FRAMES : Walk[n] = Visits(n)
<1> DEFINE Step(f, n) == IF n = 0 THEN free_list_head ELSE IF f[n - 1] = 0 THEN 0 ELSE word[f[n - 1]]
           W(f) == f = [n \in 0 .. FRAMES |-> Step(f, n)]
           walk == CHOOSE f : W(f)
           v == [n \in 0 .. FRAMES |-> Visits(n)]
<1>0. FRAMES \in Nat
  BY FrameAllocatorAssumption
<1>1. Walk = walk
  BY DEF Walk
<1>2. W(v)
  <2>1. ASSUME NEW n \in 0 .. FRAMES PROVE v[n] = Step(v, n)
    <3>1. n \in Nat /\ v[n] = Visits(n)
      OBVIOUS
    <3>2. n # 0 => n - 1 \in 0 .. FRAMES
      BY <1>0
    <3>3. n # 0 => v[n - 1] = Visits(n - 1)
      BY <3>2
    <3> HIDE DEF v
    <3> QED BY <3>1, <3>3, OneTurn
  <2>2. v = [n \in 0 .. FRAMES |-> v[n]]
    OBVIOUS
  <2> HIDE DEF v
  <2> QED BY <2>1, <2>2
<1>3. W(walk)
  <2> HIDE DEF W, v
  <2> QED BY <1>2
<1>4. \A n \in 0 .. FRAMES : walk[n] = Step(walk, n)
  <2> HIDE DEF walk
  <2> QED BY <1>3
<1> HIDE DEF walk, W, v
<1> DEFINE out == {n \in 0 .. FRAMES : walk[n] # Visits(n)}
<1>5. out = {}
  <2> SUFFICES ASSUME out # {} PROVE FALSE
    OBVIOUS
  <2>1. PICK n \in out : \A m \in out : n <= m
    <3>1. out \in SUBSET Nat
      OBVIOUS
    <3> HIDE DEF out
    <3> QED BY <3>1, LeastNat
  <2>2. n \in 0 .. FRAMES /\ n \in Nat /\ walk[n] # Visits(n)
    OBVIOUS
  <2>3. n # 0
    BY <1>4, <2>2, OneTurn
  <2>4. n - 1 \in 0 .. FRAMES /\ n - 1 \notin out
    BY <1>0, <2>1, <2>2, <2>3
  <2>5. walk[n - 1] = Visits(n - 1)
    BY <2>4
  <2> QED BY <1>4, <2>2, <2>3, <2>5, OneTurn
<1> QED BY <1>1, <1>5

(* As many frames are on the list as the stack is long *)
LEMMA FreedCount ==
  ASSUME FInv
  PROVE  IsFiniteSet(Freed) /\ Cardinality(Freed) = Len(stack)
<1>1. TypeOK /\ FramesConserved
  BY DEF FInv
<1>2. stack \in Seq(Frame) /\ Len(stack) \in Nat
  BY <1>1, StackFacts
<1>3. stack \in [1 .. Len(stack) -> Freed]
  BY <1>2 DEF Freed
<1>4. stack \in Injection(1 .. Len(stack), Freed)
  BY <1>1, <1>3 DEF FramesConserved, Injection, IsInjective
<1>5. stack \in Surjection(1 .. Len(stack), Freed)
  BY <1>3 DEF Surjection, Freed
<1>6. ExistsBijection(1 .. Len(stack), Freed)
  BY <1>4, <1>5 DEF Bijection, ExistsBijection
<1>7. IsFiniteSet(1 .. Len(stack)) /\ Cardinality(1 .. Len(stack)) = Len(stack)
  <2>1. 1 \in Int /\ Len(stack) \in Int
    BY <1>2
  <2>2. /\ IsFiniteSet(1 .. Len(stack))
        /\ Cardinality(1 .. Len(stack)) = IF 1 > Len(stack) THEN 0 ELSE Len(stack) - 1 + 1
    BY <2>1, FS_Interval
  <2> QED BY <1>2, <2>2
<1> QED BY <1>6, <1>7, FS_Bijection

LEMMA StatsExact == FInv => RealStatsExact
<1> SUFFICES ASSUME FInv PROVE RealStatsExact
  OBVIOUS
<1> DEFINE n == Len(stack)
           u == Freed \cup Fresh
<1>0. /\ TypeOK /\ FramesConserved /\ FRAMES \in Nat /\ n \in Nat
      /\ pool_next \in Nat /\ 1 <= pool_next /\ pool_next <= FRAMES + 1
  BY FrameAllocatorAssumption, StackFacts DEF FInv, TypeOK
<1>1. IsFiniteSet(Freed) /\ Cardinality(Freed) = n
  BY FreedCount
<1>2. IsFiniteSet(Fresh) /\ Cardinality(Fresh) = BumpFree
  <2>1. /\ IsFiniteSet(pool_next .. FRAMES)
        /\ Cardinality(pool_next .. FRAMES) = IF pool_next > FRAMES THEN 0 ELSE FRAMES - pool_next + 1
    BY <1>0, FS_Interval
  <2>2. FRAMES - (pool_next - 1) = IF pool_next > FRAMES THEN 0 ELSE FRAMES - pool_next + 1
    BY <1>0
  <2> QED BY <2>1, <2>2 DEF Fresh, BumpFree
<1>3. IsFiniteSet(Frame) /\ Cardinality(Frame) = FRAMES
  <2>1. /\ IsFiniteSet(1 .. FRAMES)
        /\ Cardinality(1 .. FRAMES) = IF 1 > FRAMES THEN 0 ELSE FRAMES - 1 + 1
    BY <1>0, FS_Interval
  <2> QED BY <1>0, <2>1 DEF Frame
<1>4. Cardinality({}) = 0
  BY FS_EmptySet
<1>5. IsFiniteSet(u) /\ Cardinality(u) = n + BumpFree
  <2>1. Freed \cap Fresh = {}
    BY <1>0 DEF FramesConserved
  <2>2. BumpFree \in Int
    BY <1>0 DEF BumpFree
  <2>3. /\ IsFiniteSet(Freed \cup Fresh)
        /\ Cardinality(Freed \cup Fresh)
             = Cardinality(Freed) + Cardinality(Fresh) - Cardinality(Freed \cap Fresh)
    BY <1>1, <1>2, FS_Union
  <2>4. Cardinality(Freed \cap Fresh) = 0
    BY <1>4, <2>1
  <2>5. Cardinality(Freed \cup Fresh) = n + BumpFree - 0
    BY <1>1, <1>2, <2>3, <2>4
  <2>6. n + BumpFree - 0 = n + BumpFree
    <3> HIDE DEF n
    <3> QED BY <1>0, <2>2
  <2> QED BY <2>3, <2>5, <2>6
<1>6. Frame \cap u = u /\ owned = Frame \ u
  BY <1>0 DEF FramesConserved
<1>7. Cardinality(owned) = FRAMES - Cardinality(u)
  BY <1>3, <1>6, FS_Difference
<1>8. n <= FRAMES
  <2>1. Freed \in SUBSET Frame
    BY <1>0 DEF FramesConserved
  <2> QED BY <1>1, <1>3, <2>1, FS_Subset
<1>9. \A i \in 0 .. FRAMES : Walk[i] # 0 <=> i < n
  BY <1>0, WalkVisits, OneTurn
<1>10. Walk[FRAMES] = 0
  BY <1>0, <1>8, <1>9
<1>11. Cardinality({i \in 0 .. FRAMES : Walk[i] # 0}) = n
  <2>1. {i \in 0 .. FRAMES : Walk[i] # 0} = 0 .. n - 1
    BY <1>0, <1>8, <1>9
  <2>2. n - 1 \in Int /\ 0 \in Int
    BY <1>0
  <2>3. Cardinality(0 .. n - 1) = IF 0 > n - 1 THEN 0 ELSE (n - 1) - 0 + 1
    BY <2>2, FS_Interval
  <2>4. n = IF 0 > n - 1 THEN 0 ELSE (n - 1) - 0 + 1
    BY <1>0
  <2> HIDE DEF n
  <2> QED BY <2>1, <2>3, <2>4
<1>12. FRAMES - RealFree = Cardinality(owned)
  <2>1. BumpFree \in Int
    BY <1>0 DEF BumpFree
  <2>2. RealFree = BumpFree + n
    BY <1>11 DEF RealFree
  <2> HIDE DEF n
  <2> QED BY <1>0, <1>5, <1>7, <2>1, <2>2
<1> QED BY <1>10, <1>12 DEF RealStatsExact

(* The walk of the free list that the free, top and info commands make      *)
(* comes to an end and, with the frames beyond POOL_NEXT, counts exactly    *)
(* the frames no caller holds: real_stats never reports a used_frames that  *)
(* underflows, for a pool of any size.                                      *)
THEOREM StatsAreExact == Spec => []RealStatsExact
  BY FInvariance, StatsExact, PTL
=============================================================================
