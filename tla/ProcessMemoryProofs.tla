------------------------- MODULE ProcessMemoryProofs -------------------------
(***************************************************************************)
(* Proofs about the memory of processes, for any number of slots, frames    *)
(* and pages: programs share no frame, memory_allocate gives mapped pages    *)
(* that stay although page tables are shared, and programs that were not     *)
(* loaded from a file give back their frames.                                *)
(*                                                                         *)
(* Whatever programs store is allowed for; only after one of them has       *)
(* stored the address of a frame over a link (stray) is nothing said.       *)
(***************************************************************************)
EXTENDS ProcessMemory, WellFoundedInduction, TLAPS

PageOps == {"spawn", "exec", "allocate"}
JobRecord == [op : {"none", "free"} \cup PageOps, slot : 0 .. SLOTS, area : {0} \cup Area,
                    page : Nat, end : Nat, frame : 0 .. FRAMES + 1]

Types ==
  /\ pool_next \in 1 .. FRAMES + 1 /\ free_list_head \in 0 .. FRAMES + 1
  /\ word \in [Frame -> 0 .. FRAMES + 1]
  /\ live \in [Slot -> BOOLEAN] /\ frames_head \in [Slot -> 0 .. FRAMES]
  /\ next_free \in [Slot -> Nat] /\ layer_pages \in [Slot -> 0 .. LAYER_PAGES]
  /\ layer_base \in [Slot -> {0} \cup Area]
  /\ pml4 \in [Slot -> [Region -> 0 .. FRAMES]]
  /\ lower \in [Root -> SUBSET Area] /\ pte \in [Root -> [Area \X Page -> 0 .. FRAMES]]
  /\ held \in [Slot -> SUBSET Frame] /\ tables \in SUBSET Frame
  /\ origin \in [Slot -> {"none", "create", "spawn", "exec"}]
  /\ job \in JobRecord

(* The handler under way works on a slot of its kind, at pages of its own    *)
(* layer or at those where programs are loaded                               *)
JobOk ==
  /\ job.op # "none" => job.slot \in Slot
  /\ job.op \in PageOps => job.page <= job.end /\ job.frame \in 0 .. FRAMES
  /\ job.op \in PageOps /\ job.frame # 0 => job.page < job.end
  /\ job.op \in {"spawn", "allocate"} => live[job.slot]
  /\ job.op \in {"exec", "free"} => ~live[job.slot]
  /\ job.op = "allocate" => /\ next_free[job.slot] <= job.page /\ job.end <= layer_pages[job.slot]
                            /\ job.area = layer_base[job.slot]
  /\ job.op = "spawn" => next_free[job.slot] = 0 /\ job.area = CodeAt
  /\ job.op = "exec" => job.area \in {LoadAt, LowAt}
  /\ job.op \in {"spawn", "exec"} => origin[job.slot] = job.op /\ job.end = CODE_PAGES + STACK_PAGES
  /\ \A i \in Slot : live[i] => /\ next_free[i] <= layer_pages[i]
                                /\ layer_base[i] \in {i, LoadAt, LowAt}
                                /\ OwnLayer(i) => layer_base[i] = i

(* A PML4 names tables that were made for it; the identity map is complete  *)
SpacesOk ==
  /\ \A i \in Slot : \A r \in Region : pml4[i][r] \in tables \cup {0}
  /\ pte[0] = Unmapped /\ lower[0] = {} /\ LowArea \subseteq lower[Firmware]

-----------------------------------------------------------------------------
(* A list: S holds its frames, h is its head, w the words, E what ends it.   *)
(* No frame of S is named twice, and none names the head.                    *)
ListOk(S, h, w, E) ==
  /\ S \subseteq Frame /\ h \in S \cup E
  /\ \A f \in S : w[f] \in S \cup E /\ (w[f] \in S => w[f] # h)
  /\ \A f, g \in S : w[f] = w[g] /\ w[f] \in S => f = g

Ends == {0, CodeWord}

LEMMA EndsNoFrames == Ends \cap Frame = {} /\ 0 \notin Frame /\ CodeWord \notin Frame
                      /\ Frame \subseteq 0 .. FRAMES /\ 0 .. FRAMES \subseteq Frame \cup {0}
                      /\ CodeWord \in 0 .. FRAMES + 1 /\ CodeWord \notin 0 .. FRAMES
  BY ProcessMemoryAssumption DEF Ends, CodeWord, Frame

LEMMA ListPop ==
  ASSUME NEW S, NEW h \in S, NEW w, NEW E, ListOk(S, h, w, E)
  PROVE  ListOk(S \ {h}, w[h], w, E) /\ w[h] # h
<1>1. S \subseteq Frame
  BY DEF ListOk
<1>2. w[h] \in (S \ {h}) \cup E
  BY DEF ListOk
<1>3. ASSUME NEW f \in S \ {h} PROVE w[f] \in (S \ {h}) \cup E /\ (w[f] \in S \ {h} => w[f] # w[h])
  BY DEF ListOk
<1>4. \A f, g \in S \ {h} : w[f] = w[g] /\ w[f] \in S \ {h} => f = g
  BY DEF ListOk
<1>5. w[h] # h
  BY DEF ListOk
<1> QED BY <1>1, <1>2, <1>3, <1>4, <1>5 DEF ListOk

LEMMA ListPush ==
  ASSUME NEW S, NEW h, NEW w \in [Frame -> 0 .. FRAMES + 1], NEW E, ListOk(S, h, w, E),
         NEW f \in Frame \ S, NEW x, x = h \/ x \in E, E \cap Frame = {}
  PROVE  ListOk(S \cup {f}, f, [w EXCEPT ![f] = x], E)
<1> DEFINE v == [w EXCEPT ![f] = x]
           T == S \cup {f}
<1>1. v[f] = x /\ \A g \in S : v[g] = w[g]
  BY DEF ListOk
<1> HIDE DEF v
<1>2. T \subseteq Frame /\ f \in T \cup E
  BY DEF ListOk
<1>3. ASSUME NEW g \in T PROVE v[g] \in T \cup E /\ (v[g] \in T => v[g] # f)
  <2>1. CASE g = f
    BY <1>1, <2>1 DEF ListOk
  <2>2. CASE g \in S
    BY <1>1, <2>2 DEF ListOk
  <2> QED BY <2>1, <2>2
<1>4. ASSUME NEW g \in T, NEW k \in T, v[g] = v[k], v[g] \in T PROVE g = k
  <2>1. CASE g \in S /\ k \in S
    BY <1>1, <1>4, <2>1 DEF ListOk
  <2>2. CASE g = f /\ k \in S
    BY <1>1, <1>4, <2>2 DEF ListOk
  <2>3. CASE k = f /\ g \in S
    BY <1>1, <1>4, <2>3 DEF ListOk
  <2> QED BY <2>1, <2>2, <2>3
<1> QED BY <1>2, <1>3, <1>4 DEF ListOk, v

LEMMA ListCut ==
  ASSUME NEW S, NEW h, NEW w \in [Frame -> 0 .. FRAMES + 1], NEW E, ListOk(S, h, w, E),
         NEW f \in Frame, NEW x, f \in S => x \in E, E \cap Frame = {}
  PROVE  ListOk(S, h, [w EXCEPT ![f] = x], E)
<1> DEFINE v == [w EXCEPT ![f] = x]
<1>1. v[f] = x /\ \A g \in Frame \ {f} : v[g] = w[g]
  OBVIOUS
<1> HIDE DEF v
<1>2. S \subseteq Frame /\ h \in S \cup E
  BY DEF ListOk
<1>3. ASSUME NEW g \in S PROVE v[g] \in S \cup E /\ (v[g] \in S => v[g] # h)
  BY <1>1, <1>2 DEF ListOk
<1>4. \A g, k \in S : v[g] = v[k] /\ v[g] \in S => g = k
  BY <1>1, <1>2 DEF ListOk
<1> QED BY <1>2, <1>3, <1>4 DEF ListOk, v

LEMMA ListNone ==
  ASSUME NEW w, NEW E, NEW h \in E
  PROVE  ListOk({}, h, w, E)
  BY DEF ListOk

-----------------------------------------------------------------------------
HeadOf(i) == IF job.op = "free" /\ job.slot = i THEN job.frame ELSE frames_head[i]
Given == 1 .. pool_next - 1

(* The frames of a program that is in use are in no list but its own, are no *)
(* page tables, and are no other program's                                   *)
Apart(i, F, L) ==
  /\ held[i] \subseteq Given /\ held[i] \cap F = {} /\ held[i] \cap tables = {} /\ L[i] \subseteq held[i]
  /\ \A j \in Slot \ {i} : held[i] \cap L[j] = {} /\ (InUse(j) => held[i] \cap held[j] = {})

(* The free list F, the lists L[i] of the slots and the page tables have no  *)
(* frame in common                                                           *)
Lists(F, L) ==
  /\ L \in [Slot -> SUBSET Frame]
  /\ ListOk(F, free_list_head, word, Ends) /\ F \subseteq Given
  /\ tables \subseteq Given /\ tables \cap F = {}
  /\ \A i \in Slot : /\ ListOk(L[i], HeadOf(i), word, Ends) /\ L[i] \subseteq Given
                     /\ L[i] \cap F = {} /\ L[i] \cap tables = {}
                     /\ \A j \in Slot \ {i} : L[i] \cap L[j] = {}

Shape(F, L) ==
  /\ Lists(F, L)
  /\ \A i \in Slot : InUse(i) => Apart(i, F, L)
  /\ job.op \in PageOps /\ job.frame # 0 =>
       job.frame \in held[job.slot] /\ (job.op = "spawn" => job.frame \notin L[job.slot])

(* Pages that memory_allocate has mapped, in this call and in earlier ones *)
Upto(i) == IF job.op = "allocate" /\ job.slot = i THEN job.page ELSE next_free[i]
Mapped ==
  /\ \A i \in Slot : live[i] /\ OwnLayer(i) =>
       \A p \in 0 .. Upto(i) - 1 :
         /\ Mapping(i, p) \in held[i]
         /\ \A q \in 0 .. Upto(i) - 1 : Mapping(i, p) = Mapping(i, q) => p = q
  /\ job.op = "allocate" /\ job.frame # 0 /\ OwnLayer(job.slot) =>
       \A p \in 0 .. job.page - 1 : Mapping(job.slot, p) # job.frame

MInv == Types /\ JobOk /\ SpacesOk /\ Mapped /\ \E F, L : Shape(F, L)

(* The invariant: until a program has stored the address of a frame, MInv *)
IInv == stray \in BOOLEAN /\ (stray \/ MInv)

LEMMA SlotPositive == Slot \subseteq 0 .. SLOTS /\ SLOTS \in Nat /\ 0 \in 0 .. SLOTS /\ 0 \notin Slot
  BY ProcessMemoryAssumption DEF Slot

(* Layers are apart from each other and from where programs are loaded *)
LEMMA Areas ==
  /\ Slot \subseteq Area /\ LowArea \subseteq Area /\ Slot \cap LowArea = {} /\ 0 \notin Area
  /\ LoadAt \in Area /\ LowAt \in LowArea /\ CodeAt \in LowArea
  /\ \A i \in Slot : /\ StackAt(i) \in LowArea /\ i # LoadAt /\ i # LowAt /\ i # CodeAt
                     /\ \A j \in Slot : i # StackAt(j)
  BY ProcessMemoryAssumption DEF Slot, Area, LowArea, LoadAt, LowAt, CodeAt, StackAt

LEMMA Roots ==
  /\ Firmware \in Root /\ 0 \in Root /\ Frame \subseteq Root /\ 0 .. FRAMES \subseteq Root
  /\ Firmware # 0 /\ Firmware \notin 0 .. FRAMES /\ Firmware \notin Frame
  BY ProcessMemoryAssumption DEF Firmware, Root, Frame

LEMMA OwnRoot ==
  ASSUME Types, JobOk, NEW i \in Slot, live[i], OwnLayer(i)
  PROVE  /\ layer_base[i] = i /\ RootOf(i, i) = pml4[i]["layers"] /\ "layers" \in Region
         /\ \A p : Mapping(i, p) = pte[pml4[i]["layers"]][<<i, p>>]
<1>1. layer_base[i] = i
  BY DEF JobOk
<1>2. i \notin LowArea /\ i # LoadAt
  BY Areas
<1> QED BY <1>1, <1>2 DEF RootOf, RegionOf, Mapping, Region

LEMMA MInvInit == Init => MInv
<1> SUFFICES ASSUME Init PROVE MInv
  OBVIOUS
<1>0. FRAMES \in Nat /\ LAYER_PAGES \in Nat
  BY ProcessMemoryAssumption
<1>1. Types
  <2>1. NoTable \in [Region -> 0 .. FRAMES] /\ Unmapped \in [Area \X Page -> 0 .. FRAMES]
    BY <1>0 DEF NoTable, Unmapped
  <2>2. NoJob \in JobRecord
    BY <1>0, SlotPositive DEF NoJob, JobRecord
  <2>3. lower \in [Root -> SUBSET Area]
    BY Areas DEF Init
  <2> QED BY <1>0, <2>1, <2>2, <2>3 DEF Init, Types
<1>2. JobOk
  BY DEF Init, JobOk, NoJob, PageOps
<1>3. Mapped
  BY DEF Init, Mapped, NoJob
<1>4. SpacesOk
  <2>1. \A i \in Slot : \A r \in Region : pml4[i][r] = 0
    BY DEF Init, NoTable
  <2> QED BY <2>1, Roots DEF Init, SpacesOk
<1> DEFINE L == [i \in Slot |-> {}]
<1>5. Shape({}, L)
  <2>1. \A i \in Slot : HeadOf(i) = 0 /\ ~InUse(i)
    BY DEF Init, HeadOf, NoJob, InUse
  <2>2. ListOk({}, free_list_head, word, Ends)
    BY ListNone DEF Init, Ends
  <2>3. \A i \in Slot : ListOk({}, HeadOf(i), word, Ends)
    BY <2>1, ListNone DEF Ends
  <2>4. Lists({}, L)
    BY <2>2, <2>3 DEF Lists, Init
  <2> QED BY <2>1, <2>4 DEF Shape, Init, NoJob, PageOps
<1> QED BY <1>1, <1>2, <1>3, <1>4, <1>5 DEF MInv

(* alloc_frame hands out a frame that is in no list and in no use *)
LEMMA Fresh ==
  ASSUME Types, NEW F, NEW L, Shape(F, L), NEW x \in 0 .. FRAMES + 1, AllocFrame(x)
  PROVE  /\ TopFrame \in Frame /\ TopFrame \in Given' /\ Given \subseteq Given'
         /\ pool_next' \in 1 .. FRAMES + 1 /\ free_list_head' \in 0 .. FRAMES + 1
         /\ word' = [word EXCEPT ![TopFrame] = x] /\ word' \in [Frame -> 0 .. FRAMES + 1]
         /\ ListOk(F \ {TopFrame}, free_list_head', word', Ends)
         /\ TopFrame \notin tables
         /\ \A i \in Slot : InUse(i) => TopFrame \notin held[i]
         /\ \A i \in Slot : TopFrame \notin L[i] /\ ListOk(L[i], HeadOf(i), word', Ends)
<1> DEFINE f == TopFrame
<1>0. FRAMES \in Nat /\ 0 \notin Frame /\ Ends \cap Frame = {}
  BY ProcessMemoryAssumption, EndsNoFrames DEF Frame
<1>1. /\ pool_next \in 1 .. FRAMES + 1 /\ free_list_head \in 0 .. FRAMES + 1
      /\ word \in [Frame -> 0 .. FRAMES + 1]
  BY DEF Types
<1>2. ListOk(F, free_list_head, word, Ends) /\ F \subseteq Given /\ F \subseteq Frame
      /\ tables \subseteq Given /\ tables \cap F = {}
  BY DEF Shape, Lists, ListOk
<1>3. \A i \in Slot : /\ ListOk(L[i], HeadOf(i), word, Ends) /\ L[i] \subseteq Given
                      /\ L[i] \cap F = {}
  BY DEF Shape, Lists
<1>4. \A i \in Slot : InUse(i) => held[i] \subseteq Given /\ held[i] \cap F = {}
  BY DEF Shape, Apart
<1>5. word' = [word EXCEPT ![f] = x]
  BY DEF AllocFrame
<1>6. CASE free_list_head # 0
  <2>1. f = free_list_head /\ f \in F /\ free_list_head' = word[f] /\ pool_next' = pool_next
    BY <1>0, <1>2, <1>6 DEF TopFrame, AllocFrame, ListOk
  <2> HIDE DEF f
  <2>2. f \in Frame /\ Given' = Given /\ f \in Given
    BY <1>2, <2>1 DEF Given
  <2>3. ListOk(F \ {f}, word[f], word, Ends)
    BY <1>2, <2>1, ListPop
  <2>4. ListOk(F \ {f}, word[f], [word EXCEPT ![f] = x], Ends)
    BY <1>0, <1>1, <2>2, <2>3, ListCut
  <2>5. word[f] \in 0 .. FRAMES + 1 /\ f \notin tables
    BY <1>1, <1>2, <2>1, <2>2
  <2>7. \A i \in Slot : InUse(i) => f \notin held[i]
    BY <1>4, <2>1
  <2>8. \A i \in Slot : f \notin L[i]
    BY <1>3, <2>1
  <2>9. \A i \in Slot : ListOk(L[i], HeadOf(i), [word EXCEPT ![f] = x], Ends)
    BY <1>0, <1>1, <1>3, <2>2, <2>8, ListCut
  <2>10. [word EXCEPT ![f] = x] \in [Frame -> 0 .. FRAMES + 1]
    BY <1>1, <2>2
  <2> QED BY <1>1, <1>5, <2>1, <2>2, <2>4, <2>5, <2>7, <2>8, <2>9, <2>10 DEF f
<1>7. CASE free_list_head = 0
  <2>1. f = pool_next /\ free_list_head' = free_list_head /\ pool_next' = pool_next + 1 /\ pool_next <= FRAMES
    BY <1>0, <1>1, <1>7 DEF TopFrame, AllocFrame, Exhausted
  <2> HIDE DEF f
  <2>2. f \in Frame /\ f \in Given' /\ Given \subseteq Given' /\ f \notin Given /\ pool_next' \in 1 .. FRAMES + 1
    BY <1>0, <1>1, <2>1 DEF Given, Frame
  <2>3. f \notin F /\ F \ {f} = F /\ f \notin tables
    BY <1>2, <2>2
  <2>4. ListOk(F \ {f}, free_list_head, [word EXCEPT ![f] = x], Ends)
    BY <1>0, <1>1, <1>2, <2>2, <2>3, ListCut
  <2>5. \A i \in Slot : InUse(i) => f \notin held[i]
    BY <1>4, <2>2
  <2>6. \A i \in Slot : f \notin L[i]
    BY <1>3, <2>2
  <2>7. \A i \in Slot : ListOk(L[i], HeadOf(i), [word EXCEPT ![f] = x], Ends)
    BY <1>0, <1>1, <1>3, <2>2, <2>6, ListCut
  <2>8. [word EXCEPT ![f] = x] \in [Frame -> 0 .. FRAMES + 1]
    BY <1>1, <2>2
  <2> QED BY <1>1, <1>5, <2>1, <2>2, <2>3, <2>4, <2>5, <2>6, <2>7, <2>8 DEF f
<1> QED BY <1>6, <1>7

(* find_free_slot *)
LEMMA FreeSlotIs ==
  ASSUME FreeSlots # {}
  PROVE  FindFreeSlot \in Slot /\ ~live[FindFreeSlot]
<1>1. FreeSlots \in SUBSET Nat
  BY ProcessMemoryAssumption DEF FreeSlots, Slot
<1>2. IsWellFoundedOn(OpToRel(<, Nat), Nat)
  BY NatLessThanWellFounded
<1>3. PICK n \in FreeSlots : \A m \in FreeSlots : ~(<<m, n>> \in OpToRel(<, Nat))
  BY <1>1, <1>2, WFMin
<1>4. ASSUME NEW m \in FreeSlots PROVE n <= m
  <2>1. n \in Nat /\ m \in Nat
    BY <1>1
  <2>2. ~(m < n)
    BY <1>3, <2>1 DEF OpToRel
  <2> QED BY <2>1, <2>2
<1>5. FindFreeSlot \in FreeSlots
  BY <1>4 DEF FindFreeSlot
<1> QED BY <1>5 DEF FreeSlots

LEMMA JobFields ==
  ASSUME NEW op, NEW i, NEW a, NEW p, NEW e
  PROVE  /\ Job(op, i, a, p, e).op = op /\ Job(op, i, a, p, e).slot = i /\ Job(op, i, a, p, e).area = a
         /\ Job(op, i, a, p, e).page = p /\ Job(op, i, a, p, e).end = e /\ Job(op, i, a, p, e).frame = 0
         /\ NoJob.op = "none" /\ NoJob.frame = 0
  BY DEF Job, NoJob

LEMMA JobTypes ==
  ASSUME NEW op \in {"none", "free"} \cup PageOps, NEW i \in Slot, NEW a \in {0} \cup Area, NEW p \in Nat, NEW e \in Nat
  PROVE  Job(op, i, a, p, e) \in JobRecord /\ NoJob \in JobRecord
  BY SlotPositive, ProcessMemoryAssumption DEF Job, NoJob, JobRecord

(* What every program holds stays, and no program comes into use *)
KeepsUse == tables' = tables /\ \A i \in Slot : held'[i] = held[i] /\ (InUse(i)' => InUse(i))

LEMMA ApartKeeps ==
  ASSUME KeepsUse, pool_next' = pool_next, NEW F, NEW L, \A i \in Slot : InUse(i) => Apart(i, F, L),
         NEW G, NEW M,
         \A i \in Slot : InUse(i)' => /\ held[i] \cap G = {} /\ M[i] \subseteq held[i]
                                      /\ \A j \in Slot \ {i} : held[i] \cap M[j] = {}
  PROVE  \A i \in Slot : InUse(i)' => Apart(i, G, M)'
<1>1. Given' = Given /\ tables' = tables /\ \A i \in Slot : held'[i] = held[i]
  BY DEF Given, KeepsUse
<1>2. ASSUME NEW i \in Slot, InUse(i)' PROVE Apart(i, G, M)'
  <2>1. Apart(i, F, L)
    BY <1>2 DEF KeepsUse
  <2>2. \A j \in Slot \ {i} : InUse(j)' => held'[i] \cap held'[j] = {}
    BY <1>1, <2>1 DEF Apart, KeepsUse
  <2>3. M[i] \subseteq held'[i] /\ \A j \in Slot \ {i} : held'[i] \cap M[j] = {}
    BY <1>1, <1>2
  <2> QED BY <1>1, <1>2, <2>1, <2>2, <2>3 DEF Apart
<1> QED BY <1>2

(* Steps that change no list *)
LEMMA ShapeKeeps ==
  ASSUME NEW F, NEW L, Shape(F, L), UNCHANGED <<pool_next, free_list_head, word>>, KeepsUse,
         \A i \in Slot : HeadOf(i)' = HeadOf(i),
         job'.op \in PageOps /\ job'.frame # 0 => FALSE
  PROVE  Shape(F, L)'
<1>1. Given' = Given /\ tables' = tables
  BY DEF Given, KeepsUse
<1>2. Lists(F, L)'
  BY <1>1 DEF Shape, Lists
<1>3. \A i \in Slot : InUse(i) => Apart(i, F, L)
  BY DEF Shape
<1>4. \A i \in Slot : InUse(i)' => /\ held[i] \cap F = {} /\ L[i] \subseteq held[i]
                                   /\ \A j \in Slot \ {i} : held[i] \cap L[j] = {}
  BY <1>3 DEF KeepsUse, Apart
<1>5. \A i \in Slot : InUse(i)' => Apart(i, F, L)'
  BY <1>3, <1>4, ApartKeeps
<1> QED BY <1>2, <1>5 DEF Shape

(* What the invariant needs when pages, programs and mappings stay *)
LEMMA MappedKeeps ==
  ASSUME Types, JobOk, Mapped,
         \A i \in Slot : live'[i] /\ OwnLayer(i)' =>
           /\ live[i] /\ OwnLayer(i) /\ held[i] \subseteq held'[i] /\ Upto(i)' = Upto(i)
           /\ \A p \in 0 .. Upto(i) - 1 : Mapping(i, p)' = Mapping(i, p),
         job'.op = "allocate" /\ job'.frame # 0 /\ OwnLayer(job.slot)' =>
           \A p \in 0 .. job'.page - 1 : Mapping(job.slot, p)' # job'.frame
  PROVE  Mapped'
<1>1. ASSUME NEW i \in Slot, live'[i], OwnLayer(i)', NEW p \in 0 .. Upto(i)' - 1
      PROVE  /\ Mapping(i, p)' \in held'[i]
             /\ \A q \in 0 .. Upto(i)' - 1 : Mapping(i, p)' = Mapping(i, q)' => p = q
  <2>1. /\ live[i] /\ OwnLayer(i) /\ held[i] \subseteq held'[i] /\ p \in 0 .. Upto(i) - 1 /\ Upto(i)' = Upto(i)
        /\ \A q \in 0 .. Upto(i) - 1 : Mapping(i, q)' = Mapping(i, q)
    BY <1>1
  <2>2. /\ Mapping(i, p) \in held[i]
        /\ \A q \in 0 .. Upto(i) - 1 : Mapping(i, p) = Mapping(i, q) => p = q
    BY <2>1 DEF Mapped
  <2> HIDE DEF Mapping
  <2> QED BY <2>1, <2>2
<1> QED BY <1>1 DEF Mapped

(* A slot that is not live gets a new program, without any frame *)
LEMMA MInvReset ==
  ASSUME MInv, job.op = "none", NEW s \in Slot, ~live[s], NEW c \in {0} \cup Slot, ClonePml4(s, c),
         NEW o \in {"create", "spawn", "exec"}, NewProgram(s, o), UNCHANGED allocVars,
         frames_head' = [frames_head EXCEPT ![s] = 0],
         \/ o = "create" /\ Provision(s, s, LAYER_PAGES) /\ job' = job
         \/ /\ o = "spawn" /\ Provision(s, s, LAYER_PAGES)
            /\ job' = Job("spawn", s, CodeAt, 0, CODE_PAGES + STACK_PAGES)
         \/ /\ o = "exec" /\ UNCHANGED <<live, next_free, layer_base, layer_pages>>
            /\ \E a \in {LoadAt, LowAt} : job' = Job("exec", s, a, 0, CODE_PAGES + STACK_PAGES)
  PROVE  MInv'
<1>0. /\ FRAMES \in Nat /\ LAYER_PAGES \in Nat /\ CODE_PAGES + STACK_PAGES \in Nat /\ 0 <= CODE_PAGES + STACK_PAGES
      /\ CodeAt \in Area /\ LoadAt \in Area /\ LowAt \in Area /\ s \in Area
  BY ProcessMemoryAssumption, Areas
<1>1. Types /\ JobOk /\ Mapped /\ SpacesOk
  BY DEF MInv
<1>2. PICK F, L : Shape(F, L)
  BY DEF MInv
<1>3. UNCHANGED <<pool_next, free_list_head, word, lower, pte, tables>>
  BY DEF allocVars, ClonePml4, NewProgram
<1> DEFINE Started ==
            /\ job'.op \in {"none", "spawn", "exec"} /\ (job'.op # "none" => job'.op = o)
            /\ (job'.op # "none" => job'.slot = s /\ job'.page = 0 /\ job'.end = CODE_PAGES + STACK_PAGES /\ job'.frame = 0)
            /\ (job'.op = "spawn" => job'.area = CodeAt) /\ (job'.op = "exec" => job'.area \in {LoadAt, LowAt})
            /\ job' \in JobRecord
<1>5. Started
  <2>1. CASE job' = job
    BY <1>1, <2>1 DEF Types
  <2>2. CASE o = "spawn" /\ job' = Job("spawn", s, CodeAt, 0, CODE_PAGES + STACK_PAGES)
    <3>1. job' \in JobRecord
      BY <1>0, <2>2, JobTypes DEF PageOps
    <3>2. /\ job'.op = "spawn" /\ job'.slot = s /\ job'.page = 0 /\ job'.end = CODE_PAGES + STACK_PAGES
          /\ job'.frame = 0 /\ job'.area = CodeAt
      BY <2>2, JobFields
    <3> QED BY <2>2, <3>1, <3>2
  <2>3. ASSUME o = "exec", NEW a \in {LoadAt, LowAt}, job' = Job("exec", s, a, 0, CODE_PAGES + STACK_PAGES)
        PROVE  Started
    <3>1. job' \in JobRecord
      BY <1>0, <2>3, JobTypes DEF PageOps
    <3>2. /\ job'.op = "exec" /\ job'.slot = s /\ job'.page = 0 /\ job'.end = CODE_PAGES + STACK_PAGES
          /\ job'.frame = 0 /\ job'.area = a
      BY <2>3, JobFields
    <3> QED BY <2>3, <3>1, <3>2
  <2> QED BY <2>1, <2>2, <2>3
<1>6. /\ held' = [held EXCEPT ![s] = {}] /\ origin' = [origin EXCEPT ![s] = o]
      /\ pml4' = [pml4 EXCEPT ![s] = IF c = 0 THEN NoTable ELSE pml4[c]]
  BY DEF ClonePml4, NewProgram
<1>7. /\ \/ o # "exec" /\ live' = [live EXCEPT ![s] = TRUE] /\ next_free' = [next_free EXCEPT ![s] = 0]
            /\ layer_pages' = [layer_pages EXCEPT ![s] = LAYER_PAGES] /\ layer_base' = [layer_base EXCEPT ![s] = s]
         \/ o = "exec" /\ next_free' = next_free /\ layer_pages' = layer_pages /\ live' = live /\ layer_base' = layer_base
  BY DEF Provision
<1>9. next_free \in [Slot -> Nat] /\ layer_pages \in [Slot -> 0 .. LAYER_PAGES] /\ live \in [Slot -> BOOLEAN]
      /\ layer_base \in [Slot -> {0} \cup Area]
      /\ held \in [Slot -> SUBSET Frame] /\ origin \in [Slot -> {"none", "create", "spawn", "exec"}]
      /\ pml4 \in [Slot -> [Region -> 0 .. FRAMES]] /\ frames_head \in [Slot -> 0 .. FRAMES]
  BY <1>1 DEF Types
<1>10. \A i \in Slot \ {s} : /\ next_free'[i] = next_free[i] /\ layer_pages'[i] = layer_pages[i]
                             /\ held'[i] = held[i] /\ live'[i] = live[i] /\ layer_base'[i] = layer_base[i]
                             /\ frames_head'[i] = frames_head[i] /\ origin'[i] = origin[i] /\ pml4'[i] = pml4[i]
  BY <1>6, <1>7, <1>9
<1>11. /\ held'[s] = {} /\ frames_head'[s] = 0 /\ origin'[s] = o
       /\ (o = "exec" => ~live'[s])
       /\ (o # "exec" => live'[s] /\ next_free'[s] = 0 /\ layer_pages'[s] = LAYER_PAGES /\ layer_base'[s] = s)
  BY <1>6, <1>7, <1>9
<1>12. NoTable \in [Region -> 0 .. FRAMES] /\ \A r \in Region : NoTable[r] = 0
  BY <1>0 DEF NoTable
<1>13. /\ pml4' \in [Slot -> [Region -> 0 .. FRAMES]]
       /\ \A i \in Slot : \A r \in Region : pml4'[i][r] \in tables \cup {0}
  <2>1. CASE c = 0
    <3>1. pml4' = [pml4 EXCEPT ![s] = NoTable]
      BY <1>6, <2>1
    <3> QED BY <1>1, <1>9, <1>12, <3>1 DEF SpacesOk
  <2>2. CASE c # 0
    <3>1. pml4' = [pml4 EXCEPT ![s] = pml4[c]] /\ c \in Slot
      BY <1>6, <2>2
    <3> QED BY <1>1, <1>9, <3>1 DEF SpacesOk
  <2> QED BY <2>1, <2>2
<1>14. SpacesOk'
  BY <1>1, <1>3, <1>13 DEF SpacesOk
<1>15. Types'
  <2>1. live' \in [Slot -> BOOLEAN] /\ layer_base' \in [Slot -> {0} \cup Area]
    BY <1>0, <1>7, <1>9
  <2>2. held' \in [Slot -> SUBSET Frame] /\ origin' \in [Slot -> {"none", "create", "spawn", "exec"}]
    BY <1>6, <1>9
  <2>3. next_free' \in [Slot -> Nat] /\ layer_pages' \in [Slot -> 0 .. LAYER_PAGES]
    <3>1. LAYER_PAGES \in 0 .. LAYER_PAGES
      BY <1>0
    <3>2. CASE o = "exec"
      BY <1>7, <1>9, <3>2
    <3>3. CASE o # "exec"
      <4>1. next_free' = [next_free EXCEPT ![s] = 0] /\ layer_pages' = [layer_pages EXCEPT ![s] = LAYER_PAGES]
        BY <1>7, <3>3
      <4>2. next_free \in [Slot -> Nat] /\ layer_pages \in [Slot -> 0 .. LAYER_PAGES]
        BY <1>9
      <4> QED BY <3>1, <4>1, <4>2
    <3> QED BY <3>2, <3>3
  <2>4. frames_head' \in [Slot -> 0 .. FRAMES]
    BY <1>0, <1>9
  <2> QED BY <1>1, <1>3, <1>5, <1>13, <2>1, <2>2, <2>3, <2>4 DEF Types
<1>16. JobOk'
  <2>1. ASSUME NEW i \in Slot, live'[i]
        PROVE  /\ next_free'[i] <= layer_pages'[i] /\ layer_base'[i] \in {i, LoadAt, LowAt}
               /\ OwnLayer(i)' => layer_base'[i] = i
    <3>1. CASE i = s
      BY <1>0, <1>11, <2>1, <3>1
    <3>2. CASE i # s
      BY <1>1, <1>10, <2>1, <3>2 DEF JobOk, OwnLayer
    <3> QED BY <3>1, <3>2
  <2>2. job'.op = "spawn" => next_free'[s] = 0 /\ live'[s]
    BY <1>5, <1>11
  <2>3. job'.op \in PageOps => job'.page <= job'.end /\ job'.frame \in 0 .. FRAMES /\ job'.frame = 0
    BY <1>0, <1>5 DEF PageOps
  <2>4. job'.op = "exec" => ~live'[s]
    BY <1>5, <1>11
  <2>5. job'.op \in {"spawn", "exec"} => origin'[s] = job'.op
    BY <1>5, <1>11
  <2> QED BY <1>5, <2>1, <2>2, <2>3, <2>4, <2>5 DEF JobOk
<1>17. Mapped'
  <2>1. \A i \in Slot : Upto(i)' = next_free'[i] /\ Upto(i) = next_free[i]
    BY <1>5 DEF Upto
  <2>2. \A i \in Slot \ {s} : OwnLayer(i)' = OwnLayer(i) /\ \A p : Mapping(i, p)' = Mapping(i, p)
    BY <1>3, <1>10 DEF OwnLayer, Mapping, RootOf
  <2>3. ASSUME NEW i \in Slot, live'[i], OwnLayer(i)', NEW p \in 0 .. Upto(i)' - 1
        PROVE  /\ Mapping(i, p)' \in held'[i]
               /\ \A q \in 0 .. Upto(i)' - 1 : Mapping(i, p)' = Mapping(i, q)' => p = q
    <3>1. i # s
      <4>1. CASE i = s
        <5>1. Upto(i)' = 0
          BY <1>11, <2>1, <2>3, <4>1
        <5> QED BY <2>3, <5>1
      <4> QED BY <4>1
    <3>2. /\ live[i] /\ OwnLayer(i) /\ p \in 0 .. Upto(i) - 1 /\ Upto(i)' = Upto(i) /\ held'[i] = held[i]
          /\ \A q : Mapping(i, q)' = Mapping(i, q)
      BY <1>10, <2>1, <2>2, <2>3, <3>1
    <3>3. Mapping(i, p) \in held[i] /\ \A q \in 0 .. Upto(i) - 1 : Mapping(i, p) = Mapping(i, q) => p = q
      BY <1>1, <3>2 DEF Mapped
    <3> HIDE DEF Mapping
    <3> QED BY <3>2, <3>3
  <2> QED BY <1>5, <2>3 DEF Mapped
<1>18. PICK M : M = [L EXCEPT ![s] = {}]
  OBVIOUS
<1>19. L \in [Slot -> SUBSET Frame] /\ M \in [Slot -> SUBSET Frame] /\ M[s] = {} /\ \A i \in Slot \ {s} : M[i] = L[i]
  BY <1>2, <1>18 DEF Shape, Lists
<1>20. HeadOf(s)' = 0 /\ \A i \in Slot \ {s} : HeadOf(i)' = HeadOf(i)
  BY <1>5, <1>10, <1>11 DEF HeadOf
<1>21. Given' = Given
  BY <1>3 DEF Given
<1>22. Lists(F, M)'
  <2>1. /\ ListOk(F, free_list_head', word', Ends) /\ F \subseteq Given'
        /\ tables' \subseteq Given' /\ tables' \cap F = {}
    BY <1>2, <1>3, <1>21 DEF Shape, Lists
  <2>2. ASSUME NEW i \in Slot
        PROVE  /\ ListOk(M[i], HeadOf(i)', word', Ends) /\ M[i] \subseteq Given' /\ M[i] \cap F = {}
               /\ M[i] \cap tables' = {} /\ \A j \in Slot \ {i} : M[i] \cap M[j] = {}
    <3>1. CASE i = s
      <4>1. ListOk({}, 0, word', Ends)
        BY ListNone DEF Ends
      <4> QED BY <1>19, <1>20, <3>1, <4>1
    <3>2. CASE i # s
      <4>1. /\ ListOk(L[i], HeadOf(i), word, Ends) /\ L[i] \subseteq Given /\ L[i] \cap F = {}
            /\ L[i] \cap tables = {} /\ \A j \in Slot \ {i} : L[i] \cap L[j] = {}
        BY <1>2 DEF Shape, Lists
      <4>2. \A j \in Slot \ {i} : M[i] \cap M[j] = {}
        BY <1>19, <3>2, <4>1
      <4> QED BY <1>3, <1>19, <1>20, <1>21, <3>2, <4>1, <4>2
    <3> QED BY <3>1, <3>2
  <2> QED BY <1>19, <2>1, <2>2 DEF Lists
<1>23. ASSUME NEW i \in Slot, InUse(i)' PROVE Apart(i, F, M)'
  <2>1. \A j \in Slot \ {s} : held'[j] = held[j] /\ (InUse(j)' => InUse(j))
    BY <1>5, <1>10 DEF InUse
  <2>2. CASE i = s
    BY <1>11, <1>19, <2>2 DEF Apart
  <2>3. CASE i # s
    <3>1. Apart(i, F, L)
      BY <1>2, <1>23, <2>1, <2>3 DEF Shape
    <3>2. \A j \in Slot \ {i} : held'[i] \cap M[j] = {} /\ (InUse(j)' => held'[i] \cap held'[j] = {})
      <4>1. TAKE j \in Slot \ {i}
      <4>2. CASE j = s
        BY <1>11, <1>19, <4>2
      <4>3. CASE j # s
        BY <1>19, <2>1, <2>3, <3>1, <4>3 DEF Apart
      <4> QED BY <4>2, <4>3
    <3> QED BY <1>3, <1>19, <1>21, <2>1, <2>3, <3>1, <3>2 DEF Apart
  <2> QED BY <2>2, <2>3
<1>24. Shape(F, M)'
  BY <1>5, <1>22, <1>23 DEF Shape, PageOps
<1> QED BY <1>14, <1>15, <1>16, <1>17, <1>24 DEF MInv

(* memory_allocate begins, or a handler gives up *)
LEMMA MInvJob ==
  ASSUME MInv, UNCHANGED <<allocVars, pcbVars, mapVars, histVars>>, job.op # "free",
         \/ job' = NoJob
         \/ \E i \in Slot, pages \in 1 .. LAYER_PAGES :
              /\ job.op = "none" /\ live[i] /\ next_free[i] + pages <= layer_pages[i]
              /\ job' = Job("allocate", i, layer_base[i], next_free[i], next_free[i] + pages)
  PROVE  MInv'
<1>0. FRAMES \in Nat /\ LAYER_PAGES \in Nat
  BY ProcessMemoryAssumption
<1>1. Types /\ JobOk /\ Mapped /\ SpacesOk
  BY DEF MInv
<1>2. PICK F, L : Shape(F, L)
  BY DEF MInv
<1>3. /\ UNCHANGED <<pool_next, free_list_head, word, live, frames_head, next_free, layer_base, layer_pages>>
      /\ UNCHANGED <<pml4, lower, pte, held, origin, tables>>
  BY DEF allocVars, pcbVars, mapVars, histVars
<1>4. /\ next_free \in [Slot -> Nat] /\ layer_pages \in [Slot -> 0 .. LAYER_PAGES] /\ job.op \in {"none"} \cup PageOps
      /\ layer_base \in [Slot -> {0} \cup Area]
  BY <1>1 DEF Types, JobRecord
<1>a. SpacesOk'
  BY <1>1, <1>3 DEF SpacesOk
<1>b. \A i \in Slot : OwnLayer(i)' = OwnLayer(i) /\ \A p : Mapping(i, p)' = Mapping(i, p)
  BY <1>3 DEF OwnLayer, Mapping, RootOf
<1>5. CASE job' = NoJob
  <2>1. job'.op = "none" /\ job'.frame = 0
    BY <1>5, JobFields
  <2>2. Types'
    <3>1. NoJob \in JobRecord
      BY <1>0, SlotPositive DEF NoJob, JobRecord
    <3> QED BY <1>1, <1>3, <1>5, <3>1 DEF Types
  <2>3. JobOk'
    BY <1>1, <1>3, <2>1 DEF JobOk, PageOps, OwnLayer
  <2>4. Mapped'
    <3>1. \A i \in Slot : Upto(i)' = next_free[i] /\ (live[i] => Upto(i) \in Nat /\ Upto(i) >= next_free[i] /\ next_free[i] \in Nat)
      BY <1>1, <1>3, <1>4, <2>1 DEF Upto, JobOk, Types, JobRecord
    <3>2. \A i \in Slot : live[i] => 0 .. Upto(i)' - 1 \subseteq 0 .. Upto(i) - 1
      BY <3>1
    <3> HIDE DEF Mapping
    <3> QED BY <1>1, <1>3, <1>b, <2>1, <3>2 DEF Mapped
  <2>5. KeepsUse /\ \A i \in Slot : HeadOf(i)' = HeadOf(i)
    BY <1>3, <2>1 DEF KeepsUse, HeadOf, InUse
  <2>6. Shape(F, L)'
    BY <1>2, <1>3, <2>1, <2>5, ShapeKeeps
  <2> QED BY <1>a, <2>2, <2>3, <2>4, <2>6 DEF MInv
<1>6. ASSUME NEW i \in Slot, NEW pages \in 1 .. LAYER_PAGES, job.op = "none", live[i], next_free[i] + pages <= layer_pages[i],
             job' = Job("allocate", i, layer_base[i], next_free[i], next_free[i] + pages)
      PROVE  MInv'
  <2>1. /\ job'.op = "allocate" /\ job'.frame = 0 /\ job'.slot = i /\ job'.page = next_free[i]
        /\ job'.end = next_free[i] + pages /\ job'.area = layer_base[i]
    BY <1>6, JobFields
  <2>2. next_free[i] \in Nat /\ next_free[i] + pages \in Nat /\ next_free[i] <= next_free[i] + pages /\ next_free[i] <= next_free[i]
    BY <1>0, <1>4
  <2>3. Types'
    <3>1. Job("allocate", i, layer_base[i], next_free[i], next_free[i] + pages) \in JobRecord
      BY <1>4, <2>2, JobTypes DEF PageOps
    <3> QED BY <1>1, <1>3, <1>6, <3>1 DEF Types
  <2>4. JobOk'
    <3>1. job'.frame \in 0 .. FRAMES
      BY <1>0, <2>1
    <3>2. \A j \in Slot : live'[j] => /\ next_free'[j] <= layer_pages'[j] /\ layer_base'[j] \in {j, LoadAt, LowAt}
                                      /\ OwnLayer(j)' => layer_base'[j] = j
      BY <1>1, <1>3, <1>b DEF JobOk
    <3> QED BY <1>3, <1>6, <2>1, <2>2, <3>1, <3>2 DEF JobOk, PageOps
  <2>5. Mapped'
    <3>1. \A j \in Slot : Upto(j)' = Upto(j)
      BY <1>3, <1>6, <2>1 DEF Upto
    <3> HIDE DEF Mapping
    <3> QED BY <1>1, <1>3, <1>b, <2>1, <3>1 DEF Mapped
  <2>6. KeepsUse /\ \A j \in Slot : HeadOf(j)' = HeadOf(j)
    BY <1>3, <1>6, <2>1 DEF KeepsUse, HeadOf, InUse
  <2>7. Shape(F, L)'
    BY <1>2, <1>3, <2>1, <2>6, ShapeKeeps
  <2> QED BY <1>a, <2>3, <2>4, <2>5, <2>7 DEF MInv
<1> QED BY <1>5, <1>6

(* exit_process and kill_process *)
LEMMA MInvExit ==
  ASSUME MInv, NEW s \in Slot, BeginExit(s)
  PROVE  MInv'
<1>0. FRAMES \in Nat
  BY ProcessMemoryAssumption
<1>1. Types /\ JobOk /\ Mapped /\ SpacesOk
  BY DEF MInv
<1>2. PICK F, L : Shape(F, L)
  BY DEF MInv
<1>3. /\ job.op = "none" /\ live[s] /\ live' = [live EXCEPT ![s] = FALSE]
      /\ job' = [Job("free", s, 0, 0, 0) EXCEPT !.frame = frames_head[s]]
      /\ UNCHANGED <<pool_next, free_list_head, word, frames_head, next_free, layer_base, layer_pages>>
      /\ UNCHANGED <<pml4, lower, pte, held, origin, tables>>
  BY DEF BeginExit, Idle, allocVars, mapVars, histVars
<1>4. live \in [Slot -> BOOLEAN] /\ frames_head[s] \in 0 .. FRAMES + 1
  BY <1>0, <1>1 DEF Types
<1>5. job'.op = "free" /\ job'.slot = s /\ job'.frame = frames_head[s]
  BY <1>3 DEF Job
<1>6. Types'
  <2>1. job' \in JobRecord
    BY <1>3, <1>4, SlotPositive DEF Job, JobRecord
  <2> QED BY <1>1, <1>3, <2>1 DEF Types
<1>7. ~live'[s] /\ \A i \in Slot \ {s} : live'[i] = live[i]
  BY <1>3, <1>4
<1>b. \A i \in Slot : OwnLayer(i)' = OwnLayer(i) /\ \A p : Mapping(i, p)' = Mapping(i, p)
  BY <1>3 DEF OwnLayer, Mapping, RootOf
<1>8. JobOk'
  <2>1. \A i \in Slot : live'[i] => /\ next_free'[i] <= layer_pages'[i] /\ layer_base'[i] \in {i, LoadAt, LowAt}
                                    /\ OwnLayer(i)' => layer_base'[i] = i
    BY <1>1, <1>3, <1>7, <1>b DEF JobOk
  <2> QED BY <1>3, <1>5, <1>7, <2>1 DEF JobOk, PageOps
<1>9. Mapped'
  <2>1. \A i \in Slot : Upto(i)' = Upto(i) /\ (live'[i] => live[i])
    BY <1>3, <1>5, <1>7 DEF Upto
  <2> HIDE DEF Mapping
  <2> QED BY <1>1, <1>3, <1>5, <1>b, <2>1, MappedKeeps
<1>10. KeepsUse /\ \A i \in Slot : HeadOf(i)' = HeadOf(i)
  BY <1>3, <1>5, <1>7 DEF KeepsUse, HeadOf, InUse
<1>11. Shape(F, L)'
  BY <1>2, <1>3, <1>5, <1>10, ShapeKeeps DEF PageOps
<1>12. SpacesOk'
  BY <1>1, <1>3 DEF SpacesOk
<1> QED BY <1>6, <1>8, <1>9, <1>11, <1>12 DEF MInv

(* free_process_frames has come to the end of the list *)
LEMMA MInvEndFree ==
  ASSUME MInv, EndFree
  PROVE  MInv'
<1> DEFINE s == job.slot
<1>0. FRAMES \in Nat
  BY ProcessMemoryAssumption
<1>1. Types /\ JobOk /\ Mapped /\ SpacesOk
  BY DEF MInv
<1>2. PICK F, L : Shape(F, L)
  BY DEF MInv
<1>3. /\ job.op = "free" /\ job.frame = 0 /\ frames_head' = [frames_head EXCEPT ![s] = 0] /\ job' = NoJob
      /\ UNCHANGED <<pool_next, free_list_head, word, live, next_free, layer_base, layer_pages>>
      /\ UNCHANGED <<pml4, lower, pte, held, origin, tables>>
  BY DEF EndFree, allocVars, mapVars, histVars
<1>4. s \in Slot /\ frames_head \in [Slot -> 0 .. FRAMES]
  BY <1>1, <1>3 DEF JobOk, Types
<1>5. job'.op = "none" /\ job'.frame = 0
  BY <1>3, JobFields
<1>6. Types'
  <2>1. NoJob \in JobRecord
    BY <1>0, SlotPositive DEF NoJob, JobRecord
  <2>2. frames_head' \in [Slot -> 0 .. FRAMES]
    BY <1>0, <1>3, <1>4
  <2> QED BY <1>1, <1>3, <2>1, <2>2 DEF Types
<1>b. \A i \in Slot : OwnLayer(i)' = OwnLayer(i) /\ \A p : Mapping(i, p)' = Mapping(i, p)
  BY <1>3 DEF OwnLayer, Mapping, RootOf
<1>7. JobOk'
  <2>1. \A i \in Slot : live'[i] => /\ next_free'[i] <= layer_pages'[i] /\ layer_base'[i] \in {i, LoadAt, LowAt}
                                    /\ OwnLayer(i)' => layer_base'[i] = i
    BY <1>1, <1>3, <1>b DEF JobOk
  <2> QED BY <1>5, <2>1 DEF JobOk, PageOps
<1>8. Mapped'
  <2>1. \A i \in Slot : Upto(i)' = Upto(i)
    BY <1>3, <1>5 DEF Upto
  <2> HIDE DEF Mapping
  <2> QED BY <1>1, <1>3, <1>5, <1>b, <2>1, MappedKeeps
<1>9. KeepsUse
  BY <1>3, <1>5 DEF KeepsUse, InUse
<1>10. \A i \in Slot : HeadOf(i)' = HeadOf(i)
  <2>1. frames_head'[s] = 0 /\ \A i \in Slot \ {s} : frames_head'[i] = frames_head[i]
    BY <1>3, <1>4
  <2> QED BY <1>3, <1>5, <2>1 DEF HeadOf
<1>11. Shape(F, L)'
  BY <1>2, <1>3, <1>5, <1>9, <1>10, ShapeKeeps DEF PageOps
<1>12. SpacesOk'
  BY <1>1, <1>3 DEF SpacesOk
<1> QED BY <1>6, <1>7, <1>8, <1>11, <1>12 DEF MInv

(* One turn of free_process_frames: the head of the list goes to the free list *)
LEMMA MInvFreeOne ==
  ASSUME MInv, FreeOne
  PROVE  MInv'
<1>0. FRAMES \in Nat /\ Ends \cap Frame = {} /\ CodeWord \in 0 .. FRAMES + 1
  BY ProcessMemoryAssumption, EndsNoFrames
<1>1. Types /\ JobOk /\ Mapped /\ SpacesOk
  BY DEF MInv
<1>2. PICK F, L : Shape(F, L)
  BY DEF MInv
<1>3. PICK s, f : s = job.slot /\ f = job.frame
  OBVIOUS
<1>4. /\ job.op = "free" /\ f \in Frame /\ job' = [job EXCEPT !.frame = word[f]]
      /\ word' = [word EXCEPT ![f] = free_list_head] /\ free_list_head' = f
      /\ UNCHANGED <<pool_next, live, frames_head, next_free, layer_base, layer_pages>>
      /\ UNCHANGED <<pml4, lower, pte, held, origin, tables>>
  BY <1>3 DEF FreeOne, pcbVars, mapVars, histVars
<1>5. s \in Slot /\ ~live[s] /\ word \in [Frame -> 0 .. FRAMES + 1] /\ free_list_head \in 0 .. FRAMES + 1
      /\ job \in JobRecord
  BY <1>1, <1>3, <1>4 DEF JobOk, Types
<1>6. job'.op = "free" /\ job'.slot = s /\ job'.frame = word[f] /\ job'.page = job.page
  BY <1>3, <1>4, <1>5 DEF JobRecord
<1>7. Types'
  <2>1. word' \in [Frame -> 0 .. FRAMES + 1] /\ free_list_head' \in 0 .. FRAMES + 1
    BY <1>0, <1>4, <1>5 DEF Frame
  <2>2. job' \in JobRecord
    BY <1>4, <1>5 DEF JobRecord
  <2> QED BY <1>1, <1>4, <2>1, <2>2 DEF Types
<1>b. \A i \in Slot : OwnLayer(i)' = OwnLayer(i) /\ \A p : Mapping(i, p)' = Mapping(i, p)
  BY <1>4 DEF OwnLayer, Mapping, RootOf
<1>8. JobOk'
  <2>1. \A i \in Slot : live'[i] => /\ next_free'[i] <= layer_pages'[i] /\ layer_base'[i] \in {i, LoadAt, LowAt}
                                    /\ OwnLayer(i)' => layer_base'[i] = i
    BY <1>1, <1>4, <1>b DEF JobOk
  <2> QED BY <1>4, <1>5, <1>6, <2>1 DEF JobOk, PageOps
<1>9. Mapped'
  <2>1. \A i \in Slot : Upto(i)' = Upto(i)
    BY <1>4, <1>6 DEF Upto
  <2> HIDE DEF Mapping
  <2> QED BY <1>1, <1>4, <1>6, <1>b, <2>1, MappedKeeps
<1>10. KeepsUse
  BY <1>4, <1>6 DEF KeepsUse, InUse
<1>11. HeadOf(s) = f /\ HeadOf(s)' = word[f] /\ \A i \in Slot \ {s} : HeadOf(i)' = HeadOf(i)
  BY <1>3, <1>4, <1>6 DEF HeadOf
<1>12. /\ L \in [Slot -> SUBSET Frame] /\ ListOk(F, free_list_head, word, Ends) /\ F \subseteq Given
       /\ tables \subseteq Given /\ tables \cap F = {}
       /\ \A i \in Slot : /\ ListOk(L[i], HeadOf(i), word, Ends) /\ L[i] \subseteq Given /\ L[i] \cap F = {}
                          /\ L[i] \cap tables = {} /\ \A j \in Slot \ {i} : L[i] \cap L[j] = {}
  BY <1>2 DEF Shape, Lists
<1>13. f \in L[s] /\ f \notin F /\ f \in Given /\ f \notin tables /\ \A i \in Slot \ {s} : f \notin L[i]
  <2>1. ListOk(L[s], f, word, Ends)
    BY <1>5, <1>11, <1>12
  <2>2. f \in L[s]
    BY <1>0, <1>4, <2>1 DEF ListOk
  <2> QED BY <1>5, <1>12, <2>2
<1>14. PICK M : M = [L EXCEPT ![s] = L[s] \ {f}]
  OBVIOUS
<1>15. M \in [Slot -> SUBSET Frame] /\ M[s] = L[s] \ {f} /\ (\A i \in Slot \ {s} : M[i] = L[i]) /\ \A i \in Slot : M[i] \subseteq L[i]
  BY <1>5, <1>12, <1>14
<1>16. Given' = Given
  BY <1>4 DEF Given
<1>17. ListOk(F \cup {f}, f, [word EXCEPT ![f] = free_list_head], Ends)
  BY <1>0, <1>4, <1>5, <1>12, <1>13, ListPush
<1>18. ListOk(L[s] \ {f}, word[f], word, Ends)
  BY <1>5, <1>11, <1>12, <1>13, ListPop
<1>19. ASSUME NEW i \in Slot
       PROVE  /\ ListOk(M[i], HeadOf(i)', word', Ends) /\ M[i] \subseteq Given' /\ M[i] \cap (F \cup {f}) = {}
              /\ M[i] \cap tables' = {} /\ \A j \in Slot \ {i} : M[i] \cap M[j] = {}
  <2>1. ListOk(M[i], HeadOf(i)', word, Ends) /\ f \notin M[i]
    <3>1. CASE i = s
      BY <1>11, <1>15, <1>18, <3>1
    <3>2. CASE i # s
      BY <1>11, <1>12, <1>13, <1>15, <3>2
    <3> QED BY <3>1, <3>2
  <2>2. ListOk(M[i], HeadOf(i)', [word EXCEPT ![f] = free_list_head], Ends)
    BY <1>0, <1>4, <1>5, <2>1, ListCut
  <2>3. M[i] \subseteq Given /\ M[i] \cap F = {} /\ M[i] \cap tables = {} /\ \A j \in Slot \ {i} : M[i] \cap M[j] = {}
    BY <1>12, <1>15
  <2> QED BY <1>4, <1>16, <2>1, <2>2, <2>3
<1>20. Lists(F \cup {f}, M)'
  <2>1. ListOk(F \cup {f}, free_list_head', word', Ends)
    BY <1>4, <1>17
  <2>2. F \cup {f} \subseteq Given' /\ tables' \subseteq Given' /\ tables' \cap (F \cup {f}) = {}
    BY <1>4, <1>12, <1>13, <1>16
  <2> QED BY <1>15, <1>19, <2>1, <2>2 DEF Lists
<1>21. \A i \in Slot : InUse(i)' => Apart(i, F \cup {f}, M)'
  <2>1. \A i \in Slot : InUse(i) => Apart(i, F, L)
    BY <1>2 DEF Shape
  <2>2. ASSUME NEW i \in Slot, InUse(i)'
        PROVE  /\ held[i] \cap (F \cup {f}) = {} /\ M[i] \subseteq held[i]
               /\ \A j \in Slot \ {i} : held[i] \cap M[j] = {}
    <3>1. InUse(i) /\ i # s
      BY <1>4, <1>5, <1>6, <1>10, <2>2 DEF InUse, KeepsUse
    <3>2. held[i] \cap F = {} /\ L[i] \subseteq held[i] /\ \A j \in Slot \ {i} : held[i] \cap L[j] = {}
      BY <2>1, <3>1 DEF Apart
    <3>3. f \notin held[i]
      BY <1>5, <1>13, <3>1, <3>2
    <3> QED BY <1>15, <3>2, <3>3
  <2> HIDE DEF KeepsUse
  <2>3. PICK G : G = F \cup {f}
    OBVIOUS
  <2> QED BY <1>4, <1>10, <2>1, <2>2, <2>3, ApartKeeps
<1>22. Shape(F \cup {f}, M)'
  BY <1>6, <1>20, <1>21 DEF Shape, PageOps
<1>23. SpacesOk'
  BY <1>1, <1>4 DEF SpacesOk
<1> QED BY <1>7, <1>8, <1>9, <1>22, <1>23 DEF MInv

(* A loop over pages is over *)
LEMMA MInvEndPages ==
  ASSUME MInv, EndPages
  PROVE  MInv'
<1>0. FRAMES \in Nat /\ LAYER_PAGES \in Nat /\ CODE_PAGES \in 0 .. LAYER_PAGES /\ LoadAt \in Area /\ LowAt \in Area
  BY ProcessMemoryAssumption, Areas
<1>1. Types /\ JobOk /\ Mapped /\ SpacesOk
  BY DEF MInv
<1>2. PICK F, L : Shape(F, L)
  BY DEF MInv
<1>3. PICK s : s = job.slot
  OBVIOUS
<1>4. /\ job.op \in PageOps /\ job.page = job.end /\ job' = NoJob
      /\ UNCHANGED <<pool_next, free_list_head, word, pml4, lower, pte, held, origin, tables>>
  BY DEF EndPages, allocVars, mapVars, histVars, PageOps
<1>5. s \in Slot /\ next_free \in [Slot -> Nat] /\ layer_pages \in [Slot -> 0 .. LAYER_PAGES]
      /\ live \in [Slot -> BOOLEAN] /\ frames_head \in [Slot -> 0 .. FRAMES] /\ job.page \in Nat /\ job.end \in Nat
      /\ layer_base \in [Slot -> {0} \cup Area]
  BY <1>1, <1>3, <1>4 DEF JobOk, Types, PageOps, JobRecord
<1>6. job'.op = "none" /\ job'.frame = 0
  BY <1>4, JobFields
<1>7. NoJob \in JobRecord
  BY <1>0, SlotPositive DEF NoJob, JobRecord
<1>a. SpacesOk'
  BY <1>1, <1>4 DEF SpacesOk
<1>8. CASE job.op \in {"spawn", "allocate"}
  <2>1. UNCHANGED <<live, frames_head, layer_base, layer_pages>> /\ (job.op = "spawn" => next_free' = next_free)
        /\ (job.op = "allocate" => next_free' = [next_free EXCEPT ![s] = job.end])
    BY <1>3, <1>8 DEF EndPages, pcbVars
  <2>2. next_free' \in [Slot -> Nat] /\ (\A i \in Slot \ {s} : next_free'[i] = next_free[i])
        /\ (job.op = "spawn" => next_free'[s] = next_free[s]) /\ (job.op = "allocate" => next_free'[s] = job.end)
    BY <1>5, <1>8, <2>1
  <2>3. Types'
    BY <1>1, <1>4, <1>7, <2>1, <2>2 DEF Types
  <2>b. \A i \in Slot : OwnLayer(i)' = OwnLayer(i) /\ \A p : Mapping(i, p)' = Mapping(i, p)
    BY <1>4, <2>1 DEF OwnLayer, Mapping, RootOf
  <2>4. JobOk'
    <3>1. \A i \in Slot : live'[i] => /\ next_free'[i] <= layer_pages'[i] /\ layer_base'[i] \in {i, LoadAt, LowAt}
                                      /\ OwnLayer(i)' => layer_base'[i] = i
      BY <1>1, <1>3, <1>8, <2>1, <2>2, <2>b DEF JobOk
    <3> QED BY <1>6, <3>1 DEF JobOk, PageOps
  <2>5. Mapped'
    <3>1. \A i \in Slot : Upto(i)' = Upto(i)
      BY <1>3, <1>4, <1>6, <1>8, <2>2 DEF Upto
    <3> HIDE DEF Mapping
    <3> QED BY <1>1, <1>4, <1>6, <2>1, <2>b, <3>1, MappedKeeps
  <2>6. KeepsUse /\ \A i \in Slot : HeadOf(i)' = HeadOf(i)
    BY <1>4, <1>6, <1>8, <2>1 DEF KeepsUse, HeadOf, InUse
  <2>7. Shape(F, L)'
    BY <1>2, <1>4, <1>6, <2>6, ShapeKeeps
  <2> QED BY <1>a, <2>3, <2>4, <2>5, <2>7 DEF MInv
<1>9. CASE job.op = "exec"
  <2>0. job.area \in {LoadAt, LowAt} /\ origin[s] = "exec" /\ InUse(s)
    BY <1>1, <1>3, <1>9 DEF JobOk, InUse
  <2>1. /\ live' = [live EXCEPT ![s] = TRUE] /\ frames_head' = [frames_head EXCEPT ![s] = 0]
        /\ next_free' = [next_free EXCEPT ![s] = 0] /\ layer_pages' = [layer_pages EXCEPT ![s] = CODE_PAGES]
        /\ layer_base' = [layer_base EXCEPT ![s] = job.area]
    BY <1>3, <1>9 DEF EndPages, Provision
  <2>2. /\ next_free'[s] = 0 /\ layer_pages'[s] = CODE_PAGES /\ frames_head'[s] = 0 /\ layer_base'[s] = job.area
        /\ \A i \in Slot \ {s} : /\ live'[i] = live[i] /\ next_free'[i] = next_free[i] /\ layer_base'[i] = layer_base[i]
                                 /\ layer_pages'[i] = layer_pages[i] /\ frames_head'[i] = frames_head[i]
    BY <1>5, <2>1
  <2>3. Types'
    <3>1. live' \in [Slot -> BOOLEAN] /\ frames_head' \in [Slot -> 0 .. FRAMES]
      BY <1>0, <1>5, <2>1
    <3>2. next_free' \in [Slot -> Nat] /\ layer_pages' \in [Slot -> 0 .. LAYER_PAGES]
      BY <1>0, <1>5, <2>1
    <3>3. layer_base' \in [Slot -> {0} \cup Area]
      BY <1>0, <1>5, <2>0, <2>1
    <3> QED BY <1>1, <1>4, <1>7, <3>1, <3>2, <3>3 DEF Types
  <2>b. \A i \in Slot : OwnLayer(i)' = OwnLayer(i)
    BY <1>4 DEF OwnLayer
  <2>c. ~OwnLayer(s)
    BY <2>0 DEF OwnLayer
  <2>4. JobOk'
    <3>1. ASSUME NEW i \in Slot, live'[i]
          PROVE  /\ next_free'[i] <= layer_pages'[i] /\ layer_base'[i] \in {i, LoadAt, LowAt}
                 /\ OwnLayer(i)' => layer_base'[i] = i
      <4>1. CASE i = s
        BY <1>0, <2>0, <2>2, <2>b, <2>c, <4>1
      <4>2. CASE i # s
        BY <1>1, <2>2, <2>b, <3>1, <4>2 DEF JobOk
      <4> QED BY <4>1, <4>2
    <3> QED BY <1>6, <3>1 DEF JobOk, PageOps
  <2>5. Mapped'
    <3>1. \A i \in Slot : Upto(i)' = next_free'[i] /\ Upto(i) = next_free[i]
      BY <1>6, <1>9 DEF Upto
    <3>2. ASSUME NEW i \in Slot, live'[i], OwnLayer(i)'
          PROVE  /\ live[i] /\ OwnLayer(i) /\ held[i] \subseteq held'[i] /\ Upto(i)' = Upto(i)
                 /\ \A p : Mapping(i, p)' = Mapping(i, p)
      <4>1. i # s
        BY <2>b, <2>c, <3>2
      <4> QED BY <1>4, <2>2, <2>b, <3>1, <3>2, <4>1 DEF Mapping, RootOf
    <3> HIDE DEF Mapping
    <3> QED BY <1>1, <1>6, <3>2, MappedKeeps
  <2>6. KeepsUse
    BY <1>3, <1>4, <1>6, <1>9, <2>2 DEF KeepsUse, InUse
  <2>7. HeadOf(s)' = 0 /\ \A i \in Slot \ {s} : HeadOf(i)' = HeadOf(i)
    BY <1>6, <1>9, <2>2 DEF HeadOf
  <2>8. PICK M : M = [L EXCEPT ![s] = {}]
    OBVIOUS
  <2>9. /\ L \in [Slot -> SUBSET Frame] /\ ListOk(F, free_list_head, word, Ends) /\ F \subseteq Given
        /\ tables \subseteq Given /\ tables \cap F = {}
        /\ \A i \in Slot : /\ ListOk(L[i], HeadOf(i), word, Ends) /\ L[i] \subseteq Given /\ L[i] \cap F = {}
                           /\ L[i] \cap tables = {} /\ \A j \in Slot \ {i} : L[i] \cap L[j] = {}
    BY <1>2 DEF Shape, Lists
  <2>10. M \in [Slot -> SUBSET Frame] /\ M[s] = {} /\ (\A i \in Slot \ {s} : M[i] = L[i]) /\ \A i \in Slot : M[i] \subseteq L[i]
    BY <1>5, <2>8, <2>9
  <2>11. ListOk({}, 0, word, Ends)
    BY ListNone DEF Ends
  <2>12. \A i \in Slot : ListOk(M[i], HeadOf(i)', word', Ends)
    BY <1>4, <2>7, <2>9, <2>10, <2>11
  <2>13. Given' = Given
    BY <1>4 DEF Given
  <2>14. \A i \in Slot : M[i] \subseteq Given /\ M[i] \cap F = {} /\ M[i] \cap tables = {}
                         /\ \A j \in Slot \ {i} : M[i] \cap M[j] = {}
    BY <2>9, <2>10
  <2>15. Lists(F, M)'
    BY <1>4, <2>9, <2>10, <2>12, <2>13, <2>14 DEF Lists
  <2>16. \A i \in Slot : InUse(i) => Apart(i, F, L)
    BY <1>2 DEF Shape
  <2>17. \A i \in Slot : InUse(i)' => /\ held[i] \cap F = {} /\ M[i] \subseteq held[i]
                                      /\ \A j \in Slot \ {i} : held[i] \cap M[j] = {}
    BY <2>6, <2>10, <2>16 DEF KeepsUse, Apart
  <2>18. \A i \in Slot : InUse(i)' => Apart(i, F, M)'
    BY <1>4, <2>6, <2>16, <2>17, ApartKeeps
  <2>19. Shape(F, M)'
    BY <1>6, <2>15, <2>18 DEF Shape, PageOps
  <2> QED BY <1>a, <2>3, <2>4, <2>5, <2>19 DEF MInv
<1> QED BY <1>4, <1>8, <1>9 DEF PageOps

(* A first word that is written with what ends a list, in whatever frame *)
LEMMA ShapeWrite ==
  ASSUME Types, NEW F, NEW L, Shape(F, L), UNCHANGED <<pool_next, free_list_head>>, KeepsUse,
         \A i \in Slot : HeadOf(i)' = HeadOf(i), job'.op \in PageOps /\ job'.frame # 0 => FALSE,
         NEW f \in Frame, NEW x \in Ends, word' = [word EXCEPT ![f] = x]
  PROVE  Shape(F, L)'
<1>0. Ends \cap Frame = {}
  BY EndsNoFrames
<1>1. Given' = Given /\ tables' = tables /\ word \in [Frame -> 0 .. FRAMES + 1]
  BY DEF Given, Types, KeepsUse
<1>2. /\ L \in [Slot -> SUBSET Frame] /\ ListOk(F, free_list_head, word, Ends) /\ F \subseteq Given
      /\ tables \subseteq Given /\ tables \cap F = {}
      /\ \A i \in Slot : /\ ListOk(L[i], HeadOf(i), word, Ends) /\ L[i] \subseteq Given /\ L[i] \cap F = {}
                         /\ L[i] \cap tables = {} /\ \A j \in Slot \ {i} : L[i] \cap L[j] = {}
  BY DEF Shape, Lists
<1>3. ListOk(F, free_list_head, [word EXCEPT ![f] = x], Ends)
  BY <1>0, <1>1, <1>2, ListCut
<1>4. \A i \in Slot : ListOk(L[i], HeadOf(i), [word EXCEPT ![f] = x], Ends)
  BY <1>0, <1>1, <1>2, ListCut
<1>5. Lists(F, L)'
  BY <1>1, <1>2, <1>3, <1>4 DEF Lists
<1>6. \A i \in Slot : InUse(i) => Apart(i, F, L)
  BY DEF Shape
<1>7. \A i \in Slot : InUse(i)' => /\ held[i] \cap F = {} /\ L[i] \subseteq held[i]
                                   /\ \A j \in Slot \ {i} : held[i] \cap L[j] = {}
  BY <1>6 DEF KeepsUse, Apart
<1>8. \A i \in Slot : InUse(i)' => Apart(i, F, L)'
  BY <1>6, <1>7, ApartKeeps
<1> QED BY <1>5, <1>8 DEF Shape

(* A program stores to a page, wherever that page is mapped by now *)
LEMMA MInvUserWrites ==
  ASSUME MInv, NEW s \in Slot, NEW p \in Page, NEW w \in UserWord, UserWrites(s, p, w), ~stray'
  PROVE  MInv'
<1>0. FRAMES \in Nat /\ UserWord \subseteq 0 .. FRAMES + 1
  BY ProcessMemoryAssumption
<1>1. Types /\ JobOk /\ Mapped /\ SpacesOk
  BY DEF MInv
<1>2. PICK F, L : Shape(F, L)
  BY DEF MInv
<1>3. PICK f : f = Mapping(s, p)
  OBVIOUS
<1>4. /\ job.op = "none" /\ f \in Frame /\ word' = [word EXCEPT ![f] = w] /\ w \notin Frame
      /\ UNCHANGED <<pool_next, free_list_head, live, frames_head, next_free, layer_base, layer_pages>>
      /\ UNCHANGED <<pml4, lower, pte, job, held, origin, tables>>
  BY <1>3 DEF UserWrites, Idle, pcbVars, mapVars
<1>5. w \in Ends
  BY <1>0, <1>4 DEF Ends, CodeWord, Frame
<1>6. KeepsUse /\ \A i \in Slot : HeadOf(i)' = HeadOf(i)
  BY <1>4 DEF KeepsUse, HeadOf, InUse
<1>7. Shape(F, L)'
  BY <1>1, <1>2, <1>4, <1>5, <1>6, ShapeWrite DEF PageOps
<1>8. word' \in [Frame -> 0 .. FRAMES + 1]
  <2>1. w \in 0 .. FRAMES + 1
    BY <1>0
  <2> QED BY <1>1, <1>4, <2>1 DEF Types
<1>9. Types'
  BY <1>1, <1>4, <1>8 DEF Types
<1>b. \A i \in Slot : OwnLayer(i)' = OwnLayer(i) /\ \A q : Mapping(i, q)' = Mapping(i, q)
  BY <1>4 DEF OwnLayer, Mapping, RootOf
<1>10. JobOk'
  BY <1>1, <1>4 DEF JobOk, OwnLayer
<1>11. Mapped'
  <2>1. \A i \in Slot : Upto(i)' = Upto(i)
    BY <1>4 DEF Upto
  <2> HIDE DEF Mapping
  <2> QED BY <1>1, <1>4, <1>b, <2>1, MappedKeeps
<1>12. SpacesOk'
  BY <1>1, <1>4 DEF SpacesOk
<1> QED BY <1>7, <1>9, <1>10, <1>11, <1>12 DEF MInv

(* The frame a page is mapped to below the tables of another program's layer *)
LEMMA JobArea ==
  ASSUME Types, JobOk, job.op \in PageOps
  PROVE  /\ PageArea \in Area /\ JobRoot \in Root
         /\ \A i \in Slot : live[i] /\ PageArea = i => job.op = "allocate" /\ job.slot = i
         /\ job.op = "spawn" => PageArea \in LowArea /\ JobRoot = Firmware
         /\ JobRoot = 0 => JobRoot = pml4[job.slot][RegionOf(PageArea)] /\ RegionOf(PageArea) \in Region
<1>0. FRAMES \in Nat /\ job.slot \in Slot
  BY ProcessMemoryAssumption DEF JobOk, PageOps
<1>1. PageArea \in Area /\ (job.op = "spawn" => PageArea \in LowArea)
      /\ \A i \in Slot : live[i] /\ PageArea = i => job.op = "allocate" /\ job.slot = i
  <2>1. CASE job.op = "spawn"
    BY <1>0, <2>1, Areas DEF JobOk, PageArea
  <2>2. CASE job.op = "exec"
    BY <1>0, <2>2, Areas DEF JobOk, PageArea
  <2>3. CASE job.op = "allocate"
    <3>1. PageArea = layer_base[job.slot] /\ layer_base[job.slot] \in {job.slot, LoadAt, LowAt}
      BY <1>0, <2>3 DEF JobOk, PageArea
    <3> QED BY <1>0, <2>3, <3>1, Areas
  <2> QED BY <2>1, <2>2, <2>3 DEF PageOps
<1>2. RegionOf(PageArea) \in Region
  BY DEF RegionOf, Region
<1>3. JobRoot = IF PageArea \in LowArea THEN Firmware ELSE pml4[job.slot][RegionOf(PageArea)]
  BY DEF JobRoot, RootOf
<1>4. pml4[job.slot][RegionOf(PageArea)] \in 0 .. FRAMES
  BY <1>0, <1>2 DEF Types
<1> QED BY <1>1, <1>2, <1>3, <1>4, Roots

(* The page that the job maps is one that its tables map to the frame *)
LEMMA JobPage ==
  ASSUME Types, JobOk, job.op \in PageOps, job.page < job.end
  PROVE  job.page \in Page
<1>0. LAYER_PAGES \in Nat /\ STACK_PAGES \in Nat /\ CODE_PAGES \in 1 .. LAYER_PAGES /\ job.slot \in Slot
  BY ProcessMemoryAssumption DEF JobOk, PageOps
<1>1. job.page \in Nat /\ job.end \in Nat /\ layer_pages[job.slot] \in 0 .. LAYER_PAGES
  BY <1>0 DEF Types, JobRecord
<1>2. job.end <= LAYER_PAGES + STACK_PAGES
  <2>1. CASE job.op = "allocate"
    BY <1>0, <1>1, <2>1 DEF JobOk
  <2>2. CASE job.op # "allocate"
    BY <1>0, <1>1, <2>2 DEF JobOk, PageOps
  <2> QED BY <2>1, <2>2
<1> QED BY <1>0, <1>1, <1>2 DEF Page

(* A new table below a PML4, or an area below a table: no page that         *)
(* memory_allocate has mapped is mapped elsewhere                           *)
LEMMA NeedsTableKeeps ==
  ASSUME Types, JobOk, SpacesOk, Mapped, NEW F, NEW L, Shape(F, L), MapNeedsTable,
         NEW i \in Slot, live[i], OwnLayer(i)
  PROVE  \A p \in 0 .. Upto(i) - 1 : Mapping(i, p)' = Mapping(i, p)
<1>1. /\ job.op \in PageOps /\ AllocFrame(0) /\ UNCHANGED <<live, layer_base, origin>>
      /\ \/ JobRoot # 0 /\ pml4' = pml4 /\ pte' = pte
         \/ /\ JobRoot = 0 /\ pml4' = [pml4 EXCEPT ![job.slot][RegionOf(PageArea)] = TopFrame]
            /\ pte' = [pte EXCEPT ![TopFrame] = Unmapped]
  BY DEF MapNeedsTable, PageJob, PageOps, pcbVars
<1>2. TopFrame \in Frame /\ TopFrame \notin tables /\ 0 \notin Frame
  <2>1. 0 \in 0 .. FRAMES + 1
    BY ProcessMemoryAssumption
  <2> QED BY <1>1, <2>1, Fresh, EndsNoFrames
<1>3. layer_base[i] = i /\ "layers" \in Region /\ \A p : Mapping(i, p) = pte[pml4[i]["layers"]][<<i, p>>]
  BY OwnRoot
<1>4. layer_base'[i] = i /\ \A p : Mapping(i, p)' = pte'[pml4'[i]["layers"]][<<i, p>>]
  <2>1. i \notin LowArea /\ i # LoadAt
    BY Areas
  <2> QED BY <1>1, <1>3, <2>1 DEF RootOf, RegionOf, Mapping
<1>5. CASE JobRoot # 0
  BY <1>1, <1>3, <1>4, <1>5
<1>6. CASE JobRoot = 0
  <2>1. /\ pml4[job.slot][RegionOf(PageArea)] = 0 /\ RegionOf(PageArea) \in Region /\ job.slot \in Slot
    BY <1>1, <1>6, JobArea DEF JobOk, PageOps
  <2>2. /\ pte \in [Root -> [Area \X Page -> 0 .. FRAMES]] /\ pml4 \in [Slot -> [Region -> 0 .. FRAMES]]
        /\ pml4[i]["layers"] \in tables \cup {0} /\ pml4[i]["layers"] \in Root
    BY <1>3, Roots DEF Types, SpacesOk
  <2>3. CASE i = job.slot /\ RegionOf(PageArea) = "layers"
    <3>1. ASSUME NEW p \in 0 .. Upto(i) - 1 PROVE FALSE
      <4>1. Mapping(i, p) \in held[i]
        BY <3>1 DEF Mapped
      <4>2. Mapping(i, p) = Unmapped[<<i, p>>]
        BY <1>3, <2>1, <2>3 DEF SpacesOk
      <4>3. i \in Area /\ held[i] \subseteq Frame
        BY Areas DEF Types
      <4>4. Unmapped = [v \in Area \X Page |-> 0] /\ p \in Page
        <5>1. live[i] => Upto(i) <= layer_pages[i] /\ layer_pages[i] \in 0 .. LAYER_PAGES /\ Upto(i) \in Nat
          BY DEF Upto, JobOk, Types, JobRecord, PageOps
        <5>2. LAYER_PAGES \in Nat /\ STACK_PAGES \in Nat
          BY ProcessMemoryAssumption
        <5> QED BY <3>1, <5>1, <5>2 DEF Page, Unmapped
      <4>5. Unmapped[<<i, p>>] = 0
        BY <4>3, <4>4
      <4> QED BY <1>2, <4>1, <4>2, <4>3, <4>5
    <3> QED BY <3>1
  <2>4. CASE ~(i = job.slot /\ RegionOf(PageArea) = "layers")
    <3>1. pml4'[i]["layers"] = pml4[i]["layers"]
      <4>1. CASE i = job.slot
        <5>1. pml4' = [pml4 EXCEPT ![i] = [pml4[i] EXCEPT ![RegionOf(PageArea)] = TopFrame]]
          BY <1>1, <1>6, <4>1
        <5>2. pml4'[i] = [pml4[i] EXCEPT ![RegionOf(PageArea)] = TopFrame] /\ pml4[i] \in [Region -> 0 .. FRAMES]
          BY <2>2, <5>1
        <5> QED BY <1>3, <2>4, <4>1, <5>2
      <4>2. CASE i # job.slot
        BY <1>1, <1>6, <2>2, <4>2
      <4> QED BY <4>1, <4>2
    <3>2. pml4[i]["layers"] # TopFrame
      BY <1>2, <2>2
    <3>3. pte'[pml4[i]["layers"]] = pte[pml4[i]["layers"]]
      BY <1>1, <1>6, <2>2, <3>2
    <3> QED BY <1>3, <1>4, <3>1, <3>3
  <2> QED BY <2>3, <2>4
<1> QED BY <1>5, <1>6

(* map_page takes a frame for a page table *)
LEMMA MInvNeedsTable ==
  ASSUME MInv, MapNeedsTable
  PROVE  MInv'
<1>0. FRAMES \in Nat /\ 0 \in 0 .. FRAMES + 1 /\ 0 \notin Frame /\ Frame \subseteq 0 .. FRAMES
  BY ProcessMemoryAssumption, EndsNoFrames
<1>1. Types /\ JobOk /\ Mapped /\ SpacesOk
  BY DEF MInv
<1>2. PICK F, L : Shape(F, L)
  BY DEF MInv
<1>3. PICK s, t : s = job.slot /\ t = TopFrame
  OBVIOUS
<1>4. /\ job.op \in PageOps /\ job.frame # 0 /\ AllocFrame(0) /\ tables' = tables \cup {t}
      /\ UNCHANGED <<live, frames_head, next_free, layer_base, layer_pages, job, held, origin>>
  BY <1>3 DEF MapNeedsTable, PageJob, NeedsTable, pcbVars, PageOps
<1>5. \/ /\ JobRoot = 0 /\ pml4' = [pml4 EXCEPT ![s][RegionOf(PageArea)] = t]
         /\ lower' = [lower EXCEPT ![t] = {}] /\ pte' = [pte EXCEPT ![t] = Unmapped]
      \/ JobRoot # 0 /\ lower' = [lower EXCEPT ![JobRoot] = lower[JobRoot] \cup {PageArea}] /\ UNCHANGED <<pml4, pte>>
  BY <1>3 DEF MapNeedsTable
<1>6. /\ t \in Frame /\ t \in Given' /\ Given \subseteq Given'
      /\ pool_next' \in 1 .. FRAMES + 1 /\ free_list_head' \in 0 .. FRAMES + 1
      /\ word' \in [Frame -> 0 .. FRAMES + 1]
      /\ ListOk(F \ {t}, free_list_head', word', Ends)
      /\ t \notin tables
      /\ \A i \in Slot : InUse(i) => t \notin held[i]
      /\ \A i \in Slot : t \notin L[i] /\ ListOk(L[i], HeadOf(i), word', Ends)
  BY <1>0, <1>1, <1>2, <1>3, <1>4, Fresh
<1>7. /\ s \in Slot /\ pml4 \in [Slot -> [Region -> 0 .. FRAMES]] /\ lower \in [Root -> SUBSET Area]
      /\ pte \in [Root -> [Area \X Page -> 0 .. FRAMES]] /\ tables \in SUBSET Frame
      /\ PageArea \in Area /\ JobRoot \in Root /\ t \in Root /\ t # 0 /\ t # Firmware /\ t \in 0 .. FRAMES
  BY <1>0, <1>1, <1>3, <1>4, <1>6, JobArea, Roots DEF JobOk, PageOps, Types
<1>8. /\ pml4' \in [Slot -> [Region -> 0 .. FRAMES]] /\ lower' \in [Root -> SUBSET Area]
      /\ pte' \in [Root -> [Area \X Page -> 0 .. FRAMES]]
      /\ \A i \in Slot : \A r \in Region : pml4'[i][r] \in {pml4[i][r], t}
      /\ pte'[0] = pte[0] /\ lower'[0] = lower[0] /\ lower[Firmware] \subseteq lower'[Firmware]
  <2>1. CASE JobRoot = 0
    <3>1. Unmapped \in [Area \X Page -> 0 .. FRAMES]
      BY <1>0 DEF Unmapped
    <3>2. /\ pml4' = [pml4 EXCEPT ![s] = [pml4[s] EXCEPT ![RegionOf(PageArea)] = t]]
          /\ lower' = [lower EXCEPT ![t] = {}] /\ pte' = [pte EXCEPT ![t] = Unmapped]
      BY <1>5, <2>1
    <3>3. pml4[s] \in [Region -> 0 .. FRAMES]
      BY <1>7
    <3>4. /\ [pml4[s] EXCEPT ![RegionOf(PageArea)] = t] \in [Region -> 0 .. FRAMES]
          /\ \A r \in Region : [pml4[s] EXCEPT ![RegionOf(PageArea)] = t][r] \in {pml4[s][r], t}
      BY <1>7, <3>3
    <3>5. /\ pml4' \in [Slot -> [Region -> 0 .. FRAMES]]
          /\ \A i \in Slot : \A r \in Region : pml4'[i][r] \in {pml4[i][r], t}
      BY <1>7, <3>2, <3>4
    <3>6. lower' \in [Root -> SUBSET Area] /\ pte' \in [Root -> [Area \X Page -> 0 .. FRAMES]]
      BY <1>7, <3>1, <3>2
    <3> QED BY <1>7, <3>2, <3>5, <3>6, Roots
  <2>2. CASE JobRoot # 0
    <3>1. pml4' = pml4 /\ pte' = pte /\ lower' = [lower EXCEPT ![JobRoot] = lower[JobRoot] \cup {PageArea}]
      BY <1>5, <2>2
    <3>2. lower' \in [Root -> SUBSET Area]
      BY <1>7, <3>1
    <3>3. lower'[0] = lower[0] /\ lower[Firmware] \subseteq lower'[Firmware]
      BY <1>7, <2>2, <3>1, Roots
    <3> QED BY <1>7, <3>1, <3>2, <3>3
  <2> QED BY <2>1, <2>2
<1>9. Types'
  <2>1. tables' \in SUBSET Frame
    BY <1>4, <1>6, <1>7
  <2> QED BY <1>1, <1>4, <1>6, <1>8, <2>1 DEF Types
<1>10. JobOk'
  BY <1>1, <1>4 DEF JobOk, OwnLayer
<1>11. SpacesOk'
  BY <1>1, <1>4, <1>8 DEF SpacesOk
<1>12. Mapped'
  <2>1. \A i \in Slot : Upto(i)' = Upto(i) /\ OwnLayer(i)' = OwnLayer(i)
    BY <1>4 DEF Upto, OwnLayer
  <2>2. \A i \in Slot : live[i] /\ OwnLayer(i) => \A p \in 0 .. Upto(i) - 1 : Mapping(i, p)' = Mapping(i, p)
    BY <1>1, <1>2, NeedsTableKeeps
  <2>3. ASSUME job.op = "allocate", OwnLayer(s), NEW p \in 0 .. job.page - 1 PROVE Mapping(s, p)' # job.frame
    <3>1. live[s] /\ Upto(s) = job.page
      BY <1>1, <1>3, <2>3 DEF JobOk, Upto
    <3>2. Mapping(s, p)' = Mapping(s, p)
      BY <1>7, <2>2, <2>3, <3>1
    <3>3. Mapping(s, p) # job.frame
      BY <1>1, <1>3, <1>4, <2>3 DEF Mapped
    <3> QED BY <3>2, <3>3
  <2> HIDE DEF Mapping
  <2> QED BY <1>1, <1>3, <1>4, <1>7, <2>1, <2>2, <2>3, MappedKeeps
<1>13. PICK G : G = F \ {t}
  OBVIOUS
<1>14. /\ L \in [Slot -> SUBSET Frame] /\ F \subseteq Given /\ tables \subseteq Given /\ tables \cap F = {}
       /\ \A i \in Slot : /\ L[i] \subseteq Given /\ L[i] \cap F = {} /\ L[i] \cap tables = {}
                          /\ \A j \in Slot \ {i} : L[i] \cap L[j] = {}
  BY <1>2 DEF Shape, Lists
<1>15. Lists(G, L)'
  <2>1. \A i \in Slot : HeadOf(i)' = HeadOf(i)
    BY <1>4 DEF HeadOf
  <2>2. /\ ListOk(G, free_list_head', word', Ends) /\ G \subseteq Given'
        /\ tables' \subseteq Given' /\ tables' \cap G = {}
    BY <1>4, <1>6, <1>13, <1>14
  <2>3. ASSUME NEW i \in Slot
        PROVE  /\ ListOk(L[i], HeadOf(i)', word', Ends) /\ L[i] \subseteq Given' /\ L[i] \cap G = {}
               /\ L[i] \cap tables' = {} /\ \A j \in Slot \ {i} : L[i] \cap L[j] = {}
    BY <1>4, <1>6, <1>13, <1>14, <2>1
  <2> QED BY <1>14, <2>2, <2>3 DEF Lists
<1>16. \A i \in Slot : InUse(i)' = InUse(i)
  BY <1>4 DEF InUse
<1>17. ASSUME NEW i \in Slot, InUse(i)' PROVE Apart(i, G, L)'
  <2>1. Apart(i, F, L) /\ InUse(i) /\ t \notin held[i]
    BY <1>2, <1>6, <1>16, <1>17 DEF Shape
  <2>2. held[i] \cap tables' = {}
    BY <1>4, <2>1 DEF Apart
  <2> QED BY <1>4, <1>6, <1>13, <1>16, <2>1, <2>2 DEF Apart
<1>18. Shape(G, L)'
  <2>1. job.frame \in held[job.slot] /\ (job.op = "spawn" => job.frame \notin L[job.slot])
    BY <1>2, <1>4 DEF Shape
  <2> QED BY <1>4, <1>15, <1>17, <2>1 DEF Shape
<1> QED BY <1>9, <1>10, <1>11, <1>12, <1>18 DEF MInv

(* alloc_frame for a page; exec and memory_allocate link it to their list *)
LEMMA MInvPageFrame ==
  ASSUME MInv, PageFrame
  PROVE  MInv'
<1>0. FRAMES \in Nat /\ 0 \in 0 .. FRAMES + 1 /\ 0 \notin Frame /\ Frame \subseteq 0 .. FRAMES /\ Frame \subseteq 0 .. FRAMES + 1
      /\ Ends \cap Frame = {} /\ 0 .. FRAMES \subseteq 0 .. FRAMES + 1
  BY ProcessMemoryAssumption, EndsNoFrames
<1>1. Types /\ JobOk /\ Mapped /\ SpacesOk
  BY DEF MInv
<1>2. PICK F, L : Shape(F, L)
  BY DEF MInv
<1>3. PICK s, t, x : s = job.slot /\ t = TopFrame /\ x = IF job.op = "spawn" THEN 0 ELSE frames_head[s]
  OBVIOUS
<1>4. /\ job.op \in PageOps /\ job.frame = 0 /\ job.page < job.end /\ AllocFrame(x)
      /\ frames_head' = IF job.op = "spawn" THEN frames_head ELSE [frames_head EXCEPT ![s] = t]
      /\ held' = [held EXCEPT ![s] = held[s] \cup {t}] /\ job' = [job EXCEPT !.frame = t]
      /\ UNCHANGED <<live, next_free, layer_base, layer_pages, pml4, lower, pte, origin, tables>>
  <2>1. job.op = "spawn" => AllocFrame(0) /\ UNCHANGED frames_head
    BY DEF PageFrame
  <2>2. job.op # "spawn" => AllocFrame(frames_head[s]) /\ frames_head' = [frames_head EXCEPT ![s] = t]
    BY <1>3 DEF PageFrame
  <2>3. AllocFrame(x)
    BY <1>3, <2>1, <2>2
  <2>4. /\ job.op \in PageOps /\ job.frame = 0 /\ job.page < job.end
        /\ held' = [held EXCEPT ![s] = held[s] \cup {t}] /\ job' = [job EXCEPT !.frame = t]
        /\ UNCHANGED <<live, next_free, layer_base, layer_pages, pml4, lower, pte, origin, tables>>
    BY <1>3 DEF PageFrame, PageJob, mapVars, PageOps
  <2> QED BY <2>1, <2>2, <2>3, <2>4
<1>5. /\ s \in Slot /\ held \in [Slot -> SUBSET Frame]
      /\ frames_head \in [Slot -> 0 .. FRAMES] /\ word \in [Frame -> 0 .. FRAMES + 1]
      /\ job \in JobRecord
  BY <1>1, <1>3, <1>4 DEF JobOk, Types, PageOps
<1>6. x \in 0 .. FRAMES + 1
  BY <1>0, <1>3, <1>5
<1>7. /\ t \in Frame /\ t \in Given' /\ Given \subseteq Given'
      /\ pool_next' \in 1 .. FRAMES + 1 /\ free_list_head' \in 0 .. FRAMES + 1
      /\ word' = [word EXCEPT ![t] = x] /\ word' \in [Frame -> 0 .. FRAMES + 1]
      /\ ListOk(F \ {t}, free_list_head', word', Ends)
      /\ t \notin tables
      /\ \A i \in Slot : InUse(i) => t \notin held[i]
      /\ \A i \in Slot : t \notin L[i] /\ ListOk(L[i], HeadOf(i), word', Ends)
  BY <1>1, <1>2, <1>3, <1>4, <1>6, Fresh
<1>8. /\ job'.op = job.op /\ job'.slot = s /\ job'.area = job.area /\ job'.page = job.page /\ job'.end = job.end
      /\ job'.frame = t /\ job' \in JobRecord
  BY <1>0, <1>3, <1>4, <1>5, <1>7 DEF JobRecord
<1>9. /\ held' \in [Slot -> SUBSET Frame] /\ held'[s] = held[s] \cup {t} /\ \A i \in Slot \ {s} : held'[i] = held[i]
  BY <1>4, <1>5, <1>7
<1>10. /\ frames_head' \in [Slot -> 0 .. FRAMES] /\ (\A i \in Slot \ {s} : frames_head'[i] = frames_head[i])
       /\ frames_head'[s] = IF job.op = "spawn" THEN frames_head[s] ELSE t
  BY <1>0, <1>4, <1>5, <1>7
<1>11. Types'
  BY <1>1, <1>4, <1>7, <1>8, <1>9, <1>10 DEF Types
<1>12. JobOk'
  BY <1>0, <1>1, <1>3, <1>4, <1>7, <1>8 DEF JobOk, OwnLayer
<1>13. InUse(s) /\ (\A i \in Slot : InUse(i)' = InUse(i))
  BY <1>1, <1>3, <1>4, <1>8 DEF InUse, JobOk, PageOps
<1>14. t \notin held[s]
  BY <1>5, <1>7, <1>13
<1>15. Mapped'
  <2>1. \A i \in Slot : Upto(i)' = Upto(i) /\ OwnLayer(i)' = OwnLayer(i) /\ \A p : Mapping(i, p)' = Mapping(i, p)
    BY <1>3, <1>4, <1>8 DEF Upto, OwnLayer, Mapping, RootOf
  <2>2. \A i \in Slot : held[i] \subseteq held'[i]
    BY <1>5, <1>9
  <2>3. ASSUME job.op = "allocate", OwnLayer(s), NEW p \in 0 .. job.page - 1 PROVE Mapping(s, p) # t
    <3>1. live[s] /\ Upto(s) = job.page
      BY <1>1, <1>3, <2>3 DEF JobOk, Upto
    <3>2. Mapping(s, p) \in held[s]
      BY <1>1, <1>5, <2>3, <3>1 DEF Mapped
    <3> QED BY <1>14, <3>2
  <2> HIDE DEF Mapping
  <2> QED BY <1>1, <1>3, <1>4, <1>5, <1>8, <2>1, <2>2, <2>3, MappedKeeps
<1>16. PICK G, M : G = F \ {t} /\ M = IF job.op = "spawn" THEN L ELSE [L EXCEPT ![s] = L[s] \cup {t}]
  OBVIOUS
<1>17. /\ L \in [Slot -> SUBSET Frame] /\ F \subseteq Given /\ tables \subseteq Given /\ tables \cap F = {}
       /\ \A i \in Slot : /\ ListOk(L[i], HeadOf(i), word, Ends) /\ L[i] \subseteq Given /\ L[i] \cap F = {}
                          /\ L[i] \cap tables = {} /\ \A j \in Slot \ {i} : L[i] \cap L[j] = {}
  BY <1>2 DEF Shape, Lists
<1>18. /\ M \in [Slot -> SUBSET Frame] /\ (\A i \in Slot \ {s} : M[i] = L[i])
       /\ M[s] = IF job.op = "spawn" THEN L[s] ELSE L[s] \cup {t}
  BY <1>5, <1>7, <1>16, <1>17
<1>19. HeadOf(s) = frames_head[s] /\ HeadOf(s)' = frames_head'[s] /\ \A i \in Slot \ {s} : HeadOf(i)' = HeadOf(i)
  BY <1>4, <1>8, <1>10 DEF HeadOf, PageOps
<1>20. ListOk(M[s], HeadOf(s)', word', Ends)
  <2>1. CASE job.op = "spawn"
    <3>1. M[s] = L[s] /\ HeadOf(s)' = HeadOf(s)
      BY <1>10, <1>18, <1>19, <2>1
    <3>2. ListOk(L[s], HeadOf(s), word', Ends)
      BY <1>5, <1>7
    <3> QED BY <3>1, <3>2
  <2>2. CASE job.op # "spawn"
    <3>1. ListOk(L[s], frames_head[s], word, Ends) /\ t \in Frame \ L[s] /\ x = frames_head[s]
      BY <1>3, <1>5, <1>7, <1>17, <1>19, <2>2
    <3>2. ListOk(L[s] \cup {t}, t, [word EXCEPT ![t] = x], Ends)
      BY <1>0, <1>5, <3>1, ListPush
    <3> QED BY <1>7, <1>10, <1>18, <1>19, <2>2, <3>2
  <2> QED BY <2>1, <2>2
<1>21. Lists(G, M)'
  <2>1. /\ ListOk(G, free_list_head', word', Ends) /\ G \subseteq Given'
        /\ tables' \subseteq Given' /\ tables' \cap G = {}
    BY <1>4, <1>7, <1>16, <1>17
  <2>2. ASSUME NEW i \in Slot
        PROVE  /\ ListOk(M[i], HeadOf(i)', word', Ends) /\ M[i] \subseteq Given' /\ M[i] \cap G = {}
               /\ M[i] \cap tables' = {} /\ \A j \in Slot \ {i} : M[i] \cap M[j] = {}
    <3>1. ListOk(M[i], HeadOf(i)', word', Ends)
      BY <1>7, <1>18, <1>19, <1>20
    <3>2. M[i] \subseteq L[i] \cup {t} /\ M[i] \subseteq Given' /\ M[i] \cap G = {} /\ M[i] \cap tables' = {}
      <4>1. M[i] \subseteq L[i] \cup {t}
        BY <1>18
      <4> QED BY <1>4, <1>7, <1>16, <1>17, <4>1
    <3>3. ASSUME NEW j \in Slot \ {i} PROVE M[i] \cap M[j] = {}
      <4>1. L[i] \cap L[j] = {} /\ t \notin L[i] /\ t \notin L[j]
        BY <1>7, <1>17
      <4>2. M[i] = L[i] \/ M[j] = L[j]
        BY <1>18
      <4>3. M[i] \subseteq L[i] \cup {t} /\ M[j] \subseteq L[j] \cup {t}
        BY <1>18
      <4> QED BY <4>1, <4>2, <4>3
    <3> QED BY <3>1, <3>2, <3>3
  <2> QED BY <1>18, <2>1, <2>2 DEF Lists
<1>22. ASSUME NEW i \in Slot, InUse(i)' PROVE Apart(i, G, M)'
  <2>1. Apart(i, F, L) /\ InUse(i) /\ t \notin held[i]
    BY <1>2, <1>7, <1>13, <1>22 DEF Shape
  <2>2. held'[i] \subseteq held[i] \cup {t}
    BY <1>9
  <2>3. held'[i] \subseteq Given' /\ held'[i] \cap G = {} /\ held'[i] \cap tables' = {}
    BY <1>4, <1>7, <1>16, <2>1, <2>2 DEF Apart
  <2>4. M[i] \subseteq held'[i]
    BY <1>9, <1>18, <2>1 DEF Apart
  <2>5. ASSUME NEW j \in Slot \ {i} PROVE held'[i] \cap M[j] = {} /\ (InUse(j)' => held'[i] \cap held'[j] = {})
    <3>1. held'[i] \cap M[j] = {}
      <4>1. held[i] \cap L[j] = {} /\ t \notin L[j]
        BY <1>7, <2>1 DEF Apart
      <4>2. CASE i = s
        BY <1>18, <2>2, <4>1, <4>2
      <4>3. CASE i # s
        BY <1>9, <1>18, <2>1, <4>1, <4>3
      <4> QED BY <4>2, <4>3
    <3>2. ASSUME InUse(j)' PROVE held'[i] \cap held'[j] = {}
      <4>1. held[i] \cap held[j] = {} /\ t \notin held[j]
        BY <1>7, <1>13, <2>1, <3>2 DEF Apart
      <4>2. CASE i = s
        BY <1>9, <4>1, <4>2
      <4>3. CASE i # s
        BY <1>9, <2>1, <4>1, <4>3
      <4> QED BY <4>2, <4>3
    <3> QED BY <3>1, <3>2
  <2> QED BY <2>3, <2>4, <2>5 DEF Apart
<1>23. Shape(G, M)'
  <2>1. t \in held'[s] /\ (job.op = "spawn" => t \notin M[s])
    BY <1>5, <1>7, <1>9, <1>18
  <2> QED BY <1>8, <1>21, <1>22, <2>1 DEF Shape
<1>24. SpacesOk'
  BY <1>1, <1>4 DEF SpacesOk
<1> QED BY <1>11, <1>12, <1>15, <1>23, <1>24 DEF MInv

(* map_page changes no page but the one that memory_allocate is at *)
LEMMA MapPageKeeps ==
  ASSUME Types, JobOk, MapPage, NEW i \in Slot, live[i], OwnLayer(i),
         NEW p, job.op = "allocate" /\ job.slot = i => p # job.page
  PROVE  Mapping(i, p)' = Mapping(i, p)
<1>1. /\ job.op \in PageOps /\ UNCHANGED <<layer_base, origin, pml4>>
      /\ pte' = [pte EXCEPT ![JobRoot][<<PageArea, job.page>>] = job.frame]
  BY DEF MapPage, PageJob, PageOps
<1>2. layer_base[i] = i /\ Mapping(i, p) = pte[pml4[i]["layers"]][<<i, p>>] /\ pml4[i]["layers"] \in Root
  <2>1. layer_base[i] = i /\ "layers" \in Region /\ Mapping(i, p) = pte[pml4[i]["layers"]][<<i, p>>]
    BY OwnRoot
  <2>2. pml4[i]["layers"] \in 0 .. FRAMES
    BY <2>1 DEF Types
  <2> QED BY <2>1, <2>2, Roots
<1>3. Mapping(i, p)' = pte'[pml4[i]["layers"]][<<i, p>>]
  <2>1. i \notin LowArea /\ i # LoadAt
    BY Areas
  <2> QED BY <1>1, <1>2, <2>1 DEF RootOf, RegionOf, Mapping
<1>4. <<i, p>> # <<PageArea, job.page>>
  <2>1. PageArea = i => job.op = "allocate" /\ job.slot = i
    BY <1>1, JobArea
  <2> QED BY <2>1
<1>5. pte \in [Root -> [Area \X Page -> 0 .. FRAMES]]
  BY DEF Types
<1> QED BY <1>1, <1>2, <1>3, <1>4, <1>5

(* map_page maps the page; spawn links its frame, code fills it *)
LEMMA MInvMapPage ==
  ASSUME MInv, MapPage
  PROVE  MInv'
<1>0. /\ FRAMES \in Nat /\ 0 \notin Frame /\ Frame \subseteq 0 .. FRAMES /\ 0 .. FRAMES \subseteq Frame \cup {0}
      /\ Ends \cap Frame = {} /\ 0 .. FRAMES \subseteq 0 .. FRAMES + 1
      /\ CodeWord \in 0 .. FRAMES + 1 /\ CodeWord \in Ends
  BY ProcessMemoryAssumption, EndsNoFrames DEF Ends
<1>1. Types /\ JobOk /\ Mapped /\ SpacesOk
  BY DEF MInv
<1>2. PICK F, L : Shape(F, L)
  BY DEF MInv
<1>3. PICK s, f, n : s = job.slot /\ f = job.frame /\ n = job.page
  OBVIOUS
<1>4. /\ job.op \in PageOps /\ job.page < job.end /\ f # 0
      /\ frames_head' = IF job.op = "spawn" THEN [frames_head EXCEPT ![s] = f] ELSE frames_head
      /\ word' = [word EXCEPT ![f] = IF job.op = "spawn" THEN frames_head[s]
                                     ELSE IF CodePage THEN CodeWord ELSE word[f]]
      /\ pte' = [pte EXCEPT ![JobRoot] = [pte[JobRoot] EXCEPT ![<<PageArea, n>>] = f]]
      /\ job' = [job EXCEPT !.page = n + 1, !.frame = 0] /\ PageArea \in lower[JobRoot]
      /\ UNCHANGED <<pool_next, free_list_head, live, next_free, layer_base, layer_pages>>
      /\ UNCHANGED <<pml4, lower, held, origin, tables>>
  BY <1>3 DEF MapPage, PageJob, PageOps, NeedsTable
<1>5. /\ s \in Slot /\ held \in [Slot -> SUBSET Frame]
      /\ frames_head \in [Slot -> 0 .. FRAMES] /\ word \in [Frame -> 0 .. FRAMES + 1]
      /\ job \in JobRecord
      /\ next_free \in [Slot -> Nat] /\ n \in Nat /\ job.end \in Nat
      /\ lower \in [Root -> SUBSET Area] /\ pte \in [Root -> [Area \X Page -> 0 .. FRAMES]]
      /\ PageArea \in Area /\ JobRoot \in Root /\ n \in Page
  BY <1>1, <1>3, <1>4, JobArea, JobPage DEF JobOk, Types, PageOps, JobRecord
<1>6. f \in held[s] /\ f \in Frame /\ (job.op = "spawn" => f \notin L[s])
  <2>1. f \in held[s] /\ (job.op = "spawn" => f \notin L[s])
    BY <1>2, <1>3, <1>4 DEF Shape
  <2> QED BY <1>5, <2>1
<1>7. InUse(s) /\ Apart(s, F, L)
  <2>1. InUse(s)
    BY <1>1, <1>3, <1>4 DEF InUse, JobOk, PageOps
  <2> QED BY <1>2, <1>5, <2>1 DEF Shape
<1>8. f \notin F /\ f \in Given /\ f \notin tables /\ \A j \in Slot \ {s} : f \notin L[j] /\ (InUse(j) => f \notin held[j])
  BY <1>6, <1>7 DEF Apart
<1>9. /\ job'.op = job.op /\ job'.slot = s /\ job'.area = job.area /\ job'.page = n + 1 /\ job'.end = job.end
      /\ job'.frame = 0 /\ job' \in JobRecord
  <2>1. n + 1 \in Nat /\ 0 \in 0 .. FRAMES + 1
    BY <1>0, <1>5
  <2> QED BY <1>3, <1>4, <1>5, <2>1 DEF JobRecord
<1>10. /\ frames_head' \in [Slot -> 0 .. FRAMES] /\ (\A i \in Slot \ {s} : frames_head'[i] = frames_head[i])
       /\ frames_head'[s] = IF job.op = "spawn" THEN f ELSE frames_head[s]
  BY <1>0, <1>4, <1>5, <1>6
<1>11. PICK x : /\ x \in 0 .. FRAMES + 1 /\ word' = [word EXCEPT ![f] = x] /\ word' \in [Frame -> 0 .. FRAMES + 1]
                /\ (job.op = "spawn" => x = frames_head[s])
                /\ (job.op # "spawn" => x \in Ends \/ x = word[f])
  <2>1. PICK x : x = IF job.op = "spawn" THEN frames_head[s] ELSE IF CodePage THEN CodeWord ELSE word[f]
    OBVIOUS
  <2>2. x \in 0 .. FRAMES + 1
    BY <1>0, <1>5, <1>6, <2>1
  <2>3. word' = [word EXCEPT ![f] = x]
    BY <1>4, <2>1
  <2>4. word' \in [Frame -> 0 .. FRAMES + 1]
    BY <1>5, <1>6, <2>2, <2>3
  <2> QED BY <1>0, <2>1, <2>2, <2>3, <2>4
<1>12. /\ pte' \in [Root -> [Area \X Page -> 0 .. FRAMES]] /\ pte'[0] = pte[0]
       /\ pte'[JobRoot][<<PageArea, n>>] = f
  <2>1. f \in 0 .. FRAMES /\ <<PageArea, n>> \in Area \X Page
    BY <1>0, <1>5, <1>6
  <2>2. pte[JobRoot] \in [Area \X Page -> 0 .. FRAMES]
    BY <1>5
  <2>3. /\ [pte[JobRoot] EXCEPT ![<<PageArea, n>>] = f] \in [Area \X Page -> 0 .. FRAMES]
        /\ [pte[JobRoot] EXCEPT ![<<PageArea, n>>] = f][<<PageArea, n>>] = f
    BY <2>1, <2>2
  <2>4. JobRoot # 0
    BY <1>1, <1>4 DEF SpacesOk
  <2> QED BY <1>4, <1>5, <2>3, <2>4, Roots
<1>13. Types'
  BY <1>1, <1>4, <1>9, <1>10, <1>11, <1>12 DEF Types
<1>14. JobOk'
  <2>1. n + 1 <= job.end /\ 0 \in 0 .. FRAMES
    BY <1>0, <1>3, <1>4, <1>5
  <2>2. job.op = "allocate" => next_free[s] <= n + 1
    BY <1>1, <1>3, <1>5 DEF JobOk
  <2> QED BY <1>1, <1>3, <1>4, <1>9, <2>1, <2>2 DEF JobOk, OwnLayer
<1>15. SpacesOk'
  BY <1>1, <1>4, <1>12 DEF SpacesOk
<1>16. Mapped'
  <2>0. \A i \in Slot : OwnLayer(i)' = OwnLayer(i)
    BY <1>4 DEF OwnLayer
  <2>1. ASSUME NEW i \in Slot, live'[i], OwnLayer(i)', NEW p \in 0 .. Upto(i)' - 1
        PROVE  /\ Mapping(i, p)' \in held'[i]
               /\ \A q \in 0 .. Upto(i)' - 1 : Mapping(i, p)' = Mapping(i, q)' => p = q
    <3>0. live[i] /\ OwnLayer(i) /\ held'[i] = held[i]
      BY <1>4, <2>0, <2>1
    <3>1. CASE i # s
      <4>1. Upto(i)' = Upto(i)
        BY <1>3, <1>4, <1>9, <3>1 DEF Upto
      <4>2. \A q : Mapping(i, q)' = Mapping(i, q)
        BY <1>1, <1>3, <3>0, <3>1, MapPageKeeps
      <4>3. Mapping(i, p) \in held[i] /\ \A q \in 0 .. Upto(i) - 1 : Mapping(i, p) = Mapping(i, q) => p = q
        BY <1>1, <2>1, <3>0, <4>1 DEF Mapped
      <4> HIDE DEF Mapping
      <4> QED BY <3>0, <4>1, <4>2, <4>3
    <3>2. CASE i = s /\ job.op # "allocate"
      <4>1. job.op = "spawn"
        BY <1>1, <1>3, <1>4, <3>0, <3>2 DEF JobOk, PageOps
      <4>2. Upto(i)' = 0
        BY <1>1, <1>3, <1>4, <1>9, <3>2, <4>1 DEF Upto, JobOk
      <4> QED BY <2>1, <4>2
    <3>3. CASE i = s /\ job.op = "allocate"
      <4>1. Upto(i)' = n + 1 /\ Upto(i) = n
        BY <1>3, <1>9, <3>3 DEF Upto
      <4>2. Mapping(s, n)' = f
        <5>1. PageArea = layer_base[s] /\ JobRoot = RootOf(s, layer_base[s])
          BY <1>1, <1>3, <3>3 DEF JobOk, PageArea, JobRoot
        <5>2. Mapping(s, n)' = pte'[RootOf(s, layer_base[s])][<<layer_base[s], n>>]
          BY <1>4 DEF Mapping, RootOf
        <5> QED BY <1>12, <5>1, <5>2
      <4>3. ASSUME NEW q \in 0 .. n - 1
            PROVE  Mapping(s, q)' = Mapping(s, q) /\ Mapping(s, q) # f /\ Mapping(s, q) \in held[s]
        <5>1. q # n
          BY <1>5
        <5>2. Mapping(s, q)' = Mapping(s, q)
          BY <1>1, <1>3, <3>0, <3>3, <5>1, MapPageKeeps
        <5>3. Mapping(s, q) # f
          BY <1>1, <1>3, <1>4, <3>0, <3>3 DEF Mapped
        <5>4. Mapping(s, q) \in held[s]
          BY <1>1, <3>0, <3>3, <4>1 DEF Mapped
        <5> QED BY <5>2, <5>3, <5>4
      <4>4. ASSUME NEW q \in 0 .. n - 1, NEW r \in 0 .. n - 1, Mapping(s, q) = Mapping(s, r) PROVE q = r
        BY <1>1, <3>0, <3>3, <4>1, <4>4 DEF Mapped
      <4>5. ASSUME NEW q \in 0 .. Upto(i)' - 1 PROVE q \in 0 .. n - 1 \cup {n}
        <5>1. q \in 0 .. (n + 1) - 1
          BY <4>1, <4>5
        <5> QED BY <1>5, <5>1
      <4> HIDE DEF Mapping
      <4>6. p \in 0 .. n - 1 \cup {n}
        BY <2>1, <4>5
      <4>7. Mapping(s, p)' \in held[s]
        BY <1>6, <4>2, <4>3, <4>6
      <4>8. ASSUME NEW q \in 0 .. Upto(i)' - 1, Mapping(s, p)' = Mapping(s, q)' PROVE p = q
        <5>1. q \in 0 .. n - 1 \cup {n}
          BY <4>5, <4>8
        <5>2. CASE p = n /\ q \in 0 .. n - 1
          BY <4>2, <4>3, <4>8, <5>2
        <5>3. CASE q = n /\ p \in 0 .. n - 1
          BY <4>2, <4>3, <4>8, <5>3
        <5>4. CASE p \in 0 .. n - 1 /\ q \in 0 .. n - 1
          <6>1. Mapping(s, p) = Mapping(s, q)
            BY <4>3, <4>8, <5>4
          <6> QED BY <4>4, <5>4, <6>1
        <5> QED BY <4>6, <5>1, <5>2, <5>3, <5>4
      <4> QED BY <3>0, <3>3, <4>7, <4>8
    <3> QED BY <3>1, <3>2, <3>3
  <2> QED BY <1>9, <2>1 DEF Mapped
<1>17. KeepsUse
  BY <1>3, <1>4, <1>9 DEF KeepsUse, InUse
<1>18. \E M : Shape(F, M)'
  <2>1. CASE job.op # "spawn"
    <3>1. \A i \in Slot : HeadOf(i)' = HeadOf(i)
      BY <1>4, <1>9, <2>1 DEF HeadOf, PageOps
    <3>2. CASE x \in Ends
      <4>1. Shape(F, L)'
        <5>1. f \in Frame /\ word' = [word EXCEPT ![f] = x] /\ UNCHANGED <<pool_next, free_list_head>>
          BY <1>4, <1>6, <1>11
        <5>2. job'.op \in PageOps /\ job'.frame # 0 => FALSE
          BY <1>9
        <5> HIDE DEF PageOps, KeepsUse, Shape, HeadOf, Types
        <5> QED BY <1>1, <1>2, <1>17, <3>1, <3>2, <5>1, <5>2, ShapeWrite
      <4> QED BY <4>1
    <3>3. CASE x = word[f]
      <4>1. word' = word
        BY <1>5, <1>6, <1>11, <3>3
      <4>2. Shape(F, L)'
        BY <1>2, <1>4, <1>9, <1>17, <3>1, <4>1, ShapeKeeps
      <4> QED BY <4>2
    <3> QED BY <1>11, <2>1, <3>2, <3>3
  <2>2. CASE job.op = "spawn"
    <3>1. PICK M : M = [L EXCEPT ![s] = L[s] \cup {f}]
      OBVIOUS
    <3>2. /\ L \in [Slot -> SUBSET Frame] /\ F \subseteq Given /\ ListOk(F, free_list_head, word, Ends)
          /\ tables \subseteq Given /\ tables \cap F = {}
          /\ \A i \in Slot : /\ ListOk(L[i], HeadOf(i), word, Ends) /\ L[i] \subseteq Given /\ L[i] \cap F = {}
                             /\ L[i] \cap tables = {} /\ \A j \in Slot \ {i} : L[i] \cap L[j] = {}
      BY <1>2 DEF Shape, Lists
    <3>3. M \in [Slot -> SUBSET Frame] /\ (\A i \in Slot \ {s} : M[i] = L[i]) /\ M[s] = L[s] \cup {f}
      BY <1>5, <1>6, <3>1, <3>2
    <3>4. HeadOf(s) = frames_head[s] /\ HeadOf(s)' = f /\ \A i \in Slot \ {s} : HeadOf(i)' = HeadOf(i)
      BY <1>9, <1>10, <2>2 DEF HeadOf
    <3>5. ListOk(M[s], HeadOf(s)', word', Ends)
      <4>1. ListOk(L[s], frames_head[s], word, Ends) /\ f \in Frame \ L[s]
        BY <1>5, <1>6, <2>2, <3>2, <3>4
      <4>2. ListOk(L[s] \cup {f}, f, [word EXCEPT ![f] = x], Ends)
        BY <1>0, <1>5, <1>11, <2>2, <4>1, ListPush
      <4> QED BY <1>11, <3>3, <3>4, <4>2
    <3>6. ListOk(F, free_list_head', word', Ends) /\ Given' = Given
      <4>1. ListOk(F, free_list_head, [word EXCEPT ![f] = x], Ends)
        BY <1>0, <1>5, <1>6, <1>8, <3>2, ListCut
      <4> QED BY <1>4, <1>11, <4>1 DEF Given
    <3>7. ASSUME NEW i \in Slot \ {s} PROVE ListOk(M[i], HeadOf(i)', word', Ends)
      <4>1. ListOk(L[i], HeadOf(i), [word EXCEPT ![f] = x], Ends)
        BY <1>0, <1>5, <1>6, <1>8, <3>2, ListCut
      <4> QED BY <1>11, <3>3, <3>4, <4>1
    <3>8. ASSUME NEW i \in Slot
          PROVE  /\ M[i] \subseteq Given /\ M[i] \cap F = {} /\ M[i] \cap tables = {}
                 /\ \A j \in Slot \ {i} : M[i] \cap M[j] = {}
      <4>1. M[i] \subseteq Given /\ M[i] \cap F = {} /\ M[i] \cap tables = {}
        BY <1>8, <3>2, <3>3
      <4>2. ASSUME NEW j \in Slot \ {i} PROVE M[i] \cap M[j] = {}
        <5>1. L[i] \cap L[j] = {}
          BY <3>2
        <5>2. CASE i = s
          BY <1>8, <3>3, <5>1, <5>2
        <5>3. CASE i # s
          BY <1>8, <3>3, <5>1, <5>3
        <5> QED BY <5>2, <5>3
      <4> QED BY <4>1, <4>2
    <3>9. Lists(F, M)'
      BY <1>4, <3>2, <3>3, <3>5, <3>6, <3>7, <3>8 DEF Lists
    <3>10. \A i \in Slot : InUse(i) => Apart(i, F, L)
      BY <1>2 DEF Shape
    <3>11. ASSUME NEW i \in Slot, InUse(i)'
           PROVE  /\ held[i] \cap F = {} /\ M[i] \subseteq held[i]
                  /\ \A j \in Slot \ {i} : held[i] \cap M[j] = {}
      <4>1. InUse(i)
        BY <1>17, <3>11 DEF KeepsUse
      <4>2. held[i] \cap F = {} /\ L[i] \subseteq held[i] /\ \A j \in Slot \ {i} : held[i] \cap L[j] = {}
        BY <3>10, <4>1 DEF Apart
      <4>3. ASSUME NEW j \in Slot \ {i} PROVE held[i] \cap M[j] = {}
        <5>1. CASE j = s
          BY <1>8, <3>3, <4>1, <4>2, <5>1
        <5>2. CASE j # s
          BY <3>3, <4>2, <5>2
        <5> QED BY <5>1, <5>2
      <4>4. M[i] \subseteq held[i]
        BY <1>6, <3>3, <4>2
      <4> QED BY <4>2, <4>3, <4>4
    <3>12. \A i \in Slot : InUse(i)' => Apart(i, F, M)'
      BY <1>4, <1>17, <3>10, <3>11, ApartKeeps
    <3>13. Shape(F, M)'
      BY <1>9, <3>9, <3>12 DEF Shape
    <3> QED BY <3>13
  <2> QED BY <2>1, <2>2
<1> QED BY <1>13, <1>14, <1>15, <1>16, <1>18 DEF MInv

-----------------------------------------------------------------------------
(* Steps that leave memory and handler alone *)
LEMMA MInvSame ==
  ASSUME MInv, UNCHANGED <<allocVars, pcbVars, mapVars, job, histVars>>
  PROVE  MInv'
<1>1. /\ UNCHANGED <<pool_next, free_list_head, word, live, frames_head, next_free, layer_base, layer_pages>>
      /\ UNCHANGED <<pml4, lower, pte, job, held, origin, tables>>
  BY DEF allocVars, pcbVars, mapVars, histVars
<1>2. Types' /\ JobOk' /\ SpacesOk'
  BY <1>1 DEF MInv, Types, JobOk, SpacesOk, OwnLayer
<1>3. \A i \in Slot : /\ Upto(i)' = Upto(i) /\ HeadOf(i)' = HeadOf(i) /\ InUse(i)' = InUse(i)
                      /\ OwnLayer(i)' = OwnLayer(i) /\ \A p : Mapping(i, p)' = Mapping(i, p)
  BY <1>1 DEF Upto, HeadOf, InUse, OwnLayer, Mapping, RootOf
<1>4. Mapped'
  <2>1. job.op = "allocate" => job.slot \in Slot
    BY DEF MInv, JobOk
  <2>2. ASSUME job.op = "allocate", job.frame # 0, OwnLayer(job.slot), NEW p \in 0 .. job.page - 1
        PROVE  Mapping(job.slot, p)' # job.frame
    BY <1>3, <2>1, <2>2 DEF MInv, Mapped
  <2> HIDE DEF Mapping
  <2> QED BY <1>1, <1>3, <2>1, <2>2, MappedKeeps DEF MInv
<1>5. PICK F, L : Shape(F, L)
  BY DEF MInv
<1>6. Given' = Given
  BY <1>1 DEF Given
<1>7. Lists(F, L)'
  BY <1>1, <1>3, <1>5, <1>6 DEF Shape, Lists
<1>8. \A i \in Slot : InUse(i)' => Apart(i, F, L)'
  BY <1>1, <1>3, <1>5, <1>6 DEF Shape, Apart
<1>9. Shape(F, L)'
  BY <1>1, <1>5, <1>7, <1>8 DEF Shape
<1> QED BY <1>2, <1>4, <1>9 DEF MInv

LEMMA MInvStep == MInv /\ [Next]_vars => stray' \/ MInv'
<1> SUFFICES ASSUME MInv, [Next]_vars, ~stray' PROVE MInv'
  OBVIOUS
<1>a. FreeSlots # {} => FindFreeSlot \in Slot /\ ~live[FindFreeSlot]
  BY FreeSlotIs
<1>b. Creator \subseteq {0} \cup Slot
  BY DEF Creator
<1>1. ASSUME NEW c \in Creator, CreateProcess(c) PROVE MInv'
  <2>1. /\ job.op = "none" /\ ClonePml4(FindFreeSlot, c) /\ NewProgram(FindFreeSlot, "create") /\ UNCHANGED allocVars
        /\ Provision(FindFreeSlot, FindFreeSlot, LAYER_PAGES) /\ job' = job
        /\ frames_head' = [frames_head EXCEPT ![FindFreeSlot] = 0]
    BY <1>1 DEF CreateProcess, Idle, Provision
  <2>2. FindFreeSlot \in Slot /\ ~live[FindFreeSlot] /\ c \in {0} \cup Slot
    BY <1>1, <1>a, <1>b DEF CreateProcess
  <2> QED BY <2>1, <2>2, MInvReset
<1>2. CASE BeginSpawn
  <2>1. /\ job.op = "none" /\ ClonePml4(FindFreeSlot, 0) /\ NewProgram(FindFreeSlot, "spawn") /\ UNCHANGED allocVars
        /\ Provision(FindFreeSlot, FindFreeSlot, LAYER_PAGES)
        /\ job' = Job("spawn", FindFreeSlot, CodeAt, 0, CODE_PAGES + STACK_PAGES)
        /\ frames_head' = [frames_head EXCEPT ![FindFreeSlot] = 0]
    BY <1>2 DEF BeginSpawn, Idle, Provision
  <2>2. FindFreeSlot \in Slot /\ ~live[FindFreeSlot]
    BY <1>2, <1>a DEF BeginSpawn
  <2> QED BY <2>1, <2>2, MInvReset
<1>3. ASSUME NEW c \in Creator, NEW a \in {LoadAt, LowAt}, BeginExec(c, a) PROVE MInv'
  <2>1. /\ job.op = "none" /\ ClonePml4(FindFreeSlot, c) /\ NewProgram(FindFreeSlot, "exec") /\ UNCHANGED allocVars
        /\ UNCHANGED <<live, next_free, layer_base, layer_pages>>
        /\ job' = Job("exec", FindFreeSlot, a, 0, CODE_PAGES + STACK_PAGES)
        /\ frames_head' = [frames_head EXCEPT ![FindFreeSlot] = 0]
    BY <1>3 DEF BeginExec, Idle
  <2>2. FindFreeSlot \in Slot /\ ~live[FindFreeSlot] /\ c \in {0} \cup Slot
    BY <1>3, <1>a, <1>b DEF BeginExec
  <2> QED BY <2>1, <2>2, MInvReset
<1>4. ASSUME NEW i \in Slot, NEW pages \in 1 .. LAYER_PAGES, BeginAllocate(i, pages) PROVE MInv'
  <2>1. /\ UNCHANGED <<allocVars, pcbVars, mapVars, histVars>> /\ job.op = "none" /\ live[i]
        /\ next_free[i] + pages <= layer_pages[i]
        /\ job' = Job("allocate", i, layer_base[i], next_free[i], next_free[i] + pages)
    BY <1>4 DEF BeginAllocate, Idle
  <2> QED BY <2>1, MInvJob
<1>5. ASSUME NEW i \in Slot, NEW p \in Page, NEW w \in UserWord, UserWrites(i, p, w) PROVE MInv'
  BY <1>5, MInvUserWrites
<1>6. ASSUME NEW i \in Slot, BeginExit(i) PROVE MInv'
  BY <1>6, MInvExit
<1>7. CASE PageOutOfMemory \/ MapFails
  <2>1. UNCHANGED <<allocVars, pcbVars, mapVars, histVars>> /\ job.op # "free" /\ job' = NoJob
    BY <1>7 DEF PageOutOfMemory, MapFails, AsksForFrame, PageJob
  <2> QED BY <2>1, MInvJob
<1>8. CASE PageFrame
  BY <1>8, MInvPageFrame
<1>9. CASE MapNeedsTable
  BY <1>9, MInvNeedsTable
<1>10. CASE MapPage
  BY <1>10, MInvMapPage
<1>11. CASE EndPages
  BY <1>11, MInvEndPages
<1>12. CASE FreeOne
  BY <1>12, MInvFreeOne
<1>13. CASE FreeFaults \/ AllocFaults
  BY <1>13, MInvSame DEF FreeFaults, AllocFaults
<1>14. CASE EndFree
  BY <1>14, MInvEndFree
<1>15. CASE UNCHANGED vars
  BY <1>15, MInvSame DEF vars
<1> QED BY <1>1, <1>2, <1>3, <1>4, <1>5, <1>6, <1>7, <1>8, <1>9, <1>10, <1>11, <1>12, <1>13, <1>14, <1>15
        DEF Next, PageStep, FreeStep

(* A program that has stored the address of a frame has done so for good *)
LEMMA StrayStays == stray \in BOOLEAN /\ [Next]_vars => stray' \in BOOLEAN /\ (stray => stray')
<1> SUFFICES ASSUME stray \in BOOLEAN, [Next]_vars PROVE stray' \in BOOLEAN /\ (stray => stray')
  OBVIOUS
<1>1. ASSUME NEW i \in Slot, NEW p \in Page, NEW w \in UserWord, UserWrites(i, p, w)
      PROVE  stray' \in BOOLEAN /\ (stray => stray')
  BY <1>1 DEF UserWrites
<1>2. CASE stray' = stray
  BY <1>2
<1> QED BY <1>1, <1>2
        DEF Next, PageStep, FreeStep, vars, histVars, NewProgram, CreateProcess, BeginSpawn, BeginExec, BeginAllocate,
            BeginExit, PageOutOfMemory, AllocFaults, PageFrame, MapFails, MapNeedsTable, MapPage, EndPages, FreeOne,
            FreeFaults, EndFree

LEMMA IInvInit == Init => IInv
  BY MInvInit DEF IInv, Init

LEMMA IInvStep == IInv /\ [Next]_vars => IInv'
  BY MInvStep, StrayStays DEF IInv

(* The free list, as the words link it, is inside F *)
LEMMA FreeListIn ==
  ASSUME NEW F, NEW L, Shape(F, L)
  PROVE  FreeList \subseteq F
<1>1. F \in SUBSET Frame /\ Follows(F, free_list_head)
  BY EndsNoFrames DEF Shape, Lists, ListOk, Follows
<1> QED BY <1>1 DEF FreeList, Listed

LEMMA MInvUsedOnce == MInv => NoFrameUsedTwice
<1> SUFFICES ASSUME MInv PROVE NoFrameUsedTwice
  OBVIOUS
<1>1. PICK F, L : Shape(F, L)
  BY DEF MInv
<1>2. Given \cap (pool_next .. FRAMES) = {} /\ Available \subseteq F \cup pool_next .. FRAMES
  BY <1>1, ProcessMemoryAssumption, FreeListIn DEF Given, Available, MInv, Types
<1>3. tables \cap Available = {}
  BY <1>1, <1>2 DEF Shape, Lists
<1>4. ASSUME NEW i \in Slot, InUse(i)
      PROVE  /\ held[i] \cap (Available \cup tables) = {}
             /\ \A j \in Slot \ {i} : InUse(j) => held[i] \cap held[j] = {}
  <2>1. Apart(i, F, L)
    BY <1>1, <1>4 DEF Shape
  <2> QED BY <1>2, <2>1 DEF Apart
<1> QED BY <1>3, <1>4 DEF NoFrameUsedTwice

LEMMA MInvMapped == MInv => AllocatedPagesMapped
<1> SUFFICES ASSUME MInv, NEW i \in Slot, live[i], OwnLayer(i), NEW p \in 0 .. next_free[i] - 1
             PROVE  /\ Mapping(i, p) \in held[i]
                    /\ \A q \in 0 .. next_free[i] - 1 : Mapping(i, p) = Mapping(i, q) => p = q
  BY DEF AllocatedPagesMapped
<1>1. next_free[i] \in Nat /\ Upto(i) \in Nat /\ next_free[i] <= Upto(i)
  BY DEF MInv, Types, JobOk, Upto, JobRecord
<1>2. 0 .. next_free[i] - 1 \subseteq 0 .. Upto(i) - 1
  BY <1>1
<1> QED BY <1>2 DEF MInv, Mapped

(* Pages below next_free are left alone while the program lives *)
LEMMA PagesStayStep ==
  ASSUME MInv, [Next]_vars, NEW i \in Slot, live[i], live'[i], OwnLayer(i), NEW p \in 0 .. next_free[i] - 1
  PROVE  Mapping(i, p)' = Mapping(i, p)
<1>0. Types /\ JobOk /\ SpacesOk /\ Mapped
  BY DEF MInv
<1>a. FreeSlots # {} => FindFreeSlot \in Slot /\ ~live[FindFreeSlot]
  BY FreeSlotIs
<1>b. ASSUME UNCHANGED pte, pml4'[i] = pml4[i], layer_base'[i] = layer_base[i] PROVE Mapping(i, p)' = Mapping(i, p)
  BY <1>b DEF Mapping, RootOf
<1>1. ASSUME NEW c, CreateProcess(c) PROVE Mapping(i, p)' = Mapping(i, p)
  <2>1. FindFreeSlot \in Slot /\ FindFreeSlot # i
    BY <1>1, <1>a DEF CreateProcess
  <2> QED BY <1>0, <1>1, <1>b, <2>1 DEF CreateProcess, ClonePml4, Provision, Types
<1>2. CASE BeginSpawn
  <2>1. FindFreeSlot \in Slot /\ FindFreeSlot # i
    BY <1>2, <1>a DEF BeginSpawn
  <2> QED BY <1>0, <1>2, <1>b, <2>1 DEF BeginSpawn, ClonePml4, Provision, Types
<1>3. ASSUME NEW c, NEW a, BeginExec(c, a) PROVE Mapping(i, p)' = Mapping(i, p)
  <2>1. FindFreeSlot \in Slot /\ FindFreeSlot # i
    BY <1>3, <1>a DEF BeginExec
  <2> QED BY <1>0, <1>3, <1>b, <2>1 DEF BeginExec, ClonePml4, Types
<1>4. CASE MapPage
  <2>1. job.op = "allocate" /\ job.slot = i => p # job.page
    <3>1. job.op = "allocate" /\ job.slot = i => next_free[i] <= job.page /\ job.page \in Nat
      BY <1>0 DEF JobOk, Types, JobRecord
    <3>2. next_free[i] \in Nat
      BY <1>0 DEF Types
    <3> QED BY <3>1, <3>2
  <2> QED BY <1>0, <1>4, <2>1, MapPageKeeps
<1>5. CASE MapNeedsTable
  <2>1. PICK F, L : Shape(F, L)
    BY DEF MInv
  <2>2. next_free[i] \in Nat /\ Upto(i) \in Nat /\ next_free[i] <= Upto(i)
    BY <1>0 DEF Types, JobOk, Upto, JobRecord
  <2>3. p \in 0 .. Upto(i) - 1
    BY <2>2
  <2> QED BY <1>0, <1>5, <2>1, <2>3, NeedsTableKeeps
<1>6. CASE EndPages
  <2>1. job.op = "exec" => job.slot \in Slot /\ job.slot # i
    BY <1>0 DEF JobOk
  <2>2. layer_base'[i] = layer_base[i] /\ UNCHANGED <<pml4, pte>>
    BY <1>0, <1>6, <2>1 DEF EndPages, Provision, Types, pcbVars, mapVars
  <2> QED BY <1>b, <2>2
<1>7. CASE UNCHANGED <<pml4, pte, layer_base>>
  BY <1>7, <1>b
<1> QED BY <1>1, <1>2, <1>3, <1>4, <1>5, <1>6, <1>7
        DEF Next, PageStep, FreeStep, vars, pcbVars, mapVars, BeginAllocate, UserWrites, BeginExit, PageOutOfMemory,
            AllocFaults, PageFrame, MapFails, FreeOne, FreeFaults, EndFree

(* Whatever is spawned, loaded, allocated, killed or runs out of memory, and *)
(* whatever data programs leave in pages they have or had: the frames that   *)
(* alloc_frame gave a program as pages belong to it alone, those of page     *)
(* tables to nobody, and neither is handed out again.                        *)
THEOREM FramesUsedOnce == Spec => []NoFrameUsedTwice
<1>1. IInv => NoFrameUsedTwice
  BY MInvUsedOnce DEF IInv, NoFrameUsedTwice
<1> QED BY IInvInit, IInvStep, <1>1, PTL DEF Spec

(* The pages below next_free, which memory_allocate has reported as a        *)
(* success, are mapped, each to a frame of the program that no other page of *)
(* it uses, although other address spaces map pages in the same tables.      *)
THEOREM PagesAreMapped == Spec => []AllocatedPagesMapped
<1>1. IInv => AllocatedPagesMapped
  BY MInvMapped DEF IInv, AllocatedPagesMapped
<1> QED BY IInvInit, IInvStep, <1>1, PTL DEF Spec

(* Memory that memory_allocate has returned is never mapped away from the    *)
(* program while it lives, whoever else maps pages in the tables it shares.  *)
THEOREM PagesStayMapped == Spec => AllocatedPagesStay
<1>1. IInv /\ [Next]_vars =>
        [\A i \in Slot : (live[i] /\ live'[i] /\ OwnLayer(i)) =>
           \A p \in 0 .. next_free[i] - 1 : stray \/ Mapping(i, p)' = Mapping(i, p)]_vars
  <2> SUFFICES ASSUME IInv, [Next]_vars, NEW i \in Slot, live[i], live'[i], OwnLayer(i),
                      NEW p \in 0 .. next_free[i] - 1, ~stray
               PROVE  Mapping(i, p)' = Mapping(i, p)
    OBVIOUS
  <2>1. MInv
    BY DEF IInv
  <2> QED BY <2>1, PagesStayStep
<1> QED BY IInvInit, IInvStep, <1>1, PTL DEF Spec, AllocatedPagesStay

-----------------------------------------------------------------------------
(* The programs of which read.md promises the frames back and the code can    *)
(* give them: those of create_process and, without huge pages, spawned ones   *)
Handled(i) == origin[i] = "create" \/ (origin[i] = "spawn" /\ ~huge)

(* spawn_initial_user tracks a frame only after it has mapped it *)
Pending(i) == IF job.op = "spawn" /\ job.slot = i THEN {job.frame} ELSE {}
Tracked(i) == held[i] \ Pending(i)

(* The list of slot i has every frame the program was given *)
Complete(i) == \A S \in SUBSET Frame : Follows(S, HeadOf(i)) => Tracked(i) \subseteq S

(* What is no longer in it is in the free list *)
Returned(i) ==
  \A S \in SUBSET Frame : Follows(S, HeadOf(i)) /\ Follows(S, free_list_head) => held[i] \subseteq S

Reclaim ==
  /\ \A i \in Slot : Handled(i) /\ live[i] /\ i \notin cut => Complete(i)
  /\ job.op = "free" /\ Handled(job.slot) /\ job.slot \notin cut => Returned(job.slot)

RInv == IInv /\ (stray \/ Reclaim)

(* A list of which no frame is written stays what it is *)
LEMMA ListStays ==
  ASSUME NEW F, NEW L, Shape(F, L), NEW i \in Slot, \A f \in L[i] : word'[f] = word[f],
         HeadOf(i)' = HeadOf(i), Tracked(i)' \subseteq Tracked(i), Complete(i)
  PROVE  Complete(i)'
<1>1. ListOk(L[i], HeadOf(i), word, Ends) /\ L[i] \in SUBSET Frame
  BY DEF Shape, Lists
<1>2. ASSUME NEW S \in SUBSET Frame, Follows(S, HeadOf(i))' PROVE Tracked(i)' \subseteq S
  <2>1. S \cap L[i] \in SUBSET Frame /\ Follows(S \cap L[i], HeadOf(i))
    BY <1>1, <1>2, EndsNoFrames DEF Follows, ListOk
  <2>2. Tracked(i) \subseteq S \cap L[i]
    BY <2>1 DEF Complete
  <2> QED BY <2>2
<1> HIDE DEF Tracked
<1> QED BY <1>2 DEF Complete

(* track_frame puts a frame at the head of the list *)
LEMMA ListGrows ==
  ASSUME NEW F, NEW L, Shape(F, L), NEW i \in Slot, NEW t \in Frame, \A f \in L[i] : word'[f] = word[f],
         word'[t] = HeadOf(i), HeadOf(i)' = t, Tracked(i)' \subseteq Tracked(i) \cup {t}, Complete(i)
  PROVE  Complete(i)'
<1>1. ListOk(L[i], HeadOf(i), word, Ends) /\ L[i] \in SUBSET Frame
  BY DEF Shape, Lists
<1>2. ASSUME NEW S \in SUBSET Frame, Follows(S, HeadOf(i))' PROVE Tracked(i)' \subseteq S
  <2>1. t \in S /\ (HeadOf(i) \in Frame => HeadOf(i) \in S) /\ \A f \in S : word'[f] \in Frame => word'[f] \in S
    BY <1>2 DEF Follows
  <2>2. HeadOf(i) \in Frame => HeadOf(i) \in L[i]
    BY <1>1, EndsNoFrames DEF ListOk
  <2>3. \A f \in S \cap L[i] : word[f] \in Frame => word[f] \in S \cap L[i]
    BY <1>1, <2>1, EndsNoFrames DEF ListOk
  <2>4. S \cap L[i] \in SUBSET Frame /\ Follows(S \cap L[i], HeadOf(i))
    BY <2>1, <2>2, <2>3 DEF Follows
  <2>5. Tracked(i) \subseteq S
    BY <2>4 DEF Complete
  <2> QED BY <2>1, <2>5
<1> QED BY <1>2 DEF Complete

(* free_frame takes the head of the list to the free list *)
LEMMA ListGoesBack ==
  ASSUME Types, FreeOne, NEW s, s = job.slot, Returned(s)
  PROVE  Returned(s)'
<1>1. PICK f : f = job.frame
  OBVIOUS
<1>2. /\ f \in Frame /\ job.op = "free" /\ job' = [job EXCEPT !.frame = word[f]]
      /\ word' = [word EXCEPT ![f] = free_list_head] /\ free_list_head' = f /\ held' = held
  BY <1>1 DEF FreeOne, histVars
<1>3. job'.op = "free" /\ job'.slot = s /\ job'.frame = word[f]
  BY <1>2 DEF Types, JobRecord
<1>4. HeadOf(s) = f /\ HeadOf(s)' = word[f]
  BY <1>1, <1>2, <1>3 DEF HeadOf
<1>5. word'[f] = free_list_head /\ \A g \in Frame \ {f} : word'[g] = word[g]
  BY <1>2 DEF Types
<1>6. ASSUME NEW S \in SUBSET Frame, Follows(S, HeadOf(s))', Follows(S, free_list_head)' PROVE held'[s] \subseteq S
  <2>1. /\ f \in S /\ (word[f] \in Frame => word[f] \in S) /\ \A g \in S : word'[g] \in Frame => word'[g] \in S
    BY <1>2, <1>4, <1>6 DEF Follows
  <2>2. free_list_head \in Frame => free_list_head \in S
    BY <1>5, <2>1
  <2>3. \A g \in S : word[g] \in Frame => word[g] \in S
    BY <1>5, <2>1
  <2>4. Follows(S, HeadOf(s)) /\ Follows(S, free_list_head)
    BY <1>4, <2>1, <2>2, <2>3 DEF Follows
  <2> QED BY <1>2, <2>4 DEF Returned
<1> QED BY <1>6 DEF Returned

(* The slots whose lists a step leaves alone *)
LEMMA ReclaimOthers ==
  ASSUME Reclaim, NEW F, NEW L, Shape(F, L), NEW i \in Slot, Handled(i), live[i], i \notin cut,
         HeadOf(i)' = HeadOf(i), Tracked(i)' \subseteq Tracked(i), \A f \in L[i] : word'[f] = word[f]
  PROVE  Complete(i)'
<1>1. Complete(i)
  BY DEF Reclaim
<1> QED BY <1>1, ListStays

LEMMA ReclaimReset ==
  ASSUME MInv, Reclaim, job.op = "none", NEW s \in Slot, ~live[s], NEW o \in {"create", "spawn", "exec"},
         NewProgram(s, o), word' = word, huge' = huge, frames_head' = [frames_head EXCEPT ![s] = 0],
         live' = [live EXCEPT ![s] = TRUE] \/ live' = live,
         job' = job \/ (job'.op \in {"spawn", "exec"} /\ job'.slot = s)
  PROVE  Reclaim'
<1>1. Types
  BY DEF MInv
<1>2. PICK F, L : Shape(F, L)
  BY DEF MInv
<1>3. /\ origin'[s] = o /\ held'[s] = {} /\ cut' = cut \ {s}
      /\ \A i \in Slot \ {s} : origin'[i] = origin[i] /\ held'[i] = held[i] /\ frames_head'[i] = frames_head[i]
  BY <1>1 DEF NewProgram, Types
<1>4. \A i \in Slot \ {s} : live'[i] => live[i]
  BY <1>1 DEF Types
<1>5. ASSUME NEW i \in Slot, Handled(i)', live'[i], i \notin cut' PROVE Complete(i)'
  <2>1. CASE i = s
    BY <1>3, <2>1 DEF Complete, Tracked
  <2>2. CASE i # s
    <3>1. HeadOf(i)' = HeadOf(i) /\ Tracked(i)' \subseteq Tracked(i)
      BY <1>3, <2>2 DEF HeadOf, Tracked, Pending
    <3>2. Handled(i) /\ live[i] /\ i \notin cut
      BY <1>3, <1>4, <1>5, <2>2 DEF Handled
    <3> QED BY <1>2, <3>1, <3>2, ReclaimOthers
  <2> QED BY <2>1, <2>2
<1>6. job'.op # "free"
  OBVIOUS
<1> QED BY <1>5, <1>6 DEF Reclaim

(* Steps that write no word and link no frame *)
LEMMA ReclaimQuiet ==
  ASSUME MInv, Reclaim, UNCHANGED <<word, held, origin, huge, cut>>, job'.op # "free",
         \A i \in Slot : Handled(i) /\ live'[i] =>
           live[i] /\ HeadOf(i)' = HeadOf(i) /\ Tracked(i)' \subseteq Tracked(i)
  PROVE  Reclaim'
<1>1. PICK F, L : Shape(F, L)
  BY DEF MInv
<1>2. ASSUME NEW i \in Slot, Handled(i)', live'[i], i \notin cut' PROVE Complete(i)'
  <2>1. Handled(i) /\ i \notin cut
    BY <1>2 DEF Handled
  <2>2. live[i] /\ HeadOf(i)' = HeadOf(i) /\ Tracked(i)' \subseteq Tracked(i)
    BY <1>2, <2>1
  <2> QED BY <1>1, <2>1, <2>2, ReclaimOthers
<1> QED BY <1>2 DEF Reclaim

(* Without huge pages a spawned program's pages are always mapped: what lies *)
(* in the identity map has its tables.                                       *)
LEMMA SpawnMaps ==
  ASSUME Types, JobOk, SpacesOk, job.op = "spawn", ~huge
  PROVE  ~MeetsHuge /\ ~NeedsTable
<1>1. PageArea \in LowArea
  BY Areas DEF PageArea, JobOk, CodePage
<1>2. JobRoot = Firmware
  BY <1>1 DEF JobRoot, RootOf
<1> QED BY <1>1, <1>2 DEF MeetsHuge, NeedsTable, SpacesOk

-----------------------------------------------------------------------------
(* alloc_frame for a page: memory_allocate tracks it, spawn_initial_user not yet *)
LEMMA ReclaimPageFrame ==
  ASSUME MInv, Reclaim, PageFrame
  PROVE  Reclaim'
<1>0. Types /\ JobOk
  BY DEF MInv
<1>a. PICK F, L : Shape(F, L)
  BY DEF MInv
<1>c. word \in [Frame -> 0 .. FRAMES + 1] /\ held \in [Slot -> SUBSET Frame] /\ frames_head \in [Slot -> 0 .. FRAMES]
      /\ L \in [Slot -> SUBSET Frame]
  BY <1>0, <1>a DEF Types, Shape, Lists
<1>1. PICK s, t, x : s = job.slot /\ t = TopFrame /\ x = IF job.op = "spawn" THEN 0 ELSE frames_head[s]
  OBVIOUS
<1>2. /\ job.op \in PageOps /\ job.frame = 0 /\ AllocFrame(x) /\ s \in Slot
      /\ (job.op = "spawn" => frames_head' = frames_head)
      /\ (job.op # "spawn" => x = frames_head[s] /\ frames_head' = [frames_head EXCEPT ![s] = t])
      /\ held' = [held EXCEPT ![s] = held[s] \cup {t}] /\ job' = [job EXCEPT !.frame = t]
      /\ UNCHANGED <<live, origin, huge, cut>>
  BY <1>0, <1>1 DEF PageFrame, PageJob, PageOps, JobOk, mapVars
<1>3. x \in 0 .. FRAMES + 1
  BY <1>c, <1>1, <1>2, ProcessMemoryAssumption
<1>4. t \in Frame /\ word' = [word EXCEPT ![t] = x] /\ \A i \in Slot : t \notin L[i]
  BY <1>0, <1>a, <1>1, <1>2, <1>3, Fresh
<1>5. word'[t] = x /\ \A i \in Slot : \A f \in L[i] : word'[f] = word[f]
  BY <1>c, <1>4
<1>6. job'.op = job.op /\ job'.slot = s /\ job'.frame = t
  BY <1>0, <1>1, <1>2 DEF Types, JobRecord
<1>7. ASSUME NEW i \in Slot, Handled(i)', live'[i], i \notin cut' PROVE Complete(i)'
  <2>1. Handled(i) /\ live[i] /\ i \notin cut
    BY <1>2, <1>7 DEF Handled
  <2>2. CASE i = s /\ job.op = "spawn"
    <3>1. held'[i] = held[i] \cup {t} /\ 0 \notin held[i]
      BY <1>c, <1>2, <2>2, EndsNoFrames
    <3>2. Tracked(i)' = held'[i] \ {t} /\ Tracked(i) = held[i] \ {0}
      BY <1>1, <1>2, <1>6, <2>2 DEF Tracked, Pending
    <3>3. HeadOf(i)' = HeadOf(i)
      BY <1>1, <1>2, <1>6, <2>2 DEF HeadOf
    <3>4. Tracked(i)' \subseteq Tracked(i)
      BY <3>1, <3>2
    <3> QED BY <1>a, <1>5, <2>1, <3>3, <3>4, ReclaimOthers
  <2>3. CASE i = s /\ job.op # "spawn"
    <3>1. HeadOf(i) = x /\ HeadOf(i)' = t
      BY <1>c, <1>2, <1>6, <2>3 DEF HeadOf, PageOps
    <3>2. Tracked(i)' = held[i] \cup {t} /\ Tracked(i) = held[i]
      BY <1>c, <1>1, <1>2, <1>6, <2>3 DEF Tracked, Pending
    <3>3. Complete(i)
      BY <2>1 DEF Reclaim
    <3> QED BY <1>a, <1>4, <1>5, <3>1, <3>2, <3>3, ListGrows
  <2>4. CASE i # s
    <3>1. HeadOf(i)' = HeadOf(i) /\ Tracked(i)' \subseteq Tracked(i)
      BY <1>c, <1>1, <1>2, <1>6, <2>4 DEF HeadOf, Tracked, Pending
    <3> QED BY <1>a, <1>5, <2>1, <3>1, ReclaimOthers
  <2> QED BY <2>2, <2>3, <2>4
<1> QED BY <1>2, <1>6, <1>7 DEF Reclaim, PageOps

(* map_page succeeds: now spawn_initial_user tracks the frame *)
LEMMA ReclaimMapPage ==
  ASSUME MInv, Reclaim, MapPage
  PROVE  Reclaim'
<1>0. Types /\ JobOk
  BY DEF MInv
<1>a. PICK F, L : Shape(F, L)
  BY DEF MInv
<1>b. \A i \in Slot : InUse(i) => \A j \in Slot \ {i} : held[i] \cap L[j] = {}
  BY <1>a DEF Shape, Apart
<1>c. word \in [Frame -> 0 .. FRAMES + 1] /\ held \in [Slot -> SUBSET Frame] /\ frames_head \in [Slot -> 0 .. FRAMES]
      /\ L \in [Slot -> SUBSET Frame] /\ \A i \in Slot : L[i] \subseteq Frame
  BY <1>0, <1>a DEF Types, Shape, Lists
<1>1. PICK s, f : s = job.slot /\ f = job.frame
  OBVIOUS
<1>2. /\ job.op \in PageOps /\ f # 0 /\ s \in Slot /\ UNCHANGED <<live, held, origin, huge, cut>>
      /\ (job.op # "spawn" => frames_head' = frames_head)
      /\ (job.op = "spawn" => frames_head' = [frames_head EXCEPT ![s] = f])
      /\ (job.op = "spawn" => word' = [word EXCEPT ![f] = frames_head[s]])
      /\ (job.op = "allocate" => word' = [word EXCEPT ![f] = word[f]])
      /\ (\E x : word' = [word EXCEPT ![f] = x])
      /\ job' = [job EXCEPT !.page = job.page + 1, !.frame = 0]
  BY <1>0, <1>1 DEF MapPage, PageJob, PageOps, JobOk, CodePage
<1>3. job'.op = job.op /\ job'.slot = s /\ job'.frame = 0
  BY <1>0, <1>1, <1>2 DEF Types, JobRecord
<1>4. f \in held[s] /\ InUse(s) /\ (job.op = "spawn" => f \notin L[s])
  BY <1>0, <1>a, <1>1, <1>2 DEF Shape, JobOk, PageOps, InUse
<1>5. \A i \in Slot : Tracked(i)' \subseteq Tracked(i) \cup (IF i = s /\ job.op = "spawn" THEN {f} ELSE {})
  BY <1>1, <1>2, <1>3 DEF Tracked, Pending
<1>6. ASSUME NEW i \in Slot, Handled(i)', live'[i], i \notin cut' PROVE Complete(i)'
  <2>1. Handled(i) /\ live[i] /\ i \notin cut
    BY <1>2, <1>6 DEF Handled
  <2>2. CASE i = s /\ job.op = "spawn"
    <3>1. f \in Frame
      BY <1>c, <1>2, <1>4
    <3>2. word'[f] = frames_head[s] /\ \A g \in L[i] : word'[g] = word[g]
      BY <1>c, <1>2, <1>4, <2>2, <3>1
    <3>3. HeadOf(i) = frames_head[s] /\ HeadOf(i)' = f
      BY <1>c, <1>2, <1>3, <2>2 DEF HeadOf
    <3>4. Complete(i)
      BY <2>1 DEF Reclaim
    <3>5. Tracked(i)' \subseteq Tracked(i) \cup {f}
      BY <1>5, <2>2
    <3> QED BY <1>a, <3>1, <3>2, <3>3, <3>4, <3>5, ListGrows
  <2>3. CASE i = s /\ job.op # "spawn"
    <3>1. job.op # "exec"
      BY <1>0, <1>1, <2>1, <2>3 DEF JobOk, Handled
    <3>2. job.op = "allocate"
      BY <1>2, <2>3, <3>1 DEF PageOps
    <3>3. word' = word
      BY <1>c, <1>2, <3>2
    <3>4. HeadOf(i)' = HeadOf(i) /\ Tracked(i)' \subseteq Tracked(i)
      BY <1>2, <1>3, <1>5, <2>3, <3>2 DEF HeadOf
    <3> QED BY <1>a, <2>1, <3>3, <3>4, ReclaimOthers
  <2>4. CASE i # s
    <3>1. f \notin L[i]
      BY <1>b, <1>2, <1>4, <2>4
    <3>2. \A g \in L[i] : word'[g] = word[g]
      BY <1>c, <1>2, <3>1
    <3>3. frames_head'[i] = frames_head[i]
      BY <1>c, <1>2, <2>4
    <3>4. HeadOf(i)' = HeadOf(i) /\ Tracked(i)' \subseteq Tracked(i)
      BY <1>2, <1>3, <1>5, <2>4, <3>3 DEF HeadOf, PageOps
    <3> QED BY <1>a, <2>1, <3>2, <3>4, ReclaimOthers
  <2> QED BY <2>2, <2>3, <2>4
<1> QED BY <1>2, <1>3, <1>6 DEF Reclaim, PageOps

(* A program's store cuts no list that is not marked *)
LEMMA ReclaimWrites ==
  ASSUME MInv, Reclaim, NEW s \in Slot, NEW p \in Page, NEW w \in UserWord, UserWrites(s, p, w)
  PROVE  Reclaim'
<1>0. Types
  BY DEF MInv
<1>a. PICK F, L : Shape(F, L)
  BY DEF MInv
<1>1. PICK f : f = Mapping(s, p)
  OBVIOUS
<1>2. /\ f \in Frame /\ job.op = "none" /\ word' = [word EXCEPT ![f] = w]
      /\ cut' = cut \cup {j \in Slot : live[j] /\ f \in held[j]}
      /\ UNCHANGED <<live, frames_head, job, held, origin, huge>>
  BY <1>1 DEF UserWrites, Idle, pcbVars, mapVars
<1>3. ASSUME NEW i \in Slot, Handled(i)', live'[i], i \notin cut' PROVE Complete(i)'
  <2>1. Handled(i) /\ live[i] /\ i \notin cut /\ f \notin held[i]
    BY <1>2, <1>3 DEF Handled
  <2>2. L[i] \subseteq held[i] /\ L[i] \subseteq Frame
    BY <1>0, <1>a, <2>1 DEF Shape, Apart, InUse, Types
  <2>3. \A g \in L[i] : word'[g] = word[g]
    BY <1>0, <1>2, <2>1, <2>2 DEF Types
  <2>4. HeadOf(i)' = HeadOf(i) /\ Tracked(i)' \subseteq Tracked(i)
    BY <1>2 DEF HeadOf, Tracked, Pending
  <2> QED BY <1>a, <2>1, <2>3, <2>4, ReclaimOthers
<1> QED BY <1>2, <1>3 DEF Reclaim

LEMMA ReclaimStep == MInv /\ Reclaim /\ [Next]_vars => Reclaim'
<1> SUFFICES ASSUME MInv, Reclaim, [Next]_vars PROVE Reclaim'
  OBVIOUS
<1>0. Types /\ JobOk /\ SpacesOk
  BY DEF MInv
<1>a. PICK F, L : Shape(F, L)
  BY DEF MInv
<1>b. FreeSlots # {} => FindFreeSlot \in Slot /\ ~live[FindFreeSlot]
  BY FreeSlotIs
<1>c. word \in [Frame -> 0 .. FRAMES + 1] /\ held \in [Slot -> SUBSET Frame] /\ live \in [Slot -> BOOLEAN]
      /\ frames_head \in [Slot -> 0 .. FRAMES] /\ \A i \in Slot : 0 \notin held[i]
  BY <1>0, EndsNoFrames DEF Types
<1>1. ASSUME NEW c, CreateProcess(c) PROVE Reclaim'
  <2>1. /\ FindFreeSlot \in Slot /\ ~live[FindFreeSlot] /\ job.op = "none" /\ job' = job /\ word' = word /\ huge' = huge
        /\ frames_head' = [frames_head EXCEPT ![FindFreeSlot] = 0] /\ live' = [live EXCEPT ![FindFreeSlot] = TRUE]
        /\ NewProgram(FindFreeSlot, "create")
    BY <1>1, <1>b DEF CreateProcess, Idle, Provision, allocVars, ClonePml4
  <2> QED BY <2>1, ReclaimReset
<1>2. CASE BeginSpawn
  <2>1. job'.op = "spawn" /\ job'.slot = FindFreeSlot
    BY <1>2, JobFields DEF BeginSpawn
  <2> QED BY <1>2, <1>b, <2>1, ReclaimReset DEF BeginSpawn, Idle, Provision, allocVars, ClonePml4
<1>3. ASSUME NEW c, NEW a, BeginExec(c, a) PROVE Reclaim'
  <2>1. job'.op = "exec" /\ job'.slot = FindFreeSlot
    BY <1>3, JobFields DEF BeginExec
  <2> QED BY <1>3, <1>b, <2>1, ReclaimReset DEF BeginExec, Idle, allocVars, ClonePml4
<1>4. ASSUME NEW i \in Slot, NEW pages \in 1 .. LAYER_PAGES, BeginAllocate(i, pages) PROVE Reclaim'
  <2>1. /\ job.op = "none" /\ job'.op = "allocate"
        /\ UNCHANGED <<word, held, origin, live, frames_head, huge, cut>>
    BY <1>4, JobFields DEF BeginAllocate, Idle, allocVars, pcbVars, mapVars, histVars
  <2>2. \A j \in Slot : HeadOf(j)' = HeadOf(j) /\ Tracked(j)' \subseteq Tracked(j)
    BY <2>1 DEF HeadOf, Tracked, Pending
  <2> QED BY <2>1, <2>2, ReclaimQuiet
<1>5. ASSUME NEW s \in Slot, NEW p \in Page, NEW w \in UserWord, UserWrites(s, p, w) PROVE Reclaim'
  BY <1>5, ReclaimWrites
<1>6. ASSUME NEW s \in Slot, BeginExit(s) PROVE Reclaim'
  <2>1. /\ job.op = "none" /\ live[s] /\ live' = [live EXCEPT ![s] = FALSE]
        /\ UNCHANGED <<word, held, origin, frames_head, huge, cut, free_list_head>>
        /\ job'.op = "free" /\ job'.slot = s /\ job'.frame = frames_head[s]
    BY <1>6 DEF BeginExit, Idle, allocVars, mapVars, histVars, Job
  <2>2. ASSUME NEW i \in Slot, Handled(i)', live[i], i \notin cut' PROVE Complete(i)'
    <3>1. HeadOf(i)' = HeadOf(i) /\ Tracked(i)' \subseteq Tracked(i)
      BY <2>1 DEF HeadOf, Tracked, Pending
    <3>2. Handled(i) /\ i \notin cut
      BY <2>1, <2>2 DEF Handled
    <3> QED BY <1>a, <2>1, <2>2, <3>1, <3>2, ReclaimOthers
  <2>3. \A i \in Slot : live'[i] => live[i]
    BY <1>c, <2>1
  <2>4. Complete(s)' => Returned(s)'
    <3>1. Tracked(s)' = held'[s]
      BY <2>1 DEF Tracked, Pending
    <3> HIDE DEF Tracked
    <3> QED BY <3>1 DEF Complete, Returned
  <2> QED BY <2>1, <2>2, <2>3, <2>4 DEF Reclaim
<1>7. CASE PageOutOfMemory \/ MapFails
  <2>1. /\ job.op \in PageOps /\ job'.op = "none"
        /\ UNCHANGED <<word, held, origin, live, frames_head, huge, cut>>
    BY <1>7, JobFields DEF PageOutOfMemory, MapFails, AsksForFrame, PageJob, PageOps, allocVars, pcbVars, mapVars,
                           histVars
  <2>2. job.op = "spawn" /\ ~huge => job.frame = 0
    BY <1>0, <1>7, SpawnMaps DEF PageOutOfMemory, MapFails, AsksForFrame
  <2>3. ASSUME NEW i \in Slot, Handled(i) PROVE HeadOf(i)' = HeadOf(i) /\ Tracked(i)' \subseteq Tracked(i)
    <3>1. HeadOf(i)' = HeadOf(i)
      BY <2>1 DEF HeadOf, PageOps
    <3>2. job.op = "spawn" /\ job.slot = i => ~huge
      BY <1>0, <2>3 DEF JobOk, Handled
    <3> QED BY <1>c, <2>1, <2>2, <3>1, <3>2 DEF Tracked, Pending
  <2> QED BY <2>1, <2>3, ReclaimQuiet
<1>8. CASE PageFrame
  BY <1>8, ReclaimPageFrame
<1>9. CASE MapNeedsTable
  <2>1. AllocFrame(0) /\ UNCHANGED <<live, frames_head, job, held, origin, huge, cut>> /\ job.op # "free"
    BY <1>9 DEF MapNeedsTable, PageJob, pcbVars
  <2>2. 0 \in 0 .. FRAMES + 1
    BY ProcessMemoryAssumption
  <2>3. TopFrame \in Frame /\ word' = [word EXCEPT ![TopFrame] = 0] /\ \A i \in Slot : TopFrame \notin L[i]
    BY <1>0, <1>a, <2>1, <2>2, Fresh
  <2>4. ASSUME NEW i \in Slot
        PROVE  HeadOf(i)' = HeadOf(i) /\ Tracked(i)' \subseteq Tracked(i) /\ \A f \in L[i] : word'[f] = word[f]
    <3>1. \A f \in L[i] : f \in Frame /\ f # TopFrame
      BY <1>a, <2>3 DEF Shape, Lists
    <3> QED BY <1>c, <2>1, <2>3, <3>1 DEF HeadOf, Tracked, Pending
  <2>5. ASSUME NEW i \in Slot, Handled(i)', live'[i], i \notin cut' PROVE Complete(i)'
    <3>1. Handled(i) /\ live[i] /\ i \notin cut
      BY <2>1, <2>5 DEF Handled
    <3> QED BY <1>a, <2>4, <3>1, ReclaimOthers
  <2> QED BY <2>1, <2>5 DEF Reclaim
<1>10. CASE MapPage
  BY <1>10, ReclaimMapPage
<1>11. CASE EndPages
  <2>1. job.op \in PageOps /\ job'.op = "none" /\ UNCHANGED <<word, held, origin, huge, cut>>
    BY <1>11, JobFields DEF EndPages, PageOps, allocVars, mapVars, histVars
  <2>2. job.op = "spawn" => job.frame = 0
    <3>1. job.page \in Nat /\ job.end \in Nat /\ job.page = job.end
      BY <1>0, <1>11 DEF EndPages, Types, JobRecord
    <3> QED BY <1>0, <2>1, <3>1 DEF JobOk
  <2>3. ASSUME NEW i \in Slot, Handled(i), live'[i]
        PROVE  live[i] /\ HeadOf(i)' = HeadOf(i) /\ Tracked(i)' \subseteq Tracked(i)
    <3>1. Tracked(i)' \subseteq Tracked(i)
      BY <1>c, <2>1, <2>2 DEF Tracked, Pending
    <3>2. CASE job.op # "exec"
      BY <1>11, <2>1, <2>3, <3>1, <3>2 DEF EndPages, HeadOf, pcbVars, PageOps
    <3>3. CASE job.op = "exec"
      <4>1. /\ live' = [live EXCEPT ![job.slot] = TRUE] /\ frames_head' = [frames_head EXCEPT ![job.slot] = 0]
        BY <1>11, <3>3 DEF EndPages, Provision
      <4>2. i # job.slot
        BY <1>0, <2>3, <3>3 DEF JobOk, Handled
      <4> QED BY <1>c, <2>1, <2>3, <3>1, <3>3, <4>1, <4>2 DEF HeadOf
    <3> QED BY <3>2, <3>3
  <2> QED BY <2>1, <2>3, ReclaimQuiet
<1>12. CASE FreeOne
  <2>1. PICK s, f : s = job.slot /\ f = job.frame
    OBVIOUS
  <2>2. /\ f \in Frame /\ job.op = "free" /\ s \in Slot /\ ~live[s] /\ job' = [job EXCEPT !.frame = word[f]]
        /\ word' = [word EXCEPT ![f] = free_list_head] /\ UNCHANGED <<live, frames_head, held, origin, huge, cut>>
    BY <1>0, <1>12, <2>1 DEF FreeOne, JobOk, pcbVars, mapVars, histVars
  <2>3. job'.op = "free" /\ job'.slot = s
    BY <1>0, <2>1, <2>2 DEF Types, JobRecord
  <2>4. \A i \in Slot \ {s} : f \notin L[i] /\ L[i] \subseteq Frame
    <3>1. HeadOf(s) = f /\ ListOk(L[s], HeadOf(s), word, Ends) /\ \A j \in Slot \ {s} : L[s] \cap L[j] = {}
      BY <1>a, <2>1, <2>2 DEF HeadOf, Shape, Lists
    <3>2. f \in L[s]
      BY <2>2, <3>1, EndsNoFrames DEF ListOk
    <3> QED BY <1>a, <3>1, <3>2 DEF Shape, Lists
  <2>5. ASSUME NEW i \in Slot, Handled(i)', live'[i], i \notin cut' PROVE Complete(i)'
    <3>1. Handled(i) /\ live[i] /\ i \notin cut /\ i # s
      BY <2>2, <2>5 DEF Handled
    <3>2. \A g \in L[i] : word'[g] = word[g]
      BY <1>c, <2>2, <2>4, <3>1
    <3>3. HeadOf(i)' = HeadOf(i) /\ Tracked(i)' \subseteq Tracked(i)
      BY <2>1, <2>2, <2>3, <3>1 DEF HeadOf, Tracked, Pending
    <3> QED BY <1>a, <3>1, <3>2, <3>3, ReclaimOthers
  <2>6. Handled(s)' /\ s \notin cut' => Returned(s)'
    BY <1>0, <1>12, <2>1, <2>2, ListGoesBack DEF Reclaim, Handled
  <2> QED BY <2>3, <2>5, <2>6 DEF Reclaim
<1>13. CASE EndFree
  <2>1. /\ job.op = "free" /\ job'.op = "none" /\ UNCHANGED <<word, held, origin, live, huge, cut>> /\ job.slot \in Slot
        /\ ~live[job.slot] /\ frames_head' = [frames_head EXCEPT ![job.slot] = 0]
    BY <1>0, <1>13, JobFields DEF EndFree, allocVars, mapVars, histVars, JobOk
  <2>2. \A i \in Slot : live[i] => HeadOf(i)' = HeadOf(i) /\ Tracked(i)' \subseteq Tracked(i)
    BY <1>c, <2>1 DEF HeadOf, Tracked, Pending
  <2> QED BY <2>1, <2>2, ReclaimQuiet
<1>14. CASE UNCHANGED vars \/ FreeFaults \/ AllocFaults
  <2>1. UNCHANGED <<word, free_list_head, held, origin, live, frames_head, job, huge, cut>>
    BY <1>14 DEF FreeFaults, AllocFaults, vars, allocVars, pcbVars, mapVars, histVars
  <2>2. \A i : HeadOf(i)' = HeadOf(i) /\ Tracked(i)' = Tracked(i) /\ Handled(i)' = Handled(i)
    BY <2>1 DEF HeadOf, Tracked, Pending, Handled
  <2> HIDE DEF Tracked, HeadOf, Handled
  <2>3. \A i : Complete(i)' = Complete(i) /\ Returned(i)' = Returned(i)
    BY <2>1, <2>2 DEF Complete, Returned, Follows
  <2> QED BY <2>1, <2>2, <2>3 DEF Reclaim
<1> QED BY <1>1, <1>2, <1>3, <1>4, <1>5, <1>6, <1>7, <1>8, <1>9, <1>10, <1>11, <1>12, <1>13, <1>14
        DEF Next, PageStep, FreeStep

(* read.md, "Frame reclamation": when free_process_frames comes to the end   *)
(* of the list of a program made by create_process or, where the firmware    *)
(* has no huge pages, by spawn_initial_user, every frame the program was     *)
(* given is in the free list, those of calls that failed half-way included,  *)
(* unless a program stored to the first word of one of them or has stored    *)
(* the address of a frame in some page.                                      *)
THEOREM ReclaimsFrames == Spec => FramesReturned
<1>1. Init => RInv
  BY IInvInit DEF Init, Reclaim, NoJob, RInv
<1>2. RInv /\ [Next]_vars => RInv'
  BY IInvStep, ReclaimStep, StrayStays DEF RInv, IInv
<1>3. RInv /\ [Next]_vars =>
        [ExitDone({"create"} \cup IF huge THEN {} ELSE {"spawn"})
           => job.slot \in cut \/ stray \/ held[job.slot] \subseteq FreeList]_vars
  <2> SUFFICES ASSUME RInv, [Next]_vars, ExitDone({"create"} \cup IF huge THEN {} ELSE {"spawn"}),
                      job.slot \notin cut, ~stray
               PROVE  held[job.slot] \subseteq FreeList
    OBVIOUS
  <2>1. job.op = "free" /\ job'.op = "none" /\ Handled(job.slot)
    BY DEF ExitDone, Handled
  <2>2. MInv /\ Reclaim
    BY DEF RInv, IInv
  <2>3. job.frame = 0
    <3>1. ~FreeOne
      <4>1. FreeOne => job'.op = "free"
        BY <2>2 DEF FreeOne, MInv, Types, JobRecord
      <4> QED BY <2>1, <4>1
    <3>2. job' # job
      BY <2>1
    <3>3. ~PageStep
      BY <2>1 DEF PageStep, PageJob, AsksForFrame, PageOutOfMemory, AllocFaults, PageFrame, MapFails, MapNeedsTable,
                  MapPage, EndPages
    <3>4. EndFree
      BY <2>1, <3>1, <3>2, <3>3 DEF Next, FreeStep, CreateProcess, BeginSpawn, BeginExec, BeginAllocate, UserWrites,
                                    BeginExit, Idle, FreeFaults, vars
    <3> QED BY <3>4 DEF EndFree
  <2>4. HeadOf(job.slot) = 0
    BY <2>1, <2>3 DEF HeadOf
  <2>5. Returned(job.slot)
    BY <2>1, <2>2 DEF Reclaim
  <2>6. \A S \in SUBSET Frame : Follows(S, free_list_head) => held[job.slot] \subseteq S
    BY <2>4, <2>5, EndsNoFrames DEF Returned, Follows
  <2>7. held[job.slot] \subseteq Frame
    BY <2>1, <2>2 DEF MInv, Types, JobOk
  <2> QED BY <2>6, <2>7 DEF FreeList, Listed
<1> QED BY <1>1, <1>2, <1>3, PTL DEF Spec, FramesReturned
=============================================================================
