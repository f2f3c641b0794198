----------------------- MODULE FileDescriptorsProofs -----------------------
(***************************************************************************)
(* Proofs about the file system and the descriptors, for any number of      *)
(* nodes, pool of data, names, texts, paths, processes and descriptors.     *)
(***************************************************************************)
EXTENDS FileDescriptors, SequenceTheorems, WellFoundedInduction, TLAPS

-----------------------------------------------------------------------------
(* Induction over an interval, stated with a set instead of a predicate *)

LEMMA LeastNat ==
  ASSUME NEW S \in SUBSET Nat, S # {}
  PROVE  \E n \in S : \A m \in S : n <= m
<1>1. PICK n \in S : \A m \in S : ~(<<m, n>> \in OpToRel(<, Nat))
  BY NatLessThanWellFounded, WFMin
<1>2. \A m \in S : ~(m < n)
  BY <1>1 DEF OpToRel
<1> QED BY <1>2

LEMMA Induct ==
  ASSUME NEW N \in Nat, NEW T, 0 \in T, \A k \in 1 .. N : k - 1 \in T => k \in T
  PROVE  \A k \in 0 .. N : k \in T
<1> DEFINE out == {k \in 0 .. N : k \notin T}
<1> SUFFICES ASSUME out # {} PROVE FALSE
  OBVIOUS
<1>1. out \in SUBSET Nat
  OBVIOUS
<1>2. \E n \in out : \A m \in out : n <= m
  <2> HIDE DEF out
  <2> QED BY <1>1, LeastNat
<1>3. PICK n \in out : \A m \in out : n <= m
  BY <1>2
<1>4. n \in 1 .. N /\ n - 1 \in 0 .. N
  OBVIOUS
<1>5. n - 1 \notin out
  BY <1>3, <1>4
<1> QED BY <1>4, <1>5

(* What is defined by recursion over an interval exists *)
Steps(N, S) == [1 .. N -> [S -> S]]
Iterates(h, S, N, a, g) ==
  h \in [0 .. N -> S] /\ h[0] = a /\ \A k \in 1 .. N : h[k] = g[k][h[k - 1]]

LEMMA IteratesExist ==
  ASSUME NEW S, NEW N \in Nat, NEW a \in S, NEW g \in Steps(N, S)
  PROVE  \E h : Iterates(h, S, N, a, g)
<1> DEFINE T == {m \in 0 .. N : \E h : Iterates(h, S, m, a, g)}
<1>1. 0 \in T
  <2> DEFINE e == [i \in 0 .. 0 |-> a]
  <2>1. Iterates(e, S, 0, a, g)
    BY DEF Iterates
  <2> HIDE DEF e
  <2> QED BY <2>1
<1>2. ASSUME NEW m \in 1 .. N, m - 1 \in T PROVE m \in T
  <2>1. PICK h : Iterates(h, S, m - 1, a, g)
    BY <1>2
  <2> DEFINE e == [i \in 0 .. m |-> IF i = m THEN g[m][h[m - 1]] ELSE h[i]]
  <2>2. g[m][h[m - 1]] \in S
    BY <2>1 DEF Iterates, Steps
  <2>3. e \in [0 .. m -> S]
    BY <2>1, <2>2 DEF Iterates
  <2>4. \A k \in 1 .. m : e[k] = g[k][e[k - 1]]
    BY <2>1 DEF Iterates
  <2>5. e[0] = a
    BY <2>1 DEF Iterates
  <2> HIDE DEF e
  <2>6. Iterates(e, S, m, a, g)
    BY <2>3, <2>4, <2>5 DEF Iterates
  <2> QED BY <2>6
<1>3. N \in T
  <2>1. \A m \in 1 .. N : m - 1 \in T => m \in T
    BY <1>2
  <2> HIDE DEF T
  <2>2. \A m \in 0 .. N : m \in T
    BY <1>1, <2>1, Induct
  <2> QED BY <2>2
<1> QED BY <1>3

-----------------------------------------------------------------------------
(* Operators of fs.rs *)

FsType ==
  [nodes : [Node -> NodeType], data : [0 .. DATA_POOL - 1 -> Byte],
   next : 0 .. DATA_POOL, stored : [Node -> Seq(Byte)]]

LEMMA NodeFacts ==
  /\ ROOT \in Node /\ Node \subseteq Nat /\ NoNode \notin Node
  /\ NoNode = MAX_NODES /\ MAX_NODES \in Nat /\ MAX_NODES > 0
<1>1. MAX_NODES \in Nat \ {0}
  BY RamfsAssumption
<1> QED BY <1>1 DEF ROOT, Node, NoNode

(* First finds the first of a set of nodes *)
LEMMA FirstIs ==
  ASSUME NEW S \in SUBSET Node
  PROVE  /\ S = {} => First(S) = NoNode
         /\ S # {} => First(S) \in S
         /\ First(S) \in Node \cup {NoNode}
         /\ First(S) # NoNode => First(S) \in S
<1>1. CASE S = {}
  BY <1>1 DEF First
<1>2. CASE S # {}
  <2>1. S \in SUBSET Nat
    BY NodeFacts
  <2>2. \E n \in S : \A m \in S : n <= m
    BY <1>2, <2>1, LeastNat
  <2>3. First(S) \in S
    BY <1>2, <2>2 DEF First
  <2> QED BY <1>2, <2>3, NodeFacts
<1> QED BY <1>1, <1>2

LEMMA FindChildIs ==
  ASSUME NEW f, NEW d, NEW name
  PROVE  /\ FindChild(f, d, name) \in Node \cup {NoNode}
         /\ FindChild(f, d, name) = NoNode =>
              \A n \in Children(f, d) : f.nodes[n].name # name
         /\ FindChild(f, d, name) # NoNode =>
              /\ FindChild(f, d, name) \in Children(f, d)
              /\ f.nodes[FindChild(f, d, name)].name = name
<1> DEFINE S == {n \in Children(f, d) : f.nodes[n].name = name}
<1>1. S \in SUBSET Node
  BY DEF Children
<1>2. FindChild(f, d, name) = First(S)
  BY DEF FindChild
<1>3. /\ S = {} => First(S) = NoNode
      /\ S # {} => First(S) \in S
      /\ First(S) \in Node \cup {NoNode}
      /\ First(S) # NoNode => First(S) \in S
  <2> HIDE DEF S
  <2> QED BY <1>1, FirstIs
<1>4. First(S) = NoNode => S = {}
  <2> HIDE DEF S
  <2> QED BY <1>1, <1>3, NodeFacts
<1> QED BY <1>2, <1>3, <1>4

LEMMA AllocNodeIs ==
  ASSUME NEW f, AllocNode(f) # NoNode
  PROVE  AllocNode(f) \in Node \ {ROOT} /\ f.nodes[AllocNode(f)].kind = "Free"
<1> DEFINE S == {n \in Node \ {ROOT} : f.nodes[n].kind = "Free"}
<1>1. S \in SUBSET Node
  OBVIOUS
<1>2. First(S) # NoNode => First(S) \in S
  <2> HIDE DEF S
  <2> QED BY <1>1, FirstIs
<1> QED BY <1>2 DEF AllocNode

(* The way to the root *)
LEMMA UpIs ==
  ASSUME NEW f \in FsType, NEW n \in Node
  PROVE  /\ Up(f, n) \in [0 .. MAX_NODES -> Node]
         /\ Up(f, n)[0] = n
         /\ \A k \in 1 .. MAX_NODES : Up(f, n)[k] = f.nodes[Up(f, n)[k - 1]].parent
<1> DEFINE par == [m \in Node |-> f.nodes[m].parent]
           g == [k \in 1 .. MAX_NODES |-> par]
           Rec(h) == h = [k \in 0 .. MAX_NODES |-> IF k = 0 THEN n ELSE f.nodes[h[k - 1]].parent]
<1>1. par \in [Node -> Node] /\ g \in Steps(MAX_NODES, Node)
  BY DEF FsType, NodeType, Steps
<1>2. PICK h : Iterates(h, Node, MAX_NODES, n, g)
  <2> HIDE DEF g
  <2> QED BY <1>1, NodeFacts, IteratesExist
<1>3. h \in [0 .. MAX_NODES -> Node] /\ h[0] = n
      /\ \A k \in 1 .. MAX_NODES : h[k] = f.nodes[h[k - 1]].parent
  <2>1. h \in [0 .. MAX_NODES -> Node] /\ h[0] = n
    BY <1>2 DEF Iterates
  <2>2. ASSUME NEW k \in 1 .. MAX_NODES PROVE h[k] = f.nodes[h[k - 1]].parent
    <3>1. k - 1 \in 0 .. MAX_NODES
      BY NodeFacts
    <3> QED BY <1>2, <2>1, <3>1 DEF Iterates
  <2> QED BY <2>1, <2>2
<1>4. Rec(h)
  BY <1>3, NodeFacts
<1>5. Up(f, n) = CHOOSE u : Rec(u)
  BY DEF Up
<1>6. Rec(Up(f, n))
  <2> HIDE DEF Rec
  <2> QED BY <1>4, <1>5
<1> DEFINE u == Up(f, n)
           T == {k \in 0 .. MAX_NODES : u[k] \in Node}
<1>7. u[0] = n /\ \A k \in 1 .. MAX_NODES : u[k] = f.nodes[u[k - 1]].parent
  <2> HIDE DEF u
  <2>1. u = [k \in 0 .. MAX_NODES |-> IF k = 0 THEN n ELSE f.nodes[u[k - 1]].parent]
    BY <1>6 DEF u
  <2>2. u[0] = n
    BY <2>1, NodeFacts
  <2>3. ASSUME NEW k \in 1 .. MAX_NODES PROVE u[k] = f.nodes[u[k - 1]].parent
    <3>1. k \in 0 .. MAX_NODES /\ k # 0
      BY NodeFacts
    <3> QED BY <2>1, <3>1
  <2> QED BY <2>2, <2>3
<1>8. DOMAIN u = 0 .. MAX_NODES /\ u = [k \in 0 .. MAX_NODES |-> u[k]]
  <2> HIDE DEF u
  <2>1. u = [k \in 0 .. MAX_NODES |-> IF k = 0 THEN n ELSE f.nodes[u[k - 1]].parent]
    BY <1>6 DEF u
  <2> QED BY <2>1, NodeFacts
<1>9. 0 \in T
  BY <1>7, NodeFacts
<1>10. ASSUME NEW k \in 1 .. MAX_NODES, k - 1 \in T PROVE k \in T
  <2>1. k \in 0 .. MAX_NODES
    BY NodeFacts
  <2> HIDE DEF u
  <2>2. u[k] = par[u[k - 1]] /\ u[k - 1] \in Node
    BY <1>7, <1>10
  <2> HIDE DEF par
  <2> QED BY <1>1, <2>1, <2>2
<1>11. \A k \in 0 .. MAX_NODES : k \in T
  <2> HIDE DEF T
  <2> QED BY <1>9, <1>10, Induct, NodeFacts
<1> HIDE DEF u
<1>12. u \in [0 .. MAX_NODES -> Node]
  BY <1>8, <1>11
<1> QED BY <1>7, <1>12 DEF u

(* Paths lead to nodes or nowhere *)
LEMMA StepIs ==
  ASSUME NEW f \in FsType, NEW n \in Node \cup {NoNode}, NEW comp
  PROVE  Step(f, n, comp) \in Node \cup {NoNode}
<1>1. CASE n = NoNode \/ comp \in {"", "."}
  BY <1>1 DEF Step
<1>2. CASE n \in Node /\ comp = ".."
  BY <1>2, NodeFacts DEF Step, FsType, NodeType
<1>3. CASE n # NoNode /\ comp \notin {"", ".", ".."}
  BY <1>3, FindChildIs DEF Step
<1> QED BY <1>1, <1>2, <1>3

(* The nodes that resolve_from passes, from node a on *)
Way(f, a, comps, N) ==
  CHOOSE cur : cur = [k \in 0 .. N |-> IF k = 0 THEN a ELSE Step(f, cur[k - 1], comps[k])]

LEMMA WayIs ==
  ASSUME NEW f \in FsType, NEW a \in Node \cup {NoNode}, NEW comps, NEW N \in Nat
  PROVE  /\ Way(f, a, comps, N) \in [0 .. N -> Node \cup {NoNode}]
         /\ Way(f, a, comps, N)[0] = a
         /\ \A k \in 1 .. N :
              Way(f, a, comps, N)[k] = Step(f, Way(f, a, comps, N)[k - 1], comps[k])
<1> DEFINE M == Node \cup {NoNode}
           g == [k \in 1 .. N |-> [m \in M |-> Step(f, m, comps[k])]]
           Rec(h) == h = [k \in 0 .. N |-> IF k = 0 THEN a ELSE Step(f, h[k - 1], comps[k])]
<1>1. \A k \in 1 .. N, m \in M : Step(f, m, comps[k]) \in M
  BY StepIs
<1>2. g \in Steps(N, M)
  BY <1>1 DEF Steps
<1>3. PICK h : Iterates(h, M, N, a, g)
  <2> HIDE DEF g
  <2> QED BY <1>2, IteratesExist
<1>4. h \in [0 .. N -> M] /\ h[0] = a
  BY <1>3 DEF Iterates
<1>5. ASSUME NEW k \in 1 .. N PROVE h[k] = Step(f, h[k - 1], comps[k])
  <2>1. k - 1 \in 0 .. N
    OBVIOUS
  <2>2. h[k - 1] \in M
    BY <1>4, <2>1
  <2>3. g[k] = [m \in M |-> Step(f, m, comps[k])]
    OBVIOUS
  <2>4. h[k] = g[k][h[k - 1]]
    BY <1>3 DEF Iterates
  <2> HIDE DEF g, M
  <2> QED BY <2>2, <2>3, <2>4
<1>6. Rec(h)
  <2> HIDE DEF M
  <2>1. \A k \in 0 .. N : h[k] = IF k = 0 THEN a ELSE Step(f, h[k - 1], comps[k])
    BY <1>4, <1>5
  <2> QED BY <1>4, <2>1
<1>7. Rec(Way(f, a, comps, N))
  <2>1. Way(f, a, comps, N) = CHOOSE u : Rec(u)
    BY DEF Way
  <2> HIDE DEF Rec
  <2> QED BY <1>6, <2>1
<1> DEFINE u == Way(f, a, comps, N)
           T == {k \in 0 .. N : u[k] \in M}
<1> HIDE DEF M, u
<1>8. u = [k \in 0 .. N |-> IF k = 0 THEN a ELSE Step(f, u[k - 1], comps[k])]
  BY <1>7 DEF u
<1>9. u[0] = a /\ (\A k \in 1 .. N : u[k] = Step(f, u[k - 1], comps[k]))
      /\ u = [k \in 0 .. N |-> u[k]]
  <2>1. ASSUME NEW k \in 0 .. N
        PROVE  u[k] = IF k = 0 THEN a ELSE Step(f, u[k - 1], comps[k])
    BY <1>8
  <2>2. u = [k \in 0 .. N |-> u[k]]
    BY <1>8
  <2>3. u[0] = a
    BY <2>1
  <2>4. ASSUME NEW k \in 1 .. N PROVE u[k] = Step(f, u[k - 1], comps[k])
    <3>1. k \in 0 .. N /\ k # 0
      OBVIOUS
    <3> QED BY <2>1, <3>1
  <2> QED BY <2>2, <2>3, <2>4
<1>10. 0 \in T
  BY <1>9 DEF M
<1>11. ASSUME NEW k \in 1 .. N, k - 1 \in T PROVE k \in T
  <2>1. u[k - 1] \in M
    BY <1>11
  <2>2. u[k] \in M
    BY <1>1, <1>9, <2>1
  <2> QED BY <2>2
<1>12. \A k \in 0 .. N : k \in T
  <2> HIDE DEF T
  <2> QED BY <1>10, <1>11, Induct
<1>13. u \in [0 .. N -> M]
  BY <1>9, <1>12
<1> QED BY <1>9, <1>13 DEF u, M

LEMMA ResolveIs ==
  ASSUME NEW f \in FsType, NEW start \in Node, NEW path, Len(path.comps) \in Nat
  PROVE  ResolveFrom(f, start, path) \in Node \cup {NoNode}
<1> DEFINE a == IF path.abs THEN ROOT ELSE start
<1>1. a \in Node
  BY NodeFacts
<1>2. ResolveFrom(f, start, path) = Way(f, a, path.comps, Len(path.comps))[Len(path.comps)]
  BY DEF ResolveFrom, Way
<1> HIDE DEF a
<1>3. \A N \in Nat : Way(f, a, path.comps, N)[N] \in Node \cup {NoNode}
  BY <1>1, WayIs
<1> QED BY <1>2, <1>3

-----------------------------------------------------------------------------
(* The invariant of the file system, as a predicate of one *)

(* Blocks lie below next, apart from one another, and hold what was written *)
Contents(f) ==
  \A n \in Node : f.nodes[n].kind = "File" =>
    /\ f.nodes[n].len <= f.nodes[n].cap
    /\ f.nodes[n].off + f.nodes[n].cap <= f.next
    /\ Len(f.stored[n]) = f.nodes[n].len
    /\ \A i \in 1 .. f.nodes[n].len : f.data[f.nodes[n].off + i - 1] = f.stored[n][i]

Apart(f) ==
  \A n, m \in Node : (n # m /\ f.nodes[n].kind = "File" /\ f.nodes[m].kind = "File") =>
    \/ f.nodes[n].off + f.nodes[n].cap <= f.nodes[m].off
    \/ f.nodes[m].off + f.nodes[m].cap <= f.nodes[n].off

(* Parents are directories, and siblings have names of their own *)
Linked(f) ==
  /\ f.nodes[ROOT].kind = "Dir" /\ f.nodes[ROOT].parent = ROOT
  /\ \A n \in Node : f.nodes[n].kind # "Free" => f.nodes[f.nodes[n].parent].kind = "Dir"
  /\ \A n \in Node \ {ROOT} : f.nodes[n].kind # "Free" => f.nodes[n].name \in Component
  /\ \A n, m \in Node \ {ROOT} :
       (/\ f.nodes[n].kind # "Free" /\ f.nodes[m].kind # "Free"
        /\ f.nodes[n].parent = f.nodes[m].parent /\ f.nodes[n].name = f.nodes[m].name) => n = m

(* The nodes can be numbered so that parents come first: there is no cycle, *)
(* and no way to the root longer than the number of nodes                   *)
Order(f, ord) ==
  /\ ord \in [Node -> Node]
  /\ \A n, m \in Node : ord[n] = ord[m] => n = m
  /\ \A n \in Node \ {ROOT} : f.nodes[n].kind # "Free" => ord[f.nodes[n].parent] < ord[n]

FsInv(f) == f \in FsType /\ Contents(f) /\ Apart(f) /\ Linked(f) /\ \E ord : Order(f, ord)

LEMMA PoolFacts == DATA_POOL \in Nat
  BY RamfsAssumption

LEMMA TypeFacts ==
  ASSUME NEW f \in FsType, NEW n \in Node
  PROVE  /\ f.nodes[n].kind \in {"Free", "Dir", "File"} /\ f.nodes[n].parent \in Node
         /\ f.nodes[n].off \in Nat /\ f.nodes[n].len \in Nat /\ f.nodes[n].cap \in Nat
         /\ f.nodes[n].len <= DATA_POOL
         /\ f.next \in Nat /\ f.next <= DATA_POOL /\ f.stored[n] \in Seq(Byte)
<1>1. f.nodes[n] \in NodeType /\ f.next \in 0 .. DATA_POOL /\ f.stored[n] \in Seq(Byte)
  BY DEF FsType
<1>2. /\ f.nodes[n].kind \in {"Free", "Dir", "File"} /\ f.nodes[n].parent \in Node
      /\ f.nodes[n].off \in 0 .. DATA_POOL /\ f.nodes[n].len \in 0 .. DATA_POOL
      /\ f.nodes[n].cap \in 0 .. DATA_POOL
  BY <1>1 DEF NodeType
<1> QED BY <1>1, <1>2, PoolFacts

(* SetNode, and what it leaves alone *)
LEMMA SetNodeIs ==
  ASSUME NEW f \in FsType, NEW n \in Node, NEW node \in NodeType
  PROVE  /\ SetNode(f, n, node) \in FsType
         /\ SetNode(f, n, node).nodes[n] = node
         /\ \A m \in Node \ {n} : /\ SetNode(f, n, node).nodes[m] = f.nodes[m]
                                  /\ SetNode(f, n, node).stored[m] = f.stored[m]
         /\ SetNode(f, n, node).stored[n] = <<>>
         /\ SetNode(f, n, node).data = f.data /\ SetNode(f, n, node).next = f.next
<1> DEFINE g == SetNode(f, n, node)
<1>1. g = [f EXCEPT !.nodes[n] = node, !.stored[n] = <<>>]
  BY DEF SetNode
<1>2. <<>> \in Seq(Byte)
  OBVIOUS
<1>3. /\ g.nodes = [f.nodes EXCEPT ![n] = node] /\ g.stored = [f.stored EXCEPT ![n] = <<>>]
      /\ g.data = f.data /\ g.next = f.next
  BY <1>1 DEF FsType
<1>4. g \in FsType
  <2>1. g = [nodes |-> g.nodes, data |-> g.data, next |-> g.next, stored |-> g.stored]
    BY <1>1 DEF FsType
  <2>2. g.nodes \in [Node -> NodeType] /\ g.stored \in [Node -> Seq(Byte)]
    BY <1>2, <1>3 DEF FsType
  <2> HIDE DEF g
  <2> QED BY <1>3, <2>1, <2>2 DEF FsType
<1> HIDE DEF g
<1>5. /\ g.nodes[n] = node /\ g.stored[n] = <<>>
      /\ \A m \in Node \ {n} : g.nodes[m] = f.nodes[m] /\ g.stored[m] = f.stored[m]
  BY <1>3 DEF FsType
<1> QED BY <1>3, <1>4, <1>5 DEF g

(* mkdir and create_file: a free node becomes a child of d *)
LEMMA AddKeeps ==
  ASSUME NEW f, FsInv(f), NEW n \in Node \ {ROOT}, f.nodes[n].kind = "Free",
         NEW d \in Node, f.nodes[d].kind = "Dir",
         NEW kind \in {"Dir", "File"}, NEW name \in Component, FindChild(f, d, name) = NoNode
  PROVE  FsInv(SetNode(f, n, MkNode(kind, name, d)))
<1> DEFINE node == MkNode(kind, name, d)
           g == SetNode(f, n, node)
<1>1. f \in FsType
  BY DEF FsInv
<1>2. node \in NodeType /\ node.kind = kind /\ node.name = name /\ node.parent = d
      /\ node.off = 0 /\ node.len = 0 /\ node.cap = 0
  <2>1. 0 \in 0 .. DATA_POOL
    BY PoolFacts
  <2> QED BY <2>1 DEF MkNode, NodeType
<1> HIDE DEF node
<1>3. /\ g \in FsType /\ g.nodes[n] = node /\ g.stored[n] = <<>>
      /\ \A m \in Node \ {n} : g.nodes[m] = f.nodes[m] /\ g.stored[m] = f.stored[m]
      /\ g.data = f.data /\ g.next = f.next
  BY <1>1, <1>2, SetNodeIs
<1> HIDE DEF g
<1>4. Contents(g)
  <2>1. ASSUME NEW m \in Node, g.nodes[m].kind = "File", m # n
        PROVE  /\ g.nodes[m].len <= g.nodes[m].cap
               /\ g.nodes[m].off + g.nodes[m].cap <= g.next
               /\ Len(g.stored[m]) = g.nodes[m].len
               /\ \A i \in 1 .. g.nodes[m].len : g.data[g.nodes[m].off + i - 1] = g.stored[m][i]
    BY <1>3, <2>1 DEF Contents, FsInv
  <2>2. /\ g.nodes[n].len <= g.nodes[n].cap /\ g.nodes[n].off + g.nodes[n].cap <= g.next
        /\ Len(g.stored[n]) = g.nodes[n].len
        /\ \A i \in 1 .. g.nodes[n].len : g.data[g.nodes[n].off + i - 1] = g.stored[n][i]
    <3>1. g.next \in Nat
      BY <1>3, TypeFacts
    <3> QED BY <1>2, <1>3, <3>1
  <2> QED BY <2>1, <2>2 DEF Contents
<1>5. Apart(g)
  <2>1. \A m \in Node : g.nodes[m].off \in Nat
    BY <1>3, TypeFacts
  <2>2. ASSUME NEW a \in Node, NEW b \in Node, a # b, g.nodes[a].kind = "File", g.nodes[b].kind = "File"
        PROVE  \/ g.nodes[a].off + g.nodes[a].cap <= g.nodes[b].off
               \/ g.nodes[b].off + g.nodes[b].cap <= g.nodes[a].off
    <3>1. CASE a = n
      <4>1. g.nodes[a].off + g.nodes[a].cap = 0
        BY <3>1, <1>2, <1>3
      <4> QED BY <4>1, <2>1
    <3>2. CASE b = n
      <4>1. g.nodes[b].off + g.nodes[b].cap = 0
        BY <3>2, <1>2, <1>3
      <4> QED BY <4>1, <2>1
    <3>3. CASE a # n /\ b # n
      BY <3>3, <1>3, <2>2 DEF FsInv, Apart
    <3> QED BY <3>1, <3>2, <3>3
  <2> QED BY <2>2 DEF Apart
<1>6. d # n /\ ROOT # n
  OBVIOUS
<1>7. Linked(g)
  <2>0. Linked(f)
    BY DEF FsInv
  <2>1. g.nodes[ROOT].kind = "Dir" /\ g.nodes[ROOT].parent = ROOT
    BY <1>3, <1>6, <2>0, NodeFacts DEF Linked
  <2>2. ASSUME NEW m \in Node, g.nodes[m].kind # "Free"
        PROVE  g.nodes[g.nodes[m].parent].kind = "Dir"
    <3>1. CASE m = n
      BY <3>1, <1>2, <1>3, <1>6
    <3>2. CASE m # n
      <4>1. f.nodes[f.nodes[m].parent].kind = "Dir" /\ f.nodes[m].parent \in Node
        BY <3>2, <1>1, <1>3, <2>2, <2>0, TypeFacts DEF Linked
      <4>2. f.nodes[m].parent # n
        BY <4>1
      <4> QED BY <3>2, <4>1, <4>2, <1>3
    <3> QED BY <3>1, <3>2
  <2>3. \A m \in Node \ {ROOT} : g.nodes[m].kind # "Free" => g.nodes[m].name \in Component
    BY <1>2, <1>3, <2>0 DEF Linked
  <2>4. \A m \in Children(f, d) : f.nodes[m].name # name
    BY FindChildIs
  <2>5. ASSUME NEW m \in Node \ {ROOT}, m # n, f.nodes[m].kind # "Free", f.nodes[m].parent = d
        PROVE  f.nodes[m].name # name
    <3>1. m # d
      <4>1. PICK ord : Order(f, ord)
        BY DEF FsInv
      <4>2. ord[f.nodes[m].parent] < ord[m] /\ ord[m] \in Nat
        BY <2>5, <4>1, NodeFacts DEF Order
      <4> QED BY <2>5, <4>2
    <3>2. m \in Children(f, d)
      BY <2>5, <3>1 DEF Children
    <3> QED BY <2>4, <3>2
  <2>6. ASSUME NEW a \in Node \ {ROOT}, NEW b \in Node \ {ROOT},
               g.nodes[a].kind # "Free", g.nodes[b].kind # "Free",
               g.nodes[a].parent = g.nodes[b].parent, g.nodes[a].name = g.nodes[b].name, a # b
        PROVE  FALSE
    <3>1. CASE a = n
      BY <3>1, <2>6, <2>5, <1>2, <1>3
    <3>2. CASE b = n
      BY <3>2, <2>6, <2>5, <1>2, <1>3
    <3>3. CASE a # n /\ b # n
      BY <3>3, <2>6, <2>0, <1>3 DEF Linked
    <3> QED BY <3>1, <3>2, <3>3
  <2> QED BY <2>1, <2>2, <2>3, <2>6 DEF Linked
<1>8. \E ord : Order(g, ord)
  <2>1. PICK ord : Order(f, ord)
    BY DEF FsInv
  <2> DEFINE o == [m \in Node |-> IF m = n THEN MAX_NODES - 1
                                  ELSE IF ord[m] > ord[n] THEN ord[m] - 1 ELSE ord[m]]
  <2>2. \A m \in Node : ord[m] \in Nat /\ ord[m] <= MAX_NODES - 1 /\ ord[m] \in Node
    BY <2>1, NodeFacts DEF Order, Node
  <2>3. o \in [Node -> Node]
    BY <2>2, NodeFacts DEF Node
  <2>4. \A a, b \in Node : o[a] = o[b] => a = b
    <3>1. \A a, b \in Node : ord[a] = ord[b] => a = b
      BY <2>1 DEF Order
    <3>2. \A a \in Node \ {n} : ord[a] # ord[n] /\ o[a] < MAX_NODES - 1
      BY <2>2, <3>1, NodeFacts
    <3> QED BY <2>2, <3>1, <3>2, NodeFacts
  <2>5. ASSUME NEW m \in Node \ {ROOT}, g.nodes[m].kind # "Free"
        PROVE  o[g.nodes[m].parent] < o[m]
    <3>1. CASE m = n
      <4>1. ord[d] # ord[n]
        BY <1>6, <2>1 DEF Order
      <4>2. o[n] = MAX_NODES - 1 /\ o[d] < MAX_NODES - 1
        BY <4>1, <1>6, <2>2, NodeFacts
      <4>3. g.nodes[m].parent = d
        BY <3>1, <1>2, <1>3
      <4> HIDE DEF o
      <4> QED BY <3>1, <4>2, <4>3
    <3>2. CASE m # n
      <4>1. g.nodes[m] = f.nodes[m]
        BY <3>2, <1>3
      <4>2. ord[f.nodes[m].parent] < ord[m] /\ f.nodes[m].parent \in Node
        BY <2>1, <2>5, <4>1, <1>1, TypeFacts DEF Order
      <4>3. f.nodes[m].parent # n
        BY <2>5, <4>1, <1>1 DEF FsInv, Linked
      <4>4. ord[m] # ord[n] /\ ord[f.nodes[m].parent] # ord[n]
        BY <2>1, <3>2, <4>2, <4>3 DEF Order
      <4> QED BY <3>2, <4>1, <4>2, <4>3, <4>4, <2>2
    <3> QED BY <3>1, <3>2
  <2> HIDE DEF o
  <2>6. Order(g, o)
    BY <2>3, <2>4, <2>5 DEF Order
  <2> QED BY <2>6
<1> QED BY <1>3, <1>4, <1>5, <1>7, <1>8 DEF FsInv, g, node

(* unlink and rm_recursive: the nodes of R become free *)
LEMMA ClearKeeps ==
  ASSUME NEW f, FsInv(f), NEW R \in SUBSET (Node \ {ROOT}), NEW g \in FsType,
         \A n \in R : g.nodes[n].kind = "Free",
         \A n \in Node \ R : g.nodes[n] = f.nodes[n] /\ g.stored[n] = f.stored[n],
         g.data = f.data, g.next = f.next,
         \A n \in Node \ R : f.nodes[n].kind # "Free" => f.nodes[n].parent \notin R
  PROVE  FsInv(g)
<1>0. f \in FsType /\ Contents(f) /\ Apart(f) /\ Linked(f)
  BY DEF FsInv
<1>1. \A n \in Node : g.nodes[n].kind # "Free" =>
        n \notin R /\ g.nodes[n] = f.nodes[n] /\ g.stored[n] = f.stored[n]
  OBVIOUS
<1>2. Contents(g)
  <2> SUFFICES ASSUME NEW n \in Node, g.nodes[n].kind = "File"
               PROVE  /\ g.nodes[n].len <= g.nodes[n].cap
                      /\ g.nodes[n].off + g.nodes[n].cap <= g.next
                      /\ Len(g.stored[n]) = g.nodes[n].len
                      /\ \A i \in 1 .. g.nodes[n].len :
                           g.data[g.nodes[n].off + i - 1] = g.stored[n][i]
    BY DEF Contents
  <2>1. g.nodes[n] = f.nodes[n] /\ g.stored[n] = f.stored[n] /\ f.nodes[n].kind = "File"
    BY <1>1
  <2> QED BY <1>0, <2>1 DEF Contents
<1>3. Apart(g)
  BY <1>0, <1>1 DEF Apart
<1>4. Linked(g)
  <2>1. g.nodes[ROOT] = f.nodes[ROOT]
    BY NodeFacts
  <2>2. ASSUME NEW n \in Node, g.nodes[n].kind # "Free"
        PROVE  g.nodes[g.nodes[n].parent].kind = "Dir"
    <3>1. f.nodes[n].parent \in Node \ R /\ f.nodes[f.nodes[n].parent].kind = "Dir"
      BY <1>0, <1>1, <2>2, TypeFacts DEF Linked
    <3> QED BY <1>1, <2>2, <3>1
  <2>3. \A n \in Node \ {ROOT} : g.nodes[n].kind # "Free" => g.nodes[n].name \in Component
    BY <1>0, <1>1 DEF Linked
  <2>4. \A n, m \in Node \ {ROOT} :
          (/\ g.nodes[n].kind # "Free" /\ g.nodes[m].kind # "Free"
           /\ g.nodes[n].parent = g.nodes[m].parent /\ g.nodes[n].name = g.nodes[m].name) => n = m
    BY <1>0, <1>1 DEF Linked
  <2> QED BY <1>0, <2>1, <2>2, <2>3, <2>4 DEF Linked
<1>5. \E ord : Order(g, ord)
  <2>1. PICK ord : Order(f, ord)
    BY DEF FsInv
  <2>2. Order(g, ord)
    BY <2>1, <1>1 DEF Order
  <2> QED BY <2>2
<1> QED BY <1>2, <1>3, <1>4, <1>5 DEF FsInv

LEMMA EmptyNodeIs == EmptyNode \in NodeType /\ EmptyNode.kind = "Free"
<1>1. 0 \in 0 .. DATA_POOL /\ 0 \in Node
  BY PoolFacts, NodeFacts DEF ROOT
<1> QED BY <1>1 DEF EmptyNode, MkNode, NodeType

LEMMA UnlinkKeeps ==
  ASSUME NEW f, FsInv(f), NEW n \in Node
  PROVE  /\ FsInv(FsUnlink(f, n))
         /\ \A m \in Node : f.nodes[m].kind \in {"File", "Free"} =>
              FsUnlink(f, n).nodes[m].kind \in {"File", "Free"}
<1> DEFINE g == FsUnlink(f, n)
<1>0. f \in FsType /\ Linked(f)
  BY DEF FsInv
<1>1. CASE n = ROOT \/ f.nodes[n].kind = "Free" \/ (f.nodes[n].kind = "Dir" /\ Children(f, n) # {})
  <2>1. g = f
    BY <1>1 DEF FsUnlink
  <2> QED BY <2>1
<1>2. CASE n # ROOT /\ f.nodes[n].kind # "Free" /\ ~(f.nodes[n].kind = "Dir" /\ Children(f, n) # {})
  <2>1. g = SetNode(f, n, EmptyNode)
    BY <1>2 DEF FsUnlink
  <2> HIDE DEF g
  <2>2. /\ g \in FsType /\ g.nodes[n].kind = "Free"
        /\ \A m \in Node \ {n} : g.nodes[m] = f.nodes[m] /\ g.stored[m] = f.stored[m]
        /\ g.data = f.data /\ g.next = f.next
    BY <1>0, <2>1, EmptyNodeIs, SetNodeIs
  <2>3. ASSUME NEW m \in Node \ {n}, f.nodes[m].kind # "Free", f.nodes[m].parent = n
        PROVE  FALSE
    <3>1. f.nodes[n].kind = "Dir"
      BY <2>3, <1>0 DEF Linked
    <3>2. m \in Children(f, n)
      BY <2>3 DEF Children
    <3> QED BY <1>2, <3>1, <3>2
  <2>4. FsInv(g)
    <3> DEFINE R == {n}
    <3>1. /\ R \in SUBSET (Node \ {ROOT}) /\ (\A m \in R : g.nodes[m].kind = "Free")
          /\ \A m \in Node \ R : g.nodes[m] = f.nodes[m] /\ g.stored[m] = f.stored[m]
      BY <1>2, <2>2
    <3>2. \A m \in Node \ R : f.nodes[m].kind # "Free" => f.nodes[m].parent \notin R
      BY <2>3
    <3> HIDE DEF R
    <3> QED BY <3>1, <3>2, <2>2, ClearKeeps
  <2> QED BY <2>2, <2>4 DEF g
<1> QED BY <1>1, <1>2

(* Following the parents leads down in the order, to the root *)
LEMMA UpDescends ==
  ASSUME NEW f \in FsType, Linked(f), NEW ord, Order(f, ord),
         NEW n \in Node, f.nodes[n].kind # "Free"
  PROVE  \A k \in 0 .. MAX_NODES :
           /\ f.nodes[Up(f, n)[k]].kind # "Free"
           /\ Up(f, n)[k] = ROOT \/ ord[Up(f, n)[k]] + k <= ord[n]
<1> DEFINE u == Up(f, n)
           T == {k \in 0 .. MAX_NODES : /\ f.nodes[u[k]].kind # "Free"
                                        /\ u[k] = ROOT \/ ord[u[k]] + k <= ord[n]}
<1>0. u \in [0 .. MAX_NODES -> Node] /\ u[0] = n
      /\ \A k \in 1 .. MAX_NODES : u[k] = f.nodes[u[k - 1]].parent
  BY UpIs
<1> HIDE DEF u
<1>1. \A m \in Node : ord[m] \in Nat
  BY NodeFacts DEF Order
<1>2. 0 \in T
  BY <1>0, <1>1, NodeFacts
<1>3. ASSUME NEW k \in 1 .. MAX_NODES, k - 1 \in T PROVE k \in T
  <2>1. k \in 0 .. MAX_NODES /\ k - 1 \in 0 .. MAX_NODES /\ k \in Nat
    BY NodeFacts
  <2>2. u[k] = f.nodes[u[k - 1]].parent /\ u[k] \in Node /\ u[k - 1] \in Node
    BY <1>0, <2>1
  <2>3. f.nodes[u[k - 1]].kind # "Free" /\ (u[k - 1] = ROOT \/ ord[u[k - 1]] + (k - 1) <= ord[n])
    BY <1>3
  <2>4. f.nodes[u[k]].kind = "Dir"
    BY <2>2, <2>3 DEF Linked
  <2>5. CASE u[k - 1] = ROOT
    <3>1. u[k] = ROOT
      BY <2>2, <2>5 DEF Linked
    <3> QED BY <2>1, <2>4, <3>1
  <2>6. CASE u[k - 1] # ROOT
    <3>1. ord[u[k]] < ord[u[k - 1]]
      BY <2>2, <2>3, <2>6 DEF Order
    <3>2. ord[u[k]] + k <= ord[n]
      BY <1>1, <2>1, <2>2, <2>3, <2>6, <3>1
    <3> QED BY <2>1, <2>4, <3>2
  <2> QED BY <2>5, <2>6
<1>4. \A k \in 0 .. MAX_NODES : k \in T
  <2> HIDE DEF T
  <2> QED BY <1>2, <1>3, Induct, NodeFacts
<1> QED BY <1>4 DEF u

LEMMA ReachesRoot ==
  ASSUME NEW f, FsInv(f), NEW n \in Node, f.nodes[n].kind # "Free"
  PROVE  Up(f, n)[MAX_NODES - 1] = ROOT /\ Up(f, n)[MAX_NODES] = ROOT /\ ROOT \in Ancestors(f, n)
<1>0. f \in FsType /\ Linked(f)
  BY DEF FsInv
<1>1. PICK ord : Order(f, ord)
  BY DEF FsInv
<1> DEFINE x == Up(f, n)[MAX_NODES - 1]
<1>2. MAX_NODES - 1 \in 0 .. MAX_NODES /\ MAX_NODES \in 0 .. MAX_NODES /\ MAX_NODES \in 1 .. MAX_NODES
  BY NodeFacts
<1>3. x \in Node /\ f.nodes[x].kind # "Free" /\ (x = ROOT \/ ord[x] + (MAX_NODES - 1) <= ord[n])
  BY <1>0, <1>1, <1>2, UpDescends, UpIs
<1> HIDE DEF x
<1>4. x = ROOT
  <2> SUFFICES ASSUME x # ROOT PROVE FALSE
    OBVIOUS
  <2>1. ord[x] \in Nat /\ ord[n] <= MAX_NODES - 1 /\ ord[n] \in Nat
    BY <1>1, <1>3, NodeFacts DEF Order, Node
  <2>2. ord[f.nodes[x].parent] < ord[x] /\ ord[f.nodes[x].parent] \in Nat
    BY <1>0, <1>1, <1>3, NodeFacts, TypeFacts DEF Order
  <2> QED BY <1>3, <2>1, <2>2, NodeFacts
<1>5. Up(f, n)[MAX_NODES] = ROOT
  BY <1>0, <1>2, <1>4, UpIs DEF x, Linked
<1> QED BY <1>2, <1>4, <1>5 DEF x, Ancestors

LEMMA UpShift ==
  ASSUME NEW f \in FsType, NEW m \in Node
  PROVE  \A k \in 0 .. MAX_NODES - 1 : Up(f, m)[k + 1] = Up(f, f.nodes[m].parent)[k]
<1> DEFINE u == Up(f, m)
           v == Up(f, f.nodes[m].parent)
           T == {k \in 0 .. MAX_NODES - 1 : u[k + 1] = v[k]}
<1>0. f.nodes[m].parent \in Node
  BY TypeFacts
<1>1. u[0] = m /\ \A k \in 1 .. MAX_NODES : u[k] = f.nodes[u[k - 1]].parent
  BY UpIs
<1>2. v[0] = f.nodes[m].parent /\ \A k \in 1 .. MAX_NODES : v[k] = f.nodes[v[k - 1]].parent
  BY <1>0, UpIs
<1> HIDE DEF u, v
<1>3. 0 \in T
  <2>1. 1 \in 1 .. MAX_NODES /\ 0 \in 0 .. MAX_NODES - 1
    BY NodeFacts
  <2>2. u[1] = f.nodes[u[1 - 1]].parent
    BY <1>1, <2>1
  <2> QED BY <1>1, <1>2, <2>1, <2>2
<1>4. ASSUME NEW k \in 1 .. MAX_NODES - 1, k - 1 \in T PROVE k \in T
  <2>1. k \in 1 .. MAX_NODES /\ k + 1 \in 1 .. MAX_NODES /\ k \in 0 .. MAX_NODES - 1
        /\ (k + 1) - 1 = k /\ (k - 1) + 1 = k
    BY NodeFacts
  <2>2. u[k + 1] = f.nodes[u[(k + 1) - 1]].parent /\ v[k] = f.nodes[v[k - 1]].parent
    BY <1>1, <1>2, <2>1
  <2>3. u[(k - 1) + 1] = v[k - 1]
    BY <1>4
  <2>4. u[k] = v[k - 1]
    BY <2>1, <2>3
  <2>5. u[k + 1] = f.nodes[u[k]].parent
    BY <2>1, <2>2
  <2> QED BY <2>1, <2>2, <2>4, <2>5
<1>5. \A k \in 0 .. MAX_NODES - 1 : k \in T
  <2>1. MAX_NODES - 1 \in Nat
    BY NodeFacts
  <2> HIDE DEF T
  <2> QED BY <1>3, <1>4, <2>1, Induct
<1> QED BY <1>5 DEF u, v

LEMMA RmRecursiveKeeps ==
  ASSUME NEW f, FsInv(f), NEW d \in Node
  PROVE  /\ FsInv(RmRecursive(f, d))
         /\ \A m \in Node : f.nodes[m].kind = "File" =>
              RmRecursive(f, d).nodes[m].kind \in {"File", "Free"}
<1> DEFINE R == {n \in Node \ {d, ROOT} : f.nodes[n].kind # "Free" /\ d \in Ancestors(f, n)}
           nodes == [n \in Node |-> IF n \in R THEN EmptyNode ELSE f.nodes[n]]
           stored == [n \in Node |-> IF n \in R THEN <<>> ELSE f.stored[n]]
           g == RmRecursive(f, d)
<1>0. f \in FsType /\ Linked(f)
  BY DEF FsInv
<1>1. PICK ord : Order(f, ord)
  BY DEF FsInv
<1>2. g = [f EXCEPT !.nodes = nodes, !.stored = stored]
  BY DEF RmRecursive
<1>3. R \in SUBSET (Node \ {ROOT})
  OBVIOUS
<1>4. nodes \in [Node -> NodeType] /\ stored \in [Node -> Seq(Byte)]
  <2> HIDE DEF R
  <2>1. <<>> \in Seq(Byte)
    OBVIOUS
  <2> QED BY <1>0, <2>1, EmptyNodeIs DEF FsType
<1>5. /\ \A n \in R : nodes[n].kind = "Free"
      /\ \A n \in Node \ R : nodes[n] = f.nodes[n] /\ stored[n] = f.stored[n]
  <2> HIDE DEF R
  <2> QED BY <1>3, EmptyNodeIs
<1> HIDE DEF nodes, stored
<1>6. /\ g.nodes = nodes /\ g.stored = stored /\ g.data = f.data /\ g.next = f.next
      /\ g = [nodes |-> nodes, data |-> f.data, next |-> f.next, stored |-> stored]
  <2> HIDE DEF g
  <2>1. g.nodes = nodes /\ g.stored = stored /\ g.data = f.data /\ g.next = f.next
    BY <1>0, <1>2 DEF FsType
  <2>2. g = [nodes |-> g.nodes, data |-> g.data, next |-> g.next, stored |-> g.stored]
    BY <1>0, <1>2 DEF FsType
  <2> QED BY <2>1, <2>2
<1>7. g \in FsType
  <2> HIDE DEF g
  <2> QED BY <1>0, <1>4, <1>6 DEF FsType
<1>8. ASSUME NEW m \in Node \ R, f.nodes[m].kind # "Free", f.nodes[m].parent \in R PROVE FALSE
  <2> DEFINE p == f.nodes[m].parent
  <2>1. p \in Node /\ p # d /\ p # ROOT /\ d \in Ancestors(f, p) /\ f.nodes[p].kind # "Free"
    BY <1>8
  <2>2. PICK k \in 0 .. MAX_NODES : d = Up(f, p)[k]
    BY <2>1 DEF Ancestors
  <2> HIDE DEF p
  <2>3. m # ROOT
    BY <2>1, <1>0 DEF Linked, p
  <2>4. m # d
    <3> SUFFICES ASSUME m = d PROVE FALSE
      OBVIOUS
    <3>1. Up(f, p)[k] = ROOT \/ ord[Up(f, p)[k]] + k <= ord[p]
      BY <1>0, <1>1, <2>1, UpDescends
    <3>2. ord[p] < ord[d]
      BY <1>1, <1>8, <2>3 DEF Order, p
    <3>3. ord[p] \in Nat /\ ord[d] \in Nat
      BY <1>1, <2>1, NodeFacts DEF Order
    <3>4. k \in Nat
      BY NodeFacts
    <3> QED BY <2>2, <2>3, <3>1, <3>2, <3>3, <3>4
  <2>5. PICK j \in 0 .. MAX_NODES - 1 : d = Up(f, p)[j]
    <3>1. CASE k = MAX_NODES
      <4>1. Up(f, p)[MAX_NODES - 1] = Up(f, p)[k]
        BY <2>1, <3>1, ReachesRoot
      <4>2. MAX_NODES - 1 \in 0 .. MAX_NODES - 1
        BY NodeFacts
      <4> QED BY <2>2, <4>1, <4>2
    <3>2. CASE k # MAX_NODES
      <4>1. k \in 0 .. MAX_NODES - 1
        BY <3>2, NodeFacts
      <4> QED BY <2>2, <4>1
    <3> QED BY <3>1, <3>2
  <2>6. d = Up(f, m)[j + 1] /\ j + 1 \in 0 .. MAX_NODES
    <3>1. Up(f, m)[j + 1] = Up(f, f.nodes[m].parent)[j]
      BY <1>0, UpShift
    <3> QED BY <2>5, <3>1, NodeFacts DEF p
  <2>7. d \in Ancestors(f, m)
    BY <2>6 DEF Ancestors
  <2> QED BY <1>8, <2>3, <2>4, <2>7
<1> HIDE DEF R, g
<1>9. FsInv(g)
  <2>1. \A n \in R : g.nodes[n].kind = "Free"
    BY <1>5, <1>6
  <2>2. \A n \in Node \ R : g.nodes[n] = f.nodes[n] /\ g.stored[n] = f.stored[n]
    BY <1>5, <1>6
  <2>3. \A n \in Node \ R : f.nodes[n].kind # "Free" => f.nodes[n].parent \notin R
    BY <1>8
  <2>4. g.data = f.data /\ g.next = f.next
    BY <1>6
  <2> QED BY <1>3, <1>7, <2>1, <2>2, <2>3, <2>4, ClearKeeps
<1>10. \A m \in Node : f.nodes[m].kind = "File" => g.nodes[m].kind \in {"File", "Free"}
  BY <1>3, <1>5, <1>6
<1> QED BY <1>9, <1>10 DEF g

(* What is read from a file is what was last written to it *)
LEMMA ReadIs ==
  ASSUME NEW f, FsInv(f), NEW n \in Node
  PROVE  /\ FsRead(f, n) \in Seq(Byte)
         /\ Len(FsRead(f, n)) <= f.nodes[n].len
         /\ f.nodes[n].kind = "File" => FsRead(f, n) = f.stored[n]
<1>0. f \in FsType /\ Contents(f)
  BY DEF FsInv
<1>1. f.nodes[n].len \in Nat /\ f.stored[n] \in Seq(Byte)
  BY <1>0, TypeFacts
<1>2. CASE f.nodes[n].kind # "File"
  <2>1. FsRead(f, n) = <<>>
    BY <1>2 DEF FsRead
  <2> QED BY <1>1, <1>2, <2>1
<1>3. CASE f.nodes[n].kind = "File"
  <2> DEFINE r == FsRead(f, n)
             len == f.nodes[n].len
             off == f.nodes[n].off
             st == f.stored[n]
  <2>1. r = [i \in 1 .. len |-> f.data[off + i - 1]]
    BY <1>3 DEF FsRead, Get
  <2>2. Len(st) = len /\ \A i \in 1 .. len : f.data[off + i - 1] = st[i]
    BY <1>0, <1>3 DEF Contents
  <2> HIDE DEF r, len, off, st
  <2>3. st \in Seq(Byte) /\ len \in Nat
    BY <1>1 DEF st, len
  <2>4. r = [i \in 1 .. len |-> st[i]]
    BY <2>1, <2>2
  <2>5. st \in [1 .. len -> Byte]
    BY <2>2, <2>3
  <2>6. r = st
    BY <2>4, <2>5
  <2> QED BY <2>2, <2>3, <2>6 DEF r, len, st
<1> QED BY <1>2, <1>3

LEMMA PutIs ==
  ASSUME NEW data \in [0 .. DATA_POOL - 1 -> Byte], NEW off \in Nat, NEW text \in Seq(Byte),
         off + Len(text) <= DATA_POOL
  PROVE  /\ Put(data, off, text) \in [0 .. DATA_POOL - 1 -> Byte]
         /\ \A j \in 0 .. DATA_POOL - 1 :
              (j < off \/ off + Len(text) <= j) => Put(data, off, text)[j] = data[j]
         /\ \A i \in 1 .. Len(text) : Put(data, off, text)[off + i - 1] = text[i]
<1> DEFINE len == Len(text)
           p == Put(data, off, text)
<1>0. len \in Nat /\ DATA_POOL \in Nat /\ \A i \in 1 .. len : text[i] \in Byte
  BY PoolFacts
<1>1. p = [i \in 0 .. DATA_POOL - 1 |-> IF i \in off .. off + len - 1
                                        THEN text[i - off + 1] ELSE data[i]]
  BY DEF Put
<1> HIDE DEF p, len
<1>2. ASSUME NEW j \in 0 .. DATA_POOL - 1 PROVE p[j] \in Byte
  <2>1. CASE j \in off .. off + len - 1
    <3>1. j - off + 1 \in 1 .. len
      BY <1>0, <2>1
    <3> QED BY <1>0, <1>1, <2>1, <3>1
  <2>2. CASE j \notin off .. off + len - 1
    BY <1>1, <2>2
  <2> QED BY <2>1, <2>2
<1>3. ASSUME NEW j \in 0 .. DATA_POOL - 1, j < off \/ off + len <= j PROVE p[j] = data[j]
  <2>1. j \notin off .. off + len - 1
    BY <1>0, <1>3
  <2> QED BY <1>1, <2>1
<1>4. ASSUME NEW i \in 1 .. len PROVE p[off + i - 1] = text[i]
  <2>1. /\ off + i - 1 \in 0 .. DATA_POOL - 1 /\ off + i - 1 \in off .. off + len - 1
        /\ (off + i - 1) - off + 1 = i
    BY <1>0 DEF len
  <2> QED BY <1>1, <2>1
<1>5. p \in [0 .. DATA_POOL - 1 -> Byte]
  BY <1>1, <1>2
<1> QED BY <1>3, <1>4, <1>5 DEF p, len

(* write and append: file n holds a text, in a block that is its own *)
Rewritten(f, n, text, off, cap, next) ==
  [nodes |-> [f.nodes EXCEPT ![n] = [@ EXCEPT !.off = off, !.len = Len(text), !.cap = cap]],
   data |-> Put(f.data, off, text), next |-> next,
   stored |-> [f.stored EXCEPT ![n] = text]]

LEMMA RewriteKeeps ==
  ASSUME NEW f, FsInv(f), NEW n \in Node, f.nodes[n].kind = "File", NEW text \in Seq(Byte),
         NEW off \in Nat, NEW cap \in Nat, NEW next \in Nat,
         Len(text) <= cap, off + cap <= next, f.next <= next, next <= DATA_POOL,
         \A m \in Node \ {n} : f.nodes[m].kind = "File" =>
           off + cap <= f.nodes[m].off \/ f.nodes[m].off + f.nodes[m].cap <= off,
         NEW g, g = Rewritten(f, n, text, off, cap, next)
  PROVE  /\ FsInv(g)
         /\ \A m \in Node : g.nodes[m].kind = f.nodes[m].kind
<1>0. f \in FsType /\ Contents(f) /\ Apart(f) /\ Linked(f)
  BY DEF FsInv
<1>1. Len(text) \in Nat /\ DATA_POOL \in Nat
  BY PoolFacts
<1> DEFINE node == [f.nodes[n] EXCEPT !.off = off, !.len = Len(text), !.cap = cap]
<1>2. f.nodes[n] \in NodeType /\ f.nodes \in [Node -> NodeType] /\ f.stored \in [Node -> Seq(Byte)]
      /\ f.data \in [0 .. DATA_POOL - 1 -> Byte]
  BY <1>0 DEF FsType
<1>3. off \in 0 .. DATA_POOL /\ Len(text) \in 0 .. DATA_POOL /\ cap \in 0 .. DATA_POOL
      /\ next \in 0 .. DATA_POOL
  BY <1>1
<1>4. /\ node \in NodeType /\ node.kind = f.nodes[n].kind /\ node.name = f.nodes[n].name
      /\ node.parent = f.nodes[n].parent
      /\ node.off = off /\ node.len = Len(text) /\ node.cap = cap
  BY <1>2, <1>3 DEF NodeType
<1>5. /\ g.nodes = [f.nodes EXCEPT ![n] = node] /\ g.data = Put(f.data, off, text)
      /\ g.next = next /\ g.stored = [f.stored EXCEPT ![n] = text]
      /\ g = [nodes |-> g.nodes, data |-> g.data, next |-> g.next, stored |-> g.stored]
  BY DEF Rewritten
<1> HIDE DEF node
<1>6. /\ g.data \in [0 .. DATA_POOL - 1 -> Byte]
      /\ \A j \in 0 .. DATA_POOL - 1 :
           (j < off \/ off + Len(text) <= j) => g.data[j] = f.data[j]
      /\ \A i \in 1 .. Len(text) : g.data[off + i - 1] = text[i]
  <2>1. off + Len(text) <= DATA_POOL
    BY <1>1
  <2> DEFINE p == Put(f.data, off, text)
  <2>2. /\ p \in [0 .. DATA_POOL - 1 -> Byte]
        /\ \A j \in 0 .. DATA_POOL - 1 : (j < off \/ off + Len(text) <= j) => p[j] = f.data[j]
        /\ \A i \in 1 .. Len(text) : p[off + i - 1] = text[i]
    BY ONLY <1>2, <2>1, PutIs, off \in Nat, text \in Seq(Byte)
  <2>3. g.data = p
    BY <1>5
  <2> HIDE DEF p
  <2> QED BY <2>2, <2>3
<1>7. /\ g.nodes[n] = node /\ g.stored[n] = text
      /\ \A m \in Node \ {n} : g.nodes[m] = f.nodes[m] /\ g.stored[m] = f.stored[m]
  BY <1>2, <1>5
<1>8. g \in FsType
  <2>1. g.nodes \in [Node -> NodeType] /\ g.stored \in [Node -> Seq(Byte)]
    BY <1>2, <1>4, <1>5
  <2> QED BY <1>3, <1>5, <1>6, <2>1 DEF FsType
<1>9. \A m \in Node : /\ g.nodes[m].kind = f.nodes[m].kind /\ g.nodes[m].name = f.nodes[m].name
                      /\ g.nodes[m].parent = f.nodes[m].parent
  BY <1>4, <1>7
<1>10. Contents(g)
  <2>1. ASSUME NEW m \in Node, g.nodes[m].kind = "File", m # n
        PROVE  /\ g.nodes[m].len <= g.nodes[m].cap
               /\ g.nodes[m].off + g.nodes[m].cap <= g.next
               /\ Len(g.stored[m]) = g.nodes[m].len
               /\ \A i \in 1 .. g.nodes[m].len : g.data[g.nodes[m].off + i - 1] = g.stored[m][i]
    <3> DEFINE e == f.nodes[m]
    <3>1. g.nodes[m] = e /\ g.stored[m] = f.stored[m]
      BY <1>7, <2>1
    <3>2. e.off \in Nat /\ e.len \in Nat /\ e.cap \in Nat /\ f.next \in Nat /\ f.next <= DATA_POOL
      BY <1>0, TypeFacts
    <3>3. /\ e.len <= e.cap /\ e.off + e.cap <= f.next /\ Len(f.stored[m]) = e.len
          /\ \A i \in 1 .. e.len : f.data[e.off + i - 1] = f.stored[m][i]
      BY <1>0, <2>1, <3>1 DEF Contents
    <3>4. off + cap <= e.off \/ e.off + e.cap <= off
      BY <2>1, <3>1
    <3> HIDE DEF e
    <3>5. ASSUME NEW i \in 1 .. e.len PROVE g.data[e.off + i - 1] = f.stored[m][i]
      <4>0. i \in Nat /\ 1 <= i /\ i <= e.len
        BY <3>2
      <4>1. e.off + i - 1 \in 0 .. DATA_POOL - 1
        BY ONLY <1>1, <3>2, <3>3, <4>0
      <4>2. e.off + i - 1 < off \/ off + Len(text) <= e.off + i - 1
        BY <1>1, <3>2, <3>3, <3>4
      <4>3. g.data[e.off + i - 1] = f.data[e.off + i - 1]
        BY <1>6, <4>1, <4>2
      <4> QED BY <3>3, <4>3
    <3>6. e.off + e.cap <= next
      BY <3>2, <3>3
    <3>7. g.nodes[m].len <= g.nodes[m].cap /\ Len(g.stored[m]) = g.nodes[m].len
      BY <3>1, <3>3
    <3>8. g.nodes[m].off + g.nodes[m].cap <= g.next
      BY <1>5, <3>1, <3>6
    <3>9. \A i \in 1 .. g.nodes[m].len : g.data[g.nodes[m].off + i - 1] = g.stored[m][i]
      BY <3>1, <3>5
    <3> QED BY <3>7, <3>8, <3>9
  <2>2. /\ g.nodes[n].len <= g.nodes[n].cap
        /\ g.nodes[n].off + g.nodes[n].cap <= g.next
        /\ Len(g.stored[n]) = g.nodes[n].len
        /\ \A i \in 1 .. g.nodes[n].len : g.data[g.nodes[n].off + i - 1] = g.stored[n][i]
    BY <1>4, <1>5, <1>6, <1>7
  <2> QED BY <2>1, <2>2 DEF Contents
<1>11. Apart(g)
  <2>1. ASSUME NEW a \in Node, NEW b \in Node, a # b, g.nodes[a].kind = "File", g.nodes[b].kind = "File"
        PROVE  \/ g.nodes[a].off + g.nodes[a].cap <= g.nodes[b].off
               \/ g.nodes[b].off + g.nodes[b].cap <= g.nodes[a].off
    <3>0. f.nodes[a].kind = "File" /\ f.nodes[b].kind = "File"
      BY <1>9, <2>1
    <3>1. CASE a = n
      BY <3>0, <3>1, <2>1, <1>4, <1>7
    <3>2. CASE b = n
      BY <3>0, <3>2, <2>1, <1>4, <1>7
    <3>3. CASE a # n /\ b # n
      BY <3>0, <3>3, <1>0, <1>7, <2>1 DEF Apart
    <3> QED BY <3>1, <3>2, <3>3
  <2> QED BY <2>1 DEF Apart
<1>12. Linked(g)
  <2>1. \A m \in Node : f.nodes[m].parent \in Node
    BY <1>0, TypeFacts
  <2>2. g.nodes[ROOT].kind = "Dir" /\ g.nodes[ROOT].parent = ROOT
    BY <1>0, <1>9, NodeFacts DEF Linked
  <2>3. \A m \in Node : g.nodes[m].kind # "Free" => g.nodes[g.nodes[m].parent].kind = "Dir"
    BY <1>0, <1>9, <2>1 DEF Linked
  <2>4. \A m \in Node \ {ROOT} : g.nodes[m].kind # "Free" => g.nodes[m].name \in Component
    BY <1>0, <1>9 DEF Linked
  <2>5. \A a, b \in Node \ {ROOT} :
          (/\ g.nodes[a].kind # "Free" /\ g.nodes[b].kind # "Free"
           /\ g.nodes[a].parent = g.nodes[b].parent /\ g.nodes[a].name = g.nodes[b].name) => a = b
    BY <1>0, <1>9 DEF Linked
  <2> QED BY <2>2, <2>3, <2>4, <2>5 DEF Linked
<1>13. \E ord : Order(g, ord)
  <2>1. PICK ord : Order(f, ord)
    BY DEF FsInv
  <2>2. Order(g, ord)
    BY <2>1, <1>9 DEF Order
  <2> QED BY <2>2
<1> QED BY <1>8, <1>9, <1>10, <1>11, <1>12, <1>13 DEF FsInv

LEMMA CreateKeeps ==
  ASSUME NEW f, FsInv(f), NEW d \in Node, NEW name \in Component
  PROVE  LET made == FsCreate(f, d, name)
         IN  /\ FsInv(made.fs)
             /\ made.node \in Node \cup {NoNode}
             /\ \A m \in Node : f.nodes[m].kind = "File" => made.fs.nodes[m].kind = "File"
<1> DEFINE made == FsCreate(f, d, name)
           old == FindChild(f, d, name)
           n == AllocNode(f)
           node == MkNode("File", name, d)
<1>0. f \in FsType /\ old \in Node \cup {NoNode}
  BY FindChildIs DEF FsInv
<1>1. n # NoNode => n \in Node \ {ROOT} /\ f.nodes[n].kind = "Free"
  BY AllocNodeIs
<1>2. CASE f.nodes[d].kind # "Dir"
  <2>1. made.fs = f /\ made.node = NoNode
    BY <1>2 DEF FsCreate
  <2> QED BY <2>1
<1>3. CASE f.nodes[d].kind = "Dir" /\ old # NoNode
  <2>1. made.fs = f /\ made.node \in {old, NoNode}
    BY <1>3 DEF FsCreate
  <2> HIDE DEF made, old
  <2> QED BY <1>0, <2>1 DEF made
<1>4. CASE f.nodes[d].kind = "Dir" /\ old = NoNode /\ n = NoNode
  <2>1. made.fs = f /\ made.node = NoNode
    BY <1>4 DEF FsCreate
  <2> QED BY <2>1
<1>5. CASE f.nodes[d].kind = "Dir" /\ old = NoNode /\ n # NoNode
  <2>1. made.fs = SetNode(f, n, node) /\ made.node = n
    BY <1>5 DEF FsCreate
  <2> HIDE DEF made, n
  <2>2. FsInv(made.fs)
    BY <1>1, <1>5, <2>1, AddKeeps
  <2>3. node \in NodeType
    <3>1. 0 \in 0 .. DATA_POOL
      BY PoolFacts
    <3> QED BY <3>1 DEF MkNode, NodeType
  <2> HIDE DEF node
  <2>4. ASSUME NEW m \in Node, f.nodes[m].kind = "File" PROVE made.fs.nodes[m].kind = "File"
    <3>1. m # n
      BY <1>1, <1>5, <2>4
    <3>2. made.fs.nodes[m] = f.nodes[m]
      BY <1>0, <1>1, <1>5, <2>1, <2>3, <3>1, SetNodeIs
    <3> QED BY <2>4, <3>2
  <2> QED BY <1>1, <1>5, <2>1, <2>2, <2>4 DEF made
<1> QED BY <1>2, <1>3, <1>4, <1>5

LEMMA MkdirKeeps ==
  ASSUME NEW f, FsInv(f), NEW d \in Node, NEW name \in Component
  PROVE  LET made == FsMkdir(f, d, name)
         IN  /\ FsInv(made.fs)
             /\ \A m \in Node : f.nodes[m].kind = "File" => made.fs.nodes[m].kind = "File"
<1> DEFINE made == FsMkdir(f, d, name)
           n == AllocNode(f)
           node == MkNode("Dir", name, d)
           ok == f.nodes[d].kind = "Dir" /\ FindChild(f, d, name) = NoNode /\ n # NoNode
<1>0. f \in FsType
  BY DEF FsInv
<1>1. n # NoNode => n \in Node \ {ROOT} /\ f.nodes[n].kind = "Free"
  BY AllocNodeIs
<1>2. CASE ~ok
  <2>1. made.fs = f
    BY <1>2 DEF FsMkdir
  <2> QED BY <2>1
<1>3. CASE ok
  <2>1. made.fs = SetNode(f, n, node)
    BY <1>3 DEF FsMkdir
  <2> HIDE DEF made, n
  <2>2. FsInv(made.fs)
    BY <1>1, <1>3, <2>1, AddKeeps
  <2>3. node \in NodeType
    <3>1. 0 \in 0 .. DATA_POOL
      BY PoolFacts
    <3> QED BY <3>1 DEF MkNode, NodeType
  <2> HIDE DEF node
  <2>4. ASSUME NEW m \in Node, f.nodes[m].kind = "File" PROVE made.fs.nodes[m].kind = "File"
    <3>1. m # n
      BY <1>1, <1>3, <2>4
    <3>2. made.fs.nodes[m] = f.nodes[m]
      BY <1>0, <1>1, <1>3, <2>1, <2>3, <3>1, SetNodeIs
    <3> QED BY <2>4, <3>2
  <2> QED BY <2>2, <2>4 DEF made
<1> QED BY <1>2, <1>3

LEMMA NewBlockKeeps ==
  ASSUME NEW f, FsInv(f), NEW n \in Node, f.nodes[n].kind = "File", NEW text \in Seq(Byte),
         Fits(f, text)
  PROVE  /\ FsInv(NewBlock(f, n, text))
         /\ \A m \in Node : NewBlock(f, n, text).nodes[m].kind = f.nodes[m].kind
<1> DEFINE g == NewBlock(f, n, text)
           len == Len(text)
<1>0. f \in FsType /\ Contents(f)
  BY DEF FsInv
<1>1. len \in Nat /\ f.next \in Nat /\ f.next <= DATA_POOL /\ f.next + len <= DATA_POOL
  BY <1>0, TypeFacts DEF Fits
<1>2. g = Rewritten(f, n, text, f.next, len, f.next + len)
  <2>1. f = [nodes |-> f.nodes, data |-> f.data, next |-> f.next, stored |-> f.stored]
    BY <1>0 DEF FsType
  <2> DEFINE nodes == [f.nodes EXCEPT ![n] = [@ EXCEPT !.off = f.next, !.len = len, !.cap = len]]
             stored == [f.stored EXCEPT ![n] = text]
             data == Put(f.data, f.next, text)
  <2>2. g = [f EXCEPT !.data = data, !.next = f.next + len, !.nodes = nodes, !.stored = stored]
    BY DEF NewBlock
  <2> HIDE DEF g, nodes, data, stored, len
  <2>3. g = [nodes |-> nodes, data |-> data, next |-> f.next + len, stored |-> stored]
    BY <1>0, <2>2 DEF FsType
  <2> QED BY <2>3 DEF nodes, data, stored, len, Rewritten
<1>3. \A m \in Node \ {n} : f.nodes[m].kind = "File" =>
        f.next + len <= f.nodes[m].off \/ f.nodes[m].off + f.nodes[m].cap <= f.next
  BY <1>0 DEF Contents
<1> HIDE DEF g
<1>4. /\ Len(text) <= len /\ f.next + len <= f.next + len /\ f.next <= f.next + len
      /\ f.next + len \in Nat
  BY <1>1
<1>5. /\ FsInv(g)
      /\ \A m \in Node : g.nodes[m].kind = f.nodes[m].kind
  BY <1>1, <1>2, <1>3, <1>4, RewriteKeeps
<1> QED BY <1>5 DEF g

LEMMA WriteKeeps ==
  ASSUME NEW f, FsInv(f), NEW n \in Node, NEW text \in Seq(Byte)
  PROVE  /\ FsInv(FsWrite(f, n, text))
         /\ \A m \in Node : FsWrite(f, n, text).nodes[m].kind = f.nodes[m].kind
<1> DEFINE g == FsWrite(f, n, text)
           off == f.nodes[n].off
           cap == f.nodes[n].cap
<1>0. f \in FsType /\ Contents(f) /\ Apart(f)
  BY DEF FsInv
<1>1. Len(text) \in Nat /\ f.next \in Nat /\ f.next <= DATA_POOL /\ off \in Nat /\ cap \in Nat
  BY <1>0, TypeFacts
<1>2. CASE f.nodes[n].kind # "File" \/ (~Fits(f, text) /\ ~(Len(text) <= cap))
  <2>1. g = f
    BY <1>2 DEF FsWrite
  <2> QED BY <2>1
<1>3. CASE f.nodes[n].kind = "File" /\ Fits(f, text) /\ ~(Len(text) <= cap)
  <2>1. g = NewBlock(f, n, text)
    BY <1>3 DEF FsWrite
  <2> QED BY <1>3, <2>1, NewBlockKeeps
<1>4. CASE f.nodes[n].kind = "File" /\ Len(text) <= cap
  <2>1. g = [f EXCEPT !.data = Put(f.data, f.nodes[n].off, text),
                      !.nodes[n].len = Len(text), !.stored[n] = text]
    BY <1>4 DEF FsWrite
  <2> DEFINE nodes == [f.nodes EXCEPT ![n].len = Len(text)]
             stored == [f.stored EXCEPT ![n] = text]
             data == Put(f.data, off, text)
  <2>2. nodes = [f.nodes EXCEPT ![n] = [@ EXCEPT !.off = off, !.len = Len(text), !.cap = cap]]
    <3>1. f.nodes[n] \in NodeType
      BY <1>0 DEF FsType
    <3>2. [f.nodes[n] EXCEPT !.len = Len(text)]
            = [f.nodes[n] EXCEPT !.off = off, !.len = Len(text), !.cap = cap]
      BY <3>1 DEF NodeType
    <3> QED BY <3>2
  <2>3. g = [f EXCEPT !.data = data, !.nodes = nodes, !.stored = stored]
    BY <2>1
  <2> HIDE DEF g, nodes, data, stored
  <2>4. g = [nodes |-> nodes, data |-> data, next |-> f.next, stored |-> stored]
    BY <1>0, <2>3 DEF FsType
  <2>5. g = Rewritten(f, n, text, off, cap, f.next)
    BY <2>2, <2>4 DEF data, stored, Rewritten
  <2>6. \A m \in Node \ {n} : f.nodes[m].kind = "File" =>
          off + cap <= f.nodes[m].off \/ f.nodes[m].off + f.nodes[m].cap <= off
    BY <1>0, <1>4 DEF Apart
  <2>7. off + cap <= f.next
    BY <1>0, <1>4 DEF Contents
  <2>8. f.nodes[n].kind = "File" /\ Len(text) <= cap /\ f.next <= f.next
    BY <1>1, <1>4
  <2> HIDE DEF off, cap
  <2>9. /\ FsInv(g)
        /\ \A m \in Node : g.nodes[m].kind = f.nodes[m].kind
    BY <1>1, <2>8, <2>5, <2>6, <2>7, RewriteKeeps
  <2> QED BY <2>9 DEF g
<1> QED BY <1>2, <1>3, <1>4

LEMMA AppendKeeps ==
  ASSUME NEW f, FsInv(f), NEW n \in Node, NEW text \in Seq(Byte)
  PROVE  /\ FsInv(FsAppend(f, n, text))
         /\ \A m \in Node : FsAppend(f, n, text).nodes[m].kind = f.nodes[m].kind
<1> DEFINE whole == FsRead(f, n) \o text
<1>1. whole \in Seq(Byte)
  BY ReadIs, ConcatProperties
<1>2. CASE Fits(f, whole) /\ f.nodes[n].kind = "File"
  <2>1. FsAppend(f, n, text) = NewBlock(f, n, whole)
    BY <1>2 DEF FsAppend
  <2> HIDE DEF whole
  <2> QED BY <1>1, <1>2, <2>1, NewBlockKeeps
<1>3. CASE ~(Fits(f, whole) /\ f.nodes[n].kind = "File")
  <2>1. FsAppend(f, n, text) = f
    BY <1>3 DEF FsAppend
  <2> QED BY <2>1
<1> QED BY <1>2, <1>3

-----------------------------------------------------------------------------
(* Commands *)

RamInv == FsInv(fs) /\ cwd \in Node

LEMMA TextIs == \A t \in Text : t \in Seq(Byte)
  BY RamfsAssumption

LEMMA PathIs == \A p \in Path : p \in [abs : BOOLEAN, comps : Seq(Component)]
  BY RamfsAssumption

LEMMA ResolveType ==
  ASSUME RamInv, NEW p, Len(p.comps) \in Nat
  PROVE  Resolve(p) \in Node \cup {NoNode}
<1>1. fs \in FsType /\ cwd \in Node
  BY DEF RamInv, FsInv
<1> QED BY <1>1, ResolveIs DEF Resolve

LEMMA PathResolves ==
  ASSUME RamInv, NEW p \in Path
  PROVE  Resolve(p) \in Node \cup {NoNode}
<1>1. p.comps \in Seq(Component)
  BY PathIs
<1>2. Len(p.comps) \in Nat
  BY <1>1
<1> QED BY <1>2, ResolveType

LEMMA ParentIs ==
  ASSUME RamInv, NEW p \in Path, ResolveParent(p) # NoNode
  PROVE  ResolveParent(p) \in Node /\ Leaf(p) \in Component
<1> DEFINE c == p.comps
           n == Len(c)
           q == [p EXCEPT !.comps = SubSeq(@, 1, n - 1)]
           dir == Resolve(q)
<1>1. p \in [abs : BOOLEAN, comps : Seq(Component)]
  BY PathIs
<1>2. c \in Seq(Component) /\ n \in Nat
  BY <1>1
<1>3. n # 0
  BY DEF ResolveParent
<1>4. Leaf(p) \in Component
  <2>1. n \in 1 .. n
    BY <1>2, <1>3
  <2>2. c[n] \in Component
    BY <1>2, <2>1
  <2> QED BY <2>2 DEF Leaf
<1>5. cwd \in Node /\ ROOT \in Node
  BY NodeFacts DEF RamInv
<1>6. CASE n = 1
  <2>1. ResolveParent(p) = IF p.abs THEN ROOT ELSE cwd
    BY <1>6 DEF ResolveParent
  <2> QED BY <1>4, <1>5, <2>1
<1>7. CASE n # 1
  <2>1. ResolveParent(p) = dir
    BY <1>3, <1>7 DEF ResolveParent
  <2>2. q.comps = SubSeq(c, 1, n - 1)
    BY <1>1
  <2>3. Len(q.comps) \in Nat
    <3>1. SubSeq(c, 1, n - 1) \in Seq(Component)
      <4> HIDE DEF c
      <4> QED BY <1>2, <1>3
    <3> HIDE DEF c, n, q
    <3> QED BY <2>2, <3>1
  <2> HIDE DEF q, dir
  <2>4. dir \in Node \cup {NoNode}
    BY <2>3, ResolveType DEF dir
  <2> QED BY <1>4, <2>1, <2>4
<1> QED BY <1>6, <1>7

(* What no command does: turn a file into a directory *)
FilesStay == \A m \in Node : fs.nodes[m].kind = "File" => fs'.nodes[m].kind \in {"File", "Free"}

LEMMA NextKeeps ==
  ASSUME RamInv, Next
  PROVE  RamInv' /\ FilesStay
<1>0. FsInv(fs) /\ cwd \in Node
  BY DEF RamInv
<1>1. ASSUME NEW p \in Path, CmdMkdir(p) PROVE RamInv' /\ FilesStay
  <2>1. ResolveParent(p) \in Node /\ Leaf(p) \in Component
    BY <1>1, ParentIs DEF CmdMkdir
  <2> DEFINE made == FsMkdir(fs, ResolveParent(p), Leaf(p))
  <2>2. FsInv(made.fs) /\ \A m \in Node : fs.nodes[m].kind = "File" => made.fs.nodes[m].kind = "File"
    BY <1>0, <2>1, MkdirKeeps
  <2>3. fs' = made.fs /\ cwd' = cwd
    BY <1>1 DEF CmdMkdir
  <2> HIDE DEF made
  <2> QED BY <1>0, <2>2, <2>3 DEF RamInv, FilesStay
<1>2. ASSUME NEW p \in Path, CmdTouch(p) PROVE RamInv' /\ FilesStay
  <2>1. ResolveParent(p) \in Node /\ Leaf(p) \in Component
    BY <1>2, ParentIs DEF CmdTouch
  <2> DEFINE made == FsCreate(fs, ResolveParent(p), Leaf(p))
  <2>2. FsInv(made.fs) /\ \A m \in Node : fs.nodes[m].kind = "File" => made.fs.nodes[m].kind = "File"
    BY <1>0, <2>1, CreateKeeps
  <2>3. fs' = made.fs /\ cwd' = cwd
    BY <1>2 DEF CmdTouch
  <2> HIDE DEF made
  <2> QED BY <1>0, <2>2, <2>3 DEF RamInv, FilesStay
<1>3. ASSUME NEW p \in Path, CmdCd(p) PROVE RamInv' /\ FilesStay
  <2>1. Resolve(p) \in Node \cup {NoNode} /\ ROOT \in Node
    BY PathResolves, NodeFacts
  <2>2. cwd' \in Node /\ fs' = fs
    BY <1>3, <2>1 DEF CmdCd
  <2> QED BY <1>0, <2>2 DEF RamInv, FilesStay
<1>4. ASSUME NEW p \in Path, NEW r \in BOOLEAN, CmdRm(p, r) PROVE RamInv' /\ FilesStay
  <2> DEFINE n == Resolve(p)
             g == IF r /\ fs.nodes[n].kind = "Dir" THEN RmRecursive(fs, n) ELSE fs
  <2>1. n \in Node
    BY <1>4, PathResolves DEF CmdRm
  <2>2. fs' = FsUnlink(g, n) /\ cwd' = cwd
    BY <1>4 DEF CmdRm
  <2> HIDE DEF n
  <2>3. FsInv(g) /\ \A m \in Node : fs.nodes[m].kind = "File" => g.nodes[m].kind \in {"File", "Free"}
    <3>1. /\ FsInv(RmRecursive(fs, n))
          /\ \A m \in Node : fs.nodes[m].kind = "File" =>
               RmRecursive(fs, n).nodes[m].kind \in {"File", "Free"}
      BY <1>0, <2>1, RmRecursiveKeeps
    <3>2. g = fs \/ g = RmRecursive(fs, n)
      OBVIOUS
    <3> HIDE DEF g
    <3> QED BY <1>0, <3>1, <3>2
  <2> HIDE DEF g
  <2>4. FsInv(fs') /\ \A m \in Node : g.nodes[m].kind \in {"File", "Free"} =>
                        fs'.nodes[m].kind \in {"File", "Free"}
    BY <2>1, <2>2, <2>3, UnlinkKeeps
  <2> QED BY <1>0, <2>2, <2>3, <2>4 DEF RamInv, FilesStay
<1>5. ASSUME NEW d \in Node, NEW name \in Component, NEW text \in Seq(Byte),
             FsCreate(fs, d, name).node # NoNode
      PROVE  LET made == FsCreate(fs, d, name)
             IN  /\ FsInv(FsWrite(made.fs, made.node, text))
                 /\ \A m \in Node : fs.nodes[m].kind = "File" =>
                      FsWrite(made.fs, made.node, text).nodes[m].kind = "File"
  <2> DEFINE made == FsCreate(fs, d, name)
             g == FsWrite(made.fs, made.node, text)
  <2>1. FsInv(made.fs) /\ \A m \in Node : fs.nodes[m].kind = "File" => made.fs.nodes[m].kind = "File"
    BY <1>0, CreateKeeps
  <2>2. made.node \in Node
    BY <1>0, <1>5, CreateKeeps
  <2> HIDE DEF made
  <2>3. FsInv(g) /\ \A m \in Node : g.nodes[m].kind = made.fs.nodes[m].kind
    BY <2>1, <2>2, WriteKeeps
  <2> QED BY <2>1, <2>3 DEF made
<1>6. ASSUME NEW p \in Path, NEW t \in Text, CmdWrite(p, t) PROVE RamInv' /\ FilesStay
  <2> DEFINE d == ResolveParent(p)
             made == FsCreate(fs, d, Leaf(p))
             g == FsWrite(made.fs, made.node, t)
  <2>1. d \in Node /\ Leaf(p) \in Component /\ t \in Seq(Byte) /\ made.node # NoNode
    BY <1>6, ParentIs, TextIs DEF CmdWrite
  <2>2. fs' = g /\ cwd' = cwd
    BY <1>6 DEF CmdWrite
  <2>3. FsInv(g) /\ \A m \in Node : fs.nodes[m].kind = "File" => g.nodes[m].kind = "File"
    BY <1>5, <2>1
  <2> HIDE DEF g
  <2> QED BY <1>0, <2>2, <2>3 DEF RamInv, FilesStay
<1>7. ASSUME NEW p \in Path, NEW q \in Path, CmdCp(p, q) PROVE RamInv' /\ FilesStay
  <2> DEFINE from == Resolve(p)
             t == FsRead(fs, from)
             d == ResolveParent(q)
             made == FsCreate(fs, d, Leaf(q))
             g == FsWrite(made.fs, made.node, t)
  <2>1. d \in Node /\ Leaf(q) \in Component /\ made.node # NoNode
    BY <1>7, ParentIs DEF CmdCp
  <2>2. from \in Node
    BY <1>7, PathResolves DEF CmdCp
  <2>3. t \in Seq(Byte)
    <3> HIDE DEF from
    <3> QED BY <1>0, <2>2, ReadIs
  <2>4. fs' = g /\ cwd' = cwd
    BY <1>7 DEF CmdCp
  <2>5. FsInv(g) /\ \A m \in Node : fs.nodes[m].kind = "File" => g.nodes[m].kind = "File"
    <3> HIDE DEF t, d
    <3> QED BY <1>5, <2>1, <2>3
  <2> HIDE DEF g
  <2> QED BY <1>0, <2>4, <2>5 DEF RamInv, FilesStay
<1>8. ASSUME NEW p \in Path, NEW q \in Path, CmdMv(p, q) PROVE RamInv' /\ FilesStay
  <2> DEFINE from == Resolve(p)
             t == FsRead(fs, from)
             d == ResolveParent(q)
             made == FsCreate(fs, d, Leaf(q))
             g == FsWrite(made.fs, made.node, t)
  <2>1. d \in Node /\ Leaf(q) \in Component /\ made.node # NoNode
    BY <1>8, ParentIs DEF CmdMv
  <2>2. from \in Node
    BY <1>8, PathResolves DEF CmdMv
  <2>3. t \in Seq(Byte)
    <3> HIDE DEF from
    <3> QED BY <1>0, <2>2, ReadIs
  <2>4. fs' = FsUnlink(g, from) /\ cwd' = cwd
    BY <1>8 DEF CmdMv
  <2>5. FsInv(g) /\ \A m \in Node : fs.nodes[m].kind = "File" => g.nodes[m].kind = "File"
    <3> HIDE DEF t, d
    <3> QED BY <1>5, <2>1, <2>3
  <2> HIDE DEF g, from
  <2>6. FsInv(fs') /\ \A m \in Node : g.nodes[m].kind \in {"File", "Free"} =>
                        fs'.nodes[m].kind \in {"File", "Free"}
    BY <2>2, <2>4, <2>5, UnlinkKeeps
  <2> QED BY <1>0, <2>4, <2>5, <2>6 DEF RamInv, FilesStay
<1>9. ASSUME NEW n \in Node, NEW t \in Text, Append_(n, t) PROVE RamInv' /\ FilesStay
  <2>1. t \in Seq(Byte)
    BY TextIs
  <2> DEFINE g == FsAppend(fs, n, t)
  <2>2. FsInv(g) /\ \A m \in Node : g.nodes[m].kind = fs.nodes[m].kind
    BY <1>0, <2>1, AppendKeeps
  <2>3. fs' = g /\ cwd' = cwd
    BY <1>9 DEF Append_
  <2> HIDE DEF g
  <2> QED BY <1>0, <2>2, <2>3 DEF RamInv, FilesStay
<1> QED BY <1>1, <1>2, <1>3, <1>4, <1>6, <1>7, <1>8, <1>9 DEF Next

LEMMA InitInv == ASSUME Init PROVE RamInv
<1>1. 0 \in 0 .. DATA_POOL /\ 0 \in Byte /\ ROOT \in Node /\ DATA_POOL \in Nat
  <2>1. 0 \in Byte
    BY RamfsAssumption
  <2> QED BY <2>1, PoolFacts, NodeFacts
<1> DEFINE root == MkNode("Dir", "/", ROOT)
<1>2. root \in NodeType /\ root.kind = "Dir" /\ root.parent = ROOT
  BY <1>1 DEF MkNode, NodeType
<1>3. EmptyNode \in NodeType /\ EmptyNode.kind = "Free"
  BY EmptyNodeIs
<1>4. /\ fs.nodes = [n \in Node |-> IF n = ROOT THEN root ELSE EmptyNode]
      /\ fs.data = [i \in 0 .. DATA_POOL - 1 |-> 0] /\ fs.next = 0
      /\ fs.stored = [n \in Node |-> <<>>] /\ cwd = ROOT
      /\ fs = [nodes |-> fs.nodes, data |-> fs.data, next |-> fs.next, stored |-> fs.stored]
  BY DEF Init
<1> HIDE DEF root
<1>5. fs \in FsType
  <2>1. fs.nodes \in [Node -> NodeType]
    BY <1>2, <1>3, <1>4
  <2>2. fs.data \in [0 .. DATA_POOL - 1 -> Byte] /\ fs.next \in 0 .. DATA_POOL
    BY <1>1, <1>4
  <2>3. fs.stored \in [Node -> Seq(Byte)]
    BY <1>4
  <2> QED BY <1>4, <2>1, <2>2, <2>3 DEF FsType
<1>6. /\ fs.nodes[ROOT] = root
      /\ \A n \in Node \ {ROOT} : fs.nodes[n].kind = "Free"
      /\ \A n \in Node : fs.nodes[n].kind # "File"
  BY <1>1, <1>2, <1>3, <1>4
<1>7. Contents(fs) /\ Apart(fs)
  BY <1>6 DEF Contents, Apart
<1>8. Linked(fs)
  BY <1>1, <1>2, <1>6 DEF Linked
<1>9. \E ord : Order(fs, ord)
  <2> DEFINE o == [n \in Node |-> n]
  <2>1. Order(fs, o)
    BY <1>6 DEF Order
  <2> HIDE DEF o
  <2> QED BY <2>1
<1> QED BY <1>1, <1>4, <1>5, <1>7, <1>8, <1>9 DEF RamInv, FsInv

LEMMA RamInvariant == Spec => []RamInv
<1>1. Init => RamInv
  BY InitInv
<1>2. RamInv /\ [Next]_vars => RamInv'
  <2>1. RamInv /\ Next => RamInv'
    BY NextKeeps
  <2>2. RamInv /\ UNCHANGED vars => RamInv'
    BY DEF vars, RamInv
  <2> QED BY <2>1, <2>2
<1> QED BY <1>1, <1>2, PTL DEF Spec

(* A name leads resolve_from from a directory to its child of that name *)
LEMMA StepDown ==
  ASSUME NEW f, FsInv(f), NEW x \in Node \ {ROOT}, f.nodes[x].kind # "Free",
         f.nodes[x].name \notin {".", ".."}
  PROVE  Step(f, f.nodes[x].parent, f.nodes[x].name) = x
<1> DEFINE p == f.nodes[x].parent
           name == f.nodes[x].name
           y == FindChild(f, p, name)
<1>0. f \in FsType /\ Linked(f)
  BY DEF FsInv
<1>1. p \in Node /\ p # NoNode
  BY <1>0, TypeFacts, NodeFacts
<1>2. x # p
  <2>1. PICK ord : Order(f, ord)
    BY DEF FsInv
  <2>2. ord[p] < ord[x] /\ ord[x] \in Nat
    BY <2>1, NodeFacts DEF Order
  <2> QED BY <2>2
<1>3. x \in Children(f, p)
  BY <1>2 DEF Children
<1>4. name \notin {"", ".", ".."}
  <2>1. name \in Component
    BY <1>0 DEF Linked
  <2>2. "" \notin Name
    BY RamfsAssumption
  <2> QED BY <2>1, <2>2 DEF Component
<1>5. Step(f, p, name) = y
  BY <1>1, <1>4 DEF Step
<1>6. y # NoNode
  BY <1>3, FindChildIs
<1>7. y \in Children(f, p) /\ f.nodes[y].name = name
  BY <1>6, FindChildIs
<1> HIDE DEF y
<1>8. y \in Node /\ y # p /\ f.nodes[y].kind # "Free" /\ f.nodes[y].parent = p
  BY <1>7 DEF Children
<1>9. y # ROOT
  BY <1>0, <1>8 DEF Linked
<1>10. y = x
  BY <1>0, <1>7, <1>8, <1>9 DEF Linked
<1> QED BY <1>5, <1>10

LEMMA PathOfLeadsBack ==
  ASSUME NEW f, FsInv(f), NEW n \in Node, f.nodes[n].kind # "Free",
         \A a \in Ancestors(f, n) : f.nodes[a].name \notin {".", ".."},
         NEW c \in 0 .. MAX_CHAIN, Up(f, n)[c] = ROOT,
         Bytes(Chain(f, n))[Len(Chain(f, n))] <= PATH_BUF
  PROVE  ResolveFrom(f, ROOT, PathOf(f, n)) = n
<1> DEFINE u == Up(f, n)
           ends == {k \in 0 .. MAX_NODES : k = MAX_CHAIN \/ Up(f, n)[k] = ROOT}
           depth == CHOOSE k \in ends : \A j \in ends : k <= j
           comps == [k \in 1 .. depth |-> f.nodes[u[depth - k]].name]
<1>0. f \in FsType /\ Linked(f) /\ \E ord : Order(f, ord)
  BY DEF FsInv
<1>1. MAX_CHAIN \in 0 .. MAX_NODES /\ MAX_NODES \in Nat
  <2>1. MAX_CHAIN \in 0 .. MAX_NODES
    BY RamfsAssumption
  <2> QED BY <2>1, NodeFacts
<1>2. depth \in ends /\ \A j \in ends : depth <= j
  <2>1. ends \in SUBSET Nat /\ MAX_CHAIN \in ends
    BY <1>1
  <2> HIDE DEF ends
  <2>2. \E k \in ends : \A j \in ends : k <= j
    BY <2>1, LeastNat
  <2> QED BY <2>2
<1> HIDE DEF depth
<1>3. depth \in Nat /\ depth <= MAX_NODES
  BY <1>2
<1>4. u[depth] = ROOT
  <2>1. c \in ends
    BY <1>1
  <2>2. depth <= c
    <3> HIDE DEF ends
    <3> QED BY <1>2, <2>1
  <2>3. CASE u[depth] # ROOT
    <3>1. depth = MAX_CHAIN
      BY <1>2, <2>3
    <3>2. depth = c
      BY <1>1, <1>3, <2>2, <3>1
    <3> QED BY <3>2
  <2> QED BY <2>3
<1>5. ASSUME NEW j \in 0 .. depth - 1 PROVE u[j] # ROOT
  <2>1. j \in 0 .. MAX_NODES /\ ~(depth <= j)
    BY <1>1, <1>3
  <2> QED BY <1>2, <2>1
<1> HIDE DEF ends
<1>6. u \in [0 .. MAX_NODES -> Node] /\ u[0] = n
      /\ \A k \in 1 .. MAX_NODES : u[k] = f.nodes[u[k - 1]].parent
  BY <1>0, UpIs
<1>7. \A k \in 0 .. MAX_NODES : f.nodes[u[k]].kind # "Free"
  BY <1>0, UpDescends
<1>8. \A k \in 0 .. MAX_NODES : f.nodes[u[k]].name \notin {".", ".."}
  BY DEF Ancestors
<1>9. PathOf(f, n) = [abs |-> TRUE, comps |-> comps]
  <2>1. Chain(f, n) = comps
    BY DEF Chain, depth, ends
  <2> HIDE DEF comps
  <2> QED BY <2>1 DEF PathOf
<1>10. Len(comps) = depth
  BY <1>3
<1> DEFINE w == Way(f, ROOT, comps, depth)
           T == {k \in 0 .. depth : w[k] = u[depth - k]}
<1>11. ResolveFrom(f, ROOT, PathOf(f, n)) = w[depth]
  <2> HIDE DEF comps
  <2>1. PathOf(f, n).comps = comps /\ PathOf(f, n).abs
    BY <1>9
  <2> QED BY <1>10, <2>1 DEF ResolveFrom, Way
<1> HIDE DEF u
<1>12. w[0] = ROOT /\ \A k \in 1 .. depth : w[k] = Step(f, w[k - 1], comps[k])
  <2> HIDE DEF comps
  <2> QED BY <1>0, <1>3, WayIs, NodeFacts
<1>13. \A k \in 1 .. depth : comps[k] = f.nodes[u[depth - k]].name
  OBVIOUS
<1> HIDE DEF w, comps
<1>14. 0 \in T
  BY <1>3, <1>4, <1>12
<1>15. ASSUME NEW k \in 1 .. depth, k - 1 \in T PROVE k \in T
  <2> DEFINE x == u[depth - k]
  <2>1. /\ depth - k \in 0 .. MAX_NODES /\ depth - k \in 0 .. depth - 1 /\ k \in 0 .. depth
        /\ depth - (k - 1) \in 1 .. MAX_NODES /\ (depth - (k - 1)) - 1 = depth - k
    BY <1>1, <1>3
  <2>2. x \in Node /\ x # ROOT /\ f.nodes[x].kind # "Free" /\ f.nodes[x].name \notin {".", ".."}
    BY <1>5, <1>6, <1>7, <1>8, <2>1
  <2>3. u[depth - (k - 1)] = f.nodes[x].parent
    <3>1. u[depth - (k - 1)] = f.nodes[u[(depth - (k - 1)) - 1]].parent
      BY <1>6, <2>1
    <3> QED BY <2>1, <3>1
  <2>4. w[k - 1] = u[depth - (k - 1)]
    BY <1>15
  <2>5. w[k] = Step(f, f.nodes[x].parent, f.nodes[x].name)
    BY <1>12, <1>13, <2>3, <2>4
  <2> HIDE DEF x
  <2>6. w[k] = x
    BY <2>2, <2>5, StepDown
  <2> QED BY <2>1, <2>6 DEF x
<1>16. \A k \in 0 .. depth : k \in T
  <2> HIDE DEF T
  <2> QED BY <1>3, <1>14, <1>15, Induct
<1>17. w[depth] = u[depth - depth] /\ depth - depth = 0
  BY <1>3, <1>16
<1> QED BY <1>6, <1>11, <1>17

LEMMA RamPromises == ASSUME RamInv PROVE TypeOK /\ Tree /\ PathsResolve /\ FilesKeepContents
<1>0. FsInv(fs) /\ cwd \in Node
  BY DEF RamInv
<1>1. TypeOK
  BY <1>0 DEF FsInv, FsType, TypeOK
<1>2. Tree
  <2>1. \A n \in Node : fs.nodes[n].kind # "Free" => ROOT \in Ancestors(fs, n)
    BY <1>0, ReachesRoot
  <2> QED BY <1>0, <2>1 DEF Tree, Used, FsInv, Linked
<1>3. PathsResolve
  <2> SUFFICES ASSUME NEW n \in Node, Used(n), ~Dotted(n), ~Deep(n), ~Long(n)
               PROVE  ResolveFrom(fs, ROOT, PathOf(fs, n)) = n
    BY DEF PathsResolve
  <2>1. PICK c \in 0 .. MAX_CHAIN : Up(fs, n)[c] = ROOT
    BY DEF Deep
  <2>2. \A a \in Ancestors(fs, n) : fs.nodes[a].name \notin {".", ".."}
    BY DEF Dotted
  <2>3. Bytes(Chain(fs, n))[Len(Chain(fs, n))] <= PATH_BUF
    BY DEF Long
  <2> QED BY <1>0, <2>1, <2>2, <2>3, PathOfLeadsBack DEF Used
<1>4. FilesKeepContents
  BY <1>0, ReadIs DEF FilesKeepContents
<1> QED BY <1>1, <1>2, <1>3, <1>4

(* Nodes, blocks and the bump pointer of fs.rs stay within NODES and DATA,  *)
(* whatever the shell commands do.                                          *)
THEOREM RamfsTypeOK == Spec => []TypeOK
<1>1. RamInv => TypeOK
  BY RamPromises
<1> QED BY <1>1, RamInvariant, PTL

(* Whatever is made, moved and removed, the nodes stay a tree of            *)
(* directories below the root, so that rm_recursive, tree and du end.       *)
THEOREM RamfsTree == Spec => []Tree
<1>1. RamInv => Tree
  BY RamPromises
<1> QED BY <1>1, RamInvariant, PTL

(* The path that path_of prints for a node leads resolve_from back to it,   *)
(* for every tree the commands can build, when the chain fits into its      *)
(* array and the path into its buffer: siblings have names of their own.    *)
THEOREM RamfsPathsResolve == Spec => []PathsResolve
<1>1. RamInv => PathsResolve
  BY RamPromises
<1> QED BY <1>1, RamInvariant, PTL

(* A file reads back as what was last written to it: the blocks that write  *)
(* and append take from the pool never overlap.                             *)
THEOREM RamfsFilesKeepContents == Spec => []FilesKeepContents
<1>1. RamInv => FilesKeepContents
  BY RamPromises
<1> QED BY <1>1, RamInvariant, PTL

-----------------------------------------------------------------------------
(* Descriptors *)

FdInv == RamInv /\ FdTypeOK /\ DescriptorsNameFiles /\ DeadHoldNoFile

LEMMA FdFacts == PROCS \in Nat /\ MAX_FDS \in Nat /\ 0 \in Fd /\ 1 \in Fd /\ Fd \subseteq Nat
<1>1. PROCS \in Nat /\ MAX_FDS \in Nat /\ MAX_FDS >= 3
  BY FileDescriptorsAssumption
<1> QED BY <1>1 DEF Fd

LEMMA EntryIs ==
  ASSUME NEW kind \in {"Free", "ConsoleOut", "ConsoleIn", "File"}, NEW inode \in Node
  PROVE  FdEntry(kind, inode) \in FdEntryType /\ FdEntry(kind, inode).kind = kind
         /\ FdEntry(kind, inode).inode = inode
<1>1. 0 \in 0 .. DATA_POOL
  BY PoolFacts
<1> QED BY <1>1 DEF FdEntry, FdEntryType

LEMMA TableIs ==
  /\ FreeTable \in [Fd -> FdEntryType] /\ StdTable \in [Fd -> FdEntryType]
  /\ \A fd \in Fd : FreeTable[fd].kind # "File" /\ StdTable[fd].kind # "File"
<1> DEFINE free == FdEntry("Free", 0)
           in == FdEntry("ConsoleIn", 0)
           out == FdEntry("ConsoleOut", 0)
<1>0. 0 \in Node
  BY NodeFacts DEF ROOT
<1>1. /\ free \in FdEntryType /\ free.kind = "Free" /\ in \in FdEntryType /\ in.kind = "ConsoleIn"
      /\ out \in FdEntryType /\ out.kind = "ConsoleOut"
  BY <1>0, EntryIs
<1>2. /\ FreeTable = [fd \in Fd |-> free]
      /\ StdTable = [fd \in Fd |-> IF fd = 0 THEN in ELSE IF fd \in {1, 2} THEN out ELSE free]
  BY DEF FreeTable, StdTable, FreeEntry
<1> HIDE DEF free, in, out
<1> QED BY <1>1, <1>2

LEMMA FindFreeFdIs ==
  ASSUME NEW p, NEW full \in Fd
  PROVE  FindFreeFd(p, full) \in Fd
<1> DEFINE S == FreeFds(p)
<1>1. S \in SUBSET Nat /\ S \subseteq Fd
  BY FdFacts DEF FreeFds
<1>2. FindFreeFd(p, full) = IF S = {} THEN full ELSE CHOOSE fd \in S : \A g \in S : fd <= g
  BY DEF FindFreeFd
<1> HIDE DEF S
<1>3. CASE S # {}
  <2>1. \E fd \in S : \A g \in S : fd <= g
    BY <1>1, <1>3, LeastNat
  <2> QED BY <1>1, <1>2, <1>3, <2>1
<1>4. CASE S = {}
  BY <1>2, <1>4
<1> QED BY <1>3, <1>4

(* One entry of a live process is set, and the file system is left alone *)
LEMMA SetFdKeeps ==
  ASSUME FdInv, NEW p \in Proc, alive[p], NEW fd \in Fd, NEW e \in FdEntryType, NEW old \in BOOLEAN,
         e.kind = "File" /\ ~old => fs.nodes[e.inode].kind = "File",
         SetFd(p, fd, e, old), UNCHANGED <<vars, alive>>
  PROVE  FdInv'
<1>0. RamInv /\ FdTypeOK /\ DescriptorsNameFiles /\ DeadHoldNoFile
  BY DEF FdInv
<1>1. fs' = fs /\ cwd' = cwd /\ alive' = alive
  BY DEF vars
<1>2. /\ fd_table' = [fd_table EXCEPT ![p] = [fd_table[p] EXCEPT ![fd] = e]]
      /\ stale' = IF old THEN stale \cup {<<p, fd>>} ELSE stale \ {<<p, fd>>}
  BY DEF SetFd
<1>3. fd_table \in [Proc -> [Fd -> FdEntryType]] /\ stale \subseteq Proc \X Fd
  BY <1>0 DEF FdTypeOK
<1>4. /\ fd_table' \in [Proc -> [Fd -> FdEntryType]]
      /\ fd_table'[p][fd] = e
      /\ \A q \in Proc, g \in Fd : <<q, g>> # <<p, fd>> => fd_table'[q][g] = fd_table[q][g]
  <2> DEFINE row == [fd_table[p] EXCEPT ![fd] = e]
  <2>1. row \in [Fd -> FdEntryType] /\ row[fd] = e /\ \A g \in Fd : g # fd => row[g] = fd_table[p][g]
    BY <1>3
  <2>2. fd_table' = [fd_table EXCEPT ![p] = row]
    BY <1>2
  <2> HIDE DEF row
  <2>3. /\ fd_table' \in [Proc -> [Fd -> FdEntryType]] /\ fd_table'[p] = row
        /\ \A q \in Proc : q # p => fd_table'[q] = fd_table[q]
    BY <1>3, <2>1, <2>2
  <2>4. ASSUME NEW q \in Proc, NEW g \in Fd, <<q, g>> # <<p, fd>>
        PROVE  fd_table'[q][g] = fd_table[q][g]
    <3>1. q # p \/ g # fd
      BY <2>4
    <3> QED BY <2>1, <2>3, <3>1
  <2> QED BY <2>1, <2>3, <2>4
<1>5. <<p, fd>> \in Proc \X Fd
  OBVIOUS
<1>6. /\ stale' \subseteq Proc \X Fd /\ (<<p, fd>> \in stale' <=> old)
      /\ \A s : s # <<p, fd>> => (s \in stale' <=> s \in stale)
  BY <1>2, <1>3, <1>5
<1>7. FdTypeOK'
  BY <1>0, <1>1, <1>4, <1>6 DEF FdTypeOK
<1>8. DescriptorsNameFiles'
  <2> SUFFICES ASSUME NEW q \in Proc, NEW g \in Fd, fd_table'[q][g].kind = "File", <<q, g>> \notin stale'
               PROVE  fs.nodes[fd_table'[q][g].inode].kind = "File"
    BY <1>1 DEF DescriptorsNameFiles
  <2>1. CASE <<q, g>> = <<p, fd>>
    <3>1. q = p /\ g = fd
      BY <2>1
    <3> QED BY <1>4, <1>6, <3>1
  <2>2. CASE <<q, g>> # <<p, fd>>
    <3>1. fd_table'[q][g] = fd_table[q][g]
      BY <1>4, <2>2
    <3>2. <<q, g>> \notin stale
      BY <1>6, <2>2
    <3> QED BY <1>0, <3>1, <3>2 DEF DescriptorsNameFiles
  <2> QED BY <2>1, <2>2
<1>9. DeadHoldNoFile'
  <2> SUFFICES ASSUME NEW q \in Proc, NEW g \in Fd, ~alive[q]
               PROVE  fd_table'[q][g].kind # "File"
    BY <1>1 DEF DeadHoldNoFile
  <2>1. <<q, g>> # <<p, fd>>
    OBVIOUS
  <2>2. fd_table'[q][g] = fd_table[q][g]
    BY <1>4, <2>1
  <2> QED BY <1>0, <2>2 DEF DeadHoldNoFile
<1>10. RamInv'
  BY <1>0, <1>1 DEF RamInv
<1> QED BY <1>7, <1>8, <1>9, <1>10 DEF FdInv

(* The whole table of a process becomes one without files *)
LEMMA NewTableKeeps ==
  ASSUME FdInv, NEW p \in Proc, NEW t \in [Fd -> FdEntryType], \A fd \in Fd : t[fd].kind # "File",
         NEW ok \in BOOLEAN, alive' = [alive EXCEPT ![p] = ok],
         fd_table' = [fd_table EXCEPT ![p] = t], stale' \subseteq stale,
         \A s \in stale : s[1] # p => s \in stale', UNCHANGED vars
  PROVE  FdInv'
<1>0. RamInv /\ FdTypeOK /\ DescriptorsNameFiles /\ DeadHoldNoFile
  BY DEF FdInv
<1>1. fs' = fs /\ cwd' = cwd
  BY DEF vars
<1>2. fd_table \in [Proc -> [Fd -> FdEntryType]] /\ stale \subseteq Proc \X Fd /\ alive \in [Proc -> BOOLEAN]
  BY <1>0 DEF FdTypeOK
<1>3. /\ fd_table' \in [Proc -> [Fd -> FdEntryType]] /\ fd_table'[p] = t
      /\ \A q \in Proc : q # p => fd_table'[q] = fd_table[q]
  BY <1>2
<1>4. alive' \in [Proc -> BOOLEAN] /\ \A q \in Proc : q # p => alive'[q] = alive[q]
  BY <1>2
<1>5. FdTypeOK'
  BY <1>2, <1>3, <1>4 DEF FdTypeOK
<1>6. DescriptorsNameFiles'
  <2> SUFFICES ASSUME NEW q \in Proc, NEW g \in Fd, fd_table'[q][g].kind = "File", <<q, g>> \notin stale'
               PROVE  fs.nodes[fd_table'[q][g].inode].kind = "File"
    BY <1>1 DEF DescriptorsNameFiles
  <2>1. q # p
    BY <1>3
  <2>2. fd_table'[q][g] = fd_table[q][g]
    BY <1>3, <2>1
  <2>3. <<q, g>>[1] # p
    BY <2>1
  <2>4. <<q, g>> \notin stale
    BY <2>3
  <2> QED BY <1>0, <2>2, <2>4 DEF DescriptorsNameFiles
<1>7. DeadHoldNoFile'
  <2> SUFFICES ASSUME NEW q \in Proc, NEW g \in Fd, ~alive'[q]
               PROVE  fd_table'[q][g].kind # "File"
    BY DEF DeadHoldNoFile
  <2>1. CASE q = p
    BY <1>3, <2>1
  <2>2. CASE q # p
    <3>1. fd_table'[q][g] = fd_table[q][g] /\ ~alive[q]
      BY <1>3, <1>4, <2>2
    <3> QED BY <1>0, <3>1 DEF DeadHoldNoFile
  <2> QED BY <2>1, <2>2
<1>8. RamInv'
  BY <1>0, <1>1 DEF RamInv
<1> QED BY <1>5, <1>6, <1>7, <1>8 DEF FdInv

(* The offset of a live process moves, and stays within the pool *)
LEMMA OffsetKeeps ==
  ASSUME FdInv, NEW p \in Proc, alive[p], NEW fd \in Fd, NEW to \in 0 .. DATA_POOL,
         fd_table' = [fd_table EXCEPT ![p][fd].offset = to], UNCHANGED <<vars, alive, stale>>
  PROVE  FdInv'
<1> DEFINE e == fd_table[p][fd]
           d == [e EXCEPT !.offset = to]
<1>0. FdTypeOK /\ DescriptorsNameFiles
  BY DEF FdInv
<1>1. fd_table \in [Proc -> [Fd -> FdEntryType]] /\ e \in FdEntryType
  BY <1>0 DEF FdTypeOK
<1>2. d \in FdEntryType /\ d.kind = e.kind /\ d.inode = e.inode
  BY <1>1 DEF FdEntryType
<1>3. fd_table' = [fd_table EXCEPT ![p][fd] = d]
  BY <1>1
<1> DEFINE old == <<p, fd>> \in stale
<1> HIDE DEF d
<1>4. UNCHANGED <<vars, alive>>
  OBVIOUS
<1>5. SetFd(p, fd, d, old)
  <2>1. stale' = IF old THEN stale \cup {<<p, fd>>} ELSE stale \ {<<p, fd>>}
    OBVIOUS
  <2> QED BY <1>3, <2>1 DEF SetFd
<1>6. d.kind = "File" /\ ~old => fs.nodes[d.inode].kind = "File"
  BY <1>0, <1>2 DEF DescriptorsNameFiles
<1>7. old \in BOOLEAN
  OBVIOUS
<1> HIDE DEF old
<1> QED BY <1>2, <1>4, <1>5, <1>6, <1>7, SetFdKeeps

LEMMA FdNextKeeps ==
  ASSUME FdInv, FNext
  PROVE  FdInv'
<1>0. RamInv /\ FdTypeOK /\ DescriptorsNameFiles /\ DeadHoldNoFile
  BY DEF FdInv
<1>1. /\ fd_table \in [Proc -> [Fd -> FdEntryType]] /\ alive \in [Proc -> BOOLEAN]
      /\ stale \subseteq Proc \X Fd
  BY <1>0 DEF FdTypeOK
<1>2. CASE Shell
  <2>1. RamInv' /\ FilesStay
    BY <1>0, <1>2, NextKeeps DEF Shell
  <2>2. alive' = alive /\ fd_table' = fd_table
    BY <1>2 DEF Shell
  <2> DEFINE gone == {s \in Proc \X Fd : fd_table[s[1]][s[2]].kind = "File"
                                           /\ fs'.nodes[fd_table[s[1]][s[2]].inode].kind = "Free"}
  <2>3. stale' = stale \cup gone
    BY <1>2 DEF Shell
  <2>4. FdTypeOK'
    BY <1>0, <2>2, <2>3 DEF FdTypeOK
  <2>5. DeadHoldNoFile'
    BY <1>0, <2>2 DEF DeadHoldNoFile
  <2>6. DescriptorsNameFiles'
    <3> SUFFICES ASSUME NEW q \in Proc, NEW g \in Fd, fd_table[q][g].kind = "File", <<q, g>> \notin stale'
                 PROVE  fs'.nodes[fd_table[q][g].inode].kind = "File"
      BY <2>2 DEF DescriptorsNameFiles
    <3> DEFINE e == fd_table[q][g]
               s == <<q, g>>
    <3>1. s \in Proc \X Fd /\ s[1] = q /\ s[2] = g /\ s \notin stale /\ s \notin gone
      BY <2>3
    <3>2. fs.nodes[e.inode].kind = "File" /\ e.inode \in Node
      BY <1>0, <1>1, <3>1 DEF DescriptorsNameFiles, FdEntryType
    <3>3. fs'.nodes[e.inode].kind \in {"File", "Free"}
      BY <2>1, <3>2 DEF FilesStay
    <3>4. fs'.nodes[e.inode].kind # "Free"
      BY <3>1
    <3> QED BY <3>3, <3>4
  <2> QED BY <2>1, <2>4, <2>5, <2>6 DEF FdInv
<1>3. ASSUME NEW ok \in BOOLEAN, Start(ok) PROVE FdInv'
  <2> DEFINE p == CHOOSE q \in DeadProcs : \A r \in DeadProcs : q <= r
  <2>1. DeadProcs # {} /\ DeadProcs \in SUBSET Nat /\ DeadProcs \subseteq Proc
    BY <1>3, FdFacts DEF Start, DeadProcs, Proc
  <2>2. \E q \in DeadProcs : \A r \in DeadProcs : q <= r
    BY <2>1, LeastNat
  <2>3. p \in Proc
    BY <2>1, <2>2
  <2>4. /\ alive' = [alive EXCEPT ![p] = ok] /\ fd_table' = [fd_table EXCEPT ![p] = StdTable]
        /\ stale' = stale /\ UNCHANGED vars
    BY <1>3 DEF Start
  <2> HIDE DEF p
  <2>5. stale' \subseteq stale /\ \A s \in stale : s[1] # p => s \in stale'
    BY <2>4
  <2> QED BY <2>3, <2>4, <2>5, TableIs, NewTableKeeps
<1>4. ASSUME NEW p \in Proc, End(p) PROVE FdInv'
  <2>1. /\ alive' = [alive EXCEPT ![p] = FALSE] /\ fd_table' = [fd_table EXCEPT ![p] = FreeTable]
        /\ stale' = {s \in stale : s[1] # p} /\ UNCHANGED vars
    BY <1>4 DEF End
  <2>2. stale' \subseteq stale /\ \A s \in stale : s[1] # p => s \in stale'
    BY <2>1
  <2> QED BY <2>1, <2>2, TableIs, NewTableKeeps
<1>5. ASSUME NEW p \in Proc, NEW kind \in {"ConsoleOut", "ConsoleIn"}, OpenDevice(p, kind)
      PROVE  FdInv'
  <2> DEFINE full == IF kind = "ConsoleOut" THEN 1 ELSE 0
             fd == FindFreeFd(p, full)
             e == FdEntry(kind, 0)
  <2>1. full \in Fd
    BY FdFacts
  <2>2. fd \in Fd
    <3> HIDE DEF full
    <3> QED BY <2>1, FindFreeFdIs
  <2>3. e \in FdEntryType /\ e.kind # "File"
    <3>1. 0 \in Node
      BY NodeFacts DEF ROOT
    <3> QED BY <3>1, EntryIs
  <2>4. alive[p] /\ SetFd(p, fd, e, FALSE) /\ UNCHANGED <<vars, alive>>
    BY <1>5 DEF OpenDevice
  <2> HIDE DEF fd, e
  <2> QED BY <2>2, <2>3, <2>4, SetFdKeeps
<1>6. ASSUME NEW p \in Proc, NEW path \in Path, OpenFile(p, path) PROVE FdInv'
  <2> DEFINE fd == FindFreeFd(p, 0)
             n == Resolve(path)
             e == FdEntry("File", n)
  <2>1. fd \in Fd
    BY FdFacts, FindFreeFdIs
  <2>2. n \in Node /\ fs.nodes[n].kind = "File"
    BY <1>0, <1>6, PathResolves DEF OpenFile
  <2>3. alive[p] /\ SetFd(p, fd, e, FALSE) /\ UNCHANGED <<vars, alive>>
    BY <1>6 DEF OpenFile
  <2> HIDE DEF n
  <2>4. e \in FdEntryType /\ e.inode = n
    BY <2>2, EntryIs
  <2> HIDE DEF fd, e
  <2> QED BY <2>1, <2>2, <2>3, <2>4, SetFdKeeps
<1>7. ASSUME NEW p \in Proc, NEW fd \in Fd, SysClose(p, fd) PROVE FdInv'
  <2>1. FreeEntry \in FdEntryType /\ FreeEntry.kind # "File"
    <3>1. 0 \in Node
      BY NodeFacts DEF ROOT
    <3> QED BY <3>1, EntryIs DEF FreeEntry
  <2>2. alive[p] /\ SetFd(p, fd, FreeEntry, FALSE) /\ UNCHANGED <<vars, alive>>
    BY <1>7 DEF SysClose
  <2> QED BY <2>1, <2>2, SetFdKeeps
<1>8. ASSUME NEW p \in Proc, NEW fd \in Fd, SysDup(p, fd) PROVE FdInv'
  <2> DEFINE to == FindFreeFd(p, 0)
             e == fd_table[p][fd]
             old == <<p, fd>> \in stale
  <2>1. to \in Fd
    BY FdFacts, FindFreeFdIs
  <2>2. e \in FdEntryType /\ old \in BOOLEAN
    BY <1>1
  <2>3. e.kind = "File" /\ ~old => fs.nodes[e.inode].kind = "File"
    BY <1>0 DEF DescriptorsNameFiles
  <2>4. alive[p] /\ SetFd(p, to, e, old) /\ UNCHANGED <<vars, alive>>
    BY <1>8 DEF SysDup
  <2> HIDE DEF to, e, old
  <2> QED BY <2>1, <2>2, <2>3, <2>4, SetFdKeeps
<1>9. ASSUME NEW p \in Proc, NEW fd \in Fd, NEW t \in Text, SysWrite(p, fd, t) PROVE FdInv'
  <2> DEFINE n == fd_table[p][fd].inode
             g == FsWrite(fs, n, t)
  <2>1. n \in Node /\ t \in Seq(Byte)
    BY <1>1, TextIs DEF FdEntryType
  <2>2. fs' = g /\ cwd' = cwd /\ alive' = alive /\ fd_table' = fd_table /\ stale' = stale
    BY <1>9 DEF SysWrite
  <2> HIDE DEF n
  <2>3. FsInv(g) /\ \A m \in Node : g.nodes[m].kind = fs.nodes[m].kind
    BY <1>0, <2>1, WriteKeeps DEF RamInv
  <2> HIDE DEF g
  <2>4. RamInv'
    BY <1>0, <2>2, <2>3 DEF RamInv
  <2>5. FdTypeOK' /\ DeadHoldNoFile'
    BY <1>0, <2>2 DEF FdTypeOK, DeadHoldNoFile
  <2>6. \A q \in Proc, h \in Fd : fd_table[q][h].inode \in Node
    BY <1>1 DEF FdEntryType
  <2>7. DescriptorsNameFiles'
    BY <1>0, <2>2, <2>3, <2>6 DEF DescriptorsNameFiles
  <2> QED BY <2>4, <2>5, <2>7 DEF FdInv
<1>10. ASSUME NEW p \in Proc, NEW fd \in Fd, NEW len \in 1 .. DATA_POOL, SysRead(p, fd, len) PROVE FdInv'
  <2> DEFINE e == fd_table[p][fd]
             size == Len(FsRead(fs, e.inode))
             avail == IF size > e.offset THEN size - e.offset ELSE 0
             to == e.offset + (IF len < avail THEN len ELSE avail)
  <2>1. e.inode \in Node /\ e.offset \in 0 .. DATA_POOL
    BY <1>1 DEF FdEntryType
  <2>2. size \in Nat /\ size <= DATA_POOL
    <3>1. FsInv(fs)
      BY <1>0 DEF RamInv
    <3> DEFINE n == e.inode
    <3> HIDE DEF e
    <3>2. FsRead(fs, n) \in Seq(Byte) /\ Len(FsRead(fs, n)) <= fs.nodes[n].len
      BY <2>1, <3>1, ReadIs
    <3>3. fs.nodes[n].len \in Nat /\ fs.nodes[n].len <= DATA_POOL
      BY <2>1, <3>1, TypeFacts DEF FsInv
    <3>4. Len(FsRead(fs, n)) \in Nat
      BY <3>2
    <3> QED BY <3>2, <3>3, <3>4, PoolFacts
  <2>3. fd_table' = [fd_table EXCEPT ![p][fd].offset = to] /\ UNCHANGED <<vars, alive, stale>> /\ alive[p]
    BY <1>10 DEF SysRead
  <2>4. to \in 0 .. DATA_POOL
    <3> HIDE DEF e, size
    <3> QED BY <2>1, <2>2, PoolFacts
  <2> HIDE DEF to
  <2> QED BY <2>3, <2>4, OffsetKeeps
<1>11. ASSUME NEW p \in Proc, NEW fd \in Fd, NEW off \in -1 .. DATA_POOL, NEW whence \in 0 .. 2,
              SysLseek(p, fd, off, whence)
       PROVE  FdInv'
  <2> DEFINE e == fd_table[p][fd]
             size == fs.nodes[e.inode].len
             base == CASE whence = 0 -> 0 [] whence = 1 -> e.offset [] whence = 2 -> size
             at == off + base
             to == IF at < 0 THEN 0 ELSE IF at > size THEN size ELSE at
  <2>1. e.inode \in Node /\ e.offset \in Nat
    BY <1>1, PoolFacts DEF FdEntryType
  <2>2. size \in Nat /\ size <= DATA_POOL
    <3> HIDE DEF e
    <3> QED BY <1>0, <2>1, TypeFacts DEF RamInv, FsInv
  <2>3. fd_table' = [fd_table EXCEPT ![p][fd].offset = to] /\ UNCHANGED <<vars, alive, stale>> /\ alive[p]
    BY <1>11 DEF SysLseek
  <2>4. to \in 0 .. DATA_POOL
    <3> HIDE DEF e, size
    <3>1. base \in Nat
      BY <2>1, <2>2
    <3> HIDE DEF base
    <3>2. at \in Int
      BY <3>1, PoolFacts
    <3> HIDE DEF at
    <3> QED BY <2>2, <3>2, PoolFacts
  <2> HIDE DEF to
  <2> QED BY <2>3, <2>4, OffsetKeeps
<1> QED BY <1>2, <1>3, <1>4, <1>5, <1>6, <1>7, <1>8, <1>9, <1>10, <1>11 DEF FNext

LEMMA FdInvariant == FSpec => []FdInv
<1>1. FInit => FdInv
  <2> SUFFICES ASSUME FInit PROVE FdInv
    OBVIOUS
  <2>1. RamInv
    BY InitInv DEF FInit
  <2>2. alive = [p \in Proc |-> FALSE] /\ fd_table = [p \in Proc |-> FreeTable] /\ stale = {}
    BY DEF FInit
  <2>3. FdTypeOK
    BY <2>2, TableIs DEF FdTypeOK
  <2>4. \A p \in Proc, fd \in Fd : fd_table[p][fd].kind # "File"
    BY <2>2, TableIs
  <2> QED BY <2>1, <2>3, <2>4 DEF FdInv, DescriptorsNameFiles, DeadHoldNoFile
<1>2. FdInv /\ [FNext]_<<vars, fdVars>> => FdInv'
  <2>1. FdInv /\ FNext => FdInv'
    BY FdNextKeeps
  <2>2. FdInv /\ UNCHANGED <<vars, fdVars>> => FdInv'
    BY DEF vars, fdVars, FdInv, RamInv, FdTypeOK, DescriptorsNameFiles, DeadHoldNoFile
  <2> QED BY <2>1, <2>2
<1> QED BY <1>1, <1>2, PTL DEF FSpec

(* Descriptors name nodes, and the offset that sys_read and sys_lseek move  *)
(* stays within the data pool, also when the file shrinks in between.       *)
THEOREM DescriptorTypeOK == FSpec => []FdTypeOK
<1>1. FdInv => FdTypeOK
  BY DEF FdInv
<1> QED BY <1>1, FdInvariant, PTL

(* As long as the shell has not removed the file a descriptor was opened    *)
(* on, sys_write and sys_read through it reach a file.                      *)
THEOREM DescriptorsLeadToFiles == FSpec => []DescriptorsNameFiles
<1>1. FdInv => DescriptorsNameFiles
  BY DEF FdInv
<1> QED BY <1>1, FdInvariant, PTL

(* A slot whose process has ended holds no file, so that the next program   *)
(* in it inherits none.                                                     *)
THEOREM DeadSlotsHoldNoFile == FSpec => []DeadHoldNoFile
<1>1. FdInv => DeadHoldNoFile
  BY DEF FdInv
<1> QED BY <1>1, FdInvariant, PTL

(* What the commands promise of the file system holds, too, while programs  *)
(* write to its files through descriptors.                                  *)
THEOREM FilesUnderDescriptors ==
  FSpec => [](TypeOK /\ Tree /\ PathsResolve /\ FilesKeepContents)
<1>1. FdInv => TypeOK /\ Tree /\ PathsResolve /\ FilesKeepContents
  BY RamPromises DEF FdInv
<1> QED BY <1>1, FdInvariant, PTL
=============================================================================
