---------------------------- MODULE NetworkProofs ----------------------------
(***************************************************************************)
(* Proofs about the ARP cache and about the pages of http_get, for any      *)
(* hosts, any sizes of cache and buffers, and frames of any kind in any     *)
(* order, handled at any depth of nested waits.                             *)
(***************************************************************************)
EXTENDS Network, SequenceTheorems, TLAPS

Entry == [ip : Ip, mac : Mac]

(* Frames in the ring: an ARP packet names its sender *)
Wire ==
  [kind : {"arp"}, ip : Ip, mac : Mac, piece : {0}, even : BOOLEAN]
    \cup [kind : {"dns"}, ip : Ip \cup {NoIp}, mac : {0}, piece : {0}, even : BOOLEAN]
    \cup [kind : {"dns_empty", "synack", "fin", "junk", "malformed"}, ip : {NoIp}, mac : {0}, piece : {0}, even : BOOLEAN]
    \cup [kind : {"data"}, ip : {NoIp}, mac : {0}, piece : Nat, even : BOOLEAN]

(* An address is in the cache once, with the MAC l has for it *)
Latest(cache, l) ==
  \A i \in DOMAIN cache :
    /\ cache[i].mac = l[cache[i].ip]
    /\ \A j \in DOMAIN cache : cache[i].ip = cache[j].ip => i = j

AInv ==
  /\ arrivals \in Nat /\ rx \in Seq(Wire)
  /\ ARP_CACHE \in Seq(Entry) /\ last \in [Ip -> Mac \cup {0}]
  /\ Latest(ARP_CACHE, last)

-----------------------------------------------------------------------------
(* Appending an entry for an address that is not in the cache *)
LEMMA AppendLatest ==
  ASSUME NEW cache \in Seq(Entry), NEW l \in [Ip -> Mac \cup {0}], Latest(cache, l),
         NEW ip \in Ip, NEW mac \in Mac, \A i \in DOMAIN cache : cache[i].ip # ip
  PROVE  LET new == Append(cache, [ip |-> ip, mac |-> mac])
         IN  new \in Seq(Entry) /\ Latest(new, [l EXCEPT ![ip] = mac])
<1> DEFINE e == [ip |-> ip, mac |-> mac]
           new == Append(cache, e)
           m == [l EXCEPT ![ip] = mac]
<1>1. e \in Entry
  BY DEF Entry
<1>2. /\ new \in Seq(Entry) /\ Len(new) = Len(cache) + 1 /\ new[Len(cache) + 1] = e
      /\ \A i \in 1 .. Len(cache) : new[i] = cache[i]
  BY <1>1, AppendProperties
<1>3. DOMAIN cache = 1 .. Len(cache) /\ DOMAIN new = 1 .. Len(cache) + 1 /\ Len(cache) \in Nat
  <2>1. Len(cache) \in Nat /\ DOMAIN cache = 1 .. Len(cache)
    BY LenProperties
  <2>2. DOMAIN new = 1 .. Len(new)
    BY <1>2, LenProperties
  <2> QED BY <2>1, <2>2, <1>2
<1>4. m[ip] = mac /\ \A x \in Ip : x # ip => m[x] = l[x]
  OBVIOUS
<1>5. \A i \in DOMAIN cache : cache[i].ip \in Ip /\ cache[i].ip # ip /\ cache[i].mac = l[cache[i].ip]
  <2>1. TAKE i \in DOMAIN cache
  <2>2. i \in 1 .. Len(cache)
    BY <1>3
  <2>3. cache[i] \in Entry
    BY <2>2, ElementOfSeq
  <2>4. cache[i].ip \in Ip
    BY <2>3 DEF Entry
  <2>5. cache[i].mac = l[cache[i].ip]
    BY DEF Latest
  <2> QED BY <2>4, <2>5
<1>6. ASSUME NEW i \in DOMAIN new
      PROVE  new[i].mac = m[new[i].ip]
  <2>1. CASE i = Len(cache) + 1
    BY <2>1, <1>2, <1>4
  <2>2. CASE i \in 1 .. Len(cache)
    BY <2>2, <1>2, <1>3, <1>4, <1>5
  <2> QED BY <2>1, <2>2, <1>3
<1>7. ASSUME NEW i \in DOMAIN new, NEW j \in DOMAIN new, new[i].ip = new[j].ip
      PROVE  i = j
  <2>1. CASE i \in 1 .. Len(cache) /\ j \in 1 .. Len(cache)
    BY <2>1, <1>2, <1>3, <1>7 DEF Latest
  <2>2. CASE i = Len(cache) + 1 /\ j \in 1 .. Len(cache)
    BY <2>2, <1>2, <1>3, <1>5, <1>7
  <2>3. CASE j = Len(cache) + 1 /\ i \in 1 .. Len(cache)
    BY <2>3, <1>2, <1>3, <1>5, <1>7
  <2> QED BY <2>1, <2>2, <2>3, <1>3
<1> QED BY <1>2, <1>6, <1>7 DEF Latest

(* Removing the first entry *)
LEMMA TailLatest ==
  ASSUME NEW cache \in Seq(Entry), cache # <<>>, NEW l \in [Ip -> Mac \cup {0}], Latest(cache, l)
  PROVE  /\ Tail(cache) \in Seq(Entry) /\ Latest(Tail(cache), l)
         /\ \A i \in DOMAIN Tail(cache) : \E j \in DOMAIN cache : Tail(cache)[i] = cache[j]
<1>1. /\ Tail(cache) \in Seq(Entry) /\ Len(Tail(cache)) = Len(cache) - 1
      /\ \A i \in 1 .. Len(Tail(cache)) : Tail(cache)[i] = cache[i + 1]
  BY HeadTailProperties
<1>2. /\ DOMAIN cache = 1 .. Len(cache) /\ Len(cache) \in Nat
      /\ DOMAIN Tail(cache) = 1 .. Len(cache) - 1
  BY <1>1
<1>3. \A i \in DOMAIN Tail(cache) : i + 1 \in DOMAIN cache /\ Tail(cache)[i] = cache[i + 1]
  BY <1>1, <1>2
<1>4. \A i, j \in DOMAIN Tail(cache) : i + 1 = j + 1 => i = j
  BY <1>2
<1>5. Latest(Tail(cache), l)
  BY <1>3, <1>4 DEF Latest
<1> QED BY <1>1, <1>3, <1>5

(* arp_cache_add, whether it replaces, appends or evicts *)
LEMMA AddKeepsLatest ==
  ASSUME NEW cache \in Seq(Entry), NEW l \in [Ip -> Mac \cup {0}], Latest(cache, l),
         NEW ip \in Ip, NEW mac \in Mac
  PROVE  /\ ArpCacheAdd(cache, ip, mac) \in Seq(Entry)
         /\ Latest(ArpCacheAdd(cache, ip, mac), [l EXCEPT ![ip] = mac])
<1> DEFINE same == {i \in DOMAIN cache : cache[i].ip = ip}
           e == [ip |-> ip, mac |-> mac]
           m == [l EXCEPT ![ip] = mac]
<1>1. e \in Entry /\ m[ip] = mac /\ \A x \in Ip : x # ip => m[x] = l[x]
  BY DEF Entry
<1>2. DOMAIN cache = 1 .. Len(cache) /\ Len(cache) \in Nat /\ \A i \in DOMAIN cache : cache[i] \in Entry
  OBVIOUS
<1>3. CASE same # {}
  <2> DEFINE new == [i \in DOMAIN cache |-> IF i \in same THEN e ELSE cache[i]]
  <2>1. ArpCacheAdd(cache, ip, mac) = new
    BY <1>3 DEF ArpCacheAdd
  <2>2. new \in [1 .. Len(cache) -> Entry]
    BY <1>1, <1>2
  <2>3. new \in Seq(Entry)
    BY <2>2, <1>2, IsASeq
  <2>4. \A i \in DOMAIN cache : new[i].ip = cache[i].ip /\ cache[i].ip \in Ip
    BY <1>2 DEF Entry
  <2>5. ASSUME NEW i \in DOMAIN cache
        PROVE  new[i].mac = m[new[i].ip]
    <3>1. CASE i \in same
      BY <3>1, <1>1
    <3>2. CASE i \notin same
      BY <3>2, <1>1, <1>2, <2>4 DEF Latest
    <3> QED BY <3>1, <3>2
  <2>6. \A i, j \in DOMAIN cache : new[i].ip = new[j].ip => i = j
    BY <2>4 DEF Latest
  <2>7. DOMAIN new = DOMAIN cache
    OBVIOUS
  <2>8. Latest(new, m)
    BY <2>5, <2>6, <2>7 DEF Latest
  <2> QED BY <2>1, <2>3, <2>8
<1>4. CASE same = {} /\ Len(cache) < MAX_ARP
  <2>1. ArpCacheAdd(cache, ip, mac) = Append(cache, e)
    BY <1>4 DEF ArpCacheAdd
  <2>2. \A i \in DOMAIN cache : cache[i].ip # ip
    BY <1>4
  <2>3. Append(cache, e) \in Seq(Entry) /\ Latest(Append(cache, e), m)
    BY <2>2, AppendLatest
  <2> QED BY <2>1, <2>3, Zenon
<1>5. CASE same = {} /\ ~(Len(cache) < MAX_ARP)
  <2>1. ArpCacheAdd(cache, ip, mac) = Append(Tail(cache), e)
    BY <1>5 DEF ArpCacheAdd
  <2>2. MAX_ARP \in Nat \ {0}
    BY NetworkAssumption
  <2>3. Len(cache) # 0
    BY <2>2, <1>2, <1>5
  <2>4. cache # <<>>
    BY <2>3
  <2>5. /\ Tail(cache) \in Seq(Entry) /\ Latest(Tail(cache), l)
        /\ \A i \in DOMAIN Tail(cache) : Tail(cache)[i].ip # ip
    BY <2>4, <1>5, TailLatest
  <2>6. Append(Tail(cache), e) \in Seq(Entry) /\ Latest(Append(Tail(cache), e), m)
    BY <2>5, AppendLatest
  <2> QED BY <2>1, <2>6, Zenon
<1> QED BY <1>3, <1>4, <1>5

-----------------------------------------------------------------------------
LEMMA AInvInit == Init => AInv
<1> SUFFICES ASSUME Init PROVE AInv
  OBVIOUS
<1>1. arrivals \in Nat /\ rx \in Seq(Wire) /\ ARP_CACHE \in Seq(Entry) /\ last \in [Ip -> Mac \cup {0}]
  BY DEF Init
<1>2. Latest(ARP_CACHE, last)
  BY DEF Init, Latest
<1> QED BY <1>1, <1>2 DEF AInv

LEMMA AInvPoll ==
  ASSUME AInv, Poll
  PROVE  AInv'
<1>1. rx # <<>> /\ rx' = Tail(rx) /\ arrivals' = arrivals
  BY DEF Poll
<1>2. rx \in Seq(Wire) /\ Head(rx) \in Wire /\ rx' \in Seq(Wire)
  BY <1>1, HeadTailProperties DEF AInv
<1>3. CASE HandleArp(Head(rx))
  <2>1. /\ Head(rx).kind = "arp"
        /\ ARP_CACHE' = ArpCacheAdd(ARP_CACHE, Head(rx).ip, Head(rx).mac)
        /\ last' = [last EXCEPT ![Head(rx).ip] = Head(rx).mac]
    BY <1>3 DEF HandleArp
  <2>2. Head(rx).ip \in Ip /\ Head(rx).mac \in Mac
    BY <2>1, <1>2 DEF Wire
  <2>3. ARP_CACHE' \in Seq(Entry) /\ Latest(ARP_CACHE', last')
    BY <2>1, <2>2, AddKeepsLatest DEF AInv
  <2>4. last' \in [Ip -> Mac \cup {0}]
    BY <2>1, <2>2 DEF AInv
  <2>5. arrivals' \in Nat
    BY <1>1 DEF AInv
  <2> QED BY <1>2, <2>3, <2>4, <2>5 DEF AInv, Latest
<1>4. CASE HandleUdp(Head(rx)) \/ HandleTcp(Head(rx)) \/ Ignored(Head(rx))
  <2>1. UNCHANGED <<ARP_CACHE, last>>
    BY <1>4 DEF HandleUdp, HandleTcp, Ignored, netVars
  <2> QED BY <1>1, <1>2, <2>1 DEF AInv, Latest
<1>5. HandleArp(Head(rx)) \/ HandleUdp(Head(rx)) \/ HandleTcp(Head(rx)) \/ Ignored(Head(rx))
  BY DEF Poll
<1> QED BY <1>3, <1>4, <1>5

LEMMA AInvArrive ==
  ASSUME AInv, Arrive
  PROVE  AInv'
<1>1. PICK f \in Frame : rx' = Append(rx, f)
  BY DEF Arrive
<1>2. arrivals' = arrivals + 1 /\ arrivals \in Nat /\ rx \in Seq(Wire) /\ UNCHANGED <<ARP_CACHE, last>>
  BY DEF AInv, Arrive, netVars
<1>3. f \in Wire
  <2>1. arrivals + 1 \in Nat
    BY <1>2
  <2>2. CASE f \in [kind : {"arp"}, ip : Ip, mac : Mac, piece : {0}, even : BOOLEAN]
    BY <2>2 DEF Wire
  <2>3. CASE f \in [kind : {"dns"}, ip : Ip \cup {NoIp}, mac : {0}, piece : {0}, even : BOOLEAN]
    BY <2>3 DEF Wire
  <2>4. CASE f \in [kind : {"dns_empty", "synack", "fin", "junk", "malformed"}, ip : {NoIp}, mac : {0}, piece : {0}, even : BOOLEAN]
    BY <2>4 DEF Wire
  <2>5. CASE f \in [kind : {"data"}, ip : {NoIp}, mac : {0}, piece : {arrivals + 1}, even : BOOLEAN]
    BY <2>1, <2>5 DEF Wire
  <2> QED BY <2>2, <2>3, <2>4, <2>5 DEF Frame
<1>4. rx' \in Seq(Wire)
  BY <1>1, <1>2, <1>3, AppendProperties
<1> QED BY <1>2, <1>4 DEF AInv, Latest

LEMMA AInvStep ==
  ASSUME AInv, [Next]_vars
  PROVE  AInv'
<1>1. CASE Poll
  BY <1>1, AInvPoll
<1>2. CASE PollSkewed
  <2>1. UNCHANGED <<arrivals, ARP_CACHE, last>> /\ rx \in Seq(Wire)
    BY <1>2 DEF PollSkewed, netVars, AInv
  <2>2. rx' \in Seq(Wire)
    <3>1. rx' = <<>> \/ rx' = rx \/ (rx # <<>> /\ rx' = Tail(rx))
      BY <1>2 DEF PollSkewed
    <3>2. <<>> \in Seq(Wire)
      OBVIOUS
    <3> QED BY <3>1, <3>2, <2>1, HeadTailProperties
  <2> QED BY <2>1, <2>2 DEF AInv, Latest
<1>3. CASE ArpDone \/ DnsDone \/ ConnectDone \/ PageRead
  <2>1. UNCHANGED <<rx, arrivals, ARP_CACHE, last>>
    BY <1>3 DEF ArpDone, DnsDone, ConnectDone, PageRead, netVars, devVars
  <2> QED BY <2>1 DEF AInv, Latest
<1>4. CASE TimeOut \/ NetDhcp \/ DnsResolve("dns") \/ DnsResolve("dns_http") \/ UNCHANGED vars
  <2>1. UNCHANGED <<rx, arrivals, ARP_CACHE, last>>
    BY <1>4 DEF TimeOut, NetDhcp, DnsResolve, vars, netVars, devVars
  <2> QED BY <2>1 DEF AInv, Latest
<1>5. CASE NetInit
  <2>1. rx' = <<>> /\ UNCHANGED <<arrivals, ARP_CACHE, last>>
    BY <1>5 DEF NetInit, netVars
  <2>2. <<>> \in Seq(Wire)
    OBVIOUS
  <2> QED BY <2>1, <2>2 DEF AInv, Latest
<1>6. CASE Arrive
  BY <1>6, AInvArrive
<1> QED BY <1>1, <1>2, <1>3, <1>4, <1>5, <1>6 DEF Next, Loop

(* arp_cache_add through handle_arp: every cached address has the MAC it    *)
(* announced last, and is cached once.                                      *)
THEOREM CacheIsLatest == Spec => []ArpLatest
<1>1. Init => AInv
  BY AInvInit
<1>2. AInv /\ [Next]_vars => AInv'
  BY AInvStep
<1>3. AInv => ArpLatest
  BY DEF AInv, Latest, ArpLatest
<1> QED BY <1>1, <1>2, <1>3, PTL DEF Spec

-----------------------------------------------------------------------------
(* The pieces of a page.  k is what the buffers hold of them, g what came,   *)
(* o whether a buffer was full.                                              *)
Ascending(s) == \A i, j \in 1 .. Len(s) : i < j => s[i] < s[j]

Kept(k, g, o) ==
  /\ k \in Seq(Nat) /\ g \in Seq(Nat) /\ o \in BOOLEAN
  /\ Ascending(k)
  /\ \A i \in 1 .. Len(k) : \E j \in 1 .. Len(g) : k[i] = g[j]
  /\ ~o => k = g

(* Data frames in the ring r are in the order of their arrival, after what   *)
(* came out of it, and a frames have arrived                                 *)
Flight(r, g, a) ==
  /\ \A i \in 1 .. Len(r) : r[i].kind = "data" =>
       /\ r[i].piece <= a
       /\ \A j \in 1 .. Len(g) : g[j] < r[i].piece
       /\ \A j \in 1 .. Len(r) : i < j /\ r[j].kind = "data" => r[i].piece < r[j].piece
  /\ \A j \in 1 .. Len(g) : g[j] <= a

State == {"CLOSED", "SYN_SENT", "ESTABLISHED", "FIN_WAIT"}

PInv ==
  /\ AInv
  /\ TCP_CONN \in [state : State, dst : {TCP_CONN.dst}, rxbuf : Seq(Nat)]
  /\ out \in Seq(Nat) /\ Len(out) <= OUT
  /\ Kept(out \o TCP_CONN.rxbuf, got, overflow)
  /\ Flight(rx, got, arrivals)

LEMMA LenNat ==
  ASSUME NEW S, NEW s \in Seq(S)
  PROVE  Len(s) \in Nat /\ DOMAIN s = 1 .. Len(s) /\ \A i \in 1 .. Len(s) : s[i] \in S
  BY LenProperties, ElementOfSeq

(* The connection with other bytes in its receive buffer *)
LEMMA Refilled ==
  ASSUME NEW S, NEW D, NEW conn \in [state : S, dst : D, rxbuf : Seq(Nat)], NEW b \in Seq(Nat)
  PROVE  /\ [conn EXCEPT !.rxbuf = b] \in [state : S, dst : D, rxbuf : Seq(Nat)]
         /\ [conn EXCEPT !.rxbuf = b].rxbuf = b /\ [conn EXCEPT !.rxbuf = b].dst = conn.dst
  OBVIOUS

(* A byte put behind the second of two sequences is put behind both *)
LEMMA AppendAfter ==
  ASSUME NEW s \in Seq(Nat), NEW t \in Seq(Nat), NEW x \in Nat
  PROVE  s \o Append(t, x) = Append(s \o t, x)
<1> DEFINE u == <<x>>
           st == s \o t
<1>1. u \in Seq(Nat)
  OBVIOUS
<1>2. st \in Seq(Nat)
  BY ConcatProperties, Zenon
<1>3. Append(t, x) = t \o u
  BY AppendIsConcat, Zenon
<1>4. Append(st, x) = st \o u
  <2> HIDE DEF st
  <2> QED BY <1>2, AppendIsConcat, Zenon DEF u
<1>5. st \o u = s \o (t \o u)
  <2> HIDE DEF u
  <2> QED BY <1>1, ConcatAssociative DEF st
<1> QED BY <1>3, <1>4, <1>5, Zenon DEF st

(* A piece that is later than all others comes: it is kept, or dropped *)
LEMMA KeptAppend ==
  ASSUME NEW k, NEW g, NEW o, Kept(k, g, o), NEW p \in Nat,
         \A j \in 1 .. Len(g) : g[j] < p
  PROVE  Kept(Append(k, p), Append(g, p), o) /\ Kept(k, Append(g, p), TRUE)
<1> DEFINE K == Append(k, p)
           G == Append(g, p)
           m == Len(k)
           n == Len(g)
<1>1. /\ k \in Seq(Nat) /\ g \in Seq(Nat) /\ o \in BOOLEAN /\ Ascending(k)
      /\ \A i \in 1 .. m : \E j \in 1 .. n : k[i] = g[j]
      /\ ~o => k = g
  BY DEF Kept
<1>2. m \in Nat /\ n \in Nat /\ \A i \in 1 .. m : k[i] \in Nat
  BY <1>1, LenNat
<1>3. K \in Seq(Nat) /\ Len(K) = m + 1 /\ K[m + 1] = p /\ \A i \in 1 .. m : K[i] = k[i]
  BY <1>1, AppendProperties
<1>4. G \in Seq(Nat) /\ Len(G) = n + 1 /\ G[n + 1] = p /\ \A i \in 1 .. n : G[i] = g[i]
  BY <1>1, AppendProperties
<1>5. ~o => K = G
  BY <1>1
<1> HIDE DEF K, G
<1>6. \A i \in 1 .. m : k[i] < p
  BY <1>1
<1>7. Ascending(K)
  <2> SUFFICES ASSUME NEW i \in 1 .. m + 1, NEW j \in 1 .. m + 1, i < j PROVE K[i] < K[j]
    BY <1>3 DEF Ascending
  <2>1. i \in 1 .. m /\ (j = m + 1 \/ j \in 1 .. m)
    BY <1>2
  <2>2. CASE j = m + 1
    BY <1>3, <1>6, <2>1, <2>2
  <2>3. CASE j \in 1 .. m
    BY <1>1, <1>3, <2>1, <2>3 DEF Ascending
  <2> QED BY <2>1, <2>2, <2>3
<1>8. ASSUME NEW i \in 1 .. m PROVE \E j \in 1 .. n + 1 : k[i] = G[j]
  <2>1. PICK j \in 1 .. n : k[i] = g[j]
    BY <1>1
  <2>2. j \in 1 .. n + 1 /\ k[i] = G[j]
    BY <1>2, <1>4, <2>1
  <2> QED BY <2>2
<1>9. ASSUME NEW i \in 1 .. m + 1 PROVE \E j \in 1 .. n + 1 : K[i] = G[j]
  <2>1. CASE i = m + 1
    <3>1. n + 1 \in 1 .. n + 1
      BY <1>2
    <3> QED BY <1>3, <1>4, <2>1, <3>1
  <2>2. CASE i # m + 1
    <3>1. i \in 1 .. m
      BY <1>2, <2>2
    <3> QED BY <1>3, <1>8, <3>1
  <2> QED BY <2>1, <2>2
<1>10. Kept(K, G, o)
  BY <1>1, <1>3, <1>4, <1>5, <1>7, <1>9 DEF Kept
<1>11. Kept(k, G, TRUE)
  BY <1>1, <1>4, <1>8 DEF Kept
<1> QED BY <1>10, <1>11 DEF K, G

(* Only the first pieces are kept *)
LEMMA KeptPrefix ==
  ASSUME NEW k, NEW g, NEW o, Kept(k, g, o), NEW c \in Seq(Nat),
         Len(c) <= Len(k), \A i \in 1 .. Len(c) : c[i] = k[i]
  PROVE  Kept(c, g, TRUE)
<1>1. k \in Seq(Nat) /\ g \in Seq(Nat) /\ Ascending(k) /\ \A i \in 1 .. Len(k) : \E j \in 1 .. Len(g) : k[i] = g[j]
  BY DEF Kept
<1>2. \A i \in 1 .. Len(c) : i \in 1 .. Len(k)
  BY <1>1, LenNat
<1>3. Ascending(c)
  BY <1>1, <1>2 DEF Ascending
<1> QED BY <1>1, <1>2, <1>3 DEF Kept

LEMMA KeptNothing == Kept(<<>>, <<>>, FALSE) /\ Kept(<<>> \o <<>>, <<>>, FALSE)
<1>1. <<>> \in Seq(Nat) /\ Len(<<>>) = 0 /\ <<>> \o <<>> = <<>>
  BY ConcatEmptySeq, EmptySeq
<1> QED BY <1>1 DEF Kept, Ascending

(* The ring: poll_rx takes the first frame, *)
LEMMA FlightTake ==
  ASSUME NEW r \in Seq(Wire), r # <<>>, NEW g \in Seq(Nat), NEW a \in Nat, Flight(r, g, a)
  PROVE  /\ Flight(Tail(r), g, a)
         /\ Head(r).kind = "data" =>
              /\ Head(r).piece \in Nat /\ \A j \in 1 .. Len(g) : g[j] < Head(r).piece
              /\ Flight(Tail(r), Append(g, Head(r).piece), a)
<1> DEFINE t == Tail(r)
           p == Head(r).piece
<1>1. /\ t \in Seq(Wire) /\ Len(t) = Len(r) - 1 /\ Head(r) = r[1] /\ Len(r) \in Nat /\ Len(r) > 0
      /\ \A i \in 1 .. Len(t) : t[i] = r[i + 1]
  BY HeadTailProperties, LenNat, EmptySeq
<1>2. 1 \in 1 .. Len(r) /\ Len(t) \in Nat /\ Len(g) \in Nat
  BY <1>1, LenNat
<1> HIDE DEF t
<1>3. \A i \in 1 .. Len(t) : i + 1 \in 1 .. Len(r) /\ 1 < i + 1
  BY <1>1
<1>4. \A i, j \in 1 .. Len(t) : i < j => i + 1 < j + 1
  BY <1>1
<1>5. Flight(t, g, a)
  BY <1>1, <1>3, <1>4 DEF Flight
<1>6. ASSUME Head(r).kind = "data"
      PROVE  p \in Nat /\ (\A j \in 1 .. Len(g) : g[j] < p) /\ Flight(t, Append(g, p), a)
  <2>1. Head(r) \in Wire
    BY <1>1, <1>2, LenNat
  <2>2. p \in Nat
    BY <1>6, <2>1 DEF Wire
  <2>3. p <= a /\ \A j \in 1 .. Len(g) : g[j] < p
    BY <1>1, <1>2, <1>6 DEF Flight
  <2>4. \A i \in 1 .. Len(t) : t[i].kind = "data" => p < t[i].piece
    BY <1>1, <1>2, <1>3, <1>6 DEF Flight
  <2> DEFINE G == Append(g, p)
  <2>5. Len(G) = Len(g) + 1 /\ G[Len(g) + 1] = p /\ \A j \in 1 .. Len(g) : G[j] = g[j]
    BY <2>2, AppendProperties
  <2> HIDE DEF G, p
  <2>6. \A j \in 1 .. Len(G) : j \in 1 .. Len(g) \/ j = Len(g) + 1
    BY <1>2, <2>5
  <2>7. ASSUME NEW j \in 1 .. Len(G) PROVE G[j] <= a /\ \A i \in 1 .. Len(t) : t[i].kind = "data" => G[j] < t[i].piece
    <3>1. CASE j \in 1 .. Len(g)
      BY <1>5, <2>5, <3>1 DEF Flight
    <3>2. CASE j = Len(g) + 1
      BY <2>3, <2>4, <2>5, <3>2
    <3> QED BY <2>6, <3>1, <3>2
  <2>8. Flight(t, G, a)
    BY <1>5, <2>7 DEF Flight
  <2> QED BY <2>2, <2>3, <2>8 DEF G
<1> QED BY <1>5, <1>6 DEF t

(* and the chip appends one, the latest *)
LEMMA FlightArrive ==
  ASSUME NEW r \in Seq(Wire), NEW g \in Seq(Nat), NEW a \in Nat, Flight(r, g, a),
         NEW f \in Wire, f.kind = "data" => f.piece = a + 1
  PROVE  Flight(Append(r, f), g, a + 1)
<1> DEFINE R == Append(r, f)
           n == Len(r)
<1>1. Len(R) = n + 1 /\ R[n + 1] = f /\ (\A i \in 1 .. n : R[i] = r[i]) /\ n \in Nat
  BY AppendProperties, LenNat
<1> HIDE DEF R
<1>2. \A i \in 1 .. n : r[i].kind = "data" => r[i].piece \in Nat /\ r[i].piece <= a
  <2>1. \A i \in 1 .. n : r[i] \in Wire
    BY LenNat
  <2>2. \A i \in 1 .. n : r[i].kind = "data" => r[i].piece \in Nat
    BY <2>1 DEF Wire
  <2> QED BY <2>2 DEF Flight
<1>3. \A j \in 1 .. Len(g) : g[j] \in Nat /\ g[j] <= a
  BY LenNat DEF Flight
<1>4. ASSUME NEW i \in 1 .. n + 1, R[i].kind = "data"
      PROVE  /\ R[i].piece <= a + 1
             /\ \A j \in 1 .. Len(g) : g[j] < R[i].piece
             /\ \A j \in 1 .. n + 1 : i < j /\ R[j].kind = "data" => R[i].piece < R[j].piece
  <2>1. CASE i = n + 1
    BY <1>1, <1>3, <1>4, <2>1
  <2>2. CASE i # n + 1
    <3>1. i \in 1 .. n
      BY <1>1, <2>2
    <3>2. R[i].piece \in Nat /\ R[i].piece <= a /\ R[i] = r[i]
      BY <1>1, <1>2, <1>4, <3>1
    <3>3. R[i].piece <= a + 1 /\ \A j \in 1 .. Len(g) : g[j] < R[i].piece
      BY <1>4, <3>1, <3>2 DEF Flight
    <3>4. ASSUME NEW j \in 1 .. n + 1, i < j, R[j].kind = "data" PROVE R[i].piece < R[j].piece
      <4>1. CASE j = n + 1
        BY <1>1, <3>2, <3>4, <4>1
      <4>2. CASE j # n + 1
        <5>1. j \in 1 .. n /\ R[j] = r[j]
          BY <1>1, <4>2
        <5> QED BY <1>4, <3>1, <3>2, <3>4, <5>1 DEF Flight
      <4> QED BY <4>1, <4>2
    <3> QED BY <3>3, <3>4
  <2> QED BY <2>1, <2>2
<1>5. \A j \in 1 .. Len(g) : g[j] <= a + 1
  BY <1>3
<1> QED BY <1>1, <1>4, <1>5 DEF Flight, R

LEMMA FlightLess ==
  ASSUME NEW r, NEW g, NEW a, Flight(r, g, a)
  PROVE  Flight(r, <<>>, a) /\ Flight(<<>>, g, a)
<1>1. Len(<<>>) = 0
  OBVIOUS
<1> QED BY <1>1 DEF Flight

-----------------------------------------------------------------------------
LEMMA PInvInit == Init => PInv
<1> SUFFICES ASSUME Init PROVE PInv
  OBVIOUS
<1>1. /\ TCP_CONN = [state |-> "CLOSED", dst |-> NoIp, rxbuf |-> <<>>]
      /\ out = <<>> /\ got = <<>> /\ overflow = FALSE /\ rx = <<>>
  BY DEF Init
<1>2. TCP_CONN \in [state : State, dst : {TCP_CONN.dst}, rxbuf : Seq(Nat)]
  BY <1>1 DEF State
<1>3. out \in Seq(Nat) /\ Len(out) <= OUT
  <2>1. OUT \in Nat
    BY NetworkAssumption
  <2> QED BY <1>1, <2>1
<1>4. Kept(out \o TCP_CONN.rxbuf, got, overflow)
  BY <1>1, KeptNothing
<1>5. Flight(rx, got, arrivals)
  BY <1>1 DEF Flight
<1> QED BY <1>2, <1>3, <1>4, <1>5, AInvInit DEF PInv

(* Steps that leave the page alone *)
LEMMA PInvFrame ==
  ASSUME PInv, AInv', UNCHANGED <<out, got, overflow>>, Flight(rx', got, arrivals'),
         TCP_CONN' = TCP_CONN \/ \E s \in State : TCP_CONN' = [TCP_CONN EXCEPT !.state = s]
  PROVE  PInv'
<1>1. TCP_CONN \in [state : State, dst : {TCP_CONN.dst}, rxbuf : Seq(Nat)]
  BY DEF PInv
<1>2. TCP_CONN' \in [state : State, dst : {TCP_CONN.dst}, rxbuf : Seq(Nat)] /\ TCP_CONN'.rxbuf = TCP_CONN.rxbuf
  BY <1>1
<1>3. TCP_CONN'.dst = TCP_CONN.dst
  BY <1>2
<1> QED BY <1>2, <1>3 DEF PInv

(* tcp_connect begins a page *)
LEMMA PInvConnect ==
  ASSUME PInv, AInv', NEW s, NEW dst, TcpConnect(s, dst), UNCHANGED <<rx, arrivals>>
  PROVE  PInv'
<1>1. /\ TCP_CONN' = [state |-> "SYN_SENT", dst |-> dst, rxbuf |-> <<>>]
      /\ out' = <<>> /\ got' = <<>> /\ overflow' = FALSE
  BY DEF TcpConnect
<1>2. TCP_CONN' \in [state : State, dst : {TCP_CONN'.dst}, rxbuf : Seq(Nat)]
  BY <1>1 DEF State
<1>3. out' \in Seq(Nat) /\ Len(out') <= OUT
  <2>1. OUT \in Nat
    BY NetworkAssumption
  <2> QED BY <1>1, <2>1
<1>4. Kept(out' \o TCP_CONN'.rxbuf, got', overflow')
  BY <1>1, KeptNothing
<1>5. Flight(rx', got', arrivals')
  BY <1>1, FlightLess DEF PInv
<1> QED BY <1>2, <1>3, <1>4, <1>5 DEF PInv

LEMMA PInvPoll ==
  ASSUME PInv, Poll
  PROVE  PInv'
<1> DEFINE f == Head(rx)
<1>1. rx # <<>> /\ rx' = Tail(rx) /\ arrivals' = arrivals /\ out' = out
  BY DEF Poll
<1>2. AInv' /\ rx \in Seq(Wire) /\ arrivals \in Nat /\ got \in Seq(Nat)
  BY AInvPoll DEF PInv, AInv, Kept
<1>3. /\ Flight(rx', got, arrivals')
      /\ f.kind = "data" =>
           /\ f.piece \in Nat /\ \A j \in 1 .. Len(got) : got[j] < f.piece
           /\ Flight(rx', Append(got, f.piece), arrivals')
  BY <1>1, <1>2, FlightTake DEF PInv
<1> HIDE DEF f
<1>4. CASE HandleArp(f) \/ HandleUdp(f) \/ Ignored(f)
  <2>1. UNCHANGED <<TCP_CONN, got, overflow>>
    BY <1>4 DEF HandleArp, HandleUdp, Ignored, netVars
  <2> QED BY <1>1, <1>2, <1>3, <2>1, PInvFrame
<1>5. CASE TcpSynAck(f) \/ TcpFin(f)
  <2>1. UNCHANGED <<got, overflow>> /\ \E s \in State : TCP_CONN' = [TCP_CONN EXCEPT !.state = s]
    BY <1>5 DEF TcpSynAck, TcpFin, State
  <2> QED BY <1>1, <1>2, <1>3, <2>1, PInvFrame
<1>6. CASE TcpData(f)
  <2> DEFINE p == f.piece
             b == TCP_CONN.rxbuf
             c == IF Len(b) < RXBUF THEN Append(b, p) ELSE b
  <2>1. /\ f.kind = "data" /\ TCP_CONN' = [TCP_CONN EXCEPT !.rxbuf = c]
        /\ got' = Append(got, p) /\ overflow' = (overflow \/ Len(b) >= RXBUF)
    BY <1>6 DEF TcpData
  <2>2. p \in Nat /\ (\A j \in 1 .. Len(got) : got[j] < p) /\ Flight(rx', got', arrivals')
    BY <1>3, <2>1
  <2>3. TCP_CONN \in [state : State, dst : {TCP_CONN.dst}, rxbuf : Seq(Nat)] /\ b \in Seq(Nat) /\ Len(b) \in Nat
    BY LenNat DEF PInv
  <2>4. Append(b, p) \in Seq(Nat)
    BY <2>2, <2>3, AppendProperties
  <2> HIDE DEF p
  <2>5. c \in Seq(Nat)
    BY <2>3, <2>4
  <2>6. out \in Seq(Nat) /\ out' \in Seq(Nat) /\ Len(out') <= OUT
    BY <1>1 DEF PInv
  <2>7. out \o Append(b, p) = Append(out \o b, p)
    <3> HIDE DEF b
    <3> QED BY <2>2, <2>3, <2>6, AppendAfter, Zenon
  <2>8. Kept(Append(out \o b, p), Append(got, p), overflow) /\ Kept(out \o b, Append(got, p), TRUE)
    BY <2>2, KeptAppend DEF PInv
  <2>9. Kept(out \o c, got', overflow')
    <3>1. RXBUF \in Nat
      BY NetworkAssumption
    <3>2. CASE Len(b) < RXBUF
      <4>1. c = Append(b, p) /\ ~(Len(b) >= RXBUF) /\ overflow \in BOOLEAN
        BY <2>3, <3>1, <3>2 DEF PInv, Kept
      <4>2. overflow' = overflow
        BY <2>1, <4>1
      <4> QED BY <2>1, <2>7, <2>8, <4>1, <4>2
    <3>3. CASE ~(Len(b) < RXBUF)
      <4>1. c = b /\ Len(b) >= RXBUF
        BY <2>3, <3>1, <3>3
      <4>2. overflow' = TRUE
        BY <2>1, <4>1
      <4> QED BY <2>1, <2>8, <4>1, <4>2
    <3> QED BY <3>2, <3>3
  <2> HIDE DEF b, c
  <2>10. TCP_CONN' \in [state : State, dst : {TCP_CONN.dst}, rxbuf : Seq(Nat)] /\ TCP_CONN'.rxbuf = c /\ TCP_CONN'.dst = TCP_CONN.dst
    BY <2>1, <2>3, <2>5, Refilled, Zenon
  <2> QED BY <1>1, <1>2, <2>2, <2>6, <2>9, <2>10 DEF PInv
<1> QED BY <1>4, <1>5, <1>6 DEF Poll, HandleTcp, f

(* tcp_read_data, into a page with room *)
LEMMA PInvRead ==
  ASSUME PInv, PageRead
  PROVE  PInv'
<1> DEFINE b == TCP_CONN.rxbuf
           room == OUT - Len(out)
           n == IF Len(b) < room THEN Len(b) ELSE room
           c == SubSeq(b, 1, n)
<1>1. /\ out' = out \o c /\ overflow' = (overflow \/ n < Len(b)) /\ TCP_CONN' = [TCP_CONN EXCEPT !.rxbuf = <<>>]
      /\ UNCHANGED <<got, rx, arrivals, ARP_CACHE, last>>
  BY DEF PageRead, TcpReadData, devVars
<1>2. /\ TCP_CONN \in [state : State, dst : {TCP_CONN.dst}, rxbuf : Seq(Nat)] /\ b \in Seq(Nat) /\ Len(b) \in Nat
      /\ out \in Seq(Nat) /\ Len(out) \in Nat /\ Len(out) <= OUT /\ OUT \in Nat
  BY LenNat, NetworkAssumption DEF PInv
<1>3. n \in Nat /\ n <= Len(b) /\ n <= OUT - Len(out)
  BY <1>2
<1> HIDE DEF n, b, room
<1>4. c \in Seq(Nat) /\ Len(c) = n /\ \A i \in 1 .. n : c[i] = b[i]
  <2>1. \A i \in 1 .. n : b[i] \in Nat /\ i \in 1 .. Len(b)
    BY <1>2, <1>3, LenNat
  <2>2. /\ SubSeq(b, 1, n) \in Seq(Nat) /\ Len(SubSeq(b, 1, n)) = IF 1 <= n THEN n - 1 + 1 ELSE 0
        /\ \A i \in 1 .. n - 1 + 1 : SubSeq(b, 1, n)[i] = b[1 + i - 1]
    BY <1>3, <2>1, SubSeqProperties
  <2>3. n - 1 + 1 = n /\ \A i \in 1 .. n : 1 + i - 1 = i
    BY <1>3
  <2>4. Len(SubSeq(b, 1, n)) = n
    BY <1>3, <2>2
  <2> QED BY <2>2, <2>3, <2>4
<1> HIDE DEF c
<1> DEFINE k == out \o b
           d == out \o c
<1>5. /\ k \in Seq(Nat) /\ Len(k) = Len(out) + Len(b)
      /\ \A i \in 1 .. Len(out) + Len(b) : k[i] = IF i <= Len(out) THEN out[i] ELSE b[i - Len(out)]
  BY <1>2, ConcatProperties
<1>6. /\ d \in Seq(Nat) /\ Len(d) = Len(out) + n
      /\ \A i \in 1 .. Len(out) + n : d[i] = IF i <= Len(out) THEN out[i] ELSE c[i - Len(out)]
  BY <1>2, <1>4, ConcatProperties
<1>7. Kept(k, got, overflow)
  BY DEF PInv, b
<1> HIDE DEF k, d
<1>8. ASSUME NEW i \in 1 .. Len(out) + n PROVE d[i] = k[i]
  <2>1. i \in 1 .. Len(out) + Len(b)
    BY <1>2, <1>3
  <2>2. CASE i <= Len(out)
    BY <1>5, <1>6, <2>1, <2>2
  <2>3. CASE ~(i <= Len(out))
    <3>1. i - Len(out) \in 1 .. n
      BY <1>2, <1>3, <2>3
    <3> QED BY <1>4, <1>5, <1>6, <2>1, <2>3, <3>1
  <2> QED BY <2>2, <2>3
<1>9. Len(d) <= Len(k) /\ Len(d) <= OUT
  BY <1>2, <1>3, <1>5, <1>6
<1>10. Kept(d, got, overflow')
  <2>1. CASE n < Len(b)
    <3>1. overflow' = TRUE
      BY <1>1, <2>1
    <3> QED BY <1>6, <1>7, <1>8, <1>9, <3>1, KeptPrefix
  <2>2. CASE ~(n < Len(b))
    <3>1. n = Len(b)
      BY <1>2, <1>3, <2>2
    <3>2. d = k
      BY <1>5, <1>6, <1>8, <3>1, SeqEqual
    <3>3. overflow \in BOOLEAN
      BY <1>7 DEF Kept
    <3>4. overflow' = overflow
      BY <1>1, <2>2, <3>3
    <3> QED BY <1>7, <3>2, <3>4
  <2> QED BY <2>1, <2>2
<1>11. TCP_CONN' \in [state : State, dst : {TCP_CONN.dst}, rxbuf : Seq(Nat)] /\ TCP_CONN'.rxbuf = <<>> /\ TCP_CONN'.dst = TCP_CONN.dst
  <2>1. <<>> \in Seq(Nat)
    OBVIOUS
  <2> QED BY <1>1, <1>2, <2>1, Refilled, Zenon
<1>12. out' = d /\ d \o <<>> = d
  BY <1>1, <1>6, ConcatEmptySeq DEF d
<1>13. AInv'
  BY <1>1 DEF PInv, AInv, Latest
<1>14. Flight(rx', got', arrivals')
  BY <1>1 DEF PInv
<1> QED BY <1>1, <1>6, <1>9, <1>10, <1>11, <1>12, <1>13, <1>14 DEF PInv

LEMMA PInvStep ==
  ASSUME PInv, [Next]_vars
  PROVE  PInv'
<1>1. AInv' /\ AInv
  BY AInvStep DEF PInv
<1>2. Flight(rx, got, arrivals) /\ rx \in Seq(Wire) /\ got \in Seq(Nat) /\ arrivals \in Nat
  BY DEF PInv, AInv, Kept
<1>3. CASE Poll
  BY <1>3, PInvPoll
<1>4. CASE PageRead
  BY <1>4, PInvRead
<1>5. CASE PollSkewed \/ NetInit
  <2>1. UNCHANGED <<arrivals, out, got, overflow, TCP_CONN>>
    BY <1>5 DEF PollSkewed, NetInit, netVars
  <2>2. rx' = <<>> \/ rx' = rx \/ (rx # <<>> /\ rx' = Tail(rx))
    BY <1>5 DEF PollSkewed, NetInit
  <2>3. Flight(rx', got, arrivals)
    BY <1>2, <2>2, FlightTake, FlightLess
  <2> QED BY <1>1, <2>1, <2>3, PInvFrame
<1>6. CASE Arrive
  <2>1. PICK f \in Frame : rx' = Append(rx, f)
    BY <1>6 DEF Arrive
  <2>2. arrivals' = arrivals + 1 /\ UNCHANGED <<out, got, overflow, TCP_CONN>>
    BY <1>6 DEF Arrive, netVars
  <2>3. f \in Wire /\ (f.kind = "data" => f.piece = arrivals + 1)
    <3>1. arrivals + 1 \in Nat
      BY <1>2
    <3>2. CASE f \in [kind : {"arp"}, ip : Ip, mac : Mac, piece : {0}, even : BOOLEAN]
      BY <3>2 DEF Wire
    <3>3. CASE f \in [kind : {"dns"}, ip : Ip \cup {NoIp}, mac : {0}, piece : {0}, even : BOOLEAN]
      BY <3>3 DEF Wire
    <3>4. CASE f \in [kind : {"dns_empty", "synack", "fin", "junk", "malformed"}, ip : {NoIp}, mac : {0}, piece : {0}, even : BOOLEAN]
      BY <3>4 DEF Wire
    <3>5. CASE f \in [kind : {"data"}, ip : {NoIp}, mac : {0}, piece : {arrivals + 1}, even : BOOLEAN]
      BY <3>1, <3>5 DEF Wire
    <3> QED BY <3>2, <3>3, <3>4, <3>5 DEF Frame
  <2>4. Flight(rx', got, arrivals')
    BY <1>2, <2>1, <2>2, <2>3, FlightArrive
  <2> QED BY <1>1, <2>2, <2>4, PInvFrame
<1>7. CASE ArpDone \/ ConnectDone \/ NetDhcp \/ UNCHANGED vars
  <2>1. UNCHANGED <<rx, arrivals, out, got, overflow, TCP_CONN>>
    BY <1>7 DEF ArpDone, ConnectDone, NetDhcp, vars, devVars, netVars
  <2> QED BY <1>1, <1>2, <2>1, PInvFrame
<1>8. CASE TimeOut
  <2>1. UNCHANGED <<rx, arrivals, out, got, overflow>>
    BY <1>8 DEF TimeOut, devVars
  <2>2. TCP_CONN' = TCP_CONN \/ \E s \in State : TCP_CONN' = [TCP_CONN EXCEPT !.state = s]
    BY <1>8 DEF TimeOut, ArpTimeOut, LoopTimeOut, State
  <2> QED BY <1>1, <1>2, <2>1, <2>2, PInvFrame
<1>9. CASE DnsDone
  <2>1. UNCHANGED <<rx, arrivals>>
    BY <1>9 DEF DnsDone, devVars
  <2>2. TcpConnect(Below, DNS_RESP[1]) \/ UNCHANGED <<TCP_CONN, out, got, overflow>>
    BY <1>9 DEF DnsDone
  <2> QED BY <1>1, <1>2, <2>1, <2>2, PInvFrame, PInvConnect
<1>10. ASSUME NEW for \in {"dns", "dns_http"}, DnsResolve(for) PROVE PInv'
  <2>1. UNCHANGED <<rx, arrivals>>
    BY <1>10 DEF DnsResolve, devVars
  <2>2. TcpConnect(stack, DNS_CACHE[1]) \/ UNCHANGED <<TCP_CONN, out, got, overflow>>
    BY <1>10 DEF DnsResolve
  <2> QED BY <1>1, <1>2, <2>1, <2>2, PInvFrame, PInvConnect
<1> QED BY <1>3, <1>4, <1>5, <1>6, <1>7, <1>8, <1>9, <1>10 DEF Next, Loop

LEMMA PInvPieces ==
  ASSUME PInv
  PROVE  PiecesKept
<1> DEFINE k == out \o TCP_CONN.rxbuf
<1>1. Kept(k, got, overflow)
  BY DEF PInv
<1> HIDE DEF k
<1>2. DOMAIN k = 1 .. Len(k) /\ DOMAIN got = 1 .. Len(got)
  BY <1>1, LenNat DEF Kept
<1>3. \A i, j \in DOMAIN k : i < j => k[i] < k[j]
  BY <1>1, <1>2 DEF Kept, Ascending
<1>4. ToSet(k) \subseteq ToSet(got)
  BY <1>1, <1>2 DEF Kept, ToSet
<1>5. ~overflow => k = got
  BY <1>1 DEF Kept
<1> QED BY <1>3, <1>4, <1>5 DEF PiecesKept, k

(* handle_tcp and tcp_read_data hand http_get the pieces of a page in the    *)
(* order of their arrival, none twice, and all of them unless a buffer was   *)
(* full, for any sizes of the buffers, any frames and any nesting of waits.  *)
THEOREM PagesArePiecedTogether == Spec => []PiecesKept
<1>1. Init => PInv
  BY PInvInit
<1>2. PInv /\ [Next]_vars => PInv'
  BY PInvStep
<1>3. PInv => PiecesKept
  BY PInvPieces
<1> QED BY <1>1, <1>2, <1>3, PTL DEF Spec
=============================================================================
