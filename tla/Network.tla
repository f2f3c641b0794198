------------------------------- MODULE Network -------------------------------
(***************************************************************************)
(* The network stack of kernel/src/net and the shell command net.          *)
(*                                                                         *)
(* There are no interrupts: a command sends, then polls the receive ring   *)
(* of the RTL8139 until what it waits for has come or a number of ticks    *)
(* has passed.  Waits nest: whoever sends an IPv4 packet may first have to *)
(* wait for ARP, and that wait handles incoming frames of every kind, TCP  *)
(* segments too, whose acknowledgements may have to wait for ARP again.    *)
(* The waits under way are the stack.                                      *)
(*                                                                         *)
(* The stack of code looks at no sequence number, port (but one) or sender *)
(* address, so the network is any frame at any time: late, stray, repeated *)
(* and out of order; a lost frame is one that never arrives.  A TCP        *)
(* payload is a piece, numbered by its arrival.                            *)
(*                                                                         *)
(* Nothing in the repository starts the timer that ticks (APIC_READY is    *)
(* FALSE in the kernel as it is), so its waits have no end.  What must     *)
(* not go wrong is stated for a kernel with ticks as well, since then a    *)
(* wait may end at any moment.                                             *)
(***************************************************************************)
EXTENDS Integers, Sequences, FiniteSets, SequencesExt

CONSTANTS
  Ip, Mac,            \* addresses of other hosts
  NoIp,               \* 0.0.0.0
  DNS_SERVER,         \* NoIp in the repository: nothing sets it
  APIC_READY,         \* whether TICK_COUNT advances; FALSE in the repository
  MAX_ARP, MAX_UDP_HANDLERS, DNS_CACHE_SIZE,
  RXBUF, OUT,         \* pieces that conn.rxbuf and the page of http_get hold
  RX_RING,            \* frames the receive ring holds
  MaxArrivals         \* bound: frames that arrive in all

ASSUME NetworkAssumption ==
  /\ NoIp \notin Ip /\ DNS_SERVER \in Ip \cup {NoIp}
  /\ APIC_READY \in BOOLEAN
  /\ {MAX_ARP, MAX_UDP_HANDLERS, DNS_CACHE_SIZE, RXBUF, OUT, RX_RING} \subseteq Nat \ {0}

VARIABLES
  ready,         \* DMA.initialized
  rx,            \* frames between rx_cur and the chip's CBR
  skewed,        \* rx_cur is not at the start of a frame
  arrivals,      \* frames that have arrived
  halted,        \* the kernel has panicked
  ARP_CACHE, UDP_HANDLERS, DNS_CACHE, DNS_RESP, TCP_CONN,
  stack,         \* the waits under way, the innermost last
  out,           \* the page that http_get has copied
  last,          \* history: the last MAC each address announced
  got,           \* history: pieces that came while the connection was up
  overflow       \* history: a piece found rxbuf or the page full

devVars == <<ready, rx, skewed, arrivals, halted>>
netVars == <<ARP_CACHE, UDP_HANDLERS, DNS_CACHE, DNS_RESP, TCP_CONN>>
vars == <<devVars, netVars, stack, out, last, got, overflow>>

Busy == stack # <<>> /\ ~halted
Top == stack[Len(stack)]
Below == Front(stack)

Wait(for) == [for |-> for, ip |-> NoIp, tries |-> 0, pkt |-> ""]
ArpWait(ip, pkt) == [for |-> "arp", ip |-> ip, tries |-> 1, pkt |-> pkt]

-----------------------------------------------------------------------------
(* ARP *)

(* Mutant: an address that is cached already is entered once more *)
ArpCacheAddAgain(cache, ip, mac) ==
  IF Len(cache) < MAX_ARP THEN Append(cache, [ip |-> ip, mac |-> mac])
  ELSE Append(Tail(cache), [ip |-> ip, mac |-> mac])

(* arp_cache_add: replace, else append, else evict the first entry *)
ArpCacheAdd(cache, ip, mac) ==
  LET same == {i \in DOMAIN cache : cache[i].ip = ip}
  IN  IF same # {} THEN [i \in DOMAIN cache |-> IF i \in same THEN [ip |-> ip, mac |-> mac] ELSE cache[i]]
      ELSE IF Len(cache) < MAX_ARP THEN Append(cache, [ip |-> ip, mac |-> mac])
      ELSE Append(Tail(cache), [ip |-> ip, mac |-> mac])

(* arp_cache_lookup succeeds *)
Cached(cache, ip) == \E i \in DOMAIN cache : cache[i].ip = ip

(* send_ipv4 with the waits s under way: without a cached MAC, arp_resolve  *)
(* broadcasts a request and waits.                                          *)
SendIpv4(s, ip, pkt) == IF Cached(ARP_CACHE, ip) THEN s ELSE Append(s, ArpWait(ip, pkt))

(* send_udp of a query, send_tcp_raw of a segment to the peer dst *)
SendUdp(s, ip) == SendIpv4(s, ip, "query")
SendTcpRaw(s, dst) == SendIpv4(s, dst, "segment")

(* udp_listen: one more handler, even for a port that has one *)
UdpListen == UDP_HANDLERS' = IF UDP_HANDLERS < MAX_UDP_HANDLERS THEN UDP_HANDLERS + 1 ELSE UDP_HANDLERS

-----------------------------------------------------------------------------
(* Handlers of incoming frames *)

(* handle_arp: the sender is cached, whatever the packet asks or answers *)
HandleArp(f) ==
  /\ f.kind = "arp"
  /\ ARP_CACHE' = ArpCacheAdd(ARP_CACHE, f.ip, f.mac)
  /\ last' = [last EXCEPT ![f.ip] = f.mac]
  /\ UNCHANGED <<UDP_HANDLERS, DNS_CACHE, DNS_RESP, TCP_CONN, stack, got, overflow>>

(* handle_udp and dns_callback: any response, to whichever query, and an    *)
(* empty one takes back what came before                                    *)
HandleUdp(f) ==
  /\ f.kind \in {"dns", "dns_empty"}
  /\ DNS_RESP' = IF UDP_HANDLERS = 0 THEN DNS_RESP
                 ELSE IF f.kind = "dns" THEN <<f.ip>> ELSE <<>>
  /\ UNCHANGED <<ARP_CACHE, UDP_HANDLERS, DNS_CACHE, TCP_CONN, stack, last, got, overflow>>

(* handle_tcp.  A segment with data returns before its FIN is looked at. *)
TcpSynAck(f) ==
  /\ f.kind = "synack" /\ TCP_CONN.state = "SYN_SENT"
  /\ TCP_CONN' = [TCP_CONN EXCEPT !.state = "ESTABLISHED"]
  /\ stack' = SendTcpRaw(stack, TCP_CONN.dst)
  /\ UNCHANGED <<got, overflow>>

(* Mutant: the last piece overwrites another when the buffer is full *)
TcpDataOverwrites(f) ==
  /\ f.kind = "data" /\ TCP_CONN.state = "ESTABLISHED"
  /\ TCP_CONN' = [TCP_CONN EXCEPT !.rxbuf =
                    IF Len(@) < RXBUF THEN Append(@, f.piece) ELSE <<f.piece>>]
  /\ got' = Append(got, f.piece)
  /\ UNCHANGED overflow
  /\ stack' = SendTcpRaw(stack, TCP_CONN.dst)

TcpData(f) ==
  /\ f.kind = "data" /\ TCP_CONN.state = "ESTABLISHED"
  /\ TCP_CONN' = [TCP_CONN EXCEPT !.rxbuf = IF Len(@) < RXBUF THEN Append(@, f.piece) ELSE @]
  /\ got' = Append(got, f.piece)
  /\ overflow' = (overflow \/ Len(TCP_CONN.rxbuf) >= RXBUF)
  /\ stack' = SendTcpRaw(stack, TCP_CONN.dst)

TcpFin(f) ==
  /\ f.kind = "fin" /\ TCP_CONN.state = "ESTABLISHED"
  /\ TCP_CONN' = [TCP_CONN EXCEPT !.state = "FIN_WAIT"]
  /\ stack' = SendTcpRaw(stack, TCP_CONN.dst)
  /\ UNCHANGED <<got, overflow>>

HandleTcp(f) ==
  /\ TcpSynAck(f) \/ TcpData(f) \/ TcpFin(f)
  /\ UNCHANGED <<ARP_CACHE, UDP_HANDLERS, DNS_CACHE, DNS_RESP, last>>

(* A header that handle_ipv4 or handle_udp indexes past: options in the IP  *)
(* header, a total length below the header's, a UDP length below 8.         *)
Malformed(f) == f.kind = "malformed"

(* Frames that no handler takes: other types, bad checksums, short ones *)
Ignored(f) ==
  /\ \/ f.kind = "junk"
     \/ f.kind = "synack" /\ TCP_CONN.state # "SYN_SENT"
     \/ f.kind \in {"data", "fin"} /\ TCP_CONN.state # "ESTABLISHED"
     \/ Malformed(f)
  /\ UNCHANGED <<netVars, stack, last, got, overflow>>

-----------------------------------------------------------------------------
(* Loops.  Done: what the innermost loop tests after each poll has come. *)

Done ==
  CASE Top.for = "arp" -> Cached(ARP_CACHE, Top.ip)
    [] Top.for = "dhcp" -> FALSE
    [] Top.for = "dns" -> DNS_RESP # <<>>
    [] Top.for = "dns_http" -> DNS_RESP # <<>>
    [] Top.for = "connect" -> TCP_CONN.state = "ESTABLISHED"
    [] Top.for = "page" -> TCP_CONN.rxbuf # <<>> \/ TCP_CONN.state = "FIN_WAIT"

(* poll_rx finds a frame, and handle_rx dispatches it.  The chip starts the *)
(* next frame at a multiple of 4, to which rx_cur is not rounded.  A panic  *)
(* stops the kernel.                                                        *)
Poll ==
  /\ Busy /\ ~Done /\ ready /\ ~skewed /\ rx # <<>>
  /\ rx' = Tail(rx)
  /\ skewed' = ~Head(rx).even
  /\ halted' = Malformed(Head(rx))
  /\ LET f == Head(rx) IN HandleArp(f) \/ HandleUdp(f) \/ HandleTcp(f) \/ Ignored(f)
  /\ UNCHANGED <<ready, arrivals, out>>

(* poll_rx takes other bytes for a header: it gives up all frames, or hands *)
(* garbage to handle_rx and is off by some other amount, or reads past the  *)
(* end of raw_rx, which panics.                                             *)
PollSkewed ==
  /\ Busy /\ ~Done /\ ready /\ skewed
  /\ rx' \in {<<>>, rx} \cup (IF rx = <<>> THEN {} ELSE {Tail(rx)})
  /\ skewed' \in BOOLEAN
  /\ halted' \in BOOLEAN
  /\ rx' = rx => halted' \/ ~skewed'
  /\ UNCHANGED <<ready, arrivals, netVars, stack, out, last, got, overflow>>

(* arp_resolve returns, and send_ipv4 transmits *)
ArpDone ==
  /\ Busy /\ Top.for = "arp" /\ Done
  /\ stack' = Below
  /\ UNCHANGED <<devVars, netVars, out, last, got, overflow>>

(* tcp_connect(dst): SYN is sent once; whether it could be sent is ignored *)
TcpConnect(s, dst) ==
  /\ TCP_CONN' = [state |-> "SYN_SENT", dst |-> dst, rxbuf |-> <<>>]
  /\ stack' = SendTcpRaw(Append(s, Wait("connect")), dst)
  /\ out' = <<>> /\ got' = <<>> /\ overflow' = FALSE

(* dns_resolve got a response: the first A record is cached *)
DnsDone ==
  /\ Busy /\ Top.for \in {"dns", "dns_http"} /\ Done
  /\ DNS_CACHE' = IF DNS_RESP # <<NoIp>> /\ Len(DNS_CACHE) < DNS_CACHE_SIZE
                  THEN DNS_CACHE \o DNS_RESP ELSE DNS_CACHE
  /\ IF Top.for = "dns_http" /\ DNS_RESP # <<NoIp>>
       THEN TcpConnect(Below, DNS_RESP[1])
       ELSE stack' = Below /\ UNCHANGED <<TCP_CONN, out, got, overflow>>
  /\ UNCHANGED <<devVars, ARP_CACHE, UDP_HANDLERS, DNS_RESP, last>>

(* tcp_connect returns true; http_get sends the request and waits *)
ConnectDone ==
  /\ Busy /\ Top.for = "connect" /\ Done
  /\ stack' = SendTcpRaw(Append(Below, Wait("page")), TCP_CONN.dst)
  /\ UNCHANGED <<devVars, netVars, out, last, got, overflow>>

(* tcp_read_data copies what there is room for in the caller's buffer and   *)
(* drops the rest                                                           *)
TcpReadData(room) ==
  LET n == IF Len(TCP_CONN.rxbuf) < room THEN Len(TCP_CONN.rxbuf) ELSE room
  IN  /\ out' = out \o SubSeq(TCP_CONN.rxbuf, 1, n)
      /\ overflow' = (overflow \/ n < Len(TCP_CONN.rxbuf))
      /\ TCP_CONN' = [TCP_CONN EXCEPT !.rxbuf = <<>>]

(* http_get reads until the other side closes *)
PageRead ==
  /\ Busy /\ Top.for = "page" /\ Done
  /\ TcpReadData(OUT - Len(out))
  /\ stack' = IF TCP_CONN.state = "FIN_WAIT" THEN Below ELSE stack
  /\ UNCHANGED <<devVars, ARP_CACHE, UDP_HANDLERS, DNS_CACHE, DNS_RESP, last, got>>

(* A failed arp_resolve fails send_ipv4: dns_resolve gives up, the senders  *)
(* of TCP segments do not look at the result.                               *)
ArpTimeOut ==
  /\ Top.for = "arp"
  /\ stack' = IF Top.tries < 3 THEN Append(Below, [Top EXCEPT !.tries = @ + 1])
              ELSE IF Top.pkt = "query" THEN Front(Below) ELSE Below
  /\ UNCHANGED TCP_CONN

(* tcp_connect closes, the other loops just end *)
LoopTimeOut ==
  /\ Top.for # "arp"
  /\ stack' = Below
  /\ TCP_CONN' = IF Top.for = "connect" THEN [TCP_CONN EXCEPT !.state = "CLOSED"] ELSE TCP_CONN

TimeOut ==
  /\ APIC_READY
  /\ Busy /\ ~Done
  /\ ArpTimeOut \/ LoopTimeOut
  /\ UNCHANGED <<devVars, ARP_CACHE, UDP_HANDLERS, DNS_CACHE, DNS_RESP, out, last, got, overflow>>

-----------------------------------------------------------------------------
(* The shell command net *)

(* net init: the ring is empty after a reset *)
NetInit ==
  /\ stack = <<>>
  /\ ready' = TRUE /\ rx' = <<>> /\ skewed' = FALSE
  /\ UNCHANGED <<arrivals, halted, netVars, stack, out, last, got, overflow>>

(* net dhcp: DISCOVER is broadcast; no handler for port 68 is registered    *)
(* and nothing sets got_offer, so that only the time limit ends the wait.   *)
NetDhcp ==
  /\ stack = <<>> /\ ready
  /\ stack' = <<Wait("dhcp")>>
  /\ UNCHANGED <<devVars, netVars, out, last, got, overflow>>

(* net dns and net http up to the wait of dns_resolve: every call registers *)
(* the handler once more, the cache answers for whatever name it has.       *)
DnsResolve(for) ==
  /\ stack = <<>>
  /\ UdpListen
  /\ \/ /\ DNS_CACHE # <<>>
        /\ IF for = "dns_http" THEN TcpConnect(stack, DNS_CACHE[1])
           ELSE UNCHANGED <<TCP_CONN, stack, out, got, overflow>>
        /\ UNCHANGED DNS_RESP
     \/ /\ DNS_CACHE = <<>> /\ DNS_SERVER # NoIp
        /\ DNS_RESP' = <<>>
        /\ stack' = SendUdp(<<Wait(for)>>, DNS_SERVER)
        /\ UNCHANGED <<TCP_CONN, out, got, overflow>>
     \/ /\ DNS_CACHE = <<>>    \* no server, or a name that does not encode
        /\ UNCHANGED <<DNS_RESP, TCP_CONN, stack, out, got, overflow>>
  /\ UNCHANGED <<devVars, ARP_CACHE, DNS_CACHE, last>>

-----------------------------------------------------------------------------
(* The chip puts a frame into the ring, or drops it when there is no room *)

Frame ==
  [kind : {"arp"}, ip : Ip, mac : Mac, piece : {0}, even : BOOLEAN]
  \cup [kind : {"dns"}, ip : Ip \cup {NoIp}, mac : {0}, piece : {0}, even : BOOLEAN]
  \cup [kind : {"dns_empty", "synack", "fin", "junk", "malformed"}, ip : {NoIp}, mac : {0},
        piece : {0}, even : BOOLEAN]
  \cup [kind : {"data"}, ip : {NoIp}, mac : {0}, piece : {arrivals + 1}, even : BOOLEAN]

Arrive ==
  /\ ready /\ arrivals < MaxArrivals
  /\ Len(rx) < RX_RING
  /\ \E f \in Frame : rx' = Append(rx, f)
  /\ arrivals' = arrivals + 1
  /\ UNCHANGED <<ready, skewed, halted, netVars, stack, out, last, got, overflow>>

Init ==
  /\ ready = FALSE /\ rx = <<>> /\ skewed = FALSE /\ arrivals = 0 /\ halted = FALSE
  /\ ARP_CACHE = <<>> /\ UDP_HANDLERS = 0 /\ DNS_CACHE = <<>> /\ DNS_RESP = <<>>
  /\ TCP_CONN = [state |-> "CLOSED", dst |-> NoIp, rxbuf |-> <<>>]
  /\ stack = <<>> /\ out = <<>>
  /\ last = [ip \in Ip |-> 0] /\ got = <<>> /\ overflow = FALSE

Loop == Poll \/ PollSkewed \/ ArpDone \/ DnsDone \/ ConnectDone \/ PageRead

Next ==
  \/ Loop
  \/ TimeOut
  \/ NetInit
  \/ NetDhcp
  \/ DnsResolve("dns") \/ DnsResolve("dns_http")
  \/ Arrive

Spec == Init /\ [][Next]_vars

-----------------------------------------------------------------------------
(* Properties *)

(* Whatever nested waits handled it, an ARP packet is remembered as the     *)
(* last word of its sender: an address is cached once, with the MAC it      *)
(* announced last, through replacement and eviction.                        *)
ArpLatest ==
  \A i \in DOMAIN ARP_CACHE :
    /\ ARP_CACHE[i].mac = last[ARP_CACHE[i].ip]
    /\ \A j \in DOMAIN ARP_CACHE : ARP_CACHE[i].ip = ARP_CACHE[j].ip => i = j

(* No piece of a page is doubled or put out of order on its way through     *)
(* rxbuf, although segments are handled while http_get waits for ARP; and   *)
(* none is missing as long as neither buffer was full.                      *)
PiecesKept ==
  LET kept == out \o TCP_CONN.rxbuf
  IN  /\ \A i, j \in DOMAIN kept : i < j => kept[i] < kept[j]
      /\ ToSet(kept) \subseteq ToSet(got)
      /\ ~overflow => kept = got
=============================================================================
