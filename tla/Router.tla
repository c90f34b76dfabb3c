-------------------------------- MODULE Router -------------------------------
(* The packet loop of Tema_1/router.c with what it calls in skel.c, and the *)
(* neighbours it talks to.  One step per branch of the loop, but for the    *)
(* search of the routing table, which is RouteSearch's.                     *)
EXTENDS RouteSearch, LinkedQueue, Checksum

CONSTANTS
  PortIp,      \* get_interface_ip: the address of each interface
  Neighbours,  \* [ip, interface]: the hosts an ARP request can reach
  Align,       \* m.payload + 14, modulo 4: where a received IP header stands
  ArpRoom,     \* bound: entries arp_table has room for (10 in the code)
  Pid,         \* getpid()
  MaxTraffic,  \* bound: IP packets and ARP requests the hosts send in a run
  Datagrams    \* the IP packets hosts may send: [ttl, proto, saddr, daddr, ok]

ASSUME RouterAssumption ==
  /\ PortIp \in [Ports -> Addrs] /\ Ports \subseteq Nat /\ IsFiniteSet(Ports)
  /\ Neighbours \subseteq [ip : Addrs, interface : Ports] /\ IsFiniteSet(Neighbours)
  /\ \A d \in Datagrams : {d.saddr, d.daddr} \subseteq Addrs /\ {d.ttl, d.proto} \subseteq Nat
  /\ Base > 11 /\ Pid \in Bytes   \* a byte holds an ICMP type; an id is 16 bits
  /\ Align \in 0 .. 3 /\ ArpRoom \in Nat
  /\ MaxTraffic \in Nat /\ 1 .. MaxTraffic \subseteq Elements

VARIABLES
  arp_table,   \* the entries [ip, mac] in use
  m,           \* the frame that is being handled
  slot,        \* the storage of the block-local packet p of lines 184-186
  packet_aux,  \* the packet taken from the queue (line 224)
  pc,          \* where the loop is: get_packet, dispatch, route, resend, crash
  inbox,       \* what each interface has received and the router not read
  asked,       \* ARP requests on their way, by neighbour
  traffic,     \* history: the datagrams the hosts have sent, by number
  out          \* the frame written in the last step, NULL if none

netVars == <<inbox, asked, traffic>>
routerVars == <<arp_table, m, slot, packet_aux, pc, out>>
vars == <<searchVars, queueVars, netVars, routerVars>>

EchoRequest == <<8, 0>>
EchoReply == <<0, 0>>
TimeExceeded == <<11, 0>>
Unreachable == <<3, 0>>

\* Hardware addresses: the router's are named by their interface, a host's
\* by its IP address.
PortMac(i) == <<"port", i>>      \* get_interface_mac
HostMac(ip) == <<"host", ip>>
Broadcast == <<"all", 0>>

-----------------------------------------------------------------------------
(* Headers and frames.                                                      *)

\* struct iphdr, down to the fields that differ.
IpBytes(ip) ==
  <<ip.ttl, ip.proto, Hi(ip.check), Lo(ip.check), ip.saddr, ip.daddr>>

\* A plausible bug: the old checksum is summed too.
WithCheckOver(ip, offset) == [ip EXCEPT !.check = ip_checksum(IpBytes(ip), offset)]

\* The field is computed as if it held 0 (lines 169-170, 255-258).
WithCheck(ip, offset) ==
  [ip EXCEPT !.check = ip_checksum(IpBytes([ip EXCEPT !.check = 0]), offset)]

IcmpBytes(icmp) ==
  <<icmp.kind[1], icmp.kind[2], Hi(icmp.check), Lo(icmp.check),
    icmp.id, icmp.sequence>>

\* send_icmp and send_icmp_error: a new packet with TTL 64 (Base - 1 here),
\* its headers on the stack, word aligned.
IcmpFrame(daddr, saddr, sha, dha, kind, id) ==
  LET icmp == [kind |-> kind, check |-> 0, id |-> id, sequence |-> 0]
  IN  [type |-> "IP", number |-> 0, shost |-> sha, dhost |-> dha,
       ip |-> WithCheck([ttl |-> Base - 1, proto |-> 1, check |-> 0,
                         saddr |-> saddr, daddr |-> daddr], 0),
       icmp |-> [icmp EXCEPT !.check = icmp_checksum(IcmpBytes(icmp))]]

ArpFrame(op, shost, dhost, sha, spa, tpa) ==
  [type |-> "ARP", op |-> op, shost |-> shost, dhost |-> dhost,
   sha |-> sha, spa |-> spa, tpa |-> tpa]

\* parse_icmp: a header is there when the protocol is ICMP.
parse_icmp(frame) == frame.type = "IP" /\ frame.ip.proto = 1

\* send_packet on interface i.
send_packet(i, frame) == out' = [interface |-> i, frame |-> frame]

\* What a host puts on the wire for the datagram d, numbered n.
HostFrame(i, d, n) ==
  LET good == [ttl |-> d.ttl, proto |-> d.proto, saddr |-> d.saddr, daddr |-> d.daddr,
               check |-> 0]
      ip == WithCheck(good, 0)
  IN  [type |-> "IP", number |-> n, shost |-> HostMac(d.saddr), dhost |-> PortMac(i),
       ip |-> IF d.ok THEN ip ELSE [ip EXCEPT !.check = (@ + 1) % Word16],
       icmp |-> [kind |-> EchoRequest, check |-> 0, id |-> 0, sequence |-> 0]]

-----------------------------------------------------------------------------
Init ==
  /\ SearchInit /\ queue_create
  /\ arp_table = <<>> /\ pc = "get_packet"
  /\ m = NULL /\ slot = NULL /\ packet_aux = NULL /\ out = NULL
  /\ inbox = [i \in Ports |-> <<>>]
  /\ asked = [n \in Neighbours |-> 0] /\ traffic = <<>>

(* The hosts.                                                               *)

Arrive(i, frame) == inbox' = [inbox EXCEPT ![i] = Append(@, frame)]

HostSends(i, d) ==
  /\ Len(traffic) < MaxTraffic
  /\ Arrive(i, HostFrame(i, d, Len(traffic) + 1))
  /\ traffic' = Append(traffic, d)
  /\ out' = NULL
  /\ UNCHANGED <<searchVars, queueVars, asked, arp_table, m, slot, packet_aux, pc>>

\* A neighbour looks for the router, or for another of its network.
HostAsks(n, ip) ==
  /\ Len(traffic) < MaxTraffic
  /\ Arrive(n.interface,
            ArpFrame("REQUEST", HostMac(n.ip), Broadcast, HostMac(n.ip), n.ip, ip))
  /\ traffic' = Append(traffic, NULL)
  /\ out' = NULL
  /\ UNCHANGED <<searchVars, queueVars, asked, arp_table, m, slot, packet_aux, pc>>

HostReply(n) ==
  Arrive(n.interface,
         ArpFrame("REPLY", HostMac(n.ip), PortMac(n.interface), HostMac(n.ip),
                  n.ip, PortIp[n.interface]))

HostAnswers(n) ==
  /\ asked[n] > 0
  /\ asked' = [asked EXCEPT ![n] = @ - 1]
  /\ HostReply(n)
  /\ out' = NULL
  /\ UNCHANGED <<searchVars, queueVars, traffic, arp_table, m, slot, packet_aux, pc>>

\* A reply nobody asked for, or the second one to a request.
HostAnnounces(n) ==
  /\ Len(traffic) < MaxTraffic
  /\ HostReply(n)
  /\ traffic' = Append(traffic, NULL)
  /\ out' = NULL
  /\ UNCHANGED <<searchVars, queueVars, asked, arp_table, m, slot, packet_aux, pc>>

-----------------------------------------------------------------------------
(* The loop.                                                                *)

\* get_packet: select, and of the readable interfaces the first.
get_packet(i) ==
  /\ pc = "get_packet" /\ inbox[i] # <<>>
  /\ \A j \in Ports : j < i => inbox[j] = <<>>
  /\ m' = [interface |-> i, frame |-> Head(inbox[i])]
  /\ inbox' = [inbox EXCEPT ![i] = Tail(@)]
  /\ pc' = "dispatch" /\ out' = NULL
  /\ UNCHANGED <<searchVars, queueVars, asked, traffic, arp_table, slot, packet_aux>>

ip_hdr == m.frame.ip

ForUs == parse_icmp(m.frame) /\ ip_hdr.daddr = PortIp[m.interface]
IsEcho == ForUs /\ m.frame.icmp.kind = EchoRequest

\* The answer goes back where m came from, the addresses swapped.
SendBack(kind, id) ==
  send_packet(m.interface, IcmpFrame(ip_hdr.saddr, ip_hdr.daddr, m.frame.dhost,
                                     m.frame.shost, kind, id))

\* continue, with nothing changed but what was sent.
Continue == pc' = "get_packet"
            /\ UNCHANGED <<queueVars, netVars, arp_table, m, slot, packet_aux>>

EchoToUs ==
  /\ pc = "dispatch" /\ m.frame.type = "IP" /\ IsEcho
  /\ SendBack(EchoReply, Pid)
  /\ Continue /\ UNCHANGED searchVars

Expired ==
  /\ pc = "dispatch" /\ m.frame.type = "IP" /\ ~IsEcho /\ ip_hdr.ttl <= 1
  /\ SendBack(TimeExceeded, 0)
  /\ Continue /\ UNCHANGED searchVars

WrongChecksum ==
  /\ pc = "dispatch" /\ m.frame.type = "IP" /\ ~IsEcho /\ ip_hdr.ttl > 1
  /\ ip_checksum(IpBytes(ip_hdr), Align) # 0
  /\ out' = NULL
  /\ Continue /\ UNCHANGED searchVars

GoesOn == m.frame.type = "IP" /\ ~IsEcho /\ ip_hdr.ttl > 1
          /\ ip_checksum(IpBytes(ip_hdr), Align) = 0

\* A plausible bug: p is written before the route is known.
LookUpOverP ==
  /\ pc = "dispatch" /\ GoesOn /\ CallSearch(ip_hdr.daddr)
  /\ pc' = "route" /\ out' = NULL /\ slot' = m
  /\ UNCHANGED <<queueVars, netVars, arp_table, m, packet_aux>>

LookUp ==
  /\ pc = "dispatch" /\ GoesOn /\ CallSearch(ip_hdr.daddr)
  /\ pc' = "route" /\ out' = NULL
  /\ UNCHANGED <<queueVars, netVars, arp_table, m, slot, packet_aux>>

Search ==
  /\ pc \in {"route", "resend"} /\ SearchStep
  /\ out' = NULL
  /\ UNCHANGED <<queueVars, netVars, arp_table, m, slot, packet_aux, pc>>

HostUnreachable ==
  /\ pc = "route" /\ ~searching /\ best_route = 0
  /\ SendBack(Unreachable, 0)
  /\ Continue /\ UNCHANGED searchVars

route == rtable[best_route]

Via == route.interface

\* Lines 168-170: the packet as it goes on.
Updated ==
  [m EXCEPT !.frame.ip = WithCheck([ip_hdr EXCEPT !.ttl = @ - 1], Align)]

\* get_arp_entry: the first entry of the address.
EntriesOf(ip) == {k \in 1 .. Len(arp_table) : arp_table[k].ip = ip}
ArpMac(ip) == arp_table[CHOOSE k \in EntriesOf(ip) : \A j \in EntriesOf(ip) : k <= j].mac

\* Plausible bugs: no second request while packets wait; the destination is asked.
AskedOnce(ip, i) ==
  [n \in Neighbours |-> IF n.ip = ip /\ n.interface = i /\ queue_empty
                        THEN asked[n] + 1 ELSE asked[n]]
AskedDestination(ip, i) ==
  [n \in Neighbours |-> IF n.ip = ip_hdr.daddr /\ n.interface = i
                        THEN asked[n] + 1 ELSE asked[n]]

\* A request for ip on interface i reaches the host of that address there.
Asked(ip, i) ==
  [n \in Neighbours |-> IF n.ip = ip /\ n.interface = i
                        THEN asked[n] + 1 ELSE asked[n]]

\* No entry: ask for the next hop and let the packet wait.  What the queue
\* keeps is the address of p; .number tells whose address it was.
AskAndWait ==
  /\ pc = "route" /\ ~searching /\ best_route # 0
  /\ EntriesOf(ip_hdr.daddr) = {}
  /\ send_packet(Via, ArpFrame("REQUEST", PortMac(Via), Broadcast, PortMac(Via),
                                PortIp[Via], route.next_hop))
  /\ asked' = Asked(route.next_hop, Via)
  /\ m' = Updated /\ slot' = Updated
  /\ queue_enq(m.frame.number)
  /\ pc' = "get_packet"
  /\ UNCHANGED <<searchVars, inbox, traffic, arp_table, packet_aux>>

Forward ==
  /\ pc = "route" /\ ~searching /\ best_route # 0
  /\ EntriesOf(ip_hdr.daddr) # {}
  /\ m' = [Updated EXCEPT !.frame.shost = PortMac(Via),
                          !.frame.dhost = ArpMac(ip_hdr.daddr)]
  /\ send_packet(Via, m'.frame)
  /\ pc' = "get_packet"
  /\ UNCHANGED <<searchVars, queueVars, netVars, arp_table, slot, packet_aux>>

AnswerArp ==
  /\ pc = "dispatch" /\ m.frame.type = "ARP" /\ m.frame.op = "REQUEST"
  /\ m.frame.tpa = PortIp[m.interface]
  /\ send_packet(m.interface,
                 ArpFrame("REPLY", PortMac(m.interface), m.frame.shost,
                          PortMac(m.interface), m.frame.tpa, m.frame.spa))
  /\ Continue /\ UNCHANGED searchVars

IgnoreArp ==
  /\ pc = "dispatch" /\ m.frame.type = "ARP" /\ m.frame.op = "REQUEST"
  /\ m.frame.tpa # PortIp[m.interface]
  /\ out' = NULL
  /\ Continue /\ UNCHANGED searchVars

\* A plausible bug: every reply is added.
LearnAgain == arp_table' = Append(arp_table, [ip |-> m.frame.spa, mac |-> m.frame.sha])

\* Lines 216-220: an address that is known keeps its entry.
Learn ==
  arp_table' = IF EntriesOf(m.frame.spa) = {}
               THEN Append(arp_table, [ip |-> m.frame.spa, mac |-> m.frame.sha])
               ELSE arp_table

ReplyNobodyWaits ==
  /\ pc = "dispatch" /\ m.frame.type = "ARP" /\ m.frame.op = "REPLY" /\ queue_empty
  /\ Learn
  /\ pc' = "get_packet" /\ out' = NULL
  /\ UNCHANGED <<searchVars, queueVars, netVars, m, slot, packet_aux>>

\* A plausible bug: the last route that was found is used again.
LastRouteAgain == UNCHANGED searchVars

SearchAgain == CallSearch(slot.frame.ip.daddr)

\* The address that was queued is p's: packet_aux is what p holds now.
ReplyOneLeaves ==
  /\ pc = "dispatch" /\ m.frame.type = "ARP" /\ m.frame.op = "REPLY" /\ ~queue_empty
  /\ Learn
  /\ queue_deq
  /\ packet_aux' = slot
  /\ SearchAgain
  /\ pc' = "resend" /\ out' = NULL
  /\ UNCHANGED <<netVars, m, slot>>

\* best_r is not compared with NULL before line 230 reads its interface.
Resend ==
  /\ pc = "resend" /\ ~searching
  /\ IF best_route = 0
     THEN pc' = "crash" /\ out' = NULL /\ UNCHANGED packet_aux
     ELSE /\ packet_aux' = [packet_aux EXCEPT !.frame.dhost = m.frame.sha,
                                             !.frame.shost = PortMac(Via)]
          /\ send_packet(Via, packet_aux'.frame)
          /\ pc' = "get_packet"
  /\ UNCHANGED <<searchVars, queueVars, netVars, arp_table, m, slot>>

RouterStep ==
  \/ \E i \in Ports : get_packet(i)
  \/ EchoToUs \/ Expired \/ WrongChecksum
  \/ LookUp \/ Search \/ HostUnreachable \/ AskAndWait \/ Forward
  \/ AnswerArp \/ IgnoreArp
  \/ ReplyNobodyWaits \/ ReplyOneLeaves \/ Resend

HostStep ==
  \/ \E n \in Neighbours, d \in Datagrams : d.saddr = n.ip /\ HostSends(n.interface, d)
  \/ \E n \in Neighbours : \E ip \in {n.ip, PortIp[n.interface]} : HostAsks(n, ip)
  \/ \E n \in Neighbours : HostAnswers(n) \/ HostAnnounces(n)

Next == RouterStep \/ HostStep

Spec == Init /\ [][Next]_vars

\* The loop runs as long as there is something to read, and a host that is
\* asked for its address answers; when hosts send is up to them.
FairSpec ==
  /\ Spec /\ WF_vars(RouterStep)
  /\ \A n \in Neighbours : WF_vars(HostAnswers(n))

-----------------------------------------------------------------------------
\* The types of the router's variables.
TypeOK ==
  /\ SearchTypeOK /\ QueueTypeOK
  /\ pc \in {"get_packet", "dispatch", "route", "resend", "crash"}
  /\ \A k \in 1 .. Len(arp_table) : arp_table[k].ip \in Addrs
  /\ asked \in [Neighbours -> Nat]
  /\ \A v \in {m, slot, packet_aux} : v = NULL \/ v.interface \in Ports
  /\ out = NULL \/ out.interface \in Ports

\* Lines 183-186 with 223-231: a packet that waits can still be routed when a
\* reply frees it, so the unchecked best_r is no NULL: whatever the shared p
\* holds then, it is a packet that had a route when it was put there.
NoNullRoute == pc # "crash"

\* skel.c 151-312, router.c 154-170: an IP header the router sends verifies,
\* and a packet it passes on was intact, kept its protocol and addresses, and
\* lost exactly one of its TTL however long it waited; an ICMP message it
\* makes verifies too.
HeadersSound ==
  out # NULL /\ out.frame.type = "IP" =>
    LET ip == out.frame.ip
        d == traffic[out.frame.number]
    IN  /\ Verifies(IpBytes(ip)) /\ ip.ttl >= 1
        /\ out.frame.number = 0 => Verifies(IcmpBytes(out.frame.icmp))
        /\ out.frame.number # 0 =>
             /\ d.ok /\ ip.ttl = d.ttl - 1
             /\ <<ip.proto, ip.saddr, ip.daddr>> = <<d.proto, d.saddr, d.daddr>>

\* skel.c 37-95, router.c 177-231: what the router writes to an interface
\* carries the address of that interface, and a packet passed on leaves by
\* the interface of a route of its destination, even after the routes of
\* other packets were searched while it waited.
RightInterface ==
  out # NULL =>
    /\ out.frame.shost = PortMac(out.interface)
    /\ out.frame.type = "IP" /\ out.frame.number # 0 =>
         \E k \in 1 .. Len(rtable) :
           /\ rtable[k].interface = out.interface
           /\ Masked(out.frame.ip.daddr, rtable[k].mask) = rtable[k].prefix

\* Lines 214-220: no address has two entries, however many replies come for
\* it, so arp_table, whose room is not checked, holds the neighbours there
\* are.
ArpFits ==
  /\ \A j, k \in 1 .. Len(arp_table) : arp_table[j].ip = arp_table[k].ip => j = k
  /\ Cardinality(Neighbours) <= ArpRoom => Len(arp_table) <= ArpRoom

IsReply(frame) == frame.type = "ARP" /\ frame.op = "REPLY"

Replies ==
  [i \in Ports |-> Cardinality({k \in 1 .. Len(inbox[i]) : IsReply(inbox[i][k])})]

RepliesToCome ==
  SumFunction(asked) + SumFunction(Replies)
  + IF pc = "dispatch" /\ IsReply(m.frame) THEN 1 ELSE 0

EveryHopAnswers ==
  \A k \in 1 .. Len(rtable) : \E n \in Neighbours :
    n.ip = rtable[k].next_hop /\ n.interface = rtable[k].interface

\* Lines 174-186 with 223-232: one packet leaves per reply and every packet
\* has sent a request of its own: as long as every next hop answers, none
\* waits for a reply that will not come.
NoneStranded == EveryHopAnswers => Len(Items) <= RepliesToCome

\* The same over time: as the hosts fall silent, the queue runs empty.
QueueDrains == ~queue_empty ~> queue_empty

\* Lines 73-86 in the loop: get_best_route comes back for every address and
\* table, so the loop reads its next frame.
LoopGoesOn == pc = "dispatch" ~> pc = "get_packet"

\* Line 183 and the README ("se pune o copie a pachetului in coada"): what
\* leaves the queue for a packet is a copy of that packet.
WaitingCopies ==
  [][\A k \in 1 .. MaxTraffic : (~queue_empty /\ FrontElement = k /\ ReplyOneLeaves)
       => packet_aux'.frame.number = k]_vars

\* README: a packet passed on gets "adresa MAC a next-hop-ului".
NextHopMac ==
  out # NULL /\ out.frame.type = "IP" /\ out.frame.number # 0 =>
    \E k \in 1 .. Len(rtable) :
      /\ Masked(out.frame.ip.daddr, rtable[k].mask) = rtable[k].prefix
      /\ out.frame.dhost = HostMac(rtable[k].next_hop)
==============================================================================
