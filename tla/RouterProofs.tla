---------------------------- MODULE RouterProofs -----------------------------
(* What holds of the router for every routing table, every set of hosts and *)
(* every traffic.                                                           *)
EXTENDS Router, QueueProofs, FiniteSetTheorems, TLAPS

-----------------------------------------------------------------------------
(* The search.                                                              *)

\* The inductive invariant of the search is its type invariant and SearchSound.
SearchInv == SearchTypeOK /\ SearchSound

LEMMA OrdersAreTables ==
  ASSUME NEW file \in Tables, NEW t \in Orders(file)
  PROVE  t \in Seq(Routes)
<1>1. file \in Seq(Routes)
  BY TablesAssumption
<1>2. PICK p \in [1 .. Len(file) -> 1 .. Len(file)] :
        t = [i \in 1 .. Len(file) |-> file[p[i]]]
  BY DEF Orders
<1>3. Len(file) \in Nat /\ \A i \in 1 .. Len(file) : file[p[i]] \in Routes
  BY <1>1
<1> QED BY <1>2, <1>3

LEMMA SearchInitInv == SearchInit => SearchInv
<1> SUFFICES ASSUME SearchInit PROVE SearchInv
  OBVIOUS
<1>1. PICK file \in Tables : rtable \in Orders(file) /\ Sorted(rtable)
  BY DEF SearchInit
<1>2. rtable \in Seq(Routes) /\ Sorted(rtable)
  BY <1>1, OrdersAreTables
<1>3. Len(rtable) \in Nat
  BY <1>2
<1>4. SearchTypeOK
  <2>1. dest_ip = 0 /\ left = 1 /\ right = Len(rtable) /\ searching = FALSE /\ best_route = 0
    BY DEF SearchInit
  <2>2. searching \in BOOLEAN
    BY <2>1
  <2> QED BY <1>2, <1>3, <2>1, <2>2 DEF SearchTypeOK
<1>5. SearchSound
  BY <1>3 DEF SearchInit, SearchSound
<1> QED BY <1>4, <1>5 DEF SearchInv

LEMMA CallSearchInv ==
  ASSUME SearchInv, NEW ip \in Addrs, CallSearch(ip)
  PROVE  SearchInv'
<1>1. Len(rtable) \in Nat /\ rtable' = rtable
  BY DEF SearchInv, SearchTypeOK, CallSearch
<1>2. SearchTypeOK'
  BY <1>1 DEF SearchInv, SearchTypeOK, CallSearch, LastRoute, Sorted
<1>3. SearchSound'
  BY <1>1 DEF CallSearch, LastRoute, SearchSound
<1> QED BY <1>2, <1>3 DEF SearchInv

LEMMA Middle ==
  ASSUME NEW a \in Int, NEW b \in Int, a <= b
  PROVE  (a + b) \div 2 \in a .. b
OBVIOUS

LEMMA SearchStepInv == SearchInv /\ SearchStep => SearchInv'
<1> SUFFICES ASSUME SearchInv, SearchStep PROVE SearchInv'
  OBVIOUS
<1>t. /\ rtable \in Seq(Routes) /\ Len(rtable) \in Nat /\ rtable' = rtable
      /\ dest_ip' = dest_ip
      /\ left \in 1 .. Len(rtable) + 1 /\ right \in 0 .. Len(rtable)
      /\ best_route \in 0 .. Len(rtable)
  <2>1. rtable' = rtable /\ dest_ip' = dest_ip
    BY DEF SearchStep, Found, GoRight, GoLeft, NotFound
  <2>2. rtable \in Seq(Routes) /\ left \in 1 .. Len(rtable) + 1
        /\ right \in 0 .. Len(rtable) /\ best_route \in 0 .. Len(rtable)
    BY DEF SearchInv, SearchTypeOK
  <2> QED BY <2>1, <2>2
<1>s. Sorted(rtable)
  BY DEF SearchInv, SearchTypeOK
<1>n. \A i \in 1 .. Len(rtable) : rtable[i].prefix \in Nat
  <2>1. \A i \in 1 .. Len(rtable) : rtable[i] \in Routes
    BY <1>t
  <2> QED BY <2>1, AddrsAssumption DEF Routes
<1>m. left <= right => Mid \in left .. right /\ Mid \in 1 .. Len(rtable)
  BY <1>t, Middle DEF Mid
<1>1. CASE Found
  <2>1. SearchTypeOK'
    <3>1. searching' \in BOOLEAN
      BY <1>1 DEF Found
    <3>2. best_route' \in 0 .. Len(rtable) /\ left' = left /\ right' = right
      BY <1>1, <1>m, <1>t DEF Found
    <3> QED BY <3>1, <3>2, <1>t, <1>s DEF SearchInv, SearchTypeOK, Sorted
  <2>2. SearchSound'
    BY <1>1, <1>m, <1>t DEF Found, SearchSound, Matches, Masks
  <2> QED BY <2>1, <2>2 DEF SearchInv
\* What stands before Mid has a smaller prefix, and under the common mask the
\* address is above Mid's.
<1>2. CASE GoRight
  <2>1. SearchTypeOK'
    BY <1>2, <1>m, <1>t DEF GoRight, AfterMid, SearchInv, SearchTypeOK, Sorted
  <2>2. ASSUME OneMask, best_route = 0, NEW i \in 1 .. Len(rtable), Matches(i)
        PROVE  i \in left' .. right'
    <3>1. i \in left .. right
      BY <2>2 DEF SearchInv, SearchSound
    <3>2. Masks(i) = Masks(Mid)
      BY <1>2, <1>m, <2>2 DEF GoRight, OneMask, Masks
    <3>3. rtable[i].prefix > rtable[Mid].prefix
      BY <1>2, <2>2, <3>2 DEF GoRight, Matches
    <3>4. ~(i < Mid)
      BY <1>2, <1>m, <1>s, <1>n, <3>3, <2>2 DEF GoRight, Sorted, LessEq
    <3>5. i # Mid
      BY <1>2, <2>2 DEF GoRight
    <3> QED BY <1>2, <1>m, <1>t, <3>1, <3>4, <3>5 DEF GoRight, AfterMid
  <2>3. SearchSound'
    BY <1>2, <1>t, <2>2 DEF GoRight, SearchInv, SearchSound, Matches, Masks, OneMask
  <2> QED BY <2>1, <2>3 DEF SearchInv
<1>3. CASE GoLeft
  <2>1. SearchTypeOK'
    BY <1>3, <1>m, <1>t DEF GoLeft, SearchInv, SearchTypeOK, Sorted
  <2>2. ASSUME OneMask, best_route = 0, NEW i \in 1 .. Len(rtable), Matches(i)
        PROVE  i \in left' .. right'
    <3>1. i \in left .. right
      BY <2>2 DEF SearchInv, SearchSound
    <3>2. Masks(i) = Masks(Mid)
      BY <1>3, <1>m, <2>2 DEF GoLeft, OneMask, Masks
    <3>3. rtable[i].prefix # rtable[Mid].prefix /\ ~(rtable[i].prefix > rtable[Mid].prefix)
      BY <1>3, <2>2, <3>2 DEF GoLeft, Matches
    <3>4. ~(Mid < i)
      BY <1>3, <1>m, <1>s, <1>n, <3>3, <2>2 DEF GoLeft, Sorted, LessEq
    <3>5. i # Mid
      BY <1>3, <2>2 DEF GoLeft
    <3> QED BY <1>3, <1>m, <1>t, <3>1, <3>4, <3>5 DEF GoLeft
  <2>3. SearchSound'
    BY <1>3, <1>t, <2>2 DEF GoLeft, SearchInv, SearchSound, Matches, Masks, OneMask
  <2> QED BY <2>1, <2>3 DEF SearchInv
<1>4. CASE NotFound
  <2>1. SearchTypeOK'
    BY <1>4, <1>t DEF NotFound, SearchInv, SearchTypeOK, Sorted
  <2>2. SearchSound'
    BY <1>4, <1>t DEF NotFound, SearchInv, SearchSound, Matches, Masks, OneMask
  <2> QED BY <2>1, <2>2 DEF SearchInv
<1> QED BY <1>1, <1>2, <1>3, <1>4 DEF SearchStep

LEMMA SearchStutter == SearchInv /\ UNCHANGED searchVars => SearchInv'
<1> SUFFICES ASSUME SearchInv, UNCHANGED searchVars PROVE SearchInv'
  OBVIOUS
<1>1. SearchTypeOK'
  BY DEF SearchInv, SearchTypeOK, searchVars, Sorted
<1>2. SearchSound'
  BY DEF SearchInv, SearchSound, searchVars, Matches, Masks, OneMask
<1> QED BY <1>1, <1>2 DEF SearchInv
-----------------------------------------------------------------------------
(* The loop.                                                                *)

\* Every frame the hosts put on interface i.
HostFrames(i) ==
  {HostFrame(i, d, n) : d \in Datagrams, n \in 1 .. MaxTraffic}
  \cup {ArpFrame("REQUEST", HostMac(n.ip), Broadcast, HostMac(n.ip), n.ip, ip) :
          n \in Neighbours, ip \in Addrs}
  \cup {ArpFrame("REPLY", HostMac(n.ip), PortMac(i), HostMac(n.ip), n.ip, PortIp[i]) :
          n \in Neighbours}

\* A frame as the router holds it.
Received == UNION {{[interface |-> i, frame |-> f] : f \in HostFrames(i)} : i \in Ports}

\* An IP packet that can be resent, with the fields that are read and written.
IsPacket(p) ==
  /\ DOMAIN p = {"interface", "frame"} /\ p.interface \in Ports
  /\ DOMAIN p.frame = {"type", "number", "shost", "dhost", "ip", "icmp"}
  /\ DOMAIN p.frame.ip = {"ttl", "proto", "saddr", "daddr", "check"}
  /\ p.frame.ip.daddr \in Addrs

Entries == [ip : {n.ip : n \in Neighbours}, mac : {HostMac(n.ip) : n \in Neighbours}]

NetInv ==
  /\ DOMAIN inbox = Ports
  /\ \A i \in Ports : inbox[i] \in Seq(HostFrames(i))

TrafficInv == traffic \in Seq(Datagrams \cup {NULL}) /\ Len(traffic) <= MaxTraffic

HandledInv ==
  /\ pc \in {"dispatch", "route", "resend"} => m \in Received
  /\ pc = "route" => m.frame.type = "IP" /\ dest_ip = m.frame.ip.daddr

\* Whatever is in p when something waits can be routed and sent.
WaitingInv ==
  /\ ~queue_empty => IsPacket(slot)
  /\ pc = "resend" => IsPacket(packet_aux) /\ packet_aux.frame.ip.daddr = dest_ip

ArpInv ==
  /\ arp_table \in Seq(Entries)
  /\ \A j, k \in 1 .. Len(arp_table) : arp_table[j].ip = arp_table[k].ip => j = k

\* The inductive invariant.
RouterInv ==
  SearchInv /\ NetInv /\ TrafficInv /\ HandledInv /\ WaitingInv /\ ArpInv /\ RightInterface

LEMMA HostFrameFacts ==
  ASSUME NEW i \in Ports, NEW f \in HostFrames(i)
  PROVE  /\ f.type \in {"IP", "ARP"}
         /\ f.type = "IP" => /\ f.dhost = PortMac(i) /\ f.number \in 1 .. MaxTraffic
                             /\ IsPacket([interface |-> i, frame |-> f])
         /\ f.type = "ARP" /\ f.op = "REPLY" =>
              \E n \in Neighbours : f.spa = n.ip /\ f.sha = HostMac(n.ip)
<1>1. CASE f \in {HostFrame(i, d, n) : d \in Datagrams, n \in 1 .. MaxTraffic}
  <2>1. PICK d \in Datagrams, n \in 1 .. MaxTraffic : f = HostFrame(i, d, n)
    BY <1>1
  <2>2. d.daddr \in Addrs
    BY RouterAssumption
  <2>3. f.type = "IP" /\ f.dhost = PortMac(i) /\ f.number \in 1 .. MaxTraffic
        /\ DOMAIN f = {"type", "number", "shost", "dhost", "ip", "icmp"}
    BY <2>1 DEF HostFrame
  <2>4. DOMAIN f.ip = {"ttl", "proto", "saddr", "daddr", "check"} /\ f.ip.daddr = d.daddr
    BY <2>1 DEF HostFrame, WithCheck
  <2>5. IsPacket([interface |-> i, frame |-> f])
    BY <2>2, <2>3, <2>4 DEF IsPacket
  <2> QED BY <2>3, <2>5
<1>2. CASE f \in {ArpFrame("REQUEST", HostMac(n.ip), Broadcast, HostMac(n.ip), n.ip, ip) :
                    n \in Neighbours, ip \in Addrs}
  BY <1>2 DEF ArpFrame
<1>3. CASE f \in {ArpFrame("REPLY", HostMac(n.ip), PortMac(i), HostMac(n.ip), n.ip, PortIp[i]) :
                    n \in Neighbours}
  BY <1>3 DEF ArpFrame
<1> QED BY <1>1, <1>2, <1>3 DEF HostFrames

LEMMA ReceivedFacts ==
  ASSUME m \in Received
  PROVE  /\ m.interface \in Ports /\ m.frame \in HostFrames(m.interface)
         /\ DOMAIN m = {"interface", "frame"}
         /\ m.frame.type = "IP" => /\ m.frame.dhost = PortMac(m.interface) /\ IsPacket(m)
                                   /\ m.frame.number \in 1 .. MaxTraffic
         /\ m.frame.type = "ARP" /\ m.frame.op = "REPLY" =>
              [ip |-> m.frame.spa, mac |-> m.frame.sha] \in Entries
<1>1. PICK i \in Ports : m \in {[interface |-> i, frame |-> f] : f \in HostFrames(i)}
  BY DEF Received
<1>2. PICK f \in HostFrames(i) : m = [interface |-> i, frame |-> f]
  BY <1>1
<1>3. m.interface = i /\ m.frame = f
  BY <1>2
<1>4. DOMAIN m = {"interface", "frame"}
  BY <1>2
<1>5. f.type = "ARP" /\ f.op = "REPLY" => [ip |-> f.spa, mac |-> f.sha] \in Entries
  BY HostFrameFacts DEF Entries
<1>6. f.type = "IP" => f.dhost = PortMac(i) /\ IsPacket(m) /\ f.number \in 1 .. MaxTraffic
  BY <1>2, HostFrameFacts
<1> QED BY <1>3, <1>4, <1>5, <1>6

LEMMA InitRouterInv == Init => RouterInv
<1> SUFFICES ASSUME Init PROVE RouterInv
  OBVIOUS
<1>1. SearchInv
  BY SearchInitInv DEF Init
<1>2. NetInv
  BY DEF Init, NetInv
<1>3. TrafficInv /\ HandledInv
  BY RouterAssumption DEF Init, HandledInv, TrafficInv
<1>4. WaitingInv
  BY DEF Init, WaitingInv, queue_create, queue_empty
<1>5. ArpInv
  BY DEF Init, ArpInv
<1>6. RightInterface
  BY DEF Init, RightInterface
<1> QED BY <1>1, <1>2, <1>3, <1>4, <1>5, <1>6 DEF RouterInv

\* The hosts put frames of theirs into an inbox and touch nothing else.
LEMMA ArriveInv ==
  ASSUME NetInv, NEW i \in Ports, NEW f \in HostFrames(i), Arrive(i, f)
  PROVE  NetInv'
<1>1. inbox' = [inbox EXCEPT ![i] = Append(@, f)]
  BY DEF Arrive
<1>2. \A j \in Ports : inbox'[j] \in Seq(HostFrames(j))
  <2> SUFFICES ASSUME NEW j \in Ports PROVE inbox'[j] \in Seq(HostFrames(j))
    OBVIOUS
  <2>1. CASE j = i
    BY <1>1, <2>1 DEF NetInv
  <2>2. CASE j # i
    BY <1>1, <2>2 DEF NetInv
  <2> QED BY <2>1, <2>2
<1> QED BY <1>1, <1>2 DEF NetInv

LEMMA HostInv == RouterInv /\ HostStep => RouterInv'
<1> SUFFICES ASSUME RouterInv, HostStep PROVE RouterInv'
  OBVIOUS
<1>1. /\ UNCHANGED <<searchVars, queueVars, arp_table, m, slot, packet_aux, pc>>
      /\ out' = NULL
  BY DEF HostStep, HostSends, HostAsks, HostAnswers, HostAnnounces
<1>2. NetInv'
  <2>1. ASSUME NEW n \in Neighbours, NEW d \in Datagrams, HostSends(n.interface, d)
        PROVE  NetInv'
    <3>1. n.interface \in Ports
      BY RouterAssumption
    <3>2. HostFrame(n.interface, d, Len(traffic) + 1) \in HostFrames(n.interface)
      <4>1. Len(traffic) + 1 \in 1 .. MaxTraffic
        BY <2>1, RouterAssumption DEF HostSends, RouterInv, TrafficInv
      <4> QED BY <4>1 DEF HostFrames
    <3> QED BY <2>1, <3>1, <3>2, ArriveInv DEF HostSends, RouterInv
  <2>2. ASSUME NEW n \in Neighbours, NEW ip \in Addrs, HostAsks(n, ip)
        PROVE  NetInv'
    <3>1. n.interface \in Ports
      BY RouterAssumption
    <3>2. ArpFrame("REQUEST", HostMac(n.ip), Broadcast, HostMac(n.ip), n.ip, ip)
          \in HostFrames(n.interface)
      BY DEF HostFrames
    <3> QED BY <2>2, <3>1, <3>2, ArriveInv DEF HostAsks, RouterInv
  <2>3. ASSUME NEW n \in Neighbours, HostAnswers(n) \/ HostAnnounces(n)
        PROVE  NetInv'
    <3>1. n.interface \in Ports
      BY RouterAssumption
    <3>2. ArpFrame("REPLY", HostMac(n.ip), PortMac(n.interface), HostMac(n.ip),
                   n.ip, PortIp[n.interface]) \in HostFrames(n.interface)
      BY DEF HostFrames
    <3> QED BY <2>3, <3>1, <3>2, ArriveInv DEF HostAnswers, HostAnnounces, HostReply, RouterInv
  <2>4. \A n \in Neighbours : n.ip \in Addrs /\ PortIp[n.interface] \in Addrs
    BY RouterAssumption
  <2> QED BY <2>1, <2>2, <2>3, <2>4 DEF HostStep
<1>3. SearchInv'
  BY <1>1, SearchStutter DEF RouterInv
<1>4. HandledInv'
  BY <1>1 DEF RouterInv, HandledInv, searchVars
<1>8. TrafficInv'
  <2>1. UNCHANGED traffic \/ /\ Len(traffic) < MaxTraffic
                             /\ \E d \in Datagrams \cup {NULL} : traffic' = Append(traffic, d)
    BY DEF HostStep, HostSends, HostAsks, HostAnswers, HostAnnounces
  <2> QED BY <2>1, RouterAssumption DEF RouterInv, TrafficInv
<1>5. WaitingInv'
  BY <1>1 DEF RouterInv, WaitingInv, IsPacket, queue_empty, queueVars, searchVars
<1>6. ArpInv'
  BY <1>1 DEF RouterInv, ArpInv
<1>7. RightInterface'
  BY <1>1 DEF RightInterface
<1> QED BY <1>2, <1>3, <1>4, <1>5, <1>6, <1>7, <1>8 DEF RouterInv

LEMMA GetPacketInv ==
  ASSUME RouterInv, NEW i \in Ports, get_packet(i)
  PROVE  RouterInv'
<1>1. /\ UNCHANGED <<searchVars, queueVars, asked, traffic, arp_table, slot, packet_aux>>
      /\ out' = NULL /\ pc' = "dispatch"
      /\ m' = [interface |-> i, frame |-> Head(inbox[i])]
      /\ inbox' = [inbox EXCEPT ![i] = Tail(@)] /\ inbox[i] # <<>>
  BY DEF get_packet
<1>2. inbox[i] \in Seq(HostFrames(i)) /\ Head(inbox[i]) \in HostFrames(i)
      /\ Tail(inbox[i]) \in Seq(HostFrames(i))
  BY <1>1 DEF RouterInv, NetInv
<1>3. SearchInv'
  BY <1>1, SearchStutter DEF RouterInv
<1>4. NetInv'
  <2> SUFFICES ASSUME NEW j \in Ports PROVE inbox'[j] \in Seq(HostFrames(j))
    BY <1>1 DEF RouterInv, NetInv
  <2>1. CASE j = i
    BY <1>1, <1>2, <2>1 DEF RouterInv, NetInv
  <2>2. CASE j # i
    BY <1>1, <2>2 DEF RouterInv, NetInv
  <2> QED BY <2>1, <2>2
<1>5. TrafficInv' /\ ArpInv'
  BY <1>1 DEF RouterInv, TrafficInv, ArpInv
<1>6. HandledInv'
  BY <1>1, <1>2 DEF HandledInv, Received
<1>7. WaitingInv'
  BY <1>1 DEF RouterInv, WaitingInv, IsPacket, queue_empty, queueVars
<1>8. RightInterface'
  BY <1>1 DEF RightInterface
<1> QED BY <1>3, <1>4, <1>5, <1>6, <1>7, <1>8 DEF RouterInv

\* A frame of the router's own making: an answer, or a request.
OwnFrame ==
  \/ out' = NULL
  \/ /\ out'.frame.shost = PortMac(out'.interface)
     /\ out'.frame.type = "IP" => out'.frame.number = 0

LEMMA OwnFrameRight == OwnFrame => RightInterface'
BY DEF OwnFrame, RightInterface

LEMMA SendBackOwn ==
  ASSUME RouterInv, pc \in {"dispatch", "route"}, m.frame.type = "IP",
         NEW kind, NEW id, SendBack(kind, id)
  PROVE  OwnFrame
<1>1. m.frame.dhost = PortMac(m.interface)
  BY ReceivedFacts DEF RouterInv, HandledInv
<1>2. out' = [interface |-> m.interface,
              frame |-> IcmpFrame(ip_hdr.saddr, ip_hdr.daddr, m.frame.dhost,
                                  m.frame.shost, kind, id)]
  BY DEF SendBack, send_packet
<1>3. out'.interface = m.interface /\ out'.frame.shost = m.frame.dhost
      /\ out'.frame.number = 0
  BY <1>2 DEF IcmpFrame
<1> QED BY <1>1, <1>3 DEF OwnFrame

\* The branches that end in continue, with nothing changed but what was sent.
LEMMA ContinueInv ==
  ASSUME RouterInv, Continue, UNCHANGED searchVars, OwnFrame
  PROVE  RouterInv'
<1>1. /\ UNCHANGED <<queueVars, inbox, traffic, arp_table, slot, packet_aux>>
      /\ pc' = "get_packet"
  BY DEF Continue, netVars
<1>2. SearchInv'
  BY SearchStutter DEF RouterInv
<1>3. NetInv' /\ TrafficInv' /\ ArpInv'
  BY <1>1 DEF RouterInv, NetInv, TrafficInv, ArpInv
<1>4. HandledInv'
  BY <1>1 DEF HandledInv
<1>5. WaitingInv'
  BY <1>1 DEF RouterInv, WaitingInv, IsPacket, queue_empty, queueVars
<1> QED BY <1>2, <1>3, <1>4, <1>5, OwnFrameRight DEF RouterInv

LEMMA AnswersInv ==
  ASSUME RouterInv,
         EchoToUs \/ Expired \/ WrongChecksum \/ HostUnreachable \/ AnswerArp \/ IgnoreArp
  PROVE  RouterInv'
<1>1. Continue /\ UNCHANGED searchVars
  BY DEF EchoToUs, Expired, WrongChecksum, HostUnreachable, AnswerArp, IgnoreArp
<1>2. CASE EchoToUs \/ Expired
  <2>1. pc \in {"dispatch", "route"} /\ m.frame.type = "IP"
    BY <1>2 DEF EchoToUs, Expired
  <2>2. SendBack(EchoReply, Pid) \/ SendBack(TimeExceeded, 0)
    BY <1>2 DEF EchoToUs, Expired
  <2> QED BY <1>1, <2>1, <2>2, SendBackOwn, ContinueInv
<1>3. CASE HostUnreachable
  <2>1. pc = "route" /\ m.frame.type = "IP" /\ SendBack(Unreachable, 0)
    BY <1>3 DEF HostUnreachable, RouterInv, HandledInv
  <2> QED BY <1>1, <2>1, SendBackOwn, ContinueInv
<1>4. CASE WrongChecksum \/ IgnoreArp
  BY <1>1, <1>4, ContinueInv DEF WrongChecksum, IgnoreArp, OwnFrame
<1>5. CASE AnswerArp
  <2>1. OwnFrame
    BY <1>5 DEF AnswerArp, send_packet, ArpFrame, OwnFrame
  <2> QED BY <1>1, <2>1, ContinueInv
<1> QED BY <1>2, <1>3, <1>4, <1>5

LEMMA LookUpInv == RouterInv /\ LookUp => RouterInv'
<1> SUFFICES ASSUME RouterInv, LookUp PROVE RouterInv'
  OBVIOUS
<1>1. /\ UNCHANGED <<queueVars, inbox, traffic, arp_table, m, slot, packet_aux>>
      /\ pc = "dispatch" /\ pc' = "route" /\ out' = NULL
      /\ m.frame.type = "IP" /\ CallSearch(m.frame.ip.daddr)
  BY DEF LookUp, netVars, GoesOn, ip_hdr
<1>2. m \in Received /\ m.frame.ip.daddr \in Addrs
  BY <1>1, ReceivedFacts DEF RouterInv, HandledInv, IsPacket
<1>3. SearchInv'
  BY <1>1, <1>2, CallSearchInv DEF RouterInv
<1>4. NetInv' /\ TrafficInv' /\ ArpInv'
  BY <1>1 DEF RouterInv, NetInv, TrafficInv, ArpInv
<1>5. HandledInv'
  BY <1>1, <1>2 DEF HandledInv, CallSearch
<1>6. WaitingInv'
  BY <1>1 DEF RouterInv, WaitingInv, IsPacket, queue_empty, queueVars
<1>7. RightInterface'
  BY <1>1 DEF RightInterface
<1> QED BY <1>3, <1>4, <1>5, <1>6, <1>7 DEF RouterInv

LEMMA SearchInLoopInv == RouterInv /\ Search => RouterInv'
<1> SUFFICES ASSUME RouterInv, Search PROVE RouterInv'
  OBVIOUS
<1>1. /\ UNCHANGED <<queueVars, inbox, traffic, arp_table, m, slot, packet_aux, pc>>
      /\ SearchStep /\ out' = NULL
  BY DEF Search, netVars
<1>2. dest_ip' = dest_ip
  BY <1>1 DEF SearchStep, Found, GoRight, GoLeft, NotFound
<1>3. SearchInv'
  BY <1>1, SearchStepInv DEF RouterInv
<1>4. NetInv' /\ TrafficInv' /\ ArpInv'
  BY <1>1 DEF RouterInv, NetInv, TrafficInv, ArpInv
<1>5. HandledInv'
  BY <1>1, <1>2 DEF RouterInv, HandledInv
<1>6. WaitingInv'
  BY <1>1, <1>2 DEF RouterInv, WaitingInv, IsPacket, queue_empty, queueVars
<1>7. RightInterface'
  BY <1>1 DEF RightInterface
<1> QED BY <1>3, <1>4, <1>5, <1>6, <1>7 DEF RouterInv

LEMMA UpdatedFacts ==
  ASSUME IsPacket(m)
  PROVE  /\ IsPacket(Updated) /\ Updated.frame.ip.daddr = m.frame.ip.daddr
         /\ Updated.frame.type = m.frame.type /\ Updated.interface = m.interface
BY DEF IsPacket, Updated, WithCheck, ip_hdr

LEMMA AskAndWaitInv == RouterInv /\ AskAndWait => RouterInv'
<1> SUFFICES ASSUME RouterInv, AskAndWait PROVE RouterInv'
  OBVIOUS
<1>1. /\ UNCHANGED <<searchVars, inbox, traffic, arp_table, packet_aux>>
      /\ pc = "route" /\ pc' = "get_packet" /\ slot' = Updated
      /\ out' = [interface |-> Via,
                 frame |-> ArpFrame("REQUEST", PortMac(Via), Broadcast, PortMac(Via),
                                    PortIp[Via], route.next_hop)]
  BY DEF AskAndWait, send_packet
<1>2. IsPacket(slot')
  <2>1. IsPacket(m)
    BY <1>1, ReceivedFacts DEF RouterInv, HandledInv
  <2> QED BY <1>1, <2>1, UpdatedFacts
<1>3. SearchInv'
  BY <1>1, SearchStutter DEF RouterInv
<1>4. NetInv' /\ TrafficInv' /\ ArpInv'
  BY <1>1 DEF RouterInv, NetInv, TrafficInv, ArpInv
<1>5. HandledInv'
  BY <1>1 DEF HandledInv
<1>6. WaitingInv'
  BY <1>1, <1>2 DEF WaitingInv, IsPacket
<1>7. OwnFrame
  BY <1>1 DEF OwnFrame, ArpFrame
<1> QED BY <1>3, <1>4, <1>5, <1>6, <1>7, OwnFrameRight DEF RouterInv

\* A route the search has found is one of the destination.
LEMMA RouteMatches ==
  ASSUME SearchInv, best_route # 0
  PROVE  /\ best_route \in 1 .. Len(rtable)
         /\ route = rtable[best_route] /\ Via = rtable[best_route].interface
         /\ Masked(dest_ip, rtable[best_route].mask) = rtable[best_route].prefix
BY DEF SearchInv, SearchTypeOK, SearchSound, Matches, Masks, route, Via

LEMMA ForwardInv == RouterInv /\ Forward => RouterInv'
<1> SUFFICES ASSUME RouterInv, Forward PROVE RouterInv'
  OBVIOUS
<1>1. /\ UNCHANGED <<searchVars, queueVars, inbox, traffic, arp_table, slot, packet_aux>>
      /\ pc = "route" /\ pc' = "get_packet" /\ best_route # 0
      /\ m' = [Updated EXCEPT !.frame.shost = PortMac(Via),
                              !.frame.dhost = ArpMac(ip_hdr.daddr)]
      /\ out' = [interface |-> Via, frame |-> m'.frame]
  BY DEF Forward, send_packet, netVars
<1>2. IsPacket(Updated) /\ Updated.frame.ip.daddr = dest_ip
  <2>1. IsPacket(m) /\ m.frame.ip.daddr = dest_ip
    BY <1>1, ReceivedFacts DEF RouterInv, HandledInv
  <2> QED BY <2>1, UpdatedFacts
<1>3. SearchInv'
  BY <1>1, SearchStutter DEF RouterInv
<1>4. NetInv' /\ TrafficInv' /\ ArpInv'
  BY <1>1 DEF RouterInv, NetInv, TrafficInv, ArpInv
<1>5. HandledInv'
  BY <1>1 DEF HandledInv
<1>6. WaitingInv'
  BY <1>1 DEF RouterInv, WaitingInv, IsPacket, queue_empty, queueVars
<1>7. RightInterface'
  <2>1. out'.interface = Via /\ out'.frame.shost = PortMac(Via)
        /\ out'.frame.ip.daddr = dest_ip
    BY <1>1, <1>2 DEF IsPacket
  <2>2. rtable' = rtable
    BY <1>1 DEF searchVars
  <2> QED BY <1>1, <2>1, <2>2, RouteMatches DEF RouterInv, RightInterface
<1> QED BY <1>3, <1>4, <1>5, <1>6, <1>7 DEF RouterInv

\* An address is added only when it is not there.
LEMMA LearnInv ==
  ASSUME RouterInv, pc = "dispatch", m.frame.type = "ARP", m.frame.op = "REPLY", Learn
  PROVE  ArpInv'
<1> DEFINE e == [ip |-> m.frame.spa, mac |-> m.frame.sha]
<1>1. e \in Entries
  BY ReceivedFacts DEF RouterInv, HandledInv
<1>2. CASE EntriesOf(m.frame.spa) = {}
  <2>1. arp_table' = Append(arp_table, e)
    BY <1>2 DEF Learn
  <2>2. \A k \in 1 .. Len(arp_table) : arp_table[k].ip # m.frame.spa
    BY <1>2 DEF EntriesOf
  <2>3. arp_table \in Seq(Entries) /\ Len(arp_table) \in Nat
    BY DEF RouterInv, ArpInv
  <2>4. /\ arp_table' \in Seq(Entries) /\ Len(arp_table') = Len(arp_table) + 1
        /\ arp_table'[Len(arp_table) + 1] = e
        /\ \A k \in 1 .. Len(arp_table) : arp_table'[k] = arp_table[k]
    BY <1>1, <2>1, <2>3
  <2>5. ASSUME NEW j \in 1 .. Len(arp_table'), NEW k \in 1 .. Len(arp_table'),
               arp_table'[j].ip = arp_table'[k].ip
        PROVE  j = k
    <3>1. e.ip = m.frame.spa
      OBVIOUS
    <3>2. CASE j \in 1 .. Len(arp_table) /\ k \in 1 .. Len(arp_table)
      BY <2>4, <2>5, <3>2 DEF RouterInv, ArpInv
    <3>3. CASE j \in 1 .. Len(arp_table) /\ k = Len(arp_table) + 1
      BY <2>2, <2>4, <2>5, <3>1, <3>3
    <3>4. CASE j = Len(arp_table) + 1 /\ k \in 1 .. Len(arp_table)
      BY <2>2, <2>4, <2>5, <3>1, <3>4
    <3> QED BY <2>3, <2>4, <3>2, <3>3, <3>4
  <2> QED BY <2>4, <2>5 DEF ArpInv
<1>3. CASE EntriesOf(m.frame.spa) # {}
  BY <1>3 DEF Learn, RouterInv, ArpInv
<1> QED BY <1>2, <1>3

LEMMA ReplyNobodyWaitsInv == RouterInv /\ ReplyNobodyWaits => RouterInv'
<1> SUFFICES ASSUME RouterInv, ReplyNobodyWaits PROVE RouterInv'
  OBVIOUS
<1>1. /\ UNCHANGED <<searchVars, queueVars, inbox, traffic, m, slot, packet_aux>>
      /\ pc = "dispatch" /\ pc' = "get_packet" /\ out' = NULL
  BY DEF ReplyNobodyWaits, netVars
<1>2. ArpInv'
  BY LearnInv DEF ReplyNobodyWaits
<1>3. SearchInv'
  BY <1>1, SearchStutter DEF RouterInv
<1>4. NetInv' /\ TrafficInv'
  BY <1>1 DEF RouterInv, NetInv, TrafficInv
<1>5. HandledInv'
  BY <1>1 DEF HandledInv
<1>6. WaitingInv'
  BY <1>1 DEF RouterInv, WaitingInv, IsPacket, queue_empty, queueVars
<1>7. RightInterface'
  BY <1>1 DEF RightInterface
<1> QED BY <1>2, <1>3, <1>4, <1>5, <1>6, <1>7 DEF RouterInv

\* Whichever packet the queue's first address stood for, what leaves is p's
\* content, and the route that is searched is the one of that content.
LEMMA ReplyOneLeavesInv == RouterInv /\ ReplyOneLeaves => RouterInv'
<1> SUFFICES ASSUME RouterInv, ReplyOneLeaves PROVE RouterInv'
  OBVIOUS
<1>1. /\ UNCHANGED <<inbox, traffic, m, slot>>
      /\ pc = "dispatch" /\ pc' = "resend" /\ out' = NULL /\ packet_aux' = slot
      /\ ~queue_empty /\ CallSearch(slot.frame.ip.daddr)
  BY DEF ReplyOneLeaves, netVars, SearchAgain
<1>2. IsPacket(slot)
  BY <1>1 DEF RouterInv, WaitingInv
<1>3. SearchInv'
  BY <1>1, <1>2, CallSearchInv DEF RouterInv, IsPacket
<1>4. NetInv' /\ TrafficInv'
  BY <1>1 DEF RouterInv, NetInv, TrafficInv
<1>5. HandledInv'
  BY <1>1 DEF RouterInv, HandledInv
<1>6. WaitingInv'
  BY <1>1, <1>2 DEF WaitingInv, IsPacket, CallSearch
<1>7. ArpInv'
  BY LearnInv DEF ReplyOneLeaves
<1>8. RightInterface'
  BY <1>1 DEF RightInterface
<1> QED BY <1>3, <1>4, <1>5, <1>6, <1>7, <1>8 DEF RouterInv

LEMMA ResendInv == RouterInv /\ Resend => RouterInv'
<1> SUFFICES ASSUME RouterInv, Resend PROVE RouterInv'
  OBVIOUS
<1>1. /\ UNCHANGED <<searchVars, queueVars, inbox, traffic, arp_table, m, slot>>
      /\ pc = "resend" /\ pc' \in {"crash", "get_packet"}
  BY DEF Resend, netVars
<1>2. IsPacket(packet_aux) /\ packet_aux.frame.ip.daddr = dest_ip
  BY <1>1 DEF RouterInv, WaitingInv
<1>3. SearchInv'
  BY <1>1, SearchStutter DEF RouterInv
<1>4. NetInv' /\ TrafficInv' /\ ArpInv'
  BY <1>1 DEF RouterInv, NetInv, TrafficInv, ArpInv
<1>5. HandledInv'
  BY <1>1 DEF HandledInv
<1>6. WaitingInv'
  BY <1>1 DEF RouterInv, WaitingInv, IsPacket, queue_empty, queueVars
<1>7. RightInterface'
  <2>1. CASE best_route = 0
    BY <2>1 DEF Resend, RightInterface
  <2>2. CASE best_route # 0
    <3>1. /\ packet_aux' = [packet_aux EXCEPT !.frame.dhost = m.frame.sha,
                                             !.frame.shost = PortMac(Via)]
          /\ out' = [interface |-> Via, frame |-> packet_aux'.frame]
      BY <2>2 DEF Resend, send_packet
    <3>2. out'.interface = Via /\ out'.frame.shost = PortMac(Via)
          /\ out'.frame.ip.daddr = dest_ip
      BY <1>2, <3>1 DEF IsPacket
    <3>3. rtable' = rtable
      BY <1>1 DEF searchVars
    <3> QED BY <2>2, <3>2, <3>3, RouteMatches DEF RouterInv, RightInterface
  <2> QED BY <2>1, <2>2
<1> QED BY <1>3, <1>4, <1>5, <1>6, <1>7 DEF RouterInv

LEMMA RouterStutter == RouterInv /\ UNCHANGED vars => RouterInv'
<1> SUFFICES ASSUME RouterInv, UNCHANGED vars PROVE RouterInv'
  OBVIOUS
<1>1. UNCHANGED <<searchVars, queueVars, inbox, traffic, arp_table, m, slot, packet_aux,
                  pc, out>>
  BY DEF vars, netVars, routerVars
<1>2. SearchInv'
  BY <1>1, SearchStutter DEF RouterInv
<1>3. NetInv' /\ TrafficInv' /\ ArpInv'
  BY <1>1 DEF RouterInv, NetInv, TrafficInv, ArpInv
<1>4. HandledInv'
  BY <1>1 DEF RouterInv, HandledInv, searchVars
<1>5. WaitingInv'
  BY <1>1 DEF RouterInv, WaitingInv, IsPacket, queue_empty, queueVars, searchVars
<1>6. RightInterface'
  BY <1>1 DEF RouterInv, RightInterface, searchVars
<1> QED BY <1>2, <1>3, <1>4, <1>5, <1>6 DEF RouterInv

LEMMA NextInv == RouterInv /\ [Next]_vars => RouterInv'
<1> SUFFICES ASSUME RouterInv, [Next]_vars PROVE RouterInv'
  OBVIOUS
<1>1. CASE HostStep
  BY <1>1, HostInv
<1>2. CASE RouterStep
  BY <1>2, GetPacketInv, AnswersInv, LookUpInv, SearchInLoopInv, AskAndWaitInv,
     ForwardInv, ReplyNobodyWaitsInv, ReplyOneLeavesInv, ResendInv DEF RouterStep
<1>3. CASE UNCHANGED vars
  BY <1>3, RouterStutter
<1> QED BY <1>1, <1>2, <1>3 DEF Next

-----------------------------------------------------------------------------
(* A search that found a route finds one again.  What the search visits is  *)
(* not in the state; that it finds nothing is said by a set of pairs        *)
(* <<left, right>> that it cannot leave and in which no Mid matches.        *)

MidOf(p) == (p[1] + p[2]) \div 2
Hit(t, d, p) == Masked(d, t[MidOf(p)].mask) = t[MidOf(p)].prefix
After(t, d, p) == IF Masked(d, t[MidOf(p)].mask) > t[MidOf(p)].prefix
                  THEN <<MidOf(p) + 1, p[2]>>
                  ELSE <<p[1], MidOf(p) - 1>>

Misses(t, d, S) == \A p \in S : p[1] <= p[2] => ~Hit(t, d, p) /\ After(t, d, p) \in S

\* From the pair p, the search of d in t finds nothing.
Lost(t, d, p) == \E S \in SUBSET (Int \X Int) : p \in S /\ Misses(t, d, S)

LEMMA LostStep ==
  ASSUME NEW t, NEW d, NEW p \in Int \X Int, p[1] <= p[2], ~Hit(t, d, p)
  PROVE  Lost(t, d, p) <=> Lost(t, d, After(t, d, p))
<1>1. After(t, d, p) \in Int \X Int
  BY DEF After, MidOf
<1>2. ASSUME Lost(t, d, p) PROVE Lost(t, d, After(t, d, p))
  BY <1>2 DEF Lost, Misses
<1>3. ASSUME Lost(t, d, After(t, d, p)) PROVE Lost(t, d, p)
  <2>1. PICK S \in SUBSET (Int \X Int) : After(t, d, p) \in S /\ Misses(t, d, S)
    BY <1>3 DEF Lost
  <2>2. S \cup {p} \in SUBSET (Int \X Int) /\ p \in S \cup {p}
    OBVIOUS
  <2>3. Misses(t, d, S \cup {p})
    BY <2>1 DEF Misses
  <2> QED BY <2>2, <2>3 DEF Lost
<1> QED BY <1>2, <1>3

LEMMA LostEnd ==
  ASSUME NEW t, NEW d, NEW p \in Int \X Int, p[1] > p[2]
  PROVE  Lost(t, d, p)
<1>1. {p} \in SUBSET (Int \X Int) /\ p \in {p}
  OBVIOUS
<1>2. p[1] \in Int /\ p[2] \in Int /\ ~(p[1] <= p[2])
  OBVIOUS
<1>3. Misses(t, d, {p})
  BY <1>2 DEF Misses
<1> QED BY <1>1, <1>3 DEF Lost

LEMMA HitNotLost ==
  ASSUME NEW t, NEW d, NEW p, p[1] <= p[2], Hit(t, d, p)
  PROVE  ~Lost(t, d, p)
BY DEF Lost, Misses

\* No route is found for d, wherever the search goes.
NoRoute(d) == Lost(rtable, d, <<1, Len(rtable)>>)

\* How the search under way will end, how the last one ended, and that what
\* waits in p, or was taken from it, has a route.
FateInv ==
  /\ searching => (Lost(rtable, dest_ip, <<left, right>>) <=> NoRoute(dest_ip))
  /\ pc \in {"route", "resend"} /\ ~searching => (best_route = 0 <=> NoRoute(dest_ip))
  /\ searching => best_route = 0
  /\ ~queue_empty => ~NoRoute(slot.frame.ip.daddr)
  /\ pc = "resend" => ~NoRoute(dest_ip)
  /\ NoNullRoute

LEMMA SearchFate ==
  ASSUME SearchInv, SearchStep,
         Lost(rtable, dest_ip, <<left, right>>) <=> NoRoute(dest_ip)
  PROVE  /\ rtable' = rtable /\ dest_ip' = dest_ip
         /\ searching' => (Lost(rtable, dest_ip, <<left', right'>>) <=> NoRoute(dest_ip))
         /\ best_route' = 0 /\ ~searching' => NoRoute(dest_ip)
         /\ best_route' # 0 /\ best_route = 0 => ~NoRoute(dest_ip)
<1> DEFINE p == <<left, right>>
<1>1. left \in Int /\ right \in Int /\ p \in Int \X Int /\ p[1] = left /\ p[2] = right
      /\ Len(rtable) \in Nat
  BY DEF SearchInv, SearchTypeOK
<1>2. Mid = MidOf(p) /\ (Matches(Mid) <=> Hit(rtable, dest_ip, p))
  BY <1>1 DEF Mid, MidOf, Hit, Matches, Masks
<1>3. CASE Found
  <2>1. ~Lost(rtable, dest_ip, p)
    BY <1>1, <1>2, <1>3, HitNotLost DEF Found
  <2>2. Mid # 0
    BY <1>1, <1>3, Middle DEF Found, Mid, SearchInv, SearchTypeOK
  <2> QED BY <1>3, <2>1, <2>2 DEF Found
<1>4. CASE GoRight
  <2>1. <<left', right'>> = After(rtable, dest_ip, p)
    BY <1>1, <1>2, <1>4 DEF GoRight, AfterMid, After, Mid, MidOf, Masks
  <2>2. Lost(rtable, dest_ip, p) <=> Lost(rtable, dest_ip, <<left', right'>>)
    BY <1>1, <1>2, <1>4, <2>1, LostStep DEF GoRight
  <2> QED BY <1>4, <2>2 DEF GoRight
<1>5. CASE GoLeft
  <2>1. <<left', right'>> = After(rtable, dest_ip, p)
    BY <1>1, <1>2, <1>5 DEF GoLeft, After, Mid, MidOf, Masks
  <2>2. Lost(rtable, dest_ip, p) <=> Lost(rtable, dest_ip, <<left', right'>>)
    BY <1>1, <1>2, <1>5, <2>1, LostStep DEF GoLeft
  <2> QED BY <1>5, <2>2 DEF GoLeft
<1>6. CASE NotFound
  <2>1. Lost(rtable, dest_ip, p)
    BY <1>1, <1>6, LostEnd DEF NotFound
  <2> QED BY <1>6, <2>1 DEF NotFound
<1> QED BY <1>3, <1>4, <1>5, <1>6 DEF SearchStep

LEMMA InitFate == Init => FateInv
BY DEF Init, SearchInit, queue_create, queue_empty, FateInv, NoNullRoute

\* The steps between two packets, which search nothing and queue nothing.
LEMMA FateKept ==
  ASSUME FateInv, UNCHANGED <<searchVars, queueVars, slot>>,
         pc' \in {"get_packet", "dispatch"} \/ UNCHANGED pc
  PROVE  FateInv'
BY DEF FateInv, NoRoute, NoNullRoute, queue_empty, searchVars, queueVars

\* A search that is called starts from the whole table.
LEMMA CallFate ==
  ASSUME NEW ip, CallSearch(ip)
  PROVE  /\ searching' = TRUE /\ best_route' = 0 /\ rtable' = rtable /\ dest_ip' = ip
         /\ Lost(rtable, ip, <<left', right'>>) <=> NoRoute(ip)
BY DEF CallSearch, LastRoute, NoRoute

LEMMA NextFate == RouterInv /\ FateInv /\ [Next]_vars => FateInv'
<1> SUFFICES ASSUME RouterInv, FateInv, [Next]_vars PROVE FateInv'
  OBVIOUS
<1>1. CASE HostStep
  BY <1>1, FateKept DEF HostStep, HostSends, HostAsks, HostAnswers, HostAnnounces
<1>2. ASSUME NEW i \in Ports, get_packet(i) PROVE FateInv'
  BY <1>2, FateKept DEF get_packet
<1>3. CASE EchoToUs \/ Expired \/ WrongChecksum \/ HostUnreachable \/ AnswerArp \/ IgnoreArp
  <2>1. Continue /\ UNCHANGED searchVars
    BY <1>3 DEF EchoToUs, Expired, WrongChecksum, HostUnreachable, AnswerArp, IgnoreArp
  <2> QED BY <2>1, FateKept DEF Continue
<1>4. CASE Forward \/ ReplyNobodyWaits
  BY <1>4, FateKept DEF Forward, ReplyNobodyWaits
<1>5. CASE LookUp
  <2>1. /\ UNCHANGED <<queueVars, slot>> /\ pc' = "route" /\ CallSearch(ip_hdr.daddr)
    BY <1>5 DEF LookUp
  <2> QED BY <2>1, CallFate DEF FateInv, NoRoute, NoNullRoute, queue_empty, queueVars
<1>6. CASE Search
  <2>1. UNCHANGED <<queueVars, slot, pc>> /\ pc \in {"route", "resend"}
        /\ SearchStep /\ searching
    BY <1>6 DEF Search, SearchStep, Found, GoRight, GoLeft, NotFound
  <2>2. /\ rtable' = rtable /\ dest_ip' = dest_ip
        /\ searching' => (Lost(rtable, dest_ip, <<left', right'>>) <=> NoRoute(dest_ip))
        /\ best_route' = 0 /\ ~searching' => NoRoute(dest_ip)
        /\ best_route' # 0 /\ best_route = 0 => ~NoRoute(dest_ip)
    BY <2>1, SearchFate DEF RouterInv, FateInv
  <2>3. searching' => best_route' = 0
    BY <2>1 DEF FateInv, SearchStep, Found, GoRight, GoLeft, NotFound
  <2> QED BY <2>1, <2>2, <2>3 DEF FateInv, NoRoute, NoNullRoute, queue_empty, queueVars
\* What is put into p has just been found a route.
<1>7. CASE AskAndWait
  <2>1. /\ UNCHANGED <<searchVars, rtable>> /\ pc' = "get_packet" /\ slot' = Updated
        /\ pc = "route" /\ ~searching /\ best_route # 0
    BY <1>7 DEF AskAndWait, searchVars
  <2>2. Updated.frame.ip.daddr = dest_ip
    BY <2>1, ReceivedFacts, UpdatedFacts DEF RouterInv, HandledInv
  <2> QED BY <2>1, <2>2 DEF FateInv, NoRoute, NoNullRoute, searchVars
\* It leaves with its content's route searched again.
<1>8. CASE ReplyOneLeaves
  <2>1. /\ ~queue_empty /\ UNCHANGED slot /\ pc' = "resend"
        /\ CallSearch(slot.frame.ip.daddr)
    BY <1>8 DEF ReplyOneLeaves, SearchAgain
  <2> QED BY <2>1, CallFate DEF FateInv, NoRoute, NoNullRoute
<1>9. CASE Resend
  <2>1. best_route # 0
    BY <1>9 DEF Resend, FateInv
  <2> QED BY <1>9, <2>1, FateKept DEF Resend
<1>10. CASE UNCHANGED vars
  BY <1>10, FateKept DEF vars, routerVars
<1> QED BY <1>1, <1>2, <1>3, <1>4, <1>5, <1>6, <1>7, <1>8, <1>9, <1>10
        DEF Next, RouterStep

-----------------------------------------------------------------------------
(* Theorems.                                                                *)

\* The conjunction of the properties below with what they rest on is never
\* left by the loop of router.c, whatever the hosts send.
THEOREM RouterInvariance == Spec => []RouterInv
<1>1. Init => RouterInv
  BY InitRouterInv
<1>2. RouterInv /\ [Next]_vars => RouterInv'
  BY NextInv
<1> QED BY <1>1, <1>2, PTL DEF Spec

\* get_best_route (lines 68-89), for tables of any length and content: what it
\* returns is a route of the address, and it misses none under a single mask.
THEOREM SearchCorrect == Spec => []SearchSound
<1>1. RouterInv => SearchSound
  BY DEF RouterInv, SearchInv
<1> QED BY <1>1, RouterInvariance, PTL

\* What the loop of lines 73-86 has still to do: an interval is at worst empty
\* by one.
StepsLeft == IF searching THEN right - left + 2 ELSE 0
IntervalInv == left <= right + 1

LEMMA NextInterval == RouterInv /\ IntervalInv /\ [Next]_vars => IntervalInv'
<1> SUFFICES ASSUME RouterInv, IntervalInv, [Next]_vars PROVE IntervalInv'
  OBVIOUS
<1>1. left \in Int /\ right \in Int /\ Len(rtable) \in Nat
  BY DEF RouterInv, SearchInv, SearchTypeOK
<1>2. CASE SearchStep
  BY <1>1, <1>2, Middle
     DEF SearchStep, Found, GoRight, GoLeft, NotFound, AfterMid, Mid, IntervalInv
<1>3. CASE \E ip : CallSearch(ip)
  BY <1>1, <1>3 DEF CallSearch, LastRoute, IntervalInv
<1>4. CASE UNCHANGED searchVars
  BY <1>4 DEF searchVars, IntervalInv
<1>5. SearchStep \/ (\E ip : CallSearch(ip)) \/ UNCHANGED searchVars
  BY DEF Next, RouterStep, HostStep, vars, get_packet, EchoToUs, Expired, WrongChecksum,
         LookUp, Search, HostUnreachable, AskAndWait, Forward, AnswerArp, IgnoreArp,
         ReplyNobodyWaits, ReplyOneLeaves, SearchAgain, Resend, HostSends, HostAsks,
         HostAnswers, HostAnnounces
<1> QED BY <1>2, <1>3, <1>4, <1>5

LEMMA SearchStepShrinks ==
  ASSUME SearchTypeOK, IntervalInv, SearchStep
  PROVE  StepsLeft' \in Nat /\ StepsLeft' < StepsLeft
<1>1. left \in Int /\ right \in Int /\ left <= right + 1 /\ searching
  BY DEF SearchTypeOK, IntervalInv, SearchStep, Found, GoRight, GoLeft, NotFound
<1>2. CASE Found \/ NotFound
  BY <1>1, <1>2 DEF Found, NotFound, StepsLeft
<1> DEFINE middle == (left + right) \div 2
<1>3. CASE GoRight
  <2>1. left <= right /\ left' = middle + 1 /\ right' = right /\ searching'
    BY <1>1, <1>3 DEF GoRight, AfterMid, Mid
  <2>2. middle \in left .. right
    BY <1>1, <2>1, Middle
  <2> HIDE DEF middle
  <2>3. middle \in Int /\ left <= middle /\ middle <= right
    BY <1>1, <2>2
  <2> QED BY <1>1, <2>1, <2>3 DEF StepsLeft
<1>4. CASE GoLeft
  <2>1. left <= right /\ right' = middle - 1 /\ left' = left /\ searching'
    BY <1>1, <1>4 DEF GoLeft, AfterMid, Mid
  <2>2. middle \in left .. right
    BY <1>1, <2>1, Middle
  <2> HIDE DEF middle
  <2>3. middle \in Int /\ left <= middle /\ middle <= right
    BY <1>1, <2>2
  <2> QED BY <1>1, <2>1, <2>3 DEF StepsLeft
<1> QED BY <1>2, <1>3, <1>4 DEF SearchStep

\* get_best_route (lines 68-89) ends for every address and every table, also
\* where its halves say nothing: each turn of its loop leaves less to search.
THEOREM SearchShrinks == Spec => [][Search => StepsLeft' \in Nat /\ StepsLeft' < StepsLeft]_vars
<1>1. Init => IntervalInv
  BY OrdersAreTables DEF Init, SearchInit, IntervalInv
<1>2. RouterInv /\ IntervalInv =>
        [Search => StepsLeft' \in Nat /\ StepsLeft' < StepsLeft]_vars
  BY SearchStepShrinks DEF RouterInv, SearchInv, Search
<1> QED BY <1>1, <1>2, NextInterval, RouterInvariance, PTL DEF Spec

\* A packet that is passed on leaves by the interface of a route of its
\* destination, at once (lines 188-193) or after it waited (lines 223-231).
THEOREM LeavesByItsRoute == Spec => []RightInterface
<1>1. RouterInv => RightInterface
  BY DEF RouterInv
<1> QED BY <1>1, RouterInvariance, PTL

\* Lines 223-231: best_r, which is not compared with NULL, never is NULL when a
\* packet that waited leaves, whatever the table and whichever packets shared p.
THEOREM ResendHasRoute == Spec => []NoNullRoute
<1>1. Init => RouterInv /\ FateInv
  BY InitRouterInv, InitFate
<1>2. RouterInv /\ FateInv /\ [Next]_vars => (RouterInv /\ FateInv)'
  BY NextInv, NextFate
<1>3. FateInv => NoNullRoute
  BY DEF FateInv
<1> QED BY <1>1, <1>2, <1>3, PTL DEF Spec

\* Lines 214-220: whatever replies come, no address has two entries, and a
\* table with a place for every neighbour is not written past its end.
THEOREM ArpTableFits == Spec => []ArpFits
<1>1. ArpInv => ArpFits
  <2> SUFFICES ASSUME ArpInv, Cardinality(Neighbours) <= ArpRoom
               PROVE  Len(arp_table) <= ArpRoom
    BY DEF ArpInv, ArpFits
  <2> DEFINE places == 1 .. Len(arp_table)
             Owner(k) == CHOOSE n \in Neighbours : n.ip = arp_table[k].ip
             f == [k \in places |-> Owner(k)]
  <2>1. Len(arp_table) \in Nat /\ \A k \in places : arp_table[k] \in Entries
    BY DEF ArpInv
  <2>2. \A k \in places : f[k] \in Neighbours /\ f[k].ip = arp_table[k].ip
    BY <2>1 DEF Entries
  <2>3. IsFiniteSet(places) /\ Cardinality(places) = Len(arp_table)
    BY <2>1, FS_Interval
  <2>4. IsFiniteSet(Neighbours) /\ Cardinality(Neighbours) \in Nat /\ ArpRoom \in Nat
    BY RouterAssumption, FS_CardinalityType
  <2>5. f \in [places -> Neighbours]
    BY <2>2
  <2>6. ~(Cardinality(Neighbours) < Cardinality(places))
    <3> SUFFICES ASSUME Cardinality(Neighbours) < Cardinality(places) PROVE FALSE
      OBVIOUS
    <3> HIDE DEF places, f
    <3>1. PICK j, k \in places : j # k /\ f[j] = f[k]
      BY <2>3, <2>4, <2>5, FS_PigeonHole
    <3>2. arp_table[j].ip = arp_table[k].ip
      BY <2>2, <3>1
    <3> QED BY <3>1, <3>2 DEF ArpInv, places
  <2> QED BY <2>1, <2>3, <2>4, <2>6
<1>2. RouterInv => ArpFits
  BY <1>1 DEF RouterInv
<1> QED BY <1>2, RouterInvariance, PTL

-----------------------------------------------------------------------------
(* The types, the queue's among them.                                       *)

OnPort(v) == v = NULL \/ v.interface \in Ports

TypesInv ==
  /\ QueueInv
  /\ pc \in {"get_packet", "dispatch", "route", "resend", "crash"}
  /\ asked \in [Neighbours -> Nat]
  /\ OnPort(m) /\ OnPort(slot) /\ OnPort(packet_aux) /\ OnPort(out)

LEMMA InitTypes == Init => TypesInv
BY QueueCreateInv DEF Init, TypesInv, OnPort

LEMMA ViaPort == RouterInv /\ best_route # 0 => Via \in Ports
<1> SUFFICES ASSUME RouterInv, best_route # 0 PROVE Via \in Ports
  OBVIOUS
<1>1. rtable \in Seq(Routes) /\ best_route \in 1 .. Len(rtable)
  BY RouteMatches DEF RouterInv, SearchInv, SearchTypeOK
<1>2. rtable[best_route] \in Routes
  BY <1>1
<1> QED BY <1>2 DEF Via, route, Routes

LEMMA HostTypes == TypesInv /\ HostStep => TypesInv'
<1> SUFFICES ASSUME TypesInv, HostStep PROVE TypesInv'
  OBVIOUS
<1>1. /\ UNCHANGED <<queueVars, m, slot, packet_aux, pc>> /\ out' = NULL
      /\ UNCHANGED asked \/ \E n \in Neighbours :
                              asked[n] > 0 /\ asked' = [asked EXCEPT ![n] = @ - 1]
  BY DEF HostStep, HostSends, HostAsks, HostAnswers, HostAnnounces
<1>2. asked' \in [Neighbours -> Nat]
  BY <1>1 DEF TypesInv
<1> QED BY <1>1, <1>2, QueueStutter DEF TypesInv, OnPort

\* The branches that wait for nothing.
LEMMA AnswersTypes ==
  ASSUME RouterInv, TypesInv,
         EchoToUs \/ Expired \/ WrongChecksum \/ HostUnreachable \/ AnswerArp \/ IgnoreArp
  PROVE  TypesInv'
<1>1. /\ UNCHANGED <<queueVars, asked, m, slot, packet_aux>> /\ pc' = "get_packet"
  BY DEF EchoToUs, Expired, WrongChecksum, HostUnreachable, AnswerArp, IgnoreArp,
         Continue, netVars
<1>2. pc \in {"dispatch", "route"}
  BY DEF EchoToUs, Expired, WrongChecksum, HostUnreachable, AnswerArp, IgnoreArp
<1>3. m.interface \in Ports
  BY <1>2, ReceivedFacts DEF RouterInv, HandledInv
<1>4. out' = NULL \/ out'.interface = m.interface
  BY DEF EchoToUs, Expired, WrongChecksum, HostUnreachable, AnswerArp, IgnoreArp,
         SendBack, send_packet
<1> QED BY <1>1, <1>3, <1>4, QueueStutter DEF TypesInv, OnPort

LEMMA AskAndWaitTypes == RouterInv /\ TypesInv /\ AskAndWait => TypesInv'
<1> SUFFICES ASSUME RouterInv, TypesInv, AskAndWait PROVE TypesInv'
  OBVIOUS
<1>1. /\ pc = "route" /\ pc' = "get_packet" /\ best_route # 0 /\ UNCHANGED packet_aux
      /\ m' = Updated /\ slot' = Updated /\ queue_enq(m.frame.number)
      /\ asked' = Asked(route.next_hop, Via) /\ out'.interface = Via
  BY DEF AskAndWait, send_packet
<1>2. m.interface \in Ports /\ IsPacket(m) /\ m.frame.number \in Elements
  BY <1>1, ReceivedFacts, RouterAssumption DEF RouterInv, HandledInv
<1>3. Updated.interface \in Ports
  BY <1>2, UpdatedFacts
<1>4. QueueInv'
  BY <1>1, <1>2, EnqInv DEF TypesInv
<1>5. asked' \in [Neighbours -> Nat]
  BY <1>1 DEF Asked, TypesInv
<1> QED BY <1>1, <1>3, <1>4, <1>5, ViaPort DEF TypesInv, OnPort

LEMMA ForwardTypes == RouterInv /\ TypesInv /\ Forward => TypesInv'
<1> SUFFICES ASSUME RouterInv, TypesInv, Forward PROVE TypesInv'
  OBVIOUS
<1>1. /\ pc = "route" /\ pc' = "get_packet" /\ best_route # 0
      /\ UNCHANGED <<queueVars, asked, slot, packet_aux>>
      /\ m' = [Updated EXCEPT !.frame.shost = PortMac(Via),
                              !.frame.dhost = ArpMac(ip_hdr.daddr)]
      /\ out'.interface = Via
  BY DEF Forward, send_packet, netVars
<1>2. m.interface \in Ports /\ IsPacket(m)
  BY <1>1, ReceivedFacts DEF RouterInv, HandledInv
<1>3. Updated.interface \in Ports /\ IsPacket(Updated)
  BY <1>2, UpdatedFacts
<1>4. m'.interface = Updated.interface
  BY <1>1, <1>3 DEF IsPacket
<1> QED BY <1>1, <1>3, <1>4, ViaPort, QueueStutter DEF TypesInv, OnPort

LEMMA ResendTypes == RouterInv /\ TypesInv /\ Resend => TypesInv'
<1> SUFFICES ASSUME RouterInv, TypesInv, Resend PROVE TypesInv'
  OBVIOUS
<1>1. /\ pc = "resend" /\ pc' \in {"crash", "get_packet"}
      /\ UNCHANGED <<queueVars, asked, m, slot>>
  BY DEF Resend, netVars
<1>2. CASE best_route = 0
  BY <1>1, <1>2, QueueStutter DEF Resend, TypesInv, OnPort
<1>3. CASE best_route # 0
  <2>1. /\ packet_aux' = [packet_aux EXCEPT !.frame.dhost = m.frame.sha,
                                           !.frame.shost = PortMac(Via)]
        /\ out'.interface = Via
    BY <1>3 DEF Resend, send_packet
  <2>2. packet_aux'.interface = packet_aux.interface
    BY <1>1, <2>1 DEF RouterInv, WaitingInv, IsPacket
  <2>3. OnPort(packet_aux)'
    BY <1>1, <2>2 DEF OnPort, RouterInv, WaitingInv, IsPacket
  <2> QED BY <1>1, <1>3, <2>1, <2>3, ViaPort, QueueStutter DEF TypesInv, OnPort
<1> QED BY <1>2, <1>3

LEMMA NextTypes == RouterInv /\ TypesInv /\ [Next]_vars => TypesInv'
<1> SUFFICES ASSUME RouterInv, TypesInv, [Next]_vars PROVE TypesInv'
  OBVIOUS
<1>1. ASSUME NEW i \in Ports, get_packet(i) PROVE TypesInv'
  BY <1>1, QueueStutter DEF get_packet, TypesInv, OnPort
<1>2. CASE LookUp \/ Search
  BY <1>2, QueueStutter DEF LookUp, Search, TypesInv, OnPort, netVars
<1>3. CASE ReplyNobodyWaits
  BY <1>3, QueueStutter DEF ReplyNobodyWaits, TypesInv, OnPort, netVars
<1>4. CASE ReplyOneLeaves
  BY <1>4, DeqInv DEF ReplyOneLeaves, TypesInv, OnPort, netVars
<1>5. CASE UNCHANGED vars
  BY <1>5, QueueStutter DEF vars, netVars, routerVars, TypesInv, OnPort
<1> QED BY <1>1, <1>2, <1>3, <1>4, <1>5, HostTypes, AnswersTypes, AskAndWaitTypes,
           ForwardTypes, ResendTypes DEF Next, RouterStep

LEMMA TypesInvariance == Spec => [](RouterInv /\ TypesInv)
<1> QED BY InitRouterInv, InitTypes, NextInv, NextTypes, PTL DEF Spec

\* The types of the loop's variables, the queue's cells among them.
THEOREM TypeCorrect == Spec => []TypeOK
<1>1. RouterInv /\ TypesInv => TypeOK
  <2> SUFFICES ASSUME RouterInv, TypesInv PROVE TypeOK
    OBVIOUS
  <2>1. ASSUME NEW k \in 1 .. Len(arp_table) PROVE arp_table[k].ip \in Addrs
    <3>1. arp_table[k] \in Entries
      BY DEF RouterInv, ArpInv
    <3> QED BY <3>1, RouterAssumption DEF Entries
  <2> QED BY <2>1 DEF TypeOK, TypesInv, QueueInv, OnPort, RouterInv, SearchInv
<1> QED BY <1>1, TypesInvariance, PTL

\* queue.c 24-43: wherever malloc puts the cells, and however often the queue
\* runs empty with its tail pointing to a freed cell, no write goes there.
THEOREM QueueTailAlive == Spec => []TailAlive
<1>1. TypesInv => TailAlive
  BY DEF TypesInv, QueueInv
<1> QED BY <1>1, TypesInvariance, PTL

-----------------------------------------------------------------------------
(* The queue of the loop is the queue it is meant to be.                    *)

LoopInv == RouterInv /\ TypesInv /\ ChainInv

\* What a step of the program does to the elements that wait.
LEMMA QueueMoves ==
  ASSUME LoopInv, [Next]_vars
  PROVE  /\ ChainInv'
         /\ \/ AskAndWait /\ m.frame.number \in Elements
               /\ Items' = Append(Items, m.frame.number)
            \/ ReplyOneLeaves /\ Items # <<>> /\ Items' = Tail(Items)
            \/ ~AskAndWait /\ ~ReplyOneLeaves /\ Items' = Items
<1>1. QueueInv
  BY DEF LoopInv, TypesInv
<1>2. CASE AskAndWait
  <2>1. m.frame.number \in Elements /\ queue_enq(m.frame.number)
    BY <1>2, ReceivedFacts, RouterAssumption DEF AskAndWait, LoopInv, RouterInv, HandledInv
  <2> QED BY <1>1, <1>2, <2>1, EnqChain DEF LoopInv
<1>3. CASE ReplyOneLeaves
  BY <1>1, <1>3, DeqChain DEF ReplyOneLeaves, LoopInv
<1>4. CASE ~AskAndWait /\ ~ReplyOneLeaves
  <2>1. UNCHANGED queueVars
    BY <1>4 DEF Next, RouterStep, HostStep, HostSends, HostAsks, HostAnswers, HostAnnounces,
                get_packet, EchoToUs, Expired, WrongChecksum, LookUp, Search, HostUnreachable,
                Forward, AnswerArp, IgnoreArp, ReplyNobodyWaits, Resend, Continue, vars
  <2> QED BY <1>1, <1>4, <2>1, StutterChain DEF LoopInv
<1> QED BY <1>2, <1>3, <1>4

LEMMA InitLoop == Init => LoopInv /\ Items = <<>>
BY InitRouterInv, InitTypes, CreateChain DEF Init, LoopInv

LEMMA NextLoop == LoopInv /\ [Next]_vars => LoopInv'
BY NextInv, NextTypes, QueueMoves DEF LoopInv

LEMMA LoopInvariance == Spec => []LoopInv
BY InitLoop, NextLoop, PTL DEF Spec

\* queue.c and list.c with router.c 186 and 224: whatever the interleaving of
\* packets and replies, and wherever malloc puts the cells, the queue of cells
\* is a queue: what enters last leaves last and nothing is lost.
THEOREM QueueKeepsOrder == Spec => QueueIsFifo
<1>1. Init => Promised!Init
  BY InitLoop DEF Promised!Init
<1>2. LoopInv /\ [Next]_vars => [Promised!Enq \/ Promised!Deq]_Items
  <2> SUFFICES ASSUME LoopInv, [Next]_vars PROVE [Promised!Enq \/ Promised!Deq]_Items
    OBVIOUS
  <2> QED BY QueueMoves DEF Promised!Enq, Promised!Deq
<1> QED BY <1>1, <1>2, LoopInvariance, PTL DEF Spec, QueueIsFifo, Promised!Spec
-----------------------------------------------------------------------------
(* Sums over the elements of a finite set.                                  *)

\* What the definition of a sum asks of the function that carries it out: the
\* sum over s is that over s without the element that is taken first.
First(s) == CHOOSE x \in s : TRUE
AddsUp(f, D, g) ==
  \A s \in D : g[s] = IF s = {} THEN 0 ELSE f[First(s)] + g[s \ {First(s)}]
SumOf(f, S, g) ==
  g = [s \in SUBSET S |-> IF s = {} THEN 0 ELSE f[First(s)] + g[s \ {First(s)}]]

LEMMA FirstIn == \A s : s # {} => First(s) \in s
BY DEF First

\* A set of subsets that has the empty one, and each one whose rest it has.
LEMMA AllSubsets ==
  ASSUME NEW S, IsFiniteSet(S), NEW T, {} \in T,
         \A s \in SUBSET S : s # {} /\ s \ {First(s)} \in T => s \in T
  PROVE  \A s \in SUBSET S : s \in T
<1> DEFINE N == {n \in Nat : \A s \in SUBSET S : Cardinality(s) = n => s \in T}
<1>1. 0 \in N
  BY FS_Subset, FS_EmptySet
<1>2. ASSUME NEW n \in N PROVE n + 1 \in N
  <2> SUFFICES ASSUME NEW s \in SUBSET S, Cardinality(s) = n + 1 PROVE s \in T
    OBVIOUS
  <2>1. IsFiniteSet(s) /\ n \in Nat
    BY FS_Subset
  <2>2. s # {}
    BY <2>1, FS_EmptySet
  <2> DEFINE r == s \ {First(s)}
  <2>3. Cardinality(r) = Cardinality(s) - 1
    BY <2>1, <2>2, FirstIn, FS_RemoveElement
  <2>4. r \in T
    <3>1. r \in SUBSET S /\ Cardinality(r) = n
      BY <2>1, <2>3
    <3> HIDE DEF r
    <3> QED BY <3>1
  <2> QED BY <2>2, <2>4
<1> HIDE DEF N
<1>3. N = Nat
  <2>1. N \in SUBSET Nat
    BY DEF N
  <2> QED BY <1>1, <1>2, <2>1, AllNumbers
<1>4. ASSUME NEW s \in SUBSET S PROVE s \in T
  <2>1. Cardinality(s) \in Nat
    BY FS_Subset, FS_CardinalityType
  <2> QED BY <1>3, <2>1 DEF N
<1> QED BY <1>4

\* The subsets of S of at most n elements.
Small(S, n) == {s \in SUBSET S : Cardinality(s) <= n}

LEMMA SumOfSmall ==
  ASSUME NEW S, IsFiniteSet(S), NEW f \in [S -> Nat]
  PROVE  \A n \in Nat : \E g : AddsUp(f, Small(S, n), g)
<1> DEFINE N == {n \in Nat : \E g : AddsUp(f, Small(S, n), g)}
<1>0. \A s \in SUBSET S : /\ IsFiniteSet(s) /\ Cardinality(s) \in Nat
                          /\ Cardinality(s) = 0 <=> s = {}
  BY FS_Subset, FS_CardinalityType, FS_EmptySet
<1>1. 0 \in N
  <2>1. \A s \in Small(S, 0) : s = {}
    BY <1>0 DEF Small
  <2>2. AddsUp(f, Small(S, 0), [s \in Small(S, 0) |-> 0])
    BY <2>1 DEF AddsUp
  <2> QED BY <2>2
<1>2. ASSUME NEW n \in N PROVE n + 1 \in N
  <2>1. PICK g : AddsUp(f, Small(S, n), g)
    OBVIOUS
  <2> DEFINE h == [s \in Small(S, n + 1) |->
                     IF s \in Small(S, n) THEN g[s] ELSE f[First(s)] + g[s \ {First(s)}]]
  <2>2. ASSUME NEW s \in Small(S, n + 1)
        PROVE  h[s] = IF s = {} THEN 0 ELSE f[First(s)] + h[s \ {First(s)}]
    <3>1. s \in SUBSET S /\ n \in Nat /\ Cardinality(s) <= n + 1 /\ Cardinality(s) \in Nat
      BY <1>0 DEF Small
    <3>2. CASE s = {}
      <4>1. s \in Small(S, n)
        BY <1>0, <3>1, <3>2 DEF Small
      <4> QED BY <2>1, <3>2, <4>1 DEF AddsUp
    <3>3. CASE s # {}
      <4> DEFINE r == s \ {First(s)}
      <4>1. r \in SUBSET S /\ Cardinality(r) = Cardinality(s) - 1
        BY <1>0, <3>1, <3>3, FirstIn, FS_RemoveElement
      <4>2. r \in Small(S, n) /\ r \in Small(S, n + 1)
        BY <1>0, <3>1, <4>1 DEF Small
      <4>3. h[r] = g[r]
        BY <4>2
      <4>4. CASE s \in Small(S, n)
        BY <2>1, <3>3, <4>3, <4>4 DEF AddsUp
      <4>5. CASE s \notin Small(S, n)
        BY <3>3, <4>3, <4>5
      <4> QED BY <4>4, <4>5
    <3> QED BY <3>2, <3>3
  <2>3. AddsUp(f, Small(S, n + 1), h)
    <3> HIDE DEF h
    <3> QED BY <2>2 DEF AddsUp
  <2> QED BY <2>3
<1> HIDE DEF N
<1>3. N = Nat
  <2>1. N \in SUBSET Nat
    BY DEF N
  <2> QED BY <1>1, <1>2, <2>1, AllNumbers
<1> QED BY <1>3 DEF N

\* The function that carries the sum out is there, and the sum is its value.
LEMMA SumCarriedOut ==
  ASSUME NEW S, IsFiniteSet(S), NEW f \in [S -> Nat]
  PROVE  \E g : AddsUp(f, SUBSET S, g) /\ SumFunction(f) = g[S]
<1>1. \E g : SumOf(f, S, g)
  <2>1. Cardinality(S) \in Nat /\ \A s \in SUBSET S : Cardinality(s) <= Cardinality(S)
    BY FS_CardinalityType, FS_Subset
  <2>2. PICK g : AddsUp(f, Small(S, Cardinality(S)), g)
    BY <2>1, SumOfSmall
  <2>3. Small(S, Cardinality(S)) = SUBSET S
    BY <2>1 DEF Small
  <2> DEFINE h == [s \in SUBSET S |-> g[s]]
  <2>4. ASSUME NEW s \in SUBSET S
        PROVE  h[s] = IF s = {} THEN 0 ELSE f[First(s)] + h[s \ {First(s)}]
    BY <2>2, <2>3 DEF AddsUp
  <2>5. h = [s \in SUBSET S |-> h[s]]
    OBVIOUS
  <2> HIDE DEF h
  <2>6. SumOf(f, S, h)
    BY <2>4, <2>5 DEF SumOf
  <2> QED BY <2>6
<1> DEFINE G == CHOOSE g : SumOf(f, S, g)
<1>2. SumOf(f, S, G)
  BY <1>1
<1>3. SumFunction(f) = G[S]
  <2>1. DOMAIN f = S
    OBVIOUS
  <2>2. SumFunctionOnSet(f, S) = G[S]
    BY DEF SumFunctionOnSet, FoldFunctionOnSet, MapThenFoldSet, SumOf, First
  <2> QED BY <2>1, <2>2 DEF SumFunction
<1> HIDE DEF G
<1>4. AddsUp(f, SUBSET S, G)
  BY <1>2 DEF SumOf, AddsUp
<1> QED BY <1>3, <1>4

LEMMA SumIsNumber ==
  ASSUME NEW S, IsFiniteSet(S), NEW f \in [S -> Nat]
  PROVE  SumFunction(f) \in Nat
<1>1. PICK g : AddsUp(f, SUBSET S, g) /\ SumFunction(f) = g[S]
  BY SumCarriedOut
<1> DEFINE T == {s \in SUBSET S : g[s] \in Nat}
<1>2. {} \in T
  <2>1. g[{}] = 0
    BY <1>1 DEF AddsUp
  <2> QED BY <2>1
<1>3. ASSUME NEW s \in SUBSET S, s # {}, s \ {First(s)} \in T PROVE s \in T
  <2>1. f[First(s)] \in Nat
    BY <1>3, FirstIn
  <2> QED BY <1>1, <1>3, <2>1 DEF AddsUp
<1> HIDE DEF T
<1>4. S \in T
  BY <1>2, <1>3, AllSubsets
<1> QED BY <1>1, <1>4 DEF T

\* A sum moves with the one value that changes.
LEMMA SumMoves ==
  ASSUME NEW S, IsFiniteSet(S), NEW f \in [S -> Nat], NEW h \in [S -> Nat],
         NEW i \in S, \A x \in S \ {i} : h[x] = f[x]
  PROVE  SumFunction(h) = SumFunction(f) + h[i] - f[i]
<1>1. PICK a : AddsUp(f, SUBSET S, a) /\ SumFunction(f) = a[S]
  BY SumCarriedOut
<1>2. PICK b : AddsUp(h, SUBSET S, b) /\ SumFunction(h) = b[S]
  BY SumCarriedOut
<1> DEFINE T == {s \in SUBSET S : /\ a[s] \in Nat /\ b[s] \in Nat
                                  /\ b[s] = a[s] + IF i \in s THEN h[i] - f[i] ELSE 0}
<1>3. {} \in T
  BY <1>1, <1>2 DEF AddsUp
<1>4. ASSUME NEW s \in SUBSET S, s # {}, s \ {First(s)} \in T PROVE s \in T
  <2> DEFINE x == First(s)
  <2>1. x \in s /\ x \in S
    BY <1>4, FirstIn
  <2>2. a[s] = f[x] + a[s \ {x}] /\ b[s] = h[x] + b[s \ {x}]
    BY <1>1, <1>2, <1>4 DEF AddsUp
  <2> HIDE DEF x
  <2>3. s \ {x} \in T
    BY <1>4 DEF x
  <2>4. f[x] \in Nat /\ h[x] \in Nat /\ f[i] \in Nat /\ h[i] \in Nat
    BY <2>1
  <2>5. CASE x = i
    BY <2>1, <2>2, <2>3, <2>4, <2>5
  <2>6. CASE x # i
    BY <2>1, <2>2, <2>3, <2>4, <2>6
  <2> QED BY <2>5, <2>6
<1> HIDE DEF T
<1>5. S \in T
  BY <1>3, <1>4, AllSubsets
<1> QED BY <1>1, <1>2, <1>5 DEF T

-----------------------------------------------------------------------------
(* A reply for every packet that waits.                                     *)

Places(s) == {k \in 1 .. Len(s) : IsReply(s[k])}
OneIf(frame) == IF IsReply(frame) THEN 1 ELSE 0

LEMMA PlacesCounted ==
  ASSUME NEW F, NEW s \in Seq(F)
  PROVE  IsFiniteSet(Places(s)) /\ Cardinality(Places(s)) \in Nat
<1>1. Len(s) \in Nat /\ IsFiniteSet(1 .. Len(s))
  BY FS_Interval
<1>2. Places(s) \in SUBSET (1 .. Len(s))
  BY DEF Places
<1> QED BY <1>1, <1>2, FS_Subset, FS_CardinalityType

LEMMA PlacesOfAppend ==
  ASSUME NEW F, NEW s \in Seq(F), NEW f \in F
  PROVE  Cardinality(Places(Append(s, f))) = Cardinality(Places(s)) + OneIf(f)
<1> DEFINE n == Len(s) + 1
           r == Append(s, f)
<1>1. n \in Nat /\ Len(r) = n /\ r[n] = f /\ \A k \in 1 .. Len(s) : r[k] = s[k]
      /\ Len(s) \in Nat
  OBVIOUS
<1>2. n \notin Places(s)
  BY <1>1 DEF Places
<1> HIDE DEF r
<1>3. CASE IsReply(f)
  <2>1. Places(r) = Places(s) \cup {n}
    BY <1>1, <1>3 DEF Places
  <2> HIDE DEF n
  <2>2. Cardinality(Places(r)) = Cardinality(Places(s)) + 1
    BY <1>2, <2>1, PlacesCounted, FS_AddElement
  <2> QED BY <1>3, <2>2 DEF OneIf, r
<1>4. CASE ~IsReply(f)
  <2>1. Places(r) = Places(s)
    BY <1>1, <1>4 DEF Places
  <2> QED BY <1>4, <2>1, PlacesCounted DEF OneIf, r
<1> QED BY <1>3, <1>4

LEMMA PlacesOfTail ==
  ASSUME NEW F, NEW s \in Seq(F), s # <<>>
  PROVE  Cardinality(Places(s)) = Cardinality(Places(Tail(s))) + OneIf(Head(s))
<1> DEFINE r == Tail(s)
           rest == Places(s) \ {1}
           f == [k \in Places(r) |-> k + 1]
<1>1. /\ r \in Seq(F) /\ Len(r) = Len(s) - 1 /\ Len(s) \in Nat /\ Len(s) >= 1
      /\ \A k \in 1 .. Len(r) : r[k] = s[k + 1]
  BY HeadTailProperties
<1>2. Head(s) = s[1]
  OBVIOUS
<1> HIDE DEF r
<1>3. f \in Bijection(Places(r), rest)
  <2>1. f \in [Places(r) -> rest]
    BY <1>1 DEF Places
  <2>2. \A j, k \in Places(r) : f[j] = f[k] => j = k
    BY <1>1 DEF Places
  <2>3. ASSUME NEW t \in rest PROVE \E k \in Places(r) : f[k] = t
    <3>1. t - 1 \in Places(r) /\ f[t - 1] = t
      BY <1>1 DEF Places
    <3> QED BY <3>1
  <2> HIDE DEF f, rest
  <2> QED BY <2>1, <2>2, <2>3 DEF Bijection, Injection, IsInjective, Surjection
<1>4. Cardinality(rest) = Cardinality(Places(r))
  <2> HIDE DEF f, rest
  <2>1. ExistsBijection(Places(r), rest)
    BY <1>3 DEF ExistsBijection
  <2> QED BY <1>1, <2>1, PlacesCounted, FS_Bijection
<1>5. Cardinality(rest) = IF 1 \in Places(s) THEN Cardinality(Places(s)) - 1
                          ELSE Cardinality(Places(s))
  BY PlacesCounted, FS_RemoveElement
<1>6. 1 \in Places(s) <=> IsReply(Head(s))
  BY <1>1, <1>2 DEF Places
<1> HIDE DEF rest
<1> QED BY <1>4, <1>5, <1>6, PlacesCounted DEF OneIf, r

RepliesCounted == Replies \in [Ports -> Nat]

LEMMA RepliesType == NetInv => Replies \in [Ports -> Nat]
<1> SUFFICES ASSUME NetInv, NEW i \in Ports PROVE Cardinality(Places(inbox[i])) \in Nat
  BY DEF Replies, Places
<1> QED BY PlacesCounted DEF NetInv

LEMMA RepliesTypeNext == NetInv' => Replies' \in [Ports -> Nat]
<1>1. NetInv => RepliesCounted
  BY RepliesType DEF RepliesCounted
<1>2. NetInv' => RepliesCounted'
  BY <1>1, PTL
<1> QED BY <1>2 DEF RepliesCounted

\* The replies an inbox holds, before and after a step.
LEMMA RepliesAt ==
  \A i \in Ports : /\ Replies[i] = Cardinality(Places(inbox[i]))
                   /\ Replies'[i] = Cardinality(Places(inbox'[i]))
BY DEF Replies, Places

LEMMA ArriveMoves ==
  ASSUME NetInv, NetInv', NEW i \in Ports, NEW f \in HostFrames(i), Arrive(i, f)
  PROVE  SumFunction(Replies') = SumFunction(Replies) + OneIf(f)
<1>1. inbox' = [inbox EXCEPT ![i] = Append(@, f)] /\ DOMAIN inbox = Ports
      /\ inbox[i] \in Seq(HostFrames(i))
  BY DEF Arrive, NetInv
<1>2. Replies \in [Ports -> Nat] /\ Replies' \in [Ports -> Nat] /\ IsFiniteSet(Ports)
  BY RepliesType, RepliesTypeNext, RouterAssumption
<1>3. \A j \in Ports \ {i} : Replies'[j] = Replies[j]
  BY <1>1, RepliesAt
<1>4. Replies'[i] = Replies[i] + OneIf(f)
  BY <1>1, RepliesAt, PlacesOfAppend
<1>5. SumFunction(Replies) \in Nat
  BY <1>2, SumIsNumber
<1>6. SumFunction(Replies') = SumFunction(Replies) + Replies'[i] - Replies[i]
  BY <1>2, <1>3, SumMoves
<1>7. OneIf(f) \in Nat
  BY DEF OneIf
<1> QED BY <1>2, <1>4, <1>5, <1>6, <1>7

LEMMA TakeMoves ==
  ASSUME NetInv, NetInv', NEW i \in Ports, inbox[i] # <<>>,
         inbox' = [inbox EXCEPT ![i] = Tail(@)]
  PROVE  SumFunction(Replies) = SumFunction(Replies') + OneIf(Head(inbox[i]))
<1>1. DOMAIN inbox = Ports /\ inbox[i] \in Seq(HostFrames(i))
  BY DEF NetInv
<1>2. Replies \in [Ports -> Nat] /\ Replies' \in [Ports -> Nat] /\ IsFiniteSet(Ports)
  BY RepliesType, RepliesTypeNext, RouterAssumption
<1>3. \A j \in Ports \ {i} : Replies'[j] = Replies[j]
  BY <1>1, RepliesAt
<1>4. Replies[i] = Replies'[i] + OneIf(Head(inbox[i]))
  BY <1>1, RepliesAt, PlacesOfTail
<1>5. SumFunction(Replies) \in Nat
  BY <1>2, SumIsNumber
<1>6. SumFunction(Replies') = SumFunction(Replies) + Replies'[i] - Replies[i]
  BY <1>2, <1>3, SumMoves
<1>7. OneIf(Head(inbox[i])) \in Nat
  BY DEF OneIf
<1> QED BY <1>2, <1>4, <1>5, <1>6, <1>7

\* The hosts: what arrives is counted where it was asked for or is one more.
LEMMA HostsStrandNone ==
  ASSUME LoopInv, LoopInv', HostStep
  PROVE  RepliesToCome' >= RepliesToCome
<1>1. /\ UNCHANGED <<pc, m>> /\ NetInv /\ NetInv' /\ asked \in [Neighbours -> Nat]
      /\ IsFiniteSet(Neighbours)
  BY RouterAssumption DEF HostStep, HostSends, HostAsks, HostAnswers, HostAnnounces,
     LoopInv, RouterInv, TypesInv
<1>2. SumFunction(asked) \in Nat /\ SumFunction(Replies) \in Nat
  BY <1>1, RepliesType, RouterAssumption, SumIsNumber
<1>3. ASSUME NEW n \in Neighbours, NEW f \in HostFrames(n.interface),
             Arrive(n.interface, f)
      PROVE  SumFunction(Replies') = SumFunction(Replies) + OneIf(f)
  BY <1>1, <1>3, ArriveMoves, RouterAssumption
<1> DEFINE Reply(n) == ArpFrame("REPLY", HostMac(n.ip), PortMac(n.interface), HostMac(n.ip),
                                n.ip, PortIp[n.interface])
           H == IF pc = "dispatch" /\ IsReply(m.frame) THEN 1 ELSE 0
<1>4. ASSUME NEW n \in Neighbours
      PROVE  Reply(n) \in HostFrames(n.interface) /\ OneIf(Reply(n)) = 1
  BY DEF HostFrames, OneIf, IsReply, ArpFrame
<1>5. H \in Nat /\ H' = H
  BY <1>1
<1>6. /\ RepliesToCome = SumFunction(asked) + SumFunction(Replies) + H
      /\ RepliesToCome' = SumFunction(asked') + SumFunction(Replies') + H'
  BY DEF RepliesToCome
<1> HIDE DEF H, Reply
<1>7. ASSUME NEW n \in Neighbours, NEW d \in Datagrams, HostSends(n.interface, d)
      PROVE  RepliesToCome' >= RepliesToCome
  <2> DEFINE f == HostFrame(n.interface, d, Len(traffic) + 1)
  <2>1. f \in HostFrames(n.interface)
    <3>1. Len(traffic) + 1 \in 1 .. MaxTraffic
      BY <1>7, RouterAssumption DEF HostSends, LoopInv, RouterInv, TrafficInv
    <3> QED BY <3>1 DEF HostFrames
  <2>2. OneIf(f) = 0
    BY DEF OneIf, IsReply, HostFrame
  <2>3. Arrive(n.interface, f) /\ asked' = asked
    BY <1>7 DEF HostSends
  <2> HIDE DEF f
  <2> QED BY <1>2, <1>3, <1>5, <1>6, <2>1, <2>2, <2>3
<1>8. ASSUME NEW n \in Neighbours, NEW ip \in Addrs, HostAsks(n, ip)
      PROVE  RepliesToCome' >= RepliesToCome
  <2> DEFINE f == ArpFrame("REQUEST", HostMac(n.ip), Broadcast, HostMac(n.ip), n.ip, ip)
  <2>1. f \in HostFrames(n.interface) /\ OneIf(f) = 0
    BY DEF HostFrames, OneIf, IsReply, ArpFrame
  <2>2. Arrive(n.interface, f) /\ asked' = asked
    BY <1>8 DEF HostAsks
  <2> HIDE DEF f
  <2> QED BY <1>2, <1>3, <1>5, <1>6, <2>1, <2>2
<1>9. ASSUME NEW n \in Neighbours, HostAnnounces(n)
      PROVE  RepliesToCome' >= RepliesToCome
  <2>1. Arrive(n.interface, Reply(n)) /\ asked' = asked
    BY <1>9 DEF HostAnnounces, HostReply, Reply
  <2> QED BY <1>2, <1>3, <1>4, <1>5, <1>6, <2>1
<1>10. ASSUME NEW n \in Neighbours, HostAnswers(n)
       PROVE  RepliesToCome' >= RepliesToCome
  <2>1. Arrive(n.interface, Reply(n)) /\ asked[n] > 0 /\ asked' = [asked EXCEPT ![n] = @ - 1]
    BY <1>10 DEF HostAnswers, HostReply, Reply
  <2>2. /\ asked' \in [Neighbours -> Nat] /\ asked'[n] = asked[n] - 1 /\ asked[n] \in Nat
        /\ \A x \in Neighbours \ {n} : asked'[x] = asked[x]
    BY <1>1, <2>1
  <2>3. SumFunction(asked') = SumFunction(asked) + asked'[n] - asked[n]
    BY <1>1, <2>2, SumMoves
  <2> QED BY <1>2, <1>3, <1>4, <1>5, <1>6, <2>1, <2>2, <2>3
<1>11. \A n \in Neighbours : n.ip \in Addrs /\ PortIp[n.interface] \in Addrs
  BY RouterAssumption
<1> QED BY <1>7, <1>8, <1>9, <1>10, <1>11 DEF HostStep

LEMMA InboxSame == UNCHANGED inbox /\ NetInv => SumFunction(Replies') = SumFunction(Replies)
<1> SUFFICES ASSUME UNCHANGED inbox, NetInv PROVE Replies' = Replies
  OBVIOUS
<1>1. Replies \in [Ports -> Nat] /\ Replies' \in [Ports -> Nat]
  <2>1. NetInv'
    BY DEF NetInv
  <2> QED BY <2>1, RepliesType, RepliesTypeNext
<1> QED BY <1>1, RepliesAt

\* The request a waiting packet sends reaches its next hop.
LEMMA AskMoves ==
  ASSUME LoopInv, EveryHopAnswers, AskAndWait
  PROVE  SumFunction(asked') = SumFunction(asked) + 1
<1>1. best_route # 0 /\ asked' = Asked(route.next_hop, Via)
  BY DEF AskAndWait
<1>2. best_route \in 1 .. Len(rtable) /\ route = rtable[best_route]
      /\ Via = rtable[best_route].interface
  BY <1>1, RouteMatches DEF LoopInv, RouterInv
<1>3. PICK n \in Neighbours : n.ip = route.next_hop /\ n.interface = Via
  BY <1>2 DEF EveryHopAnswers
<1>4. asked \in [Neighbours -> Nat] /\ IsFiniteSet(Neighbours)
      /\ Neighbours \subseteq [ip : Addrs, interface : Ports]
  BY RouterAssumption DEF LoopInv, TypesInv
<1>5. /\ asked' \in [Neighbours -> Nat] /\ asked'[n] = asked[n] + 1 /\ asked[n] \in Nat
      /\ \A x \in Neighbours \ {n} : asked'[x] = asked[x]
  BY <1>1, <1>3, <1>4 DEF Asked
<1>6. SumFunction(asked') = SumFunction(asked) + asked'[n] - asked[n]
  BY <1>4, <1>5, SumMoves
<1>7. SumFunction(asked) \in Nat
  BY <1>4, SumIsNumber
<1> QED BY <1>5, <1>6, <1>7

\* The routing table is read once.
LEMMA TableKept == [Next]_vars => rtable' = rtable
BY DEF Next, RouterStep, HostStep, HostSends, HostAsks, HostAnswers, HostAnnounces,
   get_packet, EchoToUs, Expired, WrongChecksum, LookUp, Search, HostUnreachable, AskAndWait,
   Forward, AnswerArp, IgnoreArp, ReplyNobodyWaits, ReplyOneLeaves, Resend, vars,
   searchVars, searchState, CallSearch, SearchAgain, SearchStep, Found, GoRight, GoLeft, NotFound

LEMMA NextStrandsNone ==
  ASSUME LoopInv, LoopInv', NoneStranded, [Next]_vars
  PROVE  NoneStranded'
<1> DEFINE H == IF pc = "dispatch" /\ IsReply(m.frame) THEN 1 ELSE 0
           L == Len(Items)
<1> SUFFICES ASSUME EveryHopAnswers PROVE L' <= RepliesToCome'
  BY TableKept DEF NoneStranded, EveryHopAnswers
<1>1. /\ NetInv /\ NetInv' /\ asked \in [Neighbours -> Nat] /\ asked' \in [Neighbours -> Nat]
      /\ IsFiniteSet(Neighbours) /\ IsFiniteSet(Ports)
  BY RouterAssumption DEF LoopInv, RouterInv, TypesInv
<1>2. /\ SumFunction(asked) \in Nat /\ SumFunction(Replies) \in Nat
      /\ SumFunction(asked') \in Nat /\ SumFunction(Replies') \in Nat
  BY <1>1, RepliesType, RepliesTypeNext, SumIsNumber
<1>3. /\ RepliesToCome = SumFunction(asked) + SumFunction(Replies) + H
      /\ RepliesToCome' = SumFunction(asked') + SumFunction(Replies') + H'
      /\ H \in {0, 1} /\ H' \in {0, 1}
  BY DEF RepliesToCome
<1>4. L <= RepliesToCome
  BY DEF NoneStranded
<1>5. Items \in Seq(Elements)
  BY ItemsInElements DEF LoopInv, TypesInv
<1>6. L \in Nat /\ \A e : Len(Append(Items, e)) = L + 1
  BY <1>5
<1>7. CASE AskAndWait
  <2>1. L' = L + 1
    <3>1. Items' = Append(Items, m.frame.number)
      BY <1>7, QueueMoves DEF AskAndWait, ReplyOneLeaves
    <3> QED BY <1>6, <3>1
  <2>2. pc = "route" /\ pc' = "get_packet" /\ UNCHANGED inbox
    BY <1>7 DEF AskAndWait
  <2>3. H = 0 /\ H' = 0
    BY <2>2
  <2> HIDE DEF H, L
  <2> QED BY <1>1, <1>2, <1>3, <1>4, <1>6, <1>7, <2>1, <2>2, <2>3, AskMoves, InboxSame
<1>8. CASE ReplyOneLeaves
  <2>1. Items # <<>> /\ Items' = Tail(Items)
    BY <1>8, QueueMoves DEF ReplyOneLeaves, AskAndWait
  <2>2. L' = L - 1
    BY <1>5, <2>1, HeadTailProperties
  <2>3. pc = "dispatch" /\ IsReply(m.frame) /\ pc' = "resend" /\ UNCHANGED <<inbox, asked>>
    BY <1>8 DEF ReplyOneLeaves, IsReply, netVars
  <2>4. H = 1 /\ H' = 0
    BY <2>3
  <2> HIDE DEF H, L
  <2> QED BY <1>1, <1>2, <1>3, <1>4, <1>6, <2>2, <2>3, <2>4, InboxSame
<1>9. CASE ~AskAndWait /\ ~ReplyOneLeaves
  <2>1. Items' = Items /\ L' = L
    BY <1>9, QueueMoves
  <2>2. CASE HostStep
    <3>1. RepliesToCome' >= RepliesToCome
      BY <2>2, HostsStrandNone
    <3> HIDE DEF H, L
    <3> QED BY <1>2, <1>3, <1>4, <1>6, <2>1, <3>1
  <2>3. ASSUME NEW i \in Ports, get_packet(i) PROVE L' <= RepliesToCome'
    <3>1. /\ pc = "get_packet" /\ pc' = "dispatch" /\ inbox[i] # <<>> /\ UNCHANGED asked
          /\ m' = [interface |-> i, frame |-> Head(inbox[i])]
          /\ inbox' = [inbox EXCEPT ![i] = Tail(@)]
      BY <2>3 DEF get_packet
    <3>2. H = 0 /\ H' = OneIf(Head(inbox[i]))
      BY <3>1 DEF OneIf
    <3>3. SumFunction(Replies) = SumFunction(Replies') + OneIf(Head(inbox[i]))
      BY <1>1, <3>1, TakeMoves
    <3> HIDE DEF H, L
    <3> QED BY <1>2, <1>3, <1>4, <1>6, <2>1, <3>1, <3>2, <3>3
  <2>4. CASE ReplyNobodyWaits
    <3>1. L = 0
      BY <2>4, EmptyHasNone DEF ReplyNobodyWaits, LoopInv, TypesInv
    <3> HIDE DEF H, L
    <3> QED BY <1>2, <1>3, <2>1, <3>1
  <2>5. CASE \/ EchoToUs \/ Expired \/ WrongChecksum \/ LookUp \/ HostUnreachable \/ Forward
             \/ AnswerArp \/ IgnoreArp \/ Search \/ Resend \/ UNCHANGED vars
    <3>1. UNCHANGED <<inbox, asked>>
      BY <2>5 DEF EchoToUs, Expired, WrongChecksum, LookUp, HostUnreachable, Forward,
         AnswerArp, IgnoreArp, Search, Resend, Continue, netVars, vars
    <3>2. H = 0 \/ H' = H
      BY <2>5 DEF EchoToUs, Expired, WrongChecksum, LookUp, HostUnreachable, Forward, GoesOn,
         AnswerArp, IgnoreArp, Search, Resend, routerVars, vars, IsReply
    <3> HIDE DEF H, L
    <3> QED BY <1>1, <1>2, <1>3, <1>4, <1>6, <2>1, <3>1, <3>2, InboxSame
  <2> QED BY <1>9, <2>2, <2>3, <2>4, <2>5 DEF Next, RouterStep
<1> QED BY <1>7, <1>8, <1>9

\* router.c 174-186 with 223-232: whatever packets come and however the
\* replies are mixed with them, no packet that waits is without a reply that
\* is still to come, as long as every next hop answers.
THEOREM NoneIsStranded == Spec => []NoneStranded
<1>1. Init => NoneStranded
  <2> SUFFICES ASSUME Init PROVE 0 <= RepliesToCome
    BY InitLoop DEF NoneStranded
  <2>1. LoopInv
    BY InitLoop
  <2>2. SumFunction(asked) \in Nat /\ SumFunction(Replies) \in Nat
    BY <2>1, RepliesType, RouterAssumption, SumIsNumber DEF LoopInv, RouterInv, TypesInv
  <2> QED BY <2>2 DEF RepliesToCome
<1>2. LoopInv /\ LoopInv' /\ NoneStranded /\ [Next]_vars => NoneStranded'
  BY NextStrandsNone
<1> QED BY <1>1, <1>2, LoopInvariance, PTL DEF Spec

LEMMA SumOfNothing ==
  ASSUME NEW S, IsFiniteSet(S)
  PROVE  SumFunction([x \in S |-> 0]) = 0
<1> DEFINE f == [x \in S |-> 0]
<1>1. f \in [S -> Nat]
  OBVIOUS
<1>2. PICK g : AddsUp(f, SUBSET S, g) /\ SumFunction(f) = g[S]
  <2> HIDE DEF f
  <2> QED BY <1>1, SumCarriedOut
<1> DEFINE T == {s \in SUBSET S : g[s] = 0}
<1>3. {} \in T
  <2>1. g[{}] = 0
    BY <1>2 DEF AddsUp
  <2> QED BY <2>1
<1>4. ASSUME NEW s \in SUBSET S, s # {}, s \ {First(s)} \in T PROVE s \in T
  <2>1. f[First(s)] = 0
    BY <1>4, FirstIn
  <2> HIDE DEF f
  <2>2. g[s] = f[First(s)] + g[s \ {First(s)}]
    BY <1>2, <1>4 DEF AddsUp
  <2>3. g[s] = 0 + 0
    BY <1>4, <2>1, <2>2
  <2> QED BY <2>3
<1> HIDE DEF T
<1>5. S \in T
  BY <1>3, <1>4, AllSubsets
<1> QED BY <1>2, <1>5 DEF T
-----------------------------------------------------------------------------
(* Ones' complement arithmetic: numbers that differ by a multiple of the    *)
(* largest word.                                                            *)

Ones == Word16 - 1
Same(a, b) == \E k \in Int : a = b + k * Ones

LEMMA WordFacts ==
  /\ Base \in Nat /\ Base >= 2 /\ Word16 = Base * Base /\ Word16 \in Nat /\ Word16 >= 4
  /\ Ones \in Nat /\ Ones >= 3 /\ Word16 = Ones + 1
  /\ Word32 = Word16 * Word16 /\ Word32 \in Nat /\ Word32 > 0
<1>1. Base \in Nat /\ Base >= 2
  BY BaseAssumption
<1>2. Base * Base >= 4 /\ Base * Base \in Nat
  <2>1. \A x \in Nat : x >= 2 => x * x >= 4 /\ x * x \in Nat
    OBVIOUS
  <2> QED BY <1>1, <2>1
<1>3. Word16 = Base * Base /\ Word16 \in Nat /\ Word16 >= 4
  BY <1>2 DEF Word16
<1>4. Word16 * Word16 \in Nat /\ Word16 * Word16 > 0
  <2>1. \A x \in Nat : x >= 2 => x * x > 0 /\ x * x \in Nat
    OBVIOUS
  <2> QED BY <1>3, <2>1
<1> QED BY <1>1, <1>3, <1>4 DEF Ones, Word32

LEMMA DivMod ==
  ASSUME NEW a \in Nat, NEW n \in Nat, n > 0
  PROVE  /\ a = n * (a \div n) + (a % n) /\ a \div n \in Nat
         /\ a % n \in Nat /\ a % n < n
OBVIOUS

LEMMA SameItself == \A a \in Int : Same(a, a)
BY WordFacts DEF Same

LEMMA SameBack ==
  ASSUME NEW a \in Int, NEW b \in Int, Same(a, b)
  PROVE  Same(b, a)
<1>1. PICK k \in Int : a = b + k * Ones
  BY DEF Same
<1>2. b = a + (-k) * Ones /\ -k \in Int
  BY <1>1, WordFacts
<1> QED BY <1>2 DEF Same

LEMMA SameThrough ==
  ASSUME NEW a \in Int, NEW b \in Int, NEW c \in Int, Same(a, b), Same(b, c)
  PROVE  Same(a, c)
<1>1. PICK k \in Int : a = b + k * Ones
  BY DEF Same
<1>2. PICK l \in Int : b = c + l * Ones
  BY DEF Same
<1>3. a = c + (k + l) * Ones /\ k + l \in Int
  BY <1>1, <1>2, WordFacts
<1> QED BY <1>3 DEF Same

LEMMA SameSum ==
  ASSUME NEW a \in Int, NEW b \in Int, NEW c \in Int, NEW d \in Int, Same(a, b), Same(c, d)
  PROVE  Same(a + c, b + d)
<1>1. PICK k \in Int : a = b + k * Ones
  BY DEF Same
<1>2. PICK l \in Int : c = d + l * Ones
  BY DEF Same
<1>3. a + c = (b + d) + (k + l) * Ones /\ k + l \in Int
  BY <1>1, <1>2, WordFacts
<1> QED BY <1>3 DEF Same

LEMMA SameTimes ==
  ASSUME NEW a \in Int, NEW b \in Int, NEW x \in Int, Same(a, b)
  PROVE  Same(x * a, x * b)
<1>1. PICK k \in Int : a = b + k * Ones
  BY DEF Same
<1>2. x * a = x * b + (x * k) * Ones /\ x * k \in Int
  BY <1>1, WordFacts
<1> QED BY <1>2 DEF Same

\* A word that moves by sixteen bits keeps its worth.
LEMMA SameWord == \A x \in Int : Same(Word16 * x, x)
<1> SUFFICES ASSUME NEW x \in Int PROVE Same(Word16 * x, x)
  OBVIOUS
<1>1. Word16 * x = x + x * Ones
  BY WordFacts
<1> QED BY <1>1 DEF Same

LEMMA SameOnes == Same(Ones, 0)
<1>1. Ones = 0 + 1 * Ones
  BY WordFacts
<1> QED BY <1>1 DEF Same

LEMMA SameRange ==
  ASSUME NEW a \in 1 .. Ones, NEW b \in 1 .. Ones, Same(a, b)
  PROVE  a = b
<1>1. PICK k \in Int : a = b + k * Ones
  BY DEF Same
<1>2. ~(k >= 1)
  <2>1. k >= 1 => k * Ones >= Ones
    BY WordFacts
  <2> QED BY <1>1, <2>1, WordFacts
<1>3. ~(k <= -1)
  <2>1. k <= -1 => k * Ones <= -Ones
    BY WordFacts
  <2> QED BY <1>1, <2>1, WordFacts
<1>4. k = 0
  BY <1>2, <1>3
<1> QED BY <1>1, <1>4, WordFacts

LEMMA SameZero ==
  ASSUME NEW a \in Nat, Same(a, 0)
  PROVE  a % Ones = 0
<1>1. PICK k \in Int : a = k * Ones
  BY WordFacts DEF Same
<1>2. a = Ones * (a \div Ones) + (a % Ones) /\ a \div Ones \in Nat /\ a % Ones \in Nat
      /\ a % Ones < Ones
  BY DivMod, WordFacts
<1> DEFINE r == a % Ones
           q == a \div Ones
<1>3. r = (k - q) * Ones
  BY <1>1, <1>2, WordFacts
<1> HIDE DEF r, q
<1>4. r \in Nat /\ r < Ones /\ k - q \in Int
  BY <1>2 DEF r, q
<1>5. ~(k - q >= 1)
  <2>1. k - q >= 1 => (k - q) * Ones >= Ones
    BY <1>4, WordFacts
  <2> QED BY <1>3, <1>4, <2>1, WordFacts
<1>6. ~(k - q <= -1)
  <2>1. k - q <= -1 => (k - q) * Ones <= -Ones
    BY <1>4, WordFacts
  <2> QED BY <1>3, <1>4, <2>1, WordFacts
<1>7. k - q = 0
  BY <1>4, <1>5, <1>6
<1>8. r = 0
  BY <1>3, <1>7, WordFacts
<1> QED BY <1>8 DEF r

-----------------------------------------------------------------------------
(* The checksums.                                                           *)

\* The number from 1 to Ones, or 0, that a is worth.
Worth(a) == IF a = 0 THEN 0 ELSE ((a - 1) % Ones) + 1

LEMMA WorthFacts ==
  ASSUME NEW a \in Nat
  PROVE  Worth(a) \in 0 .. Ones /\ (a > 0 => Worth(a) >= 1) /\ Same(Worth(a), a)
<1>1. CASE a = 0
  BY <1>1, SameItself, WordFacts DEF Worth
<1>2. CASE a # 0
  <2> DEFINE q == (a - 1) \div Ones
             r == (a - 1) % Ones
  <2>1. a - 1 = Ones * q + r /\ q \in Nat /\ r \in Nat /\ r < Ones
    BY <1>2, DivMod, WordFacts
  <2>2. Worth(a) = r + 1
    BY <1>2 DEF Worth
  <2> HIDE DEF q, r
  <2>3. Worth(a) = a + (-q) * Ones /\ -q \in Int
    BY <2>1, <2>2, WordFacts
  <2>4. Same(Worth(a), a)
    BY <2>3 DEF Same
  <2> QED BY <2>1, <2>2, <2>4, WordFacts
<1> QED BY <1>1, <1>2

\* One turn of the loop of lines 206-209.
Fold(a) == (a % Word16) + (a \div Word16)

LEMMA FoldFacts ==
  ASSUME NEW a \in Nat
  PROVE  /\ Fold(a) \in Nat /\ Same(Fold(a), a) /\ (a > 0 => Fold(a) > 0)
         /\ a >= Word16 => Fold(a) < a
<1> DEFINE q == a \div Word16
           r == a % Word16
<1>1. a = Word16 * q + r /\ q \in Nat /\ r \in Nat /\ r < Word16
  <2>1. Word16 \in Nat /\ Word16 > 0
    BY WordFacts
  <2> HIDE DEF q, r
  <2> QED BY <2>1, DivMod DEF q, r
<1>2. Fold(a) = r + q
  BY DEF Fold
<1> HIDE DEF q, r
<1>3. a = Fold(a) + q * Ones
  BY <1>1, <1>2, WordFacts
<1>4. Same(a, Fold(a))
  BY <1>1, <1>3 DEF Same
<1>5. Same(Fold(a), a)
  BY <1>1, <1>2, <1>4, SameBack
<1>6. a > 0 => Fold(a) > 0
  <2> SUFFICES ASSUME r + q = 0 PROVE a = 0
    BY <1>1, <1>2
  <2>1. r = 0 /\ q = 0
    BY <1>1
  <2> QED BY <1>1, <2>1, WordFacts
<1>7. a >= Word16 => Fold(a) < a
  <2> SUFFICES ASSUME a >= Word16 PROVE q * Ones > 0
    BY <1>1, <1>2, <1>3, WordFacts
  <2>1. q # 0
    BY <1>1, WordFacts
  <2>2. \A x, y \in Nat : x >= 1 /\ y >= 1 => x * y > 0
    OBVIOUS
  <2> QED BY <1>1, <2>1, <2>2, WordFacts
<1> QED BY <1>1, <1>2, <1>5, <1>6, <1>7

FoldsBy(g) == g = [acc \in Nat |-> IF acc < Word16 THEN acc ELSE g[Fold(acc)]]

LEMMA WorthFolds == FoldsBy([acc \in Nat |-> Worth(acc)])
<1> DEFINE g == [acc \in Nat |-> Worth(acc)]
<1>1. ASSUME NEW acc \in Nat
      PROVE  g[acc] = IF acc < Word16 THEN acc ELSE g[Fold(acc)]
  <2>1. CASE acc < Word16
    <3>1. acc # 0 => Same(Worth(acc), acc) /\ Worth(acc) \in 1 .. Ones /\ acc \in 1 .. Ones
      BY <2>1, WorthFacts, WordFacts
    <3>2. acc # 0 => Worth(acc) = acc
      BY <3>1, SameRange
    <3>3. acc = 0 => Worth(acc) = acc
      BY DEF Worth
    <3> QED BY <2>1, <3>2, <3>3
  <2>2. CASE ~(acc < Word16)
    <3>1. acc > 0 /\ Fold(acc) \in Nat /\ Fold(acc) > 0 /\ Same(Fold(acc), acc)
      BY <2>2, FoldFacts, WordFacts
    <3>2. /\ Worth(acc) \in 1 .. Ones /\ Worth(Fold(acc)) \in 1 .. Ones
          /\ Same(Worth(acc), acc) /\ Same(Worth(Fold(acc)), Fold(acc))
      BY <3>1, WorthFacts
    <3>3. Same(Worth(Fold(acc)), acc) /\ Same(acc, Worth(acc))
      BY <3>1, <3>2, SameThrough, SameBack
    <3>4. Same(Worth(Fold(acc)), Worth(acc))
      BY <3>2, <3>3, SameThrough
    <3>5. Worth(Fold(acc)) = Worth(acc)
      BY <3>2, <3>4, SameRange
    <3> QED BY <2>2, <3>1, <3>5
  <2> QED BY <2>1, <2>2
<1>2. g = [acc \in Nat |-> g[acc]]
  OBVIOUS
<1> HIDE DEF g
<1>3. FoldsBy(g)
  BY <1>1, <1>2 DEF FoldsBy
<1> QED BY <1>3 DEF g

\* The loop ends with what the sum is worth.
LEMMA FoldCarriesWorth == \A a \in Nat : FoldCarries[a] = Worth(a)
<1>1. FoldCarries = CHOOSE g : FoldsBy(g)
  BY DEF FoldCarries, FoldsBy, Fold
<1>2. FoldsBy(FoldCarries)
  BY <1>1, WorthFolds
<1> DEFINE w == [acc \in Nat |-> Worth(acc)]
           T == {a \in Nat : FoldCarries[a] # w[a]}
           R == OpToRel(<, Nat)
<1>3. FoldsBy(w)
  BY WorthFolds
<1> HIDE DEF w
<1> SUFFICES ASSUME T # {} PROVE FALSE
  BY DEF w
<1>4. PICK a \in T : \A y \in T : <<y, a>> \notin R
  <2>1. IsWellFoundedOn(R, Nat) /\ T \subseteq Nat
    BY NatLessThanWellFounded
  <2> HIDE DEF R, T
  <2> QED BY <2>1, WFMin
<1>5. \A y \in T : ~(y < a)
  BY <1>4 DEF OpToRel
<1>6. /\ FoldCarries[a] = IF a < Word16 THEN a ELSE FoldCarries[Fold(a)]
      /\ w[a] = IF a < Word16 THEN a ELSE w[Fold(a)]
  BY <1>2, <1>3 DEF FoldsBy
<1>7. ~(a < Word16)
  BY <1>6
<1>8. Fold(a) \in Nat /\ Fold(a) < a
  BY <1>7, FoldFacts, WordFacts
<1>9. FoldCarries[Fold(a)] = w[Fold(a)]
  BY <1>5, <1>8
<1> QED BY <1>6, <1>9

\* Swapping its bytes makes of a sum that sum by Base.
LEMMA SwapFacts ==
  ASSUME NEW a \in 1 .. Ones
  PROVE  LET s == (a \div Base) + (a % Base) * Base
         IN  s \in 1 .. Ones /\ Same(s, Base * a)
<1> DEFINE q == a \div Base
           r == a % Base
           s == q + r * Base
<1>1. a = Base * q + r /\ q \in Nat /\ r \in Nat /\ r < Base
  BY DivMod, WordFacts
<1> HIDE DEF q, r
<1>2. q < Base
  <2> SUFFICES ASSUME q >= Base PROVE FALSE
    BY <1>1, WordFacts
  <2>1. Base * q >= Base * Base
    BY <1>1, WordFacts
  <2> QED BY <1>1, <2>1, WordFacts
<1>3. s \in Nat /\ s <= Ones
  <2>1. r * Base <= (Base - 1) * Base /\ r * Base \in Nat
    BY <1>1, WordFacts
  <2>2. (Base - 1) * Base = Word16 - Base
    BY WordFacts
  <2> QED BY <1>1, <1>2, <2>1, <2>2, WordFacts
<1>4. s # 0
  <2> SUFFICES ASSUME s = 0 PROVE FALSE
    OBVIOUS
  <2>1. r * Base \in Nat
    BY <1>1, WordFacts
  <2>2. q = 0 /\ r * Base = 0
    BY <1>1, <2>1
  <2>3. r = 0
    BY <1>1, <2>2, WordFacts
  <2> QED BY <1>1, <2>2, <2>3, WordFacts
<1>5. Base * a = Word16 * q + Base * r
  BY <1>1, WordFacts
<1>6. Base * a = s + q * Ones
  BY <1>1, <1>5, WordFacts
<1>7. Same(Base * a, s)
  BY <1>1, <1>6 DEF Same
<1>8. Same(s, Base * a)
  <2>1. Base * a \in Int
    BY WordFacts
  <2> HIDE DEF s
  <2> QED BY <1>3, <1>7, <2>1, SameBack
<1> QED BY <1>3, <1>4, <1>8 DEF q, r

LEMMA FromZero == \A n \in Nat : IsFiniteSet(0 .. n)
BY FS_Interval

\* Sums of two and of three.
LEMMA SumOfTwo ==
  ASSUME NEW f \in [0 .. 1 -> Nat]
  PROVE  SumFunction(f) = f[0] + f[1]
<1> DEFINE z == [j \in 0 .. 1 |-> 0]
           a == [j \in 0 .. 1 |-> IF j = 0 THEN f[0] ELSE 0]
<1>1. IsFiniteSet(0 .. 1)
  BY FromZero
<1>2. z \in [0 .. 1 -> Nat] /\ a \in [0 .. 1 -> Nat] /\ f[0] \in Nat /\ f[1] \in Nat
  OBVIOUS
<1>3. SumFunction(z) = 0
  BY <1>1, SumOfNothing
<1>4. SumFunction(a) = SumFunction(z) + a[0] - z[0]
  <2>1. \A x \in (0 .. 1) \ {0} : a[x] = z[x]
    OBVIOUS
  <2> HIDE DEF a, z
  <2> QED BY <1>1, <1>2, <2>1, SumMoves
<1>5. SumFunction(f) = SumFunction(a) + f[1] - a[1]
  <2>1. \A x \in (0 .. 1) \ {1} : f[x] = a[x]
    OBVIOUS
  <2> HIDE DEF a
  <2> QED BY <1>1, <1>2, <2>1, SumMoves
<1> QED BY <1>2, <1>3, <1>4, <1>5

LEMMA SumOfThree ==
  ASSUME NEW f \in [0 .. 2 -> Nat]
  PROVE  SumFunction(f) = f[0] + f[1] + f[2]
<1> DEFINE z == [j \in 0 .. 2 |-> 0]
           a == [j \in 0 .. 2 |-> IF j = 0 THEN f[0] ELSE 0]
           b == [j \in 0 .. 2 |-> IF j = 2 THEN 0 ELSE f[j]]
<1>1. IsFiniteSet(0 .. 2)
  BY FromZero
<1>2. /\ z \in [0 .. 2 -> Nat] /\ a \in [0 .. 2 -> Nat] /\ b \in [0 .. 2 -> Nat]
      /\ f[0] \in Nat /\ f[1] \in Nat /\ f[2] \in Nat
  OBVIOUS
<1>3. SumFunction(z) = 0
  BY <1>1, SumOfNothing
<1>4. SumFunction(a) = SumFunction(z) + a[0] - z[0]
  <2>1. \A x \in (0 .. 2) \ {0} : a[x] = z[x]
    OBVIOUS
  <2> HIDE DEF a, z
  <2> QED BY <1>1, <1>2, <2>1, SumMoves
<1>5. SumFunction(b) = SumFunction(a) + b[1] - a[1]
  <2>1. \A x \in (0 .. 2) \ {1} : b[x] = a[x]
    OBVIOUS
  <2> HIDE DEF a, b
  <2> QED BY <1>1, <1>2, <2>1, SumMoves
<1>6. SumFunction(f) = SumFunction(b) + f[2] - b[2]
  <2>1. \A x \in (0 .. 2) \ {2} : f[x] = b[x]
    OBVIOUS
  <2> HIDE DEF b
  <2> QED BY <1>1, <1>2, <2>1, SumMoves
<1> QED BY <1>2, <1>3, <1>4, <1>5, <1>6

\* A header as it is summed: six bytes, or what stands for them.
Header(d) == d \in Seq(Nat) /\ Len(d) = 6

LEMMA BytesOf ==
  ASSUME NEW d, Header(d)
  PROVE  /\ \A k \in Int : ByteAt(d, k) \in Nat
         /\ \A k \in 1 .. 6 : ByteAt(d, k) = d[k] /\ d[k] \in Nat
         /\ \A k \in Int : k < 1 \/ k > 6 => ByteAt(d, k) = 0
<1>1. d \in Seq(Nat) /\ 1 .. Len(d) = 1 .. 6
  BY DEF Header
<1>2. \A k \in 1 .. 6 : d[k] \in Nat
  BY <1>1, ElementOfSeq
<1>3. \A k \in 1 .. 6 : ByteAt(d, k) = d[k]
  BY <1>1 DEF ByteAt
<1>4. \A k \in Int \ (1 .. 6) : ByteAt(d, k) = 0
  BY <1>1 DEF ByteAt
<1>5. ASSUME NEW k \in Int PROVE ByteAt(d, k) \in Nat
  BY <1>2, <1>3, <1>4
<1>6. ASSUME NEW k \in Int, k < 1 \/ k > 6 PROVE ByteAt(d, k) = 0
  <2>1. k \in Int \ (1 .. 6)
    BY <1>6
  <2> QED BY <1>4, <2>1
<1> QED BY <1>2, <1>3, <1>5, <1>6

LEMMA WordsOf ==
  ASSUME NEW d, Header(d)
  PROVE  /\ \A k \in Int : Word(d, k) \in Nat /\ DoubleWord(d, k) \in Nat
         /\ \A k \in Int : Word(d, k) = ByteAt(d, k) * Base + ByteAt(d, k + 1)
         /\ \A k \in Int : DoubleWord(d, k) = Word(d, k) * Word16 + Word(d, k + 2)
<1>1. ASSUME NEW k \in Int PROVE Word(d, k) \in Nat
  <2>1. ByteAt(d, k) \in Nat /\ ByteAt(d, k + 1) \in Nat
    BY BytesOf
  <2> QED BY <2>1, WordFacts DEF Word
<1>2. ASSUME NEW k \in Int PROVE DoubleWord(d, k) \in Nat
  <2>1. Word(d, k) \in Nat /\ Word(d, k + 2) \in Nat
    BY <1>1
  <2> QED BY <2>1, WordFacts DEF DoubleWord
<1> QED BY <1>1, <1>2 DEF Word, DoubleWord

LEMMA HeaderWords ==
  ASSUME NEW d, Header(d)
  PROVE  /\ Words(d) = Word(d, 1) + Word(d, 3) + Word(d, 5) /\ Words(d) \in Nat
         /\ Words(d) = (d[1] + d[3] + d[5]) * Base + (d[2] + d[4] + d[6])
<1> DEFINE f == [j \in 0 .. 2 |-> Word(d, 2 * j + 1)]
<1>1. (Len(d) - 1) \div 2 = 2
  BY DEF Header
<1>2. Words(d) = SumFunction(f)
  BY <1>1 DEF Words
<1>3. f \in [0 .. 2 -> Nat] /\ f[0] = Word(d, 1) /\ f[1] = Word(d, 3) /\ f[2] = Word(d, 5)
  BY WordsOf
<1> HIDE DEF f
<1>4. Words(d) = Word(d, 1) + Word(d, 3) + Word(d, 5)
  BY <1>2, <1>3, SumOfThree
<1>5. /\ Word(d, 1) = d[1] * Base + d[2] /\ Word(d, 3) = d[3] * Base + d[4]
      /\ Word(d, 5) = d[5] * Base + d[6]
      /\ \A k \in 1 .. 6 : d[k] \in Nat
  BY BytesOf, WordsOf
<1>6. Words(d) \in Nat
  BY <1>4, WordsOf
<1> QED BY <1>4, <1>5, <1>6, WordFacts

\* Words taken two by two are worth what they are worth one by one.
Grouped(x, a, b, c, d) == x = (a * Word16 + b) + (c * Word16 + d)

LEMMA Regroup ==
  ASSUME NEW a \in Nat, NEW b \in Nat, NEW c \in Nat, NEW d \in Nat,
         NEW x, Grouped(x, a, b, c, d)
  PROVE  x \in Nat /\ Same(x, a + b + c + d)
<1>1. x = (a + b + c + d) + (a + c) * Ones
  BY WordFacts DEF Grouped
<1>2. x \in Nat
  BY WordFacts DEF Grouped
<1>3. a + c \in Int
  OBVIOUS
<1> QED BY <1>1, <1>2, <1>3 DEF Same

\* A header that begins in the middle of a word.
LEMMA OddWords ==
  ASSUME NEW d, Header(d)
  PROVE  Same(Word(d, 0) + Word(d, 2) + Word(d, 4) + Word(d, 6), Base * Words(d))
<1> DEFINE odd == d[1] + d[3] + d[5]
           even == d[2] + d[4] + d[6]
           sum == Word(d, 0) + Word(d, 2) + Word(d, 4) + Word(d, 6)
<1>1. odd \in Nat /\ even \in Nat /\ \A k \in 1 .. 6 : d[k] \in Nat
  BY BytesOf
<1>2. /\ Word(d, 0) = 0 * Base + d[1] /\ Word(d, 2) = d[2] * Base + d[3]
      /\ Word(d, 4) = d[4] * Base + d[5] /\ Word(d, 6) = d[6] * Base + 0
  BY BytesOf, WordsOf
<1>3. sum = even * Base + odd
  BY <1>1, <1>2, WordFacts
<1>4. Words(d) = odd * Base + even
  BY HeaderWords
<1> HIDE DEF odd, even, sum
<1>5. Base * Words(d) = odd * (Base * Base) + even * Base
  BY <1>1, <1>4, WordFacts
<1>6. Base * Words(d) = sum + odd * Ones
  BY <1>1, <1>3, <1>5, WordFacts
<1>7. Same(Base * Words(d), sum)
  BY <1>1, <1>6 DEF Same
<1>8. sum \in Int /\ Base * Words(d) \in Int
  BY <1>1, <1>3, HeaderWords, WordFacts
<1>9. Same(sum, Base * Words(d))
  BY <1>7, <1>8, SameBack
<1> QED BY <1>9 DEF sum

\* Wherever the header stands, its 32-bit words are worth what its 16-bit
\* words are, or that by Base.
LEMMA BlocksWorth ==
  ASSUME NEW d, Header(d), NEW offset \in 0 .. 3
  PROVE  /\ Blocks(d, offset) \in Nat
         /\ Same(Blocks(d, offset),
                 IF offset % 2 = 1 THEN Base * Words(d) ELSE Words(d))
<1> DEFINE top == (Len(d) + offset - 1) \div 4
           D(j) == DoubleWord(d, 4 * j + 1 - offset)
           f == [j \in 0 .. top |-> D(j)]
<1>1. Blocks(d, offset) = SumFunction(f)
  BY DEF Blocks
<1>2. \A j \in Nat : D(j) \in Nat
  BY WordsOf
<1>3. /\ \A k \in Int : Word(d, k) \in Nat
      /\ \A k \in Int : DoubleWord(d, k) = Word(d, k) * Word16 + Word(d, k + 2)
      /\ Words(d) = Word(d, 1) + Word(d, 3) + Word(d, 5)
      /\ Words(d) \in Nat /\ Base * Words(d) \in Nat
  BY WordsOf, HeaderWords, WordFacts
<1>4. Word(d, 7) = 0 /\ Word(d, -1) = 0 /\ Word(d, -2) = 0 /\ Word(d, 8) = 0
  <2>1. \A k \in Int : Word(d, k) = ByteAt(d, k) * Base + ByteAt(d, k + 1)
    BY WordsOf
  <2>2. /\ ByteAt(d, -2) = 0 /\ ByteAt(d, -2 + 1) = 0 /\ ByteAt(d, -1) = 0
        /\ ByteAt(d, -1 + 1) = 0 /\ ByteAt(d, 7) = 0 /\ ByteAt(d, 7 + 1) = 0
        /\ ByteAt(d, 8) = 0 /\ ByteAt(d, 8 + 1) = 0
    BY BytesOf
  <2>3. /\ Word(d, 7) = 0 * Base + 0 /\ Word(d, -1) = 0 * Base + 0
        /\ Word(d, -2) = 0 * Base + 0 /\ Word(d, 8) = 0 * Base + 0
    BY <2>1, <2>2
  <2> QED BY <2>3, WordFacts
<1>5. CASE offset = 0
  <2>1. top = 1
    BY <1>5 DEF Header
  <2>2. f \in [0 .. 1 -> Nat] /\ f[0] = DoubleWord(d, 1) /\ f[1] = DoubleWord(d, 5)
    BY <1>2, <1>5, <2>1
  <2> HIDE DEF f
  <2>3. SumFunction(f) = DoubleWord(d, 1) + DoubleWord(d, 5)
    BY <2>2, SumOfTwo
  <2>4. Grouped(SumFunction(f), Word(d, 1), Word(d, 3), Word(d, 5), Word(d, 7))
    BY <1>3, <2>3 DEF Grouped
  <2>5. /\ SumFunction(f) \in Nat
        /\ Same(SumFunction(f), Word(d, 1) + Word(d, 3) + Word(d, 5) + Word(d, 7))
    <3>1. Word(d, 1) \in Nat /\ Word(d, 3) \in Nat
          /\ Word(d, 5) \in Nat /\ Word(d, 7) \in Nat
      BY <1>3
    <3> QED BY <2>4, <3>1, Regroup
  <2>6. Word(d, 1) + Word(d, 3) + Word(d, 5) + Word(d, 7) = Words(d)
    BY <1>3, <1>4
  <2> QED BY <1>1, <1>5, <2>5, <2>6
<1>6. CASE offset = 2
  <2>1. top = 1
    BY <1>6 DEF Header
  <2>2. f \in [0 .. 1 -> Nat] /\ f[0] = DoubleWord(d, -1) /\ f[1] = DoubleWord(d, 3)
    BY <1>2, <1>6, <2>1
  <2> HIDE DEF f
  <2>3. SumFunction(f) = DoubleWord(d, -1) + DoubleWord(d, 3)
    BY <2>2, SumOfTwo
  <2>4. Grouped(SumFunction(f), Word(d, -1), Word(d, 1), Word(d, 3), Word(d, 5))
    BY <1>3, <2>3 DEF Grouped
  <2>5. /\ SumFunction(f) \in Nat
        /\ Same(SumFunction(f), Word(d, -1) + Word(d, 1) + Word(d, 3) + Word(d, 5))
    <3>1. Word(d, -1) \in Nat /\ Word(d, 1) \in Nat
          /\ Word(d, 3) \in Nat /\ Word(d, 5) \in Nat
      BY <1>3
    <3> QED BY <2>4, <3>1, Regroup
  <2>6. Word(d, -1) + Word(d, 1) + Word(d, 3) + Word(d, 5) = Words(d)
    BY <1>3, <1>4
  <2> QED BY <1>1, <1>6, <2>5, <2>6
<1>7. CASE offset = 1
  <2>1. top = 1
    BY <1>7 DEF Header
  <2>2. f \in [0 .. 1 -> Nat] /\ f[0] = DoubleWord(d, 0) /\ f[1] = DoubleWord(d, 4)
    BY <1>2, <1>7, <2>1
  <2> HIDE DEF f
  <2>3. SumFunction(f) = DoubleWord(d, 0) + DoubleWord(d, 4)
    BY <2>2, SumOfTwo
  <2>4. Grouped(SumFunction(f), Word(d, 0), Word(d, 2), Word(d, 4), Word(d, 6))
    BY <1>3, <2>3 DEF Grouped
  <2>5. /\ SumFunction(f) \in Nat
        /\ Same(SumFunction(f), Word(d, 0) + Word(d, 2) + Word(d, 4) + Word(d, 6))
    <3>1. Word(d, 0) \in Nat /\ Word(d, 2) \in Nat
          /\ Word(d, 4) \in Nat /\ Word(d, 6) \in Nat
      BY <1>3
    <3> QED BY <2>4, <3>1, Regroup
  <2>6. Word(d, 0) + Word(d, 2) + Word(d, 4) + Word(d, 6) \in Int
    BY <1>3
  <2>7. Same(SumFunction(f), Base * Words(d))
    BY <1>3, <2>5, <2>6, OddWords, SameThrough
  <2> QED BY <1>1, <1>7, <2>5, <2>7
<1>8. CASE offset = 3
  <2>1. top = 2
    BY <1>8 DEF Header
  <2>2. f \in [0 .. 2 -> Nat] /\ f[0] = DoubleWord(d, -2) /\ f[1] = DoubleWord(d, 2)
        /\ f[2] = DoubleWord(d, 6)
    BY <1>2, <1>8, <2>1
  <2> HIDE DEF f
  <2>3. SumFunction(f) = DoubleWord(d, -2) + DoubleWord(d, 2) + DoubleWord(d, 6)
    BY <2>2, SumOfThree
  <2>4. DoubleWord(d, -2) = Word(d, 0)
    <3>1. DoubleWord(d, -2) = 0 * Word16 + Word(d, 0)
      BY <1>3, <1>4
    <3>2. Word(d, 0) \in Nat
      BY <1>3
    <3> QED BY <3>1, <3>2, WordFacts
  <2> DEFINE rest == DoubleWord(d, 2) + DoubleWord(d, 6)
             more == Word(d, 2) + Word(d, 4) + Word(d, 6) + Word(d, 8)
             sum == Word(d, 0) + Word(d, 2) + Word(d, 4) + Word(d, 6)
  <2>5. \A k \in {0, 2, 4, 6} : Word(d, k) \in Nat
    BY <1>3
  <2>6. Grouped(rest, Word(d, 2), Word(d, 4), Word(d, 6), Word(d, 8))
    BY <1>3 DEF Grouped
  <2>7. rest \in Nat /\ Same(rest, more) /\ more \in Nat
    <3>1. Word(d, 2) \in Nat /\ Word(d, 4) \in Nat /\ Word(d, 6) \in Nat /\ Word(d, 8) \in Nat
      BY <1>4, <2>5
    <3>2. more \in Nat
      BY <3>1
    <3> HIDE DEF rest
    <3> QED BY <2>6, <3>1, <3>2, Regroup
  <2>8. SumFunction(f) = Word(d, 0) + rest /\ sum = Word(d, 0) + more
    <3>1. Word(d, 0) \in Nat /\ Word(d, 2) \in Nat /\ Word(d, 4) \in Nat /\ Word(d, 6) \in Nat
      BY <2>5
    <3>2. DoubleWord(d, 2) \in Nat /\ DoubleWord(d, 6) \in Nat
      BY WordsOf
    <3> QED BY <1>4, <2>3, <2>4, <3>1, <3>2
  <2>9. SumFunction(f) \in Nat /\ Same(SumFunction(f), sum) /\ sum \in Nat
    <3> HIDE DEF rest, more, sum
    <3>1. Word(d, 0) \in Int /\ Same(Word(d, 0), Word(d, 0)) /\ Word(d, 0) \in Nat
      BY <2>5, SameItself
    <3>2. Same(Word(d, 0) + rest, Word(d, 0) + more)
      BY <2>7, <3>1, SameSum
    <3> QED BY <2>7, <2>8, <3>1, <3>2
  <2>10. Same(SumFunction(f), Base * Words(d))
    <3>1. Same(sum, Base * Words(d))
      BY OddWords
    <3> HIDE DEF sum
    <3> QED BY <1>3, <2>9, <3>1, SameThrough
  <2> QED BY <1>1, <1>8, <2>9, <2>10
<1> QED BY <1>5, <1>6, <1>7, <1>8

\* The sum of ip_checksum is a word, never 0, that is worth what the header is.
LEMMA IpSum ==
  ASSUME NEW d, Header(d), NEW offset \in 0 .. 3
  PROVE  \E s \in 1 .. Ones : ip_checksum(d, offset) = Ones - s /\ Same(s, Words(d))
<1> DEFINE acc == Word16 - 1 + Blocks(d, offset)
           x == (acc % Word32) + (acc \div Word32)
           folded == FoldCarries[x]
           sum == IF offset % 2 = 1
                  THEN (folded \div Base) + (folded % Base) * Base ELSE folded
<1>1. ip_checksum(d, offset) = Ones - sum
  BY DEF ip_checksum, Ones
<1>2. Blocks(d, offset) \in Nat /\ Words(d) \in Nat /\ Base * Words(d) \in Nat
      /\ Base * Blocks(d, offset) \in Nat
  BY BlocksWorth, HeaderWords, WordFacts
<1>3. acc = Ones + Blocks(d, offset) /\ acc \in Nat /\ acc > 0
  BY <1>2, WordFacts DEF Ones
<1>4. Same(acc, Blocks(d, offset))
  <2>1. Same(Ones + Blocks(d, offset), 0 + Blocks(d, offset))
    BY <1>2, SameOnes, SameItself, SameSum, WordFacts
  <2>2. 0 + Blocks(d, offset) = Blocks(d, offset)
    BY <1>2
  <2> QED BY <1>3, <2>1, <2>2
<1> HIDE DEF acc
<1>5. x \in Nat /\ x > 0 /\ Same(x, acc)
  <2> DEFINE q == acc \div Word32
             r == acc % Word32
  <2>1. acc = Word32 * q + r /\ q \in Nat /\ r \in Nat
    <3>1. Word32 \in Nat /\ Word32 > 0
      BY WordFacts
    <3> HIDE DEF q, r
    <3> QED BY <1>3, <3>1, DivMod DEF q, r
  <2> HIDE DEF q, r
  <2>2. x = r + q
    BY DEF q, r
  <2>3. Word32 * q = Word16 * (Word16 * q) /\ Word16 * q \in Int
    BY <2>1, WordFacts
  <2>4. Same(Word32 * q, Word16 * q) /\ Same(Word16 * q, q)
    BY <2>1, <2>3, SameWord
  <2>5. Same(Word32 * q, q)
    BY <2>1, <2>3, <2>4, SameThrough, WordFacts
  <2> DEFINE high == Word32 * q
  <2>6. high \in Int /\ acc = high + r /\ Same(high, q) /\ Same(r, r)
    BY <2>1, <2>5, SameItself, WordFacts
  <2> HIDE DEF high
  <2>7. Same(acc, x)
    <3>1. Same(high + r, q + r)
      BY <2>1, <2>6, SameSum
    <3> QED BY <2>1, <2>2, <2>6, <3>1
  <2>8. x \in Nat
    BY <2>1, <2>2
  <2>9. x # 0
    <3> SUFFICES ASSUME r + q = 0 PROVE FALSE
      BY <2>2
    <3>1. r = 0 /\ q = 0
      BY <2>1
    <3> QED BY <1>3, <2>1, <3>1, WordFacts
  <2> HIDE DEF x
  <2> QED BY <1>3, <2>7, <2>8, <2>9, SameBack
<1> HIDE DEF x
<1>6. folded \in 1 .. Ones /\ Same(folded, x)
  BY <1>5, FoldCarriesWorth, WorthFacts, WordFacts
<1> HIDE DEF folded
<1>7. folded \in Nat /\ Same(folded, Blocks(d, offset))
  <2>1. folded \in Nat
    BY <1>6, WordFacts
  <2>2. Same(folded, acc)
    BY <1>3, <1>5, <1>6, <2>1, SameThrough
  <2> QED BY <1>2, <1>3, <1>4, <2>1, <2>2, SameThrough
<1>8. CASE offset % 2 # 1
  <2>1. Same(Blocks(d, offset), Words(d))
    BY <1>8, BlocksWorth
  <2>2. Same(folded, Words(d))
    BY <1>2, <1>7, <2>1, SameThrough
  <2>3. sum = folded
    BY <1>8
  <2> QED BY <1>1, <1>6, <2>2, <2>3
<1>9. CASE offset % 2 = 1
  <2>1. sum = (folded \div Base) + (folded % Base) * Base
    BY <1>9
  <2> HIDE DEF sum
  <2>2. sum \in 1 .. Ones /\ Same(sum, Base * folded)
    BY <1>6, <2>1, SwapFacts
  <2>3. Same(Base * folded, Base * Blocks(d, offset))
    BY <1>2, <1>7, SameTimes, WordFacts
  <2>4. Same(Base * Blocks(d, offset), Base * (Base * Words(d)))
    <3>1. Same(Blocks(d, offset), Base * Words(d))
      BY <1>9, BlocksWorth
    <3> QED BY <1>2, <3>1, SameTimes, WordFacts
  <2>5. Base * (Base * Words(d)) = Word16 * Words(d)
    BY <1>2, WordFacts
  <2>6. Same(Word16 * Words(d), Words(d))
    BY <1>2, SameWord
  <2>7. Same(sum, Base * Blocks(d, offset))
    <3>1. sum \in Int /\ Base * folded \in Int
      BY <1>7, <2>2, WordFacts
    <3> QED BY <1>2, <2>2, <2>3, <3>1, SameThrough
  <2>8. Same(Base * Blocks(d, offset), Words(d))
    <3>1. Word16 * Words(d) \in Int
      BY <1>2, WordFacts
    <3> QED BY <1>2, <2>4, <2>5, <2>6, <3>1, SameThrough
  <2>9. Same(sum, Words(d))
    <3>1. sum \in Int
      BY <2>2, WordFacts
    <3> QED BY <1>2, <2>7, <2>8, <3>1, SameThrough
  <2> QED BY <1>1, <2>2, <2>9
<1> QED BY <1>8, <1>9

\* icmp_checksum folds twice: enough for what two words of bytes can add up to.
LEMMA IcmpSum ==
  ASSUME NEW d, Header(d), Words(d) <= 2 * Ones
  PROVE  \E s \in 0 .. Ones : icmp_checksum(d) = Ones - s /\ Same(s, Words(d))
<1> DEFINE sum == Words(d)
           q == sum \div Word16
           r == sum % Word16
           once == q + r
           twice == (once + (once \div Word16)) % Word16
<1>1. icmp_checksum(d) = Ones - twice
  BY DEF icmp_checksum, Ones
<1>2. sum \in Nat /\ sum <= 2 * Ones
  BY HeaderWords
<1>3. Word16 \in Nat /\ Word16 > 0 /\ Ones \in Nat /\ Word16 = Ones + 1
  BY WordFacts
<1>4. sum = Word16 * q + r /\ q \in Nat /\ r \in Nat /\ r < Word16
  <2> HIDE DEF sum, q, r
  <2> QED BY <1>2, <1>3, DivMod DEF q, r
<1> HIDE DEF sum, q, r
<1>5. q <= 1
  <2> SUFFICES ASSUME q >= 2 PROVE FALSE
    BY <1>4
  <2>1. Word16 * q >= Word16 * 2
    BY <1>3, <1>4
  <2> QED BY <1>2, <1>3, <1>4, <2>1
<1>6. once \in Nat /\ once < Word16
  <2>1. CASE q = 0
    BY <1>4, <2>1
  <2>2. CASE q = 1
    <3>1. Word16 * q = Word16
      BY <1>3, <2>2
    <3> QED BY <1>2, <1>3, <1>4, <2>2, <3>1
  <2> QED BY <1>4, <1>5, <2>1, <2>2
<1>7. sum = once + q * Ones
  BY <1>3, <1>4
<1>8. Same(once, sum)
  <2>1. Same(sum, once)
    BY <1>4, <1>7 DEF Same
  <2> HIDE DEF once
  <2> QED BY <1>2, <1>6, <2>1, SameBack
<1> HIDE DEF once
<1>9. twice = once
  <2>1. \A x, n \in Nat : x < n => x \div n = 0 /\ x % n = x
    OBVIOUS
  <2>2. once \div Word16 = 0 /\ once + 0 = once
    BY <1>3, <1>6, <2>1
  <2> QED BY <1>3, <1>6, <2>1, <2>2
<1> QED BY <1>1, <1>3, <1>6, <1>8, <1>9 DEF sum

\* A header with the checksum c in its place: it adds c to the words.
WithField(a, b, c, e, f) == <<a, b, Hi(c), Lo(c), e, f>>

LEMMA FieldWords ==
  ASSUME NEW a \in Nat, NEW b \in Nat, NEW c \in Nat, NEW e \in Nat, NEW f \in Nat
  PROVE  /\ Header(WithField(a, b, c, e, f)) /\ Header(WithField(a, b, 0, e, f))
         /\ Words(WithField(a, b, 0, e, f)) = (a + e) * Base + (b + f)
         /\ Words(WithField(a, b, 0, e, f)) \in Nat
         /\ Words(WithField(a, b, c, e, f)) = Words(WithField(a, b, 0, e, f)) + c
<1>0. Base \in Nat /\ Base > 0
  BY WordFacts
<1>1. /\ c = Base * Hi(c) + Lo(c) /\ Hi(c) \in Nat /\ Lo(c) \in Nat
      /\ Hi(0) = 0 /\ Lo(0) = 0
  <2>1. c = Base * Hi(c) + Lo(c) /\ Hi(c) \in Nat /\ Lo(c) \in Nat
    BY <1>0, DivMod DEF Hi, Lo
  <2>2. \A n \in Nat : n > 0 => 0 \div n = 0 /\ 0 % n = 0
    OBVIOUS
  <2> QED BY <1>0, <2>1, <2>2 DEF Hi, Lo
<1> DEFINE full == WithField(a, b, c, e, f)
           empty == WithField(a, b, 0, e, f)
<1>2. full = <<a, b, Hi(c), Lo(c), e, f>> /\ empty = <<a, b, 0, 0, e, f>>
  BY <1>1 DEF WithField
<1>3. Header(full) /\ Header(empty)
  <2>1. \A u, v, w, x, y, z \in Nat : Header(<<u, v, w, x, y, z>>)
    BY DEF Header
  <2> HIDE DEF full, empty
  <2>2. Header(full)
    BY <1>1, <1>2, <2>1
  <2>3. Header(empty)
    BY <1>2, <2>1
  <2> QED BY <2>2, <2>3
<1>4. /\ full[1] = a /\ full[2] = b /\ full[3] = Hi(c) /\ full[4] = Lo(c)
      /\ full[5] = e /\ full[6] = f
      /\ empty[1] = a /\ empty[2] = b /\ empty[3] = 0 /\ empty[4] = 0
      /\ empty[5] = e /\ empty[6] = f
  BY <1>2
<1> HIDE DEF full, empty
<1>5. /\ Words(full) = (full[1] + full[3] + full[5]) * Base + (full[2] + full[4] + full[6])
      /\ Words(empty) = (empty[1] + empty[3] + empty[5]) * Base
                        + (empty[2] + empty[4] + empty[6])
      /\ Words(empty) \in Nat
  BY <1>3, HeaderWords
<1>6. /\ Words(full) = (a + Hi(c) + e) * Base + (b + Lo(c) + f)
      /\ Words(empty) = (a + 0 + e) * Base + (b + 0 + f)
  BY <1>4, <1>5
<1>7. Words(empty) = (a + e) * Base + (b + f)
  <2>1. a + 0 + e = a + e /\ b + 0 + f = b + f
    OBVIOUS
  <2> QED BY <1>6, <2>1
<1>8. Words(full) = Words(empty) + c
  <2> DEFINE x == a + e
             h == Hi(c)
             l == Lo(c)
  <2>1. x \in Nat /\ h \in Nat /\ l \in Nat /\ a + Hi(c) + e = x + h /\ b + Lo(c) + f = (b + f) + l
    BY <1>1
  <2>2. Words(full) = (x + h) * Base + ((b + f) + l) /\ Words(empty) = x * Base + (b + f)
        /\ c = Base * h + l
    BY <1>1, <1>6, <1>7, <2>1
  <2> HIDE DEF x, h, l
  <2>3. (x + h) * Base = x * Base + Base * h
    BY <1>0, <2>1
  <2>4. x * Base \in Nat /\ Base * h \in Nat
    BY <1>0, <2>1
  <2> QED BY <2>1, <2>2, <2>3, <2>4
<1> QED BY <1>3, <1>5, <1>7, <1>8 DEF full, empty

CheckAdds(a, b, c, e, f) ==
  /\ Header(WithField(a, b, c, e, f)) /\ Header(WithField(a, b, 0, e, f))
  /\ Words(WithField(a, b, 0, e, f)) = (a + e) * Base + (b + f)
  /\ Words(WithField(a, b, 0, e, f)) \in Nat
  /\ Words(WithField(a, b, c, e, f)) = Words(WithField(a, b, 0, e, f)) + c

LEMMA ChecksAdd == \A a, b, c, e, f \in Nat : CheckAdds(a, b, c, e, f)
BY FieldWords DEF CheckAdds

\* An IP header as it stands in a frame.
IpHeader == [ttl : Nat, proto : Nat, check : 0 .. Ones, saddr : Nat, daddr : Nat]

Blank(ip) == WithField(ip.ttl, ip.proto, 0, ip.saddr, ip.daddr)

LEMMA IpBytesWords ==
  ASSUME NEW ip \in IpHeader
  PROVE  /\ Header(IpBytes(ip)) /\ Header(Blank(ip)) /\ Words(Blank(ip)) \in Nat
         /\ IpBytes([ip EXCEPT !.check = 0]) = Blank(ip)
         /\ Words(IpBytes(ip)) = Words(Blank(ip)) + ip.check
         /\ ip.ttl \in Nat /\ ip.proto \in Nat /\ ip.check \in Nat
         /\ ip.saddr \in Nat /\ ip.daddr \in Nat
<1>1. /\ ip.ttl \in Nat /\ ip.proto \in Nat /\ ip.saddr \in Nat /\ ip.daddr \in Nat
      /\ ip.check \in 0 .. Ones
  BY DEF IpHeader
<1>2. ip.check \in Nat
  BY <1>1, WordFacts
<1>3. IpBytes(ip) = WithField(ip.ttl, ip.proto, ip.check, ip.saddr, ip.daddr)
  BY DEF IpBytes, WithField
<1>4. IpBytes([ip EXCEPT !.check = 0]) = Blank(ip)
  BY DEF IpBytes, Blank, WithField, IpHeader
<1>5. /\ Header(IpBytes(ip)) /\ Header(Blank(ip)) /\ Words(Blank(ip)) \in Nat
      /\ Words(IpBytes(ip)) = Words(Blank(ip)) + ip.check
  <2> DEFINE ttl == ip.ttl
             proto == ip.proto
             check == ip.check
             saddr == ip.saddr
             daddr == ip.daddr
  <2>1. /\ ttl \in Nat /\ proto \in Nat /\ check \in Nat /\ saddr \in Nat /\ daddr \in Nat
        /\ IpBytes(ip) = WithField(ttl, proto, check, saddr, daddr)
        /\ Blank(ip) = WithField(ttl, proto, 0, saddr, daddr)
    BY <1>1, <1>2, <1>3 DEF Blank
  <2>2. check = ip.check
    OBVIOUS
  <2> HIDE DEF ttl, proto, check, saddr, daddr
  <2>3. CheckAdds(ttl, proto, check, saddr, daddr)
    BY <2>1, ChecksAdd
  <2> QED BY <2>1, <2>2, <2>3 DEF CheckAdds
<1> QED BY <1>1, <1>2, <1>4, <1>5

\* The header in which the checksum is put keeps its other fields and verifies,
\* wherever it stood when it was summed.
LEMMA WithCheckFacts ==
  ASSUME NEW ip \in IpHeader, NEW offset \in 0 .. 3
  PROVE  LET c == WithCheck(ip, offset)
         IN  /\ c \in IpHeader /\ c.check \in 0 .. Ones - 1 /\ Verifies(IpBytes(c))
             /\ c.ttl = ip.ttl /\ c.proto = ip.proto
             /\ c.saddr = ip.saddr /\ c.daddr = ip.daddr
             /\ Same(Words(Blank(c)) + c.check, 0)
<1> DEFINE c == WithCheck(ip, offset)
<1>1. Header(Blank(ip)) /\ Words(Blank(ip)) \in Nat
      /\ IpBytes([ip EXCEPT !.check = 0]) = Blank(ip)
  BY IpBytesWords
<1>2. PICK s \in 1 .. Ones : ip_checksum(Blank(ip), offset) = Ones - s
                             /\ Same(s, Words(Blank(ip)))
  BY <1>1, IpSum
<1>3. c = [ip EXCEPT !.check = Ones - s]
  BY <1>1, <1>2 DEF WithCheck
<1>4. s \in Nat /\ s \in Int /\ Ones - s \in 0 .. Ones - 1 /\ Ones - s \in 0 .. Ones
      /\ Ones \in Nat
  BY <1>2, WordFacts
<1>5. /\ c \in IpHeader /\ c.check = Ones - s
      /\ c.ttl = ip.ttl /\ c.proto = ip.proto /\ c.saddr = ip.saddr /\ c.daddr = ip.daddr
  BY <1>3, <1>4 DEF IpHeader
<1> HIDE DEF c
<1>6. Blank(c) = Blank(ip)
  BY <1>5 DEF Blank
<1>7. Words(IpBytes(c)) = Words(Blank(ip)) + (Ones - s)
  BY <1>5, <1>6, IpBytesWords
<1>8. Same(Words(Blank(ip)) + (Ones - s), 0)
  <2>1. Same(Words(Blank(ip)), s) /\ Same(Ones - s, Ones - s)
    BY <1>1, <1>2, <1>4, SameBack, SameItself
  <2>2. Same(Words(Blank(ip)) + (Ones - s), s + (Ones - s))
    BY <1>1, <1>4, <2>1, SameSum
  <2>3. s + (Ones - s) = Ones
    BY <1>4
  <2>4. Words(Blank(ip)) + (Ones - s) \in Int
    BY <1>1, <1>4
  <2> QED BY <1>4, <2>2, <2>3, <2>4, SameOnes, SameThrough
<1>9. Verifies(IpBytes(c))
  <2>1. Words(Blank(ip)) + (Ones - s) \in Nat
    BY <1>1, <1>4
  <2>2. Words(IpBytes(c)) % Ones = 0
    BY <1>7, <1>8, <2>1, SameZero
  <2> QED BY <2>2 DEF Verifies, Ones
<1> QED BY <1>4, <1>5, <1>6, <1>8, <1>9 DEF c

\* A checksum that is one too large is found, wherever the header stands.
LEMMA CorruptedFound ==
  ASSUME NEW ip \in IpHeader, NEW p \in 0 .. 3, NEW offset \in 0 .. 3
  PROVE  LET bad == [WithCheck(ip, p) EXCEPT !.check = (@ + 1) % Word16]
         IN  bad \in IpHeader /\ ip_checksum(IpBytes(bad), offset) # 0
<1> DEFINE c == WithCheck(ip, p)
           bad == [c EXCEPT !.check = (@ + 1) % Word16]
<1>1. c \in IpHeader /\ c.check \in 0 .. Ones - 1 /\ Same(Words(Blank(c)) + c.check, 0)
  BY WithCheckFacts
<1> HIDE DEF c
<1>2. (c.check + 1) % Word16 = c.check + 1 /\ c.check + 1 \in 0 .. Ones /\ c.check \in Nat
  <2>1. \A x, n \in Nat : x < n => x % n = x
    OBVIOUS
  <2>2. c.check + 1 \in Nat /\ c.check + 1 < Word16 /\ c.check + 1 \in 0 .. Ones
        /\ c.check \in Nat
    BY <1>1, WordFacts
  <2> QED BY <2>1, <2>2, WordFacts
<1>3. bad = [c EXCEPT !.check = c.check + 1]
  BY <1>2
<1>4. bad \in IpHeader /\ bad.check = c.check + 1 /\ Blank(bad) = Blank(c)
  BY <1>1, <1>2, <1>3 DEF IpHeader, Blank
<1> HIDE DEF bad
<1>5. Words(Blank(c)) \in Nat
  BY <1>1, IpBytesWords
<1>6. Words(IpBytes(bad)) = (Words(Blank(c)) + c.check) + 1
      /\ Header(IpBytes(bad)) /\ Words(IpBytes(bad)) \in Nat
  <2>1. Words(IpBytes(bad)) = Words(Blank(c)) + (c.check + 1) /\ Header(IpBytes(bad))
    BY <1>4, IpBytesWords
  <2> QED BY <1>2, <1>5, <2>1
<1>7. Same(Words(IpBytes(bad)), 1)
  <2> DEFINE x == Words(Blank(c)) + c.check
  <2>1. x \in Int /\ Same(x, 0) /\ Same(1, 1) /\ Words(IpBytes(bad)) = x + 1
    BY <1>1, <1>2, <1>5, <1>6, SameItself
  <2> HIDE DEF x
  <2>2. Same(x + 1, 0 + 1)
    BY <2>1, SameSum
  <2> QED BY <2>1, <2>2
<1>8. PICK s \in 1 .. Ones : ip_checksum(IpBytes(bad), offset) = Ones - s
                             /\ Same(s, Words(IpBytes(bad)))
  BY <1>6, IpSum
<1>9. s = 1
  <2>1. s \in Int /\ 1 \in 1 .. Ones
    BY <1>8, WordFacts
  <2>2. Same(s, 1)
    BY <1>6, <1>7, <1>8, <2>1, SameThrough
  <2> QED BY <2>1, <2>2, SameRange
<1>10. ip_checksum(IpBytes(bad), offset) # 0
  BY <1>8, <1>9, WordFacts
<1> QED BY <1>4, <1>10 DEF bad, c

-----------------------------------------------------------------------------
(* The headers of the frames.                                               *)

\* The frame f carries the datagram it is numbered by, as its host sent it:
\* when the host spoilt its checksum, the router will see that.
Honest(t, f) ==
  f.type = "IP" =>
    /\ f.number \in 1 .. Len(t) /\ f.ip \in IpHeader
    /\ f.ip.ttl = t[f.number].ttl /\ f.ip.proto = t[f.number].proto
    /\ f.ip.saddr = t[f.number].saddr /\ f.ip.daddr = t[f.number].daddr
    /\ ~t[f.number].ok => ip_checksum(IpBytes(f.ip), Align) # 0

\* The frame f can be sent: what HeadersSound asks of it.
Sound(t, f) ==
  f.type = "IP" =>
    /\ Verifies(IpBytes(f.ip)) /\ f.ip.ttl >= 1
    /\ f.number = 0 => Verifies(IcmpBytes(f.icmp))
    /\ f.number # 0 =>
         /\ t[f.number].ok /\ f.ip.ttl = t[f.number].ttl - 1
         /\ <<f.ip.proto, f.ip.saddr, f.ip.daddr>>
            = <<t[f.number].proto, t[f.number].saddr, t[f.number].daddr>>

\* The frame f carries a datagram that was found good and counted down.
Passed(t, f) == f.type = "IP" /\ f.number \in 1 .. Len(t) /\ Sound(t, f)

LEMMA HostFrameHonest ==
  ASSUME NEW i \in Ports, NEW d \in Datagrams, NEW t, t \in Seq(Datagrams \cup {NULL})
  PROVE  Honest(Append(t, d), HostFrame(i, d, Len(t) + 1))
<1> DEFINE good == [ttl |-> d.ttl, proto |-> d.proto, saddr |-> d.saddr, daddr |-> d.daddr,
                    check |-> 0]
           n == Len(t) + 1
           f == HostFrame(i, d, n)
           ip == WithCheck(good, 0)
           bad == [ip EXCEPT !.check = (@ + 1) % Word16]
<1>1. good \in IpHeader
  <2>1. d.ttl \in Nat /\ d.proto \in Nat /\ d.saddr \in Nat /\ d.daddr \in Nat
    BY RouterAssumption, AddrsAssumption
  <2>2. 0 \in 0 .. Ones
    BY WordFacts
  <2> QED BY <2>1, <2>2 DEF IpHeader
<1>2. /\ ip \in IpHeader /\ ip.ttl = d.ttl /\ ip.proto = d.proto
      /\ ip.saddr = d.saddr /\ ip.daddr = d.daddr
  <2>1. good.ttl = d.ttl /\ good.proto = d.proto /\ good.saddr = d.saddr /\ good.daddr = d.daddr
    OBVIOUS
  <2> HIDE DEF good
  <2> QED BY <1>1, <2>1, WithCheckFacts
<1>3. bad \in IpHeader /\ ip_checksum(IpBytes(bad), Align) # 0
  <2>1. Align \in 0 .. 3 /\ 0 \in 0 .. 3
    BY RouterAssumption
  <2> HIDE DEF good
  <2> QED BY <1>1, <2>1, CorruptedFound
<1>4. f.number = n /\ f.ip = (IF d.ok THEN ip ELSE bad)
  BY DEF HostFrame
<1>5. n \in 1 .. Len(Append(t, d)) /\ Append(t, d)[n] = d
  OBVIOUS
<1> HIDE DEF ip
<1>6. /\ bad.ttl = d.ttl /\ bad.proto = d.proto /\ bad.saddr = d.saddr /\ bad.daddr = d.daddr
  BY <1>2 DEF IpHeader
<1> HIDE DEF bad, f, n
<1>7. /\ f.ip \in IpHeader /\ f.ip.ttl = d.ttl /\ f.ip.proto = d.proto
      /\ f.ip.saddr = d.saddr /\ f.ip.daddr = d.daddr
      /\ ~d.ok => ip_checksum(IpBytes(f.ip), Align) # 0
  BY <1>2, <1>3, <1>4, <1>6
<1>8. Honest(Append(t, d), f)
  BY <1>4, <1>5, <1>7 DEF Honest
<1> QED BY <1>8 DEF f, n

LEMMA IcmpFrameSound ==
  ASSUME NEW daddr \in Nat, NEW saddr \in Nat, NEW sha, NEW dha,
         NEW kind \in {EchoReply, TimeExceeded, Unreachable}, NEW id \in Bytes, NEW t
  PROVE  Sound(t, IcmpFrame(daddr, saddr, sha, dha, kind, id))
<1> DEFINE f == IcmpFrame(daddr, saddr, sha, dha, kind, id)
           blank == [ttl |-> Base - 1, proto |-> 1, check |-> 0,
                     saddr |-> saddr, daddr |-> daddr]
           icmp == [kind |-> kind, check |-> 0, id |-> id, sequence |-> 0]
           empty == WithField(kind[1], kind[2], 0, id, 0)
<1>1. f.number = 0 /\ f.ip = WithCheck(blank, 0)
      /\ f.icmp = [icmp EXCEPT !.check = icmp_checksum(IcmpBytes(icmp))]
  BY DEF IcmpFrame
<1>2. Verifies(IpBytes(f.ip)) /\ f.ip.ttl >= 1
  <2>1. blank \in IpHeader /\ blank.ttl >= 1
    BY WordFacts DEF IpHeader
  <2> HIDE DEF blank, f
  <2> QED BY <1>1, <2>1, WithCheckFacts
<1>3. /\ kind[1] \in Nat /\ kind[1] <= 11 /\ kind[2] = 0 /\ id \in Nat /\ id <= Base - 1
      /\ Base \in Nat /\ Base > 11
  BY RouterAssumption, WordFacts DEF EchoReply, TimeExceeded, Unreachable, Bytes
<1>4. IcmpBytes(icmp) = empty
  BY DEF IcmpBytes, WithField
<1>5. \A c \in Nat : CheckAdds(kind[1], kind[2], c, id, 0)
  <2> DEFINE k == kind[1]
             z == kind[2]
  <2>1. k \in Nat /\ z \in Nat
    BY <1>3
  <2> HIDE DEF k, z
  <2>2. \A c \in Nat : CheckAdds(k, z, c, id, 0)
    BY <1>3, <2>1, ChecksAdd
  <2> QED BY <2>2 DEF k, z
<1>6. Header(empty) /\ Words(empty) \in Nat /\ Words(empty) <= 2 * Ones
  <2>1. Header(empty) /\ Words(empty) \in Nat /\ Words(empty) = (kind[1] + id) * Base + (0 + 0)
    BY <1>3, <1>5 DEF CheckAdds
  <2> DEFINE k == kind[1]
  <2>2. k * Base <= Ones /\ id * Base <= Ones /\ k * Base \in Nat /\ id * Base \in Nat
    <3>1. \A x \in Nat : x <= Base - 1 => x * Base <= (Base - 1) * Base /\ x * Base \in Nat
      BY WordFacts
    <3>2. (Base - 1) * Base = Word16 - Base
      BY WordFacts
    <3>3. k \in Nat /\ k <= Base - 1
      BY <1>3
    <3> HIDE DEF k
    <3>4. k * Base <= Word16 - Base /\ id * Base <= Word16 - Base
      BY <1>3, <3>1, <3>2, <3>3
    <3>5. k * Base \in Nat /\ id * Base \in Nat
      BY <1>3, <3>1, <3>3
    <3> QED BY <3>4, <3>5, WordFacts
  <2>3. k \in Nat /\ Words(empty) = (k + id) * Base
    BY <1>3, <2>1, WordFacts
  <2> HIDE DEF k, empty
  <2>4. (k + id) * Base = k * Base + id * Base
    BY <1>3, <2>3, WordFacts
  <2> QED BY <2>1, <2>2, <2>3, <2>4, WordFacts
<1> HIDE DEF empty, f
<1>7. PICK s \in 0 .. Ones : icmp_checksum(empty) = Ones - s /\ Same(s, Words(empty))
  BY <1>6, IcmpSum
<1>8. s \in Nat /\ Ones - s \in Nat /\ Ones \in Nat
  BY <1>7, WordFacts
<1>9. IcmpBytes(f.icmp) = WithField(kind[1], kind[2], Ones - s, id, 0)
  BY <1>1, <1>4, <1>7 DEF IcmpBytes, WithField
<1>10. Words(IcmpBytes(f.icmp)) = Words(empty) + (Ones - s)
  BY <1>5, <1>8, <1>9 DEF CheckAdds, empty
<1>11. Words(IcmpBytes(f.icmp)) % Ones = 0
  <2>1. Same(Words(empty), s) /\ Same(Ones - s, Ones - s)
    BY <1>6, <1>7, <1>8, SameBack, SameItself
  <2>2. Same(Words(empty) + (Ones - s), s + (Ones - s))
    BY <1>6, <1>8, <2>1, SameSum
  <2>3. s + (Ones - s) = Ones /\ Words(empty) + (Ones - s) \in Nat
    BY <1>6, <1>8
  <2>4. Same(Words(empty) + (Ones - s), 0)
    BY <1>8, <2>2, <2>3, SameOnes, SameThrough
  <2> QED BY <1>10, <2>3, <2>4, SameZero
<1>12. Verifies(IcmpBytes(f.icmp))
  BY <1>11 DEF Verifies, Ones
<1> QED BY <1>1, <1>2, <1>12 DEF Sound, f

\* The inductive invariant: the frames that came are as their hosts sent
\* them, and those that wait have been found good and counted down.
SoundInv ==
  /\ \A i \in Ports : \A k \in 1 .. Len(inbox[i]) : Honest(traffic, inbox[i][k])
  /\ pc \in {"dispatch", "route"} => Honest(traffic, m.frame)
  /\ pc = "route" => m.frame.ip.ttl > 1 /\ ip_checksum(IpBytes(m.frame.ip), Align) = 0
  /\ ~queue_empty => Passed(traffic, slot.frame)
  /\ pc = "resend" => Passed(traffic, packet_aux.frame)
  /\ out # NULL => Sound(traffic, out.frame)

LEMMA InitSound == Init => SoundInv
BY DEF Init, SoundInv, queue_create, queue_empty

\* What has been sent is not sent again.
LEMMA StaysHonest ==
  ASSUME NEW t, NEW T, t \in Seq(T), NEW d \in T, NEW f, Honest(t, f)
  PROVE  Honest(Append(t, d), f)
<1>1. Len(Append(t, d)) = Len(t) + 1 /\ Len(t) \in Nat
      /\ \A k \in 1 .. Len(t) : Append(t, d)[k] = t[k]
  OBVIOUS
<1> QED BY <1>1 DEF Honest

LEMMA StaysPassed ==
  ASSUME NEW t, NEW T, t \in Seq(T), NEW d \in T, NEW f, Passed(t, f)
  PROVE  Passed(Append(t, d), f)
<1>1. Len(Append(t, d)) = Len(t) + 1 /\ Len(t) \in Nat
      /\ \A k \in 1 .. Len(t) : Append(t, d)[k] = t[k]
  OBVIOUS
<1> QED BY <1>1 DEF Passed, Sound

\* A frame that comes in: the others stay where they are.
LEMMA ArriveHonest ==
  ASSUME LoopInv, NEW i \in Ports, NEW f, NEW t,
         \A j \in Ports : \A k \in 1 .. Len(inbox[j]) : Honest(t, inbox[j][k]),
         Honest(t, f), Arrive(i, f)
  PROVE  \A j \in Ports : \A k \in 1 .. Len(inbox'[j]) : Honest(t, inbox'[j][k])
<1>1. inbox' = [inbox EXCEPT ![i] = Append(@, f)] /\ DOMAIN inbox = Ports
      /\ inbox[i] \in Seq(HostFrames(i))
  BY DEF Arrive, LoopInv, RouterInv, NetInv
<1> SUFFICES ASSUME NEW j \in Ports, NEW k \in 1 .. Len(inbox'[j])
             PROVE  Honest(t, inbox'[j][k])
  OBVIOUS
<1>2. CASE j # i
  BY <1>1, <1>2
<1>3. CASE j = i
  <2> DEFINE s == inbox[i]
  <2>1. inbox'[j] = Append(s, f)
    BY <1>1, <1>3
  <2>2. Len(s) \in Nat /\ Len(Append(s, f)) = Len(s) + 1
        /\ \A l \in 1 .. Len(s) : Append(s, f)[l] = s[l]
        /\ Append(s, f)[Len(s) + 1] = f
    <3>1. s \in Seq(HostFrames(i) \cup {f}) /\ f \in HostFrames(i) \cup {f}
      BY <1>1
    <3> HIDE DEF s
    <3> QED BY <3>1
  <2>3. \A l \in 1 .. Len(s) : Honest(t, s[l])
    OBVIOUS
  <2> HIDE DEF s
  <2>4. k \in 1 .. Len(s) \/ k = Len(s) + 1
    BY <2>1, <2>2
  <2> QED BY <2>1, <2>2, <2>3, <2>4
<1> QED BY <1>2, <1>3

LEMMA HostSound == LoopInv /\ SoundInv /\ HostStep => SoundInv'
<1> SUFFICES ASSUME LoopInv, SoundInv, HostStep PROVE SoundInv'
  OBVIOUS
<1>1. /\ UNCHANGED <<queueVars, m, slot, packet_aux, pc>> /\ out' = NULL
  BY DEF HostStep, HostSends, HostAsks, HostAnswers, HostAnnounces
<1>2. traffic \in Seq(Datagrams \cup {NULL})
  BY DEF LoopInv, RouterInv, TrafficInv
<1> DEFINE Old(t) ==
             /\ \A f : Honest(traffic, f) => Honest(t, f)
             /\ \A f : Passed(traffic, f) => Passed(t, f)
<1>3. Old(traffic) /\ \A d \in Datagrams \cup {NULL} : Old(Append(traffic, d))
  BY <1>2, StaysHonest, StaysPassed
<1>4. Old(traffic') /\ \E i \in Ports : \E f : Arrive(i, f) /\ Honest(traffic', f)
  <2>1. ASSUME NEW n \in Neighbours, NEW d \in Datagrams, HostSends(n.interface, d)
        PROVE  <1>4!:
    <3> DEFINE f == HostFrame(n.interface, d, Len(traffic) + 1)
    <3>1. n.interface \in Ports
      BY RouterAssumption
    <3>2. traffic' = Append(traffic, d) /\ Arrive(n.interface, f)
      BY <2>1 DEF HostSends
    <3>3. Honest(traffic', f)
      BY <1>2, <3>1, <3>2, HostFrameHonest
    <3> HIDE DEF f, Old
    <3> QED BY <1>3, <3>1, <3>2, <3>3
  <2>2. ASSUME NEW n \in Neighbours, NEW ip \in Addrs, HostAsks(n, ip)
        PROVE  <1>4!:
    <3> DEFINE f == ArpFrame("REQUEST", HostMac(n.ip), Broadcast, HostMac(n.ip), n.ip, ip)
    <3>1. n.interface \in Ports
      BY RouterAssumption
    <3>2. traffic' = Append(traffic, NULL) /\ Arrive(n.interface, f)
      BY <2>2 DEF HostAsks
    <3>3. Honest(traffic', f)
      BY DEF Honest, ArpFrame
    <3> HIDE DEF f, Old
    <3> QED BY <1>3, <3>1, <3>2, <3>3
  <2>3. ASSUME NEW n \in Neighbours, HostAnswers(n) \/ HostAnnounces(n)
        PROVE  <1>4!:
    <3> DEFINE f == ArpFrame("REPLY", HostMac(n.ip), PortMac(n.interface), HostMac(n.ip),
                             n.ip, PortIp[n.interface])
    <3>1. n.interface \in Ports
      BY RouterAssumption
    <3>2. /\ traffic' = traffic \/ traffic' = Append(traffic, NULL)
          /\ Arrive(n.interface, f)
      BY <2>3 DEF HostAnswers, HostAnnounces, HostReply
    <3>3. Honest(traffic', f)
      BY DEF Honest, ArpFrame
    <3> HIDE DEF f, Old
    <3> QED BY <1>3, <3>1, <3>2, <3>3
  <2>4. \A n \in Neighbours : n.ip \in Addrs /\ PortIp[n.interface] \in Addrs
    BY RouterAssumption
  <2> HIDE DEF Old
  <2> QED BY <2>1, <2>2, <2>3, <2>4 DEF HostStep
<1>5. \A i \in Ports : \A k \in 1 .. Len(inbox'[i]) : Honest(traffic', inbox'[i][k])
  <2>1. PICK i \in Ports : \E f : Arrive(i, f) /\ Honest(traffic', f)
    BY <1>4
  <2>3. PICK f : Arrive(i, f) /\ Honest(traffic', f)
    BY <2>1
  <2>2. \A j \in Ports : \A k \in 1 .. Len(inbox[j]) : Honest(traffic', inbox[j][k])
    BY <1>4 DEF SoundInv
  <2> QED BY <2>2, <2>3, ArriveHonest
<1> QED BY <1>1, <1>4, <1>5 DEF SoundInv, queueVars, queue_empty

LEMMA GetPacketSound ==
  ASSUME LoopInv, SoundInv, NEW i \in Ports, get_packet(i)
  PROVE  SoundInv'
<1>1. /\ UNCHANGED <<queueVars, traffic, slot, packet_aux>>
      /\ out' = NULL /\ pc' = "dispatch" /\ m'.frame = Head(inbox[i])
      /\ inbox' = [inbox EXCEPT ![i] = Tail(@)] /\ inbox[i] # <<>>
      /\ DOMAIN inbox = Ports /\ inbox[i] \in Seq(HostFrames(i))
  BY DEF get_packet, LoopInv, RouterInv, NetInv
<1> DEFINE s == inbox[i]
<1>2. /\ Len(s) \in Nat /\ 1 \in 1 .. Len(s) /\ Head(s) = s[1]
      /\ Len(Tail(s)) = Len(s) - 1
      /\ \A k \in 1 .. Len(s) - 1 : Tail(s)[k] = s[k + 1]
  <2>1. s # <<>> /\ s \in Seq(HostFrames(i))
    BY <1>1
  <2> HIDE DEF s
  <2> QED BY <2>1, HeadTailProperties
<1>3. \A k \in 1 .. Len(s) : Honest(traffic, s[k])
  BY DEF SoundInv
<1>4. Honest(traffic', m'.frame)
  BY <1>1, <1>2, <1>3
<1>5. ASSUME NEW j \in Ports, NEW k \in 1 .. Len(inbox'[j])
      PROVE  Honest(traffic', inbox'[j][k])
  <2>1. CASE j # i
    BY <1>1, <2>1 DEF SoundInv
  <2>2. CASE j = i
    <3>1. inbox'[j] = Tail(s)
      BY <1>1, <2>2
    <3> HIDE DEF s
    <3>2. k \in 1 .. Len(s) - 1 /\ k + 1 \in 1 .. Len(s)
      BY <1>2, <3>1
    <3> QED BY <1>1, <1>2, <1>3, <3>1, <3>2
  <2> QED BY <2>1, <2>2
<1> QED BY <1>1, <1>4, <1>5 DEF SoundInv, queueVars, queue_empty

\* The branches that end in continue: they send nothing, an ARP frame or an
\* ICMP message of the router's.
LEMMA ContinueSound ==
  ASSUME SoundInv, Continue, out' = NULL \/ \A t : Sound(t, out'.frame)
  PROVE  SoundInv'
<1>1. UNCHANGED <<queueVars, inbox, traffic, m, slot, packet_aux>> /\ pc' = "get_packet"
  BY DEF Continue, netVars
<1>2. /\ \A i \in Ports : \A k \in 1 .. Len(inbox'[i]) : Honest(traffic', inbox'[i][k])
      /\ ~queue_empty' => Passed(traffic', slot'.frame)
      /\ out' # NULL => Sound(traffic', out'.frame)
  BY <1>1 DEF SoundInv, queueVars, queue_empty
<1> QED BY <1>1, <1>2 DEF SoundInv

LEMMA SendBackSound ==
  ASSUME SoundInv, pc \in {"dispatch", "route"}, m.frame.type = "IP",
         NEW kind \in {EchoReply, TimeExceeded, Unreachable}, NEW id \in Bytes,
         SendBack(kind, id)
  PROVE  \A t : Sound(t, out'.frame)
<1>1. m.frame.ip \in IpHeader
  BY DEF SoundInv, Honest
<1>2. ip_hdr.saddr \in Nat /\ ip_hdr.daddr \in Nat
  BY <1>1 DEF ip_hdr, IpHeader
<1>3. out'.frame = IcmpFrame(ip_hdr.saddr, ip_hdr.daddr, m.frame.dhost, m.frame.shost,
                             kind, id)
  BY DEF SendBack, send_packet
<1> QED BY <1>2, <1>3, IcmpFrameSound

LEMMA AnswersSound ==
  ASSUME LoopInv, SoundInv,
         EchoToUs \/ Expired \/ WrongChecksum \/ HostUnreachable \/ AnswerArp \/ IgnoreArp
  PROVE  SoundInv'
<1>1. Continue
  BY DEF EchoToUs, Expired, WrongChecksum, HostUnreachable, AnswerArp, IgnoreArp
<1>2. 0 \in Bytes /\ Pid \in Bytes
  BY RouterAssumption, WordFacts DEF Bytes
<1>3. CASE EchoToUs \/ Expired \/ HostUnreachable
  <2>1. pc \in {"dispatch", "route"} /\ m.frame.type = "IP"
    BY <1>3 DEF EchoToUs, Expired, HostUnreachable, LoopInv, RouterInv, HandledInv
  <2>2. SendBack(EchoReply, Pid) \/ SendBack(TimeExceeded, 0) \/ SendBack(Unreachable, 0)
    BY <1>3 DEF EchoToUs, Expired, HostUnreachable
  <2>3. \A t : Sound(t, out'.frame)
    BY <1>2, <2>1, <2>2, SendBackSound
  <2> QED BY <1>1, <2>3, ContinueSound
<1>4. CASE WrongChecksum \/ IgnoreArp
  BY <1>1, <1>4, ContinueSound DEF WrongChecksum, IgnoreArp
<1>5. CASE AnswerArp
  <2>1. out'.frame.type = "ARP"
    BY <1>5 DEF AnswerArp, send_packet, ArpFrame
  <2>2. \A t : Sound(t, out'.frame)
    BY <2>1 DEF Sound
  <2> QED BY <1>1, <2>2, ContinueSound
<1> QED BY <1>3, <1>4, <1>5

LEMMA LookUpSound == SoundInv /\ LookUp => SoundInv'
<1> SUFFICES ASSUME SoundInv, LookUp PROVE SoundInv'
  OBVIOUS
<1>1. /\ UNCHANGED <<queueVars, inbox, traffic, m, slot, packet_aux>>
      /\ pc = "dispatch" /\ pc' = "route" /\ out' = NULL
      /\ m.frame.ip.ttl > 1 /\ ip_checksum(IpBytes(m.frame.ip), Align) = 0
  BY DEF LookUp, GoesOn, ip_hdr, netVars
<1> QED BY <1>1 DEF SoundInv, queueVars, queue_empty

\* A packet that was found good goes on with one hop less and a header that
\* verifies.
LEMMA UpdatedSound ==
  ASSUME LoopInv, SoundInv, pc = "route"
  PROVE  /\ Passed(traffic, Updated.frame) /\ Updated.frame.type = "IP"
         /\ Updated.frame.number \in 1 .. Len(traffic)
<1> DEFINE d == traffic[m.frame.number]
           ip == m.frame.ip
           less == [ip EXCEPT !.ttl = @ - 1]
           c == WithCheck(less, Align)
<1>1. m.frame.type = "IP" /\ IsPacket(m)
  BY ReceivedFacts DEF LoopInv, RouterInv, HandledInv
<1>2. /\ m.frame.number \in 1 .. Len(traffic) /\ ip \in IpHeader /\ d.ok
      /\ ip.ttl = d.ttl /\ ip.proto = d.proto /\ ip.saddr = d.saddr /\ ip.daddr = d.daddr
      /\ ip.ttl > 1
  BY <1>1 DEF SoundInv, Honest
<1>3. /\ less \in IpHeader /\ less.ttl = ip.ttl - 1 /\ less.ttl >= 1
      /\ less.proto = ip.proto /\ less.saddr = ip.saddr /\ less.daddr = ip.daddr
  <2>1. ip \in IpHeader /\ ip.ttl > 1
    BY <1>2
  <2> HIDE DEF ip, d
  <2>2. ip.ttl \in Nat /\ ip.ttl - 1 \in Nat /\ ip.ttl - 1 >= 1
    BY <2>1 DEF IpHeader
  <2> QED BY <2>1, <2>2 DEF IpHeader
<1>4. /\ Verifies(IpBytes(c)) /\ c.ttl = less.ttl /\ c.proto = less.proto
      /\ c.saddr = less.saddr /\ c.daddr = less.daddr
  <2>1. Align \in 0 .. 3
    BY RouterAssumption
  <2> HIDE DEF less
  <2> QED BY <1>3, <2>1, WithCheckFacts
<1>5. /\ Updated.frame.ip = c /\ Updated.frame.type = "IP"
      /\ Updated.frame.number = m.frame.number
  <2> HIDE DEF c
  <2>1. Updated = [m EXCEPT !.frame.ip = c]
    BY DEF Updated, ip_hdr, c
  <2> QED BY <1>1, <2>1 DEF IsPacket
<1>6. m.frame.number # 0
  BY <1>1, ReceivedFacts DEF LoopInv, RouterInv, HandledInv
<1> HIDE DEF c, less
<1> QED BY <1>2, <1>3, <1>4, <1>5, <1>6 DEF Passed, Sound

LEMMA AskAndWaitSound == LoopInv /\ SoundInv /\ AskAndWait => SoundInv'
<1> SUFFICES ASSUME LoopInv, SoundInv, AskAndWait PROVE SoundInv'
  OBVIOUS
<1>1. /\ UNCHANGED <<inbox, traffic, packet_aux>>
      /\ pc = "route" /\ pc' = "get_packet" /\ slot' = Updated
      /\ out'.frame.type = "ARP"
  BY DEF AskAndWait, send_packet, ArpFrame
<1>2. Passed(traffic', slot'.frame)
  BY <1>1, UpdatedSound
<1>3. Sound(traffic', out'.frame)
  BY <1>1 DEF Sound
<1> QED BY <1>1, <1>2, <1>3 DEF SoundInv

\* The addresses of the frame are written over, its header is not.
Addressed(p, sha, dha) == [p EXCEPT !.frame.shost = sha, !.frame.dhost = dha]

LEMMA AddressedSound ==
  ASSUME NEW p, IsPacket(p), NEW t, Passed(t, p.frame), NEW sha, NEW dha
  PROVE  Sound(t, Addressed(p, sha, dha).frame)
<1> DEFINE q == Addressed(p, sha, dha)
<1>1. /\ q.frame.ip = p.frame.ip /\ q.frame.type = p.frame.type
      /\ q.frame.number = p.frame.number /\ q.frame.icmp = p.frame.icmp
  BY DEF IsPacket, Addressed
<1> HIDE DEF q
<1>2. Sound(t, q.frame)
  BY <1>1 DEF Passed, Sound
<1> QED BY <1>2 DEF q

LEMMA ForwardSound == LoopInv /\ SoundInv /\ Forward => SoundInv'
<1> SUFFICES ASSUME LoopInv, SoundInv, Forward PROVE SoundInv'
  OBVIOUS
<1>1. /\ UNCHANGED <<queueVars, inbox, traffic, slot, packet_aux>>
      /\ pc = "route" /\ pc' = "get_packet"
      /\ m' = Addressed(Updated, PortMac(Via), ArpMac(ip_hdr.daddr))
      /\ out'.frame = m'.frame
  BY DEF Forward, send_packet, netVars, Addressed
<1>2. IsPacket(Updated) /\ Passed(traffic', Updated.frame)
  BY <1>1, ReceivedFacts, UpdatedFacts, UpdatedSound DEF LoopInv, RouterInv, HandledInv
<1>3. Sound(traffic', out'.frame)
  BY <1>1, <1>2, AddressedSound
<1> QED BY <1>1, <1>3 DEF SoundInv, queueVars, queue_empty

LEMMA RepliesSound ==
  SoundInv /\ (ReplyNobodyWaits \/ ReplyOneLeaves \/ Search) => SoundInv'
<1> SUFFICES ASSUME SoundInv, ReplyNobodyWaits \/ ReplyOneLeaves \/ Search PROVE SoundInv'
  OBVIOUS
<1>1. UNCHANGED <<inbox, traffic, m, slot>> /\ out' = NULL
  BY DEF ReplyNobodyWaits, ReplyOneLeaves, Search, netVars
<1>2. CASE ReplyNobodyWaits
  BY <1>1, <1>2 DEF ReplyNobodyWaits, SoundInv, queueVars, queue_empty
<1>3. CASE Search
  BY <1>1, <1>3 DEF Search, SoundInv, queueVars, queue_empty
<1>4. CASE ReplyOneLeaves
  <2>1. ~queue_empty /\ pc' = "resend" /\ packet_aux' = slot
    BY <1>4 DEF ReplyOneLeaves
  <2> QED BY <1>1, <2>1 DEF SoundInv
<1> QED BY <1>2, <1>3, <1>4

LEMMA ResendSound == LoopInv /\ SoundInv /\ Resend => SoundInv'
<1> SUFFICES ASSUME LoopInv, SoundInv, Resend PROVE SoundInv'
  OBVIOUS
<1>1. UNCHANGED <<queueVars, inbox, traffic, m, slot>> /\ pc = "resend"
  BY DEF Resend, netVars
<1>2. CASE best_route = 0
  BY <1>1, <1>2 DEF Resend, SoundInv, queueVars, queue_empty
<1>3. CASE best_route # 0
  <2>1. /\ pc' = "get_packet"
        /\ packet_aux' = [packet_aux EXCEPT !.frame.dhost = m.frame.sha,
                                            !.frame.shost = PortMac(Via)]
        /\ out'.frame = packet_aux'.frame
    BY <1>3 DEF Resend, send_packet
  <2>2. IsPacket(packet_aux) /\ Passed(traffic', packet_aux.frame)
    BY <1>1 DEF SoundInv, LoopInv, RouterInv, WaitingInv
  <2>3. packet_aux' = Addressed(packet_aux, PortMac(Via), m.frame.sha)
    BY <2>1, <2>2 DEF IsPacket, Addressed
  <2>4. Sound(traffic', out'.frame)
    BY <2>1, <2>2, <2>3, AddressedSound
  <2> QED BY <1>1, <2>1, <2>4 DEF SoundInv, queueVars, queue_empty
<1> QED BY <1>2, <1>3

LEMMA NextSound == LoopInv /\ SoundInv /\ [Next]_vars => SoundInv'
<1> SUFFICES ASSUME LoopInv, SoundInv, [Next]_vars PROVE SoundInv'
  OBVIOUS
<1>1. CASE HostStep
  BY <1>1, HostSound
<1>2. CASE RouterStep
  BY <1>2, GetPacketSound, AnswersSound, LookUpSound, RepliesSound, AskAndWaitSound,
     ForwardSound, ResendSound DEF RouterStep
<1>3. CASE UNCHANGED vars
  BY <1>3 DEF vars, netVars, routerVars, SoundInv, queueVars, queue_empty
<1> QED BY <1>1, <1>2, <1>3 DEF Next

\* skel.c 151-312, router.c 154-170: whatever the hosts send and however long
\* a packet waits, the headers the router writes verify, and what it passes
\* on was intact and lost exactly one of its TTL.
THEOREM HeadersVerify == Spec => []HeadersSound
<1>1. SoundInv => HeadersSound
  BY DEF SoundInv, Sound, HeadersSound
<1>2. LoopInv /\ SoundInv /\ [Next]_vars => SoundInv'
  BY NextSound
<1> QED BY <1>1, <1>2, InitSound, LoopInvariance, PTL DEF Spec

==============================================================================
