---------------------------- MODULE ServiceProofs -----------------------------
(* Proofs about Broker, continued from DeliveryProofs: no id is left taken  *)
(* by a client that is gone, and the broker implements StoreForward.        *)
EXTENDS DeliveryProofs

USE DEF EmptyId, NoFd, STDIN_FILENO, sockfd_udp, sockfd_tcp, ClientFds

-----------------------------------------------------------------------------
(* The connections that are served. *)

\* A step that opens, closes and registers no served connection.
LEMMA QuietCarries ==
  ASSUME IInv, IInv',
         \/ Select \/ HandleUdp \/ Accept \/ Refuse
         \/ SubscribeLine \/ UnsubscribeLine \/ UNCHANGED vars
         \/ SubscriberStep \/ OutsideStep
  PROVE  /\ \A c \in Ids, f \in ClientFds :
              /\ Carries(f, c)' <=> Carries(f, c)
              /\ Carries(f, c) => conn'[f] = conn[f]
         /\ \A c \in Ids : /\ clients'[c].connected = clients[c].connected
                           /\ clients'[c].fd = clients[c].fd
<1>1. CASE Select \/ HandleUdp \/ UNCHANGED vars
  <2>1. UNCHANGED <<read_fds, conn, ident, clients>>
    BY <1>1 DEF Select, HandleUdp, vars, netVars, clientVars, serverVars
  <2> QED
    BY <2>1 DEF Carries, Watched
<1>2. CASE Accept
  <2>1. PICK g \in ClientFds : LowestFree(g) /\ conn' = [conn EXCEPT ![g] = Head(backlog)]
    BY <1>2 DEF Accept
  <2>2. newsockfd = NoFd /\ UNCHANGED <<read_fds, ident, clients>>
    BY <1>2 DEF Accept, Serving, clientVars
  <2>3. g \notin Watched
    BY <2>1, <2>2 DEF IInv, WatchedFds, LowestFree
  <2>4. \A f \in Watched : conn'[f] = conn[f]
    BY <2>1, <2>3 DEF Watched, IInv, TypeOK, NetTypeOK
  <2> QED
    BY <2>2, <2>4 DEF Carries, Watched
<1>3. CASE Refuse
  <2>1. PICK p \in Procs, id \in Ids :
          /\ ReceivesId(p, id)
          /\ conn' = [conn EXCEPT ![newsockfd] = NoProc]
          /\ UNCHANGED <<read_fds, clients, ident>>
    BY <1>3 DEF Refuse, clientVars
  <2>2. newsockfd \notin Watched
    BY <2>1, ReceivesIdFacts
  <2>3. \A f \in Watched : conn'[f] = conn[f]
    BY <2>1, <2>2 DEF Watched, IInv, TypeOK, NetTypeOK
  <2> QED
    BY <2>1, <2>3 DEF Carries, Watched
<1>4. CASE SubscribeLine \/ UnsubscribeLine
  <2>1. UNCHANGED <<read_fds, conn, ident>>
    BY <1>4 DEF SubscribeLine, UnsubscribeLine, clientVars
  <2>2. \A c \in Ids : /\ clients'[c].connected = clients[c].connected
                       /\ clients'[c].fd = clients[c].fd
    <3>1. CASE UnsubscribeLine
      BY <3>1 DEF UnsubscribeLine
    <3>2. CASE SubscribeLine
      <4>1. PICK i \in ClientFds, line \in Lines :
              clients' = [c \in Ids |-> IF c \in FirstWith(clients, i)
                                        THEN [clients[c] EXCEPT !.sf = line.sf]
                                        ELSE clients[c]]
        BY <3>2 DEF SubscribeLine
      <4>2. \A c \in Ids : clients[c] \in Client
        BY DEF IInv, TypeOK, ServerTypeOK
      <4> QED
        BY <4>1, <4>2 DEF Client
    <3> QED
      BY <1>4, <3>1, <3>2
  <2> QED
    BY <2>1, <2>2 DEF Carries, Watched
<1>5. CASE SubscriberStep
  <2>1. PICK p \in Procs :
          /\ UNCHANGED <<serverVars, conn>>
          /\ \A q \in Procs \ {p} : ident'[q] = ident[q]
          /\ ident' = ident \/ ~Open(p) \/ st[p] = "syn"
    BY <1>5 DEF SubscriberStep, Start, SendId, TypeLine, Exit, Kill, Recv, RecvEof, Broken,
                IInv, TypeOK, NetTypeOK
  <2>2. Watched' = Watched /\ clients' = clients
    BY <2>1 DEF Watched, serverVars
  <2>3. ASSUME NEW f \in Watched
        PROVE  conn[f] # NoProc /\ conn[f] \in Procs /\ ident'[conn[f]] = ident[conn[f]]
    <3>1. f \in ClientFds /\ f \in OpenFds /\ conn[f] # NoProc /\ conn[f] \in Procs
      BY <2>3 DEF Watched, IInv, WatchedFds, OpenFds, TypeOK, NetTypeOK
    <3>2. Open(conn[f]) /\ st[conn[f]] # "syn"
      BY <2>3, <3>1 DEF Open, IInv, IdInv
    <3> QED
      BY <2>1, <3>1, <3>2
  <2> QED
    BY <2>1, <2>2, <2>3 DEF Carries
<1>6. CASE OutsideStep
  <2>1. UNCHANGED <<read_fds, conn, ident, clients>>
    BY <1>6 DEF OutsideStep, Publish, Operator, serverVars
  <2> QED
    BY <2>1 DEF Carries, Watched
<1> QED
  BY <1>1, <1>2, <1>3, <1>4, <1>5, <1>6

\* A registration: the descriptor becomes the one the id is served on.
LEMMA RegisterCarries ==
  ASSUME IInv, IInv', DeliveryInv, NEW p \in Procs, NEW id \in Ids,
         ReceivesId(p, id), Register(p, id), UNCHANGED <<ident, conn>>,
         ~Known(id) \/ Away(id)
  PROVE  /\ conn[newsockfd] = p /\ ident[p] = id /\ s2c[p] = <<>> /\ st[p] # "syn"
         /\ newsockfd \in ClientFds /\ ~Live(id)
         /\ \A f \in ClientFds : f = newsockfd => Carries(f, id)'
         /\ clients'[id].fd = newsockfd
         /\ \A d \in Ids \ {id} : /\ clients'[d] = clients[d]
                                  /\ \A f \in ClientFds : Carries(f, d)' <=> Carries(f, d)
<1>1. /\ newsockfd \notin Watched /\ conn[newsockfd] = p /\ ident[p] = id
      /\ newsockfd \in ClientFds /\ newsockfd \in OpenFds /\ st[p] # "syn"
      /\ \A g \in OpenFds : conn[g] = p => g = newsockfd
      /\ status = "up"
  BY ReceivesIdFacts DEF ReceivesId
<1>2. s2c[p] = <<>>
  <2>1. \A f \in Watched : conn[f] # p
    BY <1>1, BrokerAssumption DEF IInv, WatchedFds
  <2> QED
    BY <1>1, <2>1 DEF DeliveryInv, ReaderInv
<1>3. ~Live(id)
  BY DEF Live, IInv, OneConnectionPerId, Known, Away, Carries, Watched
<1>4. /\ Watched' = Watched \cup {newsockfd}
      /\ clients'[id].fd = newsockfd
      /\ \A d \in Ids \ {id} : clients'[d] = clients[d]
  BY <1>1 DEF Watched, Register, IInv, TypeOK, ServerTypeOK, Client
<1>5. p # NoProc
  BY BrokerAssumption
<1>6. \A f \in ClientFds : f = newsockfd => Carries(f, id)'
  BY <1>1, <1>4, <1>5 DEF Carries
<1>7. ASSUME NEW d \in Ids \ {id}, NEW f \in ClientFds
      PROVE  Carries(f, d)' <=> Carries(f, d)
  BY <1>1, <1>4 DEF Carries
<1> QED
  BY <1>1, <1>2, <1>3, <1>4, <1>6, <1>7

\* A departure: the descriptor of the line carries nobody any more.
LEMMA ExitCarries ==
  ASSUME IInv, DeliveryInv, NEW i \in ClientFds, NEW line \in Lines,
         ReceivesLine(i, line), conn' = [conn EXCEPT ![i] = NoProc],
         read_fds' = read_fds \ {i}, UNCHANGED ident
  PROVE  /\ Carries(i, IdOf[conn[i]]) /\ IdOf[conn[i]] \in Ids \ {EmptyId}
         /\ ident[conn[i]] = IdOf[conn[i]]
         /\ \A c \in Ids, f \in ClientFds : Carries(f, c)' <=> Carries(f, c) /\ f # i
         /\ \A c \in Ids, f \in ClientFds : Carries(f, c) /\ f # i => conn'[f] = conn[f]
<1>1. i \in Watched /\ conn[i] \in Procs
  BY ReceivesLineFacts
<1>2. c2s[conn[i]] # <<>> /\ conn[i] # NoProc
  BY DEF ReceivesLine
<1>3. ident[conn[i]] = IdOf[conn[i]] /\ IdOf[conn[i]] \in Ids \ {EmptyId}
  BY <1>1, <1>2, BrokerAssumption DEF DeliveryInv, RecordInv
<1>4. conn'[i] = NoProc /\ \A f \in ClientFds \ {i} : conn'[f] = conn[f]
  BY DEF IInv, TypeOK, NetTypeOK
<1> QED
  BY <1>1, <1>2, <1>3, <1>4 DEF Carries, Watched

\* Who is served without having sent an id is not subscribed, and gone.
LEMMA FirstIsOwn ==
  ASSUME IInv, OwnDescriptor, NEW i \in ClientFds, NEW c \in Ids \ {EmptyId}, Carries(i, c)
  PROVE  /\ FirstWith(clients, i) = {c} /\ clients[c].fd = i /\ Known(c)
         /\ \A k \in Keys, d \in Ids : topics_subs[k][d].fd = i => d = c
<1>1. clients[c].fd = i /\ \A d \in Ids \ {c} : clients[d].fd # i
  <2>1. i \in Watched
    BY DEF Carries
  <2> QED
    BY <2>1 DEF IInv, OneConnectionPerId, OwnDescriptor
<1>2. i # NoFd
  OBVIOUS
<1>3. FirstWith(clients, i) = {c}
  <2>1. \A d \in Ids : clients[d].fd = i <=> d = c
    BY <1>1
  <2>2. c <= c
    BY BrokerAssumption
  <2> HIDE DEF Carries
  <2> QED
    BY <2>1, <2>2 DEF FirstWith
<1>4. \A k \in Keys, d \in Ids : topics_subs[k][d].fd = i => clients[d].fd = i
  BY <1>2 DEF IInv, CopiesAgree
<1> QED
  BY <1>1, <1>2, <1>3, <1>4 DEF Known

-----------------------------------------------------------------------------
(* No id is taken by a client that has left. *)

LEMMA NextNoGhosts ==
  ASSUME IInv, DeliveryInv, OwnDescriptor, NoGhosts, [Next]_vars
  PROVE  NoGhosts'
<1>1. IInv'
  BY NextInv
<1>2. CASE \/ Select \/ HandleUdp \/ Accept \/ Refuse
           \/ SubscribeLine \/ UnsubscribeLine \/ UNCHANGED vars
           \/ SubscriberStep \/ OutsideStep
  BY <1>1, <1>2, QuietCarries DEF NoGhosts, Live
<1>3. CASE FirstConnect \/ Reconnect
  <2>1. PICK p \in Procs, id \in Ids :
          /\ ReceivesId(p, id) /\ Register(p, id) /\ UNCHANGED <<ident, conn>>
          /\ ~Known(id) \/ Away(id)
    BY <1>3 DEF FirstConnect, Reconnect, clientVars
  <2>2. /\ newsockfd \in ClientFds /\ \A f \in ClientFds : f = newsockfd => Carries(f, id)'
        /\ \A d \in Ids \ {id} : /\ clients'[d] = clients[d]
                                 /\ \A f \in ClientFds : Carries(f, d)' <=> Carries(f, d)
    BY <1>1, <2>1, RegisterCarries
  <2>3. ASSUME NEW c \in Ids, clients'[c].connected
        PROVE  \E f \in ClientFds : Carries(f, c)'
    <3>1. CASE c = id
      BY <2>2, <3>1
    <3>2. CASE c # id
      BY <2>2, <2>3, <3>2 DEF NoGhosts, Live
    <3> QED
      BY <3>1, <3>2
  <2> QED
    BY <2>3 DEF NoGhosts, Live
<1>4. CASE ExitLine
  <2>1. PICK i \in ClientFds, line \in Lines :
          /\ ReceivesLine(i, line) /\ conn' = [conn EXCEPT ![i] = NoProc]
          /\ read_fds' = read_fds \ {i} /\ clients' = RecordLeft(i) /\ UNCHANGED ident
    BY <1>4 DEF ExitLine, clientVars
  <2> DEFINE c == IdOf[conn[i]]
  <2>2. /\ Carries(i, c) /\ c \in Ids \ {EmptyId} /\ ident[conn[i]] = c
        /\ \A d \in Ids, f \in ClientFds : Carries(f, d)' <=> Carries(f, d) /\ f # i
    BY <2>1, ExitCarries
  <2>3. FirstWith(clients, i) = {c}
    BY <2>2, FirstIsOwn
  <2>4. clients'[c].connected = FALSE /\ \A d \in Ids \ {c} : clients'[d] = clients[d]
    BY <2>1, <2>2, <2>3 DEF RecordLeft, IInv, TypeOK, ServerTypeOK, Client
  <2>5. \A d \in Ids \ {c}, f \in ClientFds : Carries(f, d) => f # i
    BY <2>2 DEF Carries
  <2> QED
    BY <2>2, <2>4, <2>5 DEF NoGhosts, Live
<1>5. CASE HandleStdin \/ UdpBrokenPipe \/ ReconnectBrokenPipe \/ EndOfStream
  BY <1>5 DEF HandleStdin, UdpBrokenPipe, ReconnectBrokenPipe, EndOfStream, ServerEnds,
              NoGhosts, NoClient
<1> QED
  BY <1>2, <1>3, <1>4, <1>5 DEF Next, ServerStep, Halted

\* An id the server takes to be connected has a connection, as long as no
\* record of another id has the descriptor of a served client: the loop of
\* lines 261-267 then finds the record of the client that leaves.
THEOREM NoGhostsWhileOwn == Spec /\ []OwnDescriptor => []NoGhosts
<1>1. Init => NoGhosts
  BY DEF Init, ServerInit, NoGhosts, NoClient
<1>2. IInv /\ DeliveryInv /\ OwnDescriptor /\ NoGhosts /\ [Next]_vars => NoGhosts'
  BY NextNoGhosts
<1> QED
  BY <1>1, <1>2, Delivery, PTL DEF Spec

-----------------------------------------------------------------------------
(* What StoreForward sees of a state: who is not served is away; who is     *)
(* served is here as long as his process runs.                              *)

LEMMA ViewLive ==
  IInv => \A c \in Ids, f \in ClientFds : Carries(f, c) =>
    /\ phaseOf(c) = IF st[conn[f]] = "up" THEN "here" ELSE "gone"
    /\ wireOf(c) = IF st[conn[f]] = "up" THEN s2c[conn[f]] ELSE <<>>
<1> SUFFICES ASSUME IInv, NEW c \in Ids, NEW f \in ClientFds, Carries(f, c)
             PROVE  /\ phaseOf(c) = IF st[conn[f]] = "up" THEN "here" ELSE "gone"
                    /\ wireOf(c) = IF st[conn[f]] = "up" THEN s2c[conn[f]] ELSE <<>>
  OBVIOUS
<1>1. PeersOf(c) = {conn[f]}
  BY DEF PeersOf, Carries, IInv, OneConnectionPerId
<1>2. phaseOf(c) = IF st[conn[f]] = "up" THEN "here" ELSE "gone"
  BY <1>1 DEF phaseOf
<1> QED
  BY <1>1, <1>2 DEF wireOf

LEMMA ViewAway == \A c \in Ids : ~Live(c) => phaseOf(c) = "away" /\ wireOf(c) = <<>>
<1> SUFFICES ASSUME NEW c \in Ids, ~Live(c) PROVE phaseOf(c) = "away" /\ wireOf(c) = <<>>
  OBVIOUS
<1>1. PeersOf(c) = {}
  BY DEF PeersOf, Live
<1>2. phaseOf(c) = "away"
  BY <1>1 DEF phaseOf
<1> QED
  BY <1>2 DEF wireOf

\* The same of the next state.
LEMMA ViewNext ==
  ASSUME IInv'
  PROVE  /\ \A c \in Ids, f \in ClientFds : Carries(f, c)' =>
              /\ phaseOf(c)' = IF st'[conn'[f]] = "up" THEN "here" ELSE "gone"
              /\ wireOf(c)' = IF st'[conn'[f]] = "up" THEN s2c'[conn'[f]] ELSE <<>>
         /\ \A c \in Ids : ~Live(c)' => phaseOf(c)' = "away" /\ wireOf(c)' = <<>>
<1>1. (\A c \in Ids, f \in ClientFds : Carries(f, c) =>
         /\ phaseOf(c) = IF st[conn[f]] = "up" THEN "here" ELSE "gone"
         /\ wireOf(c) = IF st[conn[f]] = "up" THEN s2c[conn[f]] ELSE <<>>)'
  BY ViewLive, PTL
<1>2. (\A c \in Ids : ~Live(c) => phaseOf(c) = "away" /\ wireOf(c) = <<>>)'
  BY ViewAway, PTL
<1> QED
  BY <1>1, <1>2

\* A step changes nothing of client c, or of the subscriptions, that
\* StoreForward sees.
Steady(c) == phaseOf(c)' = phaseOf(c) /\ wireOf(c)' = wireOf(c)
SameSubs == \A c \in Ids, t \in Topics : subsOf(c, t)' = subsOf(c, t)

LEMMA SteadyClient ==
  ASSUME IInv, IInv', NEW c \in Ids,
         \A f \in ClientFds : Carries(f, c)' <=> Carries(f, c),
         \A f \in ClientFds : Carries(f, c) =>
           /\ conn'[f] = conn[f]
           /\ st'[conn[f]] = "up" <=> st[conn[f]] = "up"
           /\ st[conn[f]] = "up" => s2c'[conn[f]] = s2c[conn[f]]
  PROVE  Steady(c)
<1>1. CASE ~Live(c)
  <2>1. ~Live(c)'
    BY <1>1 DEF Live
  <2> QED
    BY <1>1, <2>1, ViewAway, ViewNext DEF Steady
<1>2. CASE Live(c)
  <2>1. PICK f \in ClientFds : Carries(f, c)
    BY <1>2 DEF Live
  <2>2. /\ phaseOf(c) = IF st[conn[f]] = "up" THEN "here" ELSE "gone"
        /\ wireOf(c) = IF st[conn[f]] = "up" THEN s2c[conn[f]] ELSE <<>>
    BY <2>1, ViewLive
  <2>3. /\ phaseOf(c)' = IF st'[conn'[f]] = "up" THEN "here" ELSE "gone"
        /\ wireOf(c)' = IF st'[conn'[f]] = "up" THEN s2c'[conn'[f]] ELSE <<>>
    BY <2>1, ViewNext
  <2> QED
    BY <2>1, <2>2, <2>3 DEF Steady
<1> QED
  BY <1>1, <1>2

\* The subscriptions do not depend on descriptors and connections.
LEMMA SubsKept ==
  ASSUME \A k \in Keys, c \in Ids :
           /\ topics_subs'[k][c].fd = NoFd <=> topics_subs[k][c].fd = NoFd
           /\ topics_subs[k][c].fd # NoFd => topics_subs'[k][c].sf = topics_subs[k][c].sf
  PROVE  SameSubs
<1>1. \A t \in Topics : Key(t) \in Keys
  BY DEF Key, Keys
<1> QED
  BY <1>1 DEF SameSubs, subsOf

LEMMA AsStutter ==
  ASSUME \A c \in Ids : Steady(c), SameSubs, msg_holder' = msg_holder
  PROVE  UNCHANGED Service!vars
BY DEF Service!vars, Steady, SameSubs

LEMMA AsArrival ==
  ASSUME NEW c \in Ids, phaseOf(c) = "away",
         \/ phaseOf(c)' = "here" /\ wireOf(c)' = msg_holder[c]
         \/ phaseOf(c)' = "gone" /\ wireOf(c)' = wireOf(c),
         msg_holder' = [msg_holder EXCEPT ![c] = <<>>],
         \A d \in Ids \ {c} : Steady(d), SameSubs
  PROVE  Service!Next
<1>1. CASE phaseOf(c)' = "here" /\ wireOf(c)' = msg_holder[c]
  <2>1. Service!Arrive(c)
    BY <1>1 DEF Service!Arrive, Steady, SameSubs
  <2> QED
    BY <2>1 DEF Service!Next
<1>2. CASE phaseOf(c)' = "gone" /\ wireOf(c)' = wireOf(c)
  <2>1. Service!ArriveGone(c)
    BY <1>2 DEF Service!ArriveGone, Steady, SameSubs
  <2> QED
    BY <2>1 DEF Service!Next
<1> QED
  BY <1>1, <1>2

LEMMA AsDeparture ==
  ASSUME NEW c \in Ids,
         \/ phaseOf(c) = "here" /\ phaseOf(c)' = "gone" /\ wireOf(c)' = <<>>
         \/ phaseOf(c) = "gone" /\ phaseOf(c)' = "away" /\ wireOf(c)' = wireOf(c),
         \A d \in Ids \ {c} : Steady(d), SameSubs, msg_holder' = msg_holder
  PROVE  Service!Next
<1>1. CASE phaseOf(c) = "here" /\ phaseOf(c)' = "gone" /\ wireOf(c)' = <<>>
  <2>1. Service!Leave(c)
    BY <1>1 DEF Service!Leave, Steady, SameSubs
  <2> QED
    BY <2>1 DEF Service!Next
<1>2. CASE phaseOf(c) = "gone" /\ phaseOf(c)' = "away" /\ wireOf(c)' = wireOf(c)
  <2>1. Service!Notice(c)
    BY <1>2 DEF Service!Notice, Steady, SameSubs
  <2> QED
    BY <2>1 DEF Service!Next
<1> QED
  BY <1>1, <1>2

LEMMA AsDelivery ==
  ASSUME NEW c \in Ids, wireOf(c) # <<>>, wireOf(c)' = Tail(wireOf(c)),
         phaseOf(c)' = phaseOf(c),
         \A d \in Ids \ {c} : Steady(d), SameSubs, msg_holder' = msg_holder
  PROVE  Service!Next
<1>1. Service!Deliver(c)
  BY DEF Service!Deliver, Steady, SameSubs
<1> QED
  BY <1>1 DEF Service!Next

\* Only the subscription of c to t changes.
LEMMA AsSubscription ==
  ASSUME NEW c \in Ids, NEW t \in Topics, phaseOf(c) # "away",
         \/ subsOf(c, t)' = "no"
         \/ subsOf(c, t) = "no" /\ subsOf(c, t)' \in {"drop", "store"},
         \A d \in Ids, u \in Topics : d # c \/ u # t => subsOf(d, u)' = subsOf(d, u),
         \A d \in Ids : Steady(d), msg_holder' = msg_holder
  PROVE  Service!Next
<1>1. /\ [d \in Ids |-> phaseOf(d)]' = [d \in Ids |-> phaseOf(d)]
      /\ [d \in Ids |-> wireOf(d)]' = [d \in Ids |-> wireOf(d)]
  BY DEF Steady
<1>2. [d \in Ids |-> [u \in Topics |-> subsOf(d, u)]]'
        = [[d \in Ids |-> [u \in Topics |-> subsOf(d, u)]] EXCEPT ![c][t] = subsOf(c, t)']
  OBVIOUS
<1>3. CASE subsOf(c, t)' = "no"
  <2>1. Service!Unsubscribe(c, t)
    BY <1>1, <1>2, <1>3 DEF Service!Unsubscribe
  <2> QED
    BY <2>1 DEF Service!Next
<1>4. CASE subsOf(c, t) = "no" /\ subsOf(c, t)' \in {"drop", "store"}
  <2>1. Service!Subscribe(c, t, subsOf(c, t)')
    BY <1>1, <1>2, <1>4 DEF Service!Subscribe
  <2> QED
    BY <1>4, <2>1 DEF Service!Next
<1> QED
  BY <1>3, <1>4

LEMMA AsMessage ==
  ASSUME NEW t \in Topics, NEW n \in 1..MaxMsg,
         \A c \in Ids :
           /\ phaseOf(c)' = phaseOf(c)
           /\ wireOf(c)' = IF phaseOf(c) = "here" /\ subsOf(c, t) # "no"
                             THEN Append(wireOf(c), n) ELSE wireOf(c)
           /\ msg_holder'[c] = IF phaseOf(c) = "away" /\ subsOf(c, t) = "store"
                                 THEN Append(msg_holder[c], n) ELSE msg_holder[c],
         ServerTypeOK', SameSubs
  PROVE  Service!Next
<1>1. Service!Message(t, n)
  BY DEF Service!Message, SameSubs, ServerTypeOK
<1> QED
  BY <1>1 DEF Service!Next

LEMMA AsStop ==
  ASSUME \A c \in Ids : phaseOf(c)' = "away" /\ wireOf(c)' = <<>> /\ msg_holder'[c] = <<>>,
         \A c \in Ids, t \in Topics : subsOf(c, t)' = "no",
         ServerTypeOK'
  PROVE  Service!Next
<1>1. Service!Stop
  BY DEF Service!Stop, ServerTypeOK
<1> QED
  BY <1>1 DEF Service!Next

-----------------------------------------------------------------------------
(* The steps of the broker, as steps of StoreForward. *)

\* Steps that leave the processes and the messages of served clients alone.
LEMMA QuietRefines ==
  ASSUME IInv, IInv',
         \/ Select \/ Accept \/ Refuse \/ UNCHANGED vars
         \/ UNCHANGED serverVars /\ \E p \in Procs :
              Start(p) \/ SendId(p) \/ TypeLine(p) \/ RecvEof(p) \/ Broken(p)
         \/ OutsideStep
  PROVE  UNCHANGED Service!vars
<1>1. /\ \A c \in Ids, f \in ClientFds :
           /\ Carries(f, c)' <=> Carries(f, c)
           /\ Carries(f, c) => conn'[f] = conn[f]
  BY QuietCarries DEF SubscriberStep
<1>2. UNCHANGED <<topics_subs, msg_holder>>
  BY DEF Select, Accept, Refuse, vars, serverVars, OutsideStep
<1>3. \A f \in ClientFds, c \in Ids : Carries(f, c) =>
        /\ st'[conn[f]] = "up" <=> st[conn[f]] = "up"
        /\ s2c'[conn[f]] = s2c[conn[f]]
  <2>1. ASSUME NEW f \in ClientFds, NEW c \in Ids, Carries(f, c)
        PROVE  conn[f] \in Procs /\ Open(conn[f]) /\ st[conn[f]] # "syn"
    <3>1. f \in Watched /\ f \in OpenFds /\ conn[f] \in Procs
      BY <2>1 DEF Carries, Watched, OpenFds, IInv, TypeOK, NetTypeOK
    <3> QED
      BY <3>1 DEF Open, IInv, IdInv
  <2>2. CASE UNCHANGED <<st, s2c>>
    BY <2>2
  <2>3. CASE \E p \in Procs : Start(p) \/ SendId(p) \/ RecvEof(p) \/ Broken(p)
    <3>1. PICK p \in Procs : /\ ~Open(p) \/ st[p] = "syn"
                             /\ \A q \in Procs \ {p} : st'[q] = st[q] /\ s2c'[q] = s2c[q]
      BY <2>3 DEF Start, SendId, RecvEof, Broken, Ends, IInv, TypeOK, NetTypeOK
    <3> QED
      BY <2>1, <3>1
  <2> QED
    BY <2>2, <2>3 DEF Select, Accept, Refuse, vars, netVars, clientVars, TypeLine,
                      OutsideStep, Publish, Operator
<1>4. \A c \in Ids : Steady(c)
  BY <1>1, <1>3, SteadyClient
<1>5. SameSubs
  BY <1>2, SubsKept
<1> QED
  BY <1>2, <1>4, <1>5, AsStutter

\* The entries of a client that returns.
LEMMA SubsReturned ==
  ASSUME IInv, NEW id \in Ids, newsockfd \in ClientFds, topics_subs' = Returned(id)
  PROVE  SameSubs
<1> SUFFICES ASSUME NEW k \in Keys, NEW c \in Ids
             PROVE  /\ topics_subs'[k][c].fd = NoFd <=> topics_subs[k][c].fd = NoFd
                    /\ topics_subs[k][c].fd # NoFd =>
                         topics_subs'[k][c].sf = topics_subs[k][c].sf
  BY SubsKept
<1>1. topics_subs[k][c] \in Client
  BY DEF IInv, TypeOK, ServerTypeOK
<1>2. c # id => topics_subs'[k][c] = topics_subs[k][c]
  BY DEF Returned
<1>3. /\ topics_subs[k][id].fd = NoFd => topics_subs'[k][id] = topics_subs[k][id]
      /\ topics_subs[k][id].fd # NoFd =>
           topics_subs'[k][id] = [topics_subs[k][id] EXCEPT !.fd = newsockfd, !.connected = TRUE]
  BY DEF Returned
<1>4. CASE c = id
  <2> DEFINE r == [topics_subs[k][id] EXCEPT !.fd = newsockfd, !.connected = TRUE]
  <2>1. r.fd = newsockfd /\ r.sf = topics_subs[k][id].sf
    BY <1>1, <1>4 DEF Client
  <2> HIDE DEF r
  <2>2. newsockfd # NoFd
    OBVIOUS
  <2> QED
    BY <1>3, <1>4, <2>1, <2>2 DEF r
<1> QED
  BY <1>2, <1>4

\* A client is registered, for the first time or again, and is sent what was
\* held for it (lines 187-236).
LEMMA RegisterRefines ==
  ASSUME IInv, IInv', DeliveryInv, FirstConnect \/ Reconnect
  PROVE  Service!Next
<1>1. PICK p \in Procs, id \in Ids :
        /\ ReceivesId(p, id) /\ Register(p, id) /\ UNCHANGED <<st, ident, conn>>
        /\ \/ /\ ~Known(id) /\ UNCHANGED <<topics_subs, msg_holder, s2c>>
           \/ /\ Known(id) /\ Away(id)
              /\ topics_subs' = Returned(id)
              /\ msg_holder' = [msg_holder EXCEPT ![id] = <<>>]
              /\ s2c' = Received([q \in Procs |-> IF q = p THEN msg_holder[id] ELSE <<>>])
  BY DEF FirstConnect, Reconnect, SendAll, clientVars
<1>2. /\ conn[newsockfd] = p /\ ident[p] = id /\ s2c[p] = <<>> /\ st[p] # "syn"
      /\ newsockfd \in ClientFds /\ ~Live(id)
      /\ \A f \in ClientFds : f = newsockfd => Carries(f, id)'
      /\ clients'[id].fd = newsockfd
      /\ \A d \in Ids \ {id} : \A f \in ClientFds : Carries(f, d)' <=> Carries(f, d)
  BY <1>1, RegisterCarries
<1>3. /\ msg_holder' = [msg_holder EXCEPT ![id] = <<>>]
      /\ msg_holder[id] \in Seq(1..MaxMsg)
      /\ ~Known(id) => msg_holder[id] = <<>>
  <2>1. ~Known(id) => msg_holder[id] = <<>>
    BY DEF IInv, StoreInv
  <2> QED
    BY <1>1, <2>1 DEF IInv, TypeOK, ServerTypeOK
<1>4. /\ st[p] = "up" => s2c'[p] = msg_holder[id]
      /\ \A q \in Procs \ {p} : s2c'[q] = s2c[q]
  <2>1. CASE ~Known(id) /\ s2c' = s2c
    BY <1>2, <1>3, <2>1
  <2>2. CASE s2c' = Received([q \in Procs |-> IF q = p THEN msg_holder[id] ELSE <<>>])
    <3>1. \A q \in Procs : s2c[q] \in Seq(1..MaxMsg)
      BY DEF IInv, TypeOK, NetTypeOK
    <3>2. /\ <<>> \o msg_holder[id] = msg_holder[id]
          /\ \A q \in Procs : s2c[q] \o <<>> = s2c[q]
      BY <1>3, <3>1, ConcatEmptySeq
    <3> QED
      BY <1>2, <2>2, <3>2 DEF Received
  <2> QED
    BY <1>1, <2>1, <2>2
<1>5. SameSubs
  <2>1. CASE topics_subs' = topics_subs
    BY <2>1, SubsKept
  <2>2. CASE topics_subs' = Returned(id)
    BY <1>2, <2>2, SubsReturned
  <2> QED
    BY <1>1, <2>1, <2>2
<1>6. ASSUME NEW d \in Ids \ {id} PROVE Steady(d)
  <2>1. \A f \in ClientFds : Carries(f, d) => conn[f] \in Procs \ {p}
    BY <1>2 DEF Carries, IInv, TypeOK, NetTypeOK
  <2> QED
    BY <1>1, <1>2, <1>4, <2>1, SteadyClient
<1>7. phaseOf(id) = "away" /\ wireOf(id) = <<>>
  BY <1>2, ViewAway
<1>8. /\ phaseOf(id)' = IF st'[conn'[newsockfd]] = "up" THEN "here" ELSE "gone"
      /\ wireOf(id)' = IF st'[conn'[newsockfd]] = "up" THEN s2c'[conn'[newsockfd]] ELSE <<>>
  BY <1>2, ViewNext
<1>9. \/ phaseOf(id)' = "here" /\ wireOf(id)' = msg_holder[id]
      \/ phaseOf(id)' = "gone" /\ wireOf(id)' = wireOf(id)
  BY <1>1, <1>2, <1>4, <1>7, <1>8
<1> QED
  BY <1>3, <1>5, <1>6, <1>7, <1>9, AsArrival

\* The service notices that a client has left (lines 255-275).
LEMMA ExitLineRefines ==
  ASSUME IInv, IInv', DeliveryInv, ExitLine
  PROVE  Service!Next
<1>1. PICK i \in ClientFds, line \in Lines :
        /\ ReceivesLine(i, line) /\ line.op = "exit"
        /\ conn' = [conn EXCEPT ![i] = NoProc]
        /\ read_fds' = read_fds \ {i}
        /\ topics_subs' = Departed(i)
        /\ UNCHANGED <<msg_holder, st, ident, s2c>>
  BY DEF ExitLine, clientVars
<1>2. PICK c \in Ids :
        /\ Carries(i, c) /\ ident[conn[i]] = c
        /\ \A d \in Ids, f \in ClientFds : Carries(f, d)' <=> Carries(f, d) /\ f # i
        /\ \A d \in Ids, f \in ClientFds : Carries(f, d) /\ f # i => conn'[f] = conn[f]
  <2>1. /\ Carries(i, IdOf[conn[i]]) /\ IdOf[conn[i]] \in Ids
        /\ ident[conn[i]] = IdOf[conn[i]]
        /\ \A d \in Ids, f \in ClientFds : Carries(f, d)' <=> Carries(f, d) /\ f # i
        /\ \A d \in Ids, f \in ClientFds : Carries(f, d) /\ f # i => conn'[f] = conn[f]
    BY <1>1, ExitCarries
  <2> HIDE DEF Carries
  <2> QED
    BY <2>1
<1>3. st[conn[i]] = "down"
  <2>1. conn[i] \in Procs
    BY <1>1, ReceivesLineFacts
  <2>2. c2s[conn[i]] \in Seq(Lines) /\ c2s[conn[i]] # <<>> /\ Head(c2s[conn[i]]) = line
    BY <1>1, <2>1 DEF ReceivesLine, IInv, TypeOK, NetTypeOK
  <2>3. 1 \in 1..Len(c2s[conn[i]]) /\ c2s[conn[i]][1] = line
    BY <2>2, EmptySeq
  <2> QED
    BY <1>1, <2>1, <2>3 DEF DeliveryInv, RecordInv
<1>4. phaseOf(c) = "gone" /\ wireOf(c) = <<>>
  BY <1>2, <1>3, ViewLive
<1>5. phaseOf(c)' = "away" /\ wireOf(c)' = <<>>
  <2>1. ASSUME NEW f \in ClientFds, Carries(f, c) PROVE f = i
    <3>1. f \in Watched /\ i \in Watched
      BY <1>2, <2>1 DEF Carries
    <3> QED
      BY <1>2, <2>1, <3>1 DEF IInv, OneConnectionPerId
  <2>2. ~Live(c)'
    BY <1>2, <2>1 DEF Live
  <2> QED
    BY <1>2, <2>2, ViewNext
<1>6. ASSUME NEW d \in Ids \ {c} PROVE Steady(d)
  <2>1. \A f \in ClientFds : Carries(f, d) => f # i
    BY <1>2 DEF Carries
  <2> QED
    BY <1>1, <1>2, <2>1, SteadyClient
<1>7. SameSubs
  <2>1. \A k \in Keys, d \in Ids : topics_subs[k][d] \in Client
    BY DEF IInv, TypeOK, ServerTypeOK
  <2> QED
    BY <1>1, <2>1, SubsKept DEF Departed, Client
<1> QED
  BY <1>1, <1>2, <1>4, <1>5, <1>6, <1>7, AsDeparture

\* A process that ends leaves, if it is served.
LEMMA EndsRefines ==
  ASSUME IInv, IInv', DeliveryInv, NEW p \in Procs, Exit(p) \/ Kill(p),
         UNCHANGED serverVars
  PROVE  [Service!Next]_Service!vars
<1>1. /\ st[p] # "down" /\ st'[p] = "down"
      /\ \A q \in Procs \ {p} : st'[q] = st[q] /\ s2c'[q] = s2c[q]
      /\ UNCHANGED <<ident, conn, topics_subs, msg_holder>>
  BY DEF Exit, Kill, Ends, serverVars, IInv, TypeOK, NetTypeOK
<1>2. \A c \in Ids, f \in ClientFds :
        /\ Carries(f, c)' <=> Carries(f, c)
        /\ Carries(f, c) => conn'[f] = conn[f] /\ conn[f] \in Procs /\ ident[conn[f]] = c
  <2>1. SubscriberStep
    BY DEF SubscriberStep
  <2>2. \A c \in Ids, f \in ClientFds : Carries(f, c) => conn[f] \in Procs /\ ident[conn[f]] = c
    BY DEF Carries, IInv, TypeOK, NetTypeOK
  <2> QED
    BY <2>1, <2>2, QuietCarries
<1>3. SameSubs
  BY <1>1, SubsKept
<1>4. CASE \E f \in ClientFds : Carries(f, ident[p]) /\ conn[f] = p
  <2>1. PICK f \in ClientFds : Carries(f, ident[p]) /\ conn[f] = p
    BY <1>4
  <2> DEFINE c == ident[p]
  <2>2. c \in Ids
    BY DEF IInv, TypeOK, NetTypeOK
  <2>3. st[p] = "up"
    <3>1. f \in Watched \cap OpenFds
      BY <2>1 DEF Carries, OpenFds
    <3> QED
      BY <1>1, <2>1, <3>1 DEF IInv, IdInv, TypeOK, NetTypeOK
  <2>4. phaseOf(c) = "here"
    BY <2>1, <2>2, <2>3, ViewLive
  <2>5. \A d \in Ids : d = c => phaseOf(d)' = "gone" /\ wireOf(d)' = <<>>
    BY <1>1, <1>2, <2>1, ViewNext
  <2>6. ASSUME NEW d \in Ids \ {c} PROVE Steady(d)
    BY <1>1, <1>2, SteadyClient
  <2>7. ASSUME NEW d \in Ids, d = c PROVE Service!Next
    BY <1>1, <1>3, <2>4, <2>5, <2>6, <2>7, AsDeparture
  <2> QED
    BY <2>2, <2>7
<1>5. CASE \A f \in ClientFds : Carries(f, ident[p]) => conn[f] # p
  <2>1. \A c \in Ids : Steady(c)
    BY <1>1, <1>2, <1>5, SteadyClient
  <2> QED
    BY <1>1, <1>3, <2>1, AsStutter
<1> QED
  BY <1>4, <1>5

\* A message is printed.
LEMMA RecvRefines ==
  ASSUME IInv, IInv', NEW p \in Procs, Recv(p), UNCHANGED serverVars
  PROVE  [Service!Next]_Service!vars
<1>1. /\ st[p] = "up" /\ s2c[p] # <<>> /\ s2c'[p] = Tail(s2c[p])
      /\ \A q \in Procs \ {p} : s2c'[q] = s2c[q]
      /\ UNCHANGED <<st, ident, conn, topics_subs, msg_holder>>
  BY DEF Recv, serverVars, IInv, TypeOK, NetTypeOK
<1>2. \A c \in Ids, f \in ClientFds :
        /\ Carries(f, c)' <=> Carries(f, c)
        /\ Carries(f, c) => conn'[f] = conn[f] /\ conn[f] \in Procs /\ ident[conn[f]] = c
  <2>1. SubscriberStep
    BY DEF SubscriberStep
  <2>2. \A c \in Ids, f \in ClientFds : Carries(f, c) => conn[f] \in Procs /\ ident[conn[f]] = c
    BY DEF Carries, IInv, TypeOK, NetTypeOK
  <2> QED
    BY <2>1, <2>2, QuietCarries
<1>3. SameSubs
  BY <1>1, SubsKept
<1>4. CASE \E f \in ClientFds : Carries(f, ident[p]) /\ conn[f] = p
  <2>1. PICK f \in ClientFds : Carries(f, ident[p]) /\ conn[f] = p
    BY <1>4
  <2>2. PICK c \in Ids : c = ident[p]
    BY DEF IInv, TypeOK, NetTypeOK
  <2>3. phaseOf(c) = "here" /\ wireOf(c) = s2c[p]
    BY <1>1, <2>1, <2>2, ViewLive
  <2>4. phaseOf(c)' = "here" /\ wireOf(c)' = Tail(s2c[p])
    BY <1>1, <1>2, <2>1, <2>2, ViewNext
  <2>5. ASSUME NEW d \in Ids \ {c} PROVE Steady(d)
    BY <1>1, <1>2, <2>2, SteadyClient
  <2> QED
    BY <1>1, <1>3, <2>3, <2>4, <2>5, AsDelivery
<1>5. CASE \A f \in ClientFds : Carries(f, ident[p]) => conn[f] # p
  <2>1. \A c \in Ids : Steady(c)
    BY <1>1, <1>2, <1>5, SteadyClient
  <2> QED
    BY <1>1, <1>3, <2>1, AsStutter
<1> QED
  BY <1>4, <1>5

\* A line comes from a client that is served under the id it was started with.
LEMMA LineClient ==
  ASSUME IInv, DeliveryInv, NEW i \in ClientFds, NEW line \in Lines, ReceivesLine(i, line)
  PROVE  \E c \in Ids \ {EmptyId} : Carries(i, c)
<1>1. i \in Watched /\ conn[i] \in Procs
  BY ReceivesLineFacts
<1>2. c2s[conn[i]] # <<>> /\ conn[i] # NoProc
  BY DEF ReceivesLine
<1>3. ident[conn[i]] = IdOf[conn[i]] /\ IdOf[conn[i]] \in Ids \ {EmptyId}
  BY <1>1, <1>2, BrokerAssumption DEF DeliveryInv, RecordInv
<1> QED
  BY <1>1, <1>2, <1>3 DEF Carries

\* A subscription counts for the client that sent it (lines 292-320).
LEMMA SubscribeRefines ==
  ASSUME IInv, IInv', DeliveryInv, OwnDescriptor, SubscribeLine
  PROVE  [Service!Next]_Service!vars
<1>1. PICK i \in ClientFds, line \in Lines :
        /\ ReceivesLine(i, line) /\ line.op = "subscribe"
        /\ topics_subs' =
             [topics_subs EXCEPT ![Key(line.topic)] =
               [c \in Ids |->
                 IF /\ c \in FirstWith(clients, i)
                    /\ topics_subs[Key(line.topic)][c].fd = NoFd
                   THEN [clients[c] EXCEPT !.sf = line.sf]
                   ELSE topics_subs[Key(line.topic)][c]]]
        /\ UNCHANGED <<msg_holder, st, s2c>>
  BY DEF SubscribeLine, clientVars
<1>2. PICK c \in Ids \ {EmptyId} : Carries(i, c)
  BY <1>1, LineClient
<1>3. FirstWith(clients, i) = {c} /\ clients[c].fd # NoFd /\ clients[c] \in Client
  BY <1>2, FirstIsOwn DEF IInv, TypeOK, ServerTypeOK
<1>4. line.topic \in Topics /\ line.sf \in BOOLEAN
  BY <1>1 DEF Lines
<1>5. ASSUME NEW d \in Ids PROVE Steady(d)
  BY <1>1, QuietCarries, SteadyClient
<1>6. phaseOf(c) # "away"
  BY <1>2, ViewLive
<1> DEFINE t == line.topic
<1>7. ASSUME NEW d \in Ids, NEW u \in Topics, d # c \/ u # t
      PROVE  subsOf(d, u)' = subsOf(d, u)
  <2>1. Key(u) \in Keys /\ (u # t => Key(u) # Key(t))
    BY DEF Key, Keys
  <2>2. topics_subs'[Key(u)][d] = topics_subs[Key(u)][d]
    BY <1>1, <1>3, <1>7, <2>1 DEF IInv, TypeOK, ServerTypeOK
  <2> QED
    BY <2>2 DEF subsOf
<1>8. Key(t) \in Keys
  BY <1>4 DEF Key, Keys
<1>9. CASE topics_subs[Key(t)][c].fd = NoFd
  <2>1. topics_subs'[Key(t)][c] = [clients[c] EXCEPT !.sf = line.sf]
    BY <1>1, <1>3, <1>8, <1>9 DEF IInv, TypeOK, ServerTypeOK
  <2>2. subsOf(c, t) = "no" /\ subsOf(c, t)' \in {"drop", "store"}
    BY <1>3, <1>4, <1>9, <2>1 DEF subsOf, Client
  <2> QED
    BY <1>1, <1>4, <1>5, <1>6, <1>7, <2>2, AsSubscription
<1>10. CASE topics_subs[Key(t)][c].fd # NoFd
  <2>1. topics_subs'[Key(t)][c] = topics_subs[Key(t)][c]
    BY <1>1, <1>8, <1>10 DEF IInv, TypeOK, ServerTypeOK
  <2>2. subsOf(c, t)' = subsOf(c, t)
    BY <2>1 DEF subsOf
  <2>3. SameSubs
    BY <1>7, <2>2 DEF SameSubs
  <2> QED
    BY <1>1, <1>5, <2>3, AsStutter
<1> QED
  BY <1>9, <1>10

\* So does the end of one; a key that still has its newline is no topic
\* (lines 281-290).
LEMMA UnsubscribeRefines ==
  ASSUME IInv, IInv', DeliveryInv, OwnDescriptor, UnsubscribeLine
  PROVE  [Service!Next]_Service!vars
<1>1. PICK i \in ClientFds, line \in Lines :
        /\ ReceivesLine(i, line) /\ line.op = "unsubscribe"
        /\ topics_subs' =
             [topics_subs EXCEPT ![<<line.topic, line.eol>>] =
               [c \in Ids |->
                 IF c \in FirstWith(topics_subs[<<line.topic, line.eol>>], i)
                   THEN NoClient
                   ELSE topics_subs[<<line.topic, line.eol>>][c]]]
        /\ UNCHANGED <<msg_holder, st, s2c>>
  BY DEF UnsubscribeLine, clientVars
<1>2. PICK c \in Ids \ {EmptyId} : Carries(i, c)
  BY <1>1, LineClient
<1>3. line.topic \in Topics /\ line.eol \in BOOLEAN
  BY <1>1, BrokerAssumption DEF Lines
<1> DEFINE t == line.topic
           key == <<t, line.eol>>
<1>4. key \in Keys
  BY <1>3 DEF Keys
<1>5. \A d \in Ids : d \in FirstWith(topics_subs[key], i) => d = c
  <2>1. \A d \in Ids : topics_subs[key][d].fd = i => d = c
    BY <1>2, <1>4, FirstIsOwn
  <2> QED
    BY <2>1 DEF FirstWith
<1>6. ASSUME NEW d \in Ids PROVE Steady(d)
  BY <1>1, QuietCarries, SteadyClient
<1>7. phaseOf(c) # "away"
  BY <1>2, ViewLive
<1>8. ASSUME NEW k \in Keys, NEW d \in Ids, k # key \/ d # c
      PROVE  topics_subs'[k][d] = topics_subs[k][d]
  BY <1>1, <1>4, <1>5, <1>8 DEF IInv, TypeOK, ServerTypeOK
<1>9. ASSUME NEW d \in Ids, NEW u \in Topics, d # c \/ u # t
      PROVE  subsOf(d, u)' = subsOf(d, u)
  <2>1. Key(u) \in Keys /\ (u # t => Key(u) # key)
    BY DEF Key, Keys
  <2>2. topics_subs'[Key(u)][d] = topics_subs[Key(u)][d]
    BY <1>8, <1>9, <2>1
  <2> QED
    BY <2>2 DEF subsOf
<1>10. CASE subsOf(c, t)' = subsOf(c, t)
  <2>1. SameSubs
    BY <1>9, <1>10 DEF SameSubs
  <2> QED
    BY <1>1, <1>6, <2>1, AsStutter
<1>11. CASE subsOf(c, t)' # subsOf(c, t)
  <2>1. Key(t) \in Keys
    BY <1>3 DEF Key, Keys
  <2>2. topics_subs'[Key(t)][c] # topics_subs[Key(t)][c]
    BY <1>11 DEF subsOf
  <2>3. Key(t) = key
    BY <1>8, <2>1, <2>2
  <2>4. topics_subs'[Key(t)][c] = NoClient
    BY <1>1, <1>4, <2>2, <2>3 DEF IInv, TypeOK, ServerTypeOK
  <2>5. subsOf(c, t)' = "no"
    BY <2>4 DEF subsOf, NoClient
  <2> QED
    BY <1>1, <1>3, <1>6, <1>7, <1>9, <2>5, AsSubscription
<1> QED
  BY <1>10, <1>11

\* The entries a datagram is sent to on the connection of client c: c's own,
\* if it has one.
LEMMA SentOnOwn ==
  ASSUME IInv, OwnDescriptor, NEW c \in Ids \ {EmptyId}, NEW f \in ClientFds,
         Carries(f, c), NEW key \in Keys
  PROVE  SentOn(key, conn[f]) = {d \in {c} : topics_subs[key][d].fd # NoFd}
<1>1. clients[c].fd = f /\ f \in OpenFds /\ Live(c)
  BY DEF Carries, Live, OpenFds, IInv, OneConnectionPerId
<1>2. ASSUME NEW d \in SentOn(key, conn[f]) PROVE d = c /\ topics_subs[key][d].fd # NoFd
  <2>1. topics_subs[key][d].fd \in ClientFds /\ conn[topics_subs[key][d].fd] = conn[f]
    BY DEF SentOn
  <2>2. topics_subs[key][d].fd = f
    BY <1>1, <2>1 DEF OpenFds, IInv, PlaceInv
  <2> QED
    BY <2>2, FirstIsOwn DEF SentOn
<1>3. ASSUME topics_subs[key][c].fd # NoFd PROVE c \in SentOn(key, conn[f])
  BY <1>1, <1>3 DEF SentOn, IInv, CopiesAgree
<1> QED
  BY <1>2, <1>3

\* No copy of a message, and one.
LEMMA Copies ==
  ASSUME NEW n
  PROVE  /\ [j \in 1..0 |-> n] = <<>>
         /\ [j \in 1..1 |-> n] = <<n>>
<1>1. 1..1 = {1} /\ 1..0 = {}
  OBVIOUS
<1>2. [j \in 1..1 |-> n] = <<n>>
  <2>1. DOMAIN <<n>> = {1} /\ <<n>>[1] = n
    BY <1>1
  <2> QED
    BY <1>1, <2>1
<1> QED
  BY <1>1, <1>2

\* One datagram, one message to every subscriber (lines 121-165).
LEMMA HandleUdpRefines ==
  ASSUME IInv, IInv', DeliveryInv, OwnDescriptor, NoGhosts, HandleUdp
  PROVE  Service!Next
<1>1. Head(udp).topic \in Topics /\ Head(udp).n \in 1..MaxMsg /\ Key(Head(udp).topic) \in Keys
  BY DatagramType DEF HandleUdp, Datagrams
<1>2. PICK t \in Topics, n \in 1..MaxMsg :
        /\ Key(t) \in Keys
        /\ s2c' = Received(CopiesFor(Key(t), n, Ids))
        /\ msg_holder' = Holding(Key(t), n)
        /\ UNCHANGED <<st, ident, conn, topics_subs>>
  BY <1>1 DEF HandleUdp, SendAll, clientVars
<1>3. SameSubs
  BY <1>2, SubsKept
<1>4. \A c \in Ids, f \in ClientFds : Carries(f, c)' <=> Carries(f, c)
  BY QuietCarries
<1>5. ASSUME NEW c \in Ids
      PROVE  /\ topics_subs[Key(t)][c] \in Client
             /\ subsOf(c, t) # "no" <=> topics_subs[Key(t)][c].fd # NoFd
             /\ subsOf(c, t) = "store" <=>
                  topics_subs[Key(t)][c].fd # NoFd /\ topics_subs[Key(t)][c].sf
  <2>1. topics_subs[Key(t)][c] \in Client
    BY <1>2 DEF IInv, TypeOK, ServerTypeOK
  <2> QED
    BY <2>1 DEF subsOf, Client
<1>6. ASSUME NEW c \in Ids, ~Live(c)
      PROVE  /\ phaseOf(c) = "away" /\ phaseOf(c)' = "away"
             /\ wireOf(c) = <<>> /\ wireOf(c)' = <<>>
             /\ c \in Held(Key(t)) <=> subsOf(c, t) = "store"
  <2>1. ~Live(c)'
    BY <1>4, <1>6 DEF Live
  <2>2. ~topics_subs[Key(t)][c].connected
    BY <1>2, <1>5, <1>6 DEF NoGhosts, IInv, CopiesAgree, SendsOnlyToOpen, Watched
  <2> QED
    BY <1>5, <1>6, <2>1, <2>2, ViewAway, ViewNext DEF Held
<1>7. ASSUME NEW c \in Ids, Live(c)
      PROVE  /\ phaseOf(c) # "away" /\ phaseOf(c)' = phaseOf(c)
             /\ wireOf(c)' = IF phaseOf(c) = "here" /\ subsOf(c, t) # "no"
                               THEN Append(wireOf(c), n) ELSE wireOf(c)
             /\ c \notin Held(Key(t))
  <2>1. PICK f \in ClientFds : Carries(f, c)
    BY <1>7 DEF Live
  <2>2. /\ phaseOf(c) = IF st[conn[f]] = "up" THEN "here" ELSE "gone"
        /\ wireOf(c) = IF st[conn[f]] = "up" THEN s2c[conn[f]] ELSE <<>>
        /\ phaseOf(c)' = phaseOf(c)
        /\ wireOf(c)' = IF st[conn[f]] = "up" THEN s2c'[conn[f]] ELSE <<>>
    BY <1>2, <1>4, <2>1, ViewLive, ViewNext
  <2>3. c \notin Held(Key(t))
    BY <1>2, <1>7 DEF Held, IInv, CopiesAgree
  <2>4. conn[f] \in Procs /\ ident[conn[f]] = c /\ s2c[conn[f]] \in Seq(1..MaxMsg)
    BY <2>1 DEF Carries, IInv, TypeOK, NetTypeOK
  <2>5. ASSUME st[conn[f]] = "up"
        PROVE  s2c'[conn[f]] = IF subsOf(c, t) # "no"
                                 THEN Append(s2c[conn[f]], n) ELSE s2c[conn[f]]
    <3>1. c # EmptyId
      BY <2>4, <2>5, BrokerAssumption DEF DeliveryInv, RecordInv
    <3>2. SentOn(Key(t), conn[f]) = {d \in {c} : topics_subs[Key(t)][d].fd # NoFd}
      BY <1>2, <2>1, <3>1, SentOnOwn
    <3>3. s2c'[conn[f]] = s2c[conn[f]] \o
            [j \in 1..Cardinality(SentOn(Key(t), conn[f]) \cap Ids) |-> n]
      BY <1>2, <2>4, <2>5 DEF Received, CopiesFor
    <3>4. CASE subsOf(c, t) = "no"
      <4>1. SentOn(Key(t), conn[f]) \cap Ids = {}
        BY <1>5, <3>2, <3>4
      <4>2. [j \in 1..Cardinality(SentOn(Key(t), conn[f]) \cap Ids) |-> n] = <<>>
        BY <4>1, FS_EmptySet, Copies
      <4> QED
        BY <2>4, <3>3, <3>4, <4>2, ConcatEmptySeq
    <3>5. CASE subsOf(c, t) # "no"
      <4>1. SentOn(Key(t), conn[f]) \cap Ids = {c}
        BY <1>5, <3>2, <3>5
      <4>2. [j \in 1..Cardinality(SentOn(Key(t), conn[f]) \cap Ids) |-> n] = <<n>>
        BY <4>1, FS_Singleton, Copies
      <4>3. s2c[conn[f]] \o <<n>> = Append(s2c[conn[f]], n)
        BY <2>4, AppendIsConcat
      <4> QED
        BY <3>3, <3>5, <4>2, <4>3
    <3> QED
      BY <3>4, <3>5
  <2> QED
    BY <2>2, <2>3, <2>5
<1>8. ASSUME NEW c \in Ids
      PROVE  /\ phaseOf(c)' = phaseOf(c)
             /\ wireOf(c)' = IF phaseOf(c) = "here" /\ subsOf(c, t) # "no"
                               THEN Append(wireOf(c), n) ELSE wireOf(c)
             /\ msg_holder'[c] = IF phaseOf(c) = "away" /\ subsOf(c, t) = "store"
                                   THEN Append(msg_holder[c], n) ELSE msg_holder[c]
  <2>1. CASE Live(c)
    BY <1>2, <1>7, <2>1 DEF Holding
  <2>2. CASE ~Live(c)
    BY <1>2, <1>6, <2>2 DEF Holding
  <2> QED
    BY <2>1, <2>2
<1>9. ServerTypeOK'
  BY DEF IInv, TypeOK
<1> QED
  BY <1>3, <1>8, <1>9, AsMessage

\* The end of the server is the end of the service.
LEMMA EndRefines ==
  ASSUME IInv', HandleStdin \/ UdpBrokenPipe \/ ReconnectBrokenPipe \/ EndOfStream
  PROVE  Service!Next
<1>1. PICK how : ServerEnds(how)
  BY DEF HandleStdin, UdpBrokenPipe, ReconnectBrokenPipe, EndOfStream
<1>2. ASSUME NEW c \in Ids PROVE phaseOf(c)' = "away" /\ wireOf(c)' = <<>>
  <2>1. ~Live(c)'
    BY <1>1 DEF Live, Carries, ServerEnds
  <2> QED
    BY <2>1, ViewNext
<1>3. ASSUME NEW c \in Ids, NEW t \in Topics PROVE subsOf(c, t)' = "no"
  <2>1. Key(t) \in Keys
    BY DEF Key, Keys
  <2> QED
    BY <1>1, <2>1 DEF ServerEnds, subsOf, NoClient
<1>4. \A c \in Ids : msg_holder'[c] = <<>>
  BY <1>1 DEF ServerEnds
<1>5. ServerTypeOK'
  BY DEF IInv, TypeOK
<1> QED
  BY <1>2, <1>3, <1>4, <1>5, AsStop

-----------------------------------------------------------------------------
(* The refinement. *)

LEMMA InitRefines == Init => Service!Init
<1> SUFFICES ASSUME Init PROVE Service!Init
  OBVIOUS
<1>1. \A c \in Ids : phaseOf(c) = "away" /\ wireOf(c) = <<>>
  <2>1. \A c \in Ids : ~Live(c)
    BY DEF Init, NetInit, Live, Carries
  <2> QED
    BY <2>1, ViewAway
<1>2. ASSUME NEW c \in Ids, NEW t \in Topics PROVE subsOf(c, t) = "no"
  <2>1. Key(t) \in Keys
    BY DEF Key, Keys
  <2> QED
    BY <2>1 DEF Init, ServerInit, subsOf, NoClient
<1> QED
  BY <1>1, <1>2 DEF Service!Init, Init, ServerInit

LEMMA NextRefines ==
  ASSUME IInv, DeliveryInv, OwnDescriptor, NoGhosts, [Next]_vars
  PROVE  [Service!Next]_Service!vars
<1>1. IInv'
  BY NextInv
<1>2. CASE Select \/ Accept \/ Refuse \/ UNCHANGED vars \/ Halted \/ OutsideStep
  BY <1>1, <1>2, QuietRefines DEF Halted
<1>3. CASE SubscriberStep
  BY <1>1, <1>3, QuietRefines, EndsRefines, RecvRefines DEF SubscriberStep
<1>4. CASE FirstConnect \/ Reconnect
  BY <1>1, <1>4, RegisterRefines
<1>5. CASE ExitLine \/ SubscribeLine \/ UnsubscribeLine \/ HandleUdp
  BY <1>1, <1>5, ExitLineRefines, SubscribeRefines, UnsubscribeRefines, HandleUdpRefines
<1>6. CASE HandleStdin \/ UdpBrokenPipe \/ ReconnectBrokenPipe \/ EndOfStream
  BY <1>1, <1>6, EndRefines
<1> QED
  BY <1>2, <1>3, <1>4, <1>5, <1>6 DEF Next, ServerStep

\* As long as no record of another id has the descriptor of a served client,
\* the broker implements StoreForward: each message is sent once to every
\* subscriber that is there and held for those that asked for it, and lines
\* act on the client that sent them.
THEOREM Refinement == Spec /\ []OwnDescriptor => ImplementsStoreForward
<1>1. Init => Service!Init
  BY InitRefines
<1>2. /\ IInv /\ DeliveryInv /\ OwnDescriptor /\ NoGhosts
      /\ [Next]_vars
      => [Service!Next]_Service!vars
  BY NextRefines
<1> QED
  BY <1>1, <1>2, Delivery, NoGhostsWhileOwn, PTL
     DEF Spec, ImplementsStoreForward, Service!Spec

-----------------------------------------------------------------------------
(* Subscribers that all use one id.  Descriptors then pass from one run of  *)
(* the client to the next, and no other record can name them.               *)

\* The id a process is started with, or none, is what its connection carries.
LEMMA IdentKept ==
  ASSUME IInv, IdentInv, [Next]_vars
  PROVE  \A p \in Procs : ident'[p] \in {EmptyId, IdOf[p]}
<1>1. CASE UNCHANGED ident
  BY <1>1 DEF IdentInv
<1>2. CASE SubscriberStep
  <2>1. PICK p \in Procs : \/ UNCHANGED ident
                           \/ ident' = [ident EXCEPT ![p] = EmptyId]
                           \/ ident' = [ident EXCEPT ![p] = IdOf[p]]
    BY <1>2 DEF SubscriberStep, Start, SendId, TypeLine, Exit, Kill, Recv, RecvEof, Broken
  <2> QED
    BY <2>1 DEF IdentInv, IInv, TypeOK, NetTypeOK
<1> QED
  BY <1>1, <1>2
     DEF Next, ServerStep, OutsideStep, Halted, vars, netVars, clientVars, serverVars,
         Select, HandleStdin, HandleUdp, UdpBrokenPipe, Accept, FirstConnect, Reconnect,
         ReconnectBrokenPipe, Refuse, ExitLine, SubscribeLine, UnsubscribeLine,
         EndOfStream, ServerEnds, Publish, Operator

\* Who is registered under the empty id never leaves it, and every other id
\* that is registered is the id of a process.
LEMMA NextIdent ==
  ASSUME IInv, DeliveryInv, EmptyInv, IdentInv, [Next]_vars
  PROVE  (EmptyInv /\ IdentInv)'
<1>1. IInv' /\ \A p \in Procs : ident'[p] \in {EmptyId, IdOf[p]}
  BY NextInv, IdentKept
<1>2. EmptyId \in Ids
  BY BrokerAssumption
<1>3. Known(EmptyId) => clients[EmptyId].fd \in ClientFds
  BY <1>2 DEF Known, IInv, TypeOK, ServerTypeOK, Client
<1> SUFFICES /\ Known(EmptyId)' => \E f \in ClientFds : f = clients'[EmptyId].fd /\ Carries(f, EmptyId)'
             /\ \A c \in Ids \ {EmptyId} : Known(c)' => \E p \in Procs : IdOf[p] = c
  BY <1>1 DEF EmptyInv, IdentInv, Carries, Watched
<1>4. CASE \/ Select \/ HandleUdp \/ Accept \/ Refuse
           \/ SubscribeLine \/ UnsubscribeLine \/ UNCHANGED vars
           \/ SubscriberStep \/ OutsideStep
  <2>1. /\ \A c \in Ids, f \in ClientFds : Carries(f, c)' <=> Carries(f, c)
        /\ \A c \in Ids : clients'[c].fd = clients[c].fd
    BY <1>1, <1>4, QuietCarries
  <2>2. \A c \in Ids : Known(c)' <=> Known(c)
    BY <2>1 DEF Known
  <2> QED
    BY <1>2, <1>3, <2>1, <2>2 DEF EmptyInv, IdentInv
<1>5. CASE FirstConnect \/ Reconnect
  <2>1. PICK p \in Procs, id \in Ids :
          /\ ReceivesId(p, id) /\ Register(p, id) /\ UNCHANGED <<ident, conn>>
          /\ ~Known(id) \/ Away(id)
    BY <1>5 DEF FirstConnect, Reconnect, clientVars
  <2>2. /\ newsockfd \in ClientFds /\ \A f \in ClientFds : f = newsockfd => Carries(f, id)'
        /\ clients'[id].fd = newsockfd /\ ident[p] = id
        /\ \A d \in Ids \ {id} : /\ clients'[d] = clients[d]
                                 /\ \A f \in ClientFds : Carries(f, d)' <=> Carries(f, d)
    BY <1>1, <2>1, RegisterCarries
  <2>3. \A d \in Ids \ {id} : Known(d)' <=> Known(d)
    BY <2>2 DEF Known
  <2>4. id # EmptyId => IdOf[p] = id
    BY <2>2 DEF IdentInv
  <2> QED
    BY <1>2, <1>3, <2>2, <2>3, <2>4 DEF EmptyInv, IdentInv
<1>6. CASE ExitLine
  <2>1. PICK i \in ClientFds, line \in Lines :
          /\ ReceivesLine(i, line) /\ conn' = [conn EXCEPT ![i] = NoProc]
          /\ read_fds' = read_fds \ {i} /\ clients' = RecordLeft(i) /\ UNCHANGED ident
    BY <1>6 DEF ExitLine, clientVars
  <2>2. PICK c \in Ids \ {EmptyId} :
          /\ Carries(i, c)
          /\ \A d \in Ids, f \in ClientFds : Carries(f, d)' <=> Carries(f, d) /\ f # i
    <3>1. /\ Carries(i, IdOf[conn[i]]) /\ IdOf[conn[i]] \in Ids \ {EmptyId}
          /\ \A d \in Ids, f \in ClientFds : Carries(f, d)' <=> Carries(f, d) /\ f # i
      BY <2>1, ExitCarries
    <3> QED
      BY <3>1
  <2>3. \A d \in Ids : clients'[d].fd = clients[d].fd
    BY <2>1 DEF RecordLeft, IInv, TypeOK, ServerTypeOK, Client
  <2>4. \A d \in Ids : Known(d)' <=> Known(d)
    BY <2>3 DEF Known
  <2>5. \A f \in ClientFds : Carries(f, EmptyId) => f # i
    BY <2>2 DEF Carries
  <2> QED
    BY <1>2, <1>3, <2>2, <2>3, <2>4, <2>5 DEF EmptyInv, IdentInv
<1>7. CASE HandleStdin \/ UdpBrokenPipe \/ ReconnectBrokenPipe \/ EndOfStream
  <2>1. \A c \in Ids : ~Known(c)'
    BY <1>7 DEF HandleStdin, UdpBrokenPipe, ReconnectBrokenPipe, EndOfStream, ServerEnds,
                Known, NoClient
  <2> QED
    BY <1>2, <2>1
<1> QED
  BY <1>4, <1>5, <1>6, <1>7 DEF Next, ServerStep, Halted

\* With one id, the empty one apart, no two records name one descriptor.
LEMMA OneIdOwns ==
  ASSUME IInv, EmptyInv, IdentInv, \A p, q \in Procs : IdOf[p] = IdOf[q]
  PROVE  OwnDescriptor
<1> SUFFICES ASSUME NEW f \in ClientFds, NEW c \in Ids \ {EmptyId}, Carries(f, c),
                    NEW d \in Ids \ {c}, clients[d].fd = f
             PROVE  FALSE
  BY DEF OwnDescriptor
<1>1. Known(d) /\ conn[f] \in Procs /\ ident[conn[f]] = c /\ IdOf[conn[f]] = c
  BY DEF Known, Carries, IdentInv, IInv, TypeOK, NetTypeOK
<1>2. CASE d = EmptyId
  BY <1>1, <1>2 DEF EmptyInv, Carries
<1>3. CASE d # EmptyId
  <2>1. PICK p \in Procs : IdOf[p] = d
    BY <1>1, <1>3 DEF IdentInv
  <2> QED
    BY <1>1, <2>1
<1> QED
  BY <1>2, <1>3

\* Clients of one id: no record of another id can have kept the descriptor of
\* a connection (server.cpp, lines 255-267).
THEOREM OwnDescriptorOneId ==
  ASSUME \A p, q \in Procs : IdOf[p] = IdOf[q]
  PROVE  Spec => []OwnDescriptor
<1>1. Init => EmptyInv /\ IdentInv
  BY BrokerAssumption DEF Init, NetInit, ServerInit, EmptyInv, IdentInv, Known, NoClient
<1>2. IInv /\ DeliveryInv /\ EmptyInv /\ IdentInv /\ [Next]_vars => (EmptyInv /\ IdentInv)'
  BY NextIdent
<1>3. IInv /\ EmptyInv /\ IdentInv => OwnDescriptor
  BY OneIdOwns
<1> QED
  BY <1>1, <1>2, <1>3, Delivery, PTL DEF Spec

\* Clients of one id, however many processes use it and whatever their order
\* of coming and going: a client that has left can come back.
THEOREM NoGhostsOneId ==
  ASSUME \A p, q \in Procs : IdOf[p] = IdOf[q]
  PROVE  Spec => []NoGhosts
BY OwnDescriptorOneId, NoGhostsWhileOwn, PTL

\* ... and the broker does what StoreForward promises.
THEOREM RefinementOneId ==
  ASSUME \A p, q \in Procs : IdOf[p] = IdOf[q]
  PROVE  Spec => ImplementsStoreForward
BY OwnDescriptorOneId, Refinement, PTL

==============================================================================
