---------------------------- MODULE BrokerProofs -----------------------------
(* Proofs about Broker, for every set of ids, processes and topics.         *)
EXTENDS Broker, FiniteSetTheorems, SequenceTheorems, TLAPS

USE DEF EmptyId, NoFd, STDIN_FILENO, sockfd_udp, sockfd_tcp, ClientFds

\* The initial state satisfies the inductive invariant.
LEMMA InitInv == Init => IInv
<1> SUFFICES ASSUME Init PROVE IInv
  OBVIOUS
<1> USE DEF Init, NetInit, ServerInit
<1>1. NetTypeOK
  BY BrokerAssumption DEF NetTypeOK
<1>2. ServerTypeOK
  BY BrokerAssumption DEF ServerTypeOK, NoClient, Client
<1>3. OpenFds = {} /\ Watched = {}
  BY DEF OpenFds, Watched
<1>4. PassInv /\ PlaceInv /\ IdInv
  BY <1>3 DEF PassInv, PlaceInv, IdInv
<1>5. WatchedFds /\ TmpFdsServable
  BY <1>3 DEF WatchedFds, TmpFdsServable
<1>6. \A c \in Ids : ~Live(c)
  BY <1>3 DEF Live, Carries
<1>7. OneConnectionPerId /\ CopiesAgree /\ SendsOnlyToOpen /\ StoreInv
  BY <1>3, <1>6
     DEF OneConnectionPerId, Carries, CopiesAgree, SendsOnlyToOpen, StoreInv,
         NoClient
<1> QED
  BY <1>1, <1>2, <1>4, <1>5, <1>7 DEF IInv, TypeOK

-----------------------------------------------------------------------------
(* Facts about the helpers. *)

\* What reaches the peers is a sequence of messages for each of them.
LEMMA ReceivedType ==
  ASSUME NetTypeOK, NEW ms \in [Procs -> Seq(1..MaxMsg)]
  PROVE  Received(ms) \in [Procs -> Seq(1..MaxMsg)]
<1>1. ASSUME NEW p \in Procs
      PROVE  s2c[p] \in Seq(1..MaxMsg) /\ s2c[p] \o ms[p] \in Seq(1..MaxMsg)
  BY ConcatProperties DEF NetTypeOK
<1> QED
  BY <1>1 DEF Received

\* The copies of a message, one per entry that is served.
LEMMA CopiesForType ==
  ASSUME TypeOK, NEW key \in Keys, NEW n \in 1..MaxMsg, NEW ids \in SUBSET Ids
  PROVE  CopiesFor(key, n, ids) \in [Procs -> Seq(1..MaxMsg)]
<1> SUFFICES ASSUME NEW p \in Procs
             PROVE  [j \in 1..Cardinality(SentOn(key, p) \cap ids) |-> n]
                      \in Seq(1..MaxMsg)
  BY DEF CopiesFor
<1>1. IsFiniteSet(SentOn(key, p) \cap ids)
  BY BrokerAssumption, FS_Subset DEF SentOn
<1>2. Cardinality(SentOn(key, p) \cap ids) \in Nat
  BY <1>1, FS_CardinalityType
<1> DEFINE s == [j \in 1..Cardinality(SentOn(key, p) \cap ids) |-> n]
<1>3. s \in [1..Cardinality(SentOn(key, p) \cap ids) -> 1..MaxMsg]
  OBVIOUS
<1> HIDE DEF s
<1>4. s \in Seq(1..MaxMsg)
  BY <1>2, <1>3, SeqDef
<1> QED
  BY <1>4 DEF s

\* The first entry with a descriptor: it has it, and there is at most one.
LEMMA FirstWithUnique ==
  ASSUME NEW map \in [Ids -> Client], NEW f,
         NEW c \in FirstWith(map, f), NEW d \in FirstWith(map, f)
  PROVE  c = d /\ map[c].fd = f
  BY BrokerAssumption DEF FirstWith

\* The end of the server leaves a state that satisfies the invariant.
LEMMA ServerEndsInv ==
  ASSUME IInv, NEW how \in {"stopped", "die", "sigsegv", "sigpipe"},
         ServerEnds(how), s2c' \in [Procs -> Seq(1..MaxMsg)]
  PROVE  IInv'
<1> USE DEF ServerEnds, clientVars
<1>1. NetTypeOK'
  BY BrokerAssumption DEF NetTypeOK, IInv, TypeOK
<1>2. ServerTypeOK'
  BY BrokerAssumption DEF ServerTypeOK, NoClient, Client
<1>3. OpenFds' = {} /\ Watched' = {}
  BY DEF OpenFds, Watched
<1>4. PassInv' /\ PlaceInv' /\ IdInv'
  BY <1>3 DEF PassInv, PlaceInv, IdInv
<1>5. WatchedFds' /\ TmpFdsServable'
  BY <1>3 DEF WatchedFds, TmpFdsServable
<1>6. \A c \in Ids : ~Live(c)'
  BY <1>3 DEF Live, Carries
<1>7. OneConnectionPerId' /\ CopiesAgree' /\ SendsOnlyToOpen' /\ StoreInv'
  BY <1>3, <1>6
     DEF OneConnectionPerId, Carries, CopiesAgree, SendsOnlyToOpen, StoreInv,
         NoClient
<1> QED
  BY <1>1, <1>2, <1>4, <1>5, <1>7 DEF IInv, TypeOK

-----------------------------------------------------------------------------
(* The server's steps. *)

\* A pass starts with descriptors that are watched and readable.
LEMMA SelectInv ==
  ASSUME IInv, Select
  PROVE  IInv'
<1> USE DEF IInv, Select, netVars, clientVars
<1>1. TypeOK'
  BY DEF TypeOK, NetTypeOK, ServerTypeOK, ReadyFds
<1>2. Watched' = Watched /\ OpenFds' = OpenFds
  BY DEF Watched, OpenFds
<1>3. PassInv' /\ PlaceInv' /\ IdInv'
  BY <1>2 DEF PassInv, PlaceInv, IdInv, ReadyFds
<1>4. WatchedFds'
  BY <1>2 DEF WatchedFds
<1>5. TmpFdsServable'
  BY <1>2 DEF TmpFdsServable, ReadyFds, Readable, HasInput
<1>6. \A c \in Ids : \A f : Carries(f, c)' <=> Carries(f, c)
  BY <1>2 DEF Carries
<1>7. OneConnectionPerId' /\ CopiesAgree' /\ SendsOnlyToOpen' /\ StoreInv'
  BY <1>2, <1>6
     DEF OneConnectionPerId, CopiesAgree, SendsOnlyToOpen, StoreInv, Live, Known
<1> QED
  BY <1>1, <1>3, <1>4, <1>5, <1>7

\* The datagram that is served is there: recvfrom does not block.
LEMMA DatagramType ==
  ASSUME IInv, Serving(sockfd_udp)
  PROVE  /\ Head(udp) \in Datagrams
         /\ Tail(udp) \in Seq(Datagrams)
         /\ Key(Head(udp).topic) \in Keys
         /\ Head(udp).n \in 1..MaxMsg
<1>1. udp # <<>>
  BY DEF IInv, TmpFdsServable, Serving, Readable, OpenFds
<1>2. udp \in Seq(Datagrams)
  BY DEF IInv, TypeOK, NetTypeOK
<1>3. Head(udp) \in Datagrams /\ Tail(udp) \in Seq(Datagrams)
  BY <1>1, <1>2, HeadTailProperties
<1> QED
  BY <1>3 DEF Datagrams, Keys, Key

\* A datagram changes no descriptor, and is held only for entries that are away.
LEMMA HandleUdpInv ==
  ASSUME IInv, HandleUdp
  PROVE  IInv'
<1> DEFINE key == Key(Head(udp).topic)
           n == Head(udp).n
<1> USE DEF IInv, HandleUdp, clientVars
<1>1. key \in Keys /\ n \in 1..MaxMsg /\ Tail(udp) \in Seq(Datagrams)
  BY DatagramType
<1>2. s2c' \in [Procs -> Seq(1..MaxMsg)] /\ reset' \subseteq Procs
  BY <1>1, ReceivedType, CopiesForType DEF SendAll, TypeOK, NetTypeOK
<1>3. msg_holder' \in [Ids -> Seq(1..MaxMsg)]
  <2>1. \A c \in Ids : /\ msg_holder[c] \in Seq(1..MaxMsg)
                       /\ Append(msg_holder[c], n) \in Seq(1..MaxMsg)
    BY <1>1, AppendProperties DEF TypeOK, ServerTypeOK
  <2> QED
    BY <2>1 DEF Holding
<1>4. TypeOK'
  BY <1>1, <1>2, <1>3 DEF TypeOK, NetTypeOK, ServerTypeOK
<1>5. Watched' = Watched /\ OpenFds' = OpenFds
  BY DEF Watched, OpenFds
<1>6. PassInv' /\ PlaceInv' /\ IdInv' /\ WatchedFds'
  BY <1>5 DEF PassInv, PlaceInv, IdInv, WatchedFds
<1>7. TmpFdsServable'
  BY <1>5 DEF TmpFdsServable, Readable, HasInput
<1>8. \A c \in Ids : \A f : Carries(f, c)' <=> Carries(f, c)
  BY <1>5 DEF Carries
<1>9. OneConnectionPerId' /\ CopiesAgree' /\ SendsOnlyToOpen'
  BY <1>5, <1>8 DEF OneConnectionPerId, CopiesAgree, SendsOnlyToOpen, Live
<1>10. StoreInv'
  <2> SUFFICES ASSUME NEW c \in Ids, msg_holder'[c] # <<>>
               PROVE  Known(c)' /\ ~Live(c)'
    BY DEF StoreInv
  <2>1. Known(c)' <=> Known(c)
    BY DEF Known
  <2>2. Live(c)' <=> Live(c)
    BY <1>8 DEF Live
  <2>3. CASE msg_holder[c] # <<>>
    BY <2>1, <2>2, <2>3 DEF StoreInv
  <2>4. CASE msg_holder[c] = <<>>
    <3>1. c \in Held(key)
      BY <2>4 DEF Holding
    <3>2. Known(c) /\ ~Live(c)
      BY <1>1, <3>1 DEF Held, CopiesAgree, Known
    <3> QED
      BY <2>1, <2>2, <3>2
  <2> QED
    BY <2>3, <2>4
<1> QED
  BY <1>4, <1>6, <1>7, <1>9, <1>10

\* The server killed by a send to a subscriber that is gone (line 156).
LEMMA UdpBrokenPipeInv ==
  ASSUME IInv, UdpBrokenPipe
  PROVE  IInv'
<1> DEFINE key == Key(Head(udp).topic)
           n == Head(udp).n
<1>1. key \in Keys /\ n \in 1..MaxMsg
  BY DatagramType DEF UdpBrokenPipe
<1>2. PICK c \in Ids : s2c' = Received(CopiesFor(key, n, {d \in Ids : d < c}))
  BY DEF UdpBrokenPipe, SentOn
<1>3. CopiesFor(key, n, {d \in Ids : d < c}) \in [Procs -> Seq(1..MaxMsg)]
  BY <1>1, CopiesForType DEF IInv
<1>4. s2c' \in [Procs -> Seq(1..MaxMsg)]
  BY <1>2, <1>3, ReceivedType DEF IInv, TypeOK
<1> QED
  BY <1>4, ServerEndsInv DEF UdpBrokenPipe

\* The server ended by a line of the operator (lines 109-119).
LEMMA HandleStdinInv ==
  ASSUME IInv, HandleStdin
  PROVE  IInv'
<1>1. s2c' \in [Procs -> Seq(1..MaxMsg)]
  BY DEF HandleStdin, IInv, TypeOK, NetTypeOK
<1>2. CASE stdin = "exit"
  BY <1>1, <1>2, ServerEndsInv DEF HandleStdin
<1>3. CASE stdin # "exit"
  BY <1>1, <1>3, ServerEndsInv DEF HandleStdin
<1> QED
  BY <1>2, <1>3

\* The server ended by a client that closed without "exit" (lines 251-255).
LEMMA EndOfStreamInv ==
  ASSUME IInv, EndOfStream
  PROVE  IInv'
<1>1. s2c' \in [Procs -> Seq(1..MaxMsg)]
  BY DEF EndOfStream, IInv, TypeOK, NetTypeOK
<1>2. PICK how \in {"sigsegv", "die"} : ServerEnds(how)
  BY DEF EndOfStream
<1> QED
  BY <1>1, <1>2, ServerEndsInv

\* The server killed while it hands over held messages (line 217).
LEMMA ReconnectBrokenPipeInv ==
  ASSUME IInv, ReconnectBrokenPipe
  PROVE  IInv'
<1>1. s2c' \in [Procs -> Seq(1..MaxMsg)]
  BY DEF ReconnectBrokenPipe, IInv, TypeOK, NetTypeOK
<1> QED
  BY <1>1, ServerEndsInv DEF ReconnectBrokenPipe

\* accept has a connection to return, and gives it a descriptor nobody has.
LEMMA AcceptInv ==
  ASSUME IInv, Accept
  PROVE  IInv'
<1> USE DEF IInv, Accept, clientVars
<1>1. /\ backlog # <<>> /\ backlog \in Seq(Procs)
      /\ newsockfd = NoFd
  <2>1. backlog # <<>>
    BY BrokerAssumption DEF TmpFdsServable, Serving, Readable, OpenFds
  <2> QED
    BY <2>1 DEF Serving, TypeOK, NetTypeOK
<1>2. /\ Head(backlog) \in Procs /\ Head(backlog) = backlog[1]
      /\ Tail(backlog) \in Seq(Procs)
      /\ Len(Tail(backlog)) = Len(backlog) - 1
      /\ Len(backlog) \in Nat \ {0}
      /\ \A i \in 1..Len(Tail(backlog)) : Tail(backlog)[i] = backlog[i + 1]
  BY <1>1, HeadTailProperties, LenProperties, EmptySeq
<1>3. PICK f \in ClientFds : /\ LowestFree(f) /\ newsockfd' = f
                             /\ conn' = [conn EXCEPT ![f] = Head(backlog)]
  OBVIOUS
<1>4. TypeOK'
  BY <1>2, <1>3 DEF TypeOK, NetTypeOK, ServerTypeOK
<1>5. conn \in [ClientFds -> Procs \cup {NoProc}] /\ conn[f] = NoProc
  BY <1>3 DEF LowestFree, OpenFds, TypeOK, NetTypeOK
<1>6. Watched' = Watched /\ OpenFds' = OpenFds \cup {f} /\ f \notin Watched
  BY <1>1, <1>2, <1>3, <1>5, BrokerAssumption
     DEF Watched, OpenFds, WatchedFds
<1>7. PassInv'
  BY <1>3, <1>6 DEF PassInv
<1>8. PlaceInv'
  <2>1. \A g, h \in OpenFds' : conn'[g] = conn'[h] => g = h
    BY <1>2, <1>3, <1>5, <1>6 DEF PlaceInv, OpenFds
  <2>2. \A i, j \in 1..Len(backlog') : backlog'[i] = backlog'[j] => i = j
    BY <1>2 DEF PlaceInv
  <2>3. \A i \in 1..Len(backlog'), g \in ClientFds : conn'[g] # backlog'[i]
    BY <1>2, <1>3, <1>5 DEF PlaceInv
  <2> QED
    BY <2>1, <2>2, <2>3 DEF PlaceInv
<1>9. \A g \in Watched : conn'[g] = conn[g]
  BY <1>3, <1>5, <1>6 DEF Watched
<1>10. IdInv'
  BY <1>6, <1>9 DEF IdInv, OpenFds, Watched
<1>11. WatchedFds'
  <2>1. f \notin OpenFds /\ NoFd \notin OpenFds
    BY <1>5, BrokerAssumption DEF OpenFds
  <2> QED
    BY <1>1, <1>3, <1>6, <2>1 DEF WatchedFds
<1>12. TmpFdsServable'
  <2> SUFFICES ASSUME NEW g \in tmp_fds, g # sockfd_tcp
               PROVE  Readable(g)'
    BY DEF TmpFdsServable
  <2>1. Readable(g)
    BY DEF TmpFdsServable
  <2>2. g \in OpenFds => conn'[g] = conn[g]
    BY <1>3, <1>5 DEF OpenFds
  <2> QED
    BY <1>6, <2>1, <2>2 DEF Readable, HasInput
<1>13. \A c \in Ids : \A g : Carries(g, c)' <=> Carries(g, c)
  BY <1>6, <1>9 DEF Carries
<1>14. OneConnectionPerId' /\ CopiesAgree' /\ SendsOnlyToOpen' /\ StoreInv'
  BY <1>6, <1>13
     DEF OneConnectionPerId, CopiesAgree, SendsOnlyToOpen, StoreInv, Live, Known
<1> QED
  BY <1>4, <1>7, <1>8, <1>10, <1>11, <1>12, <1>14

\* The connection whose id has arrived: open, not yet watched, and no other
\* descriptor is p's.
LEMMA ReceivesIdFacts ==
  ASSUME IInv, NEW p \in Procs, NEW id \in Ids, ReceivesId(p, id)
  PROVE  /\ newsockfd \in OpenFds /\ newsockfd \in ClientFds
         /\ newsockfd \notin Watched /\ newsockfd \notin tmp_fds
         /\ newsockfd \notin read_fds
         /\ conn[newsockfd] = p /\ ident[p] = id
         /\ st[p] # "syn"
         /\ \A g \in OpenFds : conn[g] = p => g = newsockfd
         /\ \A i \in 1..Len(backlog) : backlog[i] # p
<1> USE DEF IInv
<1>1. newsockfd \in OpenFds /\ newsockfd \in ClientFds
  BY DEF ReceivesId, PassInv, OpenFds
<1>2. newsockfd \notin Watched /\ newsockfd \notin read_fds
  BY <1>1 DEF WatchedFds, Watched
<1>3. newsockfd \notin tmp_fds
  BY <1>2 DEF PassInv
<1>4. conn[newsockfd] = p /\ ident[p] = id
  BY DEF ReceivesId
<1>5. st[p] # "syn"
  BY DEF ReceivesId, HasInput, IdInv
<1>6. \A g \in OpenFds : conn[g] = p => g = newsockfd
  BY <1>1, <1>4 DEF PlaceInv
<1>7. \A i \in 1..Len(backlog) : backlog[i] # p
  BY <1>1, <1>4 DEF PlaceInv
<1> QED
  BY <1>1, <1>2, <1>3, <1>4, <1>5, <1>6, <1>7

\* Reading p's record leaves everybody else's channel alone.
LEMMA ReadType ==
  ASSUME NetTypeOK, NEW p \in Procs
  PROVE  [c2s EXCEPT ![p] = IF @ = <<>> THEN <<>> ELSE Tail(@)]
           \in [Procs -> Seq(Lines)]
<1>1. c2s[p] \in Seq(Lines)
  BY DEF NetTypeOK
<1>2. c2s[p] # <<>> => Tail(c2s[p]) \in Seq(Lines)
  BY <1>1, HeadTailProperties
<1> QED
  BY <1>2, EmptySeq DEF NetTypeOK

\* What the two ways to register a client have in common.
LEMMA RegisterInv ==
  ASSUME IInv, NEW p \in Procs, NEW id \in Ids,
         ReceivesId(p, id), Register(p, id), ~Live(id),
         UNCHANGED <<tmp_fds, clientVars, backlog, conn, udp, sent, stdin, status>>,
         reset' \subseteq Procs, s2c' \in [Procs -> Seq(1..MaxMsg)],
         topics_subs' \in [Keys -> [Ids -> Client]],
         msg_holder' \in [Ids -> Seq(1..MaxMsg)]
  PROVE  /\ TypeOK' /\ PassInv' /\ PlaceInv' /\ IdInv' /\ WatchedFds'
         /\ TmpFdsServable' /\ OneConnectionPerId'
         /\ Watched' = Watched \cup {newsockfd}
         /\ \A c \in Ids \ {id} : Live(c)' <=> Live(c)
<1> USE DEF IInv, clientVars, Register
<1>1. /\ newsockfd \in OpenFds /\ newsockfd \in ClientFds
      /\ newsockfd \notin Watched /\ newsockfd \notin tmp_fds
      /\ newsockfd \notin read_fds
      /\ conn[newsockfd] = p /\ ident[p] = id
      /\ st[p] # "syn"
      /\ \A g \in OpenFds : conn[g] = p => g = newsockfd
  BY ReceivesIdFacts
<1>2. newsockfd' = NoFd
  OBVIOUS
<1>3. TypeOK'
  <2>1. c2s' \in [Procs -> Seq(Lines)]
    BY ReadType DEF TypeOK
  <2>2. maxfd' \in {sockfd_tcp} \cup ClientFds
    BY <1>1 DEF NewMaxfd, TypeOK, ServerTypeOK
  <2>3. clients' \in [Ids -> Client]
    <3>1. clients \in [Ids -> Client] /\ clients[id] \in Client
      BY DEF TypeOK, ServerTypeOK
    <3>2. [clients[id] EXCEPT !.fd = newsockfd, !.connected = TRUE] \in Client
      BY <1>1, <3>1 DEF Client
    <3>3. clients' = [clients EXCEPT ![id] =
                       [clients[id] EXCEPT !.fd = newsockfd, !.connected = TRUE]]
      BY <3>1
    <3> QED
      BY <3>1, <3>2, <3>3
  <2>4. read_fds' \subseteq {STDIN_FILENO, sockfd_udp, sockfd_tcp} \cup ClientFds
    BY <1>1 DEF TypeOK, ServerTypeOK
  <2> QED
    BY <1>2, <2>1, <2>2, <2>3, <2>4 DEF TypeOK, NetTypeOK, ServerTypeOK
<1>4. Watched' = Watched \cup {newsockfd} /\ OpenFds' = OpenFds
  BY <1>1 DEF Watched, OpenFds
<1>5. PassInv' /\ PlaceInv'
  BY <1>2, <1>4 DEF PassInv, PlaceInv
<1>6. \A q \in Procs \ {p} : c2s'[q] = c2s[q]
  BY DEF TypeOK, NetTypeOK
<1>7. IdInv'
  BY <1>1, <1>4, <1>6 DEF IdInv
<1>8. WatchedFds'
  <2>1. Watched' = OpenFds'
    BY <1>1, <1>4 DEF WatchedFds
  <2>2. NoFd \notin OpenFds'
    BY BrokerAssumption DEF OpenFds
  <2>3. ASSUME NEW f \in read_fds' PROVE f <= maxfd'
    <3>1. maxfd \in Int /\ newsockfd \in Int
      BY <1>1, BrokerAssumption DEF TypeOK, ServerTypeOK
    <3>2. f \in read_fds => f \in Int /\ f <= maxfd
      BY BrokerAssumption DEF WatchedFds, TypeOK, ServerTypeOK
    <3> QED
      BY <3>1, <3>2 DEF NewMaxfd
  <2> QED
    BY <1>2, <2>1, <2>2, <2>3 DEF WatchedFds
<1>9. TmpFdsServable'
  <2> SUFFICES ASSUME NEW g \in tmp_fds PROVE Readable(g)'
    BY DEF TmpFdsServable
  <2>1. Readable(g) /\ g # newsockfd
    BY <1>1 DEF TmpFdsServable
  <2>2. g \in OpenFds => conn[g] # p /\ conn[g] \in Procs
    BY <1>1, <2>1 DEF OpenFds, TypeOK, NetTypeOK
  <2> QED
    BY <1>4, <1>6, <2>1, <2>2 DEF Readable, HasInput
<1>10. \A c \in Ids : \A g : Carries(g, c)' <=> Carries(g, c) \/ (g = newsockfd /\ c = id)
  BY <1>1, <1>4, BrokerAssumption DEF Carries, OpenFds
<1>11. OneConnectionPerId'
  <2> SUFFICES ASSUME NEW f \in Watched', NEW c \in Ids, Carries(f, c)'
               PROVE  clients'[c].fd = f /\ clients'[c].connected
    BY DEF OneConnectionPerId
  <2>1. CASE f = newsockfd /\ c = id
    BY <2>1 DEF TypeOK, ServerTypeOK, Client
  <2>2. CASE Carries(f, c)
    <3>1. c # id
      BY <2>2 DEF Live, Carries, Watched
    <3> QED
      BY <2>2, <3>1 DEF OneConnectionPerId, Carries, TypeOK, ServerTypeOK
  <2> QED
    BY <1>10, <2>1, <2>2
<1>12. \A c \in Ids \ {id} : Live(c)' <=> Live(c)
  BY <1>10 DEF Live
<1> QED
  BY <1>3, <1>4, <1>5, <1>7, <1>8, <1>9, <1>11, <1>12

\* An id the server has not seen has no entry under any topic.
LEMMA FirstConnectInv ==
  ASSUME IInv, FirstConnect
  PROVE  IInv'
<1> USE DEF IInv, clientVars
<1>1. PICK p \in Procs, id \in Ids :
        /\ ReceivesId(p, id) /\ ~Known(id) /\ Register(p, id)
        /\ UNCHANGED <<tmp_fds, topics_subs, msg_holder>>
        /\ UNCHANGED <<clientVars, s2c, reset, backlog, conn, udp, sent, stdin,
                       status>>
  BY DEF FirstConnect
<1>2. ~Live(id)
  BY <1>1, BrokerAssumption
     DEF Live, Carries, OneConnectionPerId, Known, Watched
<1>3. /\ TypeOK' /\ PassInv' /\ PlaceInv' /\ IdInv' /\ WatchedFds'
      /\ TmpFdsServable' /\ OneConnectionPerId'
      /\ Watched' = Watched \cup {newsockfd}
      /\ \A c \in Ids \ {id} : Live(c)' <=> Live(c)
  BY <1>1, <1>2, RegisterInv DEF TypeOK, NetTypeOK, ServerTypeOK
<1>4. \A c \in Ids \ {id} : clients'[c] = clients[c]
  BY <1>1 DEF Register, TypeOK, ServerTypeOK
<1>5. \A k \in Keys : topics_subs[k][id].fd = NoFd
  BY <1>1 DEF CopiesAgree, Known
<1>6. CopiesAgree'
  BY <1>1, <1>3, <1>4, <1>5 DEF CopiesAgree
<1>7. SendsOnlyToOpen'
  BY <1>1, <1>3 DEF SendsOnlyToOpen
<1>8. StoreInv'
  BY <1>1, <1>3, <1>4 DEF StoreInv, Known
<1> QED
  BY <1>3, <1>6, <1>7, <1>8

\* A client that is away has no connection; its entries and its record get
\* the new one together.
LEMMA ReconnectInv ==
  ASSUME IInv, Reconnect
  PROVE  IInv'
<1> USE DEF IInv, clientVars
<1>1. PICK p \in Procs, id \in Ids :
        /\ ReceivesId(p, id) /\ Known(id) /\ Away(id) /\ Register(p, id)
        /\ topics_subs' = Returned(id)
        /\ msg_holder' = [msg_holder EXCEPT ![id] = <<>>]
        /\ SendAll([q \in Procs |-> IF q = p THEN msg_holder[id] ELSE <<>>])
        /\ UNCHANGED tmp_fds
        /\ UNCHANGED <<clientVars, backlog, conn, udp, sent, stdin, status>>
  BY DEF Reconnect
<1>2. ~Live(id)
  BY <1>1 DEF Live, Carries, OneConnectionPerId, Away
<1>3. msg_holder' \in [Ids -> Seq(1..MaxMsg)]
  BY <1>1, EmptySeq DEF TypeOK, ServerTypeOK
<1>4. reset' \subseteq Procs /\ s2c' \in [Procs -> Seq(1..MaxMsg)]
  <2>1. [q \in Procs |-> IF q = p THEN msg_holder[id] ELSE <<>>]
          \in [Procs -> Seq(1..MaxMsg)]
    BY EmptySeq DEF TypeOK, ServerTypeOK
  <2> QED
    BY <1>1, <2>1, ReceivedType DEF SendAll, TypeOK, NetTypeOK
<1>5. newsockfd \in ClientFds /\ newsockfd # NoFd
  BY <1>1, ReceivesIdFacts DEF ReceivesId
<1>6. topics_subs' \in [Keys -> [Ids -> Client]]
  <2>1. ASSUME NEW k \in Keys, NEW c \in Ids
        PROVE  /\ topics_subs[k][c] \in Client
               /\ [topics_subs[k][c] EXCEPT !.fd = newsockfd,
                                            !.connected = TRUE] \in Client
    <3>1. topics_subs[k][c] \in Client
      BY DEF TypeOK, ServerTypeOK
    <3> QED
      BY <1>5, <3>1 DEF Client
  <2> QED
    BY <1>1, <2>1 DEF Returned
<1>7. /\ TypeOK' /\ PassInv' /\ PlaceInv' /\ IdInv' /\ WatchedFds'
      /\ TmpFdsServable' /\ OneConnectionPerId'
      /\ Watched' = Watched \cup {newsockfd}
      /\ \A c \in Ids \ {id} : Live(c)' <=> Live(c)
  BY <1>1, <1>2, <1>3, <1>4, <1>6, RegisterInv
<1>8. \A c \in Ids \ {id} : clients'[c] = clients[c]
  BY <1>1 DEF Register, TypeOK, ServerTypeOK
<1>9. clients'[id].fd = newsockfd /\ clients'[id].connected
  <2>1. clients[id] \in Client
    BY DEF TypeOK, ServerTypeOK
  <2> QED
    BY <1>1, <2>1 DEF Register, TypeOK, ServerTypeOK, Client
<1>10. \A k \in Keys, c \in Ids \ {id} : topics_subs'[k][c] = topics_subs[k][c]
  BY <1>1 DEF Returned
<1>11. \A k \in Keys :
         /\ topics_subs[k][id].fd = NoFd =>
              topics_subs'[k][id] = topics_subs[k][id]
         /\ topics_subs[k][id].fd # NoFd =>
              topics_subs'[k][id].fd = newsockfd /\ topics_subs'[k][id].connected
  <2> SUFFICES ASSUME NEW k \in Keys
               PROVE  /\ topics_subs[k][id].fd = NoFd =>
                           topics_subs'[k][id] = topics_subs[k][id]
                      /\ topics_subs[k][id].fd # NoFd =>
                           /\ topics_subs'[k][id].fd = newsockfd
                           /\ topics_subs'[k][id].connected
    OBVIOUS
  <2>1. topics_subs[k][id] \in Client
    BY DEF TypeOK, ServerTypeOK
  <2> QED
    BY <1>1, <2>1 DEF Returned, Client
<1>12. CopiesAgree'
  BY <1>7, <1>8, <1>9, <1>10, <1>11 DEF CopiesAgree
<1>13. SendsOnlyToOpen'
  BY <1>7, <1>10, <1>11 DEF SendsOnlyToOpen
<1>14. StoreInv'
  BY <1>1, <1>7, <1>8 DEF StoreInv, Known, TypeOK, ServerTypeOK
<1> QED
  BY <1>7, <1>12, <1>13, <1>14

\* The connection that is refused is not watched yet, and not in the pass.
LEMMA RefuseInv ==
  ASSUME IInv, Refuse
  PROVE  IInv'
<1> USE DEF IInv, clientVars
<1>1. PICK p \in Procs, id \in Ids :
        /\ ReceivesId(p, id)
        /\ conn' = [conn EXCEPT ![newsockfd] = NoProc]
        /\ c2s' = [c2s EXCEPT ![p] = <<>>]
        /\ reset' = reset \ {p}
        /\ newsockfd' = NoFd
        /\ UNCHANGED <<read_fds, tmp_fds, maxfd, clients, topics_subs, msg_holder>>
        /\ UNCHANGED <<clientVars, s2c, backlog, udp, sent, stdin, status>>
  BY DEF Refuse
<1>2. /\ newsockfd \in OpenFds /\ newsockfd \in ClientFds
      /\ newsockfd \notin Watched /\ newsockfd \notin tmp_fds
      /\ conn[newsockfd] = p /\ \A g \in OpenFds : conn[g] = p => g = newsockfd
  BY <1>1, ReceivesIdFacts
<1>3. TypeOK'
  BY <1>1, <1>2, EmptySeq DEF TypeOK, NetTypeOK, ServerTypeOK
<1>4. /\ Watched' = Watched /\ OpenFds' = OpenFds \ {newsockfd}
      /\ \A g \in ClientFds \ {newsockfd} : conn'[g] = conn[g]
      /\ \A q \in Procs \ {p} : c2s'[q] = c2s[q]
  BY <1>1, <1>2, BrokerAssumption DEF Watched, OpenFds, TypeOK, NetTypeOK
<1>5. PassInv'
  BY <1>1 DEF PassInv
<1>6. PlaceInv'
  <2>1. \A g \in OpenFds' : g \in OpenFds /\ conn'[g] = conn[g]
    BY <1>4 DEF OpenFds
  <2>2. conn'[newsockfd] = NoProc /\ \A i \in 1..Len(backlog) : backlog[i] \in Procs
    BY <1>1, <1>2 DEF TypeOK, NetTypeOK
  <2>3. \A i \in 1..Len(backlog), g \in ClientFds : conn'[g] # backlog[i]
    BY <1>4, <2>2, BrokerAssumption DEF PlaceInv
  <2> QED
    BY <1>1, <2>1, <2>3 DEF PlaceInv
<1>7. IdInv'
  BY <1>1, <1>2, <1>4 DEF IdInv, OpenFds, Watched
<1>8. WatchedFds'
  <2>1. NoFd \notin OpenFds
    BY BrokerAssumption DEF OpenFds
  <2> QED
    BY <1>1, <1>4, <2>1 DEF WatchedFds
<1>9. TmpFdsServable'
  <2> SUFFICES ASSUME NEW g \in tmp_fds PROVE Readable(g)'
    BY <1>1 DEF TmpFdsServable
  <2>1. Readable(g) /\ g # newsockfd
    BY <1>2 DEF TmpFdsServable
  <2>2. g \in OpenFds => /\ g \in OpenFds' /\ conn'[g] = conn[g]
                         /\ conn[g] # p /\ conn[g] \in Procs
    BY <1>2, <1>4, <2>1 DEF OpenFds, TypeOK, NetTypeOK
  <2> QED
    BY <1>1, <1>4, <2>1, <2>2 DEF Readable, HasInput
<1>10. \A c \in Ids : \A g : Carries(g, c)' <=> Carries(g, c)
  BY <1>1, <1>2, <1>4 DEF Carries, Watched
<1>11. OneConnectionPerId' /\ CopiesAgree' /\ SendsOnlyToOpen' /\ StoreInv'
  BY <1>1, <1>4, <1>10
     DEF OneConnectionPerId, CopiesAgree, SendsOnlyToOpen, StoreInv, Live, Known
<1> QED
  BY <1>3, <1>5, <1>6, <1>7, <1>8, <1>9, <1>11

\* The connection a line came on: watched, its process has sent its id, and
\* nobody else's descriptor is affected by reading from it.
LEMMA ReceivesLineFacts ==
  ASSUME IInv, NEW i \in ClientFds, NEW line \in Lines, ReceivesLine(i, line)
  PROVE  /\ i \in Watched /\ i \in OpenFds /\ i \in tmp_fds /\ newsockfd = NoFd
         /\ conn[i] \in Procs
         /\ \A g \in OpenFds \ {i} : conn[g] # conn[i]
         /\ c2s' \in [Procs -> Seq(Lines)]
         /\ \A q \in Procs \ {conn[i]} : c2s'[q] = c2s[q]
         /\ tmp_fds' = tmp_fds \ {i}
<1> USE DEF IInv
<1>1. i \in OpenFds /\ conn[i] \in Procs
  BY DEF ReceivesLine, OpenFds, TypeOK, NetTypeOK
<1>2. i \in tmp_fds /\ i \in Watched /\ newsockfd = NoFd
  BY DEF ReceivesLine, Serving, PassInv, Watched
<1>3. \A g \in OpenFds \ {i} : conn[g] # conn[i]
  BY <1>1 DEF PlaceInv
<1>4. Tail(c2s[conn[i]]) \in Seq(Lines)
  BY <1>1, HeadTailProperties DEF ReceivesLine, TypeOK, NetTypeOK
<1>5. /\ c2s' \in [Procs -> Seq(Lines)]
      /\ \A q \in Procs \ {conn[i]} : c2s'[q] = c2s[q]
  BY <1>1, <1>4 DEF ReceivesLine, TypeOK, NetTypeOK
<1> QED
  BY <1>1, <1>2, <1>3, <1>5 DEF ReceivesLine

\* What the steps that read a line and keep the connection have in common.
LEMMA LineInv ==
  ASSUME IInv, NEW i \in ClientFds, NEW line \in Lines, ReceivesLine(i, line),
         UNCHANGED <<read_fds, maxfd, newsockfd, msg_holder>>,
         UNCHANGED <<clientVars, s2c, reset, backlog, conn, udp, sent, stdin,
                     status>>
  PROVE  /\ NetTypeOK' /\ PassInv' /\ PlaceInv' /\ IdInv' /\ WatchedFds'
         /\ TmpFdsServable' /\ Watched' = Watched /\ OpenFds' = OpenFds
         /\ \A c \in Ids : \A g : Carries(g, c)' <=> Carries(g, c)
<1> USE DEF IInv, clientVars
<1>1. /\ i \in Watched /\ i \in OpenFds /\ i \in tmp_fds /\ newsockfd = NoFd
      /\ conn[i] \in Procs
      /\ \A g \in OpenFds \ {i} : conn[g] # conn[i]
      /\ c2s' \in [Procs -> Seq(Lines)]
      /\ \A q \in Procs \ {conn[i]} : c2s'[q] = c2s[q]
      /\ tmp_fds' = tmp_fds \ {i}
  BY ReceivesLineFacts
<1>2. NetTypeOK'
  BY <1>1 DEF TypeOK, NetTypeOK
<1>3. Watched' = Watched /\ OpenFds' = OpenFds
  BY DEF Watched, OpenFds
<1>4. PassInv' /\ PlaceInv' /\ WatchedFds'
  BY <1>1, <1>3 DEF PassInv, PlaceInv, WatchedFds
<1>5. IdInv'
  BY <1>1, <1>3 DEF IdInv
<1>6. TmpFdsServable'
  <2> SUFFICES ASSUME NEW g \in tmp_fds \ {i} PROVE Readable(g)'
    BY <1>1 DEF TmpFdsServable
  <2>1. Readable(g)
    BY DEF TmpFdsServable
  <2>2. g \in OpenFds => conn[g] # conn[i] /\ conn[g] \in Procs
    BY <1>1 DEF OpenFds, TypeOK, NetTypeOK
  <2> QED
    BY <1>1, <1>3, <2>1, <2>2 DEF Readable, HasInput
<1>7. \A c \in Ids : \A g : Carries(g, c)' <=> Carries(g, c)
  BY <1>3 DEF Carries
<1> QED
  BY <1>2, <1>3, <1>4, <1>5, <1>6, <1>7

\* A new entry is a copy of a record, with the descriptor the line came on.
LEMMA SubscribeLineInv ==
  ASSUME IInv, SubscribeLine
  PROVE  IInv'
<1> USE DEF IInv
<1>1. PICK i \in ClientFds, line \in Lines :
        /\ ReceivesLine(i, line) /\ line.op = "subscribe"
        /\ clients' = [c \in Ids |-> IF c \in FirstWith(clients, i)
                                     THEN [clients[c] EXCEPT !.sf = line.sf]
                                     ELSE clients[c]]
        /\ topics_subs' =
             [topics_subs EXCEPT ![Key(line.topic)] =
               [c \in Ids |->
                 IF /\ c \in FirstWith(clients, i)
                    /\ topics_subs[Key(line.topic)][c].fd = NoFd
                   THEN [clients[c] EXCEPT !.sf = line.sf]
                   ELSE topics_subs[Key(line.topic)][c]]]
        /\ UNCHANGED <<read_fds, maxfd, newsockfd, msg_holder>>
        /\ UNCHANGED <<clientVars, s2c, reset, backlog, conn, udp, sent, stdin,
                       status>>
  BY DEF SubscribeLine
<1> DEFINE key == Key(line.topic)
<1>2. /\ NetTypeOK' /\ PassInv' /\ PlaceInv' /\ IdInv' /\ WatchedFds'
      /\ TmpFdsServable' /\ Watched' = Watched /\ OpenFds' = OpenFds
      /\ \A c \in Ids : \A g : Carries(g, c)' <=> Carries(g, c)
  BY <1>1, LineInv
<1>3. i \in Watched /\ tmp_fds' = tmp_fds \ {i}
  BY <1>1, ReceivesLineFacts
<1>4. line.sf \in BOOLEAN /\ key \in Keys
  BY <1>1 DEF Lines, Key, Keys
<1>5. ASSUME NEW c \in Ids
      PROVE  /\ clients[c] \in Client /\ topics_subs[key][c] \in Client
             /\ [clients[c] EXCEPT !.sf = line.sf] \in Client
             /\ [clients[c] EXCEPT !.sf = line.sf].fd = clients[c].fd
             /\ [clients[c] EXCEPT !.sf = line.sf].connected = clients[c].connected
  <2>1. clients[c] \in Client /\ topics_subs[key][c] \in Client
    BY <1>4 DEF TypeOK, ServerTypeOK
  <2> QED
    BY <1>4, <2>1 DEF Client
<1>6. TypeOK'
  <2>1. clients' \in [Ids -> Client]
    BY <1>1, <1>5
  <2>2. topics_subs' \in [Keys -> [Ids -> Client]]
    BY <1>1, <1>4, <1>5 DEF TypeOK, ServerTypeOK
  <2> QED
    BY <1>1, <1>2, <1>3, <2>1, <2>2 DEF TypeOK, ServerTypeOK
<1>7. \A c \in Ids : /\ clients'[c].fd = clients[c].fd
                     /\ clients'[c].connected = clients[c].connected
  BY <1>1, <1>5
<1>8. \A k \in Keys, c \in Ids :
        \/ topics_subs'[k][c] = topics_subs[k][c]
        \/ /\ c \in FirstWith(clients, i)
           /\ topics_subs'[k][c].fd = clients[c].fd
           /\ topics_subs'[k][c].connected = clients[c].connected
  BY <1>1, <1>4, <1>5 DEF TypeOK, ServerTypeOK
<1>9. OneConnectionPerId'
  BY <1>2, <1>7 DEF OneConnectionPerId
<1>10. \A c \in Ids : Live(c)' <=> Live(c)
  BY <1>2 DEF Live
<1>11. \A c \in Ids : Live(c) => clients[c].connected
  BY DEF Live, OneConnectionPerId, Carries
<1>12. CopiesAgree'
  <2> SUFFICES ASSUME NEW k \in Keys, NEW c \in Ids, topics_subs'[k][c].fd # NoFd
               PROVE  /\ topics_subs'[k][c].fd = clients'[c].fd
                      /\ topics_subs'[k][c].connected => clients'[c].connected
                      /\ Live(c)' => topics_subs'[k][c].connected
    BY DEF CopiesAgree
  <2> QED
    BY <1>7, <1>8, <1>10, <1>11 DEF CopiesAgree
<1>13. SendsOnlyToOpen'
  BY <1>2, <1>3, <1>8, FirstWithUnique DEF SendsOnlyToOpen, FirstWith
<1>14. StoreInv'
  BY <1>1, <1>7, <1>10 DEF StoreInv, Known
<1> QED
  BY <1>2, <1>6, <1>9, <1>12, <1>13, <1>14

\* Taking an entry away leaves the other entries, and every record, as they are.
LEMMA UnsubscribeLineInv ==
  ASSUME IInv, UnsubscribeLine
  PROVE  IInv'
<1> USE DEF IInv
<1>1. PICK i \in ClientFds, line \in Lines :
        /\ ReceivesLine(i, line) /\ line.op = "unsubscribe"
        /\ topics_subs' =
             [topics_subs EXCEPT ![<<line.topic, line.eol>>] =
               [c \in Ids |->
                 IF c \in FirstWith(topics_subs[<<line.topic, line.eol>>], i)
                   THEN NoClient
                   ELSE topics_subs[<<line.topic, line.eol>>][c]]]
        /\ UNCHANGED <<read_fds, maxfd, newsockfd, clients, msg_holder>>
        /\ UNCHANGED <<clientVars, s2c, reset, backlog, conn, udp, sent, stdin,
                       status>>
  BY DEF UnsubscribeLine
<1>2. /\ NetTypeOK' /\ PassInv' /\ PlaceInv' /\ IdInv' /\ WatchedFds'
      /\ TmpFdsServable' /\ Watched' = Watched /\ OpenFds' = OpenFds
      /\ \A c \in Ids : \A g : Carries(g, c)' <=> Carries(g, c)
  BY <1>1, LineInv
<1>3. tmp_fds' = tmp_fds \ {i}
  BY <1>1, ReceivesLineFacts
<1>4. NoClient \in Client /\ NoClient.fd = NoFd /\ ~NoClient.connected
  BY DEF NoClient, Client
<1>5. topics_subs' \in [Keys -> [Ids -> Client]]
  BY <1>1, <1>4 DEF TypeOK, ServerTypeOK
<1>6. TypeOK'
  BY <1>1, <1>2, <1>3, <1>5 DEF TypeOK, ServerTypeOK
<1>7. \A k \in Keys, c \in Ids : \/ topics_subs'[k][c] = topics_subs[k][c]
                                 \/ topics_subs'[k][c] = NoClient
  BY <1>1 DEF TypeOK, ServerTypeOK
<1>8. OneConnectionPerId' /\ CopiesAgree' /\ SendsOnlyToOpen' /\ StoreInv'
  BY <1>1, <1>2, <1>4, <1>7
     DEF OneConnectionPerId, CopiesAgree, SendsOnlyToOpen, StoreInv, Live, Known
<1> QED
  BY <1>2, <1>6, <1>8

\* Closing a descriptor: the records and the entries that name it belong to
\* the client that leaves or to clients that are away.
LEMMA ExitLineInv ==
  ASSUME IInv, ExitLine
  PROVE  IInv'
<1> USE DEF IInv, clientVars
<1>1. PICK i \in ClientFds, line \in Lines :
        /\ ReceivesLine(i, line)
        /\ conn' = [conn EXCEPT ![i] = NoProc]
        /\ reset' = reset \ {conn[i]}
        /\ read_fds' = read_fds \ {i}
        /\ clients' = RecordLeft(i)
        /\ topics_subs' = Departed(i)
        /\ UNCHANGED <<maxfd, newsockfd, msg_holder>>
        /\ UNCHANGED <<clientVars, s2c, backlog, udp, sent, stdin, status>>
  BY DEF ExitLine
<1>2. /\ i \in Watched /\ i \in OpenFds /\ newsockfd = NoFd
      /\ conn[i] \in Procs
      /\ \A g \in OpenFds \ {i} : conn[g] # conn[i]
      /\ c2s' \in [Procs -> Seq(Lines)]
      /\ \A q \in Procs \ {conn[i]} : c2s'[q] = c2s[q]
      /\ tmp_fds' = tmp_fds \ {i}
  BY <1>1, ReceivesLineFacts
<1>3. ASSUME NEW c \in Ids
      PROVE  /\ clients[c] \in Client /\ clients'[c] \in Client
             /\ clients'[c].fd = clients[c].fd
             /\ clients'[c].connected =>
                  clients[c].connected /\ clients'[c] = clients[c]
             /\ clients[c].fd # i => clients'[c] = clients[c]
  <2>1. clients[c] \in Client
    BY DEF TypeOK, ServerTypeOK
  <2>2. clients[c].fd # i => c \notin FirstWith(clients, i)
    BY DEF FirstWith
  <2> QED
    BY <1>1, <2>1, <2>2 DEF RecordLeft, Client
<1>4. ASSUME NEW k \in Keys, NEW c \in Ids
      PROVE  /\ topics_subs'[k][c] \in Client
             /\ topics_subs'[k][c].fd = topics_subs[k][c].fd
             /\ topics_subs'[k][c].connected <=>
                  topics_subs[k][c].connected /\ topics_subs[k][c].fd # i
  <2>1. topics_subs[k][c] \in Client
    BY DEF TypeOK, ServerTypeOK
  <2> QED
    BY <1>1, <2>1 DEF Departed, Client
<1>5. TypeOK'
  <2>1. clients' \in [Ids -> Client]
    BY <1>1, <1>3 DEF RecordLeft
  <2>2. topics_subs' \in [Keys -> [Ids -> Client]]
    BY <1>1, <1>4 DEF Departed
  <2> QED
    BY <1>1, <1>2, <2>1, <2>2 DEF TypeOK, NetTypeOK, ServerTypeOK
<1>6. /\ Watched' = Watched \ {i} /\ OpenFds' = OpenFds \ {i}
      /\ \A g \in ClientFds \ {i} : conn'[g] = conn[g]
      /\ conn'[i] = NoProc
  BY <1>1, <1>2, BrokerAssumption DEF Watched, OpenFds, TypeOK, NetTypeOK
<1>7. PassInv'
  BY <1>1, <1>2 DEF PassInv
<1>8. PlaceInv'
  <2>1. \A g \in OpenFds' : g \in OpenFds /\ conn'[g] = conn[g]
    BY <1>6 DEF OpenFds
  <2>2. \A j \in 1..Len(backlog) : backlog[j] \in Procs
    BY DEF TypeOK, NetTypeOK
  <2>3. \A j \in 1..Len(backlog), g \in ClientFds : conn'[g] # backlog[j]
    BY <1>6, <2>2, BrokerAssumption DEF PlaceInv
  <2> QED
    BY <1>1, <2>1, <2>3 DEF PlaceInv
<1>9. IdInv'
  <2>1. \A p \in Procs : st[p] = "syn" => c2s'[p] = <<>>
    BY <1>2 DEF IdInv
  <2> QED
    BY <1>1, <1>6, <2>1 DEF IdInv, OpenFds
<1>10. WatchedFds'
  BY <1>1, <1>2, <1>6 DEF WatchedFds
<1>11. TmpFdsServable'
  <2> SUFFICES ASSUME NEW g \in tmp_fds \ {i} PROVE Readable(g)'
    BY <1>2 DEF TmpFdsServable
  <2>1. Readable(g)
    BY DEF TmpFdsServable
  <2>2. g \in OpenFds => /\ g \in OpenFds' /\ conn'[g] = conn[g]
                         /\ conn[g] # conn[i] /\ conn[g] \in Procs
    BY <1>2, <1>6 DEF OpenFds, TypeOK, NetTypeOK
  <2> QED
    BY <1>1, <1>2, <2>1, <2>2 DEF Readable, HasInput
<1>12. \A c \in Ids : \A g : Carries(g, c)' <=> Carries(g, c) /\ g # i
  BY <1>1, <1>6 DEF Carries, Watched
<1>13. \A c \in Ids : Live(c)' => Live(c) /\ clients[c].fd # i
  BY <1>12 DEF Live, OneConnectionPerId, Carries
<1>14. OneConnectionPerId'
  BY <1>3, <1>12 DEF OneConnectionPerId, Carries
<1>15. CopiesAgree'
  <2> SUFFICES ASSUME NEW k \in Keys, NEW c \in Ids, topics_subs'[k][c].fd # NoFd
               PROVE  /\ topics_subs'[k][c].fd = clients'[c].fd
                      /\ topics_subs'[k][c].connected => clients'[c].connected
                      /\ Live(c)' => topics_subs'[k][c].connected
    BY DEF CopiesAgree
  <2>1. /\ topics_subs[k][c].fd = clients[c].fd
        /\ topics_subs[k][c].connected => clients[c].connected
        /\ Live(c) => topics_subs[k][c].connected
    BY <1>4 DEF CopiesAgree
  <2> QED
    BY <1>3, <1>4, <1>13, <2>1
<1>16. SendsOnlyToOpen'
  BY <1>4, <1>6 DEF SendsOnlyToOpen
<1>17. StoreInv'
  BY <1>1, <1>3, <1>13 DEF StoreInv, Known
<1> QED
  BY <1>5, <1>7, <1>8, <1>9, <1>10, <1>11, <1>14, <1>15, <1>16, <1>17

\* Every step of the server.
LEMMA ServerStepInv ==
  ASSUME IInv, ServerStep
  PROVE  IInv'
  BY SelectInv, HandleStdinInv, HandleUdpInv, UdpBrokenPipeInv, AcceptInv,
     FirstConnectInv, ReconnectInv, ReconnectBrokenPipeInv, RefuseInv,
     ExitLineInv, SubscribeLineInv, UnsubscribeLineInv, EndOfStreamInv
     DEF ServerStep

-----------------------------------------------------------------------------
(* The steps of the subscribers, the publishers and the operator. *)

\* A step that changes no descriptor and no id of an open connection keeps
\* everything the invariant says of the server.
LEMMA OutsideInv ==
  ASSUME IInv, UNCHANGED serverVars, conn' = conn,
         \A p \in Procs : Open(p) => ident'[p] = ident[p] \/ st[p] = "syn",
         NetTypeOK', PlaceInv', IdInv', TmpFdsServable'
  PROVE  IInv'
<1> USE DEF IInv, serverVars
<1>1. TypeOK'
  BY DEF TypeOK, ServerTypeOK
<1>2. Watched' = Watched /\ OpenFds' = OpenFds
  BY DEF Watched, OpenFds
<1>3. PassInv' /\ WatchedFds'
  BY <1>2 DEF PassInv, WatchedFds
<1>4. ASSUME NEW f \in Watched \cap OpenFds
      PROVE  ident'[conn[f]] = ident[conn[f]]
  BY DEF IdInv, Open, OpenFds, TypeOK, NetTypeOK
<1>5. \A c \in Ids : \A f : Carries(f, c)' <=> Carries(f, c)
  BY <1>2, <1>4 DEF Carries, OpenFds, Watched
<1>6. OneConnectionPerId' /\ CopiesAgree' /\ SendsOnlyToOpen' /\ StoreInv'
  BY <1>2, <1>5
     DEF OneConnectionPerId, CopiesAgree, SendsOnlyToOpen, StoreInv, Live, Known
<1> QED
  BY <1>1, <1>3, <1>6

\* A record sent into a connection keeps it readable.
LEMMA SendsFacts ==
  ASSUME IInv, NEW p \in Procs, NEW line \in Lines, Sends(p, line)
  PROVE  /\ c2s' \in [Procs -> Seq(Lines)]
         /\ \A q \in Procs \ {p} : c2s'[q] = c2s[q]
         /\ c2s[p] # <<>> => c2s'[p] # <<>>
<1>1. c2s \in [Procs -> Seq(Lines)]
  BY DEF IInv, TypeOK, NetTypeOK
<1>2. Append(c2s[p], line) \in Seq(Lines) /\ Append(c2s[p], line) # <<>>
  BY <1>1, AppendProperties
<1> QED
  BY <1>1, <1>2 DEF Sends

\* A new connection is in the backlog and nowhere else.
LEMMA StartInv ==
  ASSUME IInv, NEW p \in Procs, Start(p), UNCHANGED serverVars
  PROVE  IInv'
<1> USE DEF IInv, Start
<1>1. /\ Append(backlog, p) \in Seq(Procs)
      /\ Len(Append(backlog, p)) = Len(backlog) + 1 /\ Len(backlog) \in Nat
      /\ \A i \in 1..Len(backlog) : Append(backlog, p)[i] = backlog[i]
      /\ Append(backlog, p)[Len(backlog) + 1] = p
  BY AppendProperties, LenProperties DEF TypeOK, NetTypeOK
<1>2. NetTypeOK'
  BY <1>1, BrokerAssumption, EmptySeq DEF TypeOK, NetTypeOK
<1>3. /\ \A i \in 1..Len(backlog) : backlog[i] # p
      /\ \A f \in ClientFds : conn[f] # p
  BY DEF Open, Queued
<1>4. PlaceInv'
  <2>1. \A f, g \in OpenFds' : conn'[f] = conn'[g] => f = g
    BY DEF PlaceInv, OpenFds
  <2>2. \A i \in 1..Len(backlog') :
          \/ i \in 1..Len(backlog) /\ backlog'[i] = backlog[i]
          \/ i = Len(backlog) + 1 /\ backlog'[i] = p
    BY <1>1
  <2> QED
    BY <1>3, <2>1, <2>2 DEF PlaceInv
<1>5. \A q \in Procs \ {p} : st'[q] = st[q] /\ ident'[q] = ident[q] /\ c2s'[q] = c2s[q]
  BY DEF TypeOK, NetTypeOK
<1>6. IdInv'
  BY <1>3, <1>5 DEF IdInv, Watched, OpenFds, TypeOK, NetTypeOK, serverVars
<1>7. TmpFdsServable'
  <2> SUFFICES ASSUME NEW f \in tmp_fds PROVE Readable(f)'
    BY DEF TmpFdsServable, serverVars
  <2>1. Readable(f)
    BY DEF TmpFdsServable
  <2>2. f \in OpenFds => conn[f] \in Procs \ {p}
    BY <1>3 DEF OpenFds, TypeOK, NetTypeOK
  <2>3. backlog' # <<>>
    BY <1>1, EmptySeq
  <2> QED
    BY <1>5, <2>1, <2>2, <2>3 DEF Readable, HasInput, OpenFds
<1>8. ~Open(p)
  OBVIOUS
<1> QED
  BY <1>2, <1>4, <1>5, <1>6, <1>7, <1>8, OutsideInv

\* The id is sent before anything serves the connection.
LEMMA SendIdInv ==
  ASSUME IInv, NEW p \in Procs, SendId(p), UNCHANGED serverVars
  PROVE  IInv'
<1> USE DEF IInv, SendId
<1> DEFINE line == [op |-> "id"]
<1>1. line \in Lines
  BY DEF Lines
<1>2. /\ c2s' \in [Procs -> Seq(Lines)]
      /\ \A q \in Procs \ {p} : c2s'[q] = c2s[q]
      /\ c2s[p] # <<>> => c2s'[p] # <<>>
  BY <1>1, SendsFacts
<1>3. \A q \in Procs \ {p} : st'[q] = st[q] /\ ident'[q] = ident[q]
  BY DEF TypeOK, NetTypeOK
<1>4. NetTypeOK' /\ st'[p] = "up"
  BY <1>2, BrokerAssumption DEF TypeOK, NetTypeOK
<1>5. PlaceInv'
  BY DEF PlaceInv, OpenFds
<1>6. IdInv'
  BY <1>2, <1>3, <1>4 DEF IdInv, Watched, OpenFds, TypeOK, NetTypeOK, serverVars
<1>7. TmpFdsServable'
  <2> SUFFICES ASSUME NEW f \in tmp_fds PROVE Readable(f)'
    BY DEF TmpFdsServable, serverVars
  <2>1. Readable(f)
    BY DEF TmpFdsServable
  <2>2. ASSUME f \in OpenFds, HasInput(conn[f]) PROVE HasInput(conn[f])'
    <3>1. conn[f] \in Procs /\ (st[conn[f]] = "down" => conn[f] # p)
      BY <2>2 DEF OpenFds, TypeOK, NetTypeOK
    <3> QED
      BY <1>2, <1>3, <2>2, <3>1 DEF HasInput
  <2> QED
    BY <2>1, <2>2 DEF Readable, HasInput, OpenFds
<1> QED
  BY <1>3, <1>4, <1>5, <1>6, <1>7, OutsideInv

\* A typed line only adds to what can be read.
LEMMA TypeLineInv ==
  ASSUME IInv, NEW p \in Procs, TypeLine(p), UNCHANGED serverVars
  PROVE  IInv'
<1> USE DEF IInv, TypeLine
<1>1. PICK line \in Lines : Sends(p, line)
  OBVIOUS
<1>2. /\ c2s' \in [Procs -> Seq(Lines)]
      /\ \A q \in Procs \ {p} : c2s'[q] = c2s[q]
      /\ c2s[p] # <<>> => c2s'[p] # <<>>
  BY <1>1, SendsFacts
<1>3. NetTypeOK'
  BY <1>2 DEF TypeOK, NetTypeOK
<1>4. PlaceInv' /\ IdInv'
  BY <1>2 DEF PlaceInv, IdInv, Watched, OpenFds, serverVars
<1>5. TmpFdsServable'
  BY <1>2
     DEF TmpFdsServable, Readable, HasInput, OpenFds, serverVars, TypeOK, NetTypeOK
<1> QED
  BY <1>3, <1>4, <1>5, OutsideInv

\* The end of a process leaves its connection readable: the end of the
\* stream is there.
LEMMA EndsFacts ==
  ASSUME IInv, NEW p \in Procs, Ends(p), st[p] # "down",
         c2s' \in [Procs -> Seq(Lines)],
         \A q \in Procs \ {p} : c2s'[q] = c2s[q],
         UNCHANGED <<serverVars, ident, backlog, conn, udp, sent, stdin, status,
                     seen>>
  PROVE  IInv'
<1> USE DEF IInv, Ends
<1>1. NetTypeOK'
  BY EmptySeq DEF TypeOK, NetTypeOK
<1>2. st'[p] = "down" /\ \A q \in Procs \ {p} : st'[q] = st[q]
  BY DEF TypeOK, NetTypeOK
<1>3. PlaceInv'
  BY DEF PlaceInv, OpenFds
<1>4. IdInv'
  BY <1>2 DEF IdInv, Watched, OpenFds, TypeOK, NetTypeOK, serverVars
<1>5. TmpFdsServable'
  <2> SUFFICES ASSUME NEW f \in tmp_fds PROVE Readable(f)'
    BY DEF TmpFdsServable, serverVars
  <2>1. Readable(f)
    BY DEF TmpFdsServable
  <2>2. ASSUME f \in OpenFds, HasInput(conn[f]) PROVE HasInput(conn[f])'
    <3>1. conn[f] \in Procs
      BY <2>2 DEF OpenFds, TypeOK, NetTypeOK
    <3> QED
      BY <1>2, <2>2, <3>1 DEF HasInput
  <2> QED
    BY <2>1, <2>2 DEF Readable, HasInput, OpenFds
<1> QED
  BY <1>1, <1>3, <1>4, <1>5, OutsideInv

\* A client that exits leaves its connection readable.
LEMMA ExitInv ==
  ASSUME IInv, NEW p \in Procs, Exit(p), UNCHANGED serverVars
  PROVE  IInv'
<1>1. [op |-> "exit"] \in Lines
  BY DEF Lines
<1>2. /\ c2s' \in [Procs -> Seq(Lines)]
      /\ \A q \in Procs \ {p} : c2s'[q] = c2s[q]
  BY <1>1, SendsFacts DEF Exit
<1> QED
  BY <1>2, EndsFacts DEF Exit

\* So does one that is killed.
LEMMA KillInv ==
  ASSUME IInv, NEW p \in Procs, Kill(p) \/ Broken(p), UNCHANGED serverVars
  PROVE  IInv'
<1>1. c2s' \in [Procs -> Seq(Lines)] /\ c2s' = c2s /\ st[p] # "down" /\ Ends(p)
  BY DEF Kill, Broken, IInv, TypeOK, NetTypeOK
<1> QED
  BY <1>1, EndsFacts DEF Kill, Broken

\* Printing a message is no business of the server.
LEMMA RecvInv ==
  ASSUME IInv, NEW p \in Procs, Recv(p), UNCHANGED serverVars
  PROVE  IInv'
<1> USE DEF IInv, Recv
<1>1. Head(s2c[p]) \in 1..MaxMsg /\ Tail(s2c[p]) \in Seq(1..MaxMsg)
  BY HeadTailProperties DEF TypeOK, NetTypeOK
<1>2. NetTypeOK'
  <2>1. Head(s2c[p]) \in 0..MaxMsg /\ ident[p] \in Ids
    BY <1>1, BrokerAssumption DEF TypeOK, NetTypeOK
  <2> QED
    BY <1>1, <2>1 DEF TypeOK, NetTypeOK
<1>3. PlaceInv' /\ IdInv'
  BY DEF PlaceInv, IdInv, Watched, OpenFds, serverVars
<1>4. TmpFdsServable'
  BY DEF TmpFdsServable, Readable, HasInput, OpenFds, serverVars
<1> QED
  BY <1>2, <1>3, <1>4, OutsideInv

\* Its connection is closed: nothing at the server is about p.
LEMMA RecvEofInv ==
  ASSUME IInv, NEW p \in Procs, RecvEof(p), UNCHANGED serverVars
  PROVE  IInv'
<1> USE DEF IInv, RecvEof
<1>1. NetTypeOK' /\ \A q \in Procs \ {p} : st'[q] = st[q]
  BY DEF TypeOK, NetTypeOK
<1>2. st'[p] = "down"
  BY DEF TypeOK, NetTypeOK
<1>3. PlaceInv' /\ IdInv'
  BY <1>1, <1>2
     DEF PlaceInv, IdInv, Watched, OpenFds, serverVars, TypeOK, NetTypeOK
<1>4. TmpFdsServable'
  <2> SUFFICES ASSUME NEW f \in tmp_fds PROVE Readable(f)'
    BY DEF TmpFdsServable, serverVars
  <2>1. Readable(f)
    BY DEF TmpFdsServable
  <2>2. f \in OpenFds => conn[f] \in Procs \ {p}
    BY DEF OpenFds, Open, TypeOK, NetTypeOK
  <2> QED
    BY <1>1, <2>1, <2>2 DEF Readable, HasInput, OpenFds
<1> QED
  BY <1>1, <1>3, <1>4, OutsideInv

\* A datagram that arrives makes the UDP socket readable and changes nothing else.
LEMMA PublishInv ==
  ASSUME IInv, NEW t \in Topics, Publish(t), UNCHANGED serverVars
  PROVE  IInv'
<1> USE DEF IInv, Publish
<1>1. sent + 1 \in 1..MaxMsg /\ sent + 1 \in 0..MaxMsg
  BY BrokerAssumption DEF TypeOK, NetTypeOK
<1>2. PICK d \in Datagrams : udp' = Append(udp, d)
  BY <1>1 DEF Datagrams
<1>3. udp' \in Seq(Datagrams) /\ udp' # <<>>
  <2>1. udp \in Seq(Datagrams)
    BY DEF TypeOK, NetTypeOK
  <2> HIDE DEF IInv, Publish
  <2> QED
    BY <1>2, <2>1, AppendProperties
<1>4. NetTypeOK'
  BY <1>1, <1>3 DEF TypeOK, NetTypeOK
<1>5. PlaceInv' /\ IdInv'
  BY DEF PlaceInv, IdInv, Watched, OpenFds, serverVars
<1>6. TmpFdsServable'
  BY <1>3 DEF TmpFdsServable, Readable, HasInput, OpenFds, serverVars
<1> QED
  BY <1>4, <1>5, <1>6, OutsideInv

\* So does a line typed at the server, for standard input.
LEMMA OperatorInv ==
  ASSUME IInv, NEW line \in StdinLines, Operator(line), UNCHANGED serverVars
  PROVE  IInv'
<1> USE DEF IInv, Operator
<1>1. NetTypeOK'
  BY BrokerAssumption DEF TypeOK, NetTypeOK
<1>2. PlaceInv' /\ IdInv'
  BY DEF PlaceInv, IdInv, Watched, OpenFds, serverVars
<1>3. TmpFdsServable'
  BY BrokerAssumption
     DEF TmpFdsServable, Readable, HasInput, OpenFds, serverVars
<1> QED
  BY <1>1, <1>2, <1>3, OutsideInv

\* A step that changes nothing, the halted system's included.
LEMMA StutterInv ==
  ASSUME IInv, UNCHANGED vars
  PROVE  IInv'
<1> USE DEF IInv, vars, netVars, clientVars
<1>1. NetTypeOK' /\ PlaceInv' /\ IdInv'
  BY DEF TypeOK, NetTypeOK, PlaceInv, IdInv, Watched, OpenFds, serverVars
<1>2. TmpFdsServable'
  BY DEF TmpFdsServable, Readable, HasInput, OpenFds, serverVars
<1> QED
  BY <1>1, <1>2, OutsideInv

-----------------------------------------------------------------------------
(* The theorems. *)

\* Every step of the system preserves the inductive invariant.
LEMMA NextInv ==
  ASSUME IInv, [Next]_vars
  PROVE  IInv'
<1>1. CASE ServerStep
  BY <1>1, ServerStepInv
<1>2. CASE SubscriberStep
  BY <1>2, StartInv, SendIdInv, TypeLineInv, ExitInv, KillInv, RecvInv,
     RecvEofInv DEF SubscriberStep
<1>3. CASE OutsideStep
  BY <1>3, PublishInv, OperatorInv DEF OutsideStep
<1>4. CASE Halted \/ UNCHANGED vars
  BY <1>4, StutterInv DEF Halted
<1> QED
  BY <1>1, <1>2, <1>3, <1>4 DEF Next

\* The inductive invariant holds in every reachable state, for all ids,
\* processes, topics and bounds.
THEOREM Invariance == Spec => []IInv
<1> QED
  BY InitInv, NextInv, PTL DEF Spec

\* Every variable keeps its type: in particular recvfrom and accept are only
\* called when there is something to return, and maxfd is a descriptor.
THEOREM TypeCorrect == Spec => []TypeOK
<1>1. IInv => TypeOK
  BY DEF IInv
<1> QED
  BY <1>1, Invariance, PTL

\* The server watches exactly the connections it has open and registered
\* (FD_SET, FD_CLR and maxfd in lines 193-196, 231-234 and 257-258).
THEOREM WatchedFdsCorrect == Spec => []WatchedFds
<1>1. IInv => WatchedFds
  BY DEF IInv
<1> QED
  BY <1>1, Invariance, PTL

\* No recv of a pass blocks: what select reported before the pass (line 104)
\* is still readable when the loop of line 107 gets there.
THEOREM PassNeverBlocks == Spec => []TmpFdsServable
<1>1. IInv => TmpFdsServable
  BY DEF IInv
<1> QED
  BY <1>1, Invariance, PTL

\* No two connections are served under one id (lines 189-228).
THEOREM NoTwoConnections == Spec => []OneConnectionPerId
<1>1. IInv => OneConnectionPerId
  BY DEF IInv
<1> QED
  BY <1>1, Invariance, PTL

\* The copies of a client's record under the topics agree with the record in
\* clients (lines 201-209, 269-275, 303-306).
THEOREM CopiesCoherent == Spec => []CopiesAgree
<1>1. IInv => CopiesAgree
  BY DEF IInv
<1> QED
  BY <1>1, Invariance, PTL

\* The send of line 156 is never called on a descriptor that has been closed
\* or that waits for its id.
THEOREM SendsOnlyToOpenFds == Spec => []SendsOnlyToOpen
<1>1. IInv => SendsOnlyToOpen
  BY DEF IInv
<1> QED
  BY <1>1, Invariance, PTL

\* Messages are held only for clients that are away (lines 155-163, 213-219).
THEOREM HeldOnlyWhileAway == Spec => []StoreOnlyOffline
<1>1. IInv => StoreOnlyOffline
  BY DEF IInv, StoreInv, StoreOnlyOffline
<1> QED
  BY <1>1, Invariance, PTL

\* The entries a line changes are those of an id that has the descriptor the
\* line came on, in its record or in its copy, which agree.
LEMMA LineOwnsEntries ==
  ASSUME IInv, NEW i \in ClientFds, NEW line \in Lines, ReceivesLine(i, line),
         SubscribeLine \/ UnsubscribeLine \/ ExitLine,
         NEW f \in tmp_fds \ tmp_fds', conn'[f] = conn[f],
         NEW d \in Ids, clients[d].fd # f, NEW k \in Keys
  PROVE  topics_subs'[k][d] = topics_subs[k][d]
<1> USE DEF IInv
<1>1. /\ clients \in [Ids -> Client]
      /\ topics_subs \in [Keys -> [Ids -> Client]]
      /\ conn \in [ClientFds -> Procs \cup {NoProc}]
  BY DEF TypeOK, NetTypeOK, ServerTypeOK
<1>2. CASE SubscribeLine
  <2>1. PICK j \in ClientFds, l \in Lines :
          /\ ReceivesLine(j, l)
          /\ topics_subs' =
               [topics_subs EXCEPT ![Key(l.topic)] =
                 [c \in Ids |->
                   IF c \in FirstWith(clients, j)
                        /\ topics_subs[Key(l.topic)][c].fd = NoFd
                     THEN [clients[c] EXCEPT !.sf = l.sf]
                     ELSE topics_subs[Key(l.topic)][c]]]
    BY <1>2 DEF SubscribeLine
  <2>2. f = j /\ d \notin FirstWith(clients, j)
    BY <2>1 DEF ReceivesLine, FirstWith
  <2> QED
    BY <1>1, <2>1, <2>2
<1>3. CASE UnsubscribeLine
  <2>1. PICK j \in ClientFds, l \in Lines :
          /\ ReceivesLine(j, l)
          /\ topics_subs' =
               [topics_subs EXCEPT ![<<l.topic, l.eol>>] =
                 [c \in Ids |->
                   IF c \in FirstWith(topics_subs[<<l.topic, l.eol>>], j)
                     THEN NoClient
                     ELSE topics_subs[<<l.topic, l.eol>>][c]]]
    BY <1>3 DEF UnsubscribeLine
  <2>2. f = j /\ f # NoFd
    BY <2>1, BrokerAssumption DEF ReceivesLine, NoFd, ClientFds
  <2>3. topics_subs[k][d].fd # f
    BY <2>2 DEF CopiesAgree
  <2>4. k = <<l.topic, l.eol>>
          => d \notin FirstWith(topics_subs[<<l.topic, l.eol>>], j)
    BY <2>2, <2>3 DEF FirstWith
  <2> QED
    BY <1>1, <2>1, <2>4
<1>4. CASE ExitLine
  <2>1. PICK j \in ClientFds, l \in Lines :
          /\ ReceivesLine(j, l)
          /\ conn' = [conn EXCEPT ![j] = NoProc]
    BY <1>4 DEF ExitLine
  <2>2. f = j /\ conn[j] # NoProc
    BY <2>1 DEF ReceivesLine
  <2> QED
    BY <1>1, <2>1, <2>2
<1> QED
  BY <1>2, <1>3, <1>4

\* Only a line takes a client's descriptor out of the pass and leaves its
\* connection as it is.
LEMMA OnlyLinesServe ==
  ASSUME IInv, [Next]_vars, NEW f \in ClientFds, f \in Watched,
         f \in tmp_fds \ tmp_fds', conn'[f] = conn[f]
  PROVE  SubscribeLine \/ UnsubscribeLine \/ ExitLine
<1> USE DEF IInv
<1>1. f \in OpenFds /\ conn[f] # NoProc
  BY DEF WatchedFds, OpenFds
<1>2. f # sockfd_udp /\ f # sockfd_tcp
  BY BrokerAssumption DEF ClientFds, sockfd_udp, sockfd_tcp
<1>3. ServerStep
  BY DEF Next, SubscriberStep, OutsideStep, Halted, vars, serverVars
<1>4. ~\E how \in {"stopped", "die", "sigsegv", "sigpipe"} : ServerEnds(how)
  BY <1>1 DEF ServerEnds
<1>5. ~HandleStdin /\ ~UdpBrokenPipe /\ ~ReconnectBrokenPipe /\ ~EndOfStream
  BY <1>4 DEF HandleStdin, UdpBrokenPipe, ReconnectBrokenPipe, EndOfStream
<1>6. ~Select /\ ~HandleUdp /\ ~Accept
  BY <1>2 DEF Select, HandleUdp, Accept
<1>7. ~FirstConnect /\ ~Reconnect /\ ~Refuse
  BY DEF FirstConnect, Reconnect, Refuse
<1> QED
  BY <1>3, <1>5, <1>6, <1>7 DEF ServerStep

\* A line changes the subscriptions of the client that sent it and of nobody
\* else, when no other record has its descriptor (lines 285-320).
THEOREM LinesChangeOwnEntries == Spec => OwnSubscriptions
<1>1. ASSUME IInv, [Next]_vars
      PROVE  [\A f \in ClientFds, c \in Ids :
                /\ Carries(f, c)
                /\ \A d \in Ids \ {c} : clients[d].fd # f
                /\ f \in tmp_fds \ tmp_fds' /\ conn'[f] = conn[f]
                => \A d \in Ids \ {c}, k \in Keys :
                     topics_subs'[k][d] = topics_subs[k][d]]_vars
  <2> SUFFICES ASSUME NEW f \in ClientFds, NEW c \in Ids, Carries(f, c),
                      f \in tmp_fds \ tmp_fds', conn'[f] = conn[f],
                      NEW d \in Ids \ {c}, clients[d].fd # f, NEW k \in Keys
               PROVE  topics_subs'[k][d] = topics_subs[k][d]
    OBVIOUS
  <2>1. SubscribeLine \/ UnsubscribeLine \/ ExitLine
    BY <1>1, OnlyLinesServe DEF Carries
  <2>2. \E i \in ClientFds, line \in Lines : ReceivesLine(i, line)
    BY <2>1 DEF SubscribeLine, UnsubscribeLine, ExitLine
  <2> QED
    BY <1>1, <2>1, <2>2, LineOwnsEntries
<1> QED
  BY <1>1, Invariance, PTL DEF Spec, OwnSubscriptions
==============================================================================
