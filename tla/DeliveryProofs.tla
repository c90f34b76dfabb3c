---------------------------- MODULE DeliveryProofs ----------------------------
(* Proofs about Broker, continued from BrokerProofs: the order in which     *)
(* messages reach a client.                                                 *)
EXTENDS BrokerProofs

USE DEF EmptyId, NoFd, STDIN_FILENO, sockfd_udp, sockfd_tcp, ClientFds

-----------------------------------------------------------------------------
(* Sequences of message numbers. *)

\* The elements of a concatenation are those of its parts.
LEMMA ConcatElement ==
  ASSUME NEW s \in Seq(Nat), NEW t \in Seq(Nat), NEW i \in 1..Len(s \o t)
  PROVE  \/ i \in 1..Len(s) /\ (s \o t)[i] = s[i]
         \/ i - Len(s) \in 1..Len(t) /\ (s \o t)[i] = t[i - Len(s)]
<1>1. /\ Len(s) \in Nat /\ Len(t) \in Nat /\ Len(s \o t) = Len(s) + Len(t)
      /\ (s \o t)[i] = IF i <= Len(s) THEN s[i] ELSE t[i - Len(s)]
  BY ConcatProperties, LenProperties
<1> QED
  BY <1>1

\* Two ascending sequences, one before the other, make an ascending one.
LEMMA ConcatAscends ==
  ASSUME NEW s \in Seq(Nat), NEW t \in Seq(Nat),
         Ascending(s), Ascending(t), Precedes(s, t)
  PROVE  Ascending(s \o t)
<1> SUFFICES ASSUME NEW i \in 1..Len(s \o t), NEW j \in 1..Len(s \o t), i <= j
             PROVE  (s \o t)[i] <= (s \o t)[j]
  BY DEF Ascending
<1>1. /\ Len(s) \in Nat /\ Len(t) \in Nat /\ Len(s \o t) = Len(s) + Len(t)
  BY ConcatProperties, LenProperties
<1>2. CASE j <= Len(s)
  <2>1. (s \o t)[i] = s[i] /\ (s \o t)[j] = s[j]
    BY <1>1, <1>2, ConcatProperties
  <2> QED
    BY <1>1, <1>2, <2>1 DEF Ascending
<1>3. CASE i > Len(s)
  <2>1. (s \o t)[i] = t[i - Len(s)] /\ (s \o t)[j] = t[j - Len(s)]
    BY <1>1, <1>3, ConcatProperties
  <2>2. i - Len(s) \in 1..Len(t) /\ j - Len(s) \in 1..Len(t)
    BY <1>1, <1>3
  <2> QED
    BY <1>1, <2>1, <2>2 DEF Ascending
<1>4. CASE i <= Len(s) /\ j > Len(s)
  <2>1. (s \o t)[i] = s[i] /\ (s \o t)[j] = t[j - Len(s)]
    BY <1>1, <1>4, ConcatProperties
  <2> QED
    BY <1>1, <1>4, <2>1 DEF Precedes
<1> QED
  BY <1>1, <1>2, <1>3, <1>4

\* Neighbours in an ascending sequence.
LEMMA AscendingSorted ==
  ASSUME NEW s \in Seq(Nat), Ascending(s)
  PROVE  Sorted(s)
<1>1. Len(s) \in Nat
  BY LenProperties
<1> QED
  BY <1>1 DEF Ascending, Sorted

\* What one more message leaves of an ascending sequence.
LEMMA AppendAscends ==
  ASSUME NEW s \in Seq(Nat), NEW n \in Nat, Ascending(s), UpTo(s, n)
  PROVE  /\ Ascending(Append(s, n))
         /\ \A i \in 1..Len(Append(s, n)) :
              \/ i \in 1..Len(s) /\ Append(s, n)[i] = s[i]
              \/ Append(s, n)[i] = n
<1>1. /\ Len(s) \in Nat /\ Len(Append(s, n)) = Len(s) + 1
      /\ \A i \in 1..Len(s) : Append(s, n)[i] = s[i]
      /\ Append(s, n)[Len(s) + 1] = n
  BY AppendProperties, LenProperties
<1>2. \A i \in 1..Len(Append(s, n)) :
        \/ i \in 1..Len(s) /\ Append(s, n)[i] = s[i]
        \/ i = Len(s) + 1 /\ Append(s, n)[i] = n
  BY <1>1
<1>3. Ascending(Append(s, n))
  <2> SUFFICES ASSUME NEW i \in 1..Len(Append(s, n)),
                      NEW j \in 1..Len(Append(s, n)), i <= j
               PROVE  Append(s, n)[i] <= Append(s, n)[j]
    BY DEF Ascending
  <2> HIDE DEF Ascending
  <2>1. CASE j \in 1..Len(s)
    <3>1. i \in 1..Len(s)
      BY <1>1, <2>1
    <3> QED
      BY <1>1, <2>1, <3>1 DEF Ascending
  <2>2. CASE j = Len(s) + 1
    BY <1>1, <1>2, <2>2 DEF UpTo
  <2> QED
    BY <1>2, <2>1, <2>2
<1> QED
  BY <1>2, <1>3

\* What is left of an ascending sequence without its first element.
LEMMA TailAscends ==
  ASSUME NEW s \in Seq(Nat), s # <<>>, Ascending(s)
  PROVE  /\ Tail(s) \in Seq(Nat) /\ Head(s) \in Nat /\ Head(s) = s[1] /\ 1 \in 1..Len(s)
         /\ Ascending(Tail(s))
         /\ \A i \in 1..Len(Tail(s)) :
              i + 1 \in 1..Len(s) /\ Tail(s)[i] = s[i + 1] /\ Head(s) <= Tail(s)[i]
<1>1. /\ Len(s) \in Nat \ {0} /\ Len(Tail(s)) = Len(s) - 1 /\ Tail(s) \in Seq(Nat)
      /\ Head(s) = s[1] /\ Head(s) \in Nat
      /\ \A i \in 1..Len(Tail(s)) : Tail(s)[i] = s[i + 1]
  BY HeadTailProperties, LenProperties, EmptySeq
<1> QED
  BY <1>1 DEF Ascending

-----------------------------------------------------------------------------
(* What is sent. *)

\* What is on p's connection after a send is what was, and what was sent.
LEMMA ReceivedOrder ==
  ASSUME NetTypeOK, NEW ms \in [Procs -> Seq(1..MaxMsg)], NEW p \in Procs,
         Ascending(s2c[p]), Ascending(ms[p]), Precedes(s2c[p], ms[p])
  PROVE  /\ Ascending(Received(ms)[p])
         /\ Received(ms)[p] # <<>> =>
              s2c[p] # <<>> \/ (st[p] # "down" /\ ms[p] # <<>>)
         /\ \A i \in 1..Len(Received(ms)[p]) :
              \/ \E j \in 1..Len(s2c[p]) : Received(ms)[p][i] = s2c[p][j]
              \/ /\ st[p] # "down"
                 /\ \E j \in 1..Len(ms[p]) : Received(ms)[p][i] = ms[p][j]
<1>1. s2c[p] \in Seq(Nat) /\ ms[p] \in Seq(Nat)
  BY BrokerAssumption, SeqMonotonic DEF NetTypeOK
<1>2. CASE st[p] = "down"
  <2>1. Received(ms)[p] = s2c[p]
    BY <1>2 DEF Received
  <2> QED
    BY <2>1
<1>3. CASE st[p] # "down"
  <2>1. Received(ms)[p] = s2c[p] \o ms[p]
    BY <1>3 DEF Received
  <2>2. Ascending(s2c[p] \o ms[p])
    BY <1>1, ConcatAscends
  <2>3. \A i \in 1..Len(s2c[p] \o ms[p]) :
          \/ i \in 1..Len(s2c[p]) /\ (s2c[p] \o ms[p])[i] = s2c[p][i]
          \/ /\ i - Len(s2c[p]) \in 1..Len(ms[p])
             /\ (s2c[p] \o ms[p])[i] = ms[p][i - Len(s2c[p])]
    BY <1>1, ConcatElement
  <2>4. s2c[p] = <<>> /\ ms[p] = <<>> => s2c[p] \o ms[p] = <<>>
    BY <1>1, ConcatEmptySeq
  <2> QED
    BY <1>3, <2>1, <2>2, <2>3, <2>4
<1> QED
  BY <1>2, <1>3

-----------------------------------------------------------------------------
(* The order of messages. *)

\* The initial state, with nothing sent.
LEMMA InitDelivery == Init => DeliveryInv
<1> SUFFICES ASSUME Init PROVE DeliveryInv
  OBVIOUS
<1> USE DEF Init, NetInit, ServerInit
<1>1. RecordInv /\ ReaderInv
  BY DEF RecordInv, ReaderInv
<1>2. ArrivalInv /\ OrderInv
  BY DEF ArrivalInv, OrderInv, UpTo, Ascending, Precedes
<1> QED
  BY <1>1, <1>2 DEF DeliveryInv

\* Two watched connections of one id are one connection.
LEMMA SoleReader ==
  ASSUME IInv, NEW p \in Procs, NEW q \in Procs, ident[p] = ident[q],
         NEW f \in Watched, conn[f] = p, NEW g \in Watched, conn[g] = q
  PROVE  p = q
<1>1. ident[p] \in Ids /\ p # NoProc /\ q # NoProc
  BY BrokerAssumption DEF IInv, TypeOK, NetTypeOK
<1>2. Carries(f, ident[p]) /\ Carries(g, ident[p])
  BY <1>1 DEF Carries
<1> QED
  BY <1>1, <1>2 DEF IInv, OneConnectionPerId

\* A step that moves no message keeps their order.
LEMMA SameMessages ==
  ASSUME IInv, DeliveryInv, UNCHANGED <<seen, s2c, msg_holder, udp, sent>>,
         \A p \in Procs : s2c[p] # <<>> => ident'[p] = ident[p], IInv'
  PROVE  /\ ArrivalInv' /\ OrderInv'
         /\ \A p, q \in Procs :
              s2c'[p] # <<>> /\ s2c'[q] # <<>> /\ ident'[p] = ident'[q] => p = q
<1> USE DEF DeliveryInv
<1>1. ArrivalInv'
  BY DEF ArrivalInv, UpTo
<1>2. ASSUME NEW p \in Procs
      PROVE  /\ Ascending(s2c'[p]) /\ Precedes(s2c'[p], msg_holder'[ident'[p]])
             /\ \A i \in 1..Len(s2c'[p]) : seen'[ident'[p]] <= s2c'[p][i]
  <2>1. CASE s2c[p] = <<>>
    BY <2>1 DEF Ascending, Precedes
  <2>2. CASE s2c[p] # <<>>
    BY <2>2 DEF OrderInv
  <2> QED
    BY <2>1, <2>2
<1>3. OrderInv'
  BY <1>2 DEF OrderInv, Ascending, Precedes
<1> QED
  BY <1>1, <1>3 DEF ReaderInv

\* Reading a record, or dropping a connection's records, keeps RecordInv.
LEMMA RecordRead ==
  ASSUME IInv, RecordInv, UNCHANGED <<st, ident>>,
         \A p \in Procs : \/ c2s'[p] = c2s[p]
                          \/ c2s'[p] = <<>>
                          \/ c2s[p] # <<>> /\ c2s'[p] = Tail(c2s[p])
  PROVE  RecordInv'
<1> SUFFICES ASSUME NEW p \in Procs
             PROVE  /\ st[p] = "up" \/ c2s'[p] # <<>> => ident[p] = IdOf[p]
                    /\ \A i \in 1..Len(c2s'[p]) :
                         c2s'[p][i].op = "exit" => st[p] = "down"
  BY DEF RecordInv
<1>1. CASE c2s'[p] = c2s[p] \/ c2s'[p] = <<>>
  BY <1>1 DEF RecordInv
<1>2. CASE c2s[p] # <<>> /\ c2s'[p] = Tail(c2s[p])
  <2>1. /\ c2s[p] \in Seq(Lines)
    BY DEF IInv, TypeOK, NetTypeOK
  <2>2. /\ Len(c2s[p]) \in Nat /\ Len(Tail(c2s[p])) = Len(c2s[p]) - 1
        /\ \A i \in 1..Len(Tail(c2s[p])) : Tail(c2s[p])[i] = c2s[p][i + 1]
    BY <1>2, <2>1, HeadTailProperties, LenProperties
  <2> QED
    BY <1>2, <2>2 DEF RecordInv
<1> QED
  BY <1>1, <1>2

\* Messages stay with processes that run and are watched when no such
\* connection is closed.
LEMMA SameReaders ==
  ASSUME IInv, ReaderInv, UNCHANGED <<st, s2c>>, status = "up" \/ status' # "up",
         \A f \in Watched : s2c[conn[f]] # <<>> => f \in Watched' /\ conn'[f] = conn[f]
  PROVE  \A p \in Procs : s2c'[p] # <<>> =>
           st'[p] = "up" /\ (status' = "up" => \E f \in Watched' : conn'[f] = p)
  BY DEF ReaderInv

-----------------------------------------------------------------------------
(* The server's steps. *)

\* The start of a pass.
LEMMA SelectDelivers ==
  ASSUME IInv, IInv', DeliveryInv, Select
  PROVE  DeliveryInv'
<1> USE DEF DeliveryInv, Select, netVars, clientVars
<1>1. ArrivalInv' /\ OrderInv' /\ ReaderInv'
  BY SameMessages, SameReaders DEF ReaderInv, Watched
<1>2. RecordInv'
  BY RecordRead
<1> QED
  BY <1>1, <1>2

\* A new connection is not watched yet.
LEMMA AcceptDelivers ==
  ASSUME IInv, IInv', DeliveryInv, Accept
  PROVE  DeliveryInv'
<1> USE DEF DeliveryInv, Accept, clientVars
<1>1. RecordInv'
  BY RecordRead
<1>2. PICK g \in ClientFds : LowestFree(g) /\ conn' = [conn EXCEPT ![g] = Head(backlog)]
  OBVIOUS
<1>3. newsockfd = NoFd /\ g \notin OpenFds
  BY <1>2 DEF Serving, LowestFree
<1>4. g \notin Watched
  BY <1>3 DEF IInv, WatchedFds
<1>5. \A f \in Watched : f \in Watched' /\ conn'[f] = conn[f]
  BY <1>2, <1>4 DEF Watched, IInv, TypeOK, NetTypeOK
<1>6. ArrivalInv' /\ OrderInv' /\ ReaderInv'
  BY <1>5, SameMessages, SameReaders DEF ReaderInv
<1> QED
  BY <1>1, <1>6

\* A client's first connection.
LEMMA FirstConnectDelivers ==
  ASSUME IInv, IInv', DeliveryInv, FirstConnect
  PROVE  DeliveryInv'
<1> USE DEF DeliveryInv, FirstConnect, Register, clientVars
<1>1. RecordInv'
  BY RecordRead DEF IInv, TypeOK, NetTypeOK
<1>2. \A f \in Watched : f \in Watched' /\ conn'[f] = conn[f]
  BY DEF Watched
<1>3. UNCHANGED <<st, ident, seen, s2c, msg_holder, udp, sent, status>>
  OBVIOUS
<1> HIDE DEF FirstConnect, Register
<1>6. ArrivalInv' /\ OrderInv' /\ ReaderInv'
  BY <1>2, <1>3, SameMessages, SameReaders DEF ReaderInv
<1> QED
  BY <1>1, <1>6

\* A connection that is refused has been sent nothing.
LEMMA RefuseDelivers ==
  ASSUME IInv, IInv', DeliveryInv, Refuse
  PROVE  DeliveryInv'
<1> USE DEF DeliveryInv, clientVars
<1>1. PICK p \in Procs, id \in Ids :
        /\ ReceivesId(p, id)
        /\ conn' = [conn EXCEPT ![newsockfd] = NoProc]
        /\ c2s' = [c2s EXCEPT ![p] = <<>>]
        /\ UNCHANGED <<read_fds, clients, msg_holder>>
        /\ UNCHANGED <<st, ident, seen, s2c, backlog, udp, sent, status>>
  BY DEF Refuse
<1>2. newsockfd \notin Watched
  BY <1>1, ReceivesIdFacts
<1>3. RecordInv'
  BY <1>1, RecordRead DEF IInv, TypeOK, NetTypeOK
<1>4. \A f \in Watched : f \in Watched' /\ conn'[f] = conn[f]
  BY <1>1, <1>2 DEF Watched, IInv, TypeOK, NetTypeOK
<1>5. ArrivalInv' /\ OrderInv' /\ ReaderInv'
  BY <1>1, <1>4, SameMessages, SameReaders DEF ReaderInv
<1> QED
  BY <1>3, <1>5

\* A line that keeps the connection.
LEMMA LineDelivers ==
  ASSUME IInv, IInv', DeliveryInv, SubscribeLine \/ UnsubscribeLine
  PROVE  DeliveryInv'
<1> USE DEF DeliveryInv
<1>1. PICK i \in ClientFds, line \in Lines : ReceivesLine(i, line)
  BY DEF SubscribeLine, UnsubscribeLine
<1>2. UNCHANGED <<read_fds, msg_holder, st, ident, seen, s2c, conn, udp, sent, status>>
  BY DEF SubscribeLine, UnsubscribeLine, clientVars
<1>3. RecordInv'
  BY <1>1, <1>2, RecordRead DEF ReceivesLine, IInv, TypeOK, NetTypeOK
<1>4. \A f \in Watched : f \in Watched' /\ conn'[f] = conn[f]
  BY <1>2 DEF Watched
<1>5. ArrivalInv' /\ OrderInv' /\ ReaderInv'
  BY <1>2, <1>4, SameMessages, SameReaders DEF ReaderInv
<1> QED
  BY <1>3, <1>5

\* The client that has sent "exit" has nothing left to read.
LEMMA ExitLineDelivers ==
  ASSUME IInv, IInv', DeliveryInv, ExitLine
  PROVE  DeliveryInv'
<1> USE DEF DeliveryInv
<1>1. PICK i \in ClientFds, line \in Lines :
        /\ ReceivesLine(i, line) /\ line.op = "exit"
        /\ conn' = [conn EXCEPT ![i] = NoProc]
        /\ read_fds' = read_fds \ {i}
        /\ UNCHANGED <<msg_holder, st, ident, seen, s2c, udp, sent, status>>
  BY DEF ExitLine, clientVars
<1>2. conn[i] \in Procs /\ \A g \in OpenFds \ {i} : conn[g] # conn[i]
  BY <1>1, ReceivesLineFacts
<1>3. RecordInv'
  BY <1>1, RecordRead DEF ReceivesLine, IInv, TypeOK, NetTypeOK
<1>4. st[conn[i]] = "down"
  <2>1. c2s[conn[i]] \in Seq(Lines) /\ c2s[conn[i]] # <<>> /\ Head(c2s[conn[i]]) = line
    BY <1>1, <1>2 DEF ReceivesLine, IInv, TypeOK, NetTypeOK
  <2>2. 1 \in 1..Len(c2s[conn[i]]) /\ c2s[conn[i]][1] = line
    BY <2>1, EmptySeq
  <2> QED
    BY <1>1, <1>2, <2>2 DEF RecordInv
<1>5. s2c[conn[i]] = <<>>
  BY <1>2, <1>4 DEF ReaderInv
<1>6. \A f \in Watched : s2c[conn[f]] # <<>> => f \in Watched' /\ conn'[f] = conn[f]
  BY <1>1, <1>5 DEF Watched, IInv, TypeOK, NetTypeOK
<1>7. ArrivalInv' /\ OrderInv' /\ ReaderInv'
  BY <1>1, <1>6, SameMessages, SameReaders DEF ReaderInv
<1> QED
  BY <1>3, <1>7

\* One copy of the datagram per entry, for processes that are watched.
LEMMA CopiesElement ==
  ASSUME IInv, NEW key \in Keys, NEW n \in 1..MaxMsg, NEW ids \in SUBSET Ids,
         NEW p \in Procs
  PROVE  /\ \A i \in 1..Len(CopiesFor(key, n, ids)[p]) : CopiesFor(key, n, ids)[p][i] = n
         /\ CopiesFor(key, n, ids)[p] # <<>> => \E f \in Watched : conn[f] = p
<1> DEFINE k == Cardinality(SentOn(key, p) \cap ids)
           s == [j \in 1..k |-> n]
<1>1. IsFiniteSet(SentOn(key, p) \cap ids)
  BY BrokerAssumption, FS_Subset DEF SentOn
<1>2. k \in Nat /\ (k # 0 => SentOn(key, p) # {})
  BY <1>1, FS_CardinalityType, FS_EmptySet
<1>3. CopiesFor(key, n, ids)[p] = s
  BY DEF CopiesFor
<1> HIDE DEF k
<1>4. Len(s) = k /\ (k = 0 => s = <<>>)
  BY <1>2
<1>5. SentOn(key, p) # {} => \E f \in Watched : conn[f] = p
  BY DEF SentOn, IInv, SendsOnlyToOpen
<1> QED
  BY <1>2, <1>3, <1>4, <1>5

\* The datagram at the head of the queue is older than what is behind it and
\* newer than everything printed, sent or held.
LEMMA HeadArrival ==
  ASSUME IInv, ArrivalInv, Serving(sockfd_udp)
  PROVE  /\ Head(udp).n \in 1..MaxMsg
         /\ Head(udp).n <= sent
         /\ \A i \in 1..Len(Tail(udp)) :
              /\ Head(udp).n <= Tail(udp)[i].n
              /\ Tail(udp)[i].n \in {udp[j].n : j \in 1..Len(udp)}
         /\ \A i, j \in 1..Len(Tail(udp)) : i <= j => Tail(udp)[i].n <= Tail(udp)[j].n
         /\ \A c \in Ids : seen[c] <= Head(udp).n /\ UpTo(msg_holder[c], Head(udp).n)
         /\ \A p \in Procs : UpTo(s2c[p], Head(udp).n)
<1>1. udp # <<>>
  BY DEF IInv, TmpFdsServable, Serving, Readable, OpenFds
<1>2. udp \in Seq(Datagrams)
  BY DEF IInv, TypeOK, NetTypeOK
<1>3. /\ Len(udp) \in Nat \ {0} /\ Len(Tail(udp)) = Len(udp) - 1 /\ Head(udp) = udp[1]
      /\ \A i \in 1..Len(Tail(udp)) : Tail(udp)[i] = udp[i + 1]
  BY <1>1, <1>2, HeadTailProperties, EmptySeq
<1>4. Head(udp).n \in 1..MaxMsg
  BY DatagramType
<1>5. Head(udp).n \in {udp[j].n : j \in 1..Len(udp)}
  BY <1>3
<1>6. \A i \in 1..Len(Tail(udp)) : i + 1 \in 1..Len(udp)
  BY <1>3
<1>7. \A i, j \in 1..Len(Tail(udp)) : i <= j => Tail(udp)[i].n <= Tail(udp)[j].n
  BY <1>3, <1>6 DEF ArrivalInv
<1>8. \A i \in 1..Len(Tail(udp)) : Head(udp).n <= Tail(udp)[i].n
  BY <1>3, <1>6 DEF ArrivalInv
<1> QED
  BY <1>3, <1>4, <1>5, <1>6, <1>7, <1>8 DEF ArrivalInv

\* What is held after the datagram: it is the newest, and only for ids with
\* no connection.
LEMMA HoldingOrder ==
  ASSUME IInv, DeliveryInv, NEW key \in Keys, NEW n \in 1..MaxMsg, NEW c \in Ids,
         UpTo(msg_holder[c], n)
  PROVE  /\ Ascending(Holding(key, n)[c])
         /\ \A i \in 1..Len(Holding(key, n)[c]) :
              \/ Holding(key, n)[c][i] = n
              \/ \E j \in 1..Len(msg_holder[c]) : Holding(key, n)[c][i] = msg_holder[c][j]
         /\ Live(c) => Holding(key, n)[c] = <<>>
<1>1. msg_holder[c] \in Seq(Nat) /\ n \in Nat
  BY BrokerAssumption, SeqMonotonic DEF IInv, TypeOK, ServerTypeOK
<1>2. Ascending(msg_holder[c])
  BY DEF DeliveryInv, OrderInv
<1>3. /\ Ascending(Append(msg_holder[c], n))
      /\ \A i \in 1..Len(Append(msg_holder[c], n)) :
           \/ i \in 1..Len(msg_holder[c]) /\ Append(msg_holder[c], n)[i] = msg_holder[c][i]
           \/ Append(msg_holder[c], n)[i] = n
  BY <1>1, <1>2, AppendAscends
<1>4. Live(c) => c \notin Held(key) /\ msg_holder[c] = <<>>
  BY DEF Held, IInv, CopiesAgree, StoreInv
<1> QED
  BY <1>2, <1>3, <1>4 DEF Holding

\* What sending adds to the connections keeps their order.
LEMMA SendKeepsOrder ==
  ASSUME IInv, DeliveryInv, NEW ms \in [Procs -> Seq(1..MaxMsg)],
         s2c' = Received(ms), UNCHANGED <<seen, ident>>,
         NEW p \in Procs,
         Ascending(ms[p]), Precedes(s2c[p], ms[p]),
         \A i \in 1..Len(ms[p]) : seen[ident[p]] <= ms[p][i],
         Precedes(s2c[p], msg_holder'[ident[p]]),
         st[p] # "down" => Precedes(ms[p], msg_holder'[ident[p]])
  PROVE  /\ Ascending(s2c[p])' /\ Precedes(s2c[p], msg_holder[ident[p]])'
         /\ \A i \in 1..Len(s2c'[p]) : seen'[ident'[p]] <= s2c'[p][i]
<1>1. Ascending(s2c[p]) /\ \A i \in 1..Len(s2c[p]) : seen[ident[p]] <= s2c[p][i]
  BY DEF DeliveryInv, OrderInv
<1>2. /\ Ascending(Received(ms)[p])
      /\ \A i \in 1..Len(Received(ms)[p]) :
           \/ \E j \in 1..Len(s2c[p]) : Received(ms)[p][i] = s2c[p][j]
           \/ /\ st[p] # "down"
              /\ \E j \in 1..Len(ms[p]) : Received(ms)[p][i] = ms[p][j]
  BY <1>1, ReceivedOrder DEF IInv, TypeOK
<1>3. Ascending(s2c[p])'
  BY <1>2 DEF Ascending
<1>4. Precedes(s2c[p], msg_holder[ident[p]])'
  BY <1>2 DEF Precedes
<1> QED
  BY <1>1, <1>2, <1>3, <1>4

\* What sending adds is on connections of processes that run; if these are
\* watched, no id has two of them.
LEMMA SendKeepsReaders ==
  ASSUME IInv, DeliveryInv, status = "up", NEW ms \in [Procs -> Seq(1..MaxMsg)],
         s2c' = Received(ms), UNCHANGED <<st, ident>>,
         \A p \in Procs : Ascending(ms[p]) /\ Precedes(s2c[p], ms[p]),
         \A p \in Procs : ms[p] # <<>> => \E f \in Watched : conn[f] = p,
         status' = "up" => Watched' = Watched /\ conn' = conn
  PROVE  ReaderInv'
<1>1. \A p \in Procs : s2c'[p] # <<>> => st[p] = "up" /\ \E f \in Watched : conn[f] = p
  <2> SUFFICES ASSUME NEW p \in Procs, s2c'[p] # <<>>
               PROVE  st[p] = "up" /\ \E f \in Watched : conn[f] = p
    OBVIOUS
  <2>1. s2c[p] # <<>> \/ (st[p] # "down" /\ ms[p] # <<>>)
    BY ReceivedOrder DEF IInv, TypeOK, DeliveryInv, OrderInv
  <2>2. CASE s2c[p] # <<>>
    BY <2>2 DEF DeliveryInv, ReaderInv
  <2>3. CASE st[p] # "down" /\ ms[p] # <<>>
    <3>1. PICK f \in Watched : conn[f] = p
      BY <2>3
    <3>2. p # NoProc /\ f \in OpenFds
      BY <3>1, BrokerAssumption DEF OpenFds, Watched
    <3> QED
      BY <2>3, <3>1, <3>2 DEF IInv, IdInv, TypeOK, NetTypeOK
  <2> QED
    BY <2>1, <2>2, <2>3
<1>2. \A p, q \in Procs : s2c'[p] # <<>> /\ s2c'[q] # <<>> /\ ident[p] = ident[q] => p = q
  BY <1>1, SoleReader
<1> QED
  BY <1>1, <1>2 DEF ReaderInv

\* What the datagram puts on a connection, for any part of the entries.
LEMMA CopiesOrder ==
  ASSUME IInv, DeliveryInv, Serving(sockfd_udp), NEW ids \in SUBSET Ids,
         NEW ms, ms = CopiesFor(Key(Head(udp).topic), Head(udp).n, ids)
  PROVE  /\ ms \in [Procs -> Seq(1..MaxMsg)]
         /\ \A p \in Procs :
              /\ \A i \in 1..Len(ms[p]) : ms[p][i] = Head(udp).n
              /\ Ascending(ms[p]) /\ Precedes(s2c[p], ms[p])
              /\ \A i \in 1..Len(ms[p]) : seen[ident[p]] <= ms[p][i]
              /\ ms[p] # <<>> => \E f \in Watched : conn[f] = p
<1> DEFINE key == Key(Head(udp).topic)
           n == Head(udp).n
<1>1. key \in Keys /\ n \in 1..MaxMsg /\ n <= n
  BY DatagramType, BrokerAssumption
<1>2. ms \in [Procs -> Seq(1..MaxMsg)]
  BY <1>1, CopiesForType DEF IInv
<1>3. ASSUME NEW p \in Procs
      PROVE  /\ \A i \in 1..Len(ms[p]) : ms[p][i] = n
             /\ ms[p] # <<>> => \E f \in Watched : conn[f] = p
  BY <1>1, CopiesElement
<1>4. ASSUME NEW p \in Procs
      PROVE  UpTo(s2c[p], n) /\ seen[ident[p]] <= n
  BY HeadArrival DEF DeliveryInv, IInv, TypeOK, NetTypeOK
<1> HIDE DEF n, key
<1>5. ASSUME NEW p \in Procs
      PROVE  /\ Ascending(ms[p]) /\ Precedes(s2c[p], ms[p])
             /\ \A i \in 1..Len(ms[p]) : seen[ident[p]] <= ms[p][i]
  BY <1>1, <1>3, <1>4 DEF Ascending, Precedes, UpTo
<1> QED
  BY <1>2, <1>3, <1>5 DEF n

\* A datagram goes behind everything that was sent or held before it.
LEMMA HandleUdpDelivers ==
  ASSUME IInv, IInv', DeliveryInv, HandleUdp
  PROVE  DeliveryInv'
<1> DEFINE key == Key(Head(udp).topic)
           n == Head(udp).n
           ms == CopiesFor(key, n, Ids)
<1>1. /\ Serving(sockfd_udp) /\ status = "up" /\ status' = "up"
      /\ s2c' = Received(ms) /\ msg_holder' = Holding(key, n) /\ udp' = Tail(udp)
      /\ UNCHANGED <<read_fds, st, ident, seen, c2s, conn, sent>>
  BY DEF HandleUdp, SendAll, clientVars, Serving
<1>2. key \in Keys /\ n \in 1..MaxMsg
  BY <1>1, DatagramType
<1>3. /\ ms \in [Procs -> Seq(1..MaxMsg)]
      /\ \A p \in Procs :
           /\ \A i \in 1..Len(ms[p]) : ms[p][i] = n
           /\ Ascending(ms[p]) /\ Precedes(s2c[p], ms[p])
           /\ \A i \in 1..Len(ms[p]) : seen[ident[p]] <= ms[p][i]
           /\ ms[p] # <<>> => \E f \in Watched : conn[f] = p
  BY <1>1, CopiesOrder
<1>4. /\ n <= sent
      /\ \A i \in 1..Len(Tail(udp)) :
           /\ n <= Tail(udp)[i].n
           /\ Tail(udp)[i].n \in {udp[j].n : j \in 1..Len(udp)}
      /\ \A i, j \in 1..Len(Tail(udp)) : i <= j => Tail(udp)[i].n <= Tail(udp)[j].n
      /\ \A c \in Ids : seen[c] <= n /\ UpTo(msg_holder[c], n)
      /\ \A p \in Procs : UpTo(s2c[p], n)
  BY <1>1, HeadArrival DEF DeliveryInv
<1> HIDE DEF n, key, ms
<1>5. RecordInv'
  BY <1>1 DEF DeliveryInv, RecordInv
<1>6. ReaderInv'
  BY <1>1, <1>3, SendKeepsReaders DEF Watched
<1>7. ASSUME NEW c \in Ids
      PROVE  /\ Ascending(msg_holder'[c])
             /\ \A i \in 1..Len(msg_holder'[c]) :
                  \/ msg_holder'[c][i] = n
                  \/ \E j \in 1..Len(msg_holder[c]) : msg_holder'[c][i] = msg_holder[c][j]
             /\ Live(c) => msg_holder'[c] = <<>>
  BY <1>1, <1>2, <1>4, HoldingOrder
<1>8. ArrivalInv'
  <2>1. \A i, j \in 1..Len(udp') : i <= j => udp'[i].n <= udp'[j].n
    BY <1>1, <1>4
  <2> SUFFICES ASSUME NEW m \in {sent} \cup {udp'[i].n : i \in 1..Len(udp')}
               PROVE  /\ m <= sent
                      /\ \A c \in Ids : seen[c] <= m /\ UpTo(msg_holder'[c], m)
                      /\ \A p \in Procs : UpTo(s2c'[p], m)
    BY <1>1, <2>1 DEF ArrivalInv, UpTo
  <2>2. m \in {sent} \cup {udp[i].n : i \in 1..Len(udp)} /\ n <= m
    BY <1>1, <1>4
  <2>3. /\ m <= sent
        /\ \A c \in Ids : seen[c] <= m /\ UpTo(msg_holder[c], m)
        /\ \A p \in Procs : UpTo(s2c[p], m)
    BY <2>2 DEF DeliveryInv, ArrivalInv
  <2>4. \A c \in Ids : UpTo(msg_holder'[c], m)
    BY <1>7, <2>2, <2>3 DEF UpTo
  <2>5. ASSUME NEW p \in Procs, NEW i \in 1..Len(s2c'[p])
        PROVE  s2c'[p][i] <= m
    <3>1. \/ \E j \in 1..Len(s2c[p]) : s2c'[p][i] = s2c[p][j]
          \/ \E j \in 1..Len(ms[p]) : s2c'[p][i] = ms[p][j]
      BY <1>1, <1>3, ReceivedOrder DEF IInv, TypeOK, DeliveryInv, OrderInv
    <3> QED
      BY <1>3, <2>2, <2>3, <3>1 DEF UpTo
  <2> QED
    BY <2>3, <2>4, <2>5 DEF UpTo
<1>9. ASSUME NEW p \in Procs
      PROVE  /\ Precedes(s2c[p], msg_holder'[ident[p]])
             /\ st[p] # "down" => Precedes(ms[p], msg_holder'[ident[p]])
  <2>1. ident[p] \in Ids
    BY DEF IInv, TypeOK, NetTypeOK
  <2>2. Precedes(s2c[p], msg_holder[ident[p]]) /\ UpTo(s2c[p], n)
    BY <1>4 DEF DeliveryInv, OrderInv
  <2>3. Precedes(s2c[p], msg_holder'[ident[p]])
    BY <1>7, <2>1, <2>2 DEF Precedes, UpTo
  <2>4. CASE ms[p] = <<>>
    BY <2>3, <2>4 DEF Precedes
  <2>5. CASE ms[p] # <<>>
    <3>1. PICK f \in Watched : conn[f] = p
      BY <1>3, <2>5
    <3>2. p # NoProc /\ f \in ClientFds
      BY BrokerAssumption DEF Watched
    <3>3. msg_holder'[ident[p]] = <<>>
      BY <1>7, <2>1, <3>1, <3>2 DEF Live, Carries
    <3> QED
      BY <2>3, <3>3 DEF Precedes
  <2> QED
    BY <2>4, <2>5
<1>10. OrderInv'
  <2>1. ASSUME NEW c \in Ids, NEW i \in 1..Len(msg_holder'[c])
        PROVE  seen'[c] <= msg_holder'[c][i]
    BY <1>1, <1>4, <1>7 DEF DeliveryInv, OrderInv
  <2>2. ASSUME NEW p \in Procs
        PROVE  /\ Ascending(s2c[p])' /\ Precedes(s2c[p], msg_holder[ident[p]])'
               /\ \A i \in 1..Len(s2c'[p]) : seen'[ident'[p]] <= s2c'[p][i]
    BY <1>1, <1>3, <1>9, SendKeepsOrder
  <2> QED
    BY <1>7, <2>1, <2>2 DEF OrderInv, Ascending
<1> QED
  BY <1>5, <1>6, <1>8, <1>10 DEF DeliveryInv

\* When the server ends, what it has sent before is still read.
LEMMA ServerEndsDelivers ==
  ASSUME IInv, DeliveryInv, status = "up", NEW how, how # "up", ServerEnds(how), ReaderInv',
         NEW ms \in [Procs -> Seq(1..MaxMsg)], s2c' = Received(ms),
         \A p \in Procs :
           /\ Ascending(ms[p]) /\ Precedes(s2c[p], ms[p])
           /\ \A i \in 1..Len(ms[p]) : seen[ident[p]] <= ms[p][i] /\ ms[p][i] <= sent
  PROVE  DeliveryInv'
<1> USE DEF ServerEnds, clientVars
<1>1. RecordInv'
  BY DEF DeliveryInv, RecordInv
<1>2. \A c \in Ids : msg_holder'[c] = <<>>
  OBVIOUS
<1>3. OrderInv'
  <2>1. \A p \in Procs : ident[p] \in Ids /\ msg_holder'[ident[p]] = <<>>
    BY DEF IInv, TypeOK, NetTypeOK
  <2>2. ASSUME NEW p \in Procs
        PROVE  /\ Ascending(s2c[p])' /\ Precedes(s2c[p], msg_holder[ident[p]])'
               /\ \A i \in 1..Len(s2c'[p]) : seen'[ident'[p]] <= s2c'[p][i]
    <3>1. Precedes(s2c[p], msg_holder'[ident[p]]) /\ Precedes(ms[p], msg_holder'[ident[p]])
      BY <2>1 DEF Precedes
    <3> QED
      BY <3>1, SendKeepsOrder
  <2> QED
    BY <1>2, <2>2 DEF OrderInv, Ascending
<1>4. ArrivalInv'
  <2>1. sent <= sent /\ (\A c \in Ids : seen[c] <= sent) /\ \A p \in Procs : UpTo(s2c[p], sent)
    BY DEF DeliveryInv, ArrivalInv
  <2>2. ASSUME NEW p \in Procs, NEW i \in 1..Len(s2c'[p])
        PROVE  s2c'[p][i] <= sent
    <3>1. \/ \E j \in 1..Len(s2c[p]) : s2c'[p][i] = s2c[p][j]
          \/ \E j \in 1..Len(ms[p]) : s2c'[p][i] = ms[p][j]
      BY ReceivedOrder DEF IInv, TypeOK, DeliveryInv, OrderInv
    <3> QED
      BY <2>1, <3>1 DEF UpTo
  <2>3. Len(udp') = 0 /\ \A c \in Ids : Len(msg_holder'[c]) = 0
    BY <1>2
  <2> QED
    BY <2>1, <2>2, <2>3 DEF ArrivalInv, UpTo
<1> QED
  BY <1>1, <1>3, <1>4 DEF DeliveryInv

\* The server killed by a send: the entries before the broken one were served.
LEMMA UdpBrokenPipeDelivers ==
  ASSUME IInv, DeliveryInv, UdpBrokenPipe
  PROVE  DeliveryInv'
<1>1. Serving(sockfd_udp) /\ status = "up" /\ ServerEnds("sigpipe") /\ status' # "up"
  BY DEF UdpBrokenPipe, Serving, ServerEnds
<1>2. PICK ids \in SUBSET Ids :
        s2c' = Received(CopiesFor(Key(Head(udp).topic), Head(udp).n, ids))
  <2>1. PICK c \in Ids :
          s2c' = Received(CopiesFor(Key(Head(udp).topic), Head(udp).n, {d \in Ids : d < c}))
    BY DEF UdpBrokenPipe, SentOn
  <2> QED
    BY <2>1
<1> DEFINE ms == CopiesFor(Key(Head(udp).topic), Head(udp).n, ids)
<1>3. /\ ms \in [Procs -> Seq(1..MaxMsg)]
      /\ \A p \in Procs :
           /\ \A i \in 1..Len(ms[p]) : ms[p][i] = Head(udp).n
           /\ Ascending(ms[p]) /\ Precedes(s2c[p], ms[p])
           /\ \A i \in 1..Len(ms[p]) : seen[ident[p]] <= ms[p][i]
           /\ ms[p] # <<>> => \E f \in Watched : conn[f] = p
  BY <1>1, CopiesOrder
<1>4. Head(udp).n <= sent
  BY <1>1, HeadArrival DEF DeliveryInv
<1> HIDE DEF ms
<1>5. ReaderInv'
  BY <1>1, <1>2, <1>3, SendKeepsReaders DEF ServerEnds, clientVars, ms
<1>6. \A p \in Procs : \A i \in 1..Len(ms[p]) : ms[p][i] <= sent
  BY <1>3, <1>4
<1> QED
  BY <1>1, <1>2, <1>3, <1>5, <1>6, ServerEndsDelivers DEF ms

\* The server that ends without sending.
LEMMA EndDelivers ==
  ASSUME IInv, DeliveryInv, HandleStdin \/ EndOfStream \/ ReconnectBrokenPipe
  PROVE  DeliveryInv'
<1>1. PICK how : how # "up" /\ ServerEnds(how) /\ status = "up" /\ s2c' = s2c
  BY DEF HandleStdin, EndOfStream, ReconnectBrokenPipe, Serving, ReceivesId
<1> DEFINE ms == [p \in Procs |-> <<>>]
<1>2. ms \in [Procs -> Seq(1..MaxMsg)]
  BY EmptySeq
<1>3. s2c' = Received(ms)
  <2>1. ASSUME NEW p \in Procs PROVE s2c[p] \o <<>> = s2c[p]
    BY ConcatEmptySeq DEF IInv, TypeOK, NetTypeOK
  <2>2. s2c = [p \in Procs |-> s2c[p]]
    BY DEF IInv, TypeOK, NetTypeOK
  <2> QED
    BY <1>1, <2>1, <2>2 DEF Received
<1>4. \A p \in Procs :
        /\ Ascending(ms[p]) /\ Precedes(s2c[p], ms[p])
        /\ \A i \in 1..Len(ms[p]) : seen[ident[p]] <= ms[p][i] /\ ms[p][i] <= sent
  BY DEF Ascending, Precedes
<1>5. ReaderInv'
  BY <1>1 DEF DeliveryInv, ReaderInv, ServerEnds, clientVars
<1> HIDE DEF ms
<1> QED
  BY <1>1, <1>2, <1>3, <1>4, <1>5, ServerEndsDelivers

\* What was held is handed over whole to a connection with nothing on it.
LEMMA ReconnectDelivers ==
  ASSUME IInv, IInv', DeliveryInv, Reconnect
  PROVE  DeliveryInv'
<1>1. PICK p \in Procs, id \in Ids :
        /\ ReceivesId(p, id) /\ Register(p, id) /\ status = "up"
        /\ msg_holder' = [msg_holder EXCEPT ![id] = <<>>]
        /\ s2c' = Received([q \in Procs |-> IF q = p THEN msg_holder[id] ELSE <<>>])
        /\ UNCHANGED <<st, ident, seen, conn, udp, sent, status>>
  BY DEF Reconnect, SendAll, clientVars, ReceivesId
<1> DEFINE ms == [q \in Procs |-> IF q = p THEN msg_holder[id] ELSE <<>>]
<1>2. /\ newsockfd \notin Watched /\ conn[newsockfd] = p /\ ident[p] = id
      /\ newsockfd \in ClientFds /\ newsockfd \in OpenFds /\ st[p] # "syn"
      /\ \A g \in OpenFds : conn[g] = p => g = newsockfd
  BY <1>1, ReceivesIdFacts
<1>3. s2c[p] = <<>>
  <2>1. \A f \in Watched : conn[f] # p
    BY <1>2, BrokerAssumption DEF IInv, WatchedFds
  <2> QED
    BY <1>1, <2>1 DEF DeliveryInv, ReaderInv
<1>4. msg_holder \in [Ids -> Seq(1..MaxMsg)]
  BY DEF IInv, TypeOK, ServerTypeOK
<1>5. ms \in [Procs -> Seq(1..MaxMsg)] /\ \A q \in Procs \ {p} : ms[q] = <<>>
  BY <1>4, EmptySeq
<1>6. ms[p] = msg_holder[id]
  OBVIOUS
<1> HIDE DEF ms
<1>7. \A q \in Procs :
        /\ Ascending(ms[q]) /\ Precedes(s2c[q], ms[q])
        /\ \A i \in 1..Len(ms[q]) : seen[ident[q]] <= ms[q][i]
  BY <1>2, <1>3, <1>5, <1>6 DEF Ascending, Precedes, DeliveryInv, OrderInv
<1>8. /\ msg_holder'[id] = <<>>
      /\ \A c \in Ids \ {id} : msg_holder'[c] = msg_holder[c]
  BY <1>1, <1>4
<1>9. RecordInv'
  BY <1>1, RecordRead DEF Register, DeliveryInv, IInv, TypeOK, NetTypeOK
<1>10. s2c' = Received(ms)
  BY <1>1 DEF ms
<1>11. ArrivalInv'
  <2> SUFFICES ASSUME NEW m \in {sent} \cup {udp[i].n : i \in 1..Len(udp)}
               PROVE  /\ \A c \in Ids : UpTo(msg_holder'[c], m)
                      /\ \A q \in Procs : UpTo(s2c'[q], m)
    <3>1. udp' = udp /\ sent' = sent /\ seen' = seen
      BY <1>1
    <3> QED
      BY <3>1 DEF DeliveryInv, ArrivalInv, UpTo
  <2>1. \A c \in Ids : UpTo(msg_holder[c], m)
    BY DEF DeliveryInv, ArrivalInv
  <2>2. \A c \in Ids : UpTo(msg_holder'[c], m)
    BY <1>8, <2>1 DEF UpTo
  <2>3. ASSUME NEW q \in Procs, NEW i \in 1..Len(s2c'[q])
        PROVE  s2c'[q][i] <= m
    <3>1. \/ \E j \in 1..Len(s2c[q]) : s2c'[q][i] = s2c[q][j]
          \/ \E j \in 1..Len(ms[q]) : s2c'[q][i] = ms[q][j]
      BY <1>5, <1>7, <1>10, ReceivedOrder DEF IInv, TypeOK, DeliveryInv, OrderInv
    <3>2. UpTo(s2c[q], m)
      BY DEF DeliveryInv, ArrivalInv
    <3>3. UpTo(ms[q], m)
      <4>1. CASE q = p
        BY <1>6, <2>1, <4>1
      <4>2. CASE q # p
        BY <1>5, <4>2 DEF UpTo
      <4> QED
        BY <4>1, <4>2
    <3> QED
      BY <3>1, <3>2, <3>3 DEF UpTo
  <2> QED
    BY <2>2, <2>3 DEF UpTo
<1>12. OrderInv'
  <2>1. \A c \in Ids : /\ Ascending(msg_holder'[c])
                       /\ \A i \in 1..Len(msg_holder'[c]) : seen'[c] <= msg_holder'[c][i]
    BY <1>1, <1>8 DEF DeliveryInv, OrderInv, Ascending
  <2>2. ASSUME NEW q \in Procs
        PROVE  /\ Precedes(s2c[q], msg_holder'[ident[q]])
               /\ Precedes(ms[q], msg_holder'[ident[q]])
    <3>1. ident[q] \in Ids
      BY DEF IInv, TypeOK, NetTypeOK
    <3>2. Precedes(s2c[q], msg_holder'[ident[q]])
      BY <1>8, <3>1 DEF DeliveryInv, OrderInv, Precedes
    <3>3. Precedes(ms[q], msg_holder'[ident[q]])
      BY <1>2, <1>5, <1>8 DEF Precedes
    <3> QED
      BY <3>2, <3>3
  <2>3. ASSUME NEW q \in Procs
        PROVE  /\ Ascending(s2c[q])' /\ Precedes(s2c[q], msg_holder[ident[q]])'
               /\ \A i \in 1..Len(s2c'[q]) : seen'[ident'[q]] <= s2c'[q][i]
    BY <1>1, <1>5, <1>7, <1>10, <2>2, SendKeepsOrder
  <2> QED
    BY <2>1, <2>3 DEF OrderInv, Ascending
<1>13. ReaderInv'
  <2>1. \A f \in Watched : f \in Watched' /\ conn'[f] = conn[f]
    BY <1>1 DEF Watched, Register
  <2>2. newsockfd \in Watched' /\ conn'[newsockfd] = p
    BY <1>1, <1>2 DEF Watched, Register
  <2>3. ASSUME NEW q \in Procs, s2c'[q] # <<>>
        PROVE  st'[q] = "up" /\ \E f \in Watched' : conn'[f] = q
    <3>1. s2c[q] # <<>> \/ (st[q] # "down" /\ ms[q] # <<>>)
      BY <1>5, <1>7, <1>10, <2>3, ReceivedOrder
         DEF IInv, TypeOK, DeliveryInv, OrderInv
    <3>2. CASE s2c[q] # <<>>
      BY <1>1, <2>1, <3>2 DEF DeliveryInv, ReaderInv
    <3>3. CASE st[q] # "down" /\ ms[q] # <<>>
      <4>1. q = p
        BY <1>5, <3>3
      <4> QED
        BY <1>1, <1>2, <2>2, <3>3, <4>1 DEF IInv, TypeOK, NetTypeOK
    <3> QED
      BY <3>1, <3>2, <3>3
  <2>4. ASSUME NEW q \in Procs, NEW r \in Procs, ident'[q] = ident'[r],
               s2c'[q] # <<>>, s2c'[r] # <<>>
        PROVE  q = r
    <3>1. PICK f \in Watched' : conn'[f] = q
      BY <2>3, <2>4
    <3>2. PICK g \in Watched' : conn'[g] = r
      BY <2>3, <2>4
    <3>3. ident'[q] \in Ids /\ q # NoProc /\ r # NoProc
      BY BrokerAssumption DEF IInv, TypeOK, NetTypeOK
    <3>4. Carries(f, ident[q])' /\ Carries(g, ident[q])'
      BY <2>4, <3>1, <3>2, <3>3 DEF Carries
    <3> QED
      BY <3>1, <3>2, <3>3, <3>4 DEF IInv, OneConnectionPerId
  <2> QED
    BY <2>3, <2>4 DEF ReaderInv
<1> QED
  BY <1>9, <1>11, <1>12, <1>13 DEF DeliveryInv

-----------------------------------------------------------------------------
(* The steps of the subscribers, the publishers and the operator. *)

\* Who starts, or sends his id, has nothing to read yet.
LEMMA StartDelivers ==
  ASSUME IInv, IInv', DeliveryInv, NEW p \in Procs, Start(p) \/ SendId(p),
         UNCHANGED serverVars
  PROVE  DeliveryInv'
<1> USE DEF DeliveryInv, serverVars
<1>1. /\ st[p] # "up" /\ s2c[p] = <<>>
      /\ \A q \in Procs \ {p} : st'[q] = st[q] /\ ident'[q] = ident[q] /\ c2s'[q] = c2s[q]
      /\ UNCHANGED <<s2c, conn, udp, sent, status, seen>>
  BY DEF Start, SendId, Sends, ReaderInv, IInv, TypeOK, NetTypeOK
<1>2. Watched' = Watched
  BY DEF Watched
<1>3. ArrivalInv' /\ OrderInv' /\ ReaderInv'
  <2>1. \A q \in Procs : s2c[q] # <<>> => ident'[q] = ident[q] /\ st'[q] = st[q]
    BY <1>1
  <2>2. \A q \in Procs : s2c'[q] # <<>> =>
          st'[q] = "up" /\ (status' = "up" => \E f \in Watched' : conn'[f] = q)
    BY <1>1, <1>2, <2>1 DEF ReaderInv
  <2> QED
    BY <1>1, <2>1, <2>2, SameMessages DEF ReaderInv
<1>4. RecordInv'
  <2> SUFFICES /\ st'[p] = "up" \/ c2s'[p] # <<>> => ident'[p] = IdOf[p]
               /\ \A i \in 1..Len(c2s'[p]) : c2s'[p][i].op # "exit"
    BY <1>1 DEF RecordInv
  <2>1. CASE Start(p)
    BY <2>1, EmptySeq DEF Start, IInv, TypeOK, NetTypeOK
  <2>2. CASE SendId(p)
    <3>1. c2s[p] = <<>> /\ ident'[p] = IdOf[p]
      BY <2>2 DEF SendId, IInv, IdInv, TypeOK, NetTypeOK
    <3>2. [op |-> "id"] \in Lines
      BY DEF Lines
    <3>3. c2s'[p] = <<>> \/ c2s'[p] = Append(<<>>, [op |-> "id"])
      BY <2>2, <3>1 DEF SendId, Sends, IInv, TypeOK, NetTypeOK
    <3> QED
      BY <3>1, <3>2, <3>3
  <2> QED
    BY <2>1, <2>2
<1> QED
  BY <1>3, <1>4

\* The records of a process that adds one to them.
LEMMA RecordSent ==
  ASSUME IInv, RecordInv, NEW p \in Procs, NEW line \in Lines, Sends(p, line),
         st[p] = "up", UNCHANGED ident,
         \A q \in Procs \ {p} : st'[q] = st[q],
         st'[p] = "down" \/ (st'[p] = "up" /\ line.op # "exit")
  PROVE  RecordInv'
<1>1. /\ \A q \in Procs \ {p} : c2s'[q] = c2s[q]
      /\ c2s'[p] = c2s[p] \/ c2s'[p] = Append(c2s[p], line)
  BY DEF Sends, IInv, TypeOK, NetTypeOK
<1>2. ident[p] = IdOf[p] /\ \A i \in 1..Len(c2s[p]) : c2s[p][i].op # "exit"
  BY DEF RecordInv
<1>3. /\ Len(c2s[p]) \in Nat /\ Len(Append(c2s[p], line)) = Len(c2s[p]) + 1
      /\ \A i \in 1..Len(c2s[p]) : Append(c2s[p], line)[i] = c2s[p][i]
      /\ Append(c2s[p], line)[Len(c2s[p]) + 1] = line
  BY AppendProperties, LenProperties DEF IInv, TypeOK, NetTypeOK
<1>4. \A i \in 1..Len(c2s'[p]) : c2s'[p][i].op = "exit" => st'[p] = "down"
  <2>1. CASE c2s'[p] = c2s[p]
    BY <1>2, <2>1
  <2>2. CASE c2s'[p] = Append(c2s[p], line)
    <3>1. \A i \in 1..Len(c2s'[p]) : i \in 1..Len(c2s[p]) \/ i = Len(c2s[p]) + 1
      BY <1>3, <2>2
    <3> QED
      BY <1>2, <1>3, <2>2, <3>1
  <2> QED
    BY <1>1, <2>1, <2>2
<1> QED
  BY <1>1, <1>2, <1>4 DEF RecordInv

\* A process that ends reads nothing more.
LEMMA EndsDelivers ==
  ASSUME IInv, IInv', DeliveryInv, NEW p \in Procs, Exit(p) \/ Kill(p) \/ Broken(p),
         UNCHANGED serverVars
  PROVE  DeliveryInv'
<1> USE DEF DeliveryInv, serverVars
<1>1. /\ st[p] # "down" /\ st'[p] = "down" /\ s2c'[p] = <<>>
      /\ \A q \in Procs \ {p} : st'[q] = st[q] /\ s2c'[q] = s2c[q]
      /\ UNCHANGED <<ident, conn, udp, sent, status, seen>>
  BY DEF Exit, Kill, Broken, Ends, IInv, TypeOK, NetTypeOK
<1>2. Watched' = Watched
  BY DEF Watched
<1>3. RecordInv'
  <2>1. CASE Exit(p)
    <3>1. [op |-> "exit"] \in Lines
      BY DEF Lines
    <3>2. Sends(p, [op |-> "exit"]) /\ st[p] = "up"
      BY <2>1 DEF Exit
    <3> QED
      BY <1>1, <3>1, <3>2, RecordSent
  <2>2. CASE Kill(p) \/ Broken(p)
    <3>1. c2s' = c2s
      BY <2>2 DEF Kill, Broken
    <3> QED
      BY <1>1, <3>1 DEF RecordInv
  <2> QED
    BY <2>1, <2>2
<1>4. ReaderInv'
  BY <1>1, <1>2 DEF ReaderInv
<1>5. \A q \in Procs : s2c'[q] = s2c[q] \/ s2c'[q] = <<>>
  BY <1>1
<1>6. ArrivalInv'
  BY <1>1, <1>5 DEF ArrivalInv, UpTo
<1>7. OrderInv'
  BY <1>1, <1>5 DEF OrderInv, Ascending, Precedes
<1> QED
  BY <1>3, <1>4, <1>6, <1>7

\* A line typed by the user.
LEMMA TypeLineDelivers ==
  ASSUME IInv, IInv', DeliveryInv, NEW p \in Procs, TypeLine(p), UNCHANGED serverVars
  PROVE  DeliveryInv'
<1> USE DEF DeliveryInv, serverVars, TypeLine
<1>1. PICK line \in Lines : line.op # "exit" /\ Sends(p, line)
  OBVIOUS
<1>2. RecordInv'
  BY <1>1, RecordSent
<1>3. ArrivalInv' /\ OrderInv' /\ ReaderInv'
  BY SameMessages, SameReaders DEF ReaderInv, Watched
<1> QED
  BY <1>2, <1>3

\* A subscriber whose connection is closed has read everything.
LEMMA RecvEofDelivers ==
  ASSUME IInv, IInv', DeliveryInv, NEW p \in Procs, RecvEof(p), UNCHANGED serverVars
  PROVE  DeliveryInv'
<1> USE DEF DeliveryInv, serverVars, RecvEof
<1>1. st'[p] = "down" /\ \A q \in Procs \ {p} : st'[q] = st[q]
  BY DEF IInv, TypeOK, NetTypeOK
<1>2. RecordInv'
  BY <1>1 DEF RecordInv
<1>3. \A q \in Procs : s2c'[q] # <<>> =>
        st'[q] = "up" /\ (status' = "up" => \E f \in Watched' : conn'[f] = q)
  BY <1>1 DEF ReaderInv, Watched
<1>4. ArrivalInv' /\ OrderInv' /\ ReaderInv'
  BY <1>3, SameMessages DEF ReaderInv
<1> QED
  BY <1>2, <1>4

\* A line of the operator, and the steps that change nothing.
LEMMA QuietDelivers ==
  ASSUME IInv, IInv', DeliveryInv,
         UNCHANGED vars \/ (UNCHANGED serverVars /\ \E line \in StdinLines : Operator(line))
  PROVE  DeliveryInv'
<1> USE DEF DeliveryInv
<1>1. UNCHANGED <<st, ident, seen, c2s, s2c, conn, udp, sent, status, serverVars>>
  BY DEF vars, netVars, clientVars, Operator
<1>2. RecordInv'
  BY <1>1 DEF RecordInv
<1>3. ArrivalInv' /\ OrderInv' /\ ReaderInv'
  BY <1>1, SameMessages, SameReaders DEF ReaderInv, Watched, serverVars
<1> QED
  BY <1>2, <1>3

\* The message that is printed is the oldest one its client has.
LEMMA RecvDelivers ==
  ASSUME IInv, IInv', DeliveryInv, NEW p \in Procs, Recv(p), UNCHANGED serverVars
  PROVE  DeliveryInv'
<1> USE DEF DeliveryInv, serverVars
<1> DEFINE c == ident[p]
<1>1. /\ s2c[p] # <<>> /\ c \in Ids
      /\ seen'[c] = Head(s2c[p]) /\ \A d \in Ids \ {c} : seen'[d] = seen[d]
      /\ s2c'[p] = Tail(s2c[p]) /\ \A q \in Procs \ {p} : s2c'[q] = s2c[q]
      /\ UNCHANGED <<st, ident, c2s, conn, udp, sent, status>>
  BY DEF Recv, IInv, TypeOK, NetTypeOK
<1>2. s2c[p] \in Seq(Nat)
  BY BrokerAssumption, SeqMonotonic DEF IInv, TypeOK, NetTypeOK
<1>3. /\ 1 \in 1..Len(s2c[p]) /\ Head(s2c[p]) = s2c[p][1]
      /\ Ascending(Tail(s2c[p]))
      /\ \A i \in 1..Len(Tail(s2c[p])) :
           /\ i + 1 \in 1..Len(s2c[p]) /\ Tail(s2c[p])[i] = s2c[p][i + 1]
           /\ Head(s2c[p]) <= Tail(s2c[p])[i]
  BY <1>1, <1>2, TailAscends DEF OrderInv
<1>4. \A q \in Procs \ {p} : ident[q] = c => s2c[q] = <<>>
  BY <1>1 DEF ReaderInv
<1>5. RecordInv' /\ ReaderInv'
  BY <1>1 DEF RecordInv, ReaderInv, Watched
<1>6. ArrivalInv'
  <2> SUFFICES ASSUME NEW m \in {sent} \cup {udp[i].n : i \in 1..Len(udp)}
               PROVE  /\ \A d \in Ids : seen'[d] <= m
                      /\ \A q \in Procs : UpTo(s2c'[q], m)
    <3>1. udp' = udp /\ sent' = sent /\ msg_holder' = msg_holder
      BY <1>1
    <3> HIDE DEF c
    <3> QED
      BY <3>1 DEF ArrivalInv, UpTo
  <2>1. /\ \A d \in Ids : seen[d] <= m
        /\ \A q \in Procs : UpTo(s2c[q], m)
    BY DEF ArrivalInv
  <2>2. Head(s2c[p]) <= m /\ UpTo(Tail(s2c[p]), m)
    BY <1>3, <2>1 DEF UpTo
  <2>3. \A d \in Ids : seen'[d] <= m
    BY <1>1, <2>1, <2>2
  <2>4. \A q \in Procs : UpTo(s2c'[q], m)
    BY <1>1, <2>1, <2>2
  <2> QED
    BY <2>3, <2>4
<1>7. OrderInv'
  <2>1. ASSUME NEW d \in Ids
        PROVE  /\ Ascending(msg_holder'[d])
               /\ \A i \in 1..Len(msg_holder'[d]) : seen'[d] <= msg_holder'[d][i]
    BY <1>1, <1>3 DEF OrderInv, Ascending, Precedes
  <2>2. ASSUME NEW q \in Procs
        PROVE  /\ Ascending(s2c'[q]) /\ Precedes(s2c'[q], msg_holder'[ident'[q]])
               /\ \A i \in 1..Len(s2c'[q]) : seen'[ident'[q]] <= s2c'[q][i]
    <3>1. CASE q = p
      <4>1. Precedes(s2c[p], msg_holder[c])
        BY DEF OrderInv
      <4>2. Precedes(Tail(s2c[p]), msg_holder[c])
        BY <1>3, <4>1 DEF Precedes
      <4>3. /\ s2c'[q] = Tail(s2c[p]) /\ ident'[q] = c /\ msg_holder' = msg_holder
            /\ seen'[c] = Head(s2c[p])
        BY <1>1, <3>1
      <4> HIDE DEF c
      <4> QED
        BY <1>3, <4>2, <4>3
    <3>2. CASE q # p /\ ident[q] = c
      BY <1>1, <1>4, <3>2 DEF Ascending, Precedes
    <3>3. CASE q # p /\ ident[q] # c
      <4>1. ident[q] \in Ids
        BY DEF IInv, TypeOK, NetTypeOK
      <4> QED
        BY <1>1, <3>3, <4>1 DEF OrderInv
    <3> QED
      BY <3>1, <3>2, <3>3
  <2> QED
    BY <2>1, <2>2 DEF OrderInv, Ascending, Precedes
<1> QED
  BY <1>5, <1>6, <1>7

\* A datagram that arrives is newer than all before it.
LEMMA PublishDelivers ==
  ASSUME IInv, IInv', DeliveryInv, NEW t \in Topics, Publish(t), UNCHANGED serverVars
  PROVE  DeliveryInv'
<1> USE DEF DeliveryInv, serverVars
<1>1. /\ udp' = Append(udp, [topic |-> t, n |-> sent + 1]) /\ sent' = sent + 1
      /\ UNCHANGED <<st, ident, seen, c2s, s2c, conn, status>>
  BY DEF Publish
<1> DEFINE d == [topic |-> t, n |-> sent + 1]
<1>2. sent \in Nat /\ d.n = sent + 1 /\ d \in Datagrams
  BY BrokerAssumption DEF Publish, IInv, TypeOK, NetTypeOK, Datagrams
<1> HIDE DEF d
<1>3. /\ Len(udp) \in Nat /\ Len(udp') = Len(udp) + 1
      /\ \A i \in 1..Len(udp) : udp'[i] = udp[i]
      /\ udp'[Len(udp) + 1] = d
  <2>1. udp \in Seq(Datagrams) /\ udp' = Append(udp, d)
    BY <1>1 DEF IInv, TypeOK, NetTypeOK, d
  <2> QED
    BY <1>2, <2>1, AppendProperties, LenProperties
<1>4. \A i \in 1..Len(udp') :
        \/ i \in 1..Len(udp) /\ udp'[i].n = udp[i].n
        \/ i = Len(udp) + 1 /\ udp'[i].n = sent + 1
  BY <1>2, <1>3
<1>5. RecordInv' /\ ReaderInv' /\ OrderInv'
  BY <1>1 DEF RecordInv, ReaderInv, Watched, OrderInv, Ascending, Precedes
<1>6. ArrivalInv'
  <2>1. \A i \in 1..Len(udp) : udp[i].n \in Nat /\ udp[i].n <= sent
    <3>1. \A i \in 1..Len(udp) : udp[i] \in Datagrams
      BY ElementOfSeq DEF IInv, TypeOK, NetTypeOK
    <3> QED
      BY <3>1, BrokerAssumption DEF ArrivalInv, Datagrams
  <2>2. \A i, j \in 1..Len(udp') : i <= j => udp'[i].n <= udp'[j].n
    BY <1>2, <1>3, <1>4, <2>1 DEF ArrivalInv
  <2>3. /\ \A c \in Ids : seen[c] \in Nat /\ \A i \in 1..Len(msg_holder[c]) : msg_holder[c][i] \in Nat
        /\ \A p \in Procs : \A i \in 1..Len(s2c[p]) : s2c[p][i] \in Nat
    <3>1. seen \in [Ids -> 0..MaxMsg] /\ MaxMsg \in Nat
      BY BrokerAssumption DEF IInv, TypeOK, NetTypeOK
    <3>2. ASSUME NEW c \in Ids, NEW i \in 1..Len(msg_holder[c])
          PROVE  msg_holder[c][i] \in Nat
      <4>1. msg_holder[c] \in Seq(1..MaxMsg)
        BY DEF IInv, TypeOK, ServerTypeOK
      <4>2. msg_holder[c][i] \in 1..MaxMsg
        BY <4>1, ElementOfSeq
      <4> QED
        BY <3>1, <4>2
    <3>3. ASSUME NEW p \in Procs, NEW i \in 1..Len(s2c[p])
          PROVE  s2c[p][i] \in Nat
      <4>1. s2c[p] \in Seq(1..MaxMsg)
        BY DEF IInv, TypeOK, NetTypeOK
      <4>2. s2c[p][i] \in 1..MaxMsg
        BY <4>1, ElementOfSeq
      <4> QED
        BY <3>1, <4>2
    <3> QED
      BY <3>1, <3>2, <3>3
  <2>4. ASSUME NEW m \in {sent'} \cup {udp'[i].n : i \in 1..Len(udp')}
        PROVE  m \in {sent + 1} \cup {udp[i].n : i \in 1..Len(udp)}
    BY <1>1, <1>4
  <2>5. /\ \A c \in Ids : seen[c] <= sent + 1 /\ UpTo(msg_holder[c], sent + 1)
        /\ \A p \in Procs : UpTo(s2c[p], sent + 1)
    <3>1. /\ \A c \in Ids : seen[c] <= sent /\ UpTo(msg_holder[c], sent)
          /\ \A p \in Procs : UpTo(s2c[p], sent)
      BY DEF ArrivalInv
    <3>2. \A n \in Nat : n <= sent => n <= sent + 1
      BY <1>2
    <3> QED
      BY <2>3, <3>1, <3>2 DEF UpTo
  <2>6. ASSUME NEW m \in {sent + 1} \cup {udp[i].n : i \in 1..Len(udp)}
        PROVE  /\ m <= sent + 1
               /\ \A c \in Ids : seen[c] <= m /\ UpTo(msg_holder[c], m)
               /\ \A p \in Procs : UpTo(s2c[p], m)
    BY <1>2, <2>1, <2>5 DEF ArrivalInv
  <2> QED
    BY <1>1, <2>2, <2>4, <2>6 DEF ArrivalInv, UpTo
<1> QED
  BY <1>5, <1>6

-----------------------------------------------------------------------------
(* The theorems. *)

\* Every step of the system keeps what DeliveryInv says.
LEMMA NextDelivers ==
  ASSUME IInv, DeliveryInv, [Next]_vars
  PROVE  DeliveryInv'
<1>1. IInv'
  BY NextInv
<1>2. CASE ServerStep
  BY <1>1, <1>2, SelectDelivers, HandleUdpDelivers, UdpBrokenPipeDelivers,
     EndDelivers, AcceptDelivers, FirstConnectDelivers, ReconnectDelivers,
     RefuseDelivers, LineDelivers, ExitLineDelivers DEF ServerStep
<1>3. CASE SubscriberStep
  BY <1>1, <1>3, StartDelivers, TypeLineDelivers, EndsDelivers, RecvDelivers,
     RecvEofDelivers DEF SubscriberStep
<1>4. CASE OutsideStep
  BY <1>1, <1>4, PublishDelivers, QuietDelivers DEF OutsideStep
<1>5. CASE Halted \/ UNCHANGED vars
  BY <1>1, <1>5, QuietDelivers DEF Halted
<1> QED
  BY <1>2, <1>3, <1>4, <1>5 DEF Next

\* The second inductive invariant, relative to the first.
THEOREM Delivery == Spec => [](IInv /\ DeliveryInv)
<1>1. Init => IInv /\ DeliveryInv
  BY InitInv, InitDelivery
<1>2. IInv /\ DeliveryInv /\ [Next]_vars => (IInv /\ DeliveryInv)'
  BY NextInv, NextDelivers
<1> QED
  BY <1>1, <1>2, PTL DEF Spec

\* What has been printed under an id, is on its connection and is held for it
\* is in the order in which the datagrams arrived (HandleUdp lines 121-165,
\* the hand-over of lines 213-219, and the subscriber's recv).
THEOREM DeliveredInOrder == Spec => []InOrder
<1>1. ASSUME IInv, DeliveryInv
      PROVE  InOrder
  <2> SUFFICES ASSUME NEW c \in Ids, NEW w,
                      w = <<>> \/ \E p \in Procs : ident[p] = c /\ w = s2c[p]
               PROVE  Sorted(<<seen[c]>> \o w \o msg_holder[c])
    BY <1>1 DEF InOrder
  <2> USE <1>1
  <2>1. seen[c] \in Nat /\ w \in Seq(Nat) /\ msg_holder[c] \in Seq(Nat)
    <3>1. 1..MaxMsg \subseteq Nat /\ 0..MaxMsg \subseteq Nat
      BY BrokerAssumption
    <3>2. Seq(1..MaxMsg) \subseteq Seq(Nat)
      BY <3>1, SeqMonotonic
    <3>3. seen[c] \in 0..MaxMsg /\ msg_holder[c] \in Seq(1..MaxMsg)
      BY DEF IInv, TypeOK, NetTypeOK, ServerTypeOK
    <3>4. w \in Seq(1..MaxMsg)
      BY EmptySeq DEF IInv, TypeOK, NetTypeOK
    <3> QED
      BY <3>1, <3>2, <3>3, <3>4
  <2>2. /\ Ascending(w) /\ Precedes(w, msg_holder[c]) /\ Ascending(msg_holder[c])
        /\ \A i \in 1..Len(w) : seen[c] <= w[i]
        /\ \A i \in 1..Len(msg_holder[c]) : seen[c] <= msg_holder[c][i]
    <3>1. /\ Ascending(msg_holder[c])
          /\ \A i \in 1..Len(msg_holder[c]) : seen[c] <= msg_holder[c][i]
      BY DEF DeliveryInv, OrderInv
    <3>2. /\ Ascending(w) /\ Precedes(w, msg_holder[c])
          /\ \A i \in 1..Len(w) : seen[c] <= w[i]
      <4>1. CASE w = <<>>
        BY <4>1 DEF Ascending, Precedes
      <4>2. CASE \E p \in Procs : ident[p] = c /\ w = s2c[p]
        BY <4>2 DEF DeliveryInv, OrderInv
      <4> QED
        BY <4>1, <4>2
    <3> QED
      BY <3>1, <3>2
  <2> DEFINE s == <<seen[c]>>
  <2>3. s \in Seq(Nat) /\ Len(s) = 1 /\ s[1] = seen[c]
    BY <2>1
  <2> HIDE DEF s
  <2>4. Ascending(s) /\ Precedes(s, w) /\ Precedes(s, msg_holder[c])
    BY <2>1, <2>2, <2>3 DEF Ascending, Precedes
  <2>5. Ascending(s \o w) /\ s \o w \in Seq(Nat)
    BY <2>1, <2>2, <2>3, <2>4, ConcatAscends, ConcatProperties
  <2>6. Precedes(s \o w, msg_holder[c])
    <3>1. \A i \in 1..Len(s \o w) :
            \/ i \in 1..Len(s) /\ (s \o w)[i] = s[i]
            \/ i - Len(s) \in 1..Len(w) /\ (s \o w)[i] = w[i - Len(s)]
      BY <2>1, <2>3, ConcatElement
    <3>2. ASSUME NEW i \in 1..Len(s \o w), NEW j \in 1..Len(msg_holder[c])
          PROVE  (s \o w)[i] <= msg_holder[c][j]
      <4>1. CASE i \in 1..Len(s) /\ (s \o w)[i] = s[i]
        BY <2>4, <4>1 DEF Precedes
      <4>2. CASE i - Len(s) \in 1..Len(w) /\ (s \o w)[i] = w[i - Len(s)]
        BY <2>2, <4>2 DEF Precedes
      <4> QED
        BY <3>1, <4>1, <4>2
    <3> QED
      BY <3>2 DEF Precedes
  <2>7. /\ Ascending((s \o w) \o msg_holder[c])
        /\ (s \o w) \o msg_holder[c] \in Seq(Nat)
    BY <2>1, <2>2, <2>5, <2>6, ConcatAscends, ConcatProperties
  <2> QED
    BY <2>7, AscendingSorted DEF s
<1> QED
  BY <1>1, Delivery, PTL
==============================================================================
