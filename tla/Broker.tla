------------------------------- MODULE Broker --------------------------------
(* The publish/subscribe system of Tema_2: the broker, its subscribers and  *)
(* the kernel between them, and what makes it correct.                      *)
EXTENDS BrokerServer, Subscriber

vars == <<netVars, serverVars>>

Init == NetInit /\ ServerInit

SubscriberStep ==
  \E p \in Procs :
    \/ Start(p) /\ UNCHANGED serverVars
    \/ SendId(p) /\ UNCHANGED serverVars
    \/ TypeLine(p) /\ UNCHANGED serverVars
    \/ Exit(p) /\ UNCHANGED serverVars
    \/ Kill(p) /\ UNCHANGED serverVars
    \/ Recv(p) /\ UNCHANGED serverVars
    \/ RecvEof(p) /\ UNCHANGED serverVars
    \/ Broken(p) /\ UNCHANGED serverVars

OutsideStep ==
  \/ \E t \in Topics : Publish(t) /\ UNCHANGED serverVars
  \/ \E line \in StdinLines : Operator(line) /\ UNCHANGED serverVars

\* The server has ended and so have all subscribers.
Halted ==
  /\ status # "up" /\ \A p \in Procs : st[p] = "down"
  /\ UNCHANGED vars

Next == ServerStep \/ SubscriberStep \/ OutsideStep \/ Halted

Spec == Init /\ [][Next]_vars

\* The scheduler runs the server, and a subscriber that has something to do
\* without its user: connect is followed by send in the program, and select
\* wakes it when a message or the end of the stream is there (its user does
\* not type without pause: standard input is looked at first).  Users,
\* publishers and the operator do as they like.
Fairness ==
  /\ WF_vars(ServerStep)
  /\ \A p \in Procs :
       WF_vars((SendId(p) \/ Recv(p) \/ RecvEof(p)) /\ UNCHANGED serverVars)

FairSpec == Spec /\ Fairness

-----------------------------------------------------------------------------
\* The types of all variables: a descriptor that is accepted, watched or
\* kept in a record is one the kernel hands out, maxfd is one of them.
TypeOK == NetTypeOK /\ ServerTypeOK

Watched == read_fds \cap ClientFds

\* f is served as a connection of id c.
Carries(f, c) == f \in Watched /\ conn[f] # NoProc /\ ident[conn[f]] = c
Live(c) == \E f \in ClientFds : Carries(f, c)

\* The select set (lines 193-196, 231-234, 257-258): the server watches
\* exactly the connections it has open, but for the one whose id it waits
\* for, and maxfd reaches all of them; one it forgot would never be served,
\* one it kept after close would be read as somebody else's.
WatchedFds ==
  /\ Watched = OpenFds \ {newsockfd}
  /\ \A f \in read_fds : f <= maxfd

\* A pass works from a snapshot (line 102) while its own steps accept and
\* close descriptors: whatever is left of it can still be read without
\* blocking the whole server.
TmpFdsServable == \A f \in tmp_fds : Readable(f)

\* "a new client with the id of an existing, connected client is refused"
\* (lines 189-228): no two connections are served under one id, and the
\* record of an id that is served has that connection's descriptor.
OneConnectionPerId ==
  \A f \in Watched, c \in Ids :
    Carries(f, c) => clients[c].fd = f /\ clients[c].connected

\* topics_subs holds copies of the records of clients, one per topic, and
\* updates them one by one (lines 201-209, 269-275).  A copy the record
\* disagrees with sends to the wrong descriptor or holds messages for a
\* client that is there.
CopiesAgree ==
  \A k \in Keys, c \in Ids :
    LET e == topics_subs[k][c]
    IN e.fd # NoFd =>
         /\ e.fd = clients[c].fd
         /\ e.connected => clients[c].connected
         /\ Live(c) => e.connected

\* send (line 156) is only called on descriptors that are open and watched:
\* closing a socket reaches every copy that names its descriptor, whichever
\* client the copy is for.
SendsOnlyToOpen ==
  \A k \in Keys, c \in Ids :
    topics_subs[k][c].connected => topics_subs[k][c].fd \in Watched

\* Messages are held only for clients that are away (lines 155-163, 213-219):
\* a client that is served never has messages waiting for its next visit.
StoreOnlyOffline == \A c \in Ids : msg_holder[c] # <<>> => ~Live(c)

\* Messages reach each client in the order they arrived (UDP socket, queue
\* of held messages, TCP connection): what it has printed, then what is on
\* its connection, then what is held for it never goes back in order, also
\* across its departures and returns.
Sorted(s) == \A i \in 1..(Len(s) - 1) : s[i] <= s[i + 1]

InOrder ==
  \A c \in Ids :
    LET wires == {<<>>} \cup {s2c[p] : p \in {q \in Procs : ident[q] = c}}
    IN \A w \in wires : Sorted(<<seen[c]>> \o w \o msg_holder[c])

\* An "exit" is followed by disconnection (lines 255-275): an id the server
\* takes to be connected, and so refuses to anybody else, has a connection.
NoGhosts == \A c \in Ids : clients[c].connected => Live(c)

\* A line changes the subscriptions of the client that sent it and of nobody
\* else (lines 285-320), as long as no other record has the descriptor the
\* line came on.
OwnSubscriptions ==
  [][\A f \in ClientFds, c \in Ids :
       /\ Carries(f, c)
       /\ \A d \in Ids \ {c} : clients[d].fd # f
       /\ f \in tmp_fds \ tmp_fds' /\ conn'[f] = conn[f]
       => \A d \in Ids \ {c}, k \in Keys :
            topics_subs'[k][d] = topics_subs[k][d]]_vars

\* The server ends by the operator's "exit" and in no other way.
EndsOnlyOnExit == status \in {"up", "stopped"}

\* A client that unsubscribes from a topic is not sent what is published
\* there: handling its line leaves it without an entry (lines 281-290).
UnsubscribeRemoves ==
  [][\A f \in ClientFds, c \in Ids, t \in Topics :
       /\ Carries(f, c)
       /\ f \in tmp_fds \ tmp_fds' /\ conn'[f] = conn[f]
       /\ LET line == Head(c2s[conn[f]])
          IN line.op = "unsubscribe" /\ line.topic = t
       => topics_subs'[Key(t)][c].fd = NoFd]_vars

-----------------------------------------------------------------------------
(* The inductive invariant behind the safety invariants above.              *)

\* A pass only serves descriptors that are still in read_fds; the descriptor
\* that waits for its id is open and not yet one of them.
PassInv ==
  /\ tmp_fds \subseteq read_fds
  /\ newsockfd # NoFd => newsockfd \in OpenFds

\* A connection is in one place: once in the backlog or at one descriptor.
PlaceInv ==
  /\ \A f, g \in OpenFds : conn[f] = conn[g] => f = g
  /\ \A i, j \in 1..Len(backlog) : backlog[i] = backlog[j] => i = j
  /\ \A i \in 1..Len(backlog), f \in ClientFds : conn[f] # backlog[i]

\* A process that has not sent its id has sent nothing, and is not served:
\* the id of a served connection does not change any more.
IdInv ==
  /\ \A p \in Procs : st[p] = "syn" => c2s[p] = <<>>
  /\ \A f \in Watched \cap OpenFds : st[conn[f]] # "syn"

\* Messages are held only for ids that are in the clients map.
StoreInv == \A c \in Ids : msg_holder[c] # <<>> => Known(c) /\ ~Live(c)

IInv ==
  /\ TypeOK
  /\ PassInv
  /\ PlaceInv
  /\ IdInv
  /\ WatchedFds
  /\ TmpFdsServable
  /\ OneConnectionPerId
  /\ CopiesAgree
  /\ SendsOnlyToOpen
  /\ StoreInv

\* The id the server has read is that of the process at the other end, and
\* "exit" is the last record of a process: who sends it is gone.
RecordInv ==
  \A p \in Procs :
    /\ st[p] = "up" \/ c2s[p] # <<>> => ident[p] = IdOf[p]
    /\ \A i \in 1..Len(c2s[p]) : c2s[p][i].op = "exit" => st[p] = "down"

\* Unread messages belong to a process that runs and that the server, as long
\* as it is up, watches; there is one such process per id.
ReaderInv ==
  /\ \A p \in Procs : s2c[p] # <<>> =>
       st[p] = "up" /\ (status = "up" => \E f \in Watched : conn[f] = p)
  /\ \A p, q \in Procs :
       s2c[p] # <<>> /\ s2c[q] # <<>> /\ ident[p] = ident[q] => p = q

Ascending(s) == \A i, j \in 1..Len(s) : i <= j => s[i] <= s[j]
Precedes(s, t) == \A i \in 1..Len(s), j \in 1..Len(t) : s[i] <= t[j]
UpTo(s, n) == \A i \in 1..Len(s) : s[i] <= n

\* The datagrams at the socket are in order, and newer than all that has been
\* printed, sent or held.
ArrivalInv ==
  /\ \A i, j \in 1..Len(udp) : i <= j => udp[i].n <= udp[j].n
  /\ \A n \in {sent} \cup {udp[i].n : i \in 1..Len(udp)} :
       /\ n <= sent
       /\ \A c \in Ids : seen[c] <= n /\ UpTo(msg_holder[c], n)
       /\ \A p \in Procs : UpTo(s2c[p], n)

\* InOrder, without adjacency: any two messages of a client, wherever they are.
OrderInv ==
  /\ \A c \in Ids :
       /\ Ascending(msg_holder[c])
       /\ \A i \in 1..Len(msg_holder[c]) : seen[c] <= msg_holder[c][i]
  /\ \A p \in Procs :
       /\ Ascending(s2c[p]) /\ Precedes(s2c[p], msg_holder[ident[p]])
       /\ \A i \in 1..Len(s2c[p]) : seen[ident[p]] <= s2c[p][i]

DeliveryInv == RecordInv /\ ReaderInv /\ ArrivalInv /\ OrderInv

\* The loops over clients find the client a descriptor is served for, and
\* nobody else: no record of another client still names it.  This is what
\* the server relies on, and what it does not ensure (lines 255-267).
OwnDescriptor ==
  \A f \in ClientFds, c \in Ids \ {EmptyId} :
    Carries(f, c) => \A d \in Ids \ {c} : clients[d].fd # f

\* The empty id is that of a peer that closed before it sent one: it is never
\* seen to leave.
EmptyInv == Known(EmptyId) => Carries(clients[EmptyId].fd, EmptyId)

\* Only ids of processes are registered.
IdentInv ==
  /\ \A p \in Procs : ident[p] \in {EmptyId, IdOf[p]}
  /\ \A c \in Ids \ {EmptyId} : Known(c) => \E p \in Procs : IdOf[p] = c

-----------------------------------------------------------------------------
(* Liveness, under FairSpec. *)

\* A datagram does not stay at the UDP socket, whatever the clients do: each
\* pass of the loop serves every descriptor once.
DatagramServed ==
  \A n \in 1..MaxMsg :
    (\E i \in 1..Len(udp) : udp[i].n = n)
      ~> (\A i \in 1..Len(udp) : udp[i].n # n)

\* A connection request is answered: the client is registered or its
\* connection is closed, though accepting one client blocks the server
\* until that client's id has arrived.
RequestAnswered ==
  \A p \in Procs :
    Queued(p) ~> (~Open(p) \/ \E f \in Watched : conn[f] = p)

\* The descriptor of a client that has left is released.
DescriptorReleased ==
  \A p \in Procs : (st[p] = "down" /\ Open(p)) ~> ~Open(p)

\* When the server has ended, all its clients end.
EveryoneLeaves == (status # "up") ~> (\A p \in Procs : st[p] = "down")

-----------------------------------------------------------------------------
(* The broker implements StoreForward: its view of client c is that of the  *)
(* connection the server watches for c.                                     *)

PeersOf(c) == {conn[f] : f \in {g \in ClientFds : Carries(g, c)}}

phaseOf(c) == CASE PeersOf(c) = {} -> "away"
                [] \E p \in PeersOf(c) : st[p] = "up" -> "here"
                [] OTHER -> "gone"

subsOf(c, t) == LET e == topics_subs[Key(t)][c]
                IN CASE e.fd = NoFd -> "no"
                     [] e.fd # NoFd /\ e.sf -> "store"
                     [] OTHER -> "drop"

wireOf(c) == IF phaseOf(c) = "here"
               THEN s2c[CHOOSE p \in PeersOf(c) : st[p] = "up"] ELSE <<>>

Service == INSTANCE StoreForward WITH
             Numbers <- 1..MaxMsg,
             phase <- [c \in Ids |-> phaseOf(c)],
             subs <- [c \in Ids |-> [t \in Topics |-> subsOf(c, t)]],
             held <- msg_holder,
             wire <- [c \in Ids |-> wireOf(c)]

\* Every step of the broker is a step of StoreForward, or none: in particular
\* every subscriber that is there is sent each message once, what is held is
\* handed over whole and in order, and nothing else touches it.
ImplementsStoreForward == Service!Spec
==============================================================================
