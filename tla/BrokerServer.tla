---------------------------- MODULE BrokerServer -----------------------------
(* The broker, Tema_2/server.cpp: one thread, a select loop.  A pass of the *)
(* loop is Select, which leaves the readable descriptors in tmp_fds, and    *)
(* then one step per descriptor of tmp_fds, lowest first.  Each step is the *)
(* whole branch of the loop body for that descriptor; only the branch for   *)
(* the listening socket is two steps, Accept and then one of FirstConnect,  *)
(* Reconnect and Refuse, because it blocks in recv (line 180) in between.   *)
EXTENDS BrokerNet

VARIABLES read_fds,    \* the descriptors the server selects on
          tmp_fds,     \* what is left to serve of the current pass
          maxfd,       \* the largest descriptor of read_fds
          newsockfd,   \* accepted and waiting for its id, or NoFd
          clients,     \* the clients map
          topics_subs, \* the topics_subs map
          msg_holder   \* the msg_holder map

serverVars == <<read_fds, tmp_fds, maxfd, newsockfd, clients, topics_subs,
                msg_holder>>

\* struct client; an entry that is not in the map has no descriptor.
NoClient == [connected |-> FALSE, sf |-> FALSE, fd |-> NoFd]
Client == [connected : BOOLEAN, sf : BOOLEAN, fd : ClientFds \cup {NoFd}]

\* A key of topics_subs: a topic, and whether the text read from the client
\* still ends in the newline of the line.  A topic without subscribers and
\* a topic that is not in the map behave the same (lines 133-136, 299-310).
Keys == Topics \X BOOLEAN
Key(topic) == <<topic, FALSE>>

ServerTypeOK ==
  /\ read_fds \subseteq {STDIN_FILENO, sockfd_udp, sockfd_tcp} \cup ClientFds
  /\ tmp_fds \subseteq {STDIN_FILENO, sockfd_udp, sockfd_tcp} \cup ClientFds
  /\ maxfd \in {sockfd_tcp} \cup ClientFds
  /\ newsockfd \in ClientFds \cup {NoFd}
  /\ clients \in [Ids -> Client]
  /\ topics_subs \in [Keys -> [Ids -> Client]]
  /\ msg_holder \in [Ids -> Seq(1..MaxMsg)]

ServerInit ==
  /\ read_fds = {STDIN_FILENO, sockfd_udp, sockfd_tcp}
  /\ tmp_fds = {}
  /\ maxfd = sockfd_tcp
  /\ newsockfd = NoFd
  /\ clients = [c \in Ids |-> NoClient]
  /\ topics_subs = [k \in Keys |-> [c \in Ids |-> NoClient]]
  /\ msg_holder = [c \in Ids |-> <<>>]

Known(c) == clients[c].fd # NoFd

\* A plausible bug: the loop stops at the first entry, whatever its descriptor.
FirstOfAll(map, f) ==
  {c \in Ids : map[c].fd # NoFd /\ \A d \in Ids : map[d].fd # NoFd => c <= d}

\* The loops over a map that stop at the first entry whose fd is f: at most
\* one id, the least in the order of the keys.
FirstWith(map, f) ==
  {c \in Ids : map[c].fd = f /\ \A d \in Ids : map[d].fd = f => c <= d}

\* The process ends: the kernel closes its sockets, its memory is gone.
ServerEnds(how) ==
  /\ status' = how
  /\ conn' = [f \in ClientFds |-> NoProc]
  /\ reset' = {}
  /\ backlog' = <<>>
  /\ udp' = <<>>
  /\ stdin' = "none"
  /\ c2s' = [p \in Procs |-> <<>>]
  /\ read_fds' = {STDIN_FILENO, sockfd_udp, sockfd_tcp}
  /\ tmp_fds' = {}
  /\ maxfd' = sockfd_tcp
  /\ newsockfd' = NoFd
  /\ clients' = [c \in Ids |-> NoClient]
  /\ topics_subs' = [k \in Keys |-> [c \in Ids |-> NoClient]]
  /\ msg_holder' = [c \in Ids |-> <<>>]
  /\ UNCHANGED <<clientVars, sent>>

-----------------------------------------------------------------------------
(* A pass of the loop. *)

\* Plausible bugs: the pass serves the whole read set; the loop stops before maxfd;
\* the UDP socket is not in the set.
AllFds == {f \in read_fds : f <= maxfd}
FdsBelowMax == {f \in read_fds : f < maxfd /\ Readable(f)}
FdsWithoutUdp == {f \in read_fds \ {sockfd_udp} : f <= maxfd /\ Readable(f)}

\* What select leaves in tmp_fds, up to the bound of the for loop.
ReadyFds == {f \in read_fds : f <= maxfd /\ Readable(f)}

Select ==
  /\ status = "up" /\ newsockfd = NoFd /\ tmp_fds = {}
  /\ ReadyFds # {}
  /\ tmp_fds' = ReadyFds
  /\ UNCHANGED <<read_fds, maxfd, newsockfd, clients, topics_subs, msg_holder>>
  /\ UNCHANGED netVars

\* i is the next descriptor of the for loop of line 107.
Serving(i) ==
  /\ status = "up" /\ newsockfd = NoFd
  /\ i \in tmp_fds /\ \A j \in tmp_fds : i <= j

\* A line from the operator: "exit" ends the loop; any other line falls
\* through to the recv of line 251 on standard input, which fails.
HandleStdin ==
  /\ Serving(STDIN_FILENO)
  /\ ServerEnds(IF stdin = "exit" THEN "stopped" ELSE "die")
  /\ UNCHANGED s2c

-----------------------------------------------------------------------------
(* A datagram: sent to the connected entries of its topic, held for the     *)
(* disconnected ones with SF = 1.                                           *)

\* Entries of the topic that are sent the datagram on p's connection.
SentOn(key, p) ==
  {c \in Ids : LET e == topics_subs[key][c]
               IN e.connected /\ e.fd \in ClientFds /\ conn[e.fd] = p}

\* One copy of message n per entry, for the entries in ids.
CopiesFor(key, n, ids) ==
  [p \in Procs |-> [j \in 1..Cardinality(SentOn(key, p) \cap ids) |-> n]]

\* A plausible bug: the SF of the entry is not looked at.
HeldWithoutSf(key) == {c \in Ids : LET e == topics_subs[key][c]
                                   IN e.fd # NoFd /\ ~e.connected}

Held(key) == {c \in Ids : LET e == topics_subs[key][c]
                          IN e.fd # NoFd /\ ~e.connected /\ e.sf}

\* A plausible bug: a stack instead of a queue.
HoldingFirst(key, n) ==
  [c \in Ids |-> IF c \in Held(key) THEN <<n>> \o msg_holder[c]
                 ELSE msg_holder[c]]

Holding(key, n) ==
  [c \in Ids |-> IF c \in Held(key) THEN Append(msg_holder[c], n)
                 ELSE msg_holder[c]]

HandleUdp ==
  /\ Serving(sockfd_udp)
  /\ LET key == Key(Head(udp).topic)
         n == Head(udp).n
     IN /\ SendAll(CopiesFor(key, n, Ids))
        /\ msg_holder' = Holding(key, n)
  /\ udp' = Tail(udp)
  /\ tmp_fds' = tmp_fds \ {sockfd_udp}
  /\ UNCHANGED <<read_fds, maxfd, newsockfd, clients, topics_subs>>
  /\ UNCHANGED <<clientVars, c2s, backlog, conn, sent, stdin, status>>

\* The send to entry c of line 156 raises SIGPIPE: the entries before c have
\* been served, and the server is dead.
UdpBrokenPipe ==
  /\ Serving(sockfd_udp)
  /\ LET key == Key(Head(udp).topic)
         before(c) == {d \in Ids : d < c}
     IN \E p \in Procs : \E c \in SentOn(key, p) :
          /\ PipeMayBreak(p, SentOn(key, p) \cap before(c) # {})
          /\ s2c' = Received(CopiesFor(key, Head(udp).n, before(c)))
  /\ ServerEnds("sigpipe")

-----------------------------------------------------------------------------
(* A connection request.                                                    *)

Accept ==
  /\ Serving(sockfd_tcp)
  /\ \E f \in ClientFds :
       /\ LowestFree(f)
       /\ newsockfd' = f
       /\ conn' = [conn EXCEPT ![f] = Head(backlog)]
  /\ backlog' = Tail(backlog)
  /\ tmp_fds' = tmp_fds \ {sockfd_tcp}
  /\ UNCHANGED <<read_fds, maxfd, clients, topics_subs, msg_holder>>
  /\ UNCHANGED <<clientVars, c2s, s2c, reset, udp, sent, stdin, status>>

\* The recv of line 180 returns to the server: the id p has sent, or nothing
\* if p closed its end first, which reads as the empty id.
ReceivesId(p, id) ==
  /\ status = "up" /\ newsockfd # NoFd
  /\ p = conn[newsockfd] /\ HasInput(p)
  /\ id = ident[p]

\* Plausible bugs: maxfd forgets the new descriptor; it is kept as select's count.
MaxfdKept == maxfd
MaxfdAsCount == newsockfd + 1

NewMaxfd == IF newsockfd > maxfd THEN newsockfd ELSE maxfd

\* The id is read; FD_SET, the update of maxfd and of the client's record,
\* in either branch.
Register(p, id) ==
  /\ c2s' = [c2s EXCEPT ![p] = IF @ = <<>> THEN <<>> ELSE Tail(@)]
  /\ read_fds' = read_fds \cup {newsockfd}
  /\ maxfd' = NewMaxfd
  /\ clients' = [clients EXCEPT ![id].fd = newsockfd, ![id].connected = TRUE]
  /\ newsockfd' = NoFd

\* A plausible bug: the connected field is not tested.
AnyAway(id) == TRUE

Away(id) == ~clients[id].connected

FirstConnect ==
  \E p \in Procs, id \in Ids :
    /\ ReceivesId(p, id)
    /\ ~Known(id)
    /\ Register(p, id)
    /\ UNCHANGED <<tmp_fds, topics_subs, msg_holder>>
    /\ UNCHANGED <<clientVars, s2c, reset, backlog, conn, udp, sent, stdin,
                   status>>

\* Plausible bugs: the copies keep the old descriptor; they stay disconnected.
ReturnedKeepsFd(id) ==
  [k \in Keys |->
    [c \in Ids |-> IF c = id /\ topics_subs[k][c].fd # NoFd
                   THEN [topics_subs[k][c] EXCEPT !.connected = TRUE]
                   ELSE topics_subs[k][c]]]
ReturnedStillAway(id) ==
  [k \in Keys |->
    [c \in Ids |-> IF c = id /\ topics_subs[k][c].fd # NoFd
                   THEN [topics_subs[k][c] EXCEPT !.fd = newsockfd]
                   ELSE topics_subs[k][c]]]

\* The loop of lines 201-209: topics_subs with id's entries connected again.
Returned(id) ==
  [k \in Keys |->
    [c \in Ids |->
      IF c = id /\ topics_subs[k][c].fd # NoFd
        THEN [topics_subs[k][c] EXCEPT !.fd = newsockfd, !.connected = TRUE]
        ELSE topics_subs[k][c]]]

\* A known client comes back: its record and its entries under every topic
\* get the new descriptor, and what was held for it is sent.
Reconnect ==
  \E p \in Procs, id \in Ids :
    /\ ReceivesId(p, id)
    /\ Known(id) /\ Away(id)
    /\ Register(p, id)
    /\ topics_subs' = Returned(id)
    /\ msg_holder' = [msg_holder EXCEPT ![id] = <<>>]
    /\ SendAll([q \in Procs |-> IF q = p THEN msg_holder[id] ELSE <<>>])
    /\ UNCHANGED tmp_fds
    /\ UNCHANGED <<clientVars, backlog, conn, udp, sent, stdin, status>>

\* The same, when the client is already gone and a send of line 217 raises
\* SIGPIPE.
ReconnectBrokenPipe ==
  \E p \in Procs, id \in Ids :
    /\ ReceivesId(p, id)
    /\ Known(id) /\ Away(id)
    /\ msg_holder[id] # <<>>
    /\ PipeMayBreak(p, Len(msg_holder[id]) > 1)
    /\ ServerEnds("sigpipe")
    /\ UNCHANGED s2c

\* The id belongs to a client the server takes to be connected.
Refuse ==
  \E p \in Procs, id \in Ids :
    /\ ReceivesId(p, id)
    /\ Known(id) /\ ~Away(id)
    /\ conn' = [conn EXCEPT ![newsockfd] = NoProc]
    /\ c2s' = [c2s EXCEPT ![p] = <<>>]
    /\ reset' = reset \ {p}
    /\ newsockfd' = NoFd
    /\ UNCHANGED <<read_fds, tmp_fds, maxfd, clients, topics_subs, msg_holder>>
    /\ UNCHANGED <<clientVars, s2c, backlog, udp, sent, stdin, status>>

-----------------------------------------------------------------------------
(* A record on a client's socket.                                           *)

\* Descriptor i is served and the record read from it is `line'.
ReceivesLine(i, line) ==
  /\ Serving(i)
  /\ conn[i] # NoProc /\ c2s[conn[i]] # <<>>
  /\ line = Head(c2s[conn[i]])
  /\ c2s' = [c2s EXCEPT ![conn[i]] = Tail(@)]
  /\ tmp_fds' = tmp_fds \ {i}

\* Plausible bugs: the record, or the copies, are left as they are.
RecordKept(i) == clients
CopiesKept(i) == topics_subs

\* The loop of lines 261-267: the first record with fd = i, if any.
RecordLeft(i) ==
  [c \in Ids |-> IF c \in FirstWith(clients, i)
                 THEN [clients[c] EXCEPT !.connected = FALSE]
                 ELSE clients[c]]

\* The loop of lines 269-275: every entry with fd = i is disconnected.
Departed(i) ==
  [k \in Keys |->
    [c \in Ids |-> IF topics_subs[k][c].fd = i
                   THEN [topics_subs[k][c] EXCEPT !.connected = FALSE]
                   ELSE topics_subs[k][c]]]

ExitLine ==
  \E i \in ClientFds, line \in Lines :
    /\ ReceivesLine(i, line)
    /\ line.op = "exit"
    /\ conn' = [conn EXCEPT ![i] = NoProc]
    /\ reset' = reset \ {conn[i]}
    /\ read_fds' = read_fds \ {i}
    /\ clients' = RecordLeft(i)
    /\ topics_subs' = Departed(i)
    /\ UNCHANGED <<maxfd, newsockfd, msg_holder>>
    /\ UNCHANGED <<clientVars, s2c, backlog, udp, sent, stdin, status>>

\* The record with fd = i gets the SF of the line, and a copy of it goes
\* under the topic; insert keeps an entry that is already there.
SubscribeLine ==
  \E i \in ClientFds, line \in Lines :
    /\ ReceivesLine(i, line)
    /\ line.op = "subscribe"
    /\ LET cl == FirstWith(clients, i)
           key == Key(line.topic)
       IN /\ clients' = [c \in Ids |-> IF c \in cl
                                       THEN [clients[c] EXCEPT !.sf = line.sf]
                                       ELSE clients[c]]
          /\ topics_subs' =
               [topics_subs EXCEPT ![key] =
                 [c \in Ids |-> IF c \in cl /\ topics_subs[key][c].fd = NoFd
                                THEN [clients[c] EXCEPT !.sf = line.sf]
                                ELSE topics_subs[key][c]]]
    /\ UNCHANGED <<read_fds, maxfd, newsockfd, msg_holder>>
    /\ UNCHANGED <<clientVars, s2c, reset, backlog, conn, udp, sent, stdin,
                   status>>

\* strtok splits on blanks only: a topic that ends the line keeps its
\* newline, and the key that is looked up is not the one subscribed to.
UnsubscribeLine ==
  \E i \in ClientFds, line \in Lines :
    /\ ReceivesLine(i, line)
    /\ line.op = "unsubscribe"
    /\ LET key == <<line.topic, line.eol>>
       IN topics_subs' =
            [topics_subs EXCEPT ![key] =
              [c \in Ids |-> IF c \in FirstWith(topics_subs[key], i)
                             THEN NoClient
                             ELSE topics_subs[key][c]]]
    /\ UNCHANGED <<read_fds, maxfd, newsockfd, clients, msg_holder>>
    /\ UNCHANGED <<clientVars, s2c, reset, backlog, conn, udp, sent, stdin,
                   status>>

\* A plausible bug: an end of stream is handled as "exit" is.
EndOfStreamAsExit ==
  \E i \in ClientFds :
    /\ Serving(i)
    /\ conn[i] # NoProc /\ c2s[conn[i]] = <<>> /\ st[conn[i]] = "down"
    /\ conn' = [conn EXCEPT ![i] = NoProc]
    /\ reset' = reset \ {conn[i]}
    /\ read_fds' = read_fds \ {i} /\ tmp_fds' = tmp_fds \ {i}
    /\ clients' = RecordLeft(i) /\ topics_subs' = Departed(i)
    /\ UNCHANGED <<maxfd, newsockfd, msg_holder, c2s>>
    /\ UNCHANGED <<clientVars, s2c, backlog, udp, sent, stdin, status>>

\* The client has closed without "exit": recv returns 0, strtok finds no
\* token and strncmp is called on NULL.  After a reset it returns -1 (DIE).
EndOfStream ==
  \E i \in ClientFds :
    /\ Serving(i)
    /\ conn[i] # NoProc /\ c2s[conn[i]] = <<>> /\ st[conn[i]] = "down"
    /\ \E how \in {"sigsegv", "die"} :
         /\ how = "die" => conn[i] \in reset
         /\ ServerEnds(how)
    /\ UNCHANGED s2c

ServerStep ==
  \/ Select \/ HandleStdin
  \/ HandleUdp \/ UdpBrokenPipe
  \/ Accept \/ FirstConnect \/ Reconnect \/ ReconnectBrokenPipe \/ Refuse
  \/ ExitLine \/ SubscribeLine \/ UnsubscribeLine \/ EndOfStream
==============================================================================
