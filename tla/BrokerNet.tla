------------------------------ MODULE BrokerNet ------------------------------
(* What the broker (Tema_2/server.cpp) and its subscribers                  *)
(* (Tema_2/subscriber.cpp) share: the kernel's sockets.  The kernel is not  *)
(* in the repository; it is modelled from the calls the two programs make:  *)
(* connect, accept, send, recv, close, select and the descriptor table.     *)
(*                                                                          *)
(* A process slot p \in Procs stands for one run of the subscriber program  *)
(* at a time and for its one TCP connection.  A client id is its rank in    *)
(* the order of std::string keys, the order in which the broker's maps are  *)
(* walked; 0 is the empty string, the id the broker records for a peer that *)
(* closes before it sends one.  A datagram is its topic and its number in   *)
(* the order of arrival.                                                    *)
EXTENDS Integers, Sequences, FiniteSets

CONSTANTS Ids,         \* client ids, as ranks in string order
          Procs,       \* subscriber processes
          NoProc,      \* "no process": the descriptor is free
          IdOf,        \* the id each process is started with (argv[1])
          Topics,      \* topic names
          MaxFd,       \* bound: the largest descriptor the kernel hands out
          MaxMsg,      \* bound: datagrams per behaviour
          MaxPending,  \* bound: unread records per socket
          Killable,    \* processes that may end without typing "exit"
          StdinLines,  \* what the operator may type at the server
          LineEnds     \* may an unsubscribe line end right after the topic?

EmptyId == 0
NoFd == 0
STDIN_FILENO == 0
sockfd_udp == 3
sockfd_tcp == 4
ClientFds == 5..MaxFd
Backlog == 5

ASSUME BrokerAssumption ==
  /\ Ids \subseteq Nat /\ EmptyId \in Ids /\ IsFiniteSet(Ids)
  /\ IdOf \in [Procs -> Ids \ {EmptyId}]
  /\ NoProc \notin Procs
  /\ MaxFd \in Nat /\ MaxMsg \in Nat /\ MaxPending \in Nat
  /\ Killable \subseteq Procs
  /\ StdinLines \subseteq {"exit", "other"}
  /\ LineEnds \subseteq BOOLEAN

Lines ==  \* the records a subscriber sends: its id, then the lines typed
  [op : {"id", "exit"}]
    \cup [op : {"subscribe"}, topic : Topics, sf : BOOLEAN]
    \cup [op : {"unsubscribe"}, topic : Topics, eol : LineEnds]

VARIABLES st,       \* per process: "down", "syn" (connected), "up" (id sent)
          ident,    \* per process: the id its connection has carried, if any
          seen,     \* per id: the last message printed under it
          c2s,      \* per process: records sent and not read by the server
          s2c,      \* per process: messages sent to it and not read
          reset,    \* processes whose open connection the kernel has reset
          backlog,  \* connections waiting for accept
          conn,     \* the server's descriptor table: descriptor -> process
          udp,      \* datagrams waiting at the UDP socket
          sent,     \* datagrams that have arrived so far
          stdin,    \* the line waiting at the server's standard input
          status    \* the server: "up", or how it ended

\* What the subscribers alone change.
clientVars == <<st, ident, seen>>
netVars == <<clientVars, c2s, s2c, reset, backlog, conn, udp, sent, stdin,
             status>>

Datagrams == [topic : Topics, n : 1..MaxMsg]

NetTypeOK ==
  /\ st \in [Procs -> {"down", "syn", "up"}]
  /\ ident \in [Procs -> Ids]
  /\ seen \in [Ids -> 0..MaxMsg]
  /\ c2s \in [Procs -> Seq(Lines)]
  /\ s2c \in [Procs -> Seq(1..MaxMsg)]
  /\ reset \subseteq Procs
  /\ backlog \in Seq(Procs)
  /\ conn \in [ClientFds -> Procs \cup {NoProc}]
  /\ udp \in Seq(Datagrams)
  /\ sent \in 0..MaxMsg
  /\ stdin \in {"none", "exit", "other"}
  /\ status \in {"up", "stopped", "die", "sigsegv", "sigpipe"}

NetInit ==
  /\ st = [p \in Procs |-> "down"]
  /\ ident = [p \in Procs |-> EmptyId]
  /\ seen = [c \in Ids |-> 0]
  /\ c2s = [p \in Procs |-> <<>>]
  /\ s2c = [p \in Procs |-> <<>>]
  /\ reset = {}
  /\ backlog = <<>>
  /\ conn = [f \in ClientFds |-> NoProc]
  /\ udp = <<>>
  /\ sent = 0
  /\ stdin = "none"
  /\ status = "up"

OpenFds == {f \in ClientFds : conn[f] # NoProc}

\* The server's end of p's connection exists, accepted or not.
Queued(p) == \E i \in 1..Len(backlog) : backlog[i] = p
Open(p) == Queued(p) \/ \E f \in ClientFds : conn[f] = p

\* recv on p's connection returns: a record, or the end of the stream.
HasInput(p) == c2s[p] # <<>> \/ st[p] = "down"

\* select reports descriptor f.
Readable(f) ==
  \/ f = STDIN_FILENO /\ stdin # "none"
  \/ f = sockfd_udp /\ udp # <<>>
  \/ f = sockfd_tcp /\ backlog # <<>>
  \/ f \in OpenFds /\ HasInput(conn[f])

\* accept returns the lowest free descriptor.
LowestFree(f) ==
  /\ f \in ClientFds \ OpenFds
  /\ \A g \in ClientFds : g < f => g \in OpenFds

\* send(fd, ..) of the messages ms[p] for every process p: they reach a
\* running peer.  For a peer that is gone they are lost and the kernel
\* answers with a reset.
Received(ms) ==
  [p \in Procs |-> IF st[p] = "down" THEN s2c[p] ELSE s2c[p] \o ms[p]]

SendAll(ms) ==
  /\ s2c' = Received(ms)
  /\ reset' = reset \cup {p \in Procs : st[p] = "down" /\ ms[p] # <<>>}

\* A send on p's connection after `before' others in the same call sequence
\* may raise SIGPIPE: the peer is gone and has answered an earlier one with
\* a reset.
PipeMayBreak(p, before) == st[p] = "down" /\ (p \in reset \/ before)
==============================================================================
