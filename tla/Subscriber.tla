----------------------------- MODULE Subscriber ------------------------------
(* The subscriber program, Tema_2/subscriber.cpp, and the rest of the       *)
(* broker's environment: the UDP publishers, which are not in the           *)
(* repository, and the operator at the server's keyboard.                   *)
(*                                                                          *)
(* The program connects, sends its id, and then loops on select: a line     *)
(* typed by its user is sent as it is; a message from the server is         *)
(* printed.                                                                 *)
EXTENDS BrokerNet

\* connect succeeds while the server listens and its queue has room.  A
\* slot starts again once the server has let go of its last connection.
Start(p) ==
  /\ st[p] = "down" /\ ~Open(p)
  /\ status = "up" /\ Len(backlog) <= Backlog
  /\ st' = [st EXCEPT ![p] = "syn"]
  /\ ident' = [ident EXCEPT ![p] = EmptyId]
  /\ c2s' = [c2s EXCEPT ![p] = <<>>]
  /\ backlog' = Append(backlog, p)
  /\ UNCHANGED <<s2c, reset, conn, udp, sent, stdin, status, seen>>

\* A record sent by p is queued while the server's end exists.
Sends(p, line) ==
  c2s' = [c2s EXCEPT ![p] = IF Open(p) THEN Append(@, line) ELSE @]

SendId(p) ==
  /\ st[p] = "syn"
  /\ st' = [st EXCEPT ![p] = "up"]
  /\ ident' = [ident EXCEPT ![p] = IdOf[p]]
  /\ Sends(p, [op |-> "id"])
  /\ UNCHANGED <<s2c, reset, backlog, conn, udp, sent, stdin, status, seen>>

\* The user types a subscribe or an unsubscribe line.
TypeLine(p) ==
  /\ st[p] = "up" /\ Len(c2s[p]) < MaxPending
  /\ \E line \in Lines : line.op \notin {"id", "exit"} /\ Sends(p, line)
  /\ UNCHANGED <<st, ident, s2c, reset, backlog, conn, udp, sent, stdin,
                 status, seen>>

\* The process is gone; closing a socket with unread data resets it.
Ends(p) ==
  /\ st' = [st EXCEPT ![p] = "down"]
  /\ s2c' = [s2c EXCEPT ![p] = <<>>]
  /\ reset' = IF Open(p) /\ s2c[p] # <<>>
                THEN reset \cup {p} ELSE reset

\* The user types "exit".
Exit(p) ==
  /\ st[p] = "up"
  /\ Sends(p, [op |-> "exit"])
  /\ Ends(p)
  /\ UNCHANGED <<ident, backlog, conn, udp, sent, stdin, status, seen>>

\* The process is interrupted, at any point after connect.
Kill(p) ==
  /\ p \in Killable /\ st[p] # "down"
  /\ Ends(p)
  /\ UNCHANGED <<ident, c2s, backlog, conn, udp, sent, stdin, status, seen>>

\* A message is received and printed.
Recv(p) ==
  /\ st[p] = "up" /\ s2c[p] # <<>>
  /\ seen' = [seen EXCEPT ![ident[p]] = Head(s2c[p])]
  /\ s2c' = [s2c EXCEPT ![p] = Tail(@)]
  /\ UNCHANGED <<st, ident, c2s, reset, backlog, conn, udp, sent, stdin,
                 status>>

\* A plausible bug: the loop goes on after recv has returned 0.
RecvEofIgnored(p) ==
  /\ st[p] = "up" /\ ~Open(p) /\ s2c[p] = <<>>
  /\ UNCHANGED netVars

\* The server has closed the connection: recv returns 0 and the loop ends.
RecvEof(p) ==
  /\ st[p] = "up" /\ ~Open(p) /\ s2c[p] = <<>>
  /\ st' = [st EXCEPT ![p] = "down"]
  /\ UNCHANGED <<ident, c2s, s2c, reset, backlog, conn, udp, sent, stdin,
                 status, seen>>

\* A line typed into a connection the server has closed draws a reset: the
\* next recv fails (DIE) or the next send raises SIGPIPE.
Broken(p) ==
  /\ st[p] = "up" /\ ~Open(p)
  /\ Ends(p)
  /\ UNCHANGED <<ident, c2s, backlog, conn, udp, sent, stdin, status, seen>>

\* A publisher's datagram reaches the UDP socket.
Publish(t) ==
  /\ status = "up" /\ sent < MaxMsg /\ Len(udp) < MaxPending
  /\ sent' = sent + 1
  /\ udp' = Append(udp, [topic |-> t, n |-> sent + 1])
  /\ UNCHANGED <<st, ident, c2s, s2c, reset, backlog, conn, stdin, status,
                 seen>>

\* The operator types a line at the server.
Operator(line) ==
  /\ status = "up" /\ stdin = "none"
  /\ stdin' = line
  /\ UNCHANGED <<st, ident, c2s, s2c, reset, backlog, conn, udp, sent, status,
                 seen>>
==============================================================================
