------------------------------ MODULE MCRouter -------------------------------
(* A router with two interfaces.  Network 2-3 is behind interface 0, network *)
(* 4-5 behind interface 1, network 6-7 behind the host 5.  The first table   *)
(* has one mask; in the second a longer route to 7 stands beside them.       *)
EXTENDS Router, Bitwise, TLC

BitAnd(a, b) == a & b

TwoPorts == 0 :> 2 @@ 1 :> 4

Line(prefix, next_hop, mask, interface) ==
  [prefix |-> prefix, next_hop |-> next_hop, mask |-> mask, interface |-> interface]

OneMaskFile == <<Line(6, 5, 6, 1), Line(2, 3, 6, 0), Line(4, 5, 6, 1)>>
MixedFile == <<Line(4, 5, 6, 1), Line(4, 5, 4, 1), Line(7, 3, 7, 0)>>
Files == {OneMaskFile, MixedFile}

Hosts == {[ip |-> 3, interface |-> 0], [ip |-> 5, interface |-> 1]}

D(ttl, proto, saddr, daddr, ok) ==
  [ttl |-> ttl, proto |-> proto, saddr |-> saddr, daddr |-> daddr, ok |-> ok]

\* To a neighbour, behind one, to nowhere; expiring; corrupt; to the router.
Packets == {D(2, 6, 5, 3, TRUE), D(3, 1, 3, 7, TRUE), D(2, 6, 3, 0, TRUE),
            D(1, 6, 3, 5, TRUE), D(2, 6, 3, 5, FALSE), D(2, 1, 3, 2, TRUE)}

\* ip_checksum wherever the header stands, and icmp_checksum, give a field
\* that makes the header verify (skel.c 151-219).
ASSUME ChecksumsVerify ==
  \A a, b, c \in {0, 1, Base - 2, Base - 1} : \A n \in 2 .. 5, offset \in 0 .. 3 :
    LET data == SubSeq(<<a, b, c, Base - 1, b>>, 1, n)
        k == ip_checksum(data, offset)
        i == icmp_checksum(data)
        Put(check) == <<Hi(check), Lo(check)>> \o data
    IN  Verifies(Put(k)) /\ Verifies(Put(i))
==============================================================================
