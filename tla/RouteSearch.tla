----------------------------- MODULE RouteSearch -----------------------------
(* The routing table of Tema_1/router.c and the binary search over it, one  *)
(* iteration of its loop a step.  Addresses are the numbers the code        *)
(* compares (inet_addr's, whatever the byte order); Masked(a, m) is a & m.  *)
EXTENDS Integers, Sequences, FiniteSets

CONSTANTS
  Addrs,        \* addresses and masks
  Masked(_, _), \* the bitwise and of an address and a mask
  Ports,        \* the router's interfaces
  Tables        \* the files rtable may be read from, each a sequence of lines

Routes == [prefix : Addrs, next_hop : Addrs, mask : Addrs, interface : Ports]

ASSUME AddrsAssumption == Addrs \subseteq Nat
ASSUME MaskedAssumption == \A a, m \in Addrs : Masked(a, m) \in Addrs
ASSUME TablesAssumption == Tables \subseteq Seq(Routes)

VARIABLES
  rtable,          \* the table after qsort
  dest_ip,         \* the arguments and locals of get_best_route
  left, right,
  searching,       \* get_best_route has not returned
  best_route       \* its result, an index of rtable; 0 for NULL

searchVars == <<rtable, dest_ip, left, right, searching, best_route>>
searchState == <<dest_ip, left, right, searching, best_route>>

\* A plausible bug: the table is sorted the other way.
Descending(p, q) == p.prefix > q.prefix \/ (p.prefix = q.prefix /\ p.mask >= q.mask)

\* comparator: by prefix, then by mask.
LessEq(p, q) ==
  \/ p.prefix < q.prefix
  \/ p.prefix = q.prefix /\ p.mask <= q.mask

Sorted(t) == \A i, j \in 1 .. Len(t) : i < j => LessEq(t[i], t[j])

\* parsing_rtable and qsort: the file's lines in any order that comparator
\* accepts (qsort need not be stable).
Orders(file) ==
  {[i \in 1 .. Len(file) |-> file[p[i]]] :
     p \in {q \in [1 .. Len(file) -> 1 .. Len(file)] :
              \A i, j \in 1 .. Len(file) : q[i] = q[j] => i = j}}

SearchInit ==
  /\ \E file \in Tables : rtable \in {t \in Orders(file) : Sorted(t)}
  /\ dest_ip = 0 /\ left = 1 /\ right = Len(rtable)
  /\ searching = FALSE /\ best_route = 0

Masks(i) == Masked(dest_ip, rtable[i].mask)
Matches(i) == Masks(i) = rtable[i].prefix
Mid == (left + right) \div 2

\* Plausible bugs: rtable_size for rtable_size - 1; left = mid.
BehindLast == Len(rtable) + 1
StillMid == Mid

LastRoute == Len(rtable)
AfterMid == Mid + 1

\* get_best_route(ip, 0, rtable_size - 1) is called; indices count from 1.
CallSearch(ip) ==
  /\ dest_ip' = ip /\ left' = 1 /\ right' = LastRoute
  /\ searching' = TRUE /\ best_route' = 0
  /\ UNCHANGED rtable

Found ==
  /\ searching /\ left <= right /\ Matches(Mid)
  /\ best_route' = Mid /\ searching' = FALSE
  /\ UNCHANGED <<rtable, dest_ip, left, right>>

GoRight ==
  /\ searching /\ left <= right
  /\ ~Matches(Mid) /\ Masks(Mid) > rtable[Mid].prefix
  /\ left' = AfterMid
  /\ UNCHANGED <<rtable, dest_ip, right, searching, best_route>>

GoLeft ==
  /\ searching /\ left <= right
  /\ ~Matches(Mid) /\ ~(Masks(Mid) > rtable[Mid].prefix)
  /\ right' = Mid - 1
  /\ UNCHANGED <<rtable, dest_ip, left, searching, best_route>>

NotFound ==
  /\ searching /\ left > right
  /\ searching' = FALSE
  /\ UNCHANGED <<rtable, dest_ip, left, right, best_route>>

SearchStep == Found \/ GoRight \/ GoLeft \/ NotFound

-----------------------------------------------------------------------------
SearchTypeOK ==
  /\ rtable \in Seq(Routes) /\ Sorted(rtable)
  /\ dest_ip \in Addrs \cup {0}
  /\ left \in 1 .. Len(rtable) + 1 /\ right \in 0 .. Len(rtable)
  /\ searching \in BOOLEAN /\ best_route \in 0 .. Len(rtable)

OneMask == \A i, j \in 1 .. Len(rtable) : rtable[i].mask = rtable[j].mask

\* get_best_route (lines 68-89): an entry it returns is a route of the
\* address, and in a table of one mask it does not return NULL, nor discard a
\* half of the table that has one, when a route is there.  (With several masks the order
\* by prefix says nothing about the halves, and it may.)
SearchSound ==
  /\ best_route # 0 => Matches(best_route)
  /\ OneMask /\ best_route = 0 =>
       \A i \in 1 .. Len(rtable) : Matches(i) => i \in left .. right
==============================================================================
