----------------------------- MODULE QueueProofs -----------------------------
(* What queue.c keeps of its cells, wherever malloc puts them.              *)
EXTENDS LinkedQueue, FiniteSetTheorems, SequenceTheorems, WellFoundedInduction, TLAPS

\* The inductive invariant: a cell that something points to is allocated,
\* nothing points to the first one, and no two cells point to the same.
QueueInv ==
  /\ QueueTypeOK /\ TailAlive
  /\ head \in DOMAIN heap \cup {NULL}
  /\ \A c \in DOMAIN heap :
       heap[c].next # NULL => heap[c].next \in DOMAIN heap \ {head}
  /\ \A c, d \in DOMAIN heap :
       heap[c].next = heap[d].next /\ heap[c].next # NULL => c = d

LEMMA QueueCreateInv == queue_create => QueueInv
BY DEF queue_create, QueueInv, QueueTypeOK, TailAlive, queue_empty

LEMMA QueueStutter == QueueInv /\ UNCHANGED queueVars => QueueInv'
BY DEF QueueInv, QueueTypeOK, TailAlive, queue_empty, queueVars

LEMMA EnqInv ==
  ASSUME QueueInv, NEW e \in Elements, queue_enq(e)
  PROVE  QueueInv'
<1>1. PICK c \in Cells \ DOMAIN heap :
        /\ tail' = c
        /\ IF queue_empty
           THEN head' = c /\ heap' = NewCell(heap, c, e)
           ELSE UNCHANGED head /\ heap' = NewCell(Linked(c), c, e)
  BY DEF queue_enq
<1>2. c # NULL /\ [element |-> e, next |-> NULL] \in Cell
  BY NullAssumption DEF Cell
<1>3. CASE queue_empty
  <2>1. /\ DOMAIN heap' = DOMAIN heap \cup {c} /\ head' = c
        /\ heap'[c] = [element |-> e, next |-> NULL]
        /\ \A d \in DOMAIN heap : heap'[d] = heap[d]
    BY <1>1, <1>3 DEF NewCell
  <2>2. QueueTypeOK'
    BY <1>1, <1>2, <2>1 DEF QueueInv, QueueTypeOK
  <2>3. TailAlive'
    BY <1>1, <2>1 DEF TailAlive
  <2> QED BY <1>1, <1>2, <2>1, <2>2, <2>3 DEF QueueInv
<1>4. CASE ~queue_empty
  <2>1. DOMAIN Linked(c) = DOMAIN heap
    BY DEF Linked
  <2>2. tail \in DOMAIN heap
    BY <1>4 DEF QueueInv, TailAlive
  <2>3. /\ DOMAIN heap' = DOMAIN heap \cup {c} /\ head' = head
        /\ heap'[c] = [element |-> e, next |-> NULL]
        /\ \A d \in DOMAIN heap : heap'[d] = Linked(c)[d]
    BY <1>1, <1>4, <2>1 DEF NewCell
  <2>4. /\ \A d \in DOMAIN heap : d # tail => heap'[d] = heap[d]
        /\ heap'[tail] = [heap[tail] EXCEPT !.next = c]
    BY <2>2, <2>3 DEF Linked
  <2>5. heap[tail] \in Cell /\ heap'[tail] \in Cell /\ heap'[tail].next = c
    BY <2>2, <2>4 DEF QueueInv, QueueTypeOK, Cell
  <2>6. QueueTypeOK'
    BY <1>1, <1>2, <2>3, <2>4, <2>5 DEF QueueInv, QueueTypeOK
  <2>7. TailAlive'
    BY <1>1, <2>3 DEF TailAlive
  <2>8. head # c
    BY <1>1, <1>2 DEF QueueInv
  <2>9. /\ heap'[c].next = NULL /\ heap'[tail].next = c /\ c \notin DOMAIN heap
        /\ \A d \in DOMAIN heap \ {tail} : heap'[d].next = heap[d].next
    BY <1>1, <2>3, <2>4, <2>5
  <2>10. head' \in DOMAIN heap' \cup {NULL}
    BY <2>3 DEF QueueInv
  <2>11. ASSUME NEW d \in DOMAIN heap', heap'[d].next # NULL
         PROVE  heap'[d].next \in DOMAIN heap' \ {head'}
    BY <2>3, <2>8, <2>9, <2>11 DEF QueueInv
  <2>12. ASSUME NEW d \in DOMAIN heap', NEW x \in DOMAIN heap',
                heap'[d].next = heap'[x].next, heap'[d].next # NULL
         PROVE  d = x
    BY <2>3, <2>9, <2>12 DEF QueueInv
  <2> QED BY <2>6, <2>7, <2>10, <2>11, <2>12 DEF QueueInv
<1> QED BY <1>3, <1>4

LEMMA DeqInv ==
  ASSUME QueueInv, queue_deq
  PROVE  QueueInv'
<1>1. /\ head # NULL /\ head \in DOMAIN heap /\ head' = heap[head].next /\ tail' = tail
      /\ DOMAIN heap' = DOMAIN heap \ {head}
      /\ \A d \in DOMAIN heap' : heap'[d] = heap[d]
  BY DEF queue_deq, queue_empty, QueueInv
<1>2. QueueTypeOK'
  BY <1>1 DEF QueueInv, QueueTypeOK, Cell
\* If the cell that is freed was the last one, the queue has run empty.
<1>3. TailAlive'
  <2> SUFFICES ASSUME head' # NULL
               PROVE  tail \in DOMAIN heap' /\ heap'[tail].next = NULL
    BY <1>1 DEF TailAlive, queue_empty
  <2>1. tail \in DOMAIN heap /\ heap[tail].next = NULL
    BY <1>1 DEF QueueInv, TailAlive, queue_empty
  <2> QED BY <1>1, <2>1
<1>4. /\ head' \in DOMAIN heap' \cup {NULL}
      /\ \A c \in DOMAIN heap' :
           heap'[c].next # NULL => heap'[c].next \in DOMAIN heap' \ {head'}
      /\ \A c, d \in DOMAIN heap' :
           heap'[c].next = heap'[d].next /\ heap'[c].next # NULL => c = d
  BY <1>1 DEF QueueInv
<1> QED BY <1>2, <1>3, <1>4 DEF QueueInv

-----------------------------------------------------------------------------
(* The elements, in the order they came.                                    *)

\* q: the cells from head on, each with the next of the one before, and tail
\* the last of them.
IsChain(q) ==
  /\ q \in Seq(DOMAIN heap)
  /\ \A i, j \in 1 .. Len(q) : q[i] = q[j] => i = j
  /\ head = IF q = <<>> THEN NULL ELSE q[1]
  /\ \A i \in 1 .. Len(q) : heap[q[i]].next = IF i < Len(q) THEN q[i + 1] ELSE NULL
  /\ q # <<>> => tail = q[Len(q)]

ChainInv == \E q : IsChain(q)

\* The n-th cell of the chain q.
Step(q, n) == IF n < Len(q) THEN q[n + 1] ELSE NULL

\* What the definition of Nth asks of a function.
Follows(g) ==
  g = [n \in Nat |-> IF n = 0 THEN head
                     ELSE IF g[n - 1] \in DOMAIN heap THEN heap[g[n - 1]].next ELSE NULL]

LEMMA StepFollows ==
  ASSUME QueueInv, NEW q, IsChain(q)
  PROVE  Follows([n \in Nat |-> Step(q, n)])
<1> DEFINE g == [n \in Nat |-> Step(q, n)]
<1>1. Len(q) \in Nat /\ NULL \notin DOMAIN heap
  BY NullAssumption DEF IsChain, QueueInv, QueueTypeOK
<1>2. ASSUME NEW n \in Nat
      PROVE  g[n] = IF n = 0 THEN head
                    ELSE IF g[n - 1] \in DOMAIN heap THEN heap[g[n - 1]].next ELSE NULL
  <2>1. CASE n = 0
    BY <1>1, <2>1 DEF IsChain, Step
  <2>2. CASE n # 0 /\ n <= Len(q)
    <3>1. n - 1 \in Nat /\ n - 1 < Len(q) /\ (n - 1) + 1 = n /\ n \in 1 .. Len(q)
      BY <1>1, <2>2
    <3>2. g[n - 1] = q[n] /\ g[n] = Step(q, n)
      BY <3>1 DEF Step
    <3>3. q[n] \in DOMAIN heap /\ heap[q[n]].next = Step(q, n)
      BY <3>1 DEF IsChain, Step
    <3> QED BY <2>2, <3>2, <3>3
  <2>3. CASE n > Len(q)
    <3>1. n - 1 \in Nat /\ ~(n - 1 < Len(q)) /\ n # 0 /\ ~(n < Len(q))
      BY <1>1, <2>3
    <3>2. g[n - 1] = NULL /\ g[n] = NULL
      BY <3>1 DEF Step
    <3> QED BY <1>1, <3>1, <3>2
  <2> QED BY <1>1, <2>1, <2>2, <2>3
<1> HIDE DEF g
<1>3. g = [n \in Nat |-> g[n]]
  BY DEF g
<1>4. Follows(g)
  BY <1>2, <1>3 DEF Follows
<1> QED BY <1>4 DEF g

LEMMA NthFollows ==
  ASSUME QueueInv, NEW q, IsChain(q)
  PROVE  Follows(Nth)
<1>1. \E g : Follows(g)
  BY StepFollows
<1>2. Nth = CHOOSE g : Follows(g)
  BY DEF Nth, Follows
<1> QED BY <1>1, <1>2

\* A set of numbers that has 0 and the next of each of its members has all.
LEMMA AllNumbers ==
  ASSUME NEW S \in SUBSET Nat, 0 \in S, \A n \in S : n + 1 \in S
  PROVE  S = Nat
<1> DEFINE T == Nat \ S
           R == OpToRel(<, Nat)
<1> SUFFICES ASSUME T # {} PROVE FALSE
  OBVIOUS
<1>1. PICK x \in T : \A y \in T : <<y, x>> \notin R
  <2>1. IsWellFoundedOn(R, Nat) /\ T \subseteq Nat
    BY NatLessThanWellFounded
  <2> HIDE DEF R, T
  <2> QED BY <2>1, WFMin
<1>2. \A y \in T : ~(y < x)
  BY <1>1 DEF OpToRel
<1>3. x # 0 /\ x - 1 \in Nat /\ (x - 1) + 1 = x /\ x - 1 < x
  OBVIOUS
<1>4. x - 1 \in S
  BY <1>2, <1>3
<1> QED BY <1>3, <1>4

LEMMA NthOfChain ==
  ASSUME QueueInv, NEW q, IsChain(q)
  PROVE  \A n \in Nat : Nth[n] = Step(q, n)
<1> DEFINE g == [n \in Nat |-> Step(q, n)]
           S == {n \in Nat : Nth[n] = g[n]}
<1>1. Follows(g) /\ Follows(Nth)
  BY StepFollows, NthFollows
<1> HIDE DEF g
<1>2. 0 \in S
  BY <1>1 DEF Follows
<1>3. ASSUME NEW n \in S PROVE n + 1 \in S
  <2>1. n + 1 \in Nat /\ n + 1 # 0 /\ (n + 1) - 1 = n /\ Nth[n] = g[n]
    OBVIOUS
  <2>2. /\ Nth[n + 1] = IF Nth[n] \in DOMAIN heap THEN heap[Nth[n]].next ELSE NULL
        /\ g[n + 1] = IF g[n] \in DOMAIN heap THEN heap[g[n]].next ELSE NULL
    BY <1>1, <2>1 DEF Follows
  <2> QED BY <2>1, <2>2
<1> HIDE DEF S
<1>4. S = Nat
  <2>1. S \in SUBSET Nat
    BY DEF S
  <2> QED BY <1>2, <1>3, <2>1, AllNumbers
<1> QED BY <1>4 DEF S, g

\* No chain is longer than there are cells.
LEMMA ChainFits ==
  ASSUME QueueInv, NEW q, IsChain(q)
  PROVE  Len(q) \in Nat /\ Cardinality(Cells) \in Nat /\ Len(q) <= Cardinality(Cells)
<1>1. Len(q) \in Nat /\ q \in [1 .. Len(q) -> Cells]
  BY DEF IsChain, QueueInv, QueueTypeOK
<1>2. Cardinality(Cells) \in Nat /\ IsFiniteSet(Cells)
  BY CellsAssumption, FS_CardinalityType
<1>3. IsFiniteSet(1 .. Len(q)) /\ Cardinality(1 .. Len(q)) = Len(q)
  BY <1>1, FS_Interval
<1>4. ASSUME Cardinality(Cells) < Len(q) PROVE FALSE
  <2> DEFINE D == 1 .. Len(q)
  <2>1. \A i, j \in D : q[i] = q[j] => i = j
    BY DEF IsChain
  <2>2. IsFiniteSet(D) /\ Cardinality(Cells) < Cardinality(D) /\ q \in [D -> Cells]
    BY <1>1, <1>3, <1>4
  <2> HIDE DEF D
  <2>3. \E i, j \in D : i # j /\ q[i] = q[j]
    BY <1>2, <2>2, FS_PigeonHole
  <2> QED BY <2>1, <2>3
<1> QED BY <1>1, <1>2, <1>4

LEMMA ItemsOfChain ==
  ASSUME QueueInv, NEW q, IsChain(q)
  PROVE  Items = [k \in 1 .. Len(q) |-> heap[q[k]].element]
<1> DEFINE reached == {n \in 0 .. Cardinality(Cells) - 1 : Nth[n] \in DOMAIN heap}
<1>1. Len(q) \in Nat /\ Cardinality(Cells) \in Nat /\ Len(q) <= Cardinality(Cells)
  BY ChainFits
<1>2. \A n \in Nat : Nth[n] = Step(q, n)
  BY NthOfChain
<1>3. NULL \notin DOMAIN heap /\ \A k \in 1 .. Len(q) : q[k] \in DOMAIN heap
  BY NullAssumption DEF IsChain, QueueInv, QueueTypeOK
<1>4. reached = 0 .. Len(q) - 1
  BY <1>1, <1>2, <1>3 DEF Step
<1>5. Cardinality(0 .. Len(q) - 1) = Len(q)
  <2> DEFINE b == Len(q) - 1
  <2>1. b \in Int /\ (0 > b <=> Len(q) = 0) /\ b - 0 + 1 = Len(q)
    BY <1>1
  <2> HIDE DEF b
  <2>2. Cardinality(0 .. b) = IF 0 > b THEN 0 ELSE b - 0 + 1
    BY <2>1, FS_Interval
  <2>3. Cardinality(0 .. b) = Len(q)
    BY <2>1, <2>2
  <2> QED BY <2>3 DEF b
<1>6. ASSUME NEW k \in 1 .. Len(q) PROVE Nth[k - 1] = q[k]
  BY <1>1, <1>2 DEF Step
<1>7. Items = [k \in 1 .. Cardinality(reached) |-> heap[Nth[k - 1]].element]
  BY DEF Items
<1> HIDE DEF reached
<1> QED BY <1>4, <1>5, <1>6, <1>7

\* The same of every chain of a state, for the steps below.
AllItems ==
  \A q : IsChain(q) => Items = [k \in 1 .. Len(q) |-> heap[q[k]].element]

LEMMA ItemsOf == QueueInv => AllItems
BY ItemsOfChain DEF AllItems

LEMMA ItemsOfNext ==
  QueueInv' => \A q : IsChain(q)' => Items' = [k \in 1 .. Len(q) |-> heap'[q[k]].element]
<1>1. QueueInv' => AllItems'
  BY ItemsOf, PTL
<1> QED BY <1>1 DEF AllItems

LEMMA CreateChain == queue_create => ChainInv /\ Items = <<>>
<1> SUFFICES ASSUME queue_create PROVE ChainInv /\ Items = <<>>
  OBVIOUS
<1>1. IsChain(<<>>)
  BY DEF queue_create, IsChain
<1>2. Items = <<>>
  BY <1>1, QueueCreateInv, ItemsOf DEF AllItems
<1> QED BY <1>1, <1>2 DEF ChainInv

LEMMA StutterChain ==
  QueueInv /\ ChainInv /\ UNCHANGED queueVars => ChainInv' /\ Items' = Items
<1> SUFFICES ASSUME QueueInv, ChainInv, UNCHANGED queueVars
             PROVE  ChainInv' /\ Items' = Items
  OBVIOUS
<1>1. PICK q : IsChain(q)
  BY DEF ChainInv
<1>2. IsChain(q)' /\ QueueInv' /\ heap' = heap
  BY <1>1, QueueStutter DEF IsChain, queueVars
<1>3. /\ Items = [k \in 1 .. Len(q) |-> heap[q[k]].element]
      /\ Items' = [k \in 1 .. Len(q) |-> heap'[q[k]].element]
  BY <1>1, <1>2, ItemsOf, ItemsOfNext DEF AllItems
<1> QED BY <1>2, <1>3 DEF ChainInv

LEMMA EnqChain ==
  ASSUME QueueInv, ChainInv, NEW e \in Elements, queue_enq(e)
  PROVE  ChainInv' /\ Items' = Append(Items, e)
<1>1. PICK c \in Cells \ DOMAIN heap :
        /\ tail' = c
        /\ IF queue_empty
           THEN head' = c /\ heap' = NewCell(heap, c, e)
           ELSE UNCHANGED head /\ heap' = NewCell(Linked(c), c, e)
  BY DEF queue_enq
<1>2. PICK q : IsChain(q)
  BY DEF ChainInv
<1> DEFINE r == Append(q, c)
<1>3. /\ q \in Seq(DOMAIN heap) /\ Len(q) \in Nat /\ Len(r) = Len(q) + 1 /\ r[Len(q) + 1] = c
      /\ \A k \in 1 .. Len(q) : r[k] = q[k] /\ q[k] \in DOMAIN heap
      /\ c # NULL /\ (queue_empty <=> q = <<>>) /\ (q = <<>> <=> Len(q) = 0)
  BY <1>1, <1>2, NullAssumption DEF IsChain, queue_empty, QueueInv, QueueTypeOK
<1>4. /\ DOMAIN heap' = DOMAIN heap \cup {c}
      /\ heap'[c] = [element |-> e, next |-> NULL]
      /\ \A d \in DOMAIN heap :
           /\ heap'[d].element = heap[d].element
           /\ heap'[d].next = IF ~queue_empty /\ d = tail THEN c ELSE heap[d].next
  <2>1. CASE queue_empty
    BY <1>1, <2>1 DEF NewCell
  <2>2. CASE ~queue_empty
    <3>1. DOMAIN Linked(c) = DOMAIN heap /\ heap' = NewCell(Linked(c), c, e)
      BY <1>1, <2>2 DEF Linked
    <3>2. /\ DOMAIN heap' = DOMAIN heap \cup {c}
          /\ heap'[c] = [element |-> e, next |-> NULL]
          /\ \A d \in DOMAIN heap : heap'[d] = Linked(c)[d]
      BY <1>1, <3>1 DEF NewCell
    <3>3. ASSUME NEW d \in DOMAIN heap
          PROVE  /\ heap'[d].element = heap[d].element
                 /\ heap'[d].next = IF d = tail THEN c ELSE heap[d].next
      <4>1. heap[d] \in Cell /\ heap'[d] = Linked(c)[d]
        BY <3>2 DEF QueueInv, QueueTypeOK
      <4> QED BY <4>1 DEF Linked, Cell
    <3> QED BY <2>2, <3>2, <3>3
  <2> QED BY <2>1, <2>2
<1>5. IsChain(r)'
  <2>1. r \in Seq(DOMAIN heap')
    BY <1>3, <1>4
  <2>2. \A i, j \in 1 .. Len(r) : r[i] = r[j] => i = j
    BY <1>1, <1>2, <1>3 DEF IsChain
  <2>3. head' = r[1] /\ r # <<>> /\ tail' = r[Len(r)]
    BY <1>1, <1>2, <1>3 DEF IsChain
  <2>4. ASSUME NEW i \in 1 .. Len(r)
        PROVE  heap'[r[i]].next = IF i < Len(r) THEN r[i + 1] ELSE NULL
    <3>1. CASE i = Len(q) + 1
      BY <1>3, <1>4, <3>1
    <3>2. CASE i = Len(q)
      <4>1. q[i] = tail /\ ~queue_empty /\ i \in 1 .. Len(q)
        BY <1>2, <1>3, <3>2 DEF IsChain
      <4> QED BY <1>3, <1>4, <3>2, <4>1
    <3>3. CASE i < Len(q)
      <4>1. q[i] # tail /\ i \in 1 .. Len(q) /\ i + 1 \in 1 .. Len(q) /\ i < Len(r)
        BY <1>2, <1>3, <3>3 DEF IsChain
      <4>2. heap[q[i]].next = q[i + 1]
        BY <1>2, <3>3, <4>1 DEF IsChain
      <4> QED BY <1>3, <1>4, <4>1, <4>2
    <3> QED BY <1>3, <3>1, <3>2, <3>3
  <2> QED BY <2>1, <2>2, <2>3, <2>4 DEF IsChain
<1>6. Items = [k \in 1 .. Len(q) |-> heap[q[k]].element]
  BY <1>2, ItemsOf DEF AllItems
<1>7. Items' = [k \in 1 .. Len(r) |-> heap'[r[k]].element]
  <2>1. QueueInv'
    BY EnqInv
  <2> HIDE DEF r
  <2> QED BY <1>5, <2>1, ItemsOfNext
<1>8. Append(Items, e) = [k \in 1 .. Len(q) + 1 |-> IF k = Len(q) + 1 THEN e
                                                  ELSE heap[q[k]].element]
  <2>1. Items \in Seq(Elements) /\ Len(Items) = Len(q)
    BY <1>3, <1>6 DEF QueueInv, QueueTypeOK, Cell
  <2> QED BY <1>3, <1>6, <2>1
<1>9. Items' = Append(Items, e)
  <2>1. ASSUME NEW k \in 1 .. Len(q) + 1
        PROVE  heap'[r[k]].element = IF k = Len(q) + 1 THEN e ELSE heap[q[k]].element
    BY <1>3, <1>4
  <2> HIDE DEF r
  <2> QED BY <1>3, <1>7, <1>8, <2>1
<1> QED BY <1>5, <1>9 DEF ChainInv

LEMMA DeqChain ==
  ASSUME QueueInv, ChainInv, queue_deq
  PROVE  ChainInv' /\ Items # <<>> /\ Items' = Tail(Items)
<1>1. /\ head # NULL /\ head' = heap[head].next /\ tail' = tail
      /\ DOMAIN heap' = DOMAIN heap \ {head}
      /\ \A d \in DOMAIN heap' : heap'[d] = heap[d]
  BY DEF queue_deq, queue_empty
<1>2. PICK q : IsChain(q)
  BY DEF ChainInv
<1> DEFINE r == Tail(q)
<1>3. /\ q \in Seq(DOMAIN heap) /\ Len(q) \in Nat /\ Len(q) >= 1 /\ head = q[1]
      /\ Len(r) = Len(q) - 1 /\ \A k \in 1 .. Len(r) : r[k] = q[k + 1]
      /\ q # <<>> /\ (r = <<>> <=> Len(q) = 1) /\ r \in Seq(DOMAIN heap)
  <2>1. q \in Seq(DOMAIN heap) /\ q # <<>> /\ head = q[1] /\ Len(q) \in Nat /\ Len(q) >= 1
    BY <1>1, <1>2 DEF IsChain
  <2>2. /\ r \in Seq(DOMAIN heap) /\ Len(r) = Len(q) - 1
        /\ \A k \in 1 .. Len(r) : r[k] = q[k + 1]
    BY <2>1, HeadTailProperties
  <2> HIDE DEF r
  <2>3. r = <<>> <=> Len(r) = 0
    BY <2>2
  <2> QED BY <2>1, <2>2, <2>3
<1>4. ASSUME NEW k \in 1 .. Len(r) PROVE r[k] \in DOMAIN heap' /\ k + 1 \in 1 .. Len(q)
  BY <1>1, <1>2, <1>3 DEF IsChain
<1>5. IsChain(r)'
  <2>1. r \in Seq(DOMAIN heap')
    <3> HIDE DEF r
    <3>1. r \in [1 .. Len(r) -> DOMAIN heap'] /\ Len(r) \in Nat
      BY <1>3, <1>4
    <3> QED BY <3>1
  <2>2. \A i, j \in 1 .. Len(r) : r[i] = r[j] => i = j
    BY <1>2, <1>3, <1>4 DEF IsChain
  <2>3. head' = IF r = <<>> THEN NULL ELSE r[1]
    BY <1>1, <1>2, <1>3 DEF IsChain
  <2>4. r # <<>> => tail' = r[Len(r)]
    BY <1>1, <1>2, <1>3 DEF IsChain
  <2>5. ASSUME NEW i \in 1 .. Len(r)
        PROVE  heap'[r[i]].next = IF i < Len(r) THEN r[i + 1] ELSE NULL
    <3>1. heap'[r[i]] = heap[q[i + 1]] /\ i + 1 \in 1 .. Len(q)
      BY <1>1, <1>3, <1>4
    <3>2. heap[q[i + 1]].next = IF i + 1 < Len(q) THEN q[(i + 1) + 1] ELSE NULL
      BY <1>2, <3>1 DEF IsChain
    <3> QED BY <1>3, <3>1, <3>2
  <2> HIDE DEF r
  <2> QED BY <2>1, <2>2, <2>3, <2>4, <2>5 DEF IsChain
<1>6. Items = [k \in 1 .. Len(q) |-> heap[q[k]].element]
  BY <1>2, ItemsOf DEF AllItems
<1>7. Items' = [k \in 1 .. Len(r) |-> heap'[r[k]].element]
  <2>1. QueueInv'
    BY DeqInv
  <2> HIDE DEF r
  <2> QED BY <1>5, <2>1, ItemsOfNext
<1>8. Items # <<>> /\ Tail(Items) = [k \in 1 .. Len(q) - 1 |-> heap[q[k + 1]].element]
  <2>1. Items \in Seq(Elements) /\ Len(Items) = Len(q)
    BY <1>3, <1>6 DEF QueueInv, QueueTypeOK, Cell
  <2> QED BY <1>3, <1>6, <2>1
<1>9. Items' = Tail(Items)
  <2>1. ASSUME NEW k \in 1 .. Len(r) PROVE heap'[r[k]].element = heap[q[k + 1]].element
    BY <1>1, <1>3, <1>4
  <2> HIDE DEF r
  <2> QED BY <1>3, <1>7, <1>8, <2>1
<1> QED BY <1>5, <1>8, <1>9 DEF ChainInv

LEMMA ItemsInElements == QueueInv /\ ChainInv => Items \in Seq(Elements)
<1> SUFFICES ASSUME QueueInv, ChainInv PROVE Items \in Seq(Elements)
  OBVIOUS
<1>1. PICK q : IsChain(q)
  BY DEF ChainInv
<1>2. Items = [k \in 1 .. Len(q) |-> heap[q[k]].element]
  BY <1>1, ItemsOf DEF AllItems
<1>3. Len(q) \in Nat /\ \A k \in 1 .. Len(q) : heap[q[k]].element \in Elements
  BY <1>1 DEF IsChain, QueueInv, QueueTypeOK, Cell
<1> QED BY <1>2, <1>3

LEMMA EmptyHasNone == QueueInv /\ ChainInv /\ queue_empty => Len(Items) = 0
<1> SUFFICES ASSUME QueueInv, ChainInv, queue_empty PROVE Len(Items) = 0
  OBVIOUS
<1>1. PICK q : IsChain(q)
  BY DEF ChainInv
<1>2. q = <<>>
  <2> SUFFICES ASSUME q # <<>> PROVE FALSE
    OBVIOUS
  <2>1. q \in Seq(DOMAIN heap) /\ Len(q) >= 1 /\ q[1] = NULL
    BY <1>1 DEF IsChain, queue_empty
  <2>2. q[1] \in DOMAIN heap
    BY <2>1
  <2> QED BY <2>1, <2>2, NullAssumption DEF QueueInv, QueueTypeOK
<1>3. Items = [k \in 1 .. 0 |-> heap[q[k]].element]
  BY <1>1, <1>2, ItemsOf DEF AllItems
<1> QED BY <1>3

==============================================================================
