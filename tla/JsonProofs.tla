----------------------------- MODULE JsonProofs ------------------------------
(* What holds of the trees of parson for every set of addresses and names,  *)
(* after any history of calls.  The first part is about the graph of a heap *)
(* alone: which container has which values (C), and the parents they name   *)
(* (P).  The second is about one container's arrays, the third puts both    *)
(* together for each call.                                                  *)
EXTENDS Json, SequenceTheorems, WellFoundedInduction, TLAPS

-----------------------------------------------------------------------------
(* Graphs.                                                                  *)

Reach(C, v) ==
  {x \in DOMAIN C :
     \A S \in SUBSET DOMAIN C :
       v \in S /\ (\A y \in S : C[y] \cap DOMAIN C \subseteq S) => x \in S}

\* Every value has at most one owner, and that one is its parent.
Owned(C, P) == \A c \in DOMAIN C : \A x \in C[c] : x \in DOMAIN C /\ P[x] = c

\* No value is part of a value it contains.
Acyclic(C) == \A c \in DOMAIN C : \A x \in C[c] : c \notin Reach(C, x)

\* The values that are in no container.
Tops(C) == {x \in DOMAIN C : \A c \in DOMAIN C : x \notin C[c]}

\* What is reached from v has v and what its members contain.
LEMMA ReachClosed ==
  ASSUME NEW C, NEW v \in DOMAIN C
  PROVE  /\ v \in Reach(C, v) /\ Reach(C, v) \subseteq DOMAIN C
         /\ \A y \in Reach(C, v) : C[y] \cap DOMAIN C \subseteq Reach(C, v)
BY DEF Reach

\* It is part of every other such set.
LEMMA ReachLeast ==
  ASSUME NEW C, NEW v \in DOMAIN C, NEW S,
         v \in S, \A y \in S \cap DOMAIN C : C[y] \cap DOMAIN C \subseteq S
  PROVE  Reach(C, v) \subseteq S
<1>1. S \cap DOMAIN C \in SUBSET DOMAIN C /\ v \in S \cap DOMAIN C
  OBVIOUS
<1>2. \A y \in S \cap DOMAIN C : C[y] \cap DOMAIN C \subseteq S \cap DOMAIN C
  OBVIOUS
<1> QED BY <1>1, <1>2 DEF Reach

\* Whatever is reached is v or in something that is reached.
LEMMA ReachOwned ==
  ASSUME NEW C, NEW v \in DOMAIN C, NEW x \in Reach(C, v), x # v
  PROVE  \E y \in Reach(C, v) : x \in C[y]
<1> SUFFICES ASSUME \A y \in Reach(C, v) : x \notin C[y] PROVE FALSE
  OBVIOUS
<1> DEFINE S == Reach(C, v) \ {x}
<1>1. v \in S /\ \A y \in S \cap DOMAIN C : C[y] \cap DOMAIN C \subseteq S
  BY ReachClosed
<1> HIDE DEF S
<1>2. Reach(C, v) \subseteq S
  BY <1>1, ReachLeast
<1> QED BY <1>2 DEF S

\* What is reached from a part of v is reached from v.
LEMMA ReachPart ==
  ASSUME NEW C, NEW v \in DOMAIN C, NEW x \in Reach(C, v)
  PROVE  Reach(C, x) \subseteq Reach(C, v)
BY ReachClosed, ReachLeast

\* With fewer values and fewer places, less is reached.
LEMMA ReachLess ==
  ASSUME NEW C, NEW C2, DOMAIN C2 \subseteq DOMAIN C,
         \A x \in DOMAIN C2 : C2[x] \subseteq C[x],
         NEW v \in DOMAIN C2
  PROVE  Reach(C2, v) \subseteq Reach(C, v)
<1>1. v \in Reach(C, v)
      /\ \A y \in Reach(C, v) \cap DOMAIN C2 : C2[y] \cap DOMAIN C2 \subseteq Reach(C, v)
  BY ReachClosed
<1> QED BY <1>1, ReachLeast

\* json_value_free: a set of trees goes, and nobody else notices.  Only those
\* of its roots that were in no container are missing among the others.
LEMMA Pruned ==
  ASSUME NEW C, NEW P, Owned(C, P), Acyclic(C),
         NEW T \in SUBSET DOMAIN C, NEW C2,
         DOMAIN C2 = DOMAIN C \ UNION {Reach(C, t) : t \in T},
         \A x \in DOMAIN C2 : C2[x] = C[x] \ T
  PROVE  Owned(C2, P) /\ Acyclic(C2) /\ Tops(C2) = Tops(C) \ T
<1> DEFINE R == UNION {Reach(C, t) : t \in T}
<1>1. T \subseteq R /\ R \subseteq DOMAIN C
  BY ReachClosed
<1>2. ASSUME NEW y \in R, y \notin T
      PROVE  \E z \in R : z \in DOMAIN C /\ y \in C[z]
  <2>1. PICK t \in T : y \in Reach(C, t)
    BY <1>2
  <2>2. y # t /\ t \in DOMAIN C
    BY <1>2
  <2>3. PICK z \in Reach(C, t) : y \in C[z]
    BY <2>1, <2>2, ReachOwned
  <2> QED BY <1>1, <2>3
<1>3. ASSUME NEW y \in R, NEW x \in C[y] PROVE x \in R
  BY <1>1, ReachClosed DEF Owned
<1> HIDE DEF R
<1>4. DOMAIN C2 = DOMAIN C \ R
  BY DEF R
<1>5. Owned(C2, P)
  <2> SUFFICES ASSUME NEW c \in DOMAIN C2, NEW x \in C2[c]
               PROVE  x \in DOMAIN C2 /\ P[x] = c
    BY DEF Owned
  <2>1. x \in C[c] /\ x \notin T /\ c \in DOMAIN C
    BY <1>4
  <2>2. x \in DOMAIN C /\ P[x] = c
    BY <2>1 DEF Owned
  <2>3. x \notin R
    <3> SUFFICES ASSUME x \in R PROVE FALSE
      OBVIOUS
    <3>1. PICK z \in R : z \in DOMAIN C /\ x \in C[z]
      BY <2>1, <1>2
    <3>2. z = c
      BY <3>1, <2>2 DEF Owned
    <3> QED BY <3>2, <1>4
  <2> QED BY <2>2, <2>3, <1>4
<1>6. Acyclic(C2)
  <2> SUFFICES ASSUME NEW c \in DOMAIN C2, NEW x \in C2[c] PROVE c \notin Reach(C2, x)
    BY DEF Acyclic
  <2>1. x \in C[c] /\ c \in DOMAIN C /\ x \in DOMAIN C2
    BY <1>4, <1>5 DEF Owned
  <2>2. Reach(C2, x) \subseteq Reach(C, x)
    BY <1>4, <2>1, ReachLess
  <2> QED BY <2>1, <2>2 DEF Acyclic
<1>7. ASSUME NEW x \in Tops(C), x \notin T PROVE x \in Tops(C2)
  BY <1>2, <1>4, <1>7 DEF Tops
<1>8. ASSUME NEW x \in Tops(C2) PROVE x \in Tops(C) \ T
  <2>1. x \in DOMAIN C /\ x \notin R /\ x \notin T
    BY <1>1, <1>4 DEF Tops
  <2>2. ASSUME NEW c \in DOMAIN C, x \in C[c] PROVE FALSE
    <3>1. c \notin R
      BY <1>3, <2>1, <2>2
    <3> QED BY <1>4, <2>1, <2>2, <3>1 DEF Tops
  <2> QED BY <2>1, <2>2 DEF Tops
<1> QED BY <1>5, <1>6, <1>7, <1>8

\* A value that was in no container becomes part of o, which is not part of
\* it: nothing becomes part of itself.
LEMMA Joined ==
  ASSUME NEW C, NEW P, Owned(C, P), Acyclic(C),
         NEW o \in DOMAIN C, NEW v \in Tops(C), o \notin Reach(C, v),
         NEW C2, NEW P2, DOMAIN C2 = DOMAIN C,
         C2[o] = C[o] \cup {v}, \A x \in DOMAIN C \ {o} : C2[x] = C[x],
         P2[v] = o, \A x \in DOMAIN C \ {v} : P2[x] = P[x]
  PROVE  Owned(C2, P2) /\ Acyclic(C2) /\ Tops(C2) = Tops(C) \ {v}
<1>1. v \in DOMAIN C /\ \A c \in DOMAIN C : v \notin C[c]
  BY DEF Tops
<1>2. Owned(C2, P2)
  BY <1>1 DEF Owned
<1>3. ASSUME NEW x \in DOMAIN C
      PROVE  Reach(C2, x) \subseteq Reach(C, x) \cup Reach(C, v)
  <2> DEFINE S == Reach(C, x) \cup Reach(C, v)
  <2>1. v \in S /\ x \in S
    BY <1>1, ReachClosed
  <2>2. \A y \in S \cap DOMAIN C2 : C2[y] \cap DOMAIN C2 \subseteq S
    BY <1>1, <2>1, ReachClosed
  <2> HIDE DEF S
  <2>3. Reach(C2, x) \subseteq S
    BY <2>1, <2>2, ReachLeast
  <2> QED BY <2>3 DEF S
<1>4. ASSUME NEW x \in DOMAIN C, o \notin Reach(C, x)
      PROVE  Reach(C2, x) \subseteq Reach(C, x)
  <2>1. x \in Reach(C, x)
        /\ \A y \in Reach(C, x) \cap DOMAIN C2 : C2[y] \cap DOMAIN C2 \subseteq Reach(C, x)
    BY <1>4, ReachClosed
  <2> QED BY <2>1, ReachLeast
<1>5. Acyclic(C2)
  <2> SUFFICES ASSUME NEW c \in DOMAIN C2, NEW x \in C2[c], c \in Reach(C2, x)
               PROVE  FALSE
    BY DEF Acyclic
  <2>1. CASE x = v
    <3>1. c = o
      BY <1>1, <2>1
    <3> QED BY <1>1, <1>4, <2>1, <3>1
  <2>2. CASE x # v
    <3>1. x \in C[c] /\ x \in DOMAIN C /\ c \notin Reach(C, x)
      BY <2>2 DEF Owned, Acyclic
    <3>2. o \in Reach(C, x) /\ c \in Reach(C, v)
      BY <1>3, <1>4, <3>1
    <3>3. x \in Reach(C, v)
      BY <1>1, <3>1, <3>2, ReachClosed
    <3> QED BY <1>1, <3>2, <3>3, ReachPart
  <2> QED BY <2>1, <2>2
<1>6. Tops(C2) = Tops(C) \ {v}
  BY <1>1 DEF Tops
<1> QED BY <1>2, <1>5, <1>6

\* A new value is in no container and has nothing.
LEMMA Added ==
  ASSUME NEW C, NEW P, Owned(C, P), Acyclic(C), NEW n, n \notin DOMAIN C,
         NEW C2, NEW P2, DOMAIN C2 = DOMAIN C \cup {n},
         C2[n] = {}, \A x \in DOMAIN C : C2[x] = C[x] /\ P2[x] = P[x]
  PROVE  /\ Owned(C2, P2) /\ Acyclic(C2) /\ Tops(C2) = Tops(C) \cup {n}
         /\ Reach(C2, n) = {n}
         /\ \A x \in DOMAIN C : Reach(C2, x) \subseteq Reach(C, x)
<1>1. Owned(C2, P2)
  BY DEF Owned
<1>2. ASSUME NEW x \in DOMAIN C PROVE Reach(C2, x) \subseteq Reach(C, x)
  <2>1. x \in Reach(C, x) /\ Reach(C, x) \subseteq DOMAIN C
        /\ \A y \in Reach(C, x) : C2[y] \cap DOMAIN C2 \subseteq Reach(C, x)
    BY ReachClosed DEF Owned
  <2> QED BY <2>1, ReachLeast
<1>3. Reach(C2, n) = {n}
  <2>1. Reach(C2, n) \subseteq {n}
    BY ReachLeast
  <2> QED BY <2>1, ReachClosed
<1>4. Acyclic(C2)
  BY <1>2 DEF Acyclic, Owned
<1>5. Tops(C2) = Tops(C) \cup {n}
  BY DEF Tops, Owned
<1> QED BY <1>1, <1>2, <1>3, <1>4, <1>5

\* The same places, and the same parents where they matter.
LEMMA Unmoved ==
  ASSUME NEW C, NEW P, Owned(C, P), Acyclic(C),
         NEW C2, NEW P2, DOMAIN C2 = DOMAIN C, \A x \in DOMAIN C : C2[x] = C[x],
         \A x \in DOMAIN C \ Tops(C) : P2[x] = P[x]
  PROVE  Owned(C2, P2) /\ Acyclic(C2) /\ Tops(C2) = Tops(C)
<1>1. Owned(C2, P2)
  BY DEF Owned, Tops
<1>2. \A x \in DOMAIN C : Reach(C2, x) \subseteq Reach(C, x)
  BY ReachLess
<1>3. Acyclic(C2)
  BY <1>2 DEF Acyclic, Owned
<1> QED BY <1>1, <1>3 DEF Tops

-----------------------------------------------------------------------------
(* The arrays of one container.                                             *)

Cell == [type : Types, parent : Addresses \cup {NULL}, names : Seq(Names),
         values : Seq(Addresses), capacity : Nat]

Distinct(s) == \A i, j \in 1 .. Len(s) : s[i] = s[j] => i = j

CellOK(c) ==
  /\ c \in Cell
  /\ Distinct(c.values)
  /\ Len(c.values) <= c.capacity
  /\ c.type = "object" => Len(c.names) = Len(c.values) /\ Distinct(c.names)

LEMMA SetOf ==
  ASSUME NEW A, NEW s \in Seq(A)
  PROVE  /\ Len(s) \in Nat /\ DOMAIN s = 1 .. Len(s)
         /\ ToSet(s) = {s[i] : i \in 1 .. Len(s)} /\ ToSet(s) \subseteq A
BY DEF ToSet

LEMMA Appended ==
  ASSUME NEW A, NEW s \in Seq(A), NEW e \in A, e \notin ToSet(s), Distinct(s)
  PROVE  /\ Append(s, e) \in Seq(A) /\ Distinct(Append(s, e))
         /\ Len(Append(s, e)) = Len(s) + 1 /\ ToSet(Append(s, e)) = ToSet(s) \cup {e}
<1> DEFINE t == Append(s, e)
<1>1. /\ t \in Seq(A) /\ Len(t) = Len(s) + 1 /\ Len(s) \in Nat
      /\ \A i \in 1 .. Len(s) : t[i] = s[i]
      /\ t[Len(s) + 1] = e
  BY AppendProperties
<1>2. \A i \in 1 .. Len(s) : t[i] # e
  BY <1>1, SetOf
<1> HIDE DEF t
<1>3. Distinct(t)
  <2> SUFFICES ASSUME NEW i \in 1 .. Len(t), NEW j \in 1 .. Len(t), t[i] = t[j]
               PROVE  i = j
    BY DEF Distinct
  <2>1. CASE i \in 1 .. Len(s) /\ j \in 1 .. Len(s)
    BY <1>1, <2>1 DEF Distinct
  <2>2. CASE i = Len(s) + 1 \/ j = Len(s) + 1
    BY <1>1, <1>2, <2>2
  <2> QED BY <1>1, <2>1, <2>2
<1>4. ToSet(t) = ToSet(s) \cup {e}
  <2>1. ToSet(t) = {t[i] : i \in 1 .. Len(s) + 1} /\ ToSet(s) = {s[i] : i \in 1 .. Len(s)}
    BY <1>1, SetOf
  <2>2. 1 .. Len(s) + 1 = (1 .. Len(s)) \cup {Len(s) + 1}
    BY <1>1
  <2> QED BY <1>1, <2>1, <2>2
<1> QED BY <1>1, <1>3, <1>4 DEF t

\* The last element moves into the place of the one that goes.
LEMMA MovedLast ==
  ASSUME NEW A, NEW s \in Seq(A), NEW i \in 1 .. Len(s), Distinct(s)
  PROVE  LET t == SubSeq([s EXCEPT ![i] = s[Len(s)]], 1, Len(s) - 1)
         IN  /\ t \in Seq(A) /\ Distinct(t)
             /\ Len(t) = Len(s) - 1 /\ ToSet(t) = ToSet(s) \ {s[i]}
<1> DEFINE n == Len(s)
           u == [s EXCEPT ![i] = s[n]]
           t == SubSeq(u, 1, n - 1)
<1>1. n \in Nat /\ n >= 1 /\ s[n] \in A /\ n - 1 \in Nat
  BY ElementOfSeq, SetOf
<1>2. /\ u \in Seq(A) /\ Len(u) = n
      /\ \A j \in 1 .. n : u[j] = IF j = i THEN s[n] ELSE s[j]
  BY <1>1, ExceptSeq
<1> HIDE DEF u
<1>3. \A j \in 1 .. n - 1 : u[j] \in A
  BY <1>1, <1>2, ElementOfSeq
<1>4. t \in Seq(A) /\ Len(t) = n - 1 /\ \A j \in 1 .. n - 1 : t[j] = u[j]
  <2>1. (n - 1) - 1 + 1 = n - 1 /\ \A j \in 1 .. n - 1 : 1 + j - 1 = j
    BY <1>1
  <2>2. /\ t \in Seq(A) /\ Len(t) = IF 1 <= n - 1 THEN (n - 1) - 1 + 1 ELSE 0
        /\ \A j \in 1 .. (n - 1) - 1 + 1 : t[j] = u[1 + j - 1]
    BY <1>1, <1>3, SubSeqProperties
  <2> QED BY <1>1, <2>1, <2>2
<1> HIDE DEF t
<1>5. \A j \in 1 .. n - 1 : t[j] = IF j = i THEN s[n] ELSE s[j]
  BY <1>1, <1>2, <1>4
<1>6. Distinct(t)
  <2> SUFFICES ASSUME NEW j \in 1 .. n - 1, NEW k \in 1 .. n - 1, t[j] = t[k] PROVE j = k
    BY <1>4 DEF Distinct
  <2>1. j \in 1 .. n /\ k \in 1 .. n /\ n \in 1 .. n /\ j # n /\ k # n
    BY <1>1
  <2> QED BY <1>5, <2>1 DEF Distinct
<1>7. ToSet(t) = ToSet(s) \ {s[i]}
  <2>1. ToSet(t) = {t[j] : j \in 1 .. n - 1} /\ ToSet(s) = {s[j] : j \in 1 .. n}
    BY <1>4, SetOf
  <2>2. ASSUME NEW j \in 1 .. n - 1 PROVE t[j] \in ToSet(s) \ {s[i]}
    <3>1. j \in 1 .. n /\ n \in 1 .. n /\ j # n /\ i \in 1 .. n
      BY <1>1
    <3>2. CASE j = i
      <4>1. s[n] # s[i]
        BY <3>1, <3>2 DEF Distinct
      <4> QED BY <1>5, <2>1, <3>1, <3>2, <4>1
    <3>3. CASE j # i
      <4>1. s[j] # s[i]
        BY <3>1, <3>3 DEF Distinct
      <4> QED BY <1>5, <2>1, <3>1, <3>3, <4>1
    <3> QED BY <3>2, <3>3
  <2>3. ASSUME NEW j \in 1 .. n, s[j] # s[i] PROVE s[j] \in ToSet(t)
    <3>1. CASE j = n
      <4>1. i \in 1 .. n - 1
        BY <1>1, <2>3, <3>1
      <4> QED BY <1>5, <2>1, <3>1, <4>1
    <3>2. CASE j # n
      <4>1. j \in 1 .. n - 1 /\ j # i
        BY <1>1, <2>3, <3>2
      <4> QED BY <1>5, <2>1, <4>1
    <3> QED BY <3>1, <3>2
  <2> QED BY <2>1, <2>2, <2>3
<1> QED BY <1>4, <1>6, <1>7 DEF t, u

\* The elements behind the one that goes move up.
LEMMA MovedUp ==
  ASSUME NEW A, NEW s \in Seq(A), NEW i \in 1 .. Len(s), Distinct(s)
  PROVE  LET t == RemoveAt(s, i)
         IN  /\ t \in Seq(A) /\ Distinct(t)
             /\ Len(t) = Len(s) - 1 /\ ToSet(t) = ToSet(s) \ {s[i]}
<1> DEFINE n == Len(s)
           a == SubSeq(s, 1, i - 1)
           b == SubSeq(s, i + 1, n)
           t == a \o b
<1>1. n \in Nat /\ n >= 1 /\ i \in 1 .. n /\ \A j \in 1 .. n : s[j] \in A
  BY ElementOfSeq, SetOf
<1>2. a \in Seq(A) /\ Len(a) = i - 1 /\ \A j \in 1 .. i - 1 : a[j] = s[j]
  <2>1. i - 1 \in Int /\ (i - 1) - 1 + 1 = i - 1 /\ (\A j \in 1 .. i - 1 : 1 + j - 1 = j)
        /\ (1 <= i - 1 \/ i - 1 = 0)
    BY <1>1
  <2>2. \A j \in 1 .. i - 1 : s[j] \in A
    BY <1>1
  <2>3. /\ a \in Seq(A) /\ Len(a) = IF 1 <= i - 1 THEN (i - 1) - 1 + 1 ELSE 0
        /\ \A j \in 1 .. (i - 1) - 1 + 1 : a[j] = s[1 + j - 1]
    BY <2>1, <2>2, SubSeqProperties
  <2> QED BY <2>1, <2>3
<1>3. b \in Seq(A) /\ Len(b) = n - i /\ \A j \in 1 .. n - i : b[j] = s[i + j]
  <2>1. i + 1 \in Int /\ n \in Int /\ n - (i + 1) + 1 = n - i /\ (\A j \in 1 .. n - i : i + 1 + j - 1 = i + j)
        /\ (i + 1 <= n \/ n - i = 0)
    BY <1>1
  <2>2. \A j \in i + 1 .. n : s[j] \in A
    BY <1>1
  <2> HIDE DEF n
  <2>3. /\ b \in Seq(A) /\ Len(b) = IF i + 1 <= n THEN n - (i + 1) + 1 ELSE 0
        /\ \A j \in 1 .. n - (i + 1) + 1 : b[j] = s[i + 1 + j - 1]
    BY <2>1, <2>2, SubSeqProperties
  <2> QED BY <2>1, <2>3
<1> HIDE DEF a, b
<1>4. /\ t \in Seq(A) /\ Len(t) = n - 1
      /\ \A j \in 1 .. n - 1 : t[j] = IF j < i THEN s[j] ELSE s[j + 1]
  <2>1. /\ t \in Seq(A) /\ Len(t) = Len(a) + Len(b)
        /\ \A j \in 1 .. Len(a) + Len(b) :
             t[j] = IF j <= Len(a) THEN a[j] ELSE b[j - Len(a)]
    BY <1>2, <1>3, ConcatProperties
  <2>2. Len(a) + Len(b) = n - 1
    BY <1>1, <1>2, <1>3
  <2>3. ASSUME NEW j \in 1 .. n - 1 PROVE t[j] = IF j < i THEN s[j] ELSE s[j + 1]
    <3>1. CASE j < i
      <4>1. j \in 1 .. i - 1 /\ j <= Len(a)
        BY <1>1, <1>2, <3>1
      <4> QED BY <1>2, <2>1, <2>2, <3>1, <4>1
    <3>2. CASE ~(j < i)
      <4>1. j - (i - 1) \in 1 .. n - i /\ ~(j <= i - 1) /\ i + (j - (i - 1)) = j + 1
        BY <1>1, <3>2
      <4> QED BY <1>2, <1>3, <2>1, <2>2, <3>2, <4>1
    <3> QED BY <3>1, <3>2
  <2> QED BY <2>1, <2>2, <2>3
<1> HIDE DEF t
<1>5. Distinct(t)
  <2> SUFFICES ASSUME NEW j \in 1 .. n - 1, NEW k \in 1 .. n - 1, t[j] = t[k] PROVE j = k
    BY <1>4 DEF Distinct
  <2>1. j \in 1 .. n /\ k \in 1 .. n /\ j + 1 \in 1 .. n /\ k + 1 \in 1 .. n
    BY <1>1
  <2>2. CASE j < i /\ k < i
    BY <1>4, <2>1, <2>2 DEF Distinct
  <2>3. CASE ~(j < i) /\ ~(k < i)
    <3>1. j + 1 = k + 1
      BY <1>4, <2>1, <2>3 DEF Distinct
    <3> QED BY <3>1
  <2>4. CASE j < i /\ ~(k < i)
    <3>1. j = k + 1
      BY <1>4, <2>1, <2>4 DEF Distinct
    <3> QED BY <1>1, <2>4, <3>1
  <2>5. CASE ~(j < i) /\ k < i
    <3>1. j + 1 = k
      BY <1>4, <2>1, <2>5 DEF Distinct
    <3> QED BY <1>1, <2>5, <3>1
  <2> QED BY <2>2, <2>3, <2>4, <2>5
<1>6. ToSet(t) = ToSet(s) \ {s[i]}
  <2>1. ToSet(t) = {t[j] : j \in 1 .. n - 1} /\ ToSet(s) = {s[j] : j \in 1 .. n}
    BY <1>4, SetOf
  <2>2. ASSUME NEW j \in 1 .. n - 1 PROVE t[j] \in ToSet(s) \ {s[i]}
    <3>1. j \in 1 .. n /\ j + 1 \in 1 .. n
      BY <1>1
    <3>2. CASE j < i
      BY <1>1, <1>4, <2>1, <3>1, <3>2 DEF Distinct
    <3>3. CASE ~(j < i)
      <4>1. j + 1 # i
        BY <1>1, <3>3
      <4> QED BY <1>1, <1>4, <2>1, <3>1, <3>3, <4>1 DEF Distinct
    <3> QED BY <3>2, <3>3
  <2>3. ASSUME NEW j \in 1 .. n, s[j] # s[i] PROVE s[j] \in ToSet(t)
    <3>1. CASE j < i
      <4>1. j \in 1 .. n - 1
        BY <1>1, <3>1
      <4> QED BY <1>4, <2>1, <3>1, <4>1
    <3>2. CASE ~(j < i)
      <4>1. j - 1 \in 1 .. n - 1 /\ ~(j - 1 < i) /\ (j - 1) + 1 = j
        BY <1>1, <2>3, <3>2
      <4> QED BY <1>4, <2>1, <4>1
    <3> QED BY <3>1, <3>2
  <2> QED BY <2>1, <2>2, <2>3
<1> QED BY <1>4, <1>5, <1>6 DEF t, a, b, RemoveAt

LEMMA ResizedOK ==
  ASSUME NEW c, CellOK(c)
  PROVE  /\ CellOK(Resized(c)) /\ Len(c.values) < Resized(c).capacity
         /\ Resized(c).type = c.type /\ Resized(c).parent = c.parent
         /\ Resized(c).names = c.names /\ Resized(c).values = c.values
<1> DEFINE S == STARTING_CAPACITY
           k == IF 2 * c.capacity > S THEN 2 * c.capacity ELSE S
           g == [c EXCEPT !.capacity = k]
<1>1. c \in Cell /\ c.capacity \in Nat /\ Len(c.values) \in Nat /\ S \in Nat /\ S > 0
  BY JsonAssumption, SetOf DEF CellOK, Cell
<1>2. CASE Len(c.values) < c.capacity
  BY <1>2 DEF Resized
<1>3. CASE ~(Len(c.values) < c.capacity)
  <2>1. k \in Nat /\ Len(c.values) < k
    BY <1>1, <1>3 DEF CellOK
  <2>2. Resized(c) = g
    BY <1>3 DEF Resized
  <2> HIDE DEF k
  <2>3. /\ g \in Cell /\ g.type = c.type /\ g.parent = c.parent
        /\ g.names = c.names /\ g.values = c.values /\ g.capacity = k
    BY <1>1, <2>1 DEF Cell
  <2> HIDE DEF g
  <2>4. CellOK(g)
    BY <1>1, <2>1, <2>3 DEF CellOK
  <2> QED BY <2>1, <2>2, <2>3, <2>4
<1> QED BY <1>2, <1>3

\* What json_object_addn leaves, which writes at index count of both arrays.
Paired(c, name, v) == [Resized(c) EXCEPT !.names = Append(@, name), !.values = Append(@, v)]

LEMMA PairAppended ==
  ASSUME NEW c, CellOK(c), NEW n \in Names, n \notin ToSet(c.names),
         c.type = "object", NEW v \in Addresses, v \notin ToSet(c.values)
  PROVE  LET g == Paired(c, n, v)
         IN  /\ CellOK(g) /\ g.type = c.type /\ g.parent = c.parent
             /\ ToSet(g.values) = ToSet(c.values) \cup {v}
             /\ g.names = Append(c.names, n) /\ g.values = Append(c.values, v)
<1> DEFINE r == Resized(c)
           g == [r EXCEPT !.names = Append(@, n), !.values = Append(@, v)]
<1>1. /\ CellOK(r) /\ Len(c.values) < r.capacity /\ r.type = c.type
      /\ r.parent = c.parent /\ r.names = c.names /\ r.values = c.values
  BY ResizedOK
<1> HIDE DEF r
<1>2. r \in Cell /\ c.names \in Seq(Names) /\ c.values \in Seq(Addresses)
      /\ Distinct(c.values) /\ Distinct(c.names) /\ Len(c.names) = Len(c.values)
      /\ r.capacity \in Nat
  BY <1>1 DEF CellOK, Cell
<1>3. /\ Append(c.names, n) \in Seq(Names) /\ Distinct(Append(c.names, n))
      /\ Len(Append(c.names, n)) = Len(c.names) + 1
  BY <1>2, Appended
<1>4. /\ Append(c.values, v) \in Seq(Addresses) /\ Distinct(Append(c.values, v))
      /\ Len(Append(c.values, v)) = Len(c.values) + 1
      /\ ToSet(Append(c.values, v)) = ToSet(c.values) \cup {v} /\ Len(c.values) \in Nat
  BY <1>2, Appended, SetOf
<1>5. /\ g.names = Append(c.names, n) /\ g.values = Append(c.values, v)
      /\ g.type = r.type /\ g.parent = r.parent /\ g.capacity = r.capacity
  BY <1>1, <1>2 DEF Cell
<1>6. g \in Cell
  BY <1>1, <1>2, <1>3, <1>4 DEF Cell
<1> HIDE DEF g
<1> QED BY <1>1, <1>2, <1>3, <1>4, <1>5, <1>6 DEF CellOK, g, r, Paired

\* json_array_add.
LEMMA ItemAppended ==
  ASSUME NEW c, CellOK(c), c.type = "array", NEW v \in Addresses, v \notin ToSet(c.values)
  PROVE  LET g == [Resized(c) EXCEPT !.values = Append(@, v)]
         IN  /\ CellOK(g) /\ g.type = c.type /\ g.parent = c.parent
             /\ ToSet(g.values) = ToSet(c.values) \cup {v}
<1> DEFINE r == Resized(c)
           g == [r EXCEPT !.values = Append(@, v)]
<1>1. /\ CellOK(r) /\ Len(c.values) < r.capacity /\ r.type = c.type
      /\ r.parent = c.parent /\ r.values = c.values
  BY ResizedOK
<1> HIDE DEF r
<1>2. r \in Cell /\ c.values \in Seq(Addresses) /\ Distinct(c.values) /\ r.capacity \in Nat
  BY <1>1 DEF CellOK, Cell
<1>4. /\ Append(c.values, v) \in Seq(Addresses) /\ Distinct(Append(c.values, v))
      /\ Len(Append(c.values, v)) = Len(c.values) + 1
      /\ ToSet(Append(c.values, v)) = ToSet(c.values) \cup {v} /\ Len(c.values) \in Nat
  BY <1>2, Appended, SetOf
<1>5. /\ g.values = Append(c.values, v)
      /\ g.type = r.type /\ g.parent = r.parent /\ g.capacity = r.capacity
  BY <1>1, <1>2 DEF Cell
<1>6. g \in Cell
  BY <1>1, <1>2, <1>4 DEF Cell
<1> HIDE DEF g
<1> QED BY <1>1, <1>2, <1>4, <1>5, <1>6 DEF CellOK, g, r

\* A value takes the place of another.
LEMMA Replaced ==
  ASSUME NEW c, CellOK(c), NEW i \in 1 .. Len(c.values),
         NEW v \in Addresses, v \notin ToSet(c.values)
  PROVE  LET g == [c EXCEPT !.values[i] = v]
         IN  /\ CellOK(g) /\ g.type = c.type /\ g.parent = c.parent
             /\ ToSet(g.values) = (ToSet(c.values) \ {c.values[i]}) \cup {v}
<1> DEFINE s == c.values
           t == [s EXCEPT ![i] = v]
           g == [c EXCEPT !.values[i] = v]
<1>1. c \in Cell /\ s \in Seq(Addresses) /\ Distinct(s) /\ Len(s) \in Nat
  BY SetOf DEF CellOK, Cell
<1>2. /\ t \in Seq(Addresses) /\ Len(t) = Len(s)
      /\ \A j \in 1 .. Len(s) : t[j] = IF j = i THEN v ELSE s[j]
  BY <1>1, ExceptSeq
<1>3. /\ g.values = t /\ g \in Cell /\ g.type = c.type /\ g.parent = c.parent
      /\ g.names = c.names /\ g.capacity = c.capacity
  BY <1>1, <1>2 DEF Cell
<1> HIDE DEF g, t
<1>4. \A j \in 1 .. Len(s) : s[j] # v
  BY <1>1, SetOf
<1>5. Distinct(t)
  BY <1>1, <1>2, <1>4 DEF Distinct
<1>6. ToSet(t) = (ToSet(s) \ {s[i]}) \cup {v}
  <2>1. ToSet(t) = {t[j] : j \in 1 .. Len(s)} /\ ToSet(s) = {s[j] : j \in 1 .. Len(s)}
    BY <1>1, <1>2, SetOf
  <2>2. ASSUME NEW j \in 1 .. Len(s), j # i PROVE t[j] \in ToSet(s) \ {s[i]}
    BY <1>1, <1>2, <2>1, <2>2 DEF Distinct
  <2>3. ASSUME NEW j \in 1 .. Len(s), s[j] # s[i] PROVE s[j] \in ToSet(t)
    BY <1>2, <2>1, <2>3
  <2> QED BY <1>2, <2>1, <2>2, <2>3
<1> QED BY <1>1, <1>2, <1>3, <1>5, <1>6 DEF CellOK, g

\* json_object_remove_internal, lines 437-450.
LEMMA PairRemoved ==
  ASSUME NEW c, CellOK(c), c.type = "object", NEW i \in 1 .. Len(c.values)
  PROVE  LET g == WithoutPair(c, i)
         IN  /\ CellOK(g) /\ g.type = c.type /\ g.parent = c.parent
             /\ ToSet(g.values) = ToSet(c.values) \ {c.values[i]}
             /\ Len(g.values) = Len(c.values) - 1
<1> DEFINE n == Len(c.names)
           ns == SubSeq([c.names EXCEPT ![i] = c.names[n]], 1, n - 1)
           vs == SubSeq([c.values EXCEPT ![i] = c.values[n]], 1, n - 1)
           g == [c EXCEPT !.names = ns, !.values = vs]
<1>1. /\ c \in Cell /\ c.names \in Seq(Names) /\ c.values \in Seq(Addresses)
      /\ Distinct(c.values) /\ Distinct(c.names) /\ Len(c.names) = Len(c.values)
      /\ Len(c.values) <= c.capacity /\ c.capacity \in Nat /\ Len(c.values) \in Nat
  BY SetOf DEF CellOK, Cell
<1>2. ns \in Seq(Names) /\ Distinct(ns) /\ Len(ns) = n - 1
  BY <1>1, MovedLast
<1>3. /\ vs \in Seq(Addresses) /\ Distinct(vs) /\ Len(vs) = n - 1
      /\ ToSet(vs) = ToSet(c.values) \ {c.values[i]}
  BY <1>1, MovedLast
<1>4. WithoutPair(c, i) = g
  BY DEF WithoutPair
<1> HIDE DEF ns, vs
<1>5. /\ g \in Cell /\ g.names = ns /\ g.values = vs /\ g.type = c.type
      /\ g.parent = c.parent /\ g.capacity = c.capacity
  BY <1>1, <1>2, <1>3 DEF Cell
<1> HIDE DEF g, n
<1>6. n \in Nat /\ n = Len(c.values)
  BY <1>1 DEF n
<1> QED BY <1>1, <1>2, <1>3, <1>4, <1>5, <1>6 DEF CellOK

\* json_array_remove.
LEMMA ItemRemoved ==
  ASSUME NEW c, CellOK(c), c.type = "array", NEW i \in 1 .. Len(c.values)
  PROVE  LET g == [c EXCEPT !.values = RemoveAt(@, i)]
         IN  /\ CellOK(g) /\ g.type = c.type /\ g.parent = c.parent
             /\ ToSet(g.values) = ToSet(c.values) \ {c.values[i]}
<1> DEFINE vs == RemoveAt(c.values, i)
           g == [c EXCEPT !.values = RemoveAt(@, i)]
<1>1. /\ c \in Cell /\ c.values \in Seq(Addresses) /\ Distinct(c.values)
      /\ Len(c.values) <= c.capacity /\ c.capacity \in Nat /\ Len(c.values) \in Nat
  BY SetOf DEF CellOK, Cell
<1>2. /\ vs \in Seq(Addresses) /\ Distinct(vs) /\ Len(vs) = Len(c.values) - 1
      /\ ToSet(vs) = ToSet(c.values) \ {c.values[i]}
  BY <1>1, MovedUp
<1>3. g = [c EXCEPT !.values = vs]
  BY <1>1 DEF Cell
<1> HIDE DEF vs
<1>4. /\ g \in Cell /\ g.values = vs /\ g.type = c.type
      /\ g.parent = c.parent /\ g.capacity = c.capacity
  BY <1>1, <1>2, <1>3 DEF Cell
<1> HIDE DEF g
<1> QED BY <1>1, <1>2, <1>4 DEF CellOK, g

\* json_object_clear, json_array_clear.
LEMMA Cleared ==
  ASSUME NEW c, CellOK(c)
  PROVE  LET g == [c EXCEPT !.names = <<>>, !.values = <<>>]
         IN  /\ CellOK(g) /\ g.type = c.type /\ g.parent = c.parent
             /\ ToSet(g.values) = {}
<1> DEFINE g == [c EXCEPT !.names = <<>>, !.values = <<>>]
<1>1. c \in Cell /\ c.capacity \in Nat /\ Len(<<>>) = 0
      /\ <<>> \in Seq(Names) /\ <<>> \in Seq(Addresses)
  BY DEF CellOK, Cell
<1>2. /\ g \in Cell /\ g.values = <<>> /\ g.names = <<>> /\ g.type = c.type
      /\ g.parent = c.parent /\ g.capacity = c.capacity
  BY <1>1 DEF Cell
<1>3. ToSet(<<>>) = {}
  BY DEF ToSet
<1> HIDE DEF g
<1> QED BY <1>1, <1>2, <1>3 DEF CellOK, Distinct, g

LEMMA Reparented ==
  ASSUME NEW c, CellOK(c), NEW o \in Addresses \cup {NULL}
  PROVE  LET g == [c EXCEPT !.parent = o]
         IN  /\ CellOK(g) /\ g.type = c.type /\ g.parent = o
             /\ g.values = c.values /\ g.names = c.names /\ g.capacity = c.capacity
BY DEF CellOK, Cell

LEMMA NewOK ==
  ASSUME NEW type \in Types
  PROVE  /\ CellOK(New(type)) /\ New(type).names = <<>> /\ New(type).values = <<>>
         /\ ToSet(New(type).values) = {} /\ New(type).type = type
         /\ New(type).parent = NULL
<1>1. <<>> \in Seq(Names) /\ <<>> \in Seq(Addresses) /\ Len(<<>>) = 0 /\ ToSet(<<>>) = {}
  BY DEF ToSet
<1> QED BY <1>1 DEF New, CellOK, Cell, Distinct

-----------------------------------------------------------------------------
(* Heaps.                                                                   *)

Kids(h) == [x \in DOMAIN h |-> Children(h, x)]
Parents(h) == [x \in DOMAIN h |-> h[x].parent]
Roots(h) == Tops(Kids(h))

\* The inductive invariant of a heap.
Good(h) ==
  /\ DOMAIN h \subseteq Addresses
  /\ \A x \in DOMAIN h : CellOK(h[x])
  /\ Owned(Kids(h), Parents(h))
  /\ Acyclic(Kids(h))

\* What a call that fails has to leave.
Kept(h, g) ==
  /\ DOMAIN g = DOMAIN h
  /\ \A x \in DOMAIN h : g[x].names = h[x].names /\ g[x].values = h[x].values

LEMMA KidsOf ==
  ASSUME NEW h
  PROVE  /\ DOMAIN Kids(h) = DOMAIN h /\ DOMAIN Parents(h) = DOMAIN h
         /\ \A x \in DOMAIN h : /\ Kids(h)[x] = Children(h, x)
                                /\ Kids(h)[x] = ToSet(h[x].values)
                                /\ Parents(h)[x] = h[x].parent
         /\ \A v : Subtree(h, v) = Reach(Kids(h), v)
<1>1. /\ DOMAIN Kids(h) = DOMAIN h /\ DOMAIN Parents(h) = DOMAIN h
      /\ \A x \in DOMAIN h : /\ Kids(h)[x] = Children(h, x)
                             /\ Kids(h)[x] = ToSet(h[x].values)
                             /\ Parents(h)[x] = h[x].parent
  BY DEF Kids, Parents, Children
<1>2. ASSUME NEW v PROVE Subtree(h, v) = Reach(Kids(h), v)
  <2>1. \A S \in SUBSET DOMAIN h :
          (\A y \in S : Kids(h)[y] \cap DOMAIN h \subseteq S)
          <=> (\A y \in S : Children(h, y) \cap DOMAIN h \subseteq S)
    BY <1>1
  <2> QED BY <1>1, <2>1 DEF Subtree, Reach
<1> QED BY <1>1, <1>2

\* What is in a container.
LEMMA ChildFacts ==
  ASSUME NEW h, Good(h), NEW o \in DOMAIN h
  PROVE  /\ h[o].values \in Seq(Addresses) /\ Len(h[o].values) \in Nat
         /\ h[o].names \in Seq(Names)
         /\ Children(h, o) = {h[o].values[i] : i \in 1 .. Len(h[o].values)}
         /\ \A x \in Children(h, o) : /\ x \in DOMAIN h /\ h[x].parent = o
                                      /\ x \notin Roots(h) /\ o \notin Subtree(h, x)
                                      /\ \A c \in DOMAIN h \ {o} : x \notin Children(h, c)
<1>1. h[o].values \in Seq(Addresses) /\ h[o].names \in Seq(Names)
  BY DEF Good, CellOK, Cell
<1>2. Children(h, o) = {h[o].values[i] : i \in 1 .. Len(h[o].values)}
      /\ Len(h[o].values) \in Nat
  BY <1>1, SetOf DEF Children
<1>3. ASSUME NEW x \in Children(h, o)
      PROVE  /\ x \in DOMAIN h /\ h[x].parent = o
             /\ x \notin Roots(h) /\ o \notin Subtree(h, x)
             /\ \A c \in DOMAIN h \ {o} : x \notin Children(h, c)
  BY KidsOf DEF Good, Owned, Acyclic, Roots, Tops
<1> QED BY <1>1, <1>2, <1>3

\* Growing an array, naming another parent for a root: nothing moves.
LEMMA KeptGood ==
  ASSUME NEW h, Good(h), NEW g, Kept(h, g),
         \A x \in DOMAIN h : CellOK(g[x]),
         \A x \in DOMAIN h \ Roots(h) : g[x].parent = h[x].parent
  PROVE  Good(g) /\ Roots(g) = Roots(h)
<1>1. DOMAIN Kids(g) = DOMAIN Kids(h) /\ \A x \in DOMAIN Kids(h) : Kids(g)[x] = Kids(h)[x]
  BY KidsOf DEF Kept
<1>2. \A x \in DOMAIN Kids(h) \ Tops(Kids(h)) : Parents(g)[x] = Parents(h)[x]
  BY KidsOf DEF Kept, Roots
<1> QED BY <1>1, <1>2, Unmoved DEF Good, Roots, Kept

\* The value v is in no container of the graph C, which is h but for o, where
\* cell is what o becomes: its values and v.
Linkable(h, C, P, o, v, cell) ==
  /\ Owned(C, P) /\ Acyclic(C)
  /\ DOMAIN h \subseteq Addresses /\ DOMAIN C = DOMAIN h
  /\ \A x \in DOMAIN h : CellOK(h[x]) /\ P[x] = h[x].parent
  /\ o \in DOMAIN h /\ \A x \in DOMAIN h \ {o} : Children(h, x) = C[x]
  /\ v \in Tops(C) /\ o \notin Reach(C, v)
  /\ CellOK(cell) /\ cell.parent = h[o].parent
  /\ ToSet(cell.values) = C[o] \cup {v}

IsLinked(h, g, o, v, cell) ==
  /\ DOMAIN g = DOMAIN h /\ \A x \in DOMAIN h \ {o, v} : g[x] = h[x]
  /\ o # v /\ g[o] = cell /\ g[v] = [h[v] EXCEPT !.parent = o]

LEMMA LinkedGood ==
  ASSUME NEW h, NEW C, NEW P, NEW o, NEW v, NEW cell, Linkable(h, C, P, o, v, cell)
  PROVE  LET g == Linked(h, o, cell, v)
         IN  Good(g) /\ Roots(g) = Tops(C) \ {v} /\ IsLinked(h, g, o, v, cell)
<1> DEFINE g == Linked(h, o, cell, v)
<1>1. v \in DOMAIN h /\ v # o /\ v \notin C[o] /\ o \in DOMAIN h
  BY ReachClosed DEF Tops, Linkable
<1>2. IsLinked(h, g, o, v, cell)
  BY <1>1 DEF Linked, Changed, IsLinked
<1> HIDE DEF g
<1>3. o \in Addresses \cup {NULL} /\ CellOK(g[v]) /\ g[v].parent = o /\ g[v].values = h[v].values
  BY <1>1, <1>2, Reparented DEF Linkable, IsLinked
<1>4. DOMAIN g \subseteq Addresses /\ \A x \in DOMAIN g : CellOK(g[x])
  BY <1>2, <1>3 DEF Linkable, IsLinked
<1>5. /\ DOMAIN Kids(g) = DOMAIN C /\ Kids(g)[o] = C[o] \cup {v}
      /\ \A x \in DOMAIN C \ {o} : Kids(g)[x] = C[x]
  <2>1. DOMAIN Kids(g) = DOMAIN g /\ \A x \in DOMAIN g : Kids(g)[x] = ToSet(g[x].values)
    BY KidsOf
  <2>2. /\ \A x \in DOMAIN h \ {o} : ToSet(h[x].values) = C[x]
        /\ ToSet(cell.values) = C[o] \cup {v} /\ DOMAIN C = DOMAIN h
    BY DEF Children, Linkable
  <2>3. /\ \A x \in DOMAIN h \ {o} : g[x].values = h[x].values
        /\ g[o] = cell /\ DOMAIN g = DOMAIN h
    BY <1>2, <1>3 DEF IsLinked
  <2> QED BY <1>1, <2>1, <2>2, <2>3
<1>6. Parents(g)[v] = o /\ \A x \in DOMAIN C \ {v} : Parents(g)[x] = P[x]
  <2>1. \A x \in DOMAIN g : Parents(g)[x] = g[x].parent
    BY KidsOf
  <2>2. \A x \in DOMAIN h \ {v} : g[x].parent = h[x].parent
    BY <1>2 DEF IsLinked, Linkable
  <2>3. DOMAIN g = DOMAIN h /\ v \in DOMAIN h /\ g[v].parent = o
    BY <1>1, <1>2, <1>3 DEF IsLinked
  <2>4. DOMAIN C = DOMAIN h /\ \A x \in DOMAIN h : P[x] = h[x].parent
    BY DEF Linkable
  <2> QED BY <2>1, <2>2, <2>3, <2>4
<1>7. Owned(Kids(g), Parents(g)) /\ Acyclic(Kids(g)) /\ Tops(Kids(g)) = Tops(C) \ {v}
  <2>1. /\ Owned(C, P) /\ Acyclic(C) /\ o \in DOMAIN C /\ v \in Tops(C) /\ o \notin Reach(C, v)
    BY DEF Linkable
  <2> QED BY <1>5, <1>6, <2>1, Joined
<1> QED BY <1>2, <1>4, <1>7 DEF Good, Roots, g

\* Without what is freed, and without its places.
Remaining(h, T) == [x \in DOMAIN json_value_free(h, T) |-> Children(h, x) \ T]

LEMMA FreedGraph ==
  ASSUME NEW h, Good(h), NEW T \in SUBSET DOMAIN h
  PROVE  LET r == json_value_free(h, T)
             C == Remaining(h, T)
         IN  /\ DOMAIN r \subseteq DOMAIN h /\ DOMAIN r \cap T = {}
             /\ \A x \in DOMAIN r : r[x] = h[x]
             /\ DOMAIN C = DOMAIN r /\ \A x \in DOMAIN r : C[x] = Children(h, x) \ T
             /\ Owned(C, Parents(h)) /\ Acyclic(C) /\ Tops(C) = Roots(h) \ T
             /\ \A v \in DOMAIN r : Reach(C, v) \subseteq Subtree(h, v)
<1> DEFINE r == json_value_free(h, T)
           C == [x \in DOMAIN r |-> Children(h, x) \ T]
<1>1. DOMAIN r = DOMAIN h \ UNION {Reach(Kids(h), t) : t \in T}
      /\ \A x \in DOMAIN r : r[x] = h[x]
  BY KidsOf DEF json_value_free
<1>2. DOMAIN r \cap T = {}
  BY <1>1, KidsOf, ReachClosed
<1> HIDE DEF r
<1>3. DOMAIN C = DOMAIN Kids(h) \ UNION {Reach(Kids(h), t) : t \in T}
      /\ T \in SUBSET DOMAIN Kids(h)
      /\ \A x \in DOMAIN C : C[x] = Kids(h)[x] \ T
  BY <1>1, KidsOf
<1> HIDE DEF C
<1>4. Owned(C, Parents(h)) /\ Acyclic(C) /\ Tops(C) = Tops(Kids(h)) \ T
  BY <1>3, Pruned DEF Good
<1>5. DOMAIN C = DOMAIN r
  BY DEF C
<1>6. ASSUME NEW v \in DOMAIN r PROVE Reach(C, v) \subseteq Subtree(h, v)
  <2>1. DOMAIN C \subseteq DOMAIN Kids(h) /\ \A x \in DOMAIN C : C[x] \subseteq Kids(h)[x]
    BY <1>3
  <2> QED BY <1>5, <2>1, ReachLess, KidsOf
<1>7. \A x \in DOMAIN r : C[x] = Children(h, x) \ T
  BY DEF C
<1> QED BY <1>1, <1>2, <1>4, <1>5, <1>6, <1>7 DEF Roots, C, r, Remaining

\* FreeValue, and every call that frees values and their places.
LEMMA FreedGood ==
  ASSUME NEW h, Good(h), NEW T \in SUBSET DOMAIN h, NEW g,
         DOMAIN g = DOMAIN json_value_free(h, T),
         \A x \in DOMAIN g : /\ CellOK(g[x]) /\ g[x].parent = h[x].parent
                             /\ Children(g, x) = Children(h, x) \ T
  PROVE  Good(g) /\ Roots(g) = Roots(h) \ T
<1> DEFINE r == json_value_free(h, T)
           C == Remaining(h, T)
<1>1. /\ DOMAIN r \subseteq DOMAIN h /\ DOMAIN C = DOMAIN r
      /\ \A x \in DOMAIN C : C[x] = Children(h, x) \ T
      /\ Owned(C, Parents(h)) /\ Acyclic(C) /\ Tops(C) = Roots(h) \ T
  BY FreedGraph
<1> HIDE DEF r, C
<1>3. DOMAIN Kids(g) = DOMAIN C /\ \A x \in DOMAIN C : Kids(g)[x] = C[x]
  BY <1>1, KidsOf DEF r
<1>4. \A x \in DOMAIN C \ Tops(C) : Parents(g)[x] = Parents(h)[x]
  BY <1>1, KidsOf DEF r
<1>5. Owned(Kids(g), Parents(g)) /\ Acyclic(Kids(g)) /\ Tops(Kids(g)) = Tops(C)
  BY <1>1, <1>3, <1>4, Unmoved
<1> QED BY <1>1, <1>5 DEF Good, Roots, r

-----------------------------------------------------------------------------
(* The calls, on any heap.                                                  *)

\* A call that is to give v away: v is the container's, or all is as before.
GivesOK(h, v, out) ==
  /\ Good(out[2])
  /\ \/ out[1] = "success" /\ Roots(out[2]) = Roots(h) \ {v}
     \/ out[1] = "failure" /\ Roots(out[2]) = Roots(h) /\ Kept(h, out[2])

\* A call that frees what is in a container.
LosesOK(h, out) ==
  /\ Good(out[2]) /\ Roots(out[2]) = Roots(h)
  /\ \/ out[1] = "success"
     \/ out[1] = "failure" /\ Kept(h, out[2])

LEMMA KeptFails ==
  ASSUME NEW h, Good(h)
  PROVE  /\ Kept(h, h)
         /\ \A v : GivesOK(h, v, <<"failure", h>>)
         /\ LosesOK(h, <<"failure", h>>)
BY DEF Kept, GivesOK, LosesOK

\* A place for one more, and nothing in it.
LEMMA GrownGood ==
  ASSUME NEW h, Good(h), NEW o \in DOMAIN h
  PROVE  LET g == Changed(h, o, Resized(h[o]))
         IN  Good(g) /\ Roots(g) = Roots(h) /\ Kept(h, g)
             /\ \A x \in DOMAIN h : g[x].type = h[x].type /\ g[x].parent = h[x].parent
                                    /\ (x # o => g[x] = h[x])
<1> DEFINE g == Changed(h, o, Resized(h[o]))
<1>1. DOMAIN g = DOMAIN h /\ g[o] = Resized(h[o]) /\ \A x \in DOMAIN h \ {o} : g[x] = h[x]
  BY DEF Changed
<1>2. /\ CellOK(g[o]) /\ g[o].names = h[o].names /\ g[o].values = h[o].values
      /\ g[o].type = h[o].type /\ g[o].parent = h[o].parent
  BY <1>1, ResizedOK DEF Good
<1> HIDE DEF g
<1>3. Kept(h, g)
  BY <1>1, <1>2 DEF Kept
<1>4. \A x \in DOMAIN h : CellOK(g[x]) /\ g[x].parent = h[x].parent /\ g[x].type = h[x].type
  BY <1>1, <1>2 DEF Good
<1>5. Good(g) /\ Roots(g) = Roots(h)
  BY <1>3, <1>4, KeptGood
<1> QED BY <1>1, <1>3, <1>4, <1>5 DEF g

\* What every call that gives v to o is called with.
Legal(h, o, v) ==
  Good(h) /\ o \in DOMAIN h /\ v \in Roots(h) /\ o \notin Subtree(h, v)

LEMMA LegalFacts ==
  ASSUME NEW h, NEW o, NEW v, Legal(h, o, v)
  PROVE  /\ Good(h) /\ o \in DOMAIN h /\ v \in DOMAIN h /\ v \in Addresses /\ v # o
         /\ CellOK(h[o]) /\ v \notin ToSet(h[o].values) /\ v \in Roots(h)
<1>1. v \in Subtree(h, v)
  BY KidsOf, ReachClosed DEF Legal, Roots, Tops
<1>2. v \in DOMAIN h /\ v \notin ToSet(h[o].values)
  BY KidsOf DEF Legal, Roots, Tops
<1> QED BY <1>1, <1>2 DEF Legal, Good

\* Nothing but v comes to o.
LEMMA LegalLinkable ==
  ASSUME NEW h, NEW o, NEW v, Legal(h, o, v),
         NEW cell, CellOK(cell), cell.parent = h[o].parent,
         ToSet(cell.values) = ToSet(h[o].values) \cup {v}
  PROVE  Linkable(h, Kids(h), Parents(h), o, v, cell)
<1>1. /\ DOMAIN Kids(h) = DOMAIN h
      /\ \A x \in DOMAIN h : /\ Kids(h)[x] = Children(h, x) /\ Kids(h)[x] = ToSet(h[x].values)
                             /\ Parents(h)[x] = h[x].parent
      /\ Subtree(h, v) = Reach(Kids(h), v)
  BY KidsOf
<1>2. o \in DOMAIN h /\ v \in Tops(Kids(h)) /\ o \notin Reach(Kids(h), v)
  BY <1>1 DEF Legal, Roots
<1>3. /\ Owned(Kids(h), Parents(h)) /\ Acyclic(Kids(h)) /\ DOMAIN h \subseteq Addresses
      /\ \A x \in DOMAIN h : CellOK(h[x])
  BY DEF Good, Legal
<1> QED BY <1>1, <1>2, <1>3 DEF Linkable

LEMMA PairLinked ==
  ASSUME NEW h, NEW o, NEW v, Legal(h, o, v), h[o].type = "object",
         NEW name \in Names, At(h, o, name) = {}
  PROVE  LET cell == Paired(h[o], name, v)
             g == Linked(h, o, cell, v)
         IN  /\ Good(g) /\ Roots(g) = Roots(h) \ {v} /\ IsLinked(h, g, o, v, cell)
             /\ cell.names = Append(h[o].names, name) /\ cell.values = Append(h[o].values, v)
<1> DEFINE c == h[o]
           cell == Paired(c, name, v)
<1>1. CellOK(c) /\ c.names \in Seq(Names) /\ v \in Addresses /\ v \notin ToSet(c.values)
  BY LegalFacts DEF CellOK, Cell
<1>2. name \notin ToSet(c.names) /\ c.type = "object"
  BY <1>1, SetOf DEF At
<1>3. /\ CellOK(cell) /\ cell.parent = c.parent /\ ToSet(cell.values) = ToSet(c.values) \cup {v}
      /\ cell.names = Append(c.names, name) /\ cell.values = Append(c.values, v)
  <2> HIDE DEF c
  <2> QED BY <1>1, <1>2, PairAppended
<1> HIDE DEF cell
<1>4. Linkable(h, Kids(h), Parents(h), o, v, cell)
  BY <1>3, LegalLinkable
<1> QED BY <1>3, <1>4, LinkedGood DEF Roots, cell

LEMMA AddnGives ==
  ASSUME NEW h, NEW o, NEW v, Legal(h, o, v), h[o].type = "object",
         NEW name \in Names, NEW out \in Addn(h, o, name, v)
  PROVE  GivesOK(h, v, out)
<1>1. Good(h) /\ o \in DOMAIN h
  BY DEF Legal
<1>2. CASE At(h, o, name) # {}
  <2>1. out = <<"failure", h>>
    BY <1>2 DEF Addn
  <2> QED BY <1>1, <2>1, KeptFails
<1>3. CASE At(h, o, name) = {}
  <2>1. \/ out = <<"success", Linked(h, o, Paired(h[o], name, v), v)>>
        \/ out = <<"failure", h>>
        \/ out = <<"failure", Changed(h, o, Resized(h[o]))>>
    BY <1>3 DEF Addn, Failure, Paired
  <2>2. CASE out = <<"success", Linked(h, o, Paired(h[o], name, v), v)>>
    BY <1>3, <2>2, PairLinked DEF GivesOK
  <2>3. CASE out = <<"failure", h>>
    BY <1>1, <2>3, KeptFails
  <2>4. CASE out = <<"failure", Changed(h, o, Resized(h[o]))>>
    BY <1>1, <2>4, GrownGood DEF GivesOK
  <2> QED BY <2>1, <2>2, <2>3, <2>4
<1> QED BY <1>2, <1>3

\* What is left when the child t of o is freed: nothing that the caller has,
\* and nothing that o is in, goes.
ChildFreedOK(h, o, t, r, C) ==
  /\ DOMAIN r \subseteq DOMAIN h /\ \A x \in DOMAIN r : r[x] = h[x]
  /\ o \in DOMAIN r /\ DOMAIN C = DOMAIN r
  /\ Owned(C, Parents(h)) /\ Acyclic(C) /\ Tops(C) = Roots(h)
  /\ \A x \in DOMAIN r : Reach(C, x) \subseteq Subtree(h, x)
  /\ C[o] = Children(h, o) \ {t}
  /\ \A x \in DOMAIN r \ {o} : C[x] = Children(h, x)

LEMMA ChildFreed ==
  ASSUME NEW h, Good(h), NEW o \in DOMAIN h, NEW t \in Children(h, o)
  PROVE  ChildFreedOK(h, o, t, json_value_free(h, {t}), Remaining(h, {t}))
<1> DEFINE r == json_value_free(h, {t})
           C == Remaining(h, {t})
<1>1. t \in DOMAIN h /\ t \notin Roots(h) /\ o \notin Subtree(h, t)
      /\ \A c \in DOMAIN h \ {o} : t \notin Children(h, c)
  BY ChildFacts
<1>2. {t} \in SUBSET DOMAIN h
  BY <1>1
<1>3. /\ DOMAIN r \subseteq DOMAIN h /\ \A x \in DOMAIN r : r[x] = h[x]
      /\ DOMAIN C = DOMAIN r /\ \A x \in DOMAIN r : C[x] = Children(h, x) \ {t}
      /\ Owned(C, Parents(h)) /\ Acyclic(C) /\ Tops(C) = Roots(h) \ {t}
      /\ \A x \in DOMAIN r : Reach(C, x) \subseteq Subtree(h, x)
  BY <1>2, FreedGraph
<1>4. o \in DOMAIN r
  BY <1>1 DEF json_value_free
<1> HIDE DEF r, C
<1>5. C[o] = Children(h, o) \ {t} /\ \A x \in DOMAIN r \ {o} : C[x] = Children(h, x)
  BY <1>1, <1>3, <1>4
<1>6. Tops(C) = Roots(h)
  BY <1>1, <1>3
<1>7. ChildFreedOK(h, o, t, r, C)
  BY <1>3, <1>4, <1>5, <1>6 DEF ChildFreedOK
<1> QED BY <1>7 DEF r, C

\* The value v takes the place of t, which is freed.
Exchanged(c, i, v) == [c EXCEPT !.values[i] = v]
Exchange(h, o, i, v) ==
  LET rest == json_value_free(h, {h[o].values[i]})
  IN  Linked(rest, o, Exchanged(rest[o], i, v), v)

LEMMA ExchangeLinkable ==
  ASSUME NEW h, NEW o, NEW v, Legal(h, o, v), NEW t, NEW r, NEW C, NEW cell,
         ChildFreedOK(h, o, t, r, C), CellOK(cell), cell.parent = h[o].parent,
         ToSet(cell.values) = (Children(h, o) \ {t}) \cup {v}
  PROVE  Linkable(r, C, Parents(h), o, v, cell)
<1>1. /\ Good(h) /\ o \in DOMAIN h /\ v \in Roots(h) /\ o \notin Subtree(h, v)
  BY DEF Legal
<1>2. \A x \in DOMAIN h : Parents(h)[x] = h[x].parent /\ CellOK(h[x]) /\ x \in Addresses
  BY <1>1, KidsOf DEF Good
<1>3. v \in Tops(C) /\ v \in DOMAIN r /\ o \notin Reach(C, v)
  BY <1>1 DEF Tops, ChildFreedOK
<1>4. r[o] = h[o] /\ ToSet(cell.values) = C[o] \cup {v} /\ cell.parent = r[o].parent
  BY DEF ChildFreedOK
<1>5. /\ \A x \in DOMAIN r \ {o} : Children(r, x) = C[x]
      /\ \A x \in DOMAIN r : CellOK(r[x]) /\ Parents(h)[x] = r[x].parent
      /\ DOMAIN r \subseteq Addresses
  BY <1>2 DEF Children, ChildFreedOK
<1>6. Owned(C, Parents(h)) /\ Acyclic(C) /\ DOMAIN C = DOMAIN r /\ o \in DOMAIN r
  BY DEF ChildFreedOK
<1> QED BY <1>3, <1>4, <1>5, <1>6 DEF Linkable

LEMMA ExchangeGood ==
  ASSUME NEW h, NEW o, NEW v, Legal(h, o, v), NEW i \in 1 .. Len(h[o].values)
  PROVE  Good(Exchange(h, o, i, v)) /\ Roots(Exchange(h, o, i, v)) = Roots(h) \ {v}
<1> DEFINE c == h[o]
           t == c.values[i]
           r == json_value_free(h, {t})
           C == Remaining(h, {t})
           cell == Exchanged(c, i, v)
<1>1. /\ CellOK(c) /\ i \in 1 .. Len(c.values) /\ v \in Addresses /\ v \notin ToSet(c.values)
      /\ Good(h) /\ o \in DOMAIN h
  BY LegalFacts
<1>2. t \in Children(h, o) /\ Children(h, o) = ToSet(c.values)
  <2>1. t \in Children(h, o)
    BY <1>1, ChildFacts
  <2> QED BY <2>1 DEF Children
<1>3. /\ CellOK(cell) /\ cell.parent = c.parent
      /\ ToSet(cell.values) = (ToSet(c.values) \ {t}) \cup {v}
  <2> HIDE DEF c
  <2> QED BY <1>1, Replaced DEF Exchanged
<1> HIDE DEF t, cell
<1>4. ChildFreedOK(h, o, t, r, C)
  BY <1>1, <1>2, ChildFreed
<1> HIDE DEF r, C
<1>5. Linkable(r, C, Parents(h), o, v, cell)
  BY <1>2, <1>3, <1>4, ExchangeLinkable
<1>6. r[o] = c /\ Tops(C) = Roots(h)
  BY <1>4 DEF ChildFreedOK
<1>7. Good(Linked(r, o, cell, v)) /\ Roots(Linked(r, o, cell, v)) = Roots(h) \ {v}
  BY <1>5, <1>6, LinkedGood
<1>8. Exchange(h, o, i, v) = Linked(r, o, cell, v)
  BY <1>6 DEF Exchange, cell, r, t
<1> QED BY <1>7, <1>8

LEMMA SetValueGives ==
  ASSUME NEW h, NEW o, NEW v, Legal(h, o, v), h[o].type = "object",
         NEW name \in Names, NEW out \in SetValue(h, o, name, v)
  PROVE  GivesOK(h, v, out)
<1>1. Good(h) /\ o \in DOMAIN h
  BY DEF Legal
<1>2. CASE ~Free(h, v)
  BY <1>1, <1>2, KeptFails DEF SetValue
<1>3. CASE Free(h, v) /\ At(h, o, name) = {}
  BY <1>3, AddnGives DEF SetValue
<1>4. CASE Free(h, v) /\ At(h, o, name) # {}
  <2> DEFINE i == CHOOSE k \in At(h, o, name) : TRUE
  <2>1. i \in At(h, o, name)
    BY <1>4
  <2>2. Len(h[o].names) = Len(h[o].values)
    BY <1>1 DEF Good, CellOK
  <2>3. out = <<"success", Exchange(h, o, i, v)>>
    BY <1>4 DEF SetValue, Exchange, Exchanged
  <2> HIDE DEF i
  <2>4. i \in 1 .. Len(h[o].values)
    BY <2>1, <2>2 DEF At
  <2>5. Good(Exchange(h, o, i, v)) /\ Roots(Exchange(h, o, i, v)) = Roots(h) \ {v}
    BY <2>4, ExchangeGood
  <2> QED BY <2>3, <2>5 DEF GivesOK
<1> QED BY <1>2, <1>3, <1>4

LEMMA ReplaceGives ==
  ASSUME NEW h, NEW a, NEW v, Legal(h, a, v), NEW i \in 1 .. Len(h[a].values) + 1,
         NEW out \in ReplaceValue(h, a, i, v)
  PROVE  GivesOK(h, v, out)
<1>1. Good(h) /\ a \in DOMAIN h /\ Len(h[a].values) \in Nat
  BY ChildFacts DEF Legal
<1>2. CASE ~Free(h, v) \/ i > Len(h[a].values)
  BY <1>1, <1>2, KeptFails DEF ReplaceValue
<1>3. CASE ~(~Free(h, v) \/ i > Len(h[a].values))
  <2>1. i \in 1 .. Len(h[a].values)
    BY <1>1, <1>3
  <2>2. out = <<"success", Exchange(h, a, i, v)>>
    BY <1>3 DEF ReplaceValue, Dropped, Exchange, Exchanged
  <2>3. Good(Exchange(h, a, i, v)) /\ Roots(Exchange(h, a, i, v)) = Roots(h) \ {v}
    BY <2>1, ExchangeGood
  <2> QED BY <2>2, <2>3 DEF GivesOK
<1> QED BY <1>2, <1>3

LEMMA AppendGives ==
  ASSUME NEW h, NEW a, NEW v, Legal(h, a, v), h[a].type = "array",
         NEW out \in AppendValue(h, a, v)
  PROVE  GivesOK(h, v, out)
<1> DEFINE c == h[a]
           cell == [Resized(c) EXCEPT !.values = Append(@, v)]
<1>1. Good(h) /\ a \in DOMAIN h /\ CellOK(c) /\ v \in Addresses /\ v \notin ToSet(c.values)
      /\ c.type = "array"
  BY LegalFacts
<1>2. /\ CellOK(cell) /\ cell.parent = c.parent
      /\ ToSet(cell.values) = ToSet(c.values) \cup {v}
  <2> HIDE DEF c
  <2> QED BY <1>1, ItemAppended
<1>3. out = <<"failure", h>> \/ out = <<"success", Linked(h, a, cell, v)>>
  BY DEF AppendValue, Failure
<1> HIDE DEF cell
<1>4. Linkable(h, Kids(h), Parents(h), a, v, cell)
  BY <1>2, LegalLinkable
<1>5. Good(Linked(h, a, cell, v)) /\ Roots(Linked(h, a, cell, v)) = Roots(h) \ {v}
  BY <1>4, LinkedGood DEF Roots
<1> QED BY <1>1, <1>3, <1>5, KeptFails DEF GivesOK

\* A new value is in no container.
NewIn(h, m, x, type) ==
  /\ Good(m) /\ Roots(m) = Roots(h) \cup {x}
  /\ DOMAIN m = DOMAIN h \cup {x} /\ x \notin DOMAIN h
  /\ m[x] = New(type) /\ \A y \in DOMAIN h : m[y] = h[y]
  /\ Subtree(m, x) = {x}
  /\ \A y \in DOMAIN h : Subtree(m, y) \subseteq Subtree(h, y)

LEMMA MallocGood ==
  ASSUME NEW h, Good(h), NEW x \in Fresh(h), NEW type \in Types
  PROVE  NewIn(h, Malloc(h, x, type), x, type)
<1> DEFINE m == Malloc(h, x, type)
<1>1. /\ DOMAIN m = DOMAIN h \cup {x} /\ x \notin DOMAIN h /\ x \in Addresses
      /\ m[x] = New(type) /\ \A y \in DOMAIN h : m[y] = h[y]
  BY DEF Malloc, Fresh
<1> HIDE DEF m
<1>2. CellOK(m[x]) /\ ToSet(m[x].values) = {}
  BY <1>1, NewOK
<1>3. DOMAIN m \subseteq Addresses /\ \A y \in DOMAIN m : CellOK(m[y])
  BY <1>1, <1>2 DEF Good
<1>4. /\ DOMAIN Kids(m) = DOMAIN Kids(h) \cup {x} /\ x \notin DOMAIN Kids(h)
      /\ Kids(m)[x] = {}
      /\ \A y \in DOMAIN Kids(h) : Kids(m)[y] = Kids(h)[y] /\ Parents(m)[y] = Parents(h)[y]
  <2>1. DOMAIN Kids(m) = DOMAIN m /\ DOMAIN Kids(h) = DOMAIN h
    BY KidsOf
  <2>2. \A y \in DOMAIN m : Kids(m)[y] = ToSet(m[y].values) /\ Parents(m)[y] = m[y].parent
    BY KidsOf
  <2>3. \A y \in DOMAIN h : Kids(h)[y] = ToSet(h[y].values) /\ Parents(h)[y] = h[y].parent
    BY KidsOf
  <2> QED BY <1>1, <1>2, <2>1, <2>2, <2>3
<1>5. DOMAIN Parents(m) = DOMAIN m /\ Owned(Kids(h), Parents(h)) /\ Acyclic(Kids(h))
  BY KidsOf DEF Good
<1>6. /\ Owned(Kids(m), Parents(m)) /\ Acyclic(Kids(m))
      /\ Tops(Kids(m)) = Tops(Kids(h)) \cup {x} /\ Reach(Kids(m), x) = {x}
      /\ \A y \in DOMAIN Kids(h) : Reach(Kids(m), y) \subseteq Reach(Kids(h), y)
  BY <1>4, <1>5, Added
<1>7. /\ Subtree(m, x) = {x}
      /\ \A y \in DOMAIN h : Subtree(m, y) \subseteq Subtree(h, y)
  BY <1>6, KidsOf
<1>8. NewIn(h, m, x, type)
  BY <1>1, <1>3, <1>6, <1>7 DEF Good, Roots, NewIn
<1> QED BY <1>8 DEF m

\* The value x, new since h, is empty again in g, where only roots of h may
\* name another parent.
Spare(h, g, x) ==
  /\ x \notin DOMAIN h /\ DOMAIN g = DOMAIN h \cup {x} /\ Children(g, x) = {}
  /\ \A y \in DOMAIN h : /\ CellOK(g[y])
                         /\ g[y].names = h[y].names /\ g[y].values = h[y].values
  /\ \A y \in DOMAIN h \ Roots(h) : g[y].parent = h[y].parent

\* It is freed: the heap is what it was.
LEMMA SpareFreed ==
  ASSUME NEW h, Good(h), NEW g, NEW x, Spare(h, g, x)
  PROVE  LET r == json_value_free(g, {x})
         IN  Good(r) /\ Roots(r) = Roots(h) /\ Kept(h, r)
<1> DEFINE r == json_value_free(g, {x})
<1>1. x \in DOMAIN g /\ Children(g, x) = {} /\ x \notin DOMAIN h /\ DOMAIN g = DOMAIN h \cup {x}
  BY DEF Spare
<1>2. Subtree(g, x) = {x}
  <2>1. x \in DOMAIN Kids(g) /\ Kids(g)[x] = {}
    BY <1>1, KidsOf
  <2>2. Reach(Kids(g), x) \subseteq {x} /\ x \in Reach(Kids(g), x)
    BY <2>1, ReachLeast, ReachClosed
  <2> QED BY <2>2, KidsOf
<1>3. DOMAIN r = DOMAIN h /\ \A y \in DOMAIN h : r[y] = g[y]
  BY <1>1, <1>2 DEF json_value_free
<1> HIDE DEF r
<1>4. Kept(h, r) /\ \A y \in DOMAIN h : CellOK(r[y])
  BY <1>3 DEF Spare, Kept
<1>5. \A y \in DOMAIN h \ Roots(h) : r[y].parent = h[y].parent
  BY <1>3 DEF Spare
<1>6. Good(r) /\ Roots(r) = Roots(h)
  BY <1>4, <1>5, KeptGood
<1> QED BY <1>4, <1>6 DEF r

\* A value below v is v or has its container below v.
LEMMA OwnerBelow ==
  ASSUME NEW h, Good(h), NEW v \in Roots(h), NEW o \in DOMAIN h, o \notin Subtree(h, v),
         NEW t \in Children(h, o)
  PROVE  t \notin Subtree(h, v)
<1> SUFFICES ASSUME t \in Subtree(h, v) PROVE FALSE
  OBVIOUS
<1>1. t # v /\ \A c \in DOMAIN h \ {o} : t \notin Children(h, c)
  BY ChildFacts
<1>2. v \in DOMAIN Kids(h) /\ t \in Reach(Kids(h), v) /\ DOMAIN Kids(h) = DOMAIN h
  BY KidsOf DEF Roots, Tops
<1>3. PICK y \in Reach(Kids(h), v) : t \in Kids(h)[y]
  BY <1>1, <1>2, ReachOwned
<1>4. y \in DOMAIN h /\ t \in Children(h, y)
  BY <1>2, <1>3, ReachClosed, KidsOf
<1>5. y = o
  BY <1>1, <1>4
<1> QED BY <1>3, <1>5, KidsOf

\* What is below the object that dotset makes: itself and what is below v.
LEMMA MadeBelow ==
  ASSUME NEW h, NEW g, NEW x, NEW v \in DOMAIN h, x \notin DOMAIN h,
         DOMAIN g = DOMAIN h \cup {x}, ToSet(g[x].values) = {v},
         \A y \in DOMAIN h : g[y].values = h[y].values
  PROVE  Subtree(g, x) \subseteq Subtree(h, v) \cup {x}
<1> DEFINE S == Reach(Kids(h), v) \cup {x}
<1>1. DOMAIN Kids(g) = DOMAIN h \cup {x} /\ DOMAIN Kids(h) = DOMAIN h
      /\ Kids(g)[x] = {v} /\ \A y \in DOMAIN h : Kids(g)[y] = Kids(h)[y]
  BY KidsOf
<1>2. v \in S /\ x \in S
  BY <1>1, ReachClosed
<1>3. Reach(Kids(h), v) \subseteq DOMAIN h
  BY <1>1, ReachClosed
<1>4. ASSUME NEW y \in S \cap DOMAIN Kids(g), NEW z \in Kids(g)[y] \cap DOMAIN Kids(g)
      PROVE  z \in S
  <2>1. CASE y = x
    BY <1>1, <1>2, <1>4, <2>1
  <2>2. CASE y # x
    <3>1. y \in Reach(Kids(h), v) /\ z \in Kids(h)[y]
      BY <1>1, <1>3, <1>4, <2>2
    <3>2. CASE z \in DOMAIN h
      BY <1>1, <3>1, <3>2, ReachClosed
    <3>3. CASE z \notin DOMAIN h
      BY <1>1, <1>2, <1>4, <3>3
    <3> QED BY <3>2, <3>3
  <2> QED BY <2>1, <2>2
<1> HIDE DEF S
<1>5. x \in DOMAIN Kids(g)
  BY <1>1
<1>6. Reach(Kids(g), x) \subseteq S
  BY <1>2, <1>4, <1>5, ReachLeast
<1> QED BY <1>6, KidsOf DEF S

\* The object x that dotset makes, before it is given to o.
MadeOK(h, g, x, v, second) ==
  /\ x \notin DOMAIN h /\ DOMAIN g = DOMAIN h \cup {x}
  /\ g[x].type = "object" /\ g[x].names = Append(<<>>, second)
  /\ g[x].values = Append(<<>>, v)
  /\ \A y \in DOMAIN h : /\ g[y].names = h[y].names /\ g[y].values = h[y].values
                         /\ g[y].type = h[y].type
  /\ \A y \in DOMAIN h \ {v} : g[y].parent = h[y].parent

LEMMA Made ==
  ASSUME NEW h, NEW o, NEW v, Legal(h, o, v), NEW second \in Names,
         NEW x \in Fresh(h), NEW inner \in SetValue(Malloc(h, x, "object"), x, second, v)
  PROVE  \/ inner[1] = "failure" /\ Spare(h, inner[2], x)
         \/ /\ inner[1] = "success" /\ MadeOK(h, inner[2], x, v, second)
            /\ Good(inner[2]) /\ Roots(inner[2]) = (Roots(h) \cup {x}) \ {v}
<1> DEFINE m == Malloc(h, x, "object")
           cell == Paired(m[x], second, v)
<1>1. Good(h) /\ v \in DOMAIN h /\ v \in Roots(h) /\ "object" \in Types
  BY LegalFacts DEF Types
<1>2. /\ Good(m) /\ Roots(m) = Roots(h) \cup {x}
      /\ DOMAIN m = DOMAIN h \cup {x} /\ x \notin DOMAIN h
      /\ m[x] = New("object") /\ \A y \in DOMAIN h : m[y] = h[y]
      /\ Subtree(m, v) \subseteq Subtree(h, v)
  <2>1. NewIn(h, m, x, "object")
    BY <1>1, MallocGood
  <2> QED BY <1>1, <2>1 DEF NewIn
<1>3. x \notin Subtree(m, v)
  <2>2. Subtree(h, v) \subseteq DOMAIN h
    BY DEF Subtree
  <2> QED BY <1>2, <2>2
<1> HIDE DEF m
<1>4. /\ m[x].names = <<>> /\ m[x].values = <<>> /\ m[x].type = "object"
      /\ Children(m, x) = {}
  BY <1>1, <1>2, NewOK DEF Children
<1>5. Legal(m, x, v) /\ x # v
  BY <1>1, <1>2, <1>3 DEF Legal
<1>6. At(m, x, second) = {}
  BY <1>4 DEF At
<1>7. \/ inner = <<"failure", m>>
      \/ inner = <<"failure", Changed(m, x, Resized(m[x]))>>
      \/ inner = <<"success", Linked(m, x, cell, v)>>
  BY <1>6 DEF SetValue, Addn, Failure, Paired, m
<1>8. ASSUME NEW g, Kept(m, g), Good(g),
             \A y \in DOMAIN h : g[y].parent = m[y].parent
      PROVE  Spare(h, g, x)
  <2>1. DOMAIN g = DOMAIN h \cup {x} /\ Children(g, x) = {}
    BY <1>2, <1>4, <1>8 DEF Kept, Children
  <2>2. \A y \in DOMAIN h : /\ CellOK(g[y]) /\ g[y].parent = h[y].parent
                            /\ g[y].names = h[y].names /\ g[y].values = h[y].values
    BY <1>2, <1>8, <2>1 DEF Kept, Good
  <2> QED BY <1>2, <2>1, <2>2 DEF Spare
<1>9. CASE inner = <<"failure", m>>
  <2>1. Spare(h, m, x)
    BY <1>2, <1>8 DEF Kept
  <2> QED BY <1>9, <2>1
<1>10. CASE inner = <<"failure", Changed(m, x, Resized(m[x]))>>
  <2> DEFINE g == Changed(m, x, Resized(m[x]))
  <2>1. Good(g) /\ Kept(m, g) /\ \A y \in DOMAIN m : g[y].parent = m[y].parent
    BY <1>2, GrownGood
  <2> HIDE DEF g
  <2>2. Spare(h, g, x)
    BY <1>2, <1>8, <2>1
  <2> QED BY <1>10, <2>2 DEF g
<1>11. CASE inner = <<"success", Linked(m, x, cell, v)>>
  <2> DEFINE g == Linked(m, x, cell, v)
  <2>1. /\ Good(g) /\ Roots(g) = Roots(m) \ {v} /\ IsLinked(m, g, x, v, cell)
        /\ cell.names = Append(<<>>, second) /\ cell.values = Append(<<>>, v)
    BY <1>4, <1>5, <1>6, PairLinked
  <2>2. cell.type = "object"
    <3>1. CellOK(m[x])
      BY <1>2 DEF Good
    <3>2. v \in Addresses /\ v \notin ToSet(m[x].values) /\ second \notin ToSet(m[x].names)
      BY <1>1, <1>4 DEF Children, Good, ToSet
    <3> QED BY <1>4, <3>1, <3>2, PairAppended
  <2> HIDE DEF cell, g
  <2>3. g[x] = cell /\ DOMAIN g = DOMAIN h \cup {x}
    BY <1>2, <2>1 DEF IsLinked
  <2>4. \A y \in DOMAIN h \ {v} : g[y] = h[y]
    BY <1>2, <2>1 DEF IsLinked
  <2>5. g[v].names = h[v].names /\ g[v].values = h[v].values /\ g[v].type = h[v].type
    <3>1. CellOK(h[v]) /\ g[v] = [h[v] EXCEPT !.parent = x] /\ x \in Addresses
      BY <1>1, <1>2, <2>1 DEF IsLinked, Good, Fresh
    <3> QED BY <3>1, Reparented
  <2>6. MadeOK(h, g, x, v, second)
    BY <1>2, <2>1, <2>2, <2>3, <2>4, <2>5 DEF MadeOK
  <2> QED BY <1>2, <1>11, <2>1, <2>6 DEF g
<1> QED BY <1>7, <1>9, <1>10, <1>11

\* json_object_remove_internal takes the one member out again.
TakenFrom(u, x, second, w) ==
  /\ RemoveInternal(u, x, second, FALSE) = {<<"success", w>>}
  /\ DOMAIN w = DOMAIN u /\ Children(w, x) = {}
  /\ \A y \in DOMAIN u \ {x} : w[y] = u[y]

LEMMA TakenOut ==
  ASSUME NEW u, Good(u), NEW x \in DOMAIN u, u[x].type = "object", NEW second, NEW v,
         u[x].names = Append(<<>>, second), u[x].values = Append(<<>>, v)
  PROVE  \E w : TakenFrom(u, x, second, w)
<1> DEFINE c == u[x]
           i == CHOOSE k \in At(u, x, second) : TRUE
           w == Changed(u, x, WithoutPair(u[x], i))
<1>1. Len(c.values) = 1 /\ Len(c.names) = 1 /\ c.names[1] = second
  OBVIOUS
<1>2. At(u, x, second) = {1}
  BY <1>1 DEF At
<1>3. i = 1
  BY <1>2
<1>4. RemoveInternal(u, x, second, FALSE) = {<<"success", w>>}
  BY <1>2 DEF RemoveInternal
<1> HIDE DEF i
<1>5. CellOK(c) /\ c.type = "object" /\ i \in 1 .. Len(c.values)
  BY <1>1, <1>3 DEF Good
<1>6. CellOK(WithoutPair(c, i)) /\ Len(WithoutPair(c, i).values) = 0
  <2> HIDE DEF c
  <2>1. CellOK(WithoutPair(c, i)) /\ Len(WithoutPair(c, i).values) = Len(c.values) - 1
    BY <1>5, PairRemoved
  <2> QED BY <1>1, <2>1
<1>7. ToSet(WithoutPair(c, i).values) = {}
  BY <1>6, SetOf DEF CellOK, Cell
<1>8. /\ DOMAIN w = DOMAIN u /\ Children(w, x) = {}
      /\ \A y \in DOMAIN u \ {x} : w[y] = u[y]
  BY <1>7 DEF Changed, Children
<1>9. TakenFrom(u, x, second, w)
  BY <1>4, <1>8 DEF TakenFrom
<1> QED BY <1>9

\* What json_object_addn leaves when it fails.
GrownAtMost(h, u) ==
  /\ Good(u) /\ Kept(h, u)
  /\ \A y \in DOMAIN h : u[y].parent = h[y].parent /\ u[y].type = h[y].type

LEMMA AddnFails ==
  ASSUME NEW h, Good(h), NEW o \in DOMAIN h, NEW name, NEW v, NEW out \in Addn(h, o, name, v),
         out[1] = "failure"
  PROVE  GrownAtMost(h, out[2])
<1>1. out = <<"failure", h>> \/ out = <<"failure", Changed(h, o, Resized(h[o]))>>
  BY DEF Addn, Failure
<1>2. CASE out = <<"failure", h>>
  BY <1>2 DEF Kept, GrownAtMost
<1>3. CASE out = <<"failure", Changed(h, o, Resized(h[o]))>>
  BY <1>3, GrownGood DEF GrownAtMost
<1> QED BY <1>1, <1>2, <1>3

\* Lines 1926-1931 of json_object_dotset_value: out comes of adding x to o.
LEMMA MadeGives ==
  ASSUME NEW h, NEW o, NEW v, Legal(h, o, v), h[o].type = "object",
         NEW first \in Names, NEW second \in Names,
         NEW g, NEW x \in Addresses, MadeOK(h, g, x, v, second),
         Good(g), Roots(g) = (Roots(h) \cup {x}) \ {v},
         NEW out \in Addn(g, o, first, x)
  PROVE  /\ out[1] = "success" => GivesOK(h, v, out)
         /\ out[1] # "success" =>
              out[1] = "failure" /\ GivesOK(h, v, <<"failure", Undone(out[2], x, second)>>)
<1>1. Good(h) /\ o \in DOMAIN h /\ v \in DOMAIN h /\ v # o /\ v \in Roots(h) /\ o \notin Subtree(h, v)
  BY LegalFacts DEF Legal
<1>2. /\ x \notin DOMAIN h /\ DOMAIN g = DOMAIN h \cup {x}
      /\ g[x].names = Append(<<>>, second) /\ g[x].values = Append(<<>>, v)
      /\ g[x].type = "object" /\ g[o].type = "object"
      /\ \A y \in DOMAIN h : g[y].names = h[y].names /\ g[y].values = h[y].values
      /\ \A y \in DOMAIN h \ {v} : g[y].parent = h[y].parent
  BY <1>1 DEF MadeOK
<1>3. ToSet(g[x].values) = {v}
  BY <1>2 DEF ToSet
<1>4. o \notin Subtree(g, x)
  <2>1. Subtree(g, x) \subseteq Subtree(h, v) \cup {x}
    BY <1>1, <1>2, <1>3, MadeBelow
  <2> QED BY <1>1, <1>2, <2>1
<1>5. Legal(g, o, x)
  BY <1>1, <1>2, <1>4 DEF Legal
<1>6. GivesOK(g, x, out)
  BY <1>2, <1>5, AddnGives
<1>7. ASSUME out[1] = "success" PROVE GivesOK(h, v, out)
  <2>1. x # v /\ x \notin Roots(h)
    BY <1>1, <1>2 DEF Roots, Tops, Kids
  <2>2. Roots(out[2]) = Roots(h) \ {v} /\ Good(out[2])
    BY <1>6, <1>7, <2>1 DEF GivesOK
  <2> QED BY <1>7, <2>2 DEF GivesOK
<1>8. ASSUME out[1] # "success"
      PROVE  out[1] = "failure" /\ GivesOK(h, v, <<"failure", Undone(out[2], x, second)>>)
  <2> DEFINE u == out[2]
  <2>1. out[1] = "failure"
    BY <1>6, <1>8 DEF GivesOK
  <2>2. /\ Good(u) /\ Kept(g, u)
        /\ \A y \in DOMAIN g : u[y].parent = g[y].parent /\ u[y].type = g[y].type
    <3>1. GrownAtMost(g, u)
      BY <1>1, <1>2, <2>1, AddnFails
    <3> QED BY <3>1 DEF GrownAtMost
  <2> HIDE DEF u
  <2>3. /\ x \in DOMAIN u /\ u[x].type = "object"
        /\ u[x].names = Append(<<>>, second) /\ u[x].values = Append(<<>>, v)
    BY <1>2, <2>2 DEF Kept
  <2>4. PICK w : /\ RemoveInternal(u, x, second, FALSE) = {<<"success", w>>}
                 /\ DOMAIN w = DOMAIN u /\ Children(w, x) = {}
                 /\ \A y \in DOMAIN u \ {x} : w[y] = u[y]
    <3>1. PICK w : TakenFrom(u, x, second, w)
      BY <2>2, <2>3, TakenOut
    <3> QED BY <3>1 DEF TakenFrom
  <2>5. Undone(u, x, second) = json_value_free(w, {x})
    <3> DEFINE q == CHOOSE r \in RemoveInternal(u, x, second, FALSE) : TRUE
    <3>1. q \in RemoveInternal(u, x, second, FALSE)
      BY <2>4
    <3>2. Undone(u, x, second) = json_value_free(q[2], {x})
      BY DEF Undone
    <3> HIDE DEF q
    <3>3. q = <<"success", w>>
      BY <2>4, <3>1, Zenon
    <3> QED BY <3>2, <3>3
  <2>6. \A y \in DOMAIN h : /\ CellOK(w[y]) /\ w[y].names = h[y].names /\ w[y].values = h[y].values
                            /\ w[y].parent = u[y].parent
    BY <1>2, <2>2, <2>4 DEF Kept, Good
  <2>7. \A y \in DOMAIN h \ Roots(h) : w[y].parent = h[y].parent
    BY <1>1, <1>2, <2>2, <2>6
  <2>8. Spare(h, w, x)
    BY <1>2, <2>2, <2>4, <2>6, <2>7 DEF Spare, Kept
  <2>9. /\ Good(json_value_free(w, {x})) /\ Kept(h, json_value_free(w, {x}))
        /\ Roots(json_value_free(w, {x})) = Roots(h)
    BY <1>1, <2>8, SpareFreed
  <2> QED BY <2>1, <2>5, <2>9 DEF GivesOK, u
<1> QED BY <1>7, <1>8

LEMMA DotSetGives ==
  ASSUME NEW h, NEW o, NEW v, Legal(h, o, v), h[o].type = "object",
         NEW first \in Names, NEW second \in Names,
         NEW out \in DotSetValue(h, o, first, second, v)
  PROVE  GivesOK(h, v, out)
<1>1. Good(h) /\ o \in DOMAIN h /\ v \in Roots(h) /\ o \notin Subtree(h, v)
  BY DEF Legal
<1>2. CASE At(h, o, first) # {}
  <2> DEFINE i == CHOOSE k \in At(h, o, first) : TRUE
             t == h[o].values[i]
  <2>1. out \in IF h[t].type = "object" THEN SetValue(h, t, second, v) ELSE {<<"failure", h>>}
    BY <1>2 DEF DotSetValue
  <2>2. i \in 1 .. Len(h[o].names) /\ Len(h[o].names) = Len(h[o].values)
    BY <1>1, <1>2 DEF At, Good, CellOK
  <2> HIDE DEF i
  <2>3. t \in Children(h, o)
    BY <1>1, <2>2, ChildFacts
  <2> HIDE DEF t
  <2>4. t \in DOMAIN h /\ t \notin Subtree(h, v)
    BY <1>1, <2>3, ChildFacts, OwnerBelow
  <2>5. Legal(h, t, v)
    BY <1>1, <2>4 DEF Legal
  <2>6. CASE h[t].type = "object"
    BY <2>1, <2>5, <2>6, SetValueGives
  <2>7. CASE h[t].type # "object"
    BY <1>1, <2>1, <2>7, KeptFails
  <2> QED BY <2>6, <2>7
<1>3. CASE At(h, o, first) = {}
  <2>1. CASE out \in Failure(h)
    BY <1>1, <2>1, KeptFails DEF Failure
  <2>2. CASE out \notin Failure(h)
    <3>1. PICK x \in Fresh(h) : \E inner \in SetValue(Malloc(h, x, "object"), x, second, v) :
             out \in IF inner[1] = "failure"
                     THEN {<<"failure", json_value_free(inner[2], {x})>>}
                     ELSE {IF r[1] = "success" THEN r
                           ELSE <<"failure", Undone(r[2], x, second)>> :
                           r \in Addn(inner[2], o, first, x)}
      BY <1>3, <2>2 DEF DotSetValue
    <3>2. PICK inner \in SetValue(Malloc(h, x, "object"), x, second, v) :
             out \in IF inner[1] = "failure"
                     THEN {<<"failure", json_value_free(inner[2], {x})>>}
                     ELSE {IF r[1] = "success" THEN r
                           ELSE <<"failure", Undone(r[2], x, second)>> :
                           r \in Addn(inner[2], o, first, x)}
      BY <3>1
    <3>3. x \in Addresses
      BY DEF Fresh
    <3>4. \/ inner[1] = "failure" /\ Spare(h, inner[2], x)
          \/ /\ inner[1] = "success" /\ MadeOK(h, inner[2], x, v, second)
             /\ Good(inner[2]) /\ Roots(inner[2]) = (Roots(h) \cup {x}) \ {v}
      BY <3>2, Made
    <3>5. CASE inner[1] = "failure"
      <4>1. Spare(h, inner[2], x) /\ out = <<"failure", json_value_free(inner[2], {x})>>
        BY <3>2, <3>4, <3>5
      <4>2. /\ Good(json_value_free(inner[2], {x})) /\ Kept(h, json_value_free(inner[2], {x}))
            /\ Roots(json_value_free(inner[2], {x})) = Roots(h)
        BY <1>1, <4>1, SpareFreed
      <4> QED BY <4>1, <4>2 DEF GivesOK
    <3>6. CASE inner[1] = "success"
      <4>1. PICK r \in Addn(inner[2], o, first, x) :
              out = IF r[1] = "success" THEN r ELSE <<"failure", Undone(r[2], x, second)>>
        BY <3>2, <3>6
      <4>2. /\ r[1] = "success" => GivesOK(h, v, r)
            /\ r[1] # "success" => GivesOK(h, v, <<"failure", Undone(r[2], x, second)>>)
        BY <3>3, <3>4, <3>6, MadeGives
      <4> QED BY <4>1, <4>2
    <3> QED BY <3>4, <3>5, <3>6
  <2> QED BY <2>1, <2>2
<1> QED BY <1>2, <1>3

\* Values of o are freed and cell is what is left of o.
LEMMA LosesGood ==
  ASSUME NEW h, Good(h), NEW o \in DOMAIN h, NEW T \in SUBSET Children(h, o),
         NEW cell, CellOK(cell), cell.parent = h[o].parent,
         ToSet(cell.values) = Children(h, o) \ T
  PROVE  LET g == Changed(json_value_free(h, T), o, cell)
         IN  Good(g) /\ Roots(g) = Roots(h)
<1> DEFINE r == json_value_free(h, T)
           g == Changed(r, o, cell)
<1>1. \A t \in T : /\ t \in DOMAIN h /\ t \notin Roots(h) /\ o \notin Subtree(h, t)
                   /\ \A c \in DOMAIN h \ {o} : t \notin Children(h, c)
  BY ChildFacts
<1>2. /\ o \in DOMAIN r /\ DOMAIN r \subseteq DOMAIN h /\ \A x \in DOMAIN r : r[x] = h[x]
  BY <1>1 DEF json_value_free
<1> HIDE DEF r
<1>3. DOMAIN g = DOMAIN r /\ g[o] = cell /\ \A x \in DOMAIN r \ {o} : g[x] = h[x]
  BY <1>2 DEF Changed
<1> HIDE DEF g
<1>4. \A x \in DOMAIN g : Children(g, x) = Children(h, x) \ T
  <2>1. Children(g, o) = Children(h, o) \ T
    BY <1>3 DEF Children
  <2>2. \A x \in DOMAIN r \ {o} : Children(g, x) = Children(h, x)
    BY <1>3 DEF Children
  <2> QED BY <1>1, <1>2, <1>3, <2>1, <2>2
<1>5. \A x \in DOMAIN g : CellOK(g[x]) /\ g[x].parent = h[x].parent
  BY <1>2, <1>3 DEF Good
<1>6. T \in SUBSET DOMAIN h /\ Roots(h) \ T = Roots(h)
  BY <1>1
<1>7. DOMAIN g = DOMAIN json_value_free(h, T)
  BY <1>3 DEF r
<1>8. Good(g) /\ Roots(g) = Roots(h) \ T
  BY <1>4, <1>5, <1>6, <1>7, FreedGood
<1> QED BY <1>6, <1>8 DEF g, r

LEMMA RemoveLoses ==
  ASSUME NEW h, Good(h), NEW o \in DOMAIN h, h[o].type = "object", NEW name,
         NEW out \in RemoveInternal(h, o, name, TRUE)
  PROVE  LosesOK(h, out)
<1>1. CASE At(h, o, name) = {}
  BY <1>1, KeptFails DEF RemoveInternal
<1>2. CASE At(h, o, name) # {}
  <2> DEFINE c == h[o]
             i == CHOOSE k \in At(h, o, name) : TRUE
             t == c.values[i]
             r == json_value_free(h, {t})
             cell == WithoutPair(c, i)
  <2>1. i \in At(h, o, name) /\ CellOK(c) /\ c.type = "object"
    BY <1>2 DEF Good
  <2>2. out = <<"success", Changed(r, o, WithoutPair(r[o], i))>>
    BY <1>2 DEF RemoveInternal
  <2> HIDE DEF i
  <2>3. i \in 1 .. Len(c.values)
    BY <2>1 DEF At, CellOK
  <2>4. t \in Children(h, o)
    BY <2>3, ChildFacts
  <2>5. Children(h, o) = ToSet(c.values)
    BY DEF Children
  <2>6. CellOK(cell) /\ cell.parent = c.parent /\ ToSet(cell.values) = ToSet(c.values) \ {t}
    <3> HIDE DEF c
    <3> QED BY <2>1, <2>3, PairRemoved
  <2> HIDE DEF cell, t
  <2>7. ChildFreedOK(h, o, t, r, Remaining(h, {t}))
    BY <2>4, ChildFreed
  <2>8. r[o] = c
    BY <2>7 DEF ChildFreedOK
  <2>9. {t} \in SUBSET Children(h, o)
    BY <2>4
  <2>10. Good(Changed(r, o, cell)) /\ Roots(Changed(r, o, cell)) = Roots(h)
    BY <2>5, <2>6, <2>9, LosesGood
  <2>11. out = <<"success", Changed(r, o, cell)>>
    BY <2>2, <2>8 DEF cell
  <2> QED BY <2>10, <2>11 DEF LosesOK
<1> QED BY <1>1, <1>2

LEMMA ArrayRemoveLoses ==
  ASSUME NEW h, Good(h), NEW a \in DOMAIN h, h[a].type = "array",
         NEW i \in 1 .. Len(h[a].values) + 1, NEW out \in ArrayRemove(h, a, i)
  PROVE  LosesOK(h, out)
<1>1. CASE i > Len(h[a].values)
  BY <1>1, KeptFails DEF ArrayRemove
<1>2. CASE ~(i > Len(h[a].values))
  <2> DEFINE c == h[a]
             t == c.values[i]
             r == json_value_free(h, {t})
             cell == [c EXCEPT !.values = RemoveAt(@, i)]
  <2>1. CellOK(c) /\ c.type = "array" /\ i \in 1 .. Len(c.values)
    BY <1>2, ChildFacts DEF Good
  <2>2. out = <<"success", Changed(r, a, [r[a] EXCEPT !.values = RemoveAt(@, i)])>>
    BY <1>2 DEF ArrayRemove
  <2>3. t \in Children(h, a)
    BY <2>1, ChildFacts
  <2>4. Children(h, a) = ToSet(c.values)
    BY DEF Children
  <2>5. CellOK(cell) /\ cell.parent = c.parent /\ ToSet(cell.values) = ToSet(c.values) \ {t}
    <3> HIDE DEF c
    <3> QED BY <2>1, ItemRemoved
  <2> HIDE DEF cell, t
  <2>6. ChildFreedOK(h, a, t, r, Remaining(h, {t}))
    BY <2>3, ChildFreed
  <2>7. r[a] = c
    BY <2>6 DEF ChildFreedOK
  <2>8. {t} \in SUBSET Children(h, a)
    BY <2>3
  <2>9. Good(Changed(r, a, cell)) /\ Roots(Changed(r, a, cell)) = Roots(h)
    BY <2>4, <2>5, <2>8, LosesGood
  <2>10. out = <<"success", Changed(r, a, cell)>>
    BY <2>2, <2>7 DEF cell
  <2> QED BY <2>9, <2>10 DEF LosesOK
<1> QED BY <1>1, <1>2

LEMMA ClearLoses ==
  ASSUME NEW h, Good(h), NEW c \in DOMAIN h, NEW out \in Clear(h, c)
  PROVE  LosesOK(h, out)
<1> DEFINE old == h[c]
           cell == [old EXCEPT !.names = <<>>, !.values = <<>>]
           g == Changed(json_value_free(h, Children(h, c)), c, cell)
<1>1. CellOK(old)
  BY DEF Good
<1>2. CellOK(cell) /\ cell.parent = old.parent /\ ToSet(cell.values) = {}
  <2> HIDE DEF old
  <2> QED BY <1>1, Cleared
<1>3. out = <<"success", g>>
  BY DEF Clear
<1> HIDE DEF cell
<1>4. ToSet(cell.values) = Children(h, c) \ Children(h, c)
  BY <1>2
<1>5. Good(g) /\ Roots(g) = Roots(h)
  BY <1>2, <1>4, LosesGood
<1> QED BY <1>3, <1>5 DEF LosesOK

\* json_value_free of what the caller has.
LEMMA RootFreed ==
  ASSUME NEW h, Good(h), NEW v \in Roots(h)
  PROVE  LET r == json_value_free(h, {v}) IN Good(r) /\ Roots(r) = Roots(h) \ {v}
<1> DEFINE r == json_value_free(h, {v})
<1>1. v \in DOMAIN h /\ \A x \in DOMAIN h : v \notin Children(h, x)
  BY KidsOf DEF Roots, Tops
<1>2. DOMAIN r \subseteq DOMAIN h /\ \A x \in DOMAIN r : r[x] = h[x]
  BY DEF json_value_free
<1> HIDE DEF r
<1>3. \A x \in DOMAIN r : /\ CellOK(r[x]) /\ r[x].parent = h[x].parent
                          /\ Children(r, x) = Children(h, x) \ {v}
  BY <1>1, <1>2 DEF Good, Children
<1>4. {v} \in SUBSET DOMAIN h /\ DOMAIN r = DOMAIN json_value_free(h, {v})
  BY <1>1 DEF r
<1> QED BY <1>3, <1>4, FreedGood DEF r

-----------------------------------------------------------------------------
(* The capacity of a copy.                                                  *)

LEMMA InductSet ==
  ASSUME NEW S \in SUBSET Nat, 0 \in S, \A n \in S : n + 1 \in S
  PROVE  S = Nat
<1> DEFINE T == Nat \ S
           R == {p \in Nat \X Nat : p[1] < p[2]}
<1> SUFFICES ASSUME T # {} PROVE FALSE
  OBVIOUS
<1>1. IsWellFoundedOn(R, Nat)
  BY NatLessThanWellFounded DEF OpToRel
<1>2. \A x, y \in Nat : <<y, x>> \in R <=> y < x
  OBVIOUS
<1> HIDE DEF R
<1>3. PICK x \in T : \A y \in T : <<y, x>> \notin R
  BY <1>1, WFMin
<1>4. x # 0 /\ x - 1 \in Nat /\ (x - 1) + 1 = x
  OBVIOUS
<1>5. x - 1 \notin S /\ x \in Nat
  BY <1>4
<1>6. <<x - 1, x>> \in R
  <2>1. x - 1 < x
    OBVIOUS
  <2> QED BY <1>2, <1>4, <1>5, <2>1
<1> QED BY <1>3, <1>4, <1>5, <1>6

\* What the n-th json_array_add leaves of the capacity c.
Grown(n, c) == Resized([values |-> [k \in 1 .. n - 1 |-> 0], capacity |-> c]).capacity

LEMMA GrownOK ==
  ASSUME NEW n \in Nat \ {0}, NEW c \in Nat, n - 1 <= c
  PROVE  Grown(n, c) \in Nat /\ n <= Grown(n, c)
<1> DEFINE S == STARTING_CAPACITY
           vs == [k \in 1 .. n - 1 |-> 0]
           r == [values |-> vs, capacity |-> c]
<1>1. S \in Nat /\ S > 0
  BY JsonAssumption
<1>2. Len(vs) = n - 1
  OBVIOUS
<1> HIDE DEF vs
<1>3. Resized(r).capacity = IF n - 1 < c THEN c ELSE IF 2 * c > S THEN 2 * c ELSE S
  BY <1>2 DEF Resized
<1>4. Grown(n, c) = Resized(r).capacity
  BY DEF Grown, vs
<1> HIDE DEF r
<1> QED BY <1>1, <1>3, <1>4

GrownFrom(g, n) == \A i \in 0 .. n : g[i] = IF i = 0 THEN 0 ELSE Grown(i, g[i - 1])

LEMMA GrownSome ==
  \A n \in Nat : \E g : GrownFrom(g, n)
<1> DEFINE S == {n \in Nat : \E g : GrownFrom(g, n)}
<1>1. 0 \in S
  <2> DEFINE g == [i \in {0} |-> 0]
  <2>1. GrownFrom(g, 0)
    BY DEF GrownFrom
  <2> QED BY <2>1
<1>2. ASSUME NEW n \in S PROVE n + 1 \in S
  <2>1. PICK g : GrownFrom(g, n)
    OBVIOUS
  <2> DEFINE h == [i \in 0 .. n + 1 |-> IF i = n + 1 THEN Grown(i, g[n]) ELSE g[i]]
  <2>2. ASSUME NEW i \in 0 .. n + 1 PROVE h[i] = IF i = 0 THEN 0 ELSE Grown(i, h[i - 1])
    <3>1. CASE i = n + 1
      <4>1. i # 0 /\ i - 1 = n /\ n \in 0 .. n + 1 /\ n # n + 1
        BY <3>1
      <4> QED BY <3>1, <4>1
    <3>2. CASE i # n + 1
      <4>1. i \in 0 .. n /\ (i # 0 => i - 1 \in 0 .. n + 1 /\ i - 1 # n + 1)
        BY <3>2
      <4> QED BY <2>1, <3>2, <4>1 DEF GrownFrom
    <3> QED BY <3>1, <3>2
  <2> HIDE DEF h
  <2>3. GrownFrom(h, n + 1)
    BY <2>2 DEF GrownFrom
  <2> QED BY <2>3
<1> HIDE DEF S
<1>3. S = Nat
  BY <1>1, <1>2, InductSet DEF S
<1> QED BY <1>3 DEF S

LEMMA GrownSame ==
  \A n \in Nat : \A g, h : GrownFrom(g, n) /\ GrownFrom(h, n) => g[n] = h[n]
<1> DEFINE S == {n \in Nat : \A g, h : GrownFrom(g, n) /\ GrownFrom(h, n) => g[n] = h[n]}
<1>1. 0 \in S
  BY DEF GrownFrom
<1>2. ASSUME NEW n \in S PROVE n + 1 \in S
  <2> SUFFICES ASSUME NEW g, NEW h, GrownFrom(g, n + 1), GrownFrom(h, n + 1)
               PROVE  g[n + 1] = h[n + 1]
    OBVIOUS
  <2>1. (n + 1) - 1 = n /\ n + 1 # 0 /\ n + 1 \in 0 .. n + 1 /\ \A i \in 0 .. n : i \in 0 .. n + 1
    OBVIOUS
  <2>2. GrownFrom(g, n) /\ GrownFrom(h, n)
    BY <2>1 DEF GrownFrom
  <2>3. g[n] = h[n]
    BY <2>2
  <2>4. g[n + 1] = Grown(n + 1, g[n]) /\ h[n + 1] = Grown(n + 1, h[n])
    BY <2>1 DEF GrownFrom
  <2> QED BY <2>3, <2>4
<1> HIDE DEF S
<1>3. S = Nat
  BY <1>1, <1>2, InductSet DEF S
<1> QED BY <1>3 DEF S

\* There is a function as CapacityOf is defined.
LEMMA CapacityDef ==
  \A n \in Nat : CapacityOf[n] = IF n = 0 THEN 0 ELSE Grown(n, CapacityOf[n - 1])
<1> DEFINE G(n) == CHOOSE g : GrownFrom(g, n)
           F == [n \in Nat |-> G(n)[n]]
<1>1. ASSUME NEW n \in Nat PROVE GrownFrom(G(n), n)
  BY GrownSome
<1> HIDE DEF G
<1>2. ASSUME NEW n \in Nat PROVE F[n] = IF n = 0 THEN 0 ELSE Grown(n, F[n - 1])
  <2>1. CASE n = 0
    BY <1>1, <2>1 DEF GrownFrom
  <2>2. CASE n # 0
    <3>1. n - 1 \in Nat /\ n \in 0 .. n /\ \A i \in 0 .. n - 1 : i \in 0 .. n
      BY <2>2
    <3>2. GrownFrom(G(n), n)
      BY <1>1
    <3>3. GrownFrom(G(n), n - 1)
      BY <3>1, <3>2 DEF GrownFrom
    <3>4. GrownFrom(G(n - 1), n - 1)
      BY <1>1, <3>1
    <3>5. G(n)[n - 1] = G(n - 1)[n - 1]
      BY <3>1, <3>3, <3>4, GrownSame
    <3>6. G(n)[n] = Grown(n, G(n)[n - 1])
      BY <2>2, <3>1, <3>2 DEF GrownFrom
    <3> QED BY <2>2, <3>1, <3>5, <3>6
  <2> QED BY <2>1, <2>2
<1> DEFINE D(g) == [n \in Nat |->
             IF n = 0 THEN 0
             ELSE Resized([values |-> [k \in 1 .. n - 1 |-> 0], capacity |-> g[n - 1]]).capacity]
<1>3. F = D(F)
  <2> HIDE DEF F
  <2>1. D(F) = [n \in Nat |-> IF n = 0 THEN 0 ELSE Grown(n, F[n - 1])]
    BY DEF Grown
  <2>2. D(F) = [n \in Nat |-> F[n]]
    BY <1>2, <2>1
  <2>3. F = [n \in Nat |-> F[n]]
    BY DEF F
  <2> QED BY <2>2, <2>3
<1>4. CapacityOf = CHOOSE g : g = D(g)
  BY DEF CapacityOf
<1>5. CapacityOf = D(CapacityOf)
  <2> HIDE DEF D, F
  <2> QED BY <1>3, <1>4
<1>6. CapacityOf = [n \in Nat |-> IF n = 0 THEN 0 ELSE Grown(n, CapacityOf[n - 1])]
  <2> HIDE DEF F
  <2> QED BY <1>5 DEF Grown
<1> QED BY <1>6

LEMMA CapacityOK ==
  \A n \in Nat : CapacityOf[n] \in Nat /\ n <= CapacityOf[n]
<1> DEFINE S == {n \in Nat : CapacityOf[n] \in Nat /\ n <= CapacityOf[n]}
<1>1. 0 \in S
  BY CapacityDef
<1>2. ASSUME NEW n \in S PROVE n + 1 \in S
  <2>1. n + 1 \in Nat \ {0} /\ (n + 1) - 1 = n /\ CapacityOf[n] \in Nat /\ n <= CapacityOf[n]
    OBVIOUS
  <2>2. CapacityOf[n + 1] = Grown(n + 1, CapacityOf[n])
    BY <2>1, CapacityDef
  <2>3. Grown(n + 1, CapacityOf[n]) \in Nat /\ n + 1 <= Grown(n + 1, CapacityOf[n])
    BY <2>1, GrownOK
  <2> QED BY <2>1, <2>2, <2>3
<1> HIDE DEF S
<1>3. S = Nat
  BY <1>1, <1>2, InductSet DEF S
<1> QED BY <1>3 DEF S
-----------------------------------------------------------------------------
(* The deep copy.                                                           *)

\* The copy of y, which is v or below it; f says where each one goes.
CopyCell(h, v, f, y) ==
  [type |-> h[y].type, names |-> h[y].names,
   parent |-> IF y = v THEN NULL ELSE f[h[y].parent],
   values |-> [k \in 1 .. Len(h[y].values) |-> f[h[y].values[k]]],
   capacity |-> CapacityOf[Len(h[y].values)]]

\* The values of f are apart, and none is in h.
Apart(h, v, f) ==
  /\ f \in [Subtree(h, v) -> Fresh(h)]
  /\ \A x, y \in Subtree(h, v) : f[x] = f[y] => x = y

\* What is below v has its members and its container there.
LEMMA BelowFacts ==
  ASSUME NEW h, Good(h), NEW v \in DOMAIN h
  PROVE  /\ v \in Subtree(h, v) /\ Subtree(h, v) \subseteq DOMAIN h
         /\ \A y \in Subtree(h, v) : Children(h, y) \subseteq Subtree(h, v)
         /\ \A y \in Subtree(h, v) \ {v} : /\ h[y].parent \in Subtree(h, v)
                                           /\ y \in Children(h, h[y].parent)
         /\ \A y \in Subtree(h, v) : v \notin Children(h, y)
<1> DEFINE C == Kids(h)
<1>1. DOMAIN C = DOMAIN h /\ Subtree(h, v) = Reach(C, v)
      /\ \A x \in DOMAIN h : C[x] = Children(h, x) /\ Parents(h)[x] = h[x].parent
  BY KidsOf
<1>2. Owned(C, Parents(h)) /\ Acyclic(C)
  BY DEF Good
<1> HIDE DEF C
<1>3. /\ v \in Reach(C, v) /\ Reach(C, v) \subseteq DOMAIN C
      /\ \A y \in Reach(C, v) : C[y] \cap DOMAIN C \subseteq Reach(C, v)
  BY <1>1, ReachClosed
<1>4. \A y \in Reach(C, v) : C[y] \subseteq Reach(C, v)
  BY <1>2, <1>3 DEF Owned
<1>5. ASSUME NEW y \in Reach(C, v), y # v
      PROVE  h[y].parent \in Reach(C, v) /\ y \in C[h[y].parent]
  <2>1. PICK z \in Reach(C, v) : y \in C[z]
    BY <1>1, <1>5, ReachOwned
  <2>2. Parents(h)[y] = z
    BY <1>2, <1>3, <2>1 DEF Owned
  <2> QED BY <1>1, <1>3, <2>1, <2>2
<1>6. \A y \in Reach(C, v) : v \notin C[y]
  BY <1>2, <1>3 DEF Acyclic
<1> QED BY <1>1, <1>3, <1>4, <1>5, <1>6

\* What the copies are.
CopyOK(h, v, f, g) ==
  /\ DOMAIN g = DOMAIN h \cup {f[y] : y \in Subtree(h, v)}
  /\ \A x \in DOMAIN h : g[x] = h[x]
  /\ \A y \in Subtree(h, v) :
       /\ f[y] \in Addresses /\ f[y] \notin DOMAIN h
       /\ CellOK(g[f[y]])
       /\ y # v => g[f[y]].parent = f[h[y].parent]
       /\ Children(g, f[y]) = {f[z] : z \in Children(h, y)}

LEMMA CopyCellOK ==
  ASSUME NEW h, Good(h), NEW v \in DOMAIN h, NEW f, Apart(h, v, f), NEW y \in Subtree(h, v)
  PROVE  /\ CellOK(CopyCell(h, v, f, y))
         /\ ToSet(CopyCell(h, v, f, y).values) = {f[z] : z \in Children(h, y)}
<1> DEFINE c == h[y]
           n == Len(c.values)
           vs == [k \in 1 .. n |-> f[c.values[k]]]
           q == IF y = v THEN NULL ELSE f[c.parent]
           k == CapacityOf[n]
           g == [type |-> c.type, names |-> c.names, parent |-> q, values |-> vs,
                 capacity |-> k]
<1>1. /\ y \in DOMAIN h /\ CellOK(c) /\ n \in Nat
      /\ Children(h, y) = {c.values[i] : i \in 1 .. n}
      /\ \A i \in 1 .. n : c.values[i] \in Subtree(h, v)
  <2>1. y \in DOMAIN h /\ Children(h, y) \subseteq Subtree(h, v)
    BY BelowFacts
  <2> QED BY <2>1, ChildFacts DEF Good
<1>2. \A z \in Subtree(h, v) : f[z] \in Addresses
  BY DEF Apart, Fresh
<1>3. vs \in Seq(Addresses) /\ Len(vs) = n /\ DOMAIN vs = 1 .. n
  BY <1>1, <1>2
<1>4. \A i \in 1 .. n : vs[i] = f[c.values[i]]
  OBVIOUS
<1>5. Distinct(c.values) /\ c \in Cell
  BY <1>1 DEF CellOK
<1>6. q \in Addresses \cup {NULL}
  BY <1>2, BelowFacts
<1>7. k \in Nat /\ n <= k
  BY <1>1, CapacityOK
<1> HIDE DEF vs, q, k
<1>8. Distinct(vs)
  <2> SUFFICES ASSUME NEW i \in 1 .. n, NEW j \in 1 .. n, vs[i] = vs[j] PROVE i = j
    BY <1>3 DEF Distinct
  <2>1. c.values[i] = c.values[j]
    BY <1>1, <1>4 DEF Apart
  <2> QED BY <1>5, <2>1 DEF Distinct
<1>9. ToSet(vs) = {f[z] : z \in Children(h, y)}
  <2>1. ToSet(vs) = {vs[i] : i \in 1 .. n}
    BY <1>3, SetOf
  <2> QED BY <1>1, <1>4, <2>1
<1>10. g \in Cell
  BY <1>3, <1>5, <1>6, <1>7 DEF Cell
<1>11. c.type = "object" => Len(c.names) = n /\ Distinct(c.names)
  BY <1>1 DEF CellOK
<1>12. CellOK(g) /\ g.values = vs
  BY <1>3, <1>7, <1>8, <1>10, <1>11 DEF CellOK
<1>13. CopyCell(h, v, f, y) = g
  BY DEF CopyCell, vs, q, k
<1> QED BY <1>9, <1>12, <1>13

LEMMA CopiedOK ==
  ASSUME NEW h, Good(h), NEW v \in DOMAIN h, NEW f, Apart(h, v, f)
  PROVE  CopyOK(h, v, f, Copied(h, v, f))
<1> DEFINE T == Subtree(h, v)
           g == Copied(h, v, f)
<1>1. DOMAIN f = T /\ \A y \in T : f[y] \in Addresses /\ f[y] \notin DOMAIN h
  BY DEF Apart, Fresh
<1>2. DOMAIN g = DOMAIN h \cup {f[y] : y \in T} /\ \A x \in DOMAIN h : g[x] = h[x]
  BY <1>1 DEF Copied
<1>3. ASSUME NEW y \in T PROVE g[f[y]] = CopyCell(h, v, f, y)
  <2> DEFINE z == CHOOSE w \in DOMAIN f : f[w] = f[y]
  <2>1. z \in T /\ f[z] = f[y]
    BY <1>1
  <2>2. z = y
    <3> HIDE DEF z
    <3> QED BY <2>1 DEF Apart
  <2>3. g[f[y]] = CopyCell(h, v, f, z)
    BY <1>1, <1>2 DEF Copied, CopyCell
  <2> QED BY <2>2, <2>3
<1> HIDE DEF g
<1>4. ASSUME NEW y \in T
      PROVE  /\ CellOK(g[f[y]])
             /\ y # v => g[f[y]].parent = f[h[y].parent]
             /\ Children(g, f[y]) = {f[z] : z \in Children(h, y)}
  <2>1. /\ CellOK(CopyCell(h, v, f, y))
        /\ ToSet(CopyCell(h, v, f, y).values) = {f[z] : z \in Children(h, y)}
    BY CopyCellOK
  <2>2. y # v => CopyCell(h, v, f, y).parent = f[h[y].parent]
    BY DEF CopyCell
  <2> QED BY <1>3, <2>1, <2>2 DEF Children
<1>5. CopyOK(h, v, f, g)
  BY <1>1, <1>2, <1>4 DEF CopyOK
<1> QED BY <1>5 DEF g

\* Each copy has copies of what the original has: nothing is shared, no copy
\* is part of itself, and the copy of v is the one new root.
LEMMA CopyGood ==
  ASSUME NEW h, Good(h), NEW v \in DOMAIN h, NEW f, Apart(h, v, f),
         NEW g, CopyOK(h, v, f, g)
  PROVE  Good(g) /\ Roots(g) = Roots(h) \cup {f[v]}
<1> DEFINE T == Subtree(h, v)
           C == Kids(h)
           D == Kids(g)
<1>1. /\ v \in T /\ T \subseteq DOMAIN h
      /\ \A y \in T : Children(h, y) \subseteq T /\ v \notin Children(h, y)
      /\ \A y \in T \ {v} : h[y].parent \in T /\ y \in Children(h, h[y].parent)
  BY BelowFacts
<1>2. /\ DOMAIN C = DOMAIN h /\ DOMAIN D = DOMAIN g
      /\ \A x \in DOMAIN h : C[x] = Children(h, x) /\ Parents(h)[x] = h[x].parent
      /\ \A x \in DOMAIN g : D[x] = Children(g, x) /\ Parents(g)[x] = g[x].parent
  BY KidsOf
<1>3. /\ DOMAIN g = DOMAIN h \cup {f[y] : y \in T}
      /\ \A x \in DOMAIN h : g[x] = h[x]
      /\ \A y \in T : /\ f[y] \in Addresses /\ f[y] \notin DOMAIN h /\ CellOK(g[f[y]])
                      /\ y # v => g[f[y]].parent = f[h[y].parent]
                      /\ Children(g, f[y]) = {f[z] : z \in Children(h, y)}
  BY DEF CopyOK
<1>4. \A x, y \in T : f[x] = f[y] => x = y
  BY DEF Apart
<1>5. Owned(C, Parents(h)) /\ Acyclic(C) /\ DOMAIN h \subseteq Addresses
      /\ \A x \in DOMAIN h : CellOK(h[x])
  BY DEF Good
<1>6. \A x \in DOMAIN h : D[x] = C[x] /\ C[x] \subseteq DOMAIN h
  <2>1. \A x \in DOMAIN h : Children(g, x) = Children(h, x)
    BY <1>3 DEF Children
  <2>2. \A x \in DOMAIN h : C[x] \subseteq DOMAIN h
    BY <1>2, <1>5 DEF Owned
  <2> QED BY <1>2, <1>3, <2>1, <2>2
<1> HIDE DEF T, C, D
<1>7. ASSUME NEW y \in T
      PROVE  D[f[y]] = {f[z] : z \in C[y]} /\ C[y] \subseteq T /\ v \notin C[y]
  <2>1. y \in DOMAIN h /\ C[y] = Children(h, y)
    BY <1>1, <1>2
  <2>2. f[y] \in DOMAIN g /\ D[f[y]] = Children(g, f[y])
    BY <1>2, <1>3
  <2>3. Children(g, f[y]) = {f[z] : z \in Children(h, y)}
    BY <1>3
  <2> QED BY <1>1, <2>1, <2>2, <2>3
<1>8. Owned(D, Parents(g))
  <2> SUFFICES ASSUME NEW c \in DOMAIN D, NEW x \in D[c]
               PROVE  x \in DOMAIN D /\ Parents(g)[x] = c
    BY DEF Owned
  <2>1. CASE c \in DOMAIN h
    <3>1. x \in C[c] /\ x \in DOMAIN h /\ Parents(h)[x] = c
      BY <1>2, <1>5, <1>6, <2>1 DEF Owned
    <3> QED BY <1>2, <1>3, <3>1
  <2>2. CASE c \notin DOMAIN h
    <3>1. PICK y \in T : c = f[y]
      BY <1>2, <1>3, <2>2
    <3>2. PICK z \in C[y] : x = f[z]
      BY <1>7, <3>1
    <3>3. z \in T /\ z # v /\ y \in DOMAIN h
      BY <1>1, <1>7, <3>1, <3>2
    <3>4. h[z].parent = y
      BY <1>1, <1>2, <1>5, <3>2, <3>3 DEF Owned
    <3>5. x \in DOMAIN g /\ g[x].parent = f[y]
      BY <1>3, <3>2, <3>3, <3>4
    <3> QED BY <1>2, <3>1, <3>5
  <2> QED BY <2>1, <2>2
<1>9. ASSUME NEW x \in DOMAIN h PROVE Reach(D, x) \subseteq Reach(C, x)
  <2>1. x \in Reach(C, x) /\ Reach(C, x) \subseteq DOMAIN h
        /\ \A y \in Reach(C, x) : C[y] \cap DOMAIN C \subseteq Reach(C, x)
    BY <1>2, ReachClosed
  <2>2. \A y \in Reach(C, x) \cap DOMAIN D : D[y] \cap DOMAIN D \subseteq Reach(C, x)
    BY <1>2, <1>6, <2>1
  <2>3. x \in DOMAIN D
    BY <1>2, <1>3
  <2> QED BY <2>1, <2>2, <2>3, ReachLeast
<1>10. ASSUME NEW x \in T PROVE Reach(D, f[x]) \subseteq {f[w] : w \in Reach(C, x) \cap T}
  <2> DEFINE S == {f[w] : w \in Reach(C, x) \cap T}
  <2>1. x \in Reach(C, x) /\ \A y \in Reach(C, x) : C[y] \cap DOMAIN C \subseteq Reach(C, x)
    BY <1>1, <1>2, ReachClosed
  <2>2. ASSUME NEW s \in S, NEW z \in D[s] PROVE z \in S
    <3>1. PICK w \in Reach(C, x) \cap T : s = f[w]
      OBVIOUS
    <3>2. PICK u \in C[w] : z = f[u]
      BY <1>7, <2>2, <3>1
    <3>3. u \in T /\ u \in DOMAIN C
      BY <1>1, <1>2, <1>7, <3>1, <3>2
    <3>4. u \in Reach(C, x)
      BY <2>1, <3>1, <3>2, <3>3
    <3> QED BY <3>2, <3>3, <3>4
  <2>3. f[x] \in S /\ f[x] \in DOMAIN D
    BY <1>2, <1>3, <2>1
  <2> HIDE DEF S
  <2>4. Reach(D, f[x]) \subseteq S
    BY <2>2, <2>3, ReachLeast
  <2> QED BY <2>4 DEF S
<1>11. Acyclic(D)
  <2> SUFFICES ASSUME NEW c \in DOMAIN D, NEW x \in D[c], c \in Reach(D, x) PROVE FALSE
    BY DEF Acyclic
  <2>1. CASE c \in DOMAIN h
    <3>1. x \in C[c] /\ x \in DOMAIN h
      BY <1>6, <2>1
    <3>2. c \in Reach(C, x)
      BY <1>9, <3>1
    <3> QED BY <1>2, <1>5, <2>1, <3>1, <3>2 DEF Acyclic
  <2>2. CASE c \notin DOMAIN h
    <3>1. PICK y \in T : c = f[y]
      BY <1>2, <1>3, <2>2
    <3>2. PICK z \in C[y] : x = f[z]
      BY <1>7, <3>1
    <3>3. z \in T /\ y \in DOMAIN C
      BY <1>1, <1>2, <1>7, <3>1, <3>2
    <3>4. PICK w \in Reach(C, z) \cap T : c = f[w]
      BY <1>10, <3>2, <3>3
    <3>5. w = y
      BY <1>4, <3>1, <3>4
    <3> QED BY <1>5, <3>2, <3>3, <3>4, <3>5 DEF Acyclic
  <2> QED BY <2>1, <2>2
<1>12. ASSUME NEW x \in Tops(C) PROVE x \in Tops(D)
  <2>1. x \in DOMAIN h /\ x \in DOMAIN D
    BY <1>2, <1>3 DEF Tops
  <2>2. \A y \in T : x \notin D[f[y]]
    BY <1>3, <1>7, <2>1
  <2>3. \A c \in DOMAIN h : x \notin D[c]
    BY <1>2, <1>6 DEF Tops
  <2> QED BY <1>2, <1>3, <2>1, <2>2, <2>3 DEF Tops
<1>13. f[v] \in Tops(D)
  <2>1. f[v] \in DOMAIN D /\ f[v] \notin DOMAIN h
    BY <1>1, <1>2, <1>3
  <2>2. \A y \in T : f[v] \notin D[f[y]]
    BY <1>1, <1>4, <1>7
  <2>3. \A c \in DOMAIN h : f[v] \notin D[c]
    BY <1>6, <2>1
  <2> QED BY <1>2, <1>3, <2>1, <2>2, <2>3 DEF Tops
<1>14. ASSUME NEW x \in Tops(D) PROVE x \in Tops(C) \cup {f[v]}
  <2>1. x \in DOMAIN g /\ \A c \in DOMAIN g : x \notin D[c]
    BY <1>2 DEF Tops
  <2>2. CASE x \in DOMAIN h
    <3>1. \A c \in DOMAIN C : x \notin C[c]
      BY <1>2, <1>3, <1>6, <2>1
    <3> QED BY <1>2, <2>2, <3>1 DEF Tops
  <2>3. CASE x \notin DOMAIN h
    <3>1. PICK y \in T : x = f[y]
      BY <1>3, <2>1, <2>3
    <3>2. CASE y # v
      <4> DEFINE p == h[y].parent
      <4>1. p \in T /\ y \in C[p]
        BY <1>1, <1>2, <3>1, <3>2
      <4>2. x \in D[f[p]] /\ f[p] \in DOMAIN g
        BY <1>3, <1>7, <3>1, <4>1
      <4> QED BY <2>1, <4>2
    <3> QED BY <3>1, <3>2
  <2> QED BY <2>2, <2>3
<1>15. Tops(D) = Tops(C) \cup {f[v]}
  BY <1>12, <1>13, <1>14
<1>16. DOMAIN g \subseteq Addresses /\ \A x \in DOMAIN g : CellOK(g[x])
  BY <1>3, <1>5
<1> QED BY <1>8, <1>11, <1>15, <1>16 DEF Good, Roots, C, D
-----------------------------------------------------------------------------
(* The calls that make the value themselves.                                *)

LEMMA LeafLegal ==
  ASSUME NEW h, Good(h), NEW x \in Fresh(h), NEW m, NewIn(h, m, x, "leaf"), NEW o \in DOMAIN h
  PROVE  Legal(m, o, x) /\ m[o] = h[o]
BY DEF Legal, NewIn

\* On success the container has it, on failure it is freed.
LeafDone(h, x, out, g) ==
  /\ Good(g) /\ Roots(g) = Roots(h)
  /\ \/ out[1] = "success"
     \/ out[1] = "failure" /\ Kept(h, g)

LEMMA LeafGiven ==
  ASSUME NEW h, Good(h), NEW x \in Fresh(h), NEW m, NewIn(h, m, x, "leaf"),
         NEW out, GivesOK(m, x, out)
  PROVE  LeafDone(h, x, out, IF x \in DOMAIN out[2] THEN LeafFreed(out, x) ELSE out[2])
<1>1. /\ Roots(m) = Roots(h) \cup {x} /\ DOMAIN m = DOMAIN h \cup {x} /\ x \notin DOMAIN h
      /\ m[x].values = <<>> /\ \A y \in DOMAIN h : m[y] = h[y]
  BY DEF NewIn, New
<1>2. x \notin Roots(h)
  BY <1>1 DEF Roots, Tops, Kids
<1>3. CASE out[1] = "success"
  <2>1. LeafFreed(out, x) = out[2] /\ Good(out[2]) /\ Roots(out[2]) = Roots(h)
    BY <1>1, <1>2, <1>3 DEF LeafFreed, GivesOK
  <2> QED BY <1>3, <2>1 DEF LeafDone
<1>4. CASE out[1] # "success"
  <2> DEFINE g == out[2]
             r == json_value_free(g, {x})
  <2>1. out[1] = "failure" /\ Good(g) /\ Roots(g) = Roots(m) /\ Kept(m, g)
    BY <1>4 DEF GivesOK
  <2> HIDE DEF g
  <2>2. x \in DOMAIN g /\ Kids(g)[x] = {}
    <3>1. x \in DOMAIN g /\ g[x].values = <<>>
      BY <1>1, <2>1 DEF Kept
    <3> QED BY <3>1, KidsOf DEF ToSet
  <2>3. Subtree(g, x) = {x}
    <3>1. x \in DOMAIN Kids(g)
      BY <2>2, KidsOf
    <3>2. Reach(Kids(g), x) \subseteq {x} /\ x \in Reach(Kids(g), x)
      BY <2>2, <3>1, ReachLeast, ReachClosed
    <3> QED BY <3>2, KidsOf
  <2>4. DOMAIN r = DOMAIN h /\ \A y \in DOMAIN h : r[y] = g[y]
    <3>1. DOMAIN g = DOMAIN h \cup {x}
      BY <1>1, <2>1 DEF Kept
    <3> QED BY <1>1, <2>3, <3>1 DEF json_value_free
  <2>5. x \in Roots(g) /\ Roots(g) \ {x} = Roots(h)
    BY <1>1, <1>2, <2>1
  <2>6. Good(r) /\ Roots(r) = Roots(h)
    BY <2>1, <2>5, RootFreed
  <2>7. Kept(h, r)
    BY <1>1, <2>1, <2>4 DEF Kept
  <2> QED BY <1>4, <2>1, <2>2, <2>6, <2>7 DEF LeafDone, LeafFreed, g
<1> QED BY <1>3, <1>4

-----------------------------------------------------------------------------
(* The calls of the caller.                                                 *)

\* What the heap always is, and what the caller has: the inductive invariant.
Inv ==
  /\ Good(heap) /\ held = Roots(heap)
  /\ status \in {"none", "success", "failure"}

\* What every call does to it.
CallOK ==
  /\ Good(heap') /\ held' = Roots(heap')
  /\ \/ status' = "success"
     \/ status' = "failure" /\ Kept(heap, heap') /\ held' = held

LEMMA HeldFacts ==
  ASSUME Inv
  PROVE  /\ Good(heap) /\ held \subseteq DOMAIN heap
         /\ \A v \in held : \A o \in DOMAIN heap : o \notin Subtree(heap, v) => Legal(heap, o, v)
         /\ Objects \subseteq DOMAIN heap /\ \A o \in Objects : heap[o].type = "object"
         /\ Arrays \subseteq DOMAIN heap /\ \A a \in Arrays : heap[a].type = "array"
<1>1. held \subseteq DOMAIN heap
  BY KidsOf DEF Inv, Roots, Tops
<1> QED BY <1>1 DEF Inv, Legal, Objects, Arrays

LEMMA GivesCall ==
  ASSUME Inv, NEW v \in held, NEW outcomes, \A out \in outcomes : GivesOK(heap, v, out),
         Gives(v, outcomes)
  PROVE  CallOK
<1>1. PICK out \in outcomes :
        /\ heap' = out[2] /\ status' = out[1]
        /\ held' = IF out[1] = "success" THEN held \ {v} ELSE held
  BY DEF Gives
<1>2. GivesOK(heap, v, out) /\ held = Roots(heap)
  BY <1>1 DEF Inv
<1> QED BY <1>1, <1>2 DEF CallOK, GivesOK

LEMMA LosesCall ==
  ASSUME Inv, NEW outcomes, \A out \in outcomes : LosesOK(heap, out), Loses(outcomes)
  PROVE  CallOK
<1>1. PICK out \in outcomes : heap' = out[2] /\ status' = out[1] /\ held' = held
  BY DEF Loses
<1>2. LosesOK(heap, out) /\ held = Roots(heap)
  BY <1>1 DEF Inv
<1> QED BY <1>1, <1>2 DEF CallOK, LosesOK

LEMMA LeafCall ==
  ASSUME Inv, NEW x \in Fresh(heap), NEW outcomes,
         \A out \in outcomes : GivesOK(WithLeaf(x), x, out), NewLeaf(x, outcomes)
  PROVE  CallOK
<1>1. PICK out \in outcomes \cup Failure(heap) :
        /\ heap' = IF x \in DOMAIN out[2] THEN LeafFreed(out, x) ELSE out[2]
        /\ status' = out[1] /\ held' = held
  BY DEF NewLeaf
<1>2. Good(heap) /\ held = Roots(heap) /\ x \notin DOMAIN heap
  BY DEF Inv, Fresh
<1>3. CASE out \in outcomes
  <2>1. NewIn(heap, WithLeaf(x), x, "leaf")
    BY <1>2, MallocGood DEF WithLeaf, Types
  <2>2. LeafDone(heap, x, out, heap')
    BY <1>1, <1>2, <1>3, <2>1, LeafGiven
  <2> QED BY <1>1, <1>2, <2>2 DEF LeafDone, CallOK
<1>4. CASE out \in Failure(heap)
  <2>1. out = <<"failure", heap>>
    BY <1>4 DEF Failure
  <2>2. heap' = heap /\ status' = "failure"
    BY <1>1, <1>2, <2>1
  <2> QED BY <1>1, <1>2, <2>2 DEF CallOK, Kept
<1> QED BY <1>1, <1>3, <1>4

LEMMA LeafOutcomes ==
  ASSUME Inv, NEW x \in Fresh(heap)
  PROVE  /\ \A o \in DOMAIN heap : Legal(WithLeaf(x), o, x) /\ WithLeaf(x)[o] = heap[o]
<1>1. Good(heap)
  BY DEF Inv
<1>2. NewIn(heap, WithLeaf(x), x, "leaf")
  BY <1>1, MallocGood DEF WithLeaf, Types
<1> QED BY <1>1, <1>2, LeafLegal

\* Each call, whatever it does and wherever it fails.
LEMMA CallsOK ==
  ASSUME Inv, Next
  PROVE  CallOK
<1> USE HeldFacts
<1>1. CASE InitValue
  <2>1. PICK x \in Fresh(heap), type \in Types, ok \in {TRUE, ~MayFail} :
          IF ok THEN /\ heap' = Malloc(heap, x, type)
                     /\ held' = held \cup {x} /\ status' = "success"
          ELSE status' = "failure" /\ UNCHANGED <<heap, held>>
    BY <1>1 DEF InitValue
  <2>2. CASE ok
    <3>1. NewIn(heap, heap', x, type)
      BY <2>1, <2>2, MallocGood
    <3> QED BY <2>1, <2>2, <3>1 DEF NewIn, CallOK, Inv
  <2>3. CASE ~ok
    BY <2>1, <2>3 DEF CallOK, Inv, Kept
  <2> QED BY <2>2, <2>3
<1>2. CASE FreeValue
  <2>1. PICK v \in held : /\ heap' = json_value_free(heap, {v})
                          /\ held' = held \ {v} /\ status' = "success"
    BY <1>2 DEF FreeValue
  <2>2. Good(heap') /\ Roots(heap') = Roots(heap) \ {v}
    BY <2>1, RootFreed DEF Inv
  <2> QED BY <2>1, <2>2 DEF CallOK, Inv
<1>3. CASE json_value_deep_copy
  <2>1. PICK v \in DOMAIN heap :
          \/ \E f \in [Subtree(heap, v) -> Fresh(heap)] :
               /\ \A x, y \in Subtree(heap, v) : f[x] = f[y] => x = y
               /\ heap' = Copied(heap, v, f)
               /\ held' = held \cup {f[v]} /\ status' = "success"
          \/ MayFail /\ status' = "failure" /\ UNCHANGED <<heap, held>>
    BY <1>3 DEF json_value_deep_copy
  <2>2. ASSUME NEW f \in [Subtree(heap, v) -> Fresh(heap)],
               \A x, y \in Subtree(heap, v) : f[x] = f[y] => x = y,
               heap' = Copied(heap, v, f),
               held' = held \cup {f[v]}, status' = "success"
        PROVE  CallOK
    <3>1. Apart(heap, v, f)
      BY <2>2 DEF Apart
    <3>2. CopyOK(heap, v, f, heap')
      BY <2>2, <3>1, CopiedOK
    <3>3. Good(heap') /\ Roots(heap') = Roots(heap) \cup {f[v]}
      BY <3>1, <3>2, CopyGood
    <3> QED BY <2>2, <3>3 DEF CallOK, Inv
  <2>3. CASE status' = "failure" /\ UNCHANGED <<heap, held>>
    BY <2>3 DEF CallOK, Inv, Kept
  <2> QED BY <2>1, <2>2, <2>3
<1>4. CASE json_object_set_value
  <2>1. PICK o \in Objects, n \in Names, v \in held :
          o \notin Subtree(heap, v) /\ Gives(v, SetValue(heap, o, n, v))
    BY <1>4 DEF json_object_set_value
  <2>2. \A out \in SetValue(heap, o, n, v) : GivesOK(heap, v, out)
    BY <2>1, SetValueGives
  <2> QED BY <2>1, <2>2, GivesCall
<1>5. CASE json_object_dotset_value
  <2>1. PICK o \in Objects, n \in Names, n2 \in Names, v \in held :
          o \notin Subtree(heap, v) /\ Gives(v, DotSetValue(heap, o, n, n2, v))
    BY <1>5 DEF json_object_dotset_value
  <2>2. \A out \in DotSetValue(heap, o, n, n2, v) : GivesOK(heap, v, out)
    BY <2>1, DotSetGives
  <2> QED BY <2>1, <2>2, GivesCall
<1>6. CASE json_array_append_value
  <2>1. PICK a \in Arrays, v \in held :
          a \notin Subtree(heap, v) /\ Gives(v, AppendValue(heap, a, v))
    BY <1>6 DEF json_array_append_value
  <2>2. \A out \in AppendValue(heap, a, v) : GivesOK(heap, v, out)
    BY <2>1, AppendGives
  <2> QED BY <2>1, <2>2, GivesCall
<1>7. CASE json_array_replace_value
  <2>1. PICK a \in Arrays, v \in held : \E i \in 1 .. Len(heap[a].values) + 1 :
          a \notin Subtree(heap, v) /\ Gives(v, ReplaceValue(heap, a, i, v))
    BY <1>7 DEF json_array_replace_value
  <2>2. PICK i \in 1 .. Len(heap[a].values) + 1 :
          a \notin Subtree(heap, v) /\ Gives(v, ReplaceValue(heap, a, i, v))
    BY <2>1
  <2>3. \A out \in ReplaceValue(heap, a, i, v) : GivesOK(heap, v, out)
    BY <2>2, ReplaceGives
  <2> QED BY <2>2, <2>3, GivesCall
<1>8. CASE json_object_set_leaf
  <2>1. PICK o \in Objects, n \in Names, x \in Fresh(heap) :
          NewLeaf(x, SetValue(WithLeaf(x), o, n, x))
    BY <1>8 DEF json_object_set_leaf
  <2>2. Legal(WithLeaf(x), o, x) /\ WithLeaf(x)[o].type = "object"
    BY LeafOutcomes
  <2>3. \A out \in SetValue(WithLeaf(x), o, n, x) : GivesOK(WithLeaf(x), x, out)
    BY <2>2, SetValueGives
  <2> QED BY <2>1, <2>3, LeafCall
<1>9. CASE json_object_dotset_leaf
  <2>1. PICK o \in Objects, n \in Names, n2 \in Names, x \in Fresh(heap) :
          NewLeaf(x, DotSetValue(WithLeaf(x), o, n, n2, x))
    BY <1>9 DEF json_object_dotset_leaf
  <2>2. Legal(WithLeaf(x), o, x) /\ WithLeaf(x)[o].type = "object"
    BY LeafOutcomes
  <2>3. \A out \in DotSetValue(WithLeaf(x), o, n, n2, x) : GivesOK(WithLeaf(x), x, out)
    BY <2>2, DotSetGives
  <2> QED BY <2>1, <2>3, LeafCall
<1>10. CASE json_array_append_leaf
  <2>1. PICK a \in Arrays, x \in Fresh(heap) : NewLeaf(x, AppendValue(WithLeaf(x), a, x))
    BY <1>10 DEF json_array_append_leaf
  <2>2. Legal(WithLeaf(x), a, x) /\ WithLeaf(x)[a].type = "array"
    BY LeafOutcomes
  <2>3. \A out \in AppendValue(WithLeaf(x), a, x) : GivesOK(WithLeaf(x), x, out)
    BY <2>2, AppendGives
  <2> QED BY <2>1, <2>3, LeafCall
<1>11. CASE json_array_replace_leaf
  <2>1. PICK a \in Arrays, x \in Fresh(heap) : \E i \in 1 .. Len(heap[a].values) + 1 :
          NewLeaf(x, ReplaceValue(WithLeaf(x), a, i, x))
    BY <1>11 DEF json_array_replace_leaf
  <2>2. PICK i \in 1 .. Len(heap[a].values) + 1 :
          NewLeaf(x, ReplaceValue(WithLeaf(x), a, i, x))
    BY <2>1
  <2>3. Legal(WithLeaf(x), a, x) /\ WithLeaf(x)[a] = heap[a]
    BY LeafOutcomes
  <2>4. \A out \in ReplaceValue(WithLeaf(x), a, i, x) : GivesOK(WithLeaf(x), x, out)
    BY <2>3, ReplaceGives
  <2> QED BY <2>2, <2>4, LeafCall
<1>12. CASE json_object_remove
  <2>1. PICK o \in Objects, n \in Names : Loses(RemoveInternal(heap, o, n, TRUE))
    BY <1>12 DEF json_object_remove
  <2>2. \A out \in RemoveInternal(heap, o, n, TRUE) : LosesOK(heap, out)
    BY RemoveLoses
  <2> QED BY <2>1, <2>2, LosesCall
<1>13. CASE json_array_remove
  <2>1. PICK a \in Arrays : \E i \in 1 .. Len(heap[a].values) + 1 : Loses(ArrayRemove(heap, a, i))
    BY <1>13 DEF json_array_remove
  <2>2. PICK i \in 1 .. Len(heap[a].values) + 1 : Loses(ArrayRemove(heap, a, i))
    BY <2>1
  <2>3. \A out \in ArrayRemove(heap, a, i) : LosesOK(heap, out)
    BY ArrayRemoveLoses
  <2> QED BY <2>2, <2>3, LosesCall
<1>14. CASE json_object_clear \/ json_array_clear
  <2>1. PICK c \in DOMAIN heap : Loses(Clear(heap, c))
    BY <1>14 DEF json_object_clear, json_array_clear
  <2>2. \A out \in Clear(heap, c) : LosesOK(heap, out)
    BY ClearLoses
  <2> QED BY <2>1, <2>2, LosesCall
<1> QED BY <1>1, <1>2, <1>3, <1>4, <1>5, <1>6, <1>7, <1>8, <1>9, <1>10, <1>11, <1>12,
           <1>13, <1>14 DEF Next

LEMMA InitInv ==
  Init => Inv
<1> SUFFICES ASSUME Init PROVE Inv
  OBVIOUS
<1>1. heap = <<>> /\ held = {} /\ status = "none" /\ DOMAIN heap = {}
  BY DEF Init
<1>2. DOMAIN Kids(heap) = {}
  BY <1>1, KidsOf
<1> QED BY <1>1, <1>2 DEF Inv, Good, Owned, Acyclic, Roots, Tops

LEMMA NextInv ==
  Inv /\ [Next]_vars => Inv'
<1> SUFFICES ASSUME Inv, [Next]_vars PROVE Inv'
  OBVIOUS
<1>1. CASE Next
  <2>1. CallOK
    BY <1>1, CallsOK
  <2> QED BY <2>1 DEF CallOK, Inv
<1>2. CASE UNCHANGED vars
  <2>1. heap' = heap /\ held' = held /\ status' = status
    BY <1>2 DEF vars
  <2>2. Good(heap') /\ Roots(heap') = Roots(heap)
    BY <2>1 DEF Inv
  <2> QED BY <2>1, <2>2 DEF Inv
<1> QED BY <1>1, <1>2

\* Every heap the calls can make is a forest of values whose containers know
\* their size, and the caller has its roots.
THEOREM HeapInvariance == Spec => []Inv
<1>1. Init => Inv
  BY InitInv
<1>2. Inv /\ [Next]_vars => Inv'
  BY NextInv
<1> QED BY <1>1, <1>2, PTL DEF Spec
-----------------------------------------------------------------------------
(* What the runs check.                                                     *)

\* Values, names and results are what they are said to be.
THEOREM TypeCorrect == Spec => []TypeOK
<1>1. Inv => TypeOK
  <2> SUFFICES ASSUME Inv PROVE TypeOK
    OBVIOUS
  <2>1. held \subseteq DOMAIN heap /\ DOMAIN heap \subseteq Addresses
    BY HeldFacts DEF Inv, Good
  <2>2. ASSUME NEW x \in DOMAIN heap
        PROVE  /\ heap[x].type \in Types /\ heap[x].parent \in Addresses \cup {NULL}
               /\ ToSet(heap[x].names) \subseteq Names
    <3>1. heap[x] \in Cell
      BY DEF Inv, Good, CellOK
    <3>2. heap[x].names \in Seq(Names)
      BY <3>1 DEF Cell
    <3>3. ToSet(heap[x].names) \subseteq Names
      BY <3>2, SetOf
    <3> QED BY <3>1, <3>3 DEF Cell
  <2> QED BY <2>1, <2>2 DEF TypeOK, Inv
<1> QED BY <1>1, HeapInvariance, PTL

\* What a place of a container is.
LEMMA PlaceFacts ==
  ASSUME Inv, NEW p \in Places
  PROVE  /\ p[1] \in DOMAIN heap /\ p[2] \in 1 .. Len(heap[p[1]].values)
         /\ p = <<p[1], p[2]>> /\ ValueAt(p) \in Children(heap, p[1])
<1>1. PICK c \in DOMAIN heap : p \in {c} \X (1 .. Len(heap[c].values))
  BY DEF Places
<1>2. p = <<p[1], p[2]>> /\ p[1] = c /\ p[2] \in 1 .. Len(heap[c].values)
  BY <1>1
<1>3. Children(heap, c) = {heap[c].values[i] : i \in 1 .. Len(heap[c].values)}
  BY ChildFacts DEF Inv
<1> QED BY <1>2, <1>3 DEF ValueAt

\* No value is freed twice or used after it is freed: what a container
\* points to is allocated and is in no other place.
THEOREM OwnersUnique == Spec => []OneOwner
<1>1. Inv => OneOwner
  <2> SUFFICES ASSUME Inv, NEW p \in Places
               PROVE  /\ ValueAt(p) \in DOMAIN heap
                      /\ heap[ValueAt(p)].parent = p[1]
                      /\ \A q \in Places : ValueAt(p) = ValueAt(q) => p = q
    BY DEF OneOwner
  <2>1. ASSUME NEW q \in Places
        PROVE  ValueAt(q) \in DOMAIN heap /\ heap[ValueAt(q)].parent = q[1]
    BY PlaceFacts, ChildFacts DEF Inv
  <2>2. ASSUME NEW q \in Places, ValueAt(p) = ValueAt(q) PROVE p = q
    <3>1. p[1] = q[1]
      BY <2>1, <2>2
    <3>2. Distinct(heap[p[1]].values)
      BY PlaceFacts DEF Inv, Good, CellOK
    <3>3. p[2] \in 1 .. Len(heap[p[1]].values) /\ q[2] \in 1 .. Len(heap[p[1]].values)
          /\ p = <<p[1], p[2]>> /\ q = <<q[1], q[2]>>
      BY <3>1, PlaceFacts
    <3>4. p[2] = q[2]
      BY <2>2, <3>1, <3>2, <3>3 DEF Distinct, ValueAt
    <3> QED BY <3>1, <3>3, <3>4
  <2> QED BY <2>1, <2>2
<1> QED BY <1>1, HeapInvariance, PTL

\* No value is lost: the caller has all those that no container has.
THEOREM NoneLost == Spec => []NothingLeaks
<1>1. Inv => NothingLeaks
  <2> SUFFICES ASSUME Inv PROVE NothingLeaks
    OBVIOUS
  <2>1. ASSUME NEW c \in DOMAIN heap, NEW x \in Children(heap, c)
        PROVE  \E p \in Places : x = ValueAt(p)
    <3>1. PICK i \in 1 .. Len(heap[c].values) : x = heap[c].values[i]
      BY ChildFacts DEF Inv
    <3>2. <<c, i>> \in Places
      BY DEF Places
    <3> QED BY <3>1, <3>2 DEF ValueAt
  <2>2. \A p \in Places : \E c \in DOMAIN heap : ValueAt(p) \in Children(heap, c)
    BY PlaceFacts
  <2>3. held = {x \in DOMAIN heap : \A c \in DOMAIN heap : x \notin Children(heap, c)}
    BY KidsOf DEF Inv, Roots, Tops
  <2> QED BY <2>1, <2>2, <2>3 DEF NothingLeaks
<1> QED BY <1>1, HeapInvariance, PTL

\* Both arrays of a container have room for what is in them.
THEOREM CapacityKept == Spec => []WithinCapacity
<1>1. Inv => WithinCapacity
  BY DEF Inv, Good, CellOK, WithinCapacity, Containers, Objects, Arrays
<1> QED BY <1>1, HeapInvariance, PTL

\* An object has each name once.
THEOREM NamesOnce == Spec => []NamesUnique
<1>1. Inv => NamesUnique
  BY DEF Inv, Good, CellOK, Distinct, NamesUnique, Objects
<1> QED BY <1>1, HeapInvariance, PTL

\* Every error path puts back what it found: nothing new stays allocated,
\* nothing that was there is freed, and no tree has changed.
THEOREM FailuresUndo == Spec => FailureChangesNothing
<1>1. Inv /\ [Next]_vars =>
        [status' = "failure" =>
           /\ DOMAIN heap' = DOMAIN heap /\ held' = held
           /\ \A x \in DOMAIN heap : heap'[x].names = heap[x].names
                                     /\ heap'[x].values = heap[x].values]_vars
  <2> SUFFICES ASSUME Inv, Next, status' = "failure"
               PROVE  /\ DOMAIN heap' = DOMAIN heap /\ held' = held
                      /\ \A x \in DOMAIN heap : heap'[x].names = heap[x].names
                                                /\ heap'[x].values = heap[x].values
    OBVIOUS
  <2>1. CallOK
    BY CallsOK
  <2> QED BY <2>1 DEF CallOK, Kept
<1> QED BY <1>1, HeapInvariance, PTL DEF Spec, FailureChangesNothing

==============================================================================
