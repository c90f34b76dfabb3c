---------------------------- MODULE FramingProofs ----------------------------
(* How the library client finds the end of a response, for every division   *)
(* of requests and responses into pieces, and what follows for the session. *)
EXTENDS RestProofs

-----------------------------------------------------------------------------
(* Framing: what a beginning of an answer tells of its length.              *)

LengthNames == {"Content-Length", "content-length"}
BodyUnits == {u \in Units : u.is \notin LengthNames}
LineUnits == {u \in BodyUnits : u.is # "crlf"}

Beginning(a, k) == SubSeq(a, 1, k)
HeaderEnd(data) == buffer_find(data, <<CRLF, CRLF>>)
LengthAt(data) == buffer_find_insensitive(data, "Content-Length")

\* A reader that has found the header's end and a length in what it has read
\* does not stop short of the end.
Framed(a) ==
  \A k \in 0 .. Len(a) :
    HeaderEnd(Beginning(a, k)) >= 0 /\ LengthAt(Beginning(a, k)) >= 0 =>
      HeaderEnd(Beginning(a, k)) + 2 + Beginning(a, k)[LengthAt(Beginning(a, k)) + 1].of
        \in Len(a) .. SizeT - 1

\* The places buffer_find chooses from.
Places(buf, data) ==
  {i \in 0 .. Len(buf) - Len(data) : SubSeq(buf, i + 1, i + Len(data)) = data}

LEMMA FindFirst ==
  ASSUME NEW buf, NEW data, NEW p \in Places(buf, data), p \in Int,
         \A j \in Places(buf, data) : j \in Int /\ p <= j
  PROVE  buffer_find(buf, data) = p
<1>1. buffer_find(buf, data) =
        CHOOSE i \in Places(buf, data) : \A j \in Places(buf, data) : i <= j
  BY DEF buffer_find, Places
<1>2. \A i \in Places(buf, data) : (\A j \in Places(buf, data) : i <= j) => i = p
  OBVIOUS
<1> QED BY <1>1, <1>2

LEMMA FindNone ==
  ASSUME NEW buf, NEW data, buffer_find(buf, data) >= 0
  PROVE  Places(buf, data) # {}
BY DEF buffer_find, Places

LEMMA FindIn ==
  ASSUME NEW buf, NEW data, buffer_find(buf, data) >= 0, Places(buf, data) \subseteq Nat
  PROVE  buffer_find(buf, data) \in Places(buf, data)
<1> DEFINE S == Places(buf, data)
<1>1. S # {}
  BY FindNone
<1> HIDE DEF S
<1>2. PICK p \in S : \A j \in S : ~(<<j, p>> \in OpToRel(<, Nat))
  BY <1>1, WFMin, NatLessThanWellFounded DEF S
<1>3. \A j \in S : j \in Nat /\ ~(j < p)
  BY <1>2 DEF OpToRel, S
<1>5. p \in Int /\ \A j \in S : j \in Int /\ p <= j
  BY <1>3
<1>4. buffer_find(buf, data) = p
  BY <1>2, <1>5, FindFirst DEF S
<1> QED BY <1>2, <1>4 DEF S

LEMMA PlacesOfTwo ==
  ASSUME NEW U, NEW buf \in Seq(U), NEW x \in U, NEW y \in U
  PROVE  Places(buf, <<x, y>>) =
           {i \in 0 .. Len(buf) - 2 : buf[i + 1] = x /\ buf[i + 2] = y}
<1>1. Len(buf) \in Nat /\ Len(<<x, y>>) = 2 /\ <<x, y>> \in Seq(U)
  OBVIOUS
<1>2. ASSUME NEW i \in 0 .. Len(buf) - 2
      PROVE  SubSeq(buf, i + 1, i + 2) = <<x, y>> <=> buf[i + 1] = x /\ buf[i + 2] = y
  <2> DEFINE s == SubSeq(buf, i + 1, i + 2)
  <2>1. \A k \in i + 1 .. i + 2 : buf[k] \in U
    BY <1>1
  <2>2. s \in Seq(U) /\ Len(s) = 2 /\ \A k \in 1 .. 2 : s[k] = buf[i + k]
    <3>1. i + 1 \in Int /\ i + 2 \in Int /\ i + 1 <= i + 2 /\ (i + 2) - (i + 1) + 1 = 2
      OBVIOUS
    <3>2. s \in Seq(U) /\ Len(s) = 2 /\ \A k \in 1 .. 2 : s[k] = buf[i + 1 + k - 1]
      BY <2>1, <3>1, SubSeqProperties
    <3> QED BY <3>2
  <2>3. s[1] = buf[i + 1] /\ s[2] = buf[i + 2]
    BY <2>2
  <2> HIDE DEF s
  <2>4. ASSUME s[1] = x, s[2] = y PROVE s = <<x, y>>
    <3>1. \A k \in 1 .. Len(s) : s[k] = <<x, y>>[k]
      BY <2>2, <2>4
    <3> QED BY <1>1, <2>2, <3>1, SeqEqual
  <2>5. s = <<x, y>> => s[1] = x /\ s[2] = y
    OBVIOUS
  <2> QED BY <2>3, <2>4, <2>5 DEF s
<1> QED BY <1>1, <1>2 DEF Places

LEMMA PlacesOfOne ==
  ASSUME NEW U, NEW buf \in Seq(U), NEW x \in U
  PROVE  Places(buf, <<x>>) = {i \in 0 .. Len(buf) - 1 : buf[i + 1] = x}
<1>1. Len(buf) \in Nat /\ Len(<<x>>) = 1
  OBVIOUS
<1>2. ASSUME NEW i \in 0 .. Len(buf) - 1
      PROVE  SubSeq(buf, i + 1, i + 1) = <<x>> <=> buf[i + 1] = x
  <2> DEFINE s == SubSeq(buf, i + 1, i + 1)
  <2>1. \A k \in i + 1 .. i + 1 : buf[k] \in U
    BY <1>1
  <2>2. s \in Seq(U) /\ Len(s) = 1 /\ s[1] = buf[i + 1]
    <3>1. i + 1 \in Int /\ (i + 1) - (i + 1) + 1 = 1
      OBVIOUS
    <3>2. s \in Seq(U) /\ Len(s) = 1 /\ \A k \in 1 .. 1 : s[k] = buf[i + 1 + k - 1]
      BY <2>1, <3>1, SubSeqProperties
    <3> QED BY <3>2
  <2> HIDE DEF s
  <2>3. ASSUME s[1] = x PROVE s = <<x>>
    <3>1. <<x>> \in Seq(U) /\ Len(<<x>>) = Len(s) /\ \A k \in 1 .. Len(s) : s[k] = <<x>>[k]
      BY <2>2, <2>3
    <3> QED BY <2>2, <3>1, SeqEqual
  <2>4. s = <<x>> => s[1] = x
    OBVIOUS
  <2> QED BY <2>2, <2>3, <2>4 DEF s
<1> QED BY <1>1, <1>2 DEF Places

\* Two texts one after the other.
IsJoint(b, s, t, U) ==
  /\ b \in Seq(U) /\ Len(b) = Len(s) + Len(t)
  /\ \A i \in 1 .. Len(s) : b[i] = s[i]
  /\ \A i \in 1 .. Len(t) : b[Len(s) + i] = t[i]

LEMMA Joint ==
  ASSUME NEW U, NEW s \in Seq(U), NEW t \in Seq(U)
  PROVE  IsJoint(s \o t, s, t, U)
<1> DEFINE b == s \o t
<1>1. Len(s) \in Nat /\ Len(t) \in Nat
  OBVIOUS
<1>2. /\ b \in Seq(U) /\ Len(b) = Len(s) + Len(t)
      /\ \A i \in 1 .. Len(s) + Len(t) : b[i] = IF i <= Len(s) THEN s[i] ELSE t[i - Len(s)]
  BY ConcatProperties
<1> HIDE DEF b
<1>3. \A i \in 1 .. Len(s) : i \in 1 .. Len(s) + Len(t) /\ i <= Len(s)
  BY <1>1
<1>4. \A i \in 1 .. Len(t) : /\ Len(s) + i \in 1 .. Len(s) + Len(t) /\ ~(Len(s) + i <= Len(s))
                             /\ Len(s) + i - Len(s) = i
  BY <1>1
<1>5. IsJoint(b, s, t, U)
  BY <1>1, <1>2, <1>3, <1>4 DEF IsJoint
<1> QED BY <1>5 DEF b

\* The text a is the lines h, each with its line end, an empty line, and body.
TextOf(a, h, body) ==
  /\ h \in Seq(Units) /\ body \in Seq(Units) /\ a \in Seq(Units)
  /\ Len(a) = 2 * Len(h) + 1 + Len(body)
  /\ \A j \in 1 .. Len(h) : a[2 * j - 1] = h[j] /\ a[2 * j] = CRLF
  /\ a[2 * Len(h) + 1] = CRLF
  /\ \A i \in 1 .. Len(body) : a[2 * Len(h) + 1 + i] = body[i]

LEMMA LineEnd == CRLF \in Units
BY DEF CRLF, Unit, Units, Names, NULL

LEMMA MessageShape ==
  ASSUME NEW h \in Seq(Units), NEW body \in Seq(Units)
  PROVE  TextOf(compute_message(h) \o <<CRLF>> \o body, h, body)
<1> DEFINE c == compute_message(h)
           n == Len(h)
           e == <<CRLF>>
           b == c \o e
           a == b \o body
<1>1. n \in Nat /\ Len(body) \in Nat /\ c \in Seq(Units) /\ e \in Seq(Units)
      /\ Len(e) = 1 /\ e[1] = CRLF
  BY LineEnd, ComputeMessageType
<1>2. Len(c) = 2 * n
  BY <1>1 DEF compute_message
<1>3. \A j \in 1 .. n : c[2 * j - 1] = h[j] /\ c[2 * j] = CRLF
  <2> SUFFICES ASSUME NEW j \in 1 .. n PROVE c[2 * j - 1] = h[j] /\ c[2 * j] = CRLF
    OBVIOUS
  <2>1. 2 * j - 1 \in 1 .. 2 * n /\ 2 * j \in 1 .. 2 * n
        /\ (2 * j - 1) % 2 = 1 /\ (2 * j) % 2 # 1 /\ (2 * j - 1 + 1) \div 2 = j
    BY <1>1
  <2> QED BY <2>1 DEF compute_message
<1> HIDE DEF c, e
<1>4. /\ b \in Seq(Units) /\ Len(b) = 2 * n + 1
      /\ \A i \in 1 .. 2 * n : b[i] = c[i]
      /\ b[2 * n + 1] = CRLF
  <2>1. IsJoint(b, c, e, Units)
    BY <1>1, Joint
  <2> HIDE DEF b
  <2>2. 1 \in 1 .. 1 /\ 1 \in Nat
    OBVIOUS
  <2> QED BY <1>1, <1>2, <2>1, <2>2 DEF IsJoint
<1> HIDE DEF b
<1>5. /\ a \in Seq(Units) /\ Len(a) = 2 * n + 1 + Len(body)
      /\ \A i \in 1 .. 2 * n + 1 : a[i] = b[i]
      /\ \A i \in 1 .. Len(body) : a[2 * n + 1 + i] = body[i]
  <2>1. IsJoint(a, b, body, Units)
    BY <1>4, Joint
  <2> HIDE DEF a
  <2> QED BY <1>1, <1>4, <2>1 DEF IsJoint
<1> HIDE DEF a
<1>6. 2 * n + 1 \in 1 .. 2 * n + 1
      /\ \A j \in 1 .. n : /\ 2 * j - 1 \in 1 .. 2 * n /\ 2 * j \in 1 .. 2 * n
                           /\ 2 * j - 1 \in 1 .. 2 * n + 1 /\ 2 * j \in 1 .. 2 * n + 1
  BY <1>1
<1>7. TextOf(a, h, body)
  BY <1>3, <1>4, <1>5, <1>6 DEF TextOf
<1> QED BY <1>7 DEF a, b, c, e

\* A beginning of a text.
LEMMA BeginningFacts ==
  ASSUME NEW U, NEW a \in Seq(U), NEW k \in 0 .. Len(a)
  PROVE  /\ Beginning(a, k) \in Seq(U) /\ Len(Beginning(a, k)) = k
         /\ \A i \in 1 .. k : Beginning(a, k)[i] = a[i]
<1> DEFINE b == SubSeq(a, 1, k)
<1>1. Len(a) \in Nat /\ k \in Int /\ k - 1 + 1 = k /\ \A i \in 1 .. k : 1 + i - 1 = i
  OBVIOUS
<1>2. \A i \in 1 .. k : a[i] \in U
  BY <1>1
<1>3. /\ b \in Seq(U) /\ Len(b) = (IF 1 <= k THEN k - 1 + 1 ELSE 0)
      /\ \A i \in 1 .. k - 1 + 1 : b[i] = a[1 + i - 1]
  BY <1>1, <1>2, SubSeqProperties
<1> QED BY <1>1, <1>3 DEF Beginning

\* Where the header of a text ends, and from when on a reader sees it.
LEMMA HeaderEndOf ==
  ASSUME NEW a, NEW h, NEW body, TextOf(a, h, body), \A j \in 1 .. Len(h) : h[j] # CRLF,
         Len(h) >= 1, NEW k \in 0 .. Len(a)
  PROVE  /\ k >= 2 * Len(h) + 1 => HeaderEnd(Beginning(a, k)) = 2 * Len(h) - 1
         /\ HeaderEnd(Beginning(a, k)) >= 0 => k >= 2 * Len(h) + 1
<1> DEFINE b == Beginning(a, k)
           n == Len(h)
           S == Places(b, <<CRLF, CRLF>>)
<1>0. /\ h \in Seq(Units) /\ a \in Seq(Units) /\ Len(a) \in Nat /\ n \in Nat /\ n >= 1
      /\ \A j \in 1 .. n : a[2 * j - 1] = h[j] /\ a[2 * j] = CRLF
      /\ a[2 * n + 1] = CRLF
  BY DEF TextOf
<1>1. n \in Nat /\ n >= 1 /\ a \in Seq(Units) /\ Len(a) \in Nat /\ n \in 1 .. n
      /\ a[2 * n] = CRLF /\ a[2 * n + 1] = CRLF
      /\ \A j \in 1 .. n : a[2 * j - 1] # CRLF
  <2>1. n \in 1 .. n
    BY <1>0
  <2>2. a[2 * n] = CRLF
    BY <1>0, <2>1
  <2>3. \A j \in 1 .. n : a[2 * j - 1] # CRLF
    BY <1>0
  <2> QED BY <1>0, <2>1, <2>2, <2>3
<1>2. b \in Seq(Units) /\ Len(b) = k /\ \A i \in 1 .. k : b[i] = a[i]
  BY <1>1, BeginningFacts
<1> HIDE DEF b
<1>3. S = {i \in 0 .. k - 2 : b[i + 1] = CRLF /\ b[i + 2] = CRLF}
  BY <1>2, LineEnd, PlacesOfTwo
<1> HIDE DEF S
<1>4. ASSUME NEW i \in S PROVE i \in Int /\ i >= 2 * n - 1 /\ k >= 2 * n + 1
  <2>1. i \in 0 .. k - 2 /\ a[i + 1] = CRLF /\ a[i + 2] = CRLF
    BY <1>2, <1>3
  <2>2. ASSUME NEW j \in 1 .. n PROVE i + 1 # 2 * j - 1 /\ i + 2 # 2 * j - 1
    BY <1>1, <2>1
  <2>3. CASE i < 2 * n - 1
    <3>1. PICK q \in Nat : i = 2 * q \/ i = 2 * q + 1
      <4>1. i \div 2 \in Nat /\ (i = 2 * (i \div 2) \/ i = 2 * (i \div 2) + 1)
        BY <2>1
      <4> QED BY <4>1
    <3>2. q + 1 \in 1 .. n
      BY <1>1, <2>3, <3>1
    <3>3. i + 1 = 2 * (q + 1) - 1 \/ i + 2 = 2 * (q + 1) + 1
      BY <3>1
    <3>4. i # 2 * q
      BY <2>2, <3>2
    <3>5. i = 2 * q + 1 /\ q + 2 \in 1 .. n /\ i + 2 = 2 * (q + 2) - 1
      BY <1>1, <2>3, <3>1, <3>4
    <3> QED BY <2>2, <3>5
  <2> QED BY <1>1, <2>1, <2>3
<1>5. ASSUME k >= 2 * n + 1 PROVE HeaderEnd(b) = 2 * n - 1
  <2>1. 2 * n - 1 \in 0 .. k - 2 /\ 2 * n - 1 + 1 = 2 * n /\ 2 * n - 1 + 2 = 2 * n + 1
        /\ 2 * n \in 1 .. k /\ 2 * n + 1 \in 1 .. k
    BY <1>1, <1>5
  <2>2. 2 * n - 1 \in S
    BY <1>1, <1>2, <1>3, <2>1
  <2>3. \A j \in Places(b, <<CRLF, CRLF>>) : j \in Int /\ 2 * n - 1 <= j
    BY <1>4 DEF S
  <2>4. 2 * n - 1 \in Places(b, <<CRLF, CRLF>>) /\ 2 * n - 1 \in Int
    BY <1>1, <2>2 DEF S
  <2> QED BY <2>3, <2>4, FindFirst DEF HeaderEnd
<1>6. ASSUME HeaderEnd(b) >= 0 PROVE k >= 2 * n + 1
  <2>1. Places(b, <<CRLF, CRLF>>) # {}
    BY <1>6, FindNone DEF HeaderEnd
  <2> QED BY <1>4, <2>1 DEF S
<1> QED BY <1>5, <1>6 DEF b

\* The lines of a header, of which only the last may give a length: that one.
HeaderOK(h, length) ==
  /\ h \in Seq(Units) /\ Len(h) >= 1
  /\ \A j \in 1 .. Len(h) :
       /\ h[j] # CRLF
       /\ h[j].is \in LengthNames => j = Len(h) /\ h[j].of = length

\* The one place where a reader may find a length.
LEMMA LengthAtOf ==
  ASSUME NEW a, NEW h, NEW body, NEW length, TextOf(a, h, body), HeaderOK(h, length),
         body \in Seq(BodyUnits), NEW k \in 0 .. Len(a), LengthAt(Beginning(a, k)) >= 0
  PROVE  /\ LengthAt(Beginning(a, k)) = 2 * Len(h) - 2
         /\ Beginning(a, k)[2 * Len(h) - 1].of = length
<1> DEFINE b == Beginning(a, k)
           n == Len(h)
           names == [i \in DOMAIN b |-> tolower(b[i].is)]
           x == "content-length"
           S == Places(names, <<x>>)
<1>1. /\ h \in Seq(Units) /\ a \in Seq(Units) /\ Len(a) \in Nat /\ n \in Nat /\ n >= 1
      /\ \A j \in 1 .. n : a[2 * j - 1] = h[j] /\ a[2 * j] = CRLF
      /\ a[2 * n + 1] = CRLF /\ Len(body) \in Nat
      /\ Len(a) = 2 * n + 1 + Len(body)
      /\ \A i \in 1 .. Len(body) : a[2 * n + 1 + i] = body[i]
  BY DEF TextOf, HeaderOK
<1>2. b \in Seq(Units) /\ Len(b) = k /\ \A i \in 1 .. k : b[i] = a[i]
  BY <1>1, BeginningFacts
<1> HIDE DEF b
<1>3. names \in Seq(Names \cup {x}) /\ Len(names) = k
      /\ \A i \in 1 .. k : names[i] = tolower(b[i].is)
  <2>1. DOMAIN b = 1 .. k /\ k \in Nat
    BY <1>1, <1>2
  <2>2. \A i \in 1 .. k : b[i].is \in Names
    <3>1. \A i \in 1 .. k : b[i] \in Units
      BY <1>2, <2>1
    <3> QED BY <3>1 DEF Units
  <2>3. \A i \in 1 .. k : tolower(b[i].is) \in Names \cup {x}
    BY <2>2 DEF tolower
  <2>4. names \in [1 .. k -> Names \cup {x}]
    BY <2>1, <2>3
  <2>5. names \in Seq(Names \cup {x}) /\ Len(names) = k
    <3> HIDE DEF names
    <3> QED BY <2>1, <2>4
  <2> QED BY <2>1, <2>5
<1>4. LengthAt(b) = buffer_find(names, <<x>>)
  BY DEF LengthAt, buffer_find_insensitive, tolower
<1> HIDE DEF names
<1>5. S = {i \in 0 .. k - 1 : names[i + 1] = x}
  BY <1>3, PlacesOfOne
<1> HIDE DEF S
<1>6. ASSUME NEW i \in S PROVE i = 2 * n - 2 /\ b[2 * n - 1].of = length
  <2>1. i \in 0 .. k - 1 /\ i + 1 \in 1 .. k /\ tolower(b[i + 1].is) = x /\ b[i + 1] = a[i + 1]
    BY <1>2, <1>3, <1>5
  <2>2. a[i + 1].is \in LengthNames
    BY <2>1 DEF tolower, LengthNames
  <2>3. CRLF.is \notin LengthNames
    BY DEF CRLF, Unit, LengthNames
  <2>4. CASE i + 1 > 2 * n + 1
    <3>1. i - 2 * n \in 1 .. Len(body) /\ 2 * n + 1 + (i - 2 * n) = i + 1
      BY <1>1, <2>1, <2>4
    <3>2. a[i + 1] = body[i - 2 * n]
      BY <1>1, <3>1
    <3>3. body[i - 2 * n] \in BodyUnits
      BY <3>1
    <3> QED BY <2>2, <3>2, <3>3 DEF BodyUnits
  <2>5. CASE i + 1 = 2 * n + 1
    BY <1>1, <2>2, <2>3, <2>5
  <2>6. CASE i + 1 <= 2 * n
    <3>1. PICK q \in Nat : i = 2 * q \/ i = 2 * q + 1
      <4>1. i \div 2 \in Nat /\ (i = 2 * (i \div 2) \/ i = 2 * (i \div 2) + 1)
        BY <2>1
      <4> QED BY <4>1
    <3>2. q + 1 \in 1 .. n
      BY <1>1, <2>6, <3>1
    <3>3. i # 2 * q + 1
      <4>1. i = 2 * q + 1 => i + 1 = 2 * (q + 1)
        BY <3>1
      <4>2. i = 2 * q + 1 => a[i + 1] = CRLF
        BY <1>1, <3>2, <4>1
      <4> QED BY <2>2, <2>3, <4>2
    <3>4. i = 2 * q /\ i + 1 = 2 * (q + 1) - 1
      BY <3>1, <3>3
    <3>5. a[i + 1] = h[q + 1]
      BY <1>1, <3>2, <3>4
    <3>6. q + 1 = n /\ h[q + 1].of = length
      BY <2>2, <3>2, <3>5 DEF HeaderOK
    <3> QED BY <1>1, <2>1, <3>4, <3>5, <3>6
  <2>7. i + 1 > 2 * n + 1 \/ i + 1 = 2 * n + 1 \/ i + 1 <= 2 * n
    <3> HIDE DEF n
    <3> QED BY <1>1, <2>1
  <2> QED BY <2>4, <2>5, <2>6, <2>7
<1>7. S # {}
  <2>1. buffer_find(names, <<x>>) >= 0
    BY <1>4 DEF b
  <2> QED BY <2>1, FindNone DEF S
<1>8. PICK i \in S : TRUE
  BY <1>7
<1>9. i = 2 * n - 2 /\ i \in Int /\ \A j \in S : j \in Int /\ i <= j
  BY <1>1, <1>6
<1>10. buffer_find(names, <<x>>) = i
  BY <1>9, FindFirst DEF S
<1> QED BY <1>4, <1>6, <1>9, <1>10 DEF b

\* A text whose header gives the length of its body, or no length, is framed.
LEMMA TextFramed ==
  ASSUME NEW a, NEW h, NEW body, TextOf(a, h, body), HeaderOK(h, Len(body)),
         body \in Seq(BodyUnits), Len(a) < SizeT
  PROVE  Framed(a)
<1> SUFFICES ASSUME NEW k \in 0 .. Len(a), HeaderEnd(Beginning(a, k)) >= 0,
                    LengthAt(Beginning(a, k)) >= 0
             PROVE  HeaderEnd(Beginning(a, k)) + 2
                    + Beginning(a, k)[LengthAt(Beginning(a, k)) + 1].of
                    \in Len(a) .. SizeT - 1
  BY DEF Framed
<1>1. /\ Len(h) \in Nat /\ Len(h) >= 1 /\ Len(body) \in Nat /\ SizeT \in Nat
      /\ Len(a) = 2 * Len(h) + 1 + Len(body)
      /\ \A j \in 1 .. Len(h) : h[j] # CRLF
  BY SizeTAssumption DEF TextOf, HeaderOK
<1>2. HeaderEnd(Beginning(a, k)) = 2 * Len(h) - 1
  BY <1>1, HeaderEndOf
<1>3. LengthAt(Beginning(a, k)) = 2 * Len(h) - 2
      /\ Beginning(a, k)[2 * Len(h) - 1].of = Len(body)
  BY LengthAtOf
<1>4. LengthAt(Beginning(a, k)) + 1 = 2 * Len(h) - 1
  BY <1>1, <1>3
<1>5. Beginning(a, k)[LengthAt(Beginning(a, k)) + 1].of = Len(body)
  BY <1>3, <1>4
<1> QED BY <1>1, <1>2, <1>5
-----------------------------------------------------------------------------
(* What the server answers.                                                 *)

Frame(body, framing) == IF framing = "close" THEN <<>> ELSE <<Unit(framing, Len(body))>>
StatusLine == <<Unit("status", NULL)>>

\* The answer is the text of a header that is in order.
Answer(a, lines, body, framing) ==
  \E h : /\ TextOf(a, h, body) /\ HeaderOK(h, Len(body))
         /\ Len(h) = Len(StatusLine) + Len(lines) + Len(Frame(body, framing))
         /\ \A i \in 1 .. Len(lines) : h[Len(StatusLine) + i] = lines[i]

LEMMA ResponseShape ==
  ASSUME NEW lines \in Seq(LineUnits), NEW body \in Seq(BodyUnits), NEW framing \in Framings
  PROVE  Answer(Response(lines, body, framing), lines, body, framing)
<1> DEFINE s == StatusLine
           f == Frame(body, framing)
           g == s \o lines
           h == g \o f
<1>1. LineUnits \subseteq Units /\ BodyUnits \subseteq Units /\ LineUnits \subseteq BodyUnits
  BY DEF LineUnits, BodyUnits
<1>2. /\ lines \in Seq(Units) /\ body \in Seq(Units) /\ Len(body) \in Nat /\ Len(lines) \in Nat
  <2>1. \A i \in 1 .. Len(lines) : lines[i] \in Units
    BY <1>1
  <2>2. \A i \in 1 .. Len(body) : body[i] \in Units
    BY <1>1
  <2> QED BY <2>1, <2>2, SeqDef
<1>3. /\ s \in Seq(Units) /\ Len(s) = 1 /\ s[1] \in LineUnits
  <2>1. "status" \in Names /\ NULL \in Nat
    BY DEF Names, NULL
  <2>2. Unit("status", NULL) \in Units
    BY <2>1 DEF Unit, Units
  <2>3. Unit("status", NULL) \in LineUnits
    BY <2>2 DEF Unit, LineUnits, BodyUnits, LengthNames
  <2> QED BY <2>2, <2>3 DEF StatusLine
<1>4. /\ f \in Seq(Units) /\ Len(f) \in 0 .. 1
      /\ \A i \in 1 .. Len(f) : f[i] # CRLF /\ f[i].of = Len(body)
  <2>1. CASE framing = "close"
    BY <2>1 DEF Frame
  <2>2. CASE framing # "close"
    <3>1. framing \in Names /\ framing # "crlf"
      BY DEF Framings, Names
    <3>2. /\ Unit(framing, Len(body)) \in Units /\ Unit(framing, Len(body)) # CRLF
          /\ Unit(framing, Len(body)).of = Len(body)
      BY <1>2, <3>1 DEF Unit, Units, CRLF
    <3>3. f = <<Unit(framing, Len(body))>>
      BY <2>2 DEF Frame
    <3> QED BY <3>2, <3>3
  <2> QED BY <2>1, <2>2
<1> HIDE DEF s, f
<1>5. IsJoint(g, s, lines, Units)
  BY <1>2, <1>3, Joint
<1> HIDE DEF g
<1>6. g \in Seq(Units)
  BY <1>5 DEF IsJoint
<1>7. IsJoint(h, g, f, Units)
  BY <1>4, <1>6, Joint
<1> HIDE DEF h
<1>8. /\ Len(g) = 1 + Len(lines) /\ \A i \in 1 .. Len(g) : g[i] \in LineUnits
      /\ \A i \in 1 .. Len(lines) : g[1 + i] = lines[i]
  <2>1. Len(g) = 1 + Len(lines) /\ g[1] = s[1] /\ \A i \in 1 .. Len(lines) : g[1 + i] = lines[i]
    BY <1>2, <1>3, <1>5 DEF IsJoint
  <2>2. ASSUME NEW i \in 1 .. Len(g), i # 1 PROVE g[i] \in LineUnits
    <3>1. i - 1 \in 1 .. Len(lines) /\ 1 + (i - 1) = i
      BY <1>2, <2>1, <2>2
    <3>2. lines[i - 1] \in LineUnits
      BY <3>1
    <3> QED BY <2>1, <3>1, <3>2
  <2> QED BY <1>3, <2>1, <2>2
<1>9. /\ h \in Seq(Units) /\ Len(h) = 1 + Len(lines) + Len(f)
      /\ \A i \in 1 .. Len(g) : h[i] = g[i]
      /\ \A i \in 1 .. Len(f) : h[Len(g) + i] = f[i]
  BY <1>7, <1>8 DEF IsJoint
<1>10. HeaderOK(h, Len(body))
  <2>1. Len(h) >= 1
    BY <1>2, <1>4, <1>9
  <2>2. ASSUME NEW j \in 1 .. Len(h)
        PROVE  h[j] # CRLF /\ (h[j].is \in LengthNames => j = Len(h) /\ h[j].of = Len(body))
    <3>1. CASE j \in 1 .. Len(g)
      <4>1. h[j] \in LineUnits
        BY <1>8, <1>9, <3>1
      <4>2. h[j] # CRLF
        BY <4>1 DEF LineUnits, CRLF, Unit
      <4> QED BY <4>1, <4>2 DEF LineUnits, BodyUnits
    <3>2. CASE j \notin 1 .. Len(g)
      <4>1. Len(f) = 1 /\ j = Len(g) + 1 /\ j = Len(h)
        BY <1>2, <1>4, <1>8, <1>9, <3>2
      <4>2. h[j] = f[1]
        BY <1>9, <4>1
      <4> QED BY <1>4, <4>1, <4>2
    <3> QED BY <3>1, <3>2
  <2> QED BY <1>9, <2>1, <2>2 DEF HeaderOK
<1>11. \A i \in 1 .. Len(lines) : h[Len(StatusLine) + i] = lines[i]
  <2>1. \A i \in 1 .. Len(lines) : 1 + i \in 1 .. Len(g)
    BY <1>2, <1>8
  <2> QED BY <1>3, <1>8, <1>9, <2>1 DEF s
<1>12. TextOf(compute_message(h) \o <<CRLF>> \o body, h, body)
  BY <1>2, <1>9, MessageShape
<1>13. Response(lines, body, framing) = compute_message(h) \o <<CRLF>> \o body
  BY DEF Response, h, g, s, f, Frame, StatusLine
<1>14. Len(h) = Len(StatusLine) + Len(lines) + Len(Frame(body, framing))
  BY <1>3, <1>9 DEF s, f
<1> QED BY <1>10, <1>11, <1>12, <1>13, <1>14 DEF Answer

\* An answer of this server, for a body of two units and at most one line.
LEMMA ResponseFramed ==
  ASSUME NEW lines \in Seq(LineUnits), NEW body \in Seq(BodyUnits), NEW framing \in Framings,
         Len(lines) <= 1, Len(body) = 2
  PROVE  /\ Framed(Response(lines, body, framing))
         /\ Response(lines, body, framing) \in Seq(Units)
         /\ Len(Response(lines, body, framing)) \in 5 .. SizeT - 1
<1> DEFINE a == Response(lines, body, framing)
<1>1. Answer(a, lines, body, framing)
  BY ResponseShape
<1> HIDE DEF a
<1>2. PICK h : /\ TextOf(a, h, body) /\ HeaderOK(h, Len(body))
               /\ Len(h) = Len(StatusLine) + Len(lines) + Len(Frame(body, framing))
  BY <1>1 DEF Answer
<1>3. Len(lines) \in Nat /\ Len(StatusLine) = 1 /\ Len(Frame(body, framing)) \in 0 .. 1
      /\ SizeT \in Nat /\ SizeT > 9
  BY SizeTAssumption, RestAssumption DEF StatusLine, Frame
<1>4. a \in Seq(Units) /\ Len(a) = 2 * Len(h) + 1 + 2
  BY <1>2 DEF TextOf
<1> DEFINE n == Len(h)
           f == Len(Frame(body, framing))
           l == Len(lines)
           s == Len(StatusLine)
           t == Len(a)
<1>5. t \in 5 .. SizeT - 1 /\ t < SizeT
  <2>1. n = s + l + f /\ s = 1 /\ l \in Nat /\ l <= 1 /\ f \in 0 .. 1 /\ t = 2 * n + 1 + 2
    BY <1>2, <1>3, <1>4
  <2> HIDE DEF n, f, l, s, t
  <2>2. n \in 1 .. 3
    BY <2>1
  <2> QED BY <1>3, <2>1, <2>2
<1>6. Framed(a)
  BY <1>2, <1>5, TextFramed
<1> QED BY <1>4, <1>5, <1>6 DEF a

\* A beginning of a framed answer is framed: no reader of it stops short.
LEMMA BeginningFramed ==
  ASSUME NEW a \in Seq(Units), NEW m \in 0 .. Len(a), Framed(a)
  PROVE  /\ Framed(Beginning(a, m)) /\ Beginning(a, m) \in Seq(Units)
         /\ Len(Beginning(a, m)) = m
         /\ \A k \in 0 .. m : Beginning(Beginning(a, m), k) = Beginning(a, k)
<1> DEFINE b == Beginning(a, m)
<1>1. b \in Seq(Units) /\ Len(b) = m /\ Len(a) \in Nat /\ \A i \in 1 .. m : b[i] = a[i]
  BY BeginningFacts
<1> HIDE DEF b
<1>2. ASSUME NEW k \in 0 .. m PROVE Beginning(b, k) = Beginning(a, k)
  <2>0. k \in 0 .. Len(b) /\ k \in 0 .. Len(a) /\ \A i \in 1 .. k : i \in 1 .. m
    BY <1>1
  <2>1. Beginning(b, k) \in Seq(Units) /\ Len(Beginning(b, k)) = k
        /\ \A i \in 1 .. k : Beginning(b, k)[i] = b[i]
    BY <1>1, <2>0, BeginningFacts
  <2>2. Beginning(a, k) \in Seq(Units) /\ Len(Beginning(a, k)) = k
        /\ \A i \in 1 .. k : Beginning(a, k)[i] = a[i]
    BY <1>1, <2>0, BeginningFacts
  <2> QED BY <1>1, <2>0, <2>1, <2>2, SeqEqual
<1>3. ASSUME NEW k \in 0 .. m, HeaderEnd(Beginning(b, k)) >= 0, LengthAt(Beginning(b, k)) >= 0
      PROVE  HeaderEnd(Beginning(b, k)) + 2
             + Beginning(b, k)[LengthAt(Beginning(b, k)) + 1].of \in m .. SizeT - 1
  <2>1. k \in 0 .. Len(a)
    BY <1>1
  <2>2. HeaderEnd(Beginning(a, k)) + 2
        + Beginning(a, k)[LengthAt(Beginning(a, k)) + 1].of \in Len(a) .. SizeT - 1
    BY <1>2, <1>3, <2>1 DEF Framed
  <2>3. Len(a) .. SizeT - 1 \subseteq m .. SizeT - 1
    BY <1>1
  <2> QED BY <1>2, <2>2, <2>3
<1>4. Framed(b)
  BY <1>1, <1>3 DEF Framed
<1> QED BY <1>1, <1>2, <1>4 DEF b
-----------------------------------------------------------------------------
(* The reader's loops.                                                      *)

\* What the loops know when they stop: the connection is at its end, or the
\* length they wait for is that of the answer.
Awaits == \/ closed /\ Len(buffer) = Len(answer)
          \/ Len(buffer) > 0 /\ content_length + header_end \in Len(answer) .. SizeT - 1

FramedInv ==
  /\ answer \in Seq(Units) /\ Len(answer) < SizeT /\ Framed(answer)
  /\ Len(buffer) \in 0 .. Len(answer) /\ buffer = Beginning(answer, Len(buffer))
  /\ closed \in BOOLEAN /\ stage \in {"none", "sending", "headers", "body", "received"}
  /\ header_end \in -1 .. Len(buffer) /\ content_length \in Nat
  /\ stage \in {"none", "sending"} => buffer = <<>>
  /\ stage \in {"none", "sending", "headers"} => content_length = 0
  /\ stage = "body" => Awaits
  /\ stage = "received" => Len(buffer) = Len(answer) /\ (closed \/ answer # <<>>)

LEMMA NothingFramed ==
  /\ <<>> \in Seq(Units) /\ Len(<<>>) = 0 /\ Len(<<>>) < SizeT /\ Framed(<<>>)
  /\ <<>> = Beginning(<<>>, 0)
<1>1. Len(<<>>) = 0 /\ <<>> \in Seq(Units) /\ SizeT \in Nat \ {0}
  BY SizeTAssumption
<1>2. Beginning(<<>>, 0) = <<>>
  BY DEF Beginning
<1>3. ASSUME NEW k \in 0 .. Len(<<>>) PROVE ~(HeaderEnd(Beginning(<<>>, k)) >= 0)
  <2>1. k = 0 /\ Beginning(<<>>, k) = <<>>
    BY <1>1, <1>2, <1>3
  <2>2. Places(<<>>, <<CRLF, CRLF>>) = {}
    <3>1. Len(<<CRLF, CRLF>>) = 2
      OBVIOUS
    <3>2. 0 .. Len(<<>>) - Len(<<CRLF, CRLF>>) = {}
      BY <1>1, <3>1
    <3> QED BY <3>2 DEF Places
  <2>3. ASSUME HeaderEnd(<<>>) >= 0 PROVE FALSE
    <3>1. buffer_find(<<>>, <<CRLF, CRLF>>) >= 0
      BY <2>3 DEF HeaderEnd
    <3> QED BY <2>2, <3>1, FindNone
  <2> QED BY <2>1, <2>3
<1>4. Framed(<<>>)
  BY <1>3 DEF Framed
<1> QED BY <1>1, <1>2, <1>4

\* A connection that is opened or closed has read nothing.
LEMMA FreshFramed ==
  ASSUME answer' = <<>>, buffer' = <<>>, closed' = FALSE, header_end' = 0,
         content_length' = 0, stage' \in {"none", "sending"}
  PROVE  FramedInv'
<1>1. Len(buffer') = 0 /\ Len(answer') = 0
  BY NothingFramed
<1>2. buffer' = Beginning(answer', Len(buffer'))
  BY <1>1, NothingFramed
<1>3. answer' \in Seq(Units) /\ Len(answer') < SizeT
  BY NothingFramed
<1>4. Framed(answer')
  BY NothingFramed
<1>5. Len(buffer') \in 0 .. Len(answer') /\ header_end' \in -1 .. Len(buffer')
      /\ content_length' \in Nat
  BY <1>1
<1>6. /\ stage' # "headers" /\ stage' # "body" /\ stage' # "received"
      /\ stage' \in {"none", "sending", "headers", "body", "received"}
  OBVIOUS
<1> HIDE DEF Awaits
<1> QED BY <1>2, <1>3, <1>4, <1>5, <1>6 DEF FramedInv

\* Reading goes on to a longer beginning of the answer.
LEMMA ReadMore ==
  ASSUME FramedInv, NEW segment \in Segments
  PROVE  \E k \in Len(buffer) + 1 .. Len(answer) : buffer \o segment = Beginning(answer, k)
<1>1. PICK k \in Len(buffer) + 1 .. Len(answer) : segment = SubSeq(answer, Len(buffer) + 1, k)
  BY DEF Segments
<1>2. /\ answer \in Seq(Units) /\ Len(answer) \in Nat /\ Len(buffer) \in 0 .. Len(answer)
      /\ buffer = SubSeq(answer, 1, Len(buffer))
  BY DEF FramedInv, Beginning
<1> DEFINE n == Len(buffer)
<1>3. SubSeq(answer, 1, n) \o SubSeq(answer, n + 1, k) = SubSeq(answer, 1, k)
  <2> HIDE DEF n
  <2>1. 1 \in 1 .. Len(answer) + 1 /\ n \in 1 - 1 .. Len(answer) /\ k \in n .. Len(answer)
    BY <1>1, <1>2 DEF n
  <2> QED BY <1>2, <2>1, ConcatAdjacentSubSeq
<1>4. buffer \o segment = Beginning(answer, k)
  BY <1>1, <1>2, <1>3 DEF Beginning
<1> QED BY <1>4

LEMMA ReadHeadersFramed ==
  ASSUME FramedInv, ReadHeaders PROVE FramedInv'
<1>1. PICK segment \in Segments :
        LET data == buffer \o segment
            end == buffer_find(data, <<CRLF, CRLF>>)
            length == buffer_find_insensitive(data, "Content-Length")
        IN  /\ buffer' = data
            /\ header_end' = IF end >= 0 THEN end + 2 ELSE -1
            /\ IF end >= 0 /\ length >= 0
               THEN /\ content_length' = data[length + 1].of
                    /\ stage' = "body"
               ELSE UNCHANGED <<content_length, stage>>
  BY DEF ReadHeaders
<1>2. PICK k \in Len(buffer) + 1 .. Len(answer) : buffer \o segment = Beginning(answer, k)
  BY ReadMore
<1> DEFINE data == Beginning(answer, k)
           end == HeaderEnd(data)
           length == LengthAt(data)
<1>3. /\ buffer' = data
      /\ header_end' = IF end >= 0 THEN end + 2 ELSE -1
      /\ IF end >= 0 /\ length >= 0
         THEN /\ content_length' = data[length + 1].of
              /\ stage' = "body"
         ELSE UNCHANGED <<content_length, stage>>
  BY <1>1, <1>2 DEF HeaderEnd, LengthAt
<1>4. /\ answer \in Seq(Units) /\ Len(answer) \in Nat /\ Len(buffer) \in 0 .. Len(answer)
      /\ Framed(answer) /\ k \in 0 .. Len(answer) /\ k > 0 /\ stage = "headers"
      /\ content_length = 0 /\ UNCHANGED <<answer, closed>>
  BY <1>2 DEF FramedInv, ReadHeaders
<1>5. data \in Seq(Units) /\ Len(data) = k /\ \A i \in 1 .. k : data[i] = answer[i]
  BY <1>4, BeginningFacts
<1>6. end >= 0 => end \in 0 .. k - 2
  <2> HIDE DEF data
  <2>1. Places(data, <<CRLF, CRLF>>) \subseteq 0 .. k - 2
    BY <1>5, LineEnd, PlacesOfTwo
  <2>2. Places(data, <<CRLF, CRLF>>) \subseteq Nat
    BY <2>1
  <2> QED BY <2>1, <2>2, FindIn DEF HeaderEnd
<1>7. ASSUME end >= 0, length >= 0
      PROVE  end + 2 + data[length + 1].of \in Len(answer) .. SizeT - 1
  BY <1>4, <1>7 DEF Framed
<1>8. ASSUME end >= 0, length >= 0
      PROVE  data[length + 1].of \in Nat
  <2> HIDE DEF data
  <2>1. length + 1 \in 1 .. k
    <3> DEFINE names == [i \in DOMAIN data |-> tolower(data[i].is)]
               x == "content-length"
               S == Places(names, <<x>>)
    <3>1. DOMAIN data = 1 .. k /\ k \in Nat
      BY <1>4, <1>5
    <3>2. names \in [1 .. k -> Names \cup {x}]
      <4>1. \A i \in 1 .. k : data[i] \in Units
        BY <1>5, <3>1
      <4>2. \A i \in 1 .. k : data[i].is \in Names
        BY <4>1 DEF Units
      <4> QED BY <3>1, <4>2 DEF tolower
    <3> HIDE DEF names
    <3>3. names \in Seq(Names \cup {x}) /\ Len(names) = k
      BY <3>1, <3>2
    <3>4. S \subseteq 0 .. k - 1 /\ S \subseteq Nat
      BY <3>3, PlacesOfOne
    <3>5. length = buffer_find(names, <<x>>)
      BY DEF LengthAt, buffer_find_insensitive, tolower, names
    <3>6. buffer_find(names, <<x>>) \in S
      BY <1>8, <3>4, <3>5, FindIn
    <3>7. length \in 0 .. k - 1
      BY <3>4, <3>5, <3>6
    <3> HIDE DEF S, length
    <3> QED BY <3>1, <3>7
  <2>2. data[length + 1] \in Units
    BY <1>5, <2>1
  <2> QED BY <2>2 DEF Units
<1> HIDE DEF data, end, length
<1>9. /\ answer' = answer /\ closed' = closed /\ buffer' = data /\ Len(buffer') = k
      /\ buffer' = Beginning(answer', Len(buffer'))
  BY <1>3, <1>4, <1>5 DEF data
<1>10. header_end' \in -1 .. Len(buffer')
  BY <1>3, <1>4, <1>6, <1>9
<1>11. CASE end >= 0 /\ length >= 0
  <2>1. stage' = "body" /\ content_length' \in Nat /\ header_end' = end + 2
        /\ content_length' = data[length + 1].of
    BY <1>3, <1>8, <1>11
  <2>2. content_length' + header_end' \in Len(answer) .. SizeT - 1
    BY <1>6, <1>7, <1>8, <1>11, <2>1
  <2>3. Awaits'
    BY <1>4, <1>9, <2>2 DEF Awaits
  <2> QED BY <1>4, <1>9, <1>10, <2>1, <2>3 DEF FramedInv
<1>12. CASE ~(end >= 0 /\ length >= 0)
  <2>1. stage' = "headers" /\ content_length' = 0
    BY <1>3, <1>4, <1>12
  <2> QED BY <1>4, <1>9, <1>10, <2>1 DEF FramedInv
<1> QED BY <1>11, <1>12

LEMMA ReadBodyFramed ==
  ASSUME FramedInv, ReadBody PROVE FramedInv'
<1>1. PICK segment \in Segments : buffer' = buffer \o segment
  BY DEF ReadBody
<1>2. PICK k \in Len(buffer) + 1 .. Len(answer) : buffer \o segment = Beginning(answer, k)
  BY ReadMore
<1>3. /\ answer \in Seq(Units) /\ Len(answer) \in Nat /\ Len(buffer) \in 0 .. Len(answer)
      /\ k \in 0 .. Len(answer) /\ k > Len(buffer)
      /\ stage = "body" /\ UNCHANGED <<stage, answer, closed, header_end, content_length>>
  BY <1>2 DEF FramedInv, ReadBody
<1>4. Len(Beginning(answer, k)) = k
  BY <1>3, BeginningFacts
<1>5. /\ Len(buffer') = k /\ buffer' = Beginning(answer', k)
      /\ header_end' \in -1 .. Len(buffer')
  <2>1. buffer' = Beginning(answer, k)
    BY <1>1, <1>2
  <2>2. header_end \in -1 .. k
    BY <1>3 DEF FramedInv
  <2> QED BY <1>3, <1>4, <2>1, <2>2
<1>6. Awaits'
  <2>1. Awaits
    BY <1>3 DEF FramedInv
  <2> QED BY <1>2, <1>3, <1>5, <2>1 DEF Awaits
<1> QED BY <1>3, <1>5, <1>6 DEF FramedInv

\* When the loop stops, the end is reached.
LEMMA ReceivedFramed ==
  ASSUME FramedInv, Received PROVE FramedInv'
<1>1. /\ stage = "body" /\ stage' = "received" /\ Awaits /\ (Enough \/ EndOfFile)
      /\ UNCHANGED <<answer, closed, buffer, header_end, content_length>>
      /\ answer \in Seq(Units) /\ Len(answer) \in Nat /\ Len(buffer) \in 0 .. Len(answer)
      /\ header_end \in Int /\ content_length \in Nat /\ SizeT \in Nat \ {0}
  BY SizeTAssumption DEF FramedInv, Received
<1>2. Len(buffer) = Len(answer) /\ (closed \/ answer # <<>>)
  <2>1. CASE closed /\ Len(buffer) = Len(answer)
    BY <2>1
  <2>2. CASE EndOfFile
    BY <2>2 DEF EndOfFile
  <2>3. CASE Enough /\ Len(buffer) > 0 /\ content_length + header_end \in Len(answer) .. SizeT - 1
    <3>1. (content_length + header_end) % SizeT = content_length + header_end
      BY <1>1, <2>3
    <3>2. Len(buffer) >= Len(answer)
      BY <1>1, <2>3, <3>1 DEF Enough, Total
    <3>3. Len(buffer) = Len(answer) /\ Len(answer) > 0
      BY <1>1, <2>3, <3>2
    <3> QED BY <3>3
  <2> QED BY <1>1, <2>1, <2>2, <2>3 DEF Awaits
<1> QED BY <1>1, <1>2 DEF FramedInv

LEMMA ReceiveFramed ==
  ASSUME FramedInv, receive_from_server PROVE FramedInv'
<1>1. CASE EndInHeaders
  <2>1. /\ stage' = "body" /\ EndOfFile
        /\ UNCHANGED <<answer, closed, buffer, header_end, content_length>>
    BY <1>1 DEF EndInHeaders
  <2>2. Awaits'
    BY <2>1 DEF EndOfFile, Awaits
  <2> QED BY <2>1, <2>2 DEF FramedInv
<1> QED BY <1>1, ReadHeadersFramed, ReadBodyFramed, ReceivedFramed DEF receive_from_server

\* The server answers while the client has read nothing.
LEMMA AnswersFramed ==
  ASSUME FramedInv, NEW lines \in Seq(LineUnits), NEW body \in Seq(BodyUnits),
         Len(lines) <= 1, Len(body) = 2, Answers(lines, body)
  PROVE  FramedInv'
<1>1. PICK framing \in Framings : /\ answer' = Response(lines, body, framing)
                                  /\ closed' = (framing = "close")
  BY DEF Answers
<1>2. /\ answer = <<>> /\ ~closed
      /\ UNCHANGED <<stage, buffer, header_end, content_length>>
  BY DEF Answers, HasRequest
<1>3. answer' \in Seq(Units) /\ Framed(answer') /\ Len(answer') \in 5 .. SizeT - 1
  BY <1>1, ResponseFramed
<1>4. Len(answer) = 0 /\ Len(buffer) = 0
  <2>1. Len(answer) = 0
    BY <1>2
  <2> QED BY <2>1 DEF FramedInv
<1>5. stage \notin {"body", "received"}
  BY <1>2, <1>4 DEF FramedInv, Awaits
<1>6. buffer = <<>> /\ Beginning(answer', 0) = <<>>
  <2>1. buffer = Beginning(answer, 0) /\ Beginning(answer, 0) = <<>>
    BY <1>4 DEF FramedInv, Beginning
  <2>2. Beginning(answer', 0) = <<>>
    BY DEF Beginning
  <2> QED BY <2>1, <2>2
<1>7. Len(buffer') = 0 /\ Len(buffer') \in 0 .. Len(answer') /\ Len(answer') < SizeT
      /\ buffer' = Beginning(answer', Len(buffer'))
  <2>1. Len(buffer') = 0
    BY <1>2, <1>4
  <2>2. SizeT \in Nat
    BY SizeTAssumption
  <2>3. buffer' = Beginning(answer', Len(buffer'))
    BY <1>2, <1>6, <2>1
  <2> QED BY <1>3, <2>1, <2>2, <2>3
<1>8. closed' \in BOOLEAN
  BY <1>1
<1>9. /\ header_end' \in -1 .. Len(buffer') /\ content_length' \in Nat
      /\ stage' \in {"none", "sending", "headers"} => content_length' = 0
      /\ stage' \in {"none", "sending", "headers", "body", "received"}
  BY <1>2 DEF FramedInv
<1> QED BY <1>2, <1>3, <1>5, <1>6, <1>7, <1>8, <1>9 DEF FramedInv

\* What the server does not send any more is no part of the answer.
LEMMA BreaksFramed ==
  ASSUME FramedInv, BreaksOff PROVE FramedInv'
<1>1. PICK k \in Len(buffer) .. Len(answer) : answer' = Beginning(answer, k)
  BY DEF BreaksOff, Beginning
<1>2. /\ closed' = TRUE /\ ~closed /\ stage \notin {"none", "received"}
      /\ UNCHANGED <<stage, buffer, header_end, content_length>>
  BY DEF BreaksOff
<1>3. /\ answer \in Seq(Units) /\ Len(answer) \in Nat /\ Len(buffer) \in 0 .. Len(answer)
      /\ Framed(answer) /\ k \in 0 .. Len(answer) /\ Len(answer) < SizeT /\ SizeT \in Nat
      /\ buffer = Beginning(answer, Len(buffer))
  BY <1>1, SizeTAssumption DEF FramedInv
<1>4. /\ Framed(answer') /\ answer' \in Seq(Units) /\ Len(answer') = k
      /\ \A j \in 0 .. k : Beginning(answer', j) = Beginning(answer, j)
  BY <1>1, <1>3, BeginningFramed
<1>5. Len(answer') < SizeT /\ Len(buffer') \in 0 .. Len(answer') /\ Len(buffer') = Len(buffer)
  BY <1>1, <1>2, <1>3, <1>4
<1>6. buffer' = Beginning(answer', Len(buffer'))
  BY <1>2, <1>3, <1>4, <1>5
<1>7. /\ closed' \in BOOLEAN /\ stage' \in {"none", "sending", "headers", "body", "received"}
      /\ header_end' \in -1 .. Len(buffer') /\ content_length' \in Nat
      /\ stage' \in {"none", "sending"} => buffer' = <<>>
      /\ stage' \in {"none", "sending", "headers"} => content_length' = 0
  BY <1>2 DEF FramedInv
<1>8. stage' = "body" => Awaits'
  <2> SUFFICES ASSUME stage = "body" PROVE Awaits'
    BY <1>2
  <2>1. Len(buffer) > 0 /\ content_length + header_end \in Len(answer) .. SizeT - 1
    BY <1>2 DEF FramedInv, Awaits
  <2>2. content_length + header_end \in k .. SizeT - 1
    BY <1>3, <2>1
  <2> QED BY <1>2, <1>4, <2>1, <2>2 DEF Awaits
<1> QED BY <1>2, <1>4, <1>5, <1>6, <1>7, <1>8 DEF FramedInv

LEMMA RepliesFramed ==
  ASSUME FramedInv, started \in Nat, sessions \subseteq Nat, Replies PROVE FramedInv'
<1>1. /\ Failure \in Seq(BodyUnits) /\ Success \in Seq(BodyUnits)
      /\ Len(Failure) = 2 /\ Len(Success) = 2
      /\ <<>> \in Seq(LineUnits) /\ Len(<<>>) <= 1
  <2>1. NULL \in Nat /\ {"error", "reason", "open", "close"} \subseteq Names
    BY DEF NULL, Names
  <2>2. /\ Unit("error", NULL) \in BodyUnits /\ Unit("reason", NULL) \in BodyUnits
        /\ Unit("open", NULL) \in BodyUnits /\ Unit("close", NULL) \in BodyUnits
    BY <2>1 DEF BodyUnits, Units, Unit, LengthNames
  <2> QED BY <2>2 DEF Failure, Success
<1>2. CASE Refuses \/ Serves \/ EndsSession
  BY <1>1, <1>2, AnswersFramed DEF Refuses, Serves, EndsSession
<1>3. CASE StartsSession
  <2> DEFINE lines == <<Unit("Set-Cookie", started')>>
  <2>1. Answers(lines, Success) /\ started' \in Nat
    <3>1. Answers(lines, Success)
      BY <1>3, Zenon DEF StartsSession
    <3>2. started' = started + 1
      BY <1>3 DEF StartsSession
    <3> QED BY <3>1, <3>2
  <2>2. "Set-Cookie" \in Names
    BY DEF Names
  <2>3. Unit("Set-Cookie", started') \in LineUnits
    BY <2>1, <2>2 DEF LineUnits, BodyUnits, Units, Unit, LengthNames
  <2>4. lines \in Seq(LineUnits) /\ Len(lines) <= 1
    BY <2>3
  <2> HIDE DEF lines
  <2> QED BY <1>1, <2>1, <2>4, AnswersFramed
<1>4. CASE GivesAccess
  <2> DEFINE body == <<Unit("token", Field("Cookie")), Unit("close", NULL)>>
  <2>1. Answers(<<>>, body) /\ Field("Cookie") \in Nat
    BY <1>4 DEF GivesAccess
  <2>2. "token" \in Names /\ "close" \in Names /\ NULL \in Nat
    BY DEF Names, NULL
  <2>3. Unit("token", Field("Cookie")) \in BodyUnits /\ Unit("close", NULL) \in BodyUnits
    BY <2>1, <2>2 DEF BodyUnits, Units, Unit, LengthNames
  <2>4. body \in Seq(BodyUnits) /\ Len(body) = 2
    BY <2>3
  <2> HIDE DEF body
  <2> QED BY <1>1, <2>1, <2>4, AnswersFramed
<1> QED BY <1>2, <1>3, <1>4 DEF Replies

LEMMA NextFramed ==
  FramedInv /\ RestInv /\ [Next]_vars => FramedInv'
<1> SUFFICES ASSUME FramedInv, RestInv, [Next]_vars PROVE FramedInv'
  OBVIOUS
<1>1. CASE UNCHANGED vars
  BY <1>1 DEF vars, httpVars, FramedInv, Awaits
<1>2. CASE Starts
  <2>1. CASE exit
    BY <2>1 DEF exit, httpVars, FramedInv, Awaits
  <2>2. CASE ~exit
    <3>1. \E name, request : Command(name, request)
      BY <1>2, <2>2 DEF Starts, register, login, enter_library, get_books, get_book,
                        add_book, del_book, logout
    <3> QED BY <3>1, FreshFramed DEF Command, open_connection
  <2> QED BY <2>1, <2>2
<1>3. CASE send_to_server
  <2>1. /\ stage = "sending" /\ stage' \in {"sending", "headers"}
        /\ UNCHANGED <<answer, closed, buffer, header_end, content_length>>
    BY <1>3 DEF send_to_server
  <2> QED BY <2>1 DEF FramedInv
<1>4. CASE receive_from_server
  BY <1>4, ReceiveFramed
<1>5. CASE Finishes \/ ErrorExit
  <2>1. close_connection
    BY <1>5 DEF Finishes, ShowEnds, LoginEnds, EnterLibraryEnds, LogoutEnds, Ends, ErrorExit
  <2> QED BY <2>1, FreshFramed DEF close_connection
<1>6. CASE Replies
  BY <1>6, RepliesFramed DEF RestInv
<1>7. CASE Breaks
  BY <1>7, BreaksFramed DEF Breaks
<1> QED BY <1>1, <1>2, <1>3, <1>4, <1>5, <1>6, <1>7 DEF Next, Works
-----------------------------------------------------------------------------
(* Requests and answers, read by the two sides.                             *)

\* A request that begins with url, and one whose cookie comes before its end.
Opens(request, url) == Len(request) >= 1 /\ request[1].is = url
ShowsCookie(request) ==
  \E i \in 1 .. Len(request) :
    /\ request[i].is = "Cookie"
    /\ \A k \in 0 .. Len(request) : HeaderEnd(Beginning(request, k)) >= 0 => i <= k

LEMMA OptionalUnits ==
  ASSUME NEW cookies \in Nat, NEW token \in Nat
  PROVE  /\ CookieLine(cookies) \in Seq(Units) /\ TokenLine(token) \in Seq(Units)
         /\ \A i \in 1 .. Len(CookieLine(cookies)) : CookieLine(cookies)[i] # CRLF
         /\ \A i \in 1 .. Len(TokenLine(token)) : TokenLine(token)[i] # CRLF
<1>1. /\ Unit("Cookie", cookies) \in Units /\ Unit("Authorization", token) \in Units
      /\ Unit("Cookie", cookies) # CRLF /\ Unit("Authorization", token) # CRLF
  BY DEF Unit, Units, Names, CRLF
<1> QED BY <1>1 DEF CookieLine, TokenLine

\* The lines of a request: the first ones, then those that are optional.
LEMMA RequestLines ==
  ASSUME NEW first \in Seq(Units), Len(first) >= 1, \A i \in 1 .. Len(first) : first[i] # CRLF,
         NEW cookies \in Nat, NEW token \in Nat, NEW body \in Seq(Units)
  PROVE  LET request == compute_message(first \o CookieLine(cookies) \o TokenLine(token))
                        \o <<CRLF>> \o body
         IN  /\ Opens(request, first[1].is)
             /\ cookies # NULL => ShowsCookie(request)
<1> DEFINE c == CookieLine(cookies)
           t == TokenLine(token)
           g == first \o c
           h == g \o t
           a == compute_message(h) \o <<CRLF>> \o body
<1>1. /\ c \in Seq(Units) /\ t \in Seq(Units)
      /\ \A i \in 1 .. Len(c) : c[i] # CRLF
      /\ \A i \in 1 .. Len(t) : t[i] # CRLF
      /\ Len(c) \in Nat /\ Len(t) \in Nat /\ Len(first) \in Nat
  <2>1. /\ c \in Seq(Units) /\ t \in Seq(Units)
        /\ \A i \in 1 .. Len(c) : c[i] # CRLF
        /\ \A i \in 1 .. Len(t) : t[i] # CRLF
    BY OptionalUnits
  <2> HIDE DEF c, t
  <2> QED BY <2>1
<1>2. cookies # NULL => Len(c) = 1 /\ c[1].is = "Cookie"
  BY DEF CookieLine, Unit
<1> HIDE DEF c, t
<1>3. IsJoint(g, first, c, Units)
  BY <1>1, Joint
<1> HIDE DEF g
<1>4. /\ g \in Seq(Units) /\ Len(g) = Len(first) + Len(c)
      /\ \A i \in 1 .. Len(first) : g[i] = first[i]
      /\ \A i \in 1 .. Len(c) : g[Len(first) + i] = c[i]
  BY <1>3 DEF IsJoint
<1>5. IsJoint(h, g, t, Units)
  BY <1>1, <1>4, Joint
<1> HIDE DEF h
<1>6. /\ h \in Seq(Units) /\ Len(h) = Len(g) + Len(t)
      /\ \A i \in 1 .. Len(g) : h[i] = g[i]
      /\ \A i \in 1 .. Len(t) : h[Len(g) + i] = t[i]
  BY <1>5 DEF IsJoint
<1>7. \A j \in 1 .. Len(g) : g[j] # CRLF
  <2> SUFFICES ASSUME NEW j \in 1 .. Len(g) PROVE g[j] # CRLF
    OBVIOUS
  <2>1. CASE j \in 1 .. Len(first)
    BY <1>4, <2>1
  <2>2. CASE j \notin 1 .. Len(first)
    <3>1. j - Len(first) \in 1 .. Len(c) /\ Len(first) + (j - Len(first)) = j
      BY <1>1, <1>4, <2>2
    <3> QED BY <1>1, <1>4, <3>1
  <2> QED BY <2>1, <2>2
<1>8. \A j \in 1 .. Len(h) : h[j] # CRLF
  <2> SUFFICES ASSUME NEW j \in 1 .. Len(h) PROVE h[j] # CRLF
    OBVIOUS
  <2>1. CASE j \in 1 .. Len(g)
    BY <1>6, <1>7, <2>1
  <2>2. CASE j \notin 1 .. Len(g)
    <3>1. j - Len(g) \in 1 .. Len(t) /\ Len(g) + (j - Len(g)) = j
      BY <1>1, <1>4, <1>6, <2>2
    <3> QED BY <1>1, <1>6, <3>1
  <2> QED BY <2>1, <2>2
<1>9. TextOf(a, h, body)
  BY <1>6, MessageShape
<1> HIDE DEF a
<1>10. /\ a \in Seq(Units) /\ Len(a) = 2 * Len(h) + 1 + Len(body) /\ Len(body) \in Nat
       /\ \A j \in 1 .. Len(h) : a[2 * j - 1] = h[j] /\ a[2 * j] = CRLF
  BY <1>9 DEF TextOf
<1>11. Len(h) \in Nat /\ Len(h) >= 1 /\ Len(g) \in 1 .. Len(h)
  BY <1>1, <1>4, <1>6
<1>12. Opens(a, first[1].is)
  <2>1. 1 \in 1 .. Len(first) /\ 1 \in 1 .. Len(g) /\ 1 \in 1 .. Len(h) /\ 2 * 1 - 1 = 1
    BY <1>1, <1>4, <1>11
  <2>2. a[2 * 1 - 1] = h[1]
    BY <1>10, <2>1
  <2>3. a[1] = first[1]
    BY <1>4, <1>6, <2>1, <2>2
  <2>4. Len(a) >= 1
    BY <1>10, <1>11
  <2> QED BY <2>3, <2>4 DEF Opens
<1>13. ASSUME cookies # NULL PROVE ShowsCookie(a)
  <2> DEFINE j == Len(first) + 1
             i == 2 * j - 1
  <2>1. j \in 1 .. Len(g) /\ j \in 1 .. Len(h) /\ 1 \in 1 .. Len(c)
    <3>1. Len(c) = 1 /\ Len(g) = Len(first) + 1 /\ Len(first) \in Nat
      BY <1>1, <1>2, <1>4, <1>13
    <3> QED BY <1>11, <3>1
  <2>2. g[j] = c[1]
    BY <1>4, <2>1
  <2>3. h[j] = c[1]
    BY <1>6, <2>1, <2>2
  <2> HIDE DEF j
  <2>4. a[i] = h[j]
    BY <1>10, <2>1
  <2>5. i \in 1 .. Len(a) /\ i <= 2 * Len(h) + 1
    BY <1>10, <1>11, <2>1
  <2>6. a[i].is = "Cookie"
    BY <1>2, <1>13, <2>3, <2>4
  <2> HIDE DEF i
  <2>7. ASSUME NEW k \in 0 .. Len(a), HeaderEnd(Beginning(a, k)) >= 0 PROVE i <= k
    <3>1. k >= 2 * Len(h) + 1
      BY <1>8, <1>9, <1>11, <2>7, HeaderEndOf
    <3> QED BY <1>10, <1>11, <2>5, <3>1
  <2> QED BY <2>5, <2>6, <2>7 DEF ShowsCookie
<1> QED BY <1>12, <1>13 DEF a, h, g, c, t

LEMMA GetRequest ==
  ASSUME NEW url \in Names, url # "crlf", NEW cookies \in Nat, NEW token \in Nat
  PROVE  /\ Opens(compute_get_request(url, cookies, token), url)
         /\ Opens(compute_del_request(url, cookies, token), url)
         /\ cookies # NULL => ShowsCookie(compute_get_request(url, cookies, token))
<1> DEFINE first == <<Unit(url, NULL), Host>>
           r == compute_message(first \o CookieLine(cookies) \o TokenLine(token)) \o <<CRLF>>
<1>1. Unit(url, NULL) \in Units /\ Host \in Units /\ Unit(url, NULL) # CRLF /\ Host # CRLF
  BY DEF Unit, Units, Names, Host, CRLF, NULL
<1>2. /\ first \in Seq(Units) /\ Len(first) >= 1 /\ first[1].is = url
      /\ \A i \in 1 .. Len(first) : first[i] # CRLF
  <2>1. Unit(url, NULL).is = url
    BY DEF Unit
  <2> QED BY <1>1, <2>1
<1>3. <<>> \in Seq(Units)
  OBVIOUS
<1> HIDE DEF first
<1>4. /\ Opens(r \o <<>>, first[1].is)
      /\ cookies # NULL => ShowsCookie(r \o <<>>)
  BY <1>2, <1>3, RequestLines
<1>5. r \o <<>> = r
  <2>1. first \o CookieLine(cookies) \o TokenLine(token) \in Seq(Units)
    BY <1>2, OptionalUnits, ConcatProperties
  <2>2. compute_message(first \o CookieLine(cookies) \o TokenLine(token)) \in Seq(Units)
    BY <2>1, LineEnd, ComputeMessageType
  <2>3. <<CRLF>> \in Seq(Units)
    BY LineEnd
  <2>4. r \in Seq(Units)
    BY <2>2, <2>3, ConcatProperties
  <2> HIDE DEF r
  <2> QED BY <2>4, ConcatEmptySeq
<1>6. r = compute_get_request(url, cookies, token) /\ r = compute_del_request(url, cookies, token)
  BY DEF compute_get_request, compute_del_request, first
<1> HIDE DEF r
<1> QED BY <1>2, <1>4, <1>5, <1>6

LEMMA PostRequest ==
  ASSUME NEW url \in Names, url # "crlf", NEW token \in Nat, NEW body \in Units
  PROVE  Opens(compute_post_request(url, token, body, NULL), url)
<1> DEFINE first == <<Unit(url, NULL), Host, Unit("Content-Type", NULL),
                      Unit("Content-Length", 1)>>
           b == compute_message(<<body>>)
           r == compute_message(first \o CookieLine(NULL) \o TokenLine(token))
                \o <<CRLF>> \o b
<1>1. /\ Unit(url, NULL) \in Units /\ Host \in Units /\ Unit(url, NULL) # CRLF /\ Host # CRLF
      /\ Unit("Content-Type", NULL) \in Units /\ Unit("Content-Type", NULL) # CRLF
      /\ Unit("Content-Length", 1) \in Units /\ Unit("Content-Length", 1) # CRLF
      /\ Unit(url, NULL).is = url
  BY DEF Unit, Units, Names, Host, CRLF, NULL
<1>2. /\ first \in Seq(Units) /\ Len(first) >= 1 /\ first[1].is = url
      /\ \A i \in 1 .. Len(first) : first[i] # CRLF
  BY <1>1
<1>3. b \in Seq(Units) /\ NULL \in Nat
  <2>1. <<body>> \in Seq(Units)
    OBVIOUS
  <2> QED BY <2>1, LineEnd, ComputeMessageType DEF NULL
<1> HIDE DEF first, b
<1>4. Opens(r, first[1].is)
  BY <1>2, <1>3, RequestLines
<1>5. r = compute_post_request(url, token, body, NULL)
  BY DEF compute_post_request, first, b
<1> HIDE DEF r
<1> QED BY <1>2, <1>4, <1>5

\* The units of an answer are those of its lines and its body, and the
\* server's own; the units of its lines and its body are in it.
LEMMA ResponseOver ==
  ASSUME NEW U, CRLF \in U, Unit("status", NULL) \in U, NEW lines \in Seq(U), NEW body \in Seq(U),
         NEW framing \in Framings, framing # "close" => Unit(framing, Len(body)) \in U
  PROVE  Response(lines, body, framing) \in Seq(U)
<1> DEFINE frame == IF framing = "close" THEN <<>> ELSE <<Unit(framing, Len(body))>>
           header == <<Unit("status", NULL)>> \o lines \o frame
<1>1. /\ <<Unit("status", NULL)>> \in Seq(U) /\ <<CRLF>> \in Seq(U) /\ frame \in Seq(U)
  OBVIOUS
<1>2. header \in Seq(U)
  <2> HIDE DEF frame
  <2> QED BY <1>1, ConcatProperties
<1>3. compute_message(header) \o <<CRLF>> \o body \in Seq(U)
  <2> HIDE DEF header
  <2>1. compute_message(header) \in Seq(U)
    BY <1>2, ComputeMessageType
  <2> QED BY <1>1, <2>1, ConcatProperties
<1> QED BY <1>3 DEF Response

LEMMA ResponseHas ==
  ASSUME NEW lines \in Seq(LineUnits), NEW body \in Seq(BodyUnits), NEW framing \in Framings
  PROVE  LET a == Response(lines, body, framing)
         IN  /\ \A i \in 1 .. Len(body) : Holds(a, body[i].is)
             /\ \A i \in 1 .. Len(lines) : Holds(a, lines[i].is)
<1> DEFINE a == Response(lines, body, framing)
<1>1. Answer(a, lines, body, framing)
  BY ResponseShape
<1> HIDE DEF a
<1>2. PICK h : /\ TextOf(a, h, body)
               /\ Len(h) = Len(StatusLine) + Len(lines) + Len(Frame(body, framing))
               /\ \A i \in 1 .. Len(lines) : h[Len(StatusLine) + i] = lines[i]
  BY <1>1 DEF Answer
<1>3. Len(lines) \in Nat /\ Len(body) \in Nat /\ Len(StatusLine) = 1
      /\ Len(Frame(body, framing)) \in 0 .. 1
  BY DEF StatusLine, Frame
<1> DEFINE n == Len(h)
           f == Len(Frame(body, framing))
<1>4. n = 1 + Len(lines) + f /\ \A i \in 1 .. Len(lines) : h[1 + i] = lines[i]
  BY <1>2, <1>3
<1>5. /\ a \in Seq(Units) /\ Len(a) = 2 * n + 1 + Len(body)
      /\ \A j \in 1 .. n : a[2 * j - 1] = h[j]
      /\ \A i \in 1 .. Len(body) : a[2 * n + 1 + i] = body[i]
  BY <1>2 DEF TextOf
<1>6. f \in 0 .. 1
  BY <1>3
<1> HIDE DEF n, f
<1>7. n \in Nat /\ Len(a) \in Nat /\ DOMAIN a = 1 .. Len(a)
  BY <1>3, <1>4, <1>5, <1>6
<1>8. \A i \in 1 .. Len(body) : 2 * n + 1 + i \in DOMAIN a
  BY <1>3, <1>5, <1>7
<1>9. \A i \in 1 .. Len(body) : Holds(a, body[i].is)
  BY <1>5, <1>8 DEF Holds
<1>10. ASSUME NEW i \in 1 .. Len(lines) PROVE Holds(a, lines[i].is)
  <2>1. 1 + i \in 1 .. n /\ 2 * (1 + i) - 1 \in DOMAIN a
    BY <1>3, <1>4, <1>5, <1>6, <1>7
  <2>2. a[2 * (1 + i) - 1] = lines[i]
    BY <1>4, <1>5, <2>1
  <2> QED BY <2>1, <2>2 DEF Holds
<1> QED BY <1>9, <1>10 DEF a

\* A request that the server has is one whose beginning and header it has.
LEMMA HasRequestFacts ==
  ASSUME RestInv, HasRequest
  PROVE  /\ arrived = Beginning(message, sent) /\ message \in Seq(Units)
         /\ sent \in 0 .. Len(message) /\ Len(arrived) = sent /\ sent >= 2
         /\ \A i \in 1 .. sent : arrived[i] = message[i]
         /\ HeaderEnd(Beginning(message, sent)) >= 0
         /\ answer = <<>> /\ ~closed
<1>1. /\ message \in Seq(Sendable(cookie)) /\ sent \in 0 .. Len(message)
      /\ arrived = Beginning(message, sent)
  BY DEF RestInv, Beginning
<1>2. message \in Seq(Units) /\ Len(message) \in Nat
  <2>1. Sendable(cookie) \subseteq Units
    BY DEF Sendable
  <2>2. \A i \in 1 .. Len(message) : message[i] \in Units
    BY <1>1, <2>1
  <2> QED BY <1>1, <2>2, SeqDef
<1>3. arrived \in Seq(Units) /\ Len(arrived) = sent /\ \A i \in 1 .. sent : arrived[i] = message[i]
  BY <1>1, <1>2, BeginningFacts
<1>4. HeaderEnd(arrived) >= 0 /\ answer = <<>> /\ ~closed
  BY DEF HasRequest, HeaderEnd
<1>5. sent >= 2
  <2>1. Places(arrived, <<CRLF, CRLF>>) # {}
    BY <1>4, FindNone DEF HeaderEnd
  <2>2. Places(arrived, <<CRLF, CRLF>>) \subseteq 0 .. sent - 2
    BY <1>3, LineEnd, PlacesOfTwo
  <2>3. 0 .. sent - 2 # {}
    BY <2>1, <2>2
  <2> QED BY <1>1, <2>3
<1> QED BY <1>1, <1>2, <1>3, <1>4, <1>5

\* The cookie that the server finds in a request which shows one.
LEMMA CookieFound ==
  ASSUME RestInv, HasRequest, ShowsCookie(message)
  PROVE  Field("Cookie") = cookie
<1>1. /\ arrived = Beginning(message, sent) /\ message \in Seq(Units)
      /\ sent \in 0 .. Len(message) /\ Len(arrived) = sent
      /\ \A i \in 1 .. sent : arrived[i] = message[i]
      /\ HeaderEnd(Beginning(message, sent)) >= 0
  BY HasRequestFacts
<1>2. PICK i \in 1 .. Len(message) : message[i].is = "Cookie" /\ i <= sent
  BY <1>1 DEF ShowsCookie
<1>3. arrived \in Seq(Sendable(cookie)) /\ cookie \in Nat
  <2>1. /\ message \in Seq(Sendable(cookie)) /\ sent \in 0 .. Len(message) /\ cookie \in Nat
    BY DEF RestInv
  <2> QED BY <1>1, <2>1, BeginningFacts
<1>4. Holds(arrived, "Cookie")
  <2>1. DOMAIN arrived = 1 .. sent /\ i \in 1 .. sent
    BY <1>1, <1>2, <1>3
  <2> QED BY <1>1, <1>2, <2>1 DEF Holds
<1>5. "Cookie" \in Names
  BY DEF Names
<1> QED BY <1>3, <1>4, <1>5, ValueTypes DEF Field
-----------------------------------------------------------------------------
(* The session, on both sides.                                              *)

Commands == {"register", "login", "enter_library", "get_books", "get_book",
             "add_book", "del_book", "logout"}

\* What the server gives out is a number of a session.
KnownUnits == {u \in Units : u.is \in {"Set-Cookie", "token"} => u.of \in 0 .. MaxLogins}

SessionTypes ==
  /\ started \in 0 .. MaxLogins /\ sessions \subseteq 1 .. started
  /\ cookie \in 0 .. Junk /\ jwt \in 0 .. MaxLogins /\ broke \in BOOLEAN
  /\ command \in Commands \cup {"idle", "exit"}
  /\ answer \in Seq(KnownUnits)

\* The request on its way is the command's.
RequestOfCommand ==
  /\ Len(message) >= 1
  /\ message[1].is = "POST login" <=> command = "login"
  /\ message[1].is = "GET access" <=> command = "enter_library"
  /\ message[1].is = "GET logout" <=> command = "logout"

Linked ==
  /\ stage = "none" <=> command \in {"idle", "exit"}
  /\ stage = "none" => message = <<>>
  /\ stage # "none" => RequestOfCommand
  /\ command = "login" /\ answer = <<>> /\ ~closed => started < MaxLogins
  /\ command = "logout" /\ cookie # NULL => ShowsCookie(message)

\* What an answer to login says of the sessions.
Granted(a) ==
  IF Holds(a, "error") THEN sessions = {}
  ELSE /\ Holds(a, "Set-Cookie") /\ FirstValue(a, "Set-Cookie") # NULL
       /\ sessions = {FirstValue(a, "Set-Cookie")}

\* As long as nothing broke, the sessions that are open are the client's own,
\* up to the answer that is on its way.
OpenSession ==
  /\ closed => answer # <<>>
  /\ command = "login" => IF answer = <<>> THEN sessions = {} ELSE Granted(answer)
  /\ command = "logout" => sessions = IF answer = <<>> THEN {cookie} \ {NULL} ELSE {}
  /\ command \notin {"login", "logout"} => sessions = {cookie} \ {NULL}

SessionInv == SessionTypes /\ Linked /\ (~broke => OpenSession)

LEMMA NothingKnown == <<>> \in Seq(KnownUnits)
OBVIOUS

LEMMA InitSession == Init => FramedInv /\ SessionInv
<1> SUFFICES ASSUME Init PROVE FramedInv /\ SessionInv
  OBVIOUS
<1>1. FramedInv
  <2>1. /\ answer = <<>> /\ buffer = <<>> /\ closed = FALSE /\ header_end = 0
        /\ content_length = 0 /\ stage = "none"
    BY DEF Init, HttpInit
  <2>2. Len(buffer) = 0 /\ Len(answer) = 0
    BY <2>1, NothingFramed
  <2>3. answer \in Seq(Units) /\ Len(answer) < SizeT /\ Framed(answer)
        /\ buffer = Beginning(answer, Len(buffer))
    BY <2>1, <2>2, NothingFramed
  <2>4. Len(buffer) \in 0 .. Len(answer) /\ header_end \in -1 .. Len(buffer)
        /\ content_length \in Nat
    BY <2>1, <2>2
  <2>5. /\ stage # "headers" /\ stage # "body" /\ stage # "received" /\ closed \in BOOLEAN
        /\ stage \in {"none", "sending", "headers", "body", "received"}
    BY <2>1
  <2> QED BY <2>1, <2>3, <2>4, <2>5 DEF FramedInv
<1>2. SessionInv
  <2>1. MaxLogins \in Nat /\ Junk \in Nat
    BY RestAssumption DEF Junk
  <2>2. /\ stage = "none" /\ message = <<>> /\ answer = <<>> /\ closed = FALSE
        /\ command = "idle" /\ cookie = 0 /\ jwt = 0 /\ sessions = {} /\ started = 0
        /\ broke = FALSE
    BY DEF Init, HttpInit, NULL
  <2>3. answer \in Seq(KnownUnits)
    BY <2>2
  <2>4. SessionTypes
    <3>1. started \in 0 .. MaxLogins /\ cookie \in 0 .. Junk /\ jwt \in 0 .. MaxLogins
      BY <2>1, <2>2
    <3>2. sessions \subseteq 1 .. started /\ broke \in BOOLEAN
          /\ command \in Commands \cup {"idle", "exit"}
      BY <2>2
    <3> QED BY <2>3, <3>1, <3>2 DEF SessionTypes
  <2>5. Linked
    BY <2>2 DEF Linked
  <2>6. OpenSession
    BY <2>2 DEF OpenSession, NULL
  <2> QED BY <2>4, <2>5, <2>6 DEF SessionInv
<1> QED BY <1>1, <1>2

LEMMA CommandSession ==
  ASSUME SessionInv, NEW name \in Commands, NEW request, NEW url, Command(name, request),
         Opens(request, url),
         url = "POST login" <=> name = "login",
         url = "GET access" <=> name = "enter_library",
         url = "GET logout" <=> name = "logout",
         name = "login" => cookie = NULL /\ started < MaxLogins,
         name = "logout" /\ cookie # NULL => ShowsCookie(request)
  PROVE  SessionInv'
<1>1. /\ command = "idle" /\ command' = name /\ stage' = "sending" /\ message' = request
      /\ answer' = <<>> /\ closed' = FALSE
      /\ cookie' = cookie /\ jwt' = jwt /\ started' = started /\ sessions' = sessions
      /\ broke' = broke
  BY DEF Command, open_connection, serverVars
<1>2. SessionTypes'
  <2>1. SessionTypes
    BY DEF SessionInv
  <2>2. answer' \in Seq(KnownUnits)
    <3>1. answer' = <<>>
      BY <1>1
    <3> QED BY <3>1, NothingKnown
  <2> QED BY <1>1, <2>1, <2>2 DEF SessionTypes, Junk
<1>3. Linked'
  <2>1. command' \notin {"idle", "exit"}
    BY <1>1 DEF Commands
  <2>2. RequestOfCommand'
    BY <1>1 DEF RequestOfCommand, Opens
  <2>3. command' = "logout" /\ cookie' # NULL => ShowsCookie(message')
    BY <1>1
  <2>4. stage' # "none"
    BY <1>1
  <2>5. command' = "login" => started' < MaxLogins
    BY <1>1
  <2> QED BY <2>1, <2>2, <2>3, <2>4, <2>5 DEF Linked
<1>4. ~broke' => OpenSession'
  BY <1>1 DEF SessionInv, OpenSession
<1> QED BY <1>2, <1>3, <1>4 DEF SessionInv

LEMMA StartsSessionInv ==
  ASSUME SessionInv, FramedInv, RestInv, Starts PROVE SessionInv'
<1>t. cookie \in Nat /\ jwt \in Nat /\ NULL \in Nat
  BY DEF RestInv, NULL
<1>b. /\ Account \in Units /\ Book \in Units
      /\ {"POST register", "POST login", "POST books", "GET access", "GET books", "GET book",
          "GET logout", "DELETE book"} \subseteq Names \ {"crlf"}
  BY DEF Account, Book, Unit, Units, Names, NULL
<1>1. CASE register
  <2>1. Opens(compute_post_request("POST register", NULL, Account, NULL), "POST register")
    BY <1>t, <1>b, PostRequest
  <2>2. "register" \in Commands
    BY DEF Commands
  <2> QED BY <1>1, <2>1, <2>2, CommandSession DEF register
<1>2. CASE login
  <2>1. Opens(compute_post_request("POST login", NULL, Account, NULL), "POST login")
    BY <1>t, <1>b, PostRequest
  <2>2. "login" \in Commands
    BY DEF Commands
  <2> QED BY <1>2, <2>1, <2>2, CommandSession DEF login
<1>3. CASE add_book
  <2>1. Opens(compute_post_request("POST books", jwt, Book, NULL), "POST books")
    BY <1>t, <1>b, PostRequest
  <2>2. "add_book" \in Commands
    BY DEF Commands
  <2> QED BY <1>3, <2>1, <2>2, CommandSession DEF add_book
<1>4. CASE enter_library
  <2>1. Opens(compute_get_request("GET access", cookie, NULL), "GET access")
    BY <1>t, <1>b, GetRequest
  <2>2. "enter_library" \in Commands
    BY DEF Commands
  <2> QED BY <1>4, <2>1, <2>2, CommandSession DEF enter_library
<1>5. CASE get_books
  <2>1. Opens(compute_get_request("GET books", cookie, jwt), "GET books")
    BY <1>t, <1>b, GetRequest
  <2>2. "get_books" \in Commands
    BY DEF Commands
  <2> QED BY <1>5, <2>1, <2>2, CommandSession DEF get_books
<1>6. CASE get_book
  <2>1. Opens(compute_get_request("GET book", NULL, jwt), "GET book")
    BY <1>t, <1>b, GetRequest
  <2>2. "get_book" \in Commands
    BY DEF Commands
  <2> QED BY <1>6, <2>1, <2>2, CommandSession DEF get_book
<1>7. CASE del_book
  <2>1. Opens(compute_del_request("DELETE book", NULL, jwt), "DELETE book")
    BY <1>t, <1>b, GetRequest
  <2>2. "del_book" \in Commands
    BY DEF Commands
  <2> QED BY <1>7, <2>1, <2>2, CommandSession DEF del_book
<1>8. CASE logout
  <2>1. /\ Opens(compute_get_request("GET logout", cookie, NULL), "GET logout")
        /\ cookie # NULL => ShowsCookie(compute_get_request("GET logout", cookie, NULL))
    BY <1>t, <1>b, GetRequest
  <2>2. "logout" \in Commands
    BY DEF Commands
  <2> QED BY <1>8, <2>1, <2>2, CommandSession DEF logout
<1>9. CASE exit
  BY <1>9 DEF exit, httpVars, serverVars, SessionInv, SessionTypes, Linked, OpenSession,
             RequestOfCommand, Granted, Commands, Junk
<1> QED BY <1>1, <1>2, <1>3, <1>4, <1>5, <1>6, <1>7, <1>8, <1>9 DEF Starts

\* A command that ends, with the answer it has read.
LEMMA FinishesSession ==
  ASSUME SessionInv, FramedInv, RestInv, Finishes PROVE SessionInv'
<1>1. /\ stage = "received" /\ command \in Commands
      /\ command' = "idle" /\ stage' = "none" /\ message' = <<>>
      /\ answer' = <<>> /\ closed' = FALSE
      /\ sessions' = sessions /\ started' = started /\ broke' = broke
  BY DEF Finishes, ShowEnds, LoginEnds, EnterLibraryEnds, LogoutEnds, Ends, close_connection,
         serverVars, Commands
<1>2. buffer = answer /\ buffer \in Seq(KnownUnits) /\ (closed \/ answer # <<>>)
  <2>1. /\ answer \in Seq(Units) /\ buffer = Beginning(answer, Len(answer))
        /\ (closed \/ answer # <<>>)
    BY <1>1 DEF FramedInv
  <2>2. Beginning(answer, Len(answer)) = answer
    BY <2>1, SubSeqFull DEF Beginning
  <2> QED BY <2>1, <2>2 DEF SessionInv, SessionTypes
<1>3. ASSUME NEW name \in {"Set-Cookie", "token"}, Holds(buffer, name)
      PROVE  FirstValue(buffer, name) \in 0 .. MaxLogins
  <2>1. PICK i \in 1 .. Len(buffer) :
          buffer[i].is = name /\ FirstValue(buffer, name) = buffer[i].of
    BY <1>2, <1>3, FirstValueFacts
  <2>2. buffer[i] \in KnownUnits
    BY <1>2
  <2> QED BY <2>1, <2>2 DEF KnownUnits
<1>4. cookie' \in 0 .. Junk /\ jwt' \in 0 .. MaxLogins
  <2>1. MaxLogins \in Nat /\ NULL = 0 /\ Junk = MaxLogins + 1
        /\ cookie \in 0 .. Junk /\ jwt \in 0 .. MaxLogins
    BY RestAssumption DEF NULL, Junk, SessionInv, SessionTypes
  <2>2. CASE LoginEnds
    <3>1. jwt' = jwt /\ (cookie' = cookie \/ cookie' \in get_cookies(buffer))
      BY <2>2 DEF LoginEnds
    <3>2. get_cookies(buffer) \subseteq 0 .. Junk
      BY <1>3, <2>1 DEF get_cookies
    <3> QED BY <2>1, <3>1, <3>2
  <2>3. CASE EnterLibraryEnds
    BY <1>3, <2>1, <2>3 DEF EnterLibraryEnds
  <2> QED BY <2>1, <2>2, <2>3 DEF Finishes, ShowEnds, LogoutEnds
<1>5. SessionTypes'
  <2>1. <<>> \in Seq(KnownUnits)
    OBVIOUS
  <2> QED BY <1>1, <1>4, <2>1 DEF SessionInv, SessionTypes, Junk
<1>6. Linked'
  BY <1>1 DEF Linked
<1>7. ASSUME ~broke PROVE OpenSession'
  <2>0. OpenSession /\ answer # <<>>
    BY <1>2, <1>7 DEF SessionInv, OpenSession
  <2>1. sessions = {cookie'} \ {NULL}
    <3>1. CASE LoginEnds
      <4>1. command = "login" /\ cookie = NULL /\ Granted(buffer)
        BY <1>2, <2>0, <3>1 DEF LoginEnds, Ends, OpenSession, RestInv
      <4>2. CASE Holds(buffer, "error")
        BY <3>1, <4>1, <4>2 DEF LoginEnds, Granted
      <4>3. CASE ~Holds(buffer, "error")
        <5>1. /\ Holds(buffer, "Set-Cookie") /\ FirstValue(buffer, "Set-Cookie") # NULL
              /\ sessions = {FirstValue(buffer, "Set-Cookie")}
          BY <4>1, <4>3 DEF Granted
        <5>2. cookie' = FirstValue(buffer, "Set-Cookie")
          BY <3>1, <4>3, <5>1 DEF LoginEnds, get_cookies
        <5> QED BY <5>1, <5>2
      <4> QED BY <4>2, <4>3
    <3>2. CASE LogoutEnds
      BY <2>0, <3>2 DEF LogoutEnds, Ends, OpenSession
    <3>3. CASE ShowEnds \/ EnterLibraryEnds
      BY <2>0, <3>3 DEF ShowEnds, EnterLibraryEnds, Ends, OpenSession
    <3> QED BY <3>1, <3>2, <3>3 DEF Finishes
  <2> QED BY <1>1, <2>1 DEF OpenSession
<1> QED BY <1>1, <1>5, <1>6, <1>7 DEF SessionInv

\* An answer of the server, made of units it knows.
LEMMA AnswersSession ==
  ASSUME SessionInv, NEW lines, NEW body,
         lines \in Seq(KnownUnits), body \in Seq(KnownUnits),
         lines \in Seq(LineUnits), body \in Seq(BodyUnits), Len(lines) <= 1, Len(body) = 2,
         Answers(lines, body), UNCHANGED <<clientVars, broke>>,
         started' \in 0 .. MaxLogins, sessions' \subseteq 1 .. started',
         ~broke /\ answer' # <<>> => OpenSession'
  PROVE  SessionInv'
<1>1. /\ UNCHANGED <<stage, message, command, cookie, jwt, broke>>
      /\ answer = <<>>
  BY DEF Answers, HasRequest, clientVars
<1>2. PICK framing \in Framings : answer' = Response(lines, body, framing)
  BY DEF Answers
<1>3. answer' \in Seq(KnownUnits)
  <2>1. /\ CRLF \in KnownUnits /\ Unit("status", NULL) \in KnownUnits
    BY DEF KnownUnits, CRLF, Unit, Units, Names, NULL
  <2>2. Unit(framing, Len(body)) \in KnownUnits
    <3>1. Len(body) \in Nat
      OBVIOUS
    <3>2. framing \in Names /\ framing \notin {"Set-Cookie", "token"}
      BY DEF Framings, Names
    <3> QED BY <3>1, <3>2 DEF KnownUnits, Unit, Units
  <2> QED BY <1>2, <2>1, <2>2, ResponseOver
<1>4. answer' # <<>>
  <2>1. Len(answer') \in 5 .. SizeT - 1
    BY <1>2, ResponseFramed
  <2>2. Len(<<>>) = 0 /\ SizeT \in Nat
    BY SizeTAssumption
  <2> QED BY <2>1, <2>2
<1>5. SessionTypes'
  <2>1. SessionTypes
    BY DEF SessionInv
  <2> QED BY <1>1, <1>3, <2>1 DEF SessionTypes, Junk
<1>6. Linked'
  <2>1. Linked
    BY DEF SessionInv
  <2> QED BY <1>1, <1>4, <2>1 DEF Linked, RequestOfCommand
<1> QED BY <1>1, <1>4, <1>5, <1>6 DEF SessionInv

LEMMA RepliesSession ==
  ASSUME SessionInv, FramedInv, RestInv, Replies PROVE SessionInv'
<1>r. HasRequest
  BY DEF Replies, Refuses, StartsSession, GivesAccess, EndsSession, Serves, Asks
<1>h. /\ answer = <<>> /\ ~closed /\ arrived[1] = message[1] /\ message # <<>>
  <2>1. /\ message \in Seq(Units) /\ sent \in 0 .. Len(message) /\ sent >= 2
        /\ \A i \in 1 .. sent : arrived[i] = message[i]
        /\ answer = <<>> /\ ~closed
    BY <1>r, HasRequestFacts
  <2>2. Len(message) >= 2 /\ 1 \in 1 .. sent /\ Len(<<>>) = 0
    BY <2>1
  <2> QED BY <2>1, <2>2
<1>c. /\ stage # "none" /\ command \in Commands
      /\ Asks("POST login") <=> command = "login"
      /\ Asks("GET access") <=> command = "enter_library"
      /\ Asks("GET logout") <=> command = "logout"
  BY <1>r, <1>h DEF SessionInv, SessionTypes, Linked, RequestOfCommand, Asks
<1>t. /\ started \in 0 .. MaxLogins /\ sessions \subseteq 1 .. started /\ MaxLogins \in Nat
      /\ NULL = 0
  BY RestAssumption DEF SessionInv, SessionTypes, NULL
<1>o. ~broke => OpenSession
  BY DEF SessionInv
<1>k. /\ Failure \in Seq(KnownUnits) /\ Success \in Seq(KnownUnits)
      /\ Failure \in Seq(BodyUnits) /\ Success \in Seq(BodyUnits)
      /\ Len(Failure) = 2 /\ Len(Success) = 2
      /\ Failure[1].is = "error"
      /\ <<>> \in Seq(KnownUnits) /\ <<>> \in Seq(LineUnits) /\ Len(<<>>) <= 1
  <2>1. /\ Unit("error", NULL) \in KnownUnits /\ Unit("reason", NULL) \in KnownUnits
        /\ Unit("open", NULL) \in KnownUnits /\ Unit("close", NULL) \in KnownUnits
        /\ Unit("error", NULL) \in BodyUnits /\ Unit("reason", NULL) \in BodyUnits
        /\ Unit("open", NULL) \in BodyUnits /\ Unit("close", NULL) \in BodyUnits
        /\ Unit("error", NULL).is = "error"
    BY DEF KnownUnits, BodyUnits, Units, Unit, Names, NULL, LengthNames
  <2> QED BY <2>1 DEF Failure, Success
<1>1. CASE Refuses
  <2>1. /\ Answers(<<>>, Failure) /\ UNCHANGED <<clientVars, serverVars>>
        /\ Asks("GET logout") => Field("Cookie") \notin sessions
    BY <1>1 DEF Refuses
  <2>2. UNCHANGED <<command, cookie, jwt, sessions, started, broke>>
    BY <2>1 DEF clientVars, serverVars
  <2>3. Holds(answer', "error")
    <3>1. PICK framing \in Framings : answer' = Response(<<>>, Failure, framing)
      BY <2>1 DEF Answers
    <3>2. 1 \in 1 .. Len(Failure)
      BY <1>k
    <3>3. Holds(Response(<<>>, Failure, framing), Failure[1].is)
      BY <1>k, <3>2, ResponseHas
    <3> QED BY <1>k, <3>1, <3>3
  <2>4. ASSUME ~broke, command = "logout" PROVE sessions = {}
    <3>1. sessions = {cookie} \ {NULL}
      BY <1>h, <1>o, <2>4 DEF OpenSession
    <3>2. CASE cookie = NULL
      BY <3>1, <3>2
    <3>3. CASE cookie # NULL
      <4>1. ShowsCookie(message)
        BY <2>4, <3>3 DEF SessionInv, Linked
      <4>2. Field("Cookie") = cookie
        BY <1>r, <4>1, CookieFound
      <4> QED BY <1>c, <2>1, <2>4, <3>1, <4>2
    <3> QED BY <3>2, <3>3
  <2>5. ~broke /\ answer' # <<>> => OpenSession'
    BY <1>h, <1>o, <2>2, <2>3, <2>4 DEF OpenSession, Granted
  <2>6. UNCHANGED <<clientVars, broke>> /\ started' \in 0 .. MaxLogins
        /\ sessions' \subseteq 1 .. started'
    BY <1>t, <2>1, <2>2
  <2> QED BY <1>k, <2>1, <2>5, <2>6, AnswersSession
<1>2. CASE StartsSession
  <2> DEFINE line == Unit("Set-Cookie", started')
             lines == <<line>>
  <2>1. /\ Answers(lines, Success) /\ UNCHANGED <<clientVars, broke>>
        /\ sessions' = sessions \cup {started'}
    BY <1>2, Zenon DEF StartsSession
  <2>2. started' = started + 1 /\ command = "login"
    BY <1>2, <1>c DEF StartsSession
  <2>3. started < MaxLogins
    BY <1>h, <2>2 DEF SessionInv, Linked
  <2>4. started' \in 1 .. MaxLogins /\ started' \in 0 .. MaxLogins /\ started' # NULL
        /\ started' \in Nat
    BY <1>t, <2>2, <2>3
  <2>5. sessions' \subseteq 1 .. started'
    BY <1>t, <2>1, <2>2, <2>4
  <2>6. line \in KnownUnits /\ line \in LineUnits /\ line.is = "Set-Cookie" /\ line.of = started'
    BY <2>4 DEF Unit, Units, KnownUnits, LineUnits, BodyUnits, LengthNames, Names
  <2>7. lines \in Seq(KnownUnits) /\ lines \in Seq(LineUnits) /\ Len(lines) = 1 /\ Len(lines) <= 1
        /\ lines[1] = line
    BY <2>6
  <2> HIDE DEF line, lines
  <2>8. PICK framing \in Framings : answer' = Response(lines, Success, framing)
    BY <2>1 DEF Answers
  <2> DEFINE U == {u \in Units : u.is # "error" /\ (u.is = "Set-Cookie" => u.of = started')}
  <2>9. answer' \in Seq(U)
    <3>1. CRLF \in U /\ Unit("status", NULL) \in U /\ Unit("open", NULL) \in U
          /\ Unit("close", NULL) \in U
      BY DEF CRLF, Unit, Units, Names, NULL
    <3>2. line \in Units
      BY <2>6 DEF KnownUnits
    <3>3. line \in U
      BY <2>6, <3>2
    <3>4. Unit(framing, Len(Success)) \in U
      <4>1. framing \in Names /\ framing # "error" /\ framing # "Set-Cookie"
        BY DEF Framings, Names
      <4> QED BY <1>k, <4>1 DEF Unit, Units
    <3> HIDE DEF U
    <3>5. lines \in Seq(U)
      BY <3>3 DEF lines
    <3>6. Success \in Seq(U)
      BY <3>1 DEF Success
    <3> QED BY <2>8, <3>1, <3>4, <3>5, <3>6, ResponseOver
  <2>10. ~Holds(answer', "error")
    <3>1. \A i \in DOMAIN answer' : answer'[i] \in U
      BY <2>9
    <3> QED BY <3>1 DEF Holds
  <2>11. Holds(answer', "Set-Cookie")
    <3>1. 1 \in 1 .. Len(lines)
      BY <2>7
    <3>2. Holds(Response(lines, Success, framing), lines[1].is)
      BY <1>k, <2>7, <3>1, ResponseHas
    <3> QED BY <2>6, <2>7, <2>8, <3>2
  <2>12. FirstValue(answer', "Set-Cookie") = started'
    <3> HIDE DEF U
    <3>1. PICK i \in 1 .. Len(answer') : /\ answer'[i].is = "Set-Cookie"
                                         /\ FirstValue(answer', "Set-Cookie") = answer'[i].of
      BY <2>9, <2>11, FirstValueFacts
    <3>2. answer'[i] \in U
      BY <2>9
    <3> QED BY <3>1, <3>2 DEF U
  <2>13. UNCHANGED <<command, cookie, jwt, broke>>
    BY <2>1 DEF clientVars
  <2>14. ~broke /\ answer' # <<>> => OpenSession'
    <3> SUFFICES ASSUME ~broke, answer' # <<>> PROVE OpenSession'
      OBVIOUS
    <3>1. sessions = {}
      BY <1>h, <1>o, <2>2 DEF OpenSession
    <3>2. sessions' = {started'}
      BY <2>1, <3>1
    <3>3. Granted(answer)'
      BY <2>4, <2>10, <2>11, <2>12, <3>2 DEF Granted, NULL
    <3> QED BY <2>2, <2>13, <3>3 DEF OpenSession
  <2> QED BY <1>k, <2>1, <2>4, <2>5, <2>7, <2>14, AnswersSession
<1>3. CASE GivesAccess
  <2> DEFINE token == Unit("token", Field("Cookie"))
             body == <<token, Unit("close", NULL)>>
  <2>1. /\ Answers(<<>>, body) /\ UNCHANGED <<clientVars, serverVars>>
        /\ Field("Cookie") \in sessions /\ command = "enter_library"
    BY <1>3, <1>c, Zenon DEF GivesAccess
  <2>2. UNCHANGED <<command, cookie, jwt, sessions, started, broke>>
    BY <2>1 DEF clientVars, serverVars
  <2>3. Field("Cookie") \in 0 .. MaxLogins
    <3>1. \A f \in sessions : f \in 0 .. MaxLogins
      BY <1>t
    <3>2. Field("Cookie") \in sessions
      BY <2>1
    <3> QED BY <3>1, <3>2
  <2>4. /\ token \in KnownUnits /\ token \in BodyUnits
        /\ Unit("close", NULL) \in KnownUnits /\ Unit("close", NULL) \in BodyUnits
    BY <1>t, <2>3 DEF Unit, Units, KnownUnits, BodyUnits, LengthNames, Names
  <2> HIDE DEF token
  <2>5. body \in Seq(KnownUnits) /\ body \in Seq(BodyUnits) /\ Len(body) = 2
    BY <2>4
  <2> HIDE DEF body
  <2>6. ~broke /\ answer' # <<>> => OpenSession'
    BY <1>h, <1>o, <2>1, <2>2 DEF OpenSession
  <2>7. UNCHANGED <<clientVars, broke>> /\ started' \in 0 .. MaxLogins
        /\ sessions' \subseteq 1 .. started'
    BY <1>t, <2>1, <2>2
  <2> QED BY <1>k, <2>1, <2>5, <2>6, <2>7, AnswersSession
<1>4. CASE EndsSession
  <2>1. /\ Answers(<<>>, Success) /\ UNCHANGED <<clientVars, started, broke>>
        /\ Field("Cookie") \in sessions /\ sessions' = sessions \ {Field("Cookie")}
        /\ command = "logout"
    BY <1>4, <1>c DEF EndsSession
  <2>2. UNCHANGED <<command, cookie, jwt, started, broke>>
    BY <2>1 DEF clientVars
  <2>3. ASSUME ~broke PROVE sessions' = {}
    <3>1. sessions = {cookie} \ {NULL}
      BY <1>h, <1>o, <2>1, <2>3 DEF OpenSession
    <3>2. Field("Cookie") = cookie
      BY <2>1, <3>1
    <3> QED BY <2>1, <3>1, <3>2
  <2>4. ~broke /\ answer' # <<>> => OpenSession'
    BY <2>1, <2>2, <2>3 DEF OpenSession
  <2>5. UNCHANGED <<clientVars, broke>> /\ started' \in 0 .. MaxLogins
        /\ sessions' \subseteq 1 .. started'
    BY <1>t, <2>1, <2>2
  <2> QED BY <1>k, <2>1, <2>4, <2>5, AnswersSession
<1>5. CASE Serves
  <2>1. /\ Answers(<<>>, Success) /\ UNCHANGED <<clientVars, serverVars>>
        /\ command \notin {"login", "logout"}
    <3>1. /\ Answers(<<>>, Success) /\ UNCHANGED <<clientVars, serverVars>>
          /\ arrived[1].is \in {"POST register", "GET books", "GET book", "POST books",
                                "DELETE book"}
      BY <1>5 DEF Serves, Asks
    <3> QED BY <1>r, <1>c, <3>1 DEF Asks
  <2>2. UNCHANGED <<command, cookie, jwt, sessions, started, broke>>
    BY <2>1 DEF clientVars, serverVars
  <2>3. ~broke /\ answer' # <<>> => OpenSession'
    BY <1>h, <1>o, <2>1, <2>2 DEF OpenSession
  <2>4. UNCHANGED <<clientVars, broke>> /\ started' \in 0 .. MaxLogins
        /\ sessions' \subseteq 1 .. started'
    BY <1>t, <2>1, <2>2
  <2> QED BY <1>k, <2>1, <2>3, <2>4, AnswersSession
<1> QED BY <1>1, <1>2, <1>3, <1>4, <1>5 DEF Replies

\* After a break nothing is said of the sessions that are open.
LEMMA BreaksSession ==
  ASSUME SessionInv, FramedInv, Breaks PROVE SessionInv'
<1>1. /\ UNCHANGED <<stage, message, command, cookie, jwt, sessions, started>>
      /\ broke' = TRUE /\ closed' = TRUE
  BY DEF Breaks, BreaksOff, clientVars
<1>2. PICK k \in Len(buffer) .. Len(answer) : answer' = Beginning(answer, k)
  BY DEF Breaks, BreaksOff, Beginning
<1>3. answer' \in Seq(KnownUnits)
  <2>1. answer \in Seq(KnownUnits)
    BY DEF SessionInv, SessionTypes
  <2>2. k \in 0 .. Len(answer)
    BY DEF FramedInv
  <2> QED BY <1>2, <2>1, <2>2, BeginningFacts
<1>4. SessionTypes'
  BY <1>1, <1>3 DEF SessionInv, SessionTypes, Junk
<1>5. Linked'
  BY <1>1 DEF SessionInv, Linked, RequestOfCommand
<1> QED BY <1>1, <1>4, <1>5 DEF SessionInv

LEMMA WorksSession ==
  ASSUME SessionInv, Works PROVE SessionInv'
<1>1. /\ UNCHANGED <<message, answer, closed, command, cookie, jwt, sessions, started, broke>>
      /\ stage # "none" /\ stage' # "none"
  BY DEF Works, send_to_server, receive_from_server, ReadHeaders, EndInHeaders, ReadBody,
         Received, clientVars, serverVars
<1>2. SessionTypes'
  BY <1>1 DEF SessionInv, SessionTypes, Junk
<1>3. Linked'
  BY <1>1 DEF SessionInv, Linked, RequestOfCommand
<1>4. ~broke' => OpenSession'
  BY <1>1 DEF SessionInv, OpenSession, Granted
<1> QED BY <1>2, <1>3, <1>4 DEF SessionInv

LEMMA NextSession ==
  SessionInv /\ FramedInv /\ RestInv /\ [Next]_vars => SessionInv'
<1> SUFFICES ASSUME SessionInv, FramedInv, RestInv, [Next]_vars PROVE SessionInv'
  OBVIOUS
<1>1. CASE UNCHANGED vars
  <2>1. UNCHANGED <<stage, message, answer, closed, command, cookie, jwt, sessions, started, broke>>
    BY <1>1 DEF vars, httpVars, clientVars, serverVars
  <2> QED BY <2>1 DEF SessionInv, SessionTypes, Linked, OpenSession, RequestOfCommand, Granted,
                      Junk
<1>2. CASE ErrorExit
  <2>1. /\ command' = "exit" /\ broke' = TRUE /\ stage' = "none" /\ message' = <<>>
        /\ answer' = <<>> /\ UNCHANGED <<cookie, jwt, sessions, started>>
    BY <1>2 DEF ErrorExit, close_connection
  <2>2. SessionTypes'
    <3>1. SessionTypes
      BY DEF SessionInv
    <3>2. answer' \in Seq(KnownUnits)
      BY <2>1, NothingKnown
    <3> QED BY <2>1, <3>1, <3>2 DEF SessionTypes, Junk
  <2>3. Linked'
    BY <2>1 DEF Linked
  <2> QED BY <2>1, <2>2, <2>3 DEF SessionInv
<1> QED BY <1>1, <1>2, StartsSessionInv, WorksSession, FinishesSession, RepliesSession,
           BreaksSession DEF Next

-----------------------------------------------------------------------------
(* Theorems.                                                                *)

\* The loops of receive_from_server and the two sides' views of the session
\* stay in step (helpers.c 80-123 and client.c), for every SizeT above nine.
THEOREM ExchangeInvariance == Spec => [](FramedInv /\ SessionInv)
<1>1. FramedInv /\ SessionInv /\ RestInv /\ [Next]_vars => (FramedInv /\ SessionInv)'
  BY NextFramed, NextSession
<1> QED BY <1>1, InitSession, RestInvariance, PTL DEF Spec

\* helpers.c 80-123: what receive_from_server returns is all of the response,
\* whatever pieces it arrives in, whichever way it is framed, and also when the
\* server stops before its end.
THEOREM ResponseIsWhole == Spec => []WholeResponse
<1>1. FramedInv => WholeResponse
  <2> SUFFICES ASSUME FramedInv, stage = "received" PROVE buffer = answer
    BY DEF WholeResponse
  <2>1. answer \in Seq(Units) /\ buffer = Beginning(answer, Len(answer))
    BY DEF FramedInv
  <2> QED BY <2>1, SubSeqFull DEF Beginning
<1> QED BY <1>1, ExchangeInvariance, PTL

\* client.c 96, 140, 336-350: between two commands the session that is open on
\* the server is the one whose cookie the client keeps, as long as the server
\* has answered every request.
THEOREM SessionsAgree == Spec => []OneSession
<1>1. SessionInv => OneSession
  BY DEF SessionInv, OpenSession, OneSession
<1> QED BY <1>1, ExchangeInvariance, PTL

\* Every variable of the exchange and of the session holds a value of its kind
\* (client.c and helpers.c), for any number of sessions.
THEOREM ClientTypes == Spec => []TypeOK
<1>1. RestInv /\ FramedInv /\ SessionInv => TypeOK
  <2> SUFFICES ASSUME RestInv, FramedInv, SessionInv PROVE TypeOK
    OBVIOUS
  <2>1. /\ sent \in 0 .. Len(message)
        /\ stage \in {"none", "sending", "headers", "body", "received"}
        /\ closed \in BOOLEAN /\ header_end \in -1 .. Len(buffer) /\ content_length \in Nat
        /\ Len(answer) < SizeT
    BY DEF RestInv, FramedInv
  <2>2. Len(buffer) <= Len(answer)
    BY DEF FramedInv
  <2>3. (stage = "none") = (command \in {"idle", "exit"})
    BY DEF SessionInv, Linked
  <2>4. /\ command \in {"idle", "exit", "register", "login", "enter_library",
                        "get_books", "get_book", "add_book", "del_book", "logout"}
        /\ cookie \in 0 .. Junk /\ jwt \in 0 .. MaxLogins
        /\ started \in 0 .. MaxLogins /\ sessions \subseteq 1 .. started
        /\ broke \in BOOLEAN
    BY DEF SessionInv, SessionTypes, Commands
  <2> QED BY <2>1, <2>2, <2>3, <2>4 DEF TypeOK
<1> QED BY <1>1, RestInvariance, ExchangeInvariance, PTL

==============================================================================
