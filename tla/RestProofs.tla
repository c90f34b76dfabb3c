----------------------------- MODULE RestProofs ------------------------------
(* What holds of the library client for every number of sessions, however   *)
(* requests and responses are cut into pieces and wherever the server stops.*)
EXTENDS RestClient, SequenceTheorems, WellFoundedInduction, TLAPS

\* The names of the units that the client and the server write.
Names ==
  {"crlf", "Host", "Content-Type", "Content-Length", "content-length", "Cookie",
   "Authorization", "account", "book", "POST register", "POST login", "POST books",
   "GET access", "GET books", "GET book", "GET logout", "DELETE book",
   "status", "Set-Cookie", "token", "open", "close", "error", "reason"}

Units == [is : Names, of : Nat]

\* Requests of a client with cookie c name no other cookie, and answers to
\* them give access to no other session.
Sendable(c) == {u \in Units : u.is = "Cookie" => u.of = c}
Answerable(c) == {u \in Units : u.is = "token" => u.of = c}

\* The inductive invariant: what is on its way belongs to the session.
RestInv ==
  /\ cookie \in Nat /\ jwt \in Nat /\ started \in Nat /\ sessions \subseteq Nat \ {0}
  /\ message \in Seq(Sendable(cookie))
  /\ sent \in 0 .. Len(message) /\ arrived = SubSeq(message, 1, sent)
  /\ answer \in Seq(Answerable(cookie)) /\ buffer \in Seq(Answerable(cookie))
  /\ command = "login" => cookie = NULL
  /\ TokenOfSession

-----------------------------------------------------------------------------
(* Texts: what they are made of, and what is read from them.                *)

LEMMA UnitTypes ==
  ASSUME NEW name \in Names, NEW value \in Nat, NEW c \in Nat
  PROVE  /\ Unit(name, value) \in Units
         /\ name # "Cookie" \/ value = c => Unit(name, value) \in Sendable(c)
         /\ name # "token" \/ value = c => Unit(name, value) \in Answerable(c)
         /\ CRLF \in Sendable(c) /\ CRLF \in Answerable(c)
<1>1. "crlf" \in Names /\ "crlf" # "Cookie" /\ "crlf" # "token"
  BY DEF Names
<1> QED BY <1>1 DEF Unit, Units, Sendable, Answerable, CRLF, NULL

LEMMA ComputeMessageType ==
  ASSUME NEW U, CRLF \in U, NEW lines \in Seq(U)
  PROVE  compute_message(lines) \in Seq(U)
<1>1. Len(lines) \in Nat /\ 2 * Len(lines) \in Nat
  OBVIOUS
<1>2. ASSUME NEW i \in 1 .. 2 * Len(lines), i % 2 = 1
      PROVE  lines[(i + 1) \div 2] \in U
  <2>1. (i + 1) \div 2 \in 1 .. Len(lines)
    BY <1>1, <1>2
  <2> QED BY <2>1
<1>3. compute_message(lines) \in [1 .. 2 * Len(lines) -> U]
  BY <1>2 DEF compute_message
<1> QED BY <1>1, <1>3

\* A first unit of the name exists, and is one of the text's.
LEMMA FirstValueFacts ==
  ASSUME NEW U, NEW text \in Seq(U), NEW name, Holds(text, name)
  PROVE  \E i \in 1 .. Len(text) : text[i].is = name /\ FirstValue(text, name) = text[i].of
<1> DEFINE places == {i \in DOMAIN text : text[i].is = name}
<1>1. DOMAIN text = 1 .. Len(text) /\ Len(text) \in Nat
  OBVIOUS
<1>2. places \subseteq Nat /\ places # {}
  BY <1>1 DEF Holds
<1>3. PICK i \in places : \A j \in places : ~(<<j, i>> \in OpToRel(<, Nat))
  BY <1>2, WFMin, NatLessThanWellFounded
<1>4. \A j \in places : ~(j < i)
  BY <1>2, <1>3 DEF OpToRel
<1>5. i \in DOMAIN text /\ text[i].is = name
      /\ \A j \in 1 .. i - 1 : text[j].is # name
  BY <1>1, <1>4
<1>6. LET k == CHOOSE k \in DOMAIN text :
                 text[k].is = name /\ \A j \in 1 .. k - 1 : text[j].is # name
      IN  k \in DOMAIN text /\ text[k].is = name
  BY <1>5
<1> QED BY <1>1, <1>6 DEF FirstValue

LEMMA ValueTypes ==
  ASSUME NEW c \in Nat, NEW text, NEW name \in Names, Holds(text, name)
  PROVE  /\ text \in Seq(Answerable(c)) => FirstValue(text, name) \in Nat
         /\ text \in Seq(Answerable(c)) /\ name = "token" => FirstValue(text, name) = c
         /\ text \in Seq(Sendable(c)) /\ name = "Cookie" => FirstValue(text, name) = c
<1>1. ASSUME text \in Seq(Answerable(c))
      PROVE  FirstValue(text, name) \in Nat /\ (name = "token" => FirstValue(text, name) = c)
  <2>1. PICK i \in 1 .. Len(text) :
          text[i].is = name /\ FirstValue(text, name) = text[i].of
    BY <1>1, FirstValueFacts
  <2>2. text[i] \in Answerable(c)
    BY <1>1
  <2> QED BY <2>1, <2>2 DEF Answerable, Units
<1>2. ASSUME text \in Seq(Sendable(c)), name = "Cookie"
      PROVE  FirstValue(text, name) = c
  <2>1. PICK i \in 1 .. Len(text) :
          text[i].is = name /\ FirstValue(text, name) = text[i].of
    BY <1>2, FirstValueFacts
  <2>2. text[i] \in Sendable(c)
    BY <1>2
  <2> QED BY <1>2, <2>1, <2>2 DEF Sendable
<1> QED BY <1>1, <1>2

\* The builders, with the client's cookie or none.
LEMMA OptionalLines ==
  ASSUME NEW c \in Nat, NEW cookies \in {NULL, c}, NEW token \in Nat
  PROVE  /\ CookieLine(cookies) \in Seq(Sendable(c))
         /\ TokenLine(token) \in Seq(Sendable(c))
<1>1. cookies \in Nat
  BY DEF NULL
<1>2. cookies # NULL => Unit("Cookie", cookies) \in Sendable(c)
  BY <1>1, UnitTypes DEF Names
<1>3. Unit("Authorization", token) \in Sendable(c)
  BY UnitTypes DEF Names
<1> QED BY <1>2, <1>3 DEF CookieLine, TokenLine

LEMMA GetRequestType ==
  ASSUME NEW c \in Nat, NEW cookies \in {NULL, c}, NEW token \in Nat,
         NEW url \in Names, url # "Cookie"
  PROVE  /\ compute_get_request(url, cookies, token) \in Seq(Sendable(c))
         /\ compute_del_request(url, cookies, token) \in Seq(Sendable(c))
<1> DEFINE lines == <<Unit(url, NULL), Host>> \o CookieLine(cookies) \o TokenLine(token)
<1>1. Unit(url, NULL) \in Sendable(c) /\ Host \in Sendable(c) /\ CRLF \in Sendable(c)
  BY UnitTypes DEF Host, NULL, Names
<1>2. <<Unit(url, NULL), Host>> \in Seq(Sendable(c)) /\ <<CRLF>> \in Seq(Sendable(c))
  BY <1>1
<1>3. lines \in Seq(Sendable(c))
  BY <1>2, OptionalLines, ConcatProperties
<1>4. compute_message(lines) \o <<CRLF>> \in Seq(Sendable(c))
  <2> HIDE DEF lines
  <2>1. compute_message(lines) \in Seq(Sendable(c))
    BY <1>1, <1>3, ComputeMessageType
  <2> QED BY <1>2, <2>1, ConcatProperties
<1> QED BY <1>4 DEF compute_get_request, compute_del_request

LEMMA PostRequestType ==
  ASSUME NEW c \in Nat, NEW token \in Nat, NEW body \in Sendable(c),
         NEW url \in Names, url # "Cookie"
  PROVE  compute_post_request(url, token, body, NULL) \in Seq(Sendable(c))
<1> DEFINE first == <<Unit(url, NULL), Host, Unit("Content-Type", NULL),
                      Unit("Content-Length", 1)>>
           lines == first \o CookieLine(NULL) \o TokenLine(token)
<1>1. /\ Unit(url, NULL) \in Sendable(c) /\ Host \in Sendable(c) /\ CRLF \in Sendable(c)
      /\ Unit("Content-Type", NULL) \in Sendable(c)
      /\ Unit("Content-Length", 1) \in Sendable(c)
  BY UnitTypes DEF Host, NULL, Names
<1>2. first \in Seq(Sendable(c)) /\ <<CRLF>> \in Seq(Sendable(c)) /\ <<body>> \in Seq(Sendable(c))
  BY <1>1
<1>3. lines \in Seq(Sendable(c))
  <2> HIDE DEF first
  <2> QED BY <1>2, OptionalLines, ConcatProperties
<1>4. compute_message(lines) \o <<CRLF>> \o compute_message(<<body>>) \in Seq(Sendable(c))
  <2> HIDE DEF lines
  <2>1. compute_message(lines) \in Seq(Sendable(c))
        /\ compute_message(<<body>>) \in Seq(Sendable(c))
    BY <1>1, <1>2, <1>3, ComputeMessageType
  <2> QED BY <1>2, <2>1, ConcatProperties
<1> QED BY <1>4 DEF compute_post_request

LEMMA ResponseType ==
  ASSUME NEW c \in Nat, NEW lines \in Seq(Answerable(c)), NEW body \in Seq(Answerable(c)),
         NEW framing \in Framings
  PROVE  Response(lines, body, framing) \in Seq(Answerable(c))
<1> DEFINE frame == IF framing = "close" THEN <<>> ELSE <<Unit(framing, Len(body))>>
           header == <<Unit("status", NULL)>> \o lines \o frame
<1>1. Unit("status", NULL) \in Answerable(c) /\ CRLF \in Answerable(c)
  BY UnitTypes DEF NULL, Names
<1>2. Unit(framing, Len(body)) \in Answerable(c)
  <2>1. framing \in Names /\ framing # "token"
    BY DEF Framings, Names
  <2>2. Len(body) \in Nat
    OBVIOUS
  <2> QED BY <2>1, <2>2, UnitTypes
<1>3. /\ <<Unit("status", NULL)>> \in Seq(Answerable(c)) /\ <<CRLF>> \in Seq(Answerable(c))
      /\ frame \in Seq(Answerable(c))
  BY <1>1, <1>2
<1>4. header \in Seq(Answerable(c))
  <2> HIDE DEF frame
  <2> QED BY <1>3, ConcatProperties
<1>5. compute_message(header) \o <<CRLF>> \o body \in Seq(Answerable(c))
  <2> HIDE DEF header
  <2>1. compute_message(header) \in Seq(Answerable(c))
    BY <1>1, <1>4, ComputeMessageType
  <2> QED BY <1>3, <2>1, ConcatProperties
<1> QED BY <1>5 DEF Response

-----------------------------------------------------------------------------
(* The steps.                                                               *)

LEMMA InitRest == Init => RestInv
BY DEF Init, HttpInit, RestInv, NULL, TokenOfSession

\* A connection that is closed leaves nothing behind, whatever the session is.
LEMMA ClosedInv ==
  ASSUME close_connection, command' # "login", cookie' \in Nat, jwt' \in Nat,
         started' \in Nat, sessions' \subseteq Nat \ {0}, TokenOfSession'
  PROVE  RestInv'
BY DEF close_connection, RestInv

\* A command starts with a request of the session.
LEMMA CommandInv ==
  ASSUME RestInv, NEW name, NEW request \in Seq(Sendable(cookie)), Command(name, request),
         name = "login" => cookie = NULL
  PROVE  RestInv'
<1>1. /\ command' = name /\ UNCHANGED <<cookie, jwt, sessions, started>>
      /\ message' = request /\ sent' = 0 /\ arrived' = <<>>
      /\ answer' = <<>> /\ buffer' = <<>>
  BY DEF Command, open_connection, serverVars
<1>2. Len(request) \in Nat /\ SubSeq(request, 1, 0) = <<>>
  BY SubSeqEmpty
<1>3. message' \in Seq(Sendable(cookie')) /\ sent' \in 0 .. Len(message')
      /\ arrived' = SubSeq(message', 1, sent')
  BY <1>1, <1>2
<1>4. answer' \in Seq(Answerable(cookie')) /\ buffer' \in Seq(Answerable(cookie'))
  BY <1>1
<1> QED BY <1>1, <1>3, <1>4 DEF RestInv, TokenOfSession

LEMMA StartsInv == RestInv /\ Starts => RestInv'
<1> SUFFICES ASSUME RestInv, Starts PROVE RestInv'
  OBVIOUS
<1>t. cookie \in Nat /\ jwt \in Nat /\ NULL \in Nat
  BY DEF RestInv, NULL
<1>b. Account \in Sendable(cookie) /\ Book \in Sendable(cookie)
  BY <1>t, UnitTypes DEF Account, Book, Names
<1>1. CASE register \/ login \/ add_book
  <2>1. /\ compute_post_request("POST register", NULL, Account, NULL) \in Seq(Sendable(cookie))
        /\ compute_post_request("POST login", NULL, Account, NULL) \in Seq(Sendable(cookie))
        /\ compute_post_request("POST books", jwt, Book, NULL) \in Seq(Sendable(cookie))
    BY <1>t, <1>b, PostRequestType DEF Names
  <2>0. "register" # "login" /\ "add_book" # "login"
    OBVIOUS
  <2>2. CASE register
    BY <2>0, <2>1, <2>2, CommandInv DEF register
  <2>3. CASE login
    BY <2>1, <2>3, CommandInv DEF login
  <2>4. CASE add_book
    BY <2>0, <2>1, <2>4, CommandInv DEF add_book
  <2> QED BY <1>1, <2>2, <2>3, <2>4
<1>2. CASE enter_library \/ get_books \/ get_book \/ del_book \/ logout
  <2>1. /\ compute_get_request("GET access", cookie, NULL) \in Seq(Sendable(cookie))
        /\ compute_get_request("GET books", cookie, jwt) \in Seq(Sendable(cookie))
        /\ compute_get_request("GET book", NULL, jwt) \in Seq(Sendable(cookie))
        /\ compute_del_request("DELETE book", NULL, jwt) \in Seq(Sendable(cookie))
        /\ compute_get_request("GET logout", cookie, NULL) \in Seq(Sendable(cookie))
    BY <1>t, GetRequestType DEF Names
  <2> QED BY <1>2, <2>1, CommandInv DEF enter_library, get_books, get_book, del_book, logout
<1>3. CASE exit
  BY <1>3 DEF exit, httpVars, serverVars, RestInv, TokenOfSession
<1> QED BY <1>1, <1>2, <1>3 DEF Starts

\* What write() takes continues what the server has.
LEMMA SendInv ==
  ASSUME RestInv, send_to_server, UNCHANGED <<clientVars, serverVars>>
  PROVE  RestInv'
<1>1. PICK n \in 1 .. Len(message) - sent :
        arrived' = arrived \o Piece(n) /\ sent' = sent + n
  BY DEF send_to_server
<1>2. message \in Seq(Sendable(cookie)) /\ sent \in 0 .. Len(message)
      /\ arrived = SubSeq(message, 1, sent) /\ Len(message) \in Nat
  BY DEF RestInv
<1>3. arrived' = SubSeq(message, 1, sent')
  <2>1. 1 \in 1 .. Len(message) + 1 /\ sent \in 1 - 1 .. Len(message)
        /\ sent + n \in sent .. Len(message)
    BY <1>1, <1>2
  <2>2. SubSeq(message, 1, sent) \o SubSeq(message, sent + 1, sent + n)
        = SubSeq(message, 1, sent + n)
    BY <1>2, <2>1, ConcatAdjacentSubSeq
  <2> QED BY <1>1, <1>2, <2>2 DEF Piece
<1>4. sent' \in 0 .. Len(message)
  BY <1>1, <1>2
<1>5. UNCHANGED <<message, answer, buffer, command, cookie, jwt, sessions, started>>
  BY DEF send_to_server, clientVars, serverVars
<1> QED BY <1>3, <1>4, <1>5 DEF RestInv, TokenOfSession

\* What read() returns is the server's.
LEMMA ReceiveInv ==
  ASSUME RestInv, receive_from_server, UNCHANGED <<clientVars, serverVars>>
  PROVE  RestInv'
<1>1. /\ UNCHANGED <<message, sent, arrived, answer, command, cookie, jwt, sessions, started>>
      /\ UNCHANGED buffer \/ \E segment \in Segments : buffer' = buffer \o segment
  BY DEF receive_from_server, ReadHeaders, EndInHeaders, ReadBody, Received,
         clientVars, serverVars
<1>2. ASSUME NEW segment \in Segments
      PROVE  segment \in Seq(Answerable(cookie))
  <2>1. PICK k \in Len(buffer) + 1 .. Len(answer) :
          segment = SubSeq(answer, Len(buffer) + 1, k)
    BY DEF Segments
  <2>2. Len(buffer) \in Nat /\ answer \in Seq(Answerable(cookie)) /\ Len(answer) \in Nat
    BY DEF RestInv
  <2>3. \A i \in Len(buffer) + 1 .. k : answer[i] \in Answerable(cookie)
    BY <2>2
  <2> QED BY <2>1, <2>2, <2>3, SubSeqProperties
<1>3. buffer' \in Seq(Answerable(cookie))
  BY <1>1, <1>2, ConcatProperties DEF RestInv
<1> QED BY <1>1, <1>3 DEF RestInv, TokenOfSession

\* The session changes only with the connection closed: a token is that of
\* the cookie it was asked with, a login finds no token, a logout drops both.
LEMMA FinishesInv == RestInv /\ Finishes => RestInv'
<1> SUFFICES ASSUME RestInv, Finishes PROVE RestInv'
  OBVIOUS
<1>1. /\ close_connection /\ command' = "idle" /\ UNCHANGED <<sessions, started>>
  BY DEF Finishes, ShowEnds, LoginEnds, EnterLibraryEnds, LogoutEnds, Ends, serverVars
<1>t. /\ cookie \in Nat /\ jwt \in Nat /\ started \in Nat /\ sessions \subseteq Nat \ {0}
      /\ buffer \in Seq(Answerable(cookie)) /\ TokenOfSession
  BY DEF RestInv
<1>2. cookie' \in Nat /\ jwt' \in Nat /\ TokenOfSession'
  <2>1. CASE ShowEnds
    BY <1>t, <2>1 DEF ShowEnds, TokenOfSession
  <2>2. CASE LoginEnds
    <3>1. cookie = NULL /\ jwt' = jwt
      BY <2>2 DEF LoginEnds, Ends, RestInv
    <3>2. jwt = NULL
      BY <1>t, <3>1 DEF TokenOfSession
    <3>3. Holds(buffer, "Set-Cookie") => FirstValue(buffer, "Set-Cookie") \in Nat
      BY <1>t, ValueTypes DEF Names
    <3>4. NULL \in Nat /\ Junk \in Nat
      BY RestAssumption DEF NULL, Junk
    <3>5. cookie' \in Nat
      BY <1>t, <2>2, <3>3, <3>4 DEF LoginEnds, get_cookies
    <3> QED BY <1>t, <3>1, <3>2, <3>5 DEF TokenOfSession
  <2>3. CASE EnterLibraryEnds
    <3>1. Holds(buffer, "token") => FirstValue(buffer, "token") = cookie
      BY <1>t, ValueTypes DEF Names
    <3> QED BY <1>t, <2>3, <3>1 DEF EnterLibraryEnds, TokenOfSession
  <2>4. CASE LogoutEnds
    BY <2>4 DEF LogoutEnds, TokenOfSession, NULL
  <2> QED BY <2>1, <2>2, <2>3, <2>4 DEF Finishes
<1> QED BY <1>1, <1>t, <1>2, ClosedInv

LEMMA ErrorInv == RestInv /\ ErrorExit => RestInv'
<1> SUFFICES ASSUME RestInv, ErrorExit PROVE RestInv'
  OBVIOUS
<1>1. close_connection /\ command' = "exit" /\ UNCHANGED <<cookie, jwt, sessions, started>>
  BY DEF ErrorExit
<1> QED BY <1>1, ClosedInv DEF RestInv, TokenOfSession

\* An answer whose lines and body belong to the session.
LEMMA AnswersInv ==
  ASSUME RestInv, NEW lines \in Seq(Answerable(cookie)), NEW body \in Seq(Answerable(cookie)),
         Answers(lines, body), UNCHANGED clientVars,
         started' \in Nat, sessions' \subseteq Nat \ {0}
  PROVE  RestInv'
<1>1. UNCHANGED <<message, sent, arrived, buffer, command, cookie, jwt>>
  BY DEF Answers, clientVars
<1>2. answer' \in Seq(Answerable(cookie))
  BY ResponseType DEF Answers, RestInv
<1> QED BY <1>1, <1>2 DEF RestInv, TokenOfSession

LEMMA RepliesInv == RestInv /\ Replies => RestInv'
<1> SUFFICES ASSUME RestInv, Replies PROVE RestInv'
  OBVIOUS
<1>t. cookie \in Nat /\ started \in Nat /\ sessions \subseteq Nat \ {0} /\ NULL \in Nat
  BY DEF RestInv, NULL
<1>1. /\ Failure \in Seq(Answerable(cookie)) /\ Success \in Seq(Answerable(cookie))
      /\ <<>> \in Seq(Answerable(cookie))
  <2>1. /\ Unit("error", NULL) \in Answerable(cookie) /\ Unit("reason", NULL) \in Answerable(cookie)
        /\ Unit("open", NULL) \in Answerable(cookie) /\ Unit("close", NULL) \in Answerable(cookie)
    BY <1>t, UnitTypes DEF Names
  <2> QED BY <2>1 DEF Failure, Success
<1>2. CASE Refuses \/ Serves
  BY <1>t, <1>1, <1>2, AnswersInv DEF Refuses, Serves, serverVars
<1>3. CASE StartsSession
  <2>0. /\ Answers(<<Unit("Set-Cookie", started')>>, Success) /\ UNCHANGED clientVars
        /\ started' = started + 1 /\ sessions' = sessions \cup {started'}
    BY <1>3 DEF StartsSession
  <2>4. started' \in Nat \ {0}
    BY <1>t, <2>0
  <2>1. /\ Answers(<<Unit("Set-Cookie", started')>>, Success) /\ UNCHANGED clientVars
        /\ started' \in Nat /\ sessions' \subseteq Nat \ {0}
    BY <1>t, <2>0, <2>4
  <2>2. Unit("Set-Cookie", started') \in Answerable(cookie)
    BY <1>t, <2>1, UnitTypes DEF Names
  <2>3. <<Unit("Set-Cookie", started')>> \in Seq(Answerable(cookie))
    BY <2>2
  <2> QED BY <1>1, <2>1, <2>3, AnswersInv
<1>4. CASE GivesAccess
  <2>1. Field("Cookie") # NULL
    BY <1>t, <1>4 DEF GivesAccess, NULL
  <2>2. arrived \in Seq(Sendable(cookie))
    <3>1. /\ message \in Seq(Sendable(cookie)) /\ sent \in 0 .. Len(message)
          /\ arrived = SubSeq(message, 1, sent) /\ Len(message) \in Nat
      BY DEF RestInv
    <3>2. \A i \in 1 .. sent : message[i] \in Sendable(cookie)
      BY <3>1
    <3> QED BY <3>1, <3>2, SubSeqProperties
  <2>3. Field("Cookie") = cookie
    BY <1>t, <2>1, <2>2, ValueTypes DEF Field, Names
  <2>4. Unit("token", Field("Cookie")) \in Answerable(cookie)
        /\ Unit("close", NULL) \in Answerable(cookie)
    BY <1>t, <2>3, UnitTypes DEF Names
  <2>5. <<Unit("token", Field("Cookie")), Unit("close", NULL)>> \in Seq(Answerable(cookie))
    BY <2>4
  <2> QED BY <1>t, <1>1, <1>4, <2>5, AnswersInv DEF GivesAccess, serverVars
<1>5. CASE EndsSession
  BY <1>t, <1>1, <1>5, AnswersInv DEF EndsSession
<1> QED BY <1>2, <1>3, <1>4, <1>5 DEF Replies

LEMMA BreaksInv == RestInv /\ Breaks => RestInv'
<1> SUFFICES ASSUME RestInv, Breaks PROVE RestInv'
  OBVIOUS
<1>1. /\ UNCHANGED <<message, sent, arrived, buffer, command, cookie, jwt, sessions, started>>
      /\ \E k \in Len(buffer) .. Len(answer) : answer' = SubSeq(answer, 1, k)
  BY DEF Breaks, BreaksOff, clientVars
<1>2. PICK k \in Len(buffer) .. Len(answer) : answer' = SubSeq(answer, 1, k)
  BY <1>1
<1>3. answer \in Seq(Answerable(cookie)) /\ Len(answer) \in Nat /\ Len(buffer) \in Nat
  BY DEF RestInv
<1>4. \A i \in 1 .. k : answer[i] \in Answerable(cookie)
  BY <1>3
<1>5. answer' \in Seq(Answerable(cookie))
  BY <1>2, <1>3, <1>4, SubSeqProperties
<1> QED BY <1>1, <1>5 DEF RestInv, TokenOfSession

LEMMA NextInv == RestInv /\ [Next]_vars => RestInv'
<1> SUFFICES ASSUME RestInv, [Next]_vars PROVE RestInv'
  OBVIOUS
<1>1. CASE Works
  BY <1>1, SendInv, ReceiveInv DEF Works
<1>2. CASE UNCHANGED vars
  BY <1>2 DEF vars, httpVars, clientVars, serverVars, RestInv, TokenOfSession
<1> QED BY <1>1, <1>2, StartsInv, FinishesInv, ErrorInv, RepliesInv, BreaksInv DEF Next

-----------------------------------------------------------------------------
(* Theorems.                                                                *)

\* What is on its way between client and server always belongs to the session
\* the client is in (client.c and helpers.c), for any number of sessions.
THEOREM RestInvariance == Spec => []RestInv
<1> QED BY InitRest, NextInv, PTL DEF Spec

\* helpers.c 58-70: however write() divides it, the server has received the
\* beginning of the request, once and in order.
THEOREM RequestArrivesIntact == Spec => []RequestIntact
<1>1. RestInv => RequestIntact
  <2> SUFFICES ASSUME RestInv PROVE RequestIntact
    OBVIOUS
  <2>1. /\ message \in Seq(Sendable(cookie)) /\ sent \in 0 .. Len(message)
        /\ arrived = SubSeq(message, 1, sent) /\ Len(message) \in Nat
    BY DEF RestInv
  <2>2. \A i \in 1 .. sent : message[i] \in Sendable(cookie)
    BY <2>1
  <2>3. arrived \in Seq(Sendable(cookie)) /\ Len(arrived) = sent
    BY <2>1, <2>2, SubSeqProperties
  <2>4. SubSeq(arrived, 1, Len(arrived)) = arrived
    BY <2>3, SubSeqFull
  <2> QED BY <2>1, <2>3, <2>4 DEF RequestIntact, IsPrefix
<1> QED BY <1>1, RestInvariance, PTL

\* client.c 96, 138-141, 171-178, 350-351: a token that the client holds is
\* that of its session, also after failed and interrupted commands.
THEOREM TokenBelongsToSession == Spec => []TokenOfSession
<1>1. RestInv => TokenOfSession
  BY DEF RestInv
<1> QED BY <1>1, RestInvariance, PTL
==============================================================================
