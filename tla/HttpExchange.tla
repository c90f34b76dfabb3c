---------------------------- MODULE HttpExchange ----------------------------
(***************************************************************************)
(* One HTTP exchange of the library client (src/Tema_3: helpers.c,         *)
(* buffer.c, requests.c): a connection is opened, the request is written   *)
(* in as many pieces as the socket takes, the response is read in whatever *)
(* pieces arrive and is framed by its header terminator and its            *)
(* Content-Length.                                                         *)
(*                                                                         *)
(* A message is a sequence of units: a header line without its line end,   *)
(* the line end itself, a piece of a body.  A unit has a name and a value; *)
(* positions and lengths are counted in units, where the code counts       *)
(* bytes.  The server's side of the connection is external: what it has    *)
(* received, what it answers, and whether it closed.                       *)
(***************************************************************************)
EXTENDS Integers, Sequences, SequencesExt

CONSTANT SizeT    \* size_t is computed modulo this; every message is shorter

ASSUME SizeTAssumption == SizeT \in Nat \ {0}

NULL == 0

VARIABLES
  stage,           \* "none", "sending", "headers", "body" or "received"
  message,         \* the request
  sent,            \* how much of it write() has taken
  arrived,         \* what the server has received
  answer,          \* what the server answers, <<>> as long as it has not
  closed,          \* the server has closed the connection
  buffer,          \* what read() has returned so far
  header_end,      \* where the body starts: -1 when the header has no end yet
  content_length   \* the length the header gives, 0 before

httpVars == <<stage, message, sent, arrived, answer, closed, buffer,
              header_end, content_length>>

Unit(name, value) == [is |-> name, of |-> value]
CRLF == Unit("crlf", NULL)

\* buffer_find: the first place of data in buf, counted from 0, or -1.
buffer_find(buf, data) ==
  LET places == {i \in 0 .. Len(buf) - Len(data) :
                   SubSeq(buf, i + 1, i + Len(data)) = data}
  IN  IF places = {} THEN -1 ELSE CHOOSE i \in places : \A j \in places : i <= j

\* tolower on the one name that servers spell in two ways.
tolower(name) == IF name = "Content-Length" THEN "content-length" ELSE name

\* A plausible bug: the header is looked for as it is written in the source.
FindAsWritten(buf, name) ==
  buffer_find([i \in DOMAIN buf |-> buf[i].is], <<name>>)

buffer_find_insensitive(buf, name) ==
  buffer_find([i \in DOMAIN buf |-> tolower(buf[i].is)], <<tolower(name)>>)

-----------------------------------------------------------------------------
(* Requests: lines, one line end after each, an empty line, the body.      *)

\* compute_message, called for each of the lines in turn.
compute_message(lines) ==
  [i \in 1 .. 2 * Len(lines) |-> IF i % 2 = 1 THEN lines[(i + 1) \div 2] ELSE CRLF]

\* The optional lines of a request.
CookieLine(cookies) == IF cookies = NULL THEN <<>> ELSE <<Unit("Cookie", cookies)>>
TokenLine(token) == IF token = NULL THEN <<>> ELSE <<Unit("Authorization", token)>>

Host == Unit("Host", NULL)

compute_get_request(url, cookies, token) ==
  compute_message(<<Unit(url, NULL), Host>> \o CookieLine(cookies) \o TokenLine(token))
  \o <<CRLF>>

compute_del_request(url, cookies, token) ==
  compute_message(<<Unit(url, NULL), Host>> \o CookieLine(cookies) \o TokenLine(token))
  \o <<CRLF>>

\* The body's own line end is not counted by its Content-Length.
compute_post_request(url, token, body, cookies) ==
  compute_message(<<Unit(url, NULL), Host, Unit("Content-Type", NULL),
                    Unit("Content-Length", 1)>>
                  \o CookieLine(cookies) \o TokenLine(token))
  \o <<CRLF>> \o compute_message(<<body>>)

-----------------------------------------------------------------------------
(* The client's side of the connection.                                    *)

HttpInit ==
  /\ stage = "none" /\ message = <<>> /\ sent = 0
  /\ arrived = <<>> /\ answer = <<>> /\ closed = FALSE
  /\ buffer = <<>> /\ header_end = 0 /\ content_length = 0

\* open_connection, and the two functions that follow start with an empty
\* state; connect is answered by the server's kernel.
open_connection(request) ==
  /\ stage = "none"
  /\ stage' = "sending" /\ message' = request /\ sent' = 0
  /\ arrived' = <<>> /\ answer' = <<>> /\ closed' = FALSE
  /\ buffer' = <<>> /\ header_end' = 0 /\ content_length' = 0

close_connection ==
  /\ stage' = "none" /\ message' = <<>> /\ sent' = 0
  /\ arrived' = <<>> /\ answer' = <<>> /\ closed' = FALSE
  /\ buffer' = <<>> /\ header_end' = 0 /\ content_length' = 0

\* A plausible bug: each write() starts from the beginning of the message.
PieceFromStart(n) == SubSeq(message, 1, n)

\* The n units that write() takes of message + sent.
Piece(n) == SubSeq(message, sent + 1, sent + n)

\* send_to_server: one write(), of some part of what is left.
send_to_server ==
  /\ stage = "sending"
  /\ \E n \in 1 .. Len(message) - sent :
       /\ arrived' = arrived \o Piece(n)
       /\ sent' = sent + n
       /\ stage' = IF sent' < Len(message) THEN "sending" ELSE "headers"
  /\ UNCHANGED <<message, answer, closed, buffer, header_end, content_length>>

\* read() returns some part of what the server has answered and not been read.
Segments == {SubSeq(answer, Len(buffer) + 1, k) : k \in Len(buffer) + 1 .. Len(answer)}

\* read() returns 0.
EndOfFile == closed /\ Len(buffer) = Len(answer)

\* The first loop of receive_from_server: read until the header is complete.
\* Without a Content-Length it goes on reading, until the end of the file.
ReadHeaders ==
  /\ stage = "headers"
  /\ \E segment \in Segments :
       LET data == buffer \o segment
           end == buffer_find(data, <<CRLF, CRLF>>)
           length == buffer_find_insensitive(data, "Content-Length")
       IN  /\ buffer' = data
           /\ header_end' = IF end >= 0 THEN end + 2 ELSE -1
           /\ IF end >= 0 /\ length >= 0
              THEN /\ content_length' = data[length + 1].of
                   /\ stage' = "body"
              ELSE UNCHANGED <<content_length, stage>>
  /\ UNCHANGED <<message, sent, arrived, answer, closed>>

EndInHeaders ==
  /\ stage = "headers" /\ EndOfFile
  /\ stage' = "body"
  /\ UNCHANGED <<message, sent, arrived, answer, closed, buffer, header_end,
                 content_length>>

\* size_t total: a header without an end makes it the largest size_t.
Total == (content_length + header_end) % SizeT

\* A plausible bug: what came with the header is taken for the whole response.
EnoughAlready == TRUE

Enough == Len(buffer) >= Total

\* The second loop, and the string it returns.
ReadBody ==
  /\ stage = "body" /\ ~Enough
  /\ \E segment \in Segments : buffer' = buffer \o segment
  /\ UNCHANGED <<stage, message, sent, arrived, answer, closed, header_end,
                 content_length>>

Received ==
  /\ stage = "body"
  /\ Enough \/ EndOfFile
  /\ stage' = "received"
  /\ UNCHANGED <<message, sent, arrived, answer, closed, buffer, header_end,
                 content_length>>

receive_from_server == ReadHeaders \/ EndInHeaders \/ ReadBody \/ Received

-----------------------------------------------------------------------------
(* The server's side.                                                      *)

\* How a server may frame its answer: by a length, spelled in either way, on a
\* connection it keeps open, or by closing the connection after the body.
Framings == {"Content-Length", "content-length", "close"}

Response(lines, body, framing) ==
  compute_message(
    <<Unit("status", NULL)>> \o lines
    \o IF framing = "close" THEN <<>> ELSE <<Unit(framing, Len(body))>>)
  \o <<CRLF>> \o body

\* The server has the request when it has its header and, after a length, the
\* body that the length counts.
HasRequest ==
  LET end == buffer_find(arrived, <<CRLF, CRLF>>)
      length == buffer_find(arrived, <<Unit("Content-Length", 1)>>)
  IN  /\ answer = <<>> /\ ~closed
      /\ end >= 0
      /\ length >= 0 => Len(arrived) > end + 2

Answers(lines, body) ==
  /\ HasRequest
  /\ \E framing \in Framings :
       /\ answer' = Response(lines, body, framing)
       /\ closed' = (framing = "close")
  /\ UNCHANGED <<stage, message, sent, arrived, buffer, header_end, content_length>>

\* The server stops: what it has not sent yet is never sent.
BreaksOff ==
  /\ stage \notin {"none", "received"} /\ ~closed
  /\ \E k \in Len(buffer) .. Len(answer) : answer' = SubSeq(answer, 1, k)
  /\ closed' = TRUE
  /\ UNCHANGED <<stage, message, sent, arrived, buffer, header_end, content_length>>

-----------------------------------------------------------------------------
(* Properties.                                                             *)

\* Whatever pieces write() takes, the server receives the request once, in
\* order and from its beginning (helpers.c:58-70).
RequestIntact == IsPrefix(arrived, message)

\* Whatever pieces the response arrives in, what receive_from_server returns
\* is all of it: header and body, with a length or without one, also when the
\* header's end is split between two reads (helpers.c:80-123).
WholeResponse == stage = "received" => buffer = answer

=============================================================================
