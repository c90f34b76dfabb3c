----------------------------- MODULE RestClient -----------------------------
(***************************************************************************)
(* The library client of src/Tema_3/client.c: a loop of commands, each one *)
(* HTTP exchange, and the session it keeps between them: the cookie that   *)
(* login returns and the JWT that enter_library returns.                   *)
(*                                                                         *)
(* Cookies are numbered in the order the server gives them out; the token  *)
(* that gives access to the library carries the number of the cookie it    *)
(* was issued for.  What the user types after a prompt is part of the      *)
(* command; user names and books are not told apart.                       *)
(***************************************************************************)
EXTENDS HttpExchange

CONSTANTS
  MaxLogins,     \* bound: sessions the server starts
  MayBreak       \* whether the server may stop in the middle of an exchange

\* No answer has more than nine units.
ASSUME RestAssumption == MaxLogins \in Nat /\ MayBreak \in BOOLEAN /\ SizeT > 9

VARIABLES
  command,       \* the command in progress, "idle" or "exit"
  cookie, jwt,   \* the client's session: NULL or a value
  sessions,      \* the server: the cookies of the sessions that are open
  started,       \* the server: how many sessions it has started
  broke          \* the server has stopped in the middle of an exchange

clientVars == <<command, cookie, jwt>>
serverVars == <<sessions, started, broke>>
vars == <<httpVars, clientVars, serverVars>>

Junk == MaxLogins + 1      \* an uninitialised pointer that is not NULL

Init ==
  /\ HttpInit
  /\ command = "idle" /\ cookie = NULL /\ jwt = NULL
  /\ sessions = {} /\ started = 0 /\ broke = FALSE

-----------------------------------------------------------------------------
(* The commands: from the line the user types to the open connection.      *)

\* The command loop takes a command and opens the connection for its request.
Command(name, request) ==
  /\ command = "idle"
  /\ command' = name
  /\ open_connection(request)
  /\ UNCHANGED <<cookie, jwt, serverVars>>

Account == Unit("account", NULL)
Book == Unit("book", NULL)

register ==
  Command("register", compute_post_request("POST register", NULL, Account, NULL))

\* A plausible bug: a client that is logged in logs in again.
LoginAnyway ==
  /\ started < MaxLogins
  /\ Command("login", compute_post_request("POST login", NULL, Account, NULL))

\* With a cookie the client only says that it is already logged in.
login ==
  /\ cookie = NULL /\ started < MaxLogins
  /\ Command("login", compute_post_request("POST login", NULL, Account, NULL))

enter_library ==
  Command("enter_library", compute_get_request("GET access", cookie, NULL))

get_books ==
  Command("get_books", compute_get_request("GET books", cookie, jwt))

get_book ==
  Command("get_book", compute_get_request("GET book", NULL, jwt))

add_book ==
  Command("add_book", compute_post_request("POST books", jwt, Book, NULL))

del_book ==
  Command("del_book", compute_del_request("DELETE book", NULL, jwt))

logout ==
  Command("logout", compute_get_request("GET logout", cookie, NULL))

exit ==
  /\ command = "idle"
  /\ command' = "exit"
  /\ UNCHANGED <<httpVars, cookie, jwt, serverVars>>

-----------------------------------------------------------------------------
(* The end of a command: what it does with the response, then              *)
(* close_connection.                                                       *)

Holds(text, name) == \E i \in DOMAIN text : text[i].is = name

\* The value of the first unit of that name.
FirstValue(text, name) ==
  text[CHOOSE i \in DOMAIN text :
         text[i].is = name /\ \A j \in 1 .. i - 1 : text[j].is # name].of

\* get_cookies: strtok restarts inside the first Set-Cookie line, so the loop
\* ends there; without one the local pointer is returned uninitialised.
get_cookies(response) ==
  IF Holds(response, "Set-Cookie")
  THEN {FirstValue(response, "Set-Cookie")}
  ELSE {NULL, Junk}

\* A plausible bug: a command forgets to close its connection.
EndsConnected(name) ==
  /\ command = name /\ stage = "received"
  /\ command' = "idle"
  /\ UNCHANGED <<httpVars, serverVars>>

Ends(name) ==
  /\ command = name /\ stage = "received"
  /\ command' = "idle"
  /\ close_connection
  /\ UNCHANGED serverVars

\* The commands that only show the response.
ShowEnds ==
  \E name \in {"register", "get_books", "get_book", "add_book", "del_book"} :
    /\ Ends(name)
    /\ UNCHANGED <<cookie, jwt>>

LoginEnds ==
  /\ Ends("login")
  /\ IF Holds(buffer, "error")
     THEN UNCHANGED cookie
     ELSE cookie' \in get_cookies(buffer)
  /\ UNCHANGED jwt

\* strtok restarts inside the line that holds the token, as in get_cookies.
EnterLibraryEnds ==
  /\ Ends("enter_library")
  /\ jwt' = IF Holds(buffer, "token") THEN FirstValue(buffer, "token") ELSE jwt
  /\ UNCHANGED cookie

\* A plausible bug: the access token survives the session.
LogoutKeepsToken ==
  /\ Ends("logout")
  /\ cookie' = NULL
  /\ UNCHANGED jwt

\* Whatever the server answered.
LogoutEnds ==
  /\ Ends("logout")
  /\ cookie' = NULL /\ jwt' = NULL

\* error() of open_connection, send_to_server and receive_from_server: a
\* connection that breaks while the client writes or reads ends the client.
ErrorExit ==
  /\ MayBreak /\ stage \in {"sending", "headers", "body"}
  /\ command' = "exit" /\ broke' = TRUE
  /\ close_connection
  /\ UNCHANGED <<cookie, jwt, sessions, started>>

-----------------------------------------------------------------------------
(* The server (external): it refuses a request, or does what it asks.      *)

Failure == <<Unit("error", NULL), Unit("reason", NULL)>>
Success == <<Unit("open", NULL), Unit("close", NULL)>>

Asks(url) == HasRequest /\ arrived[1].is = url

\* The value of a header line of the request, NULL without it.
Field(name) ==
  IF Holds(arrived, name) THEN FirstValue(arrived, name) ELSE NULL

\* Wrong names and passwords, books that do not exist, missing rights.
Refuses ==
  /\ HasRequest
  /\ Asks("GET access") \/ Asks("GET logout") => Field("Cookie") \notin sessions
  /\ Answers(<<>>, Failure)
  /\ UNCHANGED <<clientVars, serverVars>>

StartsSession ==
  /\ Asks("POST login")
  /\ started' = started + 1
  /\ sessions' = sessions \cup {started'}
  /\ Answers(<<Unit("Set-Cookie", started')>>, Success)
  /\ UNCHANGED <<clientVars, broke>>

GivesAccess ==
  /\ Asks("GET access") /\ Field("Cookie") \in sessions
  /\ Answers(<<>>, <<Unit("token", Field("Cookie")), Unit("close", NULL)>>)
  /\ UNCHANGED <<clientVars, serverVars>>

EndsSession ==
  /\ Asks("GET logout") /\ Field("Cookie") \in sessions
  /\ sessions' = sessions \ {Field("Cookie")}
  /\ Answers(<<>>, Success)
  /\ UNCHANGED <<clientVars, started, broke>>

Serves ==
  /\ \/ Asks("POST register")
     \/ /\ \/ Asks("GET books") \/ Asks("GET book")
           \/ Asks("POST books") \/ Asks("DELETE book")
        /\ Field("Authorization") # NULL
  /\ Answers(<<>>, Success)
  /\ UNCHANGED <<clientVars, serverVars>>

Breaks ==
  /\ MayBreak /\ BreaksOff
  /\ broke' = TRUE
  /\ UNCHANGED <<clientVars, sessions, started>>

-----------------------------------------------------------------------------
Starts == \/ register \/ login \/ enter_library \/ get_books \/ get_book
          \/ add_book \/ del_book \/ logout \/ exit

Works == /\ send_to_server \/ receive_from_server
         /\ UNCHANGED <<clientVars, serverVars>>

Finishes == ShowEnds \/ LoginEnds \/ EnterLibraryEnds \/ LogoutEnds

Replies == Refuses \/ StartsSession \/ GivesAccess \/ EndsSession \/ Serves

Next == Starts \/ Works \/ Finishes \/ ErrorExit \/ Replies \/ Breaks

Spec == Init /\ [][Next]_vars

\* The client works through a command without waiting for its user, and the
\* server answers a request that it has received; nothing has to fail.
FairSpec == Spec /\ WF_vars(Works) /\ WF_vars(Finishes) /\ WF_vars(Replies)

-----------------------------------------------------------------------------
(* Properties.                                                             *)

\* Every variable holds a value of its kind; a token or a cookie that the
\* client keeps was given out by the server or is an uninitialised pointer.
TypeOK ==
  /\ stage \in {"none", "sending", "headers", "body", "received"}
  /\ sent \in 0 .. Len(message) /\ closed \in BOOLEAN
  /\ header_end \in -1 .. Len(buffer) /\ content_length \in Nat
  /\ Len(answer) < SizeT /\ Len(buffer) <= Len(answer)
  /\ command \in {"idle", "exit", "register", "login", "enter_library",
                  "get_books", "get_book", "add_book", "del_book", "logout"}
  /\ (stage = "none") = (command \in {"idle", "exit"})
  /\ cookie \in 0 .. Junk /\ jwt \in 0 .. MaxLogins
  /\ started \in 0 .. MaxLogins /\ sessions \subseteq 1 .. started
  /\ broke \in BOOLEAN

\* A client that shows a token shows that of the session it is logged in to:
\* no logout, failed login or failed enter_library leaves it with the token of
\* another (client.c:96, 138-141, 171-178, 350-351).
TokenOfSession == jwt # NULL => jwt = cookie

\* Between two commands the server holds open at most the one session whose
\* cookie the client knows, and that one is open, as long as the server has
\* answered every request (client.c:96, 140, 336-350).
OneSession ==
  command = "idle" /\ ~broke => sessions = {cookie} \ {NULL}

\* Every command comes to its end, whichever way the server frames its answer
\* and whether it keeps the connection open or breaks it (helpers.c:80-123).
CommandEnds == command \notin {"idle", "exit"} ~> command \in {"idle", "exit"}

\* The README: login keeps the cookie returned by the server.  Violated: the
\* answer of a server that stops before it is complete has neither an error
\* nor a cookie, and get_cookies returns its uninitialised variable.
CookieFromServer == cookie \in 0 .. started

=============================================================================
