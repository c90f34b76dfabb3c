# Communication Protocols projects: models, checks and proofs

The repository holds three C/C++ programs: a router that reads raw frames
(`Tema_1`), a publish/subscribe broker with its subscribers (`Tema_2`) and a
REST client of a library service (`Tema_3`, with the JSON library it builds its
requests with). This directory models all three in TLA+, checks the models with
TLC and proves the properties that matter most with TLAPS.

## 1. Inventory

| component | source | state | operations | status |
|---|---|---|---|---|
| Broker server | `Tema_2/server.cpp` | `read_fds`, `tmp_fds`, `maxfd`, maps `clients`, `topics_subs`, `msg_holder` | one branch of the select loop per kind of descriptor | modelled |
| Subscriber | `Tema_2/subscriber.cpp` | its socket, its place in the loop | connect, send id, typed line, exit, print, end of stream | partly: not `decode()` |
| Kernel | outside | descriptor table, listen queue, byte streams, UDP queue | connect, accept, send, recv, close, select | external, modelled from its use |
| Router loop | `Tema_1/router.c` | `rtable`, `arp_table`, queue of waiting packets, the block-local `p` | one packet per turn: echo, TTL, checksum, route, forward or wait; ARP request and reply | modelled |
| Router skeleton | `Tema_1/skel.c` | `interfaces` | `get_packet`, `send_packet`, ICMP/ARP builders, parsers, checksums | modelled |
| Queue | `Tema_1/queue.c`, `list.c` | cells, `head`, `tail` | create, empty, enq, deq | modelled |
| REST client | `Tema_3/client.c` | `cookie`, `jwt`, the command loop | register, login, enter_library, get/add/del book, logout, exit | modelled |
| HTTP framing | `Tema_3/helpers.c`, `requests.c`, `buffer.c` | the receive buffer, the position in the message | send all, receive header and body, find cookie, build requests | modelled |
| parson | `Tema_3/parson.c` | trees of allocated values | create, add, replace, remove, clear, copy, free | partly: ownership; not parsing, printing, validating, comparing |
| test bench | `Tema_1/tests.py`, `topo.py` | - | mininet topology, scapy tests | not modelled |

How they interact. In Tema_2 any number of subscriber processes hold one TCP
connection each to one single-threaded broker; UDP publishers send it
datagrams; an operator may type at it. The broker and a subscriber share
nothing but the connection. Tema_1 is one process that reads frames from its
interfaces; what interleaves with it are the hosts, whose packets and ARP
replies come in any order. Tema_3 opens one connection per command to a server
outside the repository, which may cut its answers into pieces or stop.

What is hard, and what makes each part correct:

- **Broker.** Users connect, leave, come back and are killed at any moment,
  while the server is anywhere in a pass over the snapshot `select` gave it.
  Descriptors are reused by the kernel, and the broker identifies a client by
  its descriptor. The record of a client is copied under each topic, with
  flags updated copy by copy. Correct means: the select set is the set of open
  connections; nothing in a pass blocks; a send goes to an open connection of
  the right client; one connection per id; messages stored while a client is
  away are forwarded once, in order; nobody waits for ever.
- **Router.** A packet without a known next hop waits in a queue whose cells
  point at a local variable; one packet is released per ARP reply, and its
  route is searched again. Correct means: whatever leaves verifies, has lost
  one of its TTL and leaves by the interface of a route of its destination;
  the unchecked result of the second search is no NULL; nothing waits for a
  reply that will not come; the search and the loop end; the queue never
  follows its stale tail.
- **parson.** Every call may fail half-way at an allocation. Correct means:
  every value has one owner at any time, whatever sequence of calls, and a
  failed call leaves no trace.
- **REST client.** Cookie and token live from login to logout over commands in
  any order; a response arrives in pieces. Correct means: a token is that of
  the session; the server has no session the client cannot end; what is
  parsed is one whole response; every command ends.

The hazards, each at its line, are listed in `PROJECT.json` with the property
that covers them.

## 2. The broker's modules

| module | what it models |
|---|---|
| `BrokerNet` | sockets: connections, listen queue, streams, resets, the descriptor table, the UDP queue |
| `BrokerServer` | `server.cpp`, one action per branch of the loop body |
| `Subscriber` | `subscriber.cpp`, the publishers, the operator |
| `Broker` | the composition, its fairness, its properties, the inductive invariant, the refinement mapping |
| `StoreForward` | the abstract service: a client is here or away, a message is sent or held |
| `MCBroker` | the instances TLC checks |
| `BrokerProofs`, `DeliveryProofs`, `ServiceProofs` | the theorems: the server's bookkeeping, the order of messages, the abstract service |

### State

| model | code |
|---|---|
| `read_fds`, `tmp_fds`, `maxfd` | the variables of that name; standard input is 0, the UDP socket 3, the listening socket 4, clients from 5 on |
| `newsockfd` | the variable between `accept` and the recv of the id; `NoFd` elsewhere |
| `clients[c]` | the record of id `c`; `fd = NoFd` when the map has no such key |
| `topics_subs[<<t, eol>>][c]` | the copy under topic `t`, or under `t` with a newline at its end |
| `msg_holder[c]` | the queue held for `c`, messages as numbers |
| `conn[f]` | the process whose connection descriptor `f` of the server is |
| `backlog` | connections made and not accepted |
| `c2s[p]`, `s2c[p]` | what was sent and not received, each way |
| `st[p]` | "down", "syn" (connected, id not sent), "up" |
| `ident[p]` | the id `p`'s connection has carried, a history variable for properties and for `ReceivesId` |
| `seen[c]` | the last message printed under `c`, for `InOrder` only |
| `reset` | open connections on which the peer has answered with RST |
| `status` | "up", or how the server ended: "stopped", "die", "sigsegv", "sigpipe" |

An id is its rank among the strings, because the broker's loops walk the maps
in key order and stop at the first match; 0 is the empty string, which is what
the broker records for a peer that closes before it sends an id. A topic that
is in the map without subscribers behaves like one that is not in it (lines
133-136 and 299-310), so the model has all keys from the start. SF is a Boolean:
the code compares it with "1" only.

### Actions

`Select` takes the snapshot of lines 101-104. Then the lowest descriptor of
`tmp_fds` is served by exactly one of:

| action | lines of `server.cpp` |
|---|---|
| `HandleStdin` | 109-119: "exit" ends the loop; anything else falls through to `recv(0)` (251), which fails and `DIE`s |
| `HandleUdp` | 121-169: send to connected entries, hold for the others with SF |
| `UdpBrokenPipe` | the same when a send raises SIGPIPE: the entries before have been served |
| `Accept` | 171-176 |
| `FirstConnect`, `Reconnect`, `Refuse` | 178-247, after the blocking recv of the id |
| `ReconnectBrokenPipe` | 213-219 when a send raises SIGPIPE |
| `ExitLine` | 254-275 |
| `SubscribeLine`, `UnsubscribeLine` | 278-322 |
| `EndOfStream` | 248-281 when recv returns 0, or -1 after a reset |

Each action is atomic because the server is one thread and shares nothing;
only the recv of line 180 makes it wait for another process, and it splits the
branch in two. While `newsockfd` is set, no other server action is enabled.

### Abstractions

- A record or a message is received whole, by one recv. Partial and merged
  reads are not modelled (section 9).
- A send does not block (the buffers of the kernel are not bounded). The
  deadlock this hides is not modelled either.
- Payloads, addresses and printing are left out; a message is its topic and
  its number of arrival.
- Lines typed are the three the program knows, well formed. An unsubscribe
  line ends after the topic, newline included, or has another word after it;
  `LineEnds` says which a run has.
- `select` is not interrupted, memory does not run out, UDP does not lose what
  has reached the socket.

## 3. Runs of the broker

All these runs have two processes, one topic, descriptors 5 and 6, and at most one
unread record per socket (`MaxPending = 1`; an "exit" and the id come on
top). Two processes are the least with which a descriptor changes hands, two
connections compete for an id, or one client sits in `recv` while another one
waits. One topic suffices because no branch touches two topics except the
loops of 201-209 and 269-275, which treat all alike; the keys `<<t, FALSE>>`
and `<<t, TRUE>>` still make two.

| run | instance | what it checks |
|---|---|---|
| `broker_safety` | ids 1 and 2, one message, `p1` may be killed | `TypeOK`, `WatchedFds`, `TmpFdsServable`, `CopiesAgree`, `SendsOnlyToOpen`, `OwnSubscriptions` |
| `broker_one_id` | both processes with id 1, three messages, `p1` may be killed, operator exit | `NoGhosts`, `OneConnectionPerId`, `StoreOnlyOffline`, `InOrder`, `OwnDescriptor`, `ImplementsStoreForward` |
| `broker_live` | as before, two messages, under `FairSpec` | `DatagramServed`, `RequestAnswered`, `DescriptorReleased`, `EveryoneLeaves` |
| `broker_ghost` | ids 1 and 2 | violates `NoGhosts` |
| `broker_unsubscribe` | ids 1 and 2, unsubscribe lines end after the topic | violates `UnsubscribeRemoves` |
| `broker_ends` | `p1` may be killed | violates `EndsOnlyOnExit` |

Three messages are what `InOrder` needs: one printed or on the wire, two held
and possibly swapped. `NoGhosts` and `ImplementsStoreForward` hold when all
processes share one id and fail with two: that is the first finding. What
fails then is `OwnDescriptor`, on which both rest (section 4). Deadlock
is checked in every run; `Halted` is the one state the system may stay in.

The violated properties, each found within seconds and confirmed with the
compiled programs:

1. **A ghost** (`broker_ghost`). Client 1 leaves, client 2 gets its
   descriptor number and leaves: lines 261-267 find client 1's record again,
   and client 2 is refused for ever as already connected. The same first match
   credits client 2's subscribe lines to client 1.
2. **unsubscribe does nothing** (`broker_unsubscribe`). The newline stays on
   the topic.
3. **The server ends without "exit"** (`broker_ends`). A client that closes
   without "exit" crashes it (`strncmp(NULL, ..)`); so do an operator line
   other than "exit", a reset, and a second send to a client that has left.

`OwnSubscriptions` is therefore stated for the lines whose descriptor no other
record has.

### Fairness

`FairSpec` assumes weak fairness of `ServerStep`: the server is one process the
scheduler runs; it is not assumed to prefer any descriptor, that is what the
properties are about. For a subscriber it assumes weak fairness of what it does
without its user: send the id after connect (lines 85-93 follow each other),
and print or stop when select reports the socket. Since standard input is
looked at first (`subscriber.cpp:114`), the latter assumes a user who does not
type without pause. Users, publishers and the operator are under no fairness:
nobody need type "exit". Where a client that never sends its id would block the
broker for ever, fairness of `SendId` is what `RequestAnswered` rests on; a
client of another make need not have it.

## 4. Proofs about the broker

The broker's theorems hold for every finite set of ids, every set of processes
and topics, every bound, and every choice of killable processes and of typed
lines (`BrokerAssumption`, the only assumption on constants):

| theorem | states |
|---|---|
| `Invariance` | `Spec => []IInv` |
| `TypeCorrect` | `TypeOK` |
| `WatchedFdsCorrect` | `WatchedFds` |
| `PassNeverBlocks` | `TmpFdsServable` |
| `NoTwoConnections` | `OneConnectionPerId` |
| `CopiesCoherent` | `CopiesAgree` |
| `SendsOnlyToOpenFds` | `SendsOnlyToOpen` |
| `HeldOnlyWhileAway` | `StoreOnlyOffline` |
| `LinesChangeOwnEntries` | `OwnSubscriptions`, an action property |
| `Delivery` | `Spec => [](IInv /\ DeliveryInv)` |
| `DeliveredInOrder` | `InOrder` |
| `NoGhostsWhileOwn` | `Spec /\ []OwnDescriptor => []NoGhosts` |
| `Refinement` | `Spec /\ []OwnDescriptor => ImplementsStoreForward` |
| `OwnDescriptorOneId` | `OwnDescriptor`, when all processes have one id |
| `NoGhostsOneId`, `RefinementOneId` | `NoGhosts` and `ImplementsStoreForward`, when all processes have one id |

The inductive invariant `IInv` (in `Broker`, checked by TLC before it was
proved) is these, and what they need from each other:

- `PassInv`: what is left of a pass is in `read_fds`, and a descriptor that
  waits for its id is open. Without it closing a descriptor could leave it in
  the pass.
- `PlaceInv`: a connection is in one place, once in the backlog or at one
  descriptor. Reading from a connection therefore does not make another
  descriptor of the pass unreadable: `TmpFdsServable` rests on it.
- `IdInv`: a process that has not sent its id has sent nothing and is not
  watched, so the id of a served connection does not change.
- `StoreInv`: messages are held only for ids that are in `clients`, so that
  `FirstConnect` starts with an empty queue; it strengthens
  `StoreOnlyOffline`.
- `CopiesAgree` and `SendsOnlyToOpen` need each other: an exit marks every copy
  with the closed descriptor; that these are all connected copies of clients
  without a connection is `SendsOnlyToOpen` before the step.

`NextInv` has one lemma per action. The common parts are lemmas of their own:
`RegisterInv` for both ways to register, `LineInv` for the two lines that keep
the connection, `ServerEndsInv` for every way the server ends, `OutsideInv` for
all steps outside the server, `EndsFacts` for all ways a process ends.
`LinesChangeOwnEntries` follows from `IInv` at the step: only a line takes a
descriptor out of the pass and leaves its connection open (`OnlyLinesServe`),
and by `CopiesAgree` the entries with that descriptor are those of the id whose
record has it (`LineOwnsEntries`).

**Order of messages** (`DeliveryProofs`). `InOrder` speaks of neighbours in a
queue; `DeliveryInv`, inductive relative to `IInv`, speaks of all messages of a
client wherever they are: printed, on the wire, held. It has four parts.
`OrderInv` orders them (what is on a wire precedes what is held for the same
id). `ArrivalInv` makes the datagrams at the UDP socket newer than all of them,
so that appending at either end keeps the order. `ReaderInv` says that unread
messages belong to a process that runs and is watched, and to one process per
id only: a hand-over starts with an empty wire and cannot overtake another
process's. `RecordInv` says that the id read is the process's own and that
"exit" is its last record.

**Ghosts and the abstract service** (`ServiceProofs`). The broker finds a client
by its descriptor, taking the first record in the map that has it. This is
right as long as no other record has kept the number of a served client's
descriptor, which is `OwnDescriptor`. The code does not ensure it: run
`broker_ghost` shows the two clients that break it. Everything else about the
service is then proved from it. `NoGhostsWhileOwn` says that an id taken to be
connected has a connection; `Refinement` maps every step of the broker to a step
of `StoreForward` or to a stutter, with a lemma per action and per case of what
a client is (away, here, gone but not yet noticed). The condition is not empty:
`OwnDescriptorOneId` proves it whenever all processes share one id, for any
number of processes, and run `broker_one_id` checks it. With `OwnDescriptor` as
a hypothesis the two theorems say exactly what the ghost of section 3 costs: all
that the service promises can be lost through a reused descriptor, and in no
other way.

Only model-checked: the liveness properties (`DatagramServed`,
`RequestAnswered`, `DescriptorReleased`, `EveryoneLeaves`), which are out of the
prover's reach.

## 5. The router

| module | what it models |
|---|---|
| `RouteSearch` | reading and sorting the table (`parsing_rtable`, `qsort`, `comparator`) and `get_best_route`, one iteration of its loop a step |
| `Checksum` | `ip_checksum` and `icmp_checksum`, over words of two bytes: data at an odd or unaligned address is cut into 32-bit blocks of which the first and the last are filled with zeros |
| `LinkedQueue` | `queue.c` and `list.c`: cells that malloc may give out again, `head`, `tail` |
| `Fifo` | what a queue promises |
| `Router` | the packet loop with `skel.c`, composed of the three above and of the hosts on its networks |
| `MCRouter` | the instance TLC checks, and an evaluation of both checksums for every small header and alignment |
| `QueueProofs`, `RouterProofs` | the theorems |

| state | code |
|---|---|
| `m` | the frame that is handled, with its interface |
| `slot` | the storage of `p`, local to the block of lines 174-187, whose address is queued |
| `packet_aux` | the packet taken from the queue (line 224); if the compiler gives both the same storage nothing changes, for `p` is not read after the copy |
| `heap`, `head`, `tail` | the queue; an element is the number of the packet for which it was put there |
| `arp_table` | its entries in use |
| `dest_ip`, `left`, `right`, `searching`, `best_route` | arguments and locals of `get_best_route`; `best_route` is an index, 0 for NULL |
| `pc` | where the loop is; "crash" when the interface of a NULL route is read |
| `inbox`, `asked`, `traffic` | the network: frames not read, ARP requests not answered, what hosts have sent (history) |
| `out` | the frame written by the last step |

| action | lines of `router.c` |
|---|---|
| `get_packet` | 124-126 with `skel.c` 49-71: the lowest readable interface |
| `EchoToUs`, `Expired`, `WrongChecksum` | 134-157 |
| `LookUp`, `Search`, `HostUnreachable` | 159-165 with 68-89 |
| `AskAndWait`, `Forward` | 166-193 |
| `AnswerArp`, `IgnoreArp` | 196-211 |
| `ReplyNobodyWaits`, `ReplyOneLeaves`, `Resend` | 213-232 |

The hosts send IP packets and ARP requests, answer requests, and send replies
nobody asked for or a second time; they do so while the loop is anywhere in a
packet. Addresses are numbers and `Masked` is the bitwise and; a byte is a digit
of base `Base` (16), so that the checksums are computed as the code does, on
words that overflow. A received header stands at `Align = 2` (m.payload + 14),
those built on the stack at 0. A TTL of 64 is `Base - 1`.

The run `router` has two interfaces, a host on each, one of them a gateway to a
third network, six kinds of packets (`Packets`: to a neighbour, behind the
gateway, nowhere, expired, corrupt, to the router), a table of one mask and a
table of several, and three frames sent by the hosts (`MaxTraffic`). Three are
what it takes to have one packet leave the queue, run it empty and queue again
behind a stale tail, or to have two wait when a third arrives. Three cells
(`Cells`) never run out; malloc failing is not modelled. Two places in the ARP
table (`ArpRoom`) for two hosts are the boundary case.

| property | question |
|---|---|
| `SearchSound` | a route that is returned matches; with one mask none is missed |
| `NoNullRoute` | line 230 never reads through NULL |
| `HeadersSound` | what leaves verifies, lost one of its TTL, kept the rest |
| `RightInterface` | it leaves by the interface of a route of its destination |
| `ArpFits` | no duplicate entry, no write past `arp_table` |
| `NoneStranded`, `QueueDrains` | each packet that waits has a reply on its way; the queue empties |
| `TailAlive`, `QueueIsFifo` | the stale tail is never followed; the queue implements `Fifo` |
| `LoopGoesOn` | search and loop end for every packet |

`CHECK_DEADLOCK FALSE`: when the hosts fall silent the router waits for ever in
select. Fairness (`FairSpec`): the router runs whenever it can read something,
and a host that is asked answers; hosts need not send. `NoneStranded` and
`QueueDrains` are about next hops that exist (`EveryHopAnswers`: each route's
next hop is a host on its interface, as in the run): the code has no retry, and a
packet whose request is lost waits for the reply to a later one.

Violated: `WaitingCopies` (run `router_copy`): "put a copy of the packet in the
queue" says line 183, but all that wait share `p`, and of two waiting packets the
second is sent twice. `NextHopMac` (run `router_mac`): a packet leaves with the
MAC address of whichever host replies first, not its next hop's.

## 6. The JSON library

`Json` models who owns what in parson's trees. `heap` holds the allocated
values with their parent, names, children and capacity; `held` the values that
are the caller's to free; `status` what the last call returned. There is one
action per call (`json_object_set_value`, `_dotset_value`, `json_array_append_value`,
... and their variants that make the leaf themselves, removals, clears, copy,
free). A call that allocates may fail at each of its allocations and does what
its error path does. A dotted name has two parts, which reaches every branch of
the recursion once. Two slips of the caller are excluded because the library
documents no answer to them: putting a tree into itself, and using a value he
gave away.

The run `json` has four addresses, two names, allocations that may fail and a
`STARTING_CAPACITY` of 1 so that arrays grow within four values. Four values
are a root, a container in it, a leaf and one more to replace it with. Addresses
and names are interchangeable, so both are symmetric; all properties are safety
properties. Deadlock is checked. `OneOwner` and `NothingLeaks` together exclude
use after free, double free and leaks; `WithinCapacity` the write past an array;
`NamesUnique` a second pair of a name; `FailureChangesNothing` is the promise of
the error paths.

What `json_value_free` frees is `Subtree`: the least set with the value and its
members' members, written without recursion so that proofs can speak of it.

### Proofs about the JSON library

`JsonProofs` proves all six properties for every set of addresses, shared or
not, any number of names, every `STARTING_CAPACITY` above 0 and any history of
calls and failed allocations (`JsonAssumption`):

| theorem | states |
|---|---|
| `HeapInvariance` | `Inv`: `Good(heap)`, and the caller holds exactly the roots |
| `OwnersUnique`, `NoneLost` | `OneOwner`, `NothingLeaks` |
| `CapacityKept`, `NamesOnce` | `WithinCapacity`, `NamesUnique` |
| `FailuresUndo` | `FailureChangesNothing`, an action property |
| `TypeCorrect` | `TypeOK` |

`Good` is what the single properties leave out: containers and the parents their
members name agree (`Owned`), no value is part of a value it contains
(`Acyclic`), and every cell's arrays are well-formed (`CellOK`). Without
`Acyclic` nothing says that freeing a member leaves its container alone. The
proof has three layers. The first is about graphs only: what a least closed set
contains, what becomes of ownership, acyclicity and roots when an edge is added
from outside a tree or a subtree goes. The second is about one container: the
doubling of the arrays, the swap of the last pair into a hole, the replacement
at an index. The third combines them, one lemma per call and outcome; a call
that gives a value away is described by `GivesOK` (the value is the container's
and no longer a root, or nothing has changed), one that frees by `LosesOK`. A
deep copy is an injection of the tree into free addresses; the capacities it
ends with, which the code gets by appending member after member, are bounded by
induction over the number of members.

## 7. The REST client

| module | what it models |
|---|---|
| `HttpExchange` | one exchange: `requests.c`, `send_to_server`, `receive_from_server`, `buffer.c` |
| `RestClient` | `client.c`: the commands, cookie and token, `get_cookies`; and the server as the client expects it |
| `MCRest` | the instance |
| `RestProofs`, `FramingProofs` | the theorems: the session's token and the request; the response and the session on both sides |

A message is a sequence of units (a header line, a line end, a piece of body)
with a name and a value; positions count units where the code counts bytes. The
end of the header is two units, so a read can end between them; a write or a
read takes any number of units. `header_end = -1` and the unsigned sum of line
109 are kept: the sum is computed modulo `SizeT` (1024 here, more than any
message). Cookies are numbered as the server gives them out, a token has the
number of the session it was issued for, `Junk` is what an uninitialised pointer
shows.

| action | code |
|---|---|
| `register`, `login`, ..., `logout`, `exit` | the branches of the command loop up to the open connection |
| `send_to_server` | one `write` of `helpers.c` 58-70 |
| `ReadHeaders`, `EndInHeaders`, `ReadBody`, `Received` | the two loops of `helpers.c` 80-123, one `read` a step |
| `ShowEnds`, `LoginEnds`, `EnterLibraryEnds`, `LogoutEnds` | what a command does with the response, and `close_connection` |
| `ErrorExit` | `error()`: a failing write or read ends the client |
| `Refuses`, `StartsSession`, `GivesAccess`, `EndsSession`, `Serves`, `Breaks` | the server, external |

The server frames an answer by Content-Length in either spelling, on a connection
it keeps open, or by closing; it may stop at any point of an exchange. The run
`rest` allows two sessions (`MaxLogins`), one ended and one new, and
`MayBreak`. Fairness: the client works through a command without its user, and
the server answers what it has received; nothing has to fail and no command has
to be typed. `CHECK_DEADLOCK FALSE` because the client stops after exit.

`CookieFromServer` is violated (run `rest_cookie`): an answer to login that is cut
off has neither "error" nor a cookie, and `get_cookies` returns a pointer nobody
has set.

## 8. Proofs about the router and the client

Both are proved for every value of the constants: any table, hosts, datagrams,
checksum base, alignment, number of frames; any number of sessions. The
assumptions are the named ones of the modules (`AddrsAssumption`,
`MaskedAssumption`, `TablesAssumption`, `BaseAssumption`, `NullAssumption`,
`CellsAssumption`, `RouterAssumption`; `SizeTAssumption`, `RestAssumption`).
They type the constants, and beyond that say: there are finitely many cells,
interfaces and neighbours; a byte can hold the ICMP types (`Base > 11`) and the
`getpid()` of the model is a byte (16 bits in the code, whose id field is a
word); `SizeT` is above 9, for no answer of the server has more than nine units
and the sum of line 109 must not wrap round within one.

| theorem | states | rests on |
|---|---|---|
| `RouterInvariance` | `RouterInv` | one lemma per action |
| `SearchCorrect` | `SearchSound` | the table is sorted by prefix and has one mask: when Mid's masked address is larger than its prefix, every match lies right of Mid |
| `SearchShrinks` | each turn of the loop of `get_best_route` leaves less to search, so that it ends after at most n + 1 turns for n routes | `IntervalInv`: the interval is at worst empty by one |
| `LeavesByItsRoute` | `RightInterface` | `WaitingInv`: when something waits, `p` holds a packet with an address, and `dest_ip` is the address of what is about to leave |
| `ResendHasRoute` | `NoNullRoute` | `FateInv` |
| `ArpTableFits` | `ArpFits` | entries are neighbours and distinct; the pigeonhole principle |
| `TypeCorrect` | the router's `TypeOK` | `TypesInv`, with `QueueInv` |
| `QueueTailAlive` | `TailAlive` | `QueueInv`: what is pointed to is allocated, nothing points to the head, no two cells to one |
| `QueueKeepsOrder` | `QueueIsFifo`, the refinement of `Fifo` | `ChainInv`: the cells from `head` on are a chain that ends at `tail` |
| `NoneIsStranded` | `NoneStranded` | sums over the requests and replies under way |
| `HeadersVerify` | `HeadersSound` | ones'-complement arithmetic and `SoundInv` |
| `RestInvariance` | `RestInv` | one lemma per group of actions |
| `RequestArrivesIntact` | `RequestIntact` | what has arrived is the first `sent` units; adjacent pieces join |
| `TokenBelongsToSession` | `TokenOfSession` | requests carry the client's cookie only, answers give access to that session only, and a login starts without a cookie |
| `ExchangeInvariance` | `FramedInv` and `SessionInv` | one lemma per step of an exchange |
| `ResponseIsWhole` | `WholeResponse` | `FramedInv` |
| `SessionsAgree` | `OneSession` | `SessionInv` |
| `ClientTypes` | the client's `TypeOK` | both |

**The search.** `NoNullRoute` needs that a search that found a route finds one
again, in tables where the binary search may miss routes. What a search visits
is not in the state. `RouterProofs` therefore says that a search from a pair
<<left, right>> finds nothing (`Lost`) by a set of pairs that contains it, that
the loop cannot leave and in which no middle matches. `FateInv` says that the
search under way is lost exactly if the one from the whole table is, and that
neither the packet in `p` nor the one that is being resent is lost.

**The queue.** `Items`, what a reader of the list would see, follows `next` from
`head`. `ChainInv` names the cells it passes (`IsChain`): distinct, allocated,
each pointing to the next, the last one `tail`. That the chain is what `Items`
reads is one induction (`NthOfChain`); that enq appends to a chain and deq takes
its first cell off, also when malloc gives a freed cell out again, is
`EnqChain` and `DeqChain`.

**None stranded.** `RepliesToCome` is a sum over all neighbours and all
interfaces. `SumMoves` says what every step needs: a sum over a finite set
changes by what one summand changes by. A request adds one to the neighbour
asked (and `EveryHopAnswers` says there is one), an answer moves one from the
neighbour to an inbox, `get_packet` from an inbox to the frame at hand, and
`ReplyOneLeaves` uses it up with one element of the queue.

**The checksums.** Two numbers are the `Same` when they differ by a multiple of
the largest word, `Ones`. A word times `Word16` is the same as the word, so the
32-bit blocks of `ip_checksum` are the same as the sum of the 16-bit words when
the header starts at an even address, and as `Base` times that when it starts at
an odd one (`BlocksWorth`). Folding the carries yields the one number from 1 to
`Ones` that is the same (`FoldCarriesWorth`), and the swap of the two bytes
multiplies by `Base` once more, which makes `Word16` (`SwapFacts`). So at every
alignment the checksum is `Ones` minus a number that is the same as the words of
the header (`IpSum`), and the two foldings of `icmp_checksum` do it for up to
2 * `Ones` (`IcmpSum`). From there: a header with its checksum in place verifies
(`WithCheckFacts`), one whose checksum is off by one is found wherever it stands
(`CorruptedFound`), and `SoundInv` carries this along: the frames that came are
as their hosts sent them, those that wait were found good and counted down once.

**Framing.** An answer is `Framed` when each of its beginnings in which a reader
finds both the end of the header and a length gives the length of the whole.
The server's answers are, because the length is the header's last line and
neither its name nor the empty line occurs before (`ResponseShape`,
`LengthAtOf`). `FramedInv` then says that a reader in the second loop either is
at the end of the connection or waits for the whole (`Awaits`), wherever the
reads cut the answer, between the two line ends too.

**Sessions.** `SessionInv` states what each side knows: the request on its way is
the one of the command, a logout shows the cookie, and as long as no exchange
broke, the server's sessions are the client's up to the answer that is on its
way (`OpenSession`).

**Induction.** The library's induction theorems take an operator and cannot be
used here. Where an induction over numbers is needed it is done with
well-founded minima (`WFMin`) or with sets of numbers that contain 0 and the
successor of each member (`AllNumbers` in `QueueProofs`, `InductSet` in
`JsonProofs`), and over finite sets with `AllSubsets` in `RouterProofs`. A
recursive function is given its value by exhibiting one that satisfies its
equation and showing that there is no other.

**Only model-checked**: the liveness properties (`QueueDrains`, `LoopGoesOn`,
`CommandEnds`, and those of the broker), for which the provers have no rule that
covers ENABLED. Every other property of a passing run is a theorem.

## 9. Not modelled, and why

- `decode()` in `subscriber.cpp` (payload formatting), terminal output, argument
  parsing: no state depends on them.
- Records of 1600 and 1570 bytes that TCP delivers in parts, and sends that
  block on a full buffer, in Tema_2: the network model hands over whole
  records on unbounded channels. Modelling the streams byte by byte multiplies
  every broker run; the two hazards are listed as open.
- Lost ARP packets and a host that changes its MAC address (the code has no
  retry and no update, so there is no promise to check); starvation by an
  interface that is never empty.
- parson's parser, serialiser, validation and comparison: functions of text or
  trees without state; the client serialises its requests with it and parses no
  response.
- In Tema_3: standard input that ends (the loop then repeats the bad-command
  message for ever), typed lines too long for their arrays, chunked answers.
- The mininet test bench: it holds no state of the programs.

What would come next: the record streams of Tema_2, received in parts, and more
lemmas about single steps from which the liveness of the packet loop follows
(`SearchShrinks` is the first).
