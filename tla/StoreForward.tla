---------------------------- MODULE StoreForward -----------------------------
(* What the broker of Tema_2 promises its clients, with no descriptors, no  *)
(* passes and no copies of records: per client, whether it is here, what it *)
(* is subscribed to, what is held for it and what is on its way to it.      *)
EXTENDS Integers, Sequences

CONSTANTS Ids, Topics, Numbers

VARIABLES phase,  \* "away", "here", or "gone": left, and the service
                  \* has not noticed
          subs,   \* per client and topic: "no", or "drop" / "store": what to
                  \* do with a message while the client is away
          held,   \* messages kept for a client that is away
          wire    \* messages sent to a client and not printed yet

vars == <<phase, subs, held, wire>>

Init ==
  /\ phase = [c \in Ids |-> "away"]
  /\ subs = [c \in Ids |-> [t \in Topics |-> "no"]]
  /\ held = [c \in Ids |-> <<>>]
  /\ wire = [c \in Ids |-> <<>>]

Arrive(c) ==
  /\ phase[c] = "away"
  /\ phase' = [phase EXCEPT ![c] = "here"]
  /\ wire' = [wire EXCEPT ![c] = held[c]]
  /\ held' = [held EXCEPT ![c] = <<>>]
  /\ UNCHANGED subs

\* The client left again before the service turned to it: what was held is
\* sent to nobody.
ArriveGone(c) ==
  /\ phase[c] = "away"
  /\ phase' = [phase EXCEPT ![c] = "gone"]
  /\ held' = [held EXCEPT ![c] = <<>>]
  /\ UNCHANGED <<subs, wire>>

Leave(c) ==
  /\ phase[c] = "here"
  /\ phase' = [phase EXCEPT ![c] = "gone"]
  /\ wire' = [wire EXCEPT ![c] = <<>>]
  /\ UNCHANGED <<subs, held>>

Notice(c) ==
  /\ phase[c] = "gone"
  /\ phase' = [phase EXCEPT ![c] = "away"]
  /\ UNCHANGED <<subs, held, wire>>

\* A first subscription counts; a second one changes nothing.
Subscribe(c, t, policy) ==
  /\ phase[c] # "away" /\ subs[c][t] = "no"
  /\ subs' = [subs EXCEPT ![c][t] = policy]
  /\ UNCHANGED <<phase, held, wire>>

Unsubscribe(c, t) ==
  /\ phase[c] # "away"
  /\ subs' = [subs EXCEPT ![c][t] = "no"]
  /\ UNCHANGED <<phase, held, wire>>

\* Every subscriber that is here is sent the message, once; it is held for
\* every subscriber that is away and asked for it.
Message(t, n) ==
  /\ wire' = [c \in Ids |-> IF phase[c] = "here" /\ subs[c][t] # "no"
                              THEN Append(wire[c], n) ELSE wire[c]]
  /\ held' = [c \in Ids |-> IF phase[c] = "away" /\ subs[c][t] = "store"
                              THEN Append(held[c], n) ELSE held[c]]
  /\ UNCHANGED <<phase, subs>>

Deliver(c) ==
  /\ wire[c] # <<>>
  /\ wire' = [wire EXCEPT ![c] = Tail(@)]
  /\ UNCHANGED <<phase, subs, held>>

\* The service ends; it keeps nothing.
Stop ==
  /\ phase' = [c \in Ids |-> "away"]
  /\ subs' = [c \in Ids |-> [t \in Topics |-> "no"]]
  /\ held' = [c \in Ids |-> <<>>]
  /\ wire' = [c \in Ids |-> <<>>]

Next ==
  \/ \E c \in Ids :
       \/ Arrive(c) \/ ArriveGone(c) \/ Leave(c) \/ Notice(c) \/ Deliver(c)
       \/ \E t \in Topics :
            \/ \E policy \in {"drop", "store"} : Subscribe(c, t, policy)
            \/ Unsubscribe(c, t)
  \/ \E t \in Topics, n \in Numbers : Message(t, n)
  \/ Stop

Spec == Init /\ [][Next]_vars
==============================================================================
