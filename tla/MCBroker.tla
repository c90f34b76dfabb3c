------------------------------ MODULE MCBroker -------------------------------
(* Instances of Broker for TLC: two subscriber processes, started with two  *)
(* ids (descriptors pass from one id to the other) or both with the same    *)
(* one (the second is refused, or returns before the first has been seen to *)
(* leave).                                                                  *)
EXTENDS Broker, TLC

CONSTANTS p1, p2

TwoIds == p1 :> 1 @@ p2 :> 2
OneId == p1 :> 1 @@ p2 :> 1
==============================================================================
