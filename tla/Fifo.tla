-------------------------------- MODULE Fifo ---------------------------------
(* What queue.c promises: elements leave in the order they came.            *)
EXTENDS Sequences

CONSTANT Elements
VARIABLE items

Init == items = <<>>
Enq == \E e \in Elements : items' = Append(items, e)
Deq == items # <<>> /\ items' = Tail(items)
Spec == Init /\ [][Enq \/ Deq]_items
==============================================================================
