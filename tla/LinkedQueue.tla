----------------------------- MODULE LinkedQueue -----------------------------
(* queue.c and list.c of Tema_1: a queue of malloc'ed cells.  queue_deq     *)
(* moves head only, so tail may be the address of a freed cell; whether it  *)
(* is ever followed then is what the promise of a queue hangs on.           *)
EXTENDS Naturals, Sequences, FiniteSets

CONSTANTS
  Cells,      \* addresses malloc can return
  Elements,   \* what the queue holds
  NULL

ASSUME NullAssumption == NULL \notin Cells
ASSUME CellsAssumption == IsFiniteSet(Cells)

VARIABLES
  heap,       \* the allocated cells, each with its element and next
  head, tail

queueVars == <<heap, head, tail>>

Cell == [element : Elements, next : Cells \cup {NULL}]

queue_create == heap = <<>> /\ head = NULL /\ tail = NULL

queue_empty == head = NULL

\* cons: any address that is not in use; freed ones are used again.
NewCell(cells, c, e) ==
  [x \in DOMAIN cells \cup {c} |->
     IF x = c THEN [element |-> e, next |-> NULL] ELSE cells[x]]

\* A plausible bug: the new cell is linked to the first.
LinkedToHead(c) ==
  [x \in DOMAIN heap |-> IF x = head THEN [heap[x] EXCEPT !.next = c] ELSE heap[x]]

\* q->tail->next = c: a link written to a freed cell is lost.
Linked(c) ==
  [x \in DOMAIN heap |-> IF x = tail THEN [heap[x] EXCEPT !.next = c] ELSE heap[x]]

\* A plausible bug: tail stays at the cell before the new one.
EnqBehindTail(e) ==
  \E c \in Cells \ DOMAIN heap :
    /\ tail' = IF queue_empty THEN c ELSE tail
    /\ IF queue_empty
       THEN head' = c /\ heap' = NewCell(heap, c, e)
       ELSE UNCHANGED head /\ heap' = NewCell(Linked(c), c, e)

queue_enq(e) ==
  \E c \in Cells \ DOMAIN heap :
    /\ tail' = c
    /\ IF queue_empty
       THEN head' = c /\ heap' = NewCell(heap, c, e)
       ELSE UNCHANGED head /\ heap' = NewCell(Linked(c), c, e)

\* The first element; and cdr_and_free of its cell.
FrontElement == heap[head].element

queue_deq ==
  /\ ~queue_empty
  /\ head' = heap[head].next
  /\ heap' = [c \in DOMAIN heap \ {head} |-> heap[c]]
  /\ UNCHANGED tail

\* The n-th cell from the head, NULL when there is none.
Nth[n \in Nat] ==
  IF n = 0 THEN head
  ELSE IF Nth[n - 1] \in DOMAIN heap THEN heap[Nth[n - 1]].next ELSE NULL

\* The elements that can be reached from head, in that order.
Items ==
  LET reached == {n \in 0 .. Cardinality(Cells) - 1 : Nth[n] \in DOMAIN heap}
  IN  [k \in 1 .. Cardinality(reached) |-> heap[Nth[k - 1]].element]

Promised == INSTANCE Fifo WITH items <- Items

QueueTypeOK ==
  /\ DOMAIN heap \subseteq Cells
  /\ \A c \in DOMAIN heap : heap[c] \in Cell
  /\ {head, tail} \subseteq Cells \cup {NULL}

\* queue.c 34-42, list.c 9-17: although queue_deq leaves tail alone and frees
\* the cell it may point to, a queue that has elements has its tail among its
\* cells, and the last of them: the next queue_enq writes to no freed cell.
TailAlive == ~queue_empty => tail \in DOMAIN heap /\ heap[tail].next = NULL

\* queue.c and list.c: over enqueues and dequeues in any order, with cells
\* freed and used again, elements leave in the order they came and none is
\* lost (tail is stale after the last one has left).
QueueIsFifo == Promised!Spec
==============================================================================
