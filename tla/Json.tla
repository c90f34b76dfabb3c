-------------------------------- MODULE Json ---------------------------------
(* Who owns which value in the trees of Tema_3/parson.c: the operations the *)
(* REST client builds its request bodies with, and their siblings on        *)
(* objects and arrays.  A call is one step; where it allocates it may fail, *)
(* and it does what its error path does.  An operation's outcomes are the   *)
(* pairs of its status and the heap it leaves.                              *)
EXTENDS Naturals, SequencesExt

CONSTANTS
  Addresses,          \* bound: values that are allocated at the same time
  Names,              \* member names
  STARTING_CAPACITY,  \* 16 in the code
  MayFail,            \* parson_malloc returns NULL in some calls
  NULL

ASSUME JsonAssumption ==
  /\ NULL \notin Addresses /\ STARTING_CAPACITY \in Nat \ {0}
  /\ MayFail \in BOOLEAN

VARIABLES
  heap,     \* the allocated values
  held,     \* those the caller has a pointer to that is his to free
  status    \* what the last call returned

vars == <<heap, held, status>>

Types == {"object", "array", "leaf"}

\* JSON_Value with its JSON_Object or JSON_Array; strings, numbers, booleans
\* and null are leaves.
New(type) ==
  [type |-> type, parent |-> NULL, names |-> <<>>, values |-> <<>>, capacity |-> 0]

Fresh(h) == Addresses \ DOMAIN h
Malloc(h, x, type) ==
  [z \in {x} \cup DOMAIN h |-> IF z \in DOMAIN h THEN h[z] ELSE New(type)]

Children(h, v) == ToSet(h[v].values)

\* What json_value_free reaches from v (json_object_free, json_array_free):
\* the least set with v and the children of its members.
Subtree(h, v) ==
  {x \in DOMAIN h :
     \A S \in SUBSET DOMAIN h :
       v \in S /\ (\A y \in S : Children(h, y) \cap DOMAIN h \subseteq S) => x \in S}

json_value_free(h, S) ==
  [x \in DOMAIN h \ UNION {Subtree(h, v) : v \in S} |-> h[x]]

\* The container c changes to cell, and v becomes part of it.
Changed(h, c, cell) == [x \in DOMAIN h |-> IF x = c THEN cell ELSE h[x]]
Linked(h, c, cell, v) == Changed(Changed(h, c, cell), v, [h[v] EXCEPT !.parent = c])

Failure(h) == IF MayFail THEN {<<"failure", h>>} ELSE {}

-----------------------------------------------------------------------------
(* Objects.                                                                 *)

\* A plausible bug: the loop ends one pair early.
AtButLast(h, o, name) == {i \in 1 .. Len(h[o].names) - 1 : h[o].names[i] = name}

At(h, o, name) == {i \in 1 .. Len(h[o].names) : h[o].names[i] = name}

\* A plausible bug: the array never grows.
Unresized(c) == [c EXCEPT !.capacity = STARTING_CAPACITY]

\* Room for one more: doubled when it is full.
Resized(c) ==
  IF Len(c.values) < c.capacity THEN c
  ELSE [c EXCEPT !.capacity = IF 2 * @ > STARTING_CAPACITY THEN 2 * @ ELSE STARTING_CAPACITY]

\* json_object_addn: the resize may fail, or the copy of the name after it.
Addn(h, o, name, v) ==
  LET grown == Resized(h[o])
  IN  IF At(h, o, name) # {} THEN {<<"failure", h>>}
      ELSE {<<"success", Linked(h, o, [grown EXCEPT !.names = Append(@, name),
                                                    !.values = Append(@, v)], v)>>}
           \cup Failure(h) \cup Failure(Changed(h, o, grown))

Free(h, v) == h[v].parent = NULL

\* json_object_set_value: the old value of the name is freed.
SetValue(h, o, name, v) ==
  IF ~Free(h, v) THEN {<<"failure", h>>}
  ELSE IF At(h, o, name) = {} THEN Addn(h, o, name, v)
  ELSE LET i == CHOOSE k \in At(h, o, name) : TRUE
           rest == json_value_free(h, {h[o].values[i]})
       IN  {<<"success", Linked(rest, o, [rest[o] EXCEPT !.values[i] = v], v)>>}

\* A plausible bug: only the name is moved.
WithoutName(c, i) ==
  LET n == Len(c.names)
  IN  [c EXCEPT !.names = SubSeq([c.names EXCEPT ![i] = c.names[n]], 1, n - 1),
                !.values = SubSeq(c.values, 1, n - 1)]

\* The last pair takes the place of the one that goes.
WithoutPair(c, i) ==
  LET n == Len(c.names)
  IN  [c EXCEPT !.names = SubSeq([c.names EXCEPT ![i] = c.names[n]], 1, n - 1),
                !.values = SubSeq([c.values EXCEPT ![i] = c.values[n]], 1, n - 1)]

\* json_object_remove_internal; without free_value the value keeps its parent.
RemoveInternal(h, o, name, free_value) ==
  IF At(h, o, name) = {} THEN {<<"failure", h>>}
  ELSE LET i == CHOOSE k \in At(h, o, name) : TRUE
           rest == IF free_value THEN json_value_free(h, {h[o].values[i]}) ELSE h
       IN  {<<"success", Changed(rest, o, WithoutPair(rest[o], i))>>}

\* A plausible bug: the value is not taken out first.
UndoneWithValue(h, x, name) == json_value_free(h, {x})

\* json_object_dotset_value, lines 1927-1931: the value is taken out again
\* and the object that was made for it freed.
Undone(h, x, name) ==
  LET out == CHOOSE r \in RemoveInternal(h, x, name, FALSE) : TRUE
  IN  json_value_free(out[2], {x})

\* json_object_dotset_value for a name of two parts.
DotSetValue(h, o, first, second, v) ==
  IF At(h, o, first) # {}
  THEN LET t == h[o].values[CHOOSE k \in At(h, o, first) : TRUE]
       IN  IF h[t].type = "object" THEN SetValue(h, t, second, v) ELSE {<<"failure", h>>}
  ELSE Failure(h) \cup
       UNION {LET made == SetValue(Malloc(h, x, "object"), x, second, v)
              IN  UNION {IF inner[1] = "failure"
                         THEN {<<"failure", json_value_free(inner[2], {x})>>}
                         ELSE {IF out[1] = "success" THEN out
                               ELSE <<"failure", Undone(out[2], x, second)>> :
                               out \in Addn(inner[2], o, first, x)} :
                         inner \in made} :
              x \in Fresh(h)}

(* Arrays.                                                                  *)

\* json_array_append_value and json_array_add.
AppendValue(h, a, v) ==
  IF ~Free(h, v) THEN {<<"failure", h>>}
  ELSE {<<"success", Linked(h, a, [Resized(h[a]) EXCEPT !.values = Append(@, v)], v)>>}
       \cup (IF Len(h[a].values) < h[a].capacity THEN {} ELSE Failure(h))

\* A plausible bug: the old item is not freed.
ItemKept(h, v) == h

Dropped(h, v) == json_value_free(h, {v})

ReplaceValue(h, a, i, v) ==
  IF ~Free(h, v) \/ i > Len(h[a].values) THEN {<<"failure", h>>}
  ELSE LET rest == Dropped(h, h[a].values[i])
       IN  {<<"success", Linked(rest, a, [rest[a] EXCEPT !.values[i] = v], v)>>}

ArrayRemove(h, a, i) ==
  IF i > Len(h[a].values) THEN {<<"failure", h>>}
  ELSE LET rest == json_value_free(h, {h[a].values[i]})
       IN  {<<"success", Changed(rest, a, [rest[a] EXCEPT !.values = RemoveAt(@, i)])>>}

\* Every value is freed, the capacity stays.
Clear(h, c) ==
  {<<"success", Changed(json_value_free(h, Children(h, c)), c,
                        [h[c] EXCEPT !.names = <<>>, !.values = <<>>])>>}

\* The capacity that adding n values one by one leaves.
CapacityOf[n \in Nat] ==
  IF n = 0 THEN 0
  ELSE Resized([values |-> [k \in 1 .. n - 1 |-> 0], capacity |-> CapacityOf[n - 1]]).capacity

\* A deep copy: f names the copy of each value below v; when an
\* allocation fails everything copied so far is freed.
Copied(h, v, f) ==
  [x \in DOMAIN h \cup {f[y] : y \in DOMAIN f} |->
     IF x \in DOMAIN h THEN h[x]
     ELSE LET y == CHOOSE z \in DOMAIN f : f[z] = x
          IN  [type |-> h[y].type, names |-> h[y].names,
               parent |-> IF y = v THEN NULL ELSE f[h[y].parent],
               values |-> [k \in 1 .. Len(h[y].values) |-> f[h[y].values[k]]],
               capacity |-> CapacityOf[Len(h[y].values)]]]

-----------------------------------------------------------------------------
(* The calls.                                                               *)

Objects == {x \in DOMAIN heap : heap[x].type = "object"}
Arrays == {x \in DOMAIN heap : heap[x].type = "array"}
Containers == Objects \cup Arrays

Init == heap = <<>> /\ held = {} /\ status = "none"

\* json_value_init_object, _array, _string, _number, _boolean, _null.
InitValue ==
  \E x \in Fresh(heap), type \in Types : \E ok \in {TRUE, ~MayFail} :
    IF ok THEN /\ heap' = Malloc(heap, x, type)
               /\ held' = held \cup {x} /\ status' = "success"
    ELSE status' = "failure" /\ UNCHANGED <<heap, held>>

\* What a call that gives v away leaves: v is the container's on success.
Gives(v, outcomes) ==
  \E out \in outcomes :
    /\ heap' = out[2] /\ status' = out[1]
    /\ held' = IF out[1] = "success" THEN held \ {v} ELSE held

\* The caller gives one of his values away; he never puts a tree into itself.
json_object_set_value ==
  \E o \in Objects, n \in Names, v \in held :
    o \notin Subtree(heap, v) /\ Gives(v, SetValue(heap, o, n, v))

json_object_dotset_value ==
  \E o \in Objects, n, n2 \in Names, v \in held :
    o \notin Subtree(heap, v) /\ Gives(v, DotSetValue(heap, o, n, n2, v))

json_array_append_value ==
  \E a \in Arrays, v \in held :
    a \notin Subtree(heap, v) /\ Gives(v, AppendValue(heap, a, v))

json_array_replace_value ==
  \E a \in Arrays, v \in held : \E i \in 1 .. Len(heap[a].values) + 1 :
    a \notin Subtree(heap, v) /\ Gives(v, ReplaceValue(heap, a, i, v))

\* A plausible bug: the new value is not freed when it finds no place.
LeafKept(out, x) == out[2]

LeafFreed(out, x) == IF out[1] = "success" THEN out[2] ELSE json_value_free(out[2], {x})

\* The calls that make the value x themselves: init, give, or free it again.
NewLeaf(x, outcomes) ==
  \E out \in outcomes \cup Failure(heap) :
    /\ heap' = IF x \in DOMAIN out[2] THEN LeafFreed(out, x) ELSE out[2]
    /\ status' = out[1] /\ UNCHANGED held

WithLeaf(x) == Malloc(heap, x, "leaf")

\* _string, _number, _boolean and _null of each.
json_object_set_leaf ==
  \E o \in Objects, n \in Names, x \in Fresh(heap) :
    NewLeaf(x, SetValue(WithLeaf(x), o, n, x))

json_object_dotset_leaf ==
  \E o \in Objects, n, n2 \in Names, x \in Fresh(heap) :
    NewLeaf(x, DotSetValue(WithLeaf(x), o, n, n2, x))

json_array_append_leaf ==
  \E a \in Arrays, x \in Fresh(heap) : NewLeaf(x, AppendValue(WithLeaf(x), a, x))

json_array_replace_leaf ==
  \E a \in Arrays, x \in Fresh(heap) : \E i \in 1 .. Len(heap[a].values) + 1 :
    NewLeaf(x, ReplaceValue(WithLeaf(x), a, i, x))

\* What a call that takes values out leaves; those are freed.
Loses(outcomes) ==
  \E out \in outcomes : heap' = out[2] /\ status' = out[1] /\ UNCHANGED held

json_object_remove ==
  \E o \in Objects, n \in Names : Loses(RemoveInternal(heap, o, n, TRUE))

json_array_remove ==
  \E a \in Arrays : \E i \in 1 .. Len(heap[a].values) + 1 : Loses(ArrayRemove(heap, a, i))

json_object_clear == \E o \in Objects : Loses(Clear(heap, o))
json_array_clear == \E a \in Arrays : Loses(Clear(heap, a))

json_value_deep_copy ==
  \E v \in DOMAIN heap :
    LET tree == Subtree(heap, v)
    IN  \/ \E f \in [tree -> Fresh(heap)] :
             /\ \A x, y \in tree : f[x] = f[y] => x = y
             /\ heap' = Copied(heap, v, f)
             /\ held' = held \cup {f[v]} /\ status' = "success"
        \/ MayFail /\ status' = "failure" /\ UNCHANGED <<heap, held>>

FreeValue ==
  \E v \in held :
    /\ heap' = json_value_free(heap, {v})
    /\ held' = held \ {v} /\ status' = "success"

Next ==
  \/ InitValue \/ FreeValue \/ json_value_deep_copy
  \/ json_object_set_value \/ json_object_dotset_value
  \/ json_array_append_value \/ json_array_replace_value
  \/ json_object_set_leaf \/ json_object_dotset_leaf
  \/ json_array_append_leaf \/ json_array_replace_leaf
  \/ json_object_remove \/ json_array_remove \/ json_object_clear \/ json_array_clear

Spec == Init /\ [][Next]_vars

-----------------------------------------------------------------------------
Places == UNION {{c} \X (1 .. Len(heap[c].values)) : c \in DOMAIN heap}
ValueAt(p) == heap[p[1]].values[p[2]]

TypeOK ==
  /\ DOMAIN heap \subseteq Addresses /\ held \subseteq DOMAIN heap
  /\ \A x \in DOMAIN heap :
       /\ heap[x].type \in Types /\ heap[x].parent \in Addresses \cup {NULL}
       /\ ToSet(heap[x].names) \subseteq Names
  /\ status \in {"none", "success", "failure"}

\* json_value_free and every call that frees or moves values (354-543,
\* 1352-1367, 1666-2014): what a container points to is allocated, sits in
\* one place only and names that container as its parent.  Otherwise a free
\* would be followed by a use of the value, or by a second free.
OneOwner ==
  \A p \in Places :
    /\ ValueAt(p) \in DOMAIN heap
    /\ heap[ValueAt(p)].parent = p[1]
    /\ \A q \in Places : ValueAt(p) = ValueAt(q) => p = q

\* What the caller holds is what is in no container: a value given away,
\* replaced, removed or half built by a call that failed is freed by somebody
\* and by one only.
NothingLeaks == held = DOMAIN heap \ {ValueAt(p) : p \in Places}

\* json_object_addn with json_object_resize (374-427), and json_array_add: a
\* write at index count stays inside the array, after any history of
\* removals and failed calls.
WithinCapacity ==
  \A c \in Containers :
    /\ Len(heap[c].values) <= heap[c].capacity
    /\ c \in Objects => Len(heap[c].names) = Len(heap[c].values)

\* An object has a name once: set replaces, a failed or repeated dotset adds
\* no second pair, and a removal that moves the last pair keeps both in step.
NamesUnique ==
  \A o \in Objects : \A i, j \in 1 .. Len(heap[o].names) :
    heap[o].names[i] = heap[o].names[j] => i = j

\* Error paths: a call that fails allocates nothing that stays, frees
\* nothing that was there, and leaves every tree as it was.
FailureChangesNothing ==
  [][status' = "failure" =>
       /\ DOMAIN heap' = DOMAIN heap /\ held' = held
       /\ \A x \in DOMAIN heap : heap'[x].names = heap[x].names
                                 /\ heap'[x].values = heap[x].values]_vars
==============================================================================
