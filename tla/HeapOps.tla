------------------------------- MODULE HeapOps -------------------------------
(***************************************************************************)
(* The minimum heap of libuv-lua (minheap.c): an array of nodes, each with   *)
(* its place in the array (minheap_idx, -1 when it is in no heap) and its    *)
(* key (ev_timeout).  A heap is a record: p[0 .. n-1] is the array, idx and  *)
(* key are functions on the nodes.  What lies beyond n in the array is dead. *)
(*                                                                          *)
(* minheap_reserve_ is left out: the array always has room.                 *)
(***************************************************************************)
EXTENDS Integers

Parent(i) == (i - 1) \div 2

minheap_init(nodes) == [p |-> [i \in {} |-> 0], n |-> 0,
                        idx |-> [e \in nodes |-> -1], key |-> [e \in nodes |-> 0]]

(* minheap_elem_greater: node a is greater than node b.                     *)
Greater(h, a, b) == h.key[a] > h.key[b]

minheap_elm_inheap(h, e) == h.idx[e] # -1

(* The heap of n nodes in array q, with the places along path written: each  *)
(* write sets the minheap_idx of the node as well.                          *)
Written(h, q, n, path) ==
    [h EXCEPT !.p = [k \in 0 .. n - 1 |-> q[k]], !.n = n,
              !.idx = [e \in DOMAIN h.idx |->
                  IF \E k \in path : q[k] = e THEN CHOOSE k \in path : q[k] = e ELSE h.idx[e]]]

(* minheap_shift_up_: from the hole at i the greater ancestors move down and *)
(* e is put where they stop.  minheap_shift_up_unconditional_ is the same,   *)
(* as its callers have compared the first parent already.                   *)
UpStops(h, j, e) == j = 0 \/ ~Greater(h, h.p[Parent(j)], e)

UpPath(h, i, e) ==
    LET Path[j \in 0 .. i] == IF UpStops(h, j, e) THEN {j} ELSE {j} \cup Path[Parent(j)]
    IN  Path[i]

ShiftUp(h, i, e, n) ==
    LET path == UpPath(h, i, e)
        q    == [k \in 0 .. n - 1 |-> IF k \notin path THEN h.p[k]
                                      ELSE IF UpStops(h, k, e) THEN e ELSE h.p[Parent(k)]]
    IN  Written(h, q, n, path)

(* Mutant: always the left child.                                           *)
LeftChild(h, j, n) == 2 * (j + 1) - 1

(* The lesser child of place j in a heap of n; the right one if they tie.    *)
MinChild(h, j, n) ==
    LET right == 2 * (j + 1)
    IN  IF right = n \/ Greater(h, h.p[right], h.p[right - 1]) THEN right - 1 ELSE right

(* minheap_shift_down_: from the hole at i the lesser children move up as    *)
(* long as they are less than e.                                            *)
DownStops(h, j, e, n) == 2 * (j + 1) > n \/ ~Greater(h, e, h.p[MinChild(h, j, n)])

DownPath(h, i, e, n) ==
    LET Path[j \in 0 .. n] == IF DownStops(h, j, e, n) THEN {j}
                              ELSE {j} \cup Path[MinChild(h, j, n)]
    IN  Path[i]

ShiftDown(h, i, e, n) ==
    LET path == DownPath(h, i, e, n)
        q    == [k \in 0 .. n |-> IF k \notin path THEN IF k < n THEN h.p[k] ELSE e
                                  ELSE IF DownStops(h, k, e, n) THEN e
                                  ELSE h.p[MinChild(h, k, n)]]
    IN  Written(h, q, n, path)

Removed(h, e) == [h EXCEPT !.idx[e] = -1]

minheap_push(h, e) == ShiftUp(h, h.n, e, h.n + 1)

minheap_pop(h) == Removed(ShiftDown(h, 0, h.p[h.n - 1], h.n - 1), h.p[0])

(* Node x takes the place i, up or down from there, in a heap of n.          *)
Settle(h, i, x, n) ==
    IF i > 0 /\ Greater(h, h.p[Parent(i)], x) THEN ShiftUp(h, i, x, n) ELSE ShiftDown(h, i, x, n)

(* Mutant: the last node is only moved down.                                *)
EraseDown(h, e) ==
    IF h.idx[e] = -1 THEN h
    ELSE Removed(ShiftDown(h, h.idx[e], h.p[h.n - 1], h.n - 1), e)

minheap_erase(h, e) ==
    IF h.idx[e] = -1 THEN h
    ELSE Removed(Settle(h, h.idx[e], h.p[h.n - 1], h.n - 1), e)

(* Mutant: the key has changed, but the node stays.                         *)
AdjustNothing(h, e) == IF h.idx[e] = -1 THEN minheap_push(h, e) ELSE h

minheap_adjust(h, e) ==
    IF h.idx[e] = -1 THEN minheap_push(h, e) ELSE Settle(h, h.idx[e], e, h.n)

(* The order of a heap, and that the nodes know their places.               *)
IsHeap(h) ==
    /\ \A i \in 1 .. h.n - 1 : ~Greater(h, h.p[Parent(i)], h.p[i])
    /\ \A i \in 0 .. h.n - 1 : h.idx[h.p[i]] = i
    /\ \A e \in DOMAIN h.idx : h.idx[e] # -1 => h.idx[e] \in 0 .. h.n - 1 /\ h.p[h.idx[e]] = e
=============================================================================
