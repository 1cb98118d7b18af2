------------------------------ MODULE MCUvServer ------------------------------
(***************************************************************************)
(* UvServer on a small instance, and the heap's operations on every heap of  *)
(* up to HeapSize nodes: the few connections of the instance do not make     *)
(* heaps deep enough for all of their cases.                                *)
(***************************************************************************)
EXTENDS UvServer

CONSTANTS HeapSize, HeapKeys

ASSUME HeapAssumption == HeapSize \in Nat /\ HeapKeys \subseteq Int

MCTimeouts == {-1, 1}

(* The heaps of n nodes, node i at place i.                                 *)
HeapsOf(n) ==
    {h \in {[p |-> [i \in 0 .. n - 1 |-> i], n |-> n, idx |-> [i \in 0 .. n - 1 |-> i], key |-> k] :
                k \in [0 .. n - 1 -> HeapKeys]} : IsHeap(h)}

(* Taking any node out, and setting any node's key to any value, leaves a    *)
(* heap of the other nodes, of all the nodes: the last node that fills a gap *)
(* may have to move up as well as down, which takes six nodes (minheap.c's   *)
(* comment: "it can't need to shift both up and down").                     *)
HeapOpsRight ==
    \A n \in 1 .. HeapSize : \A h \in HeapsOf(n) : \A e \in 0 .. n - 1 :
       /\ LET g == minheap_erase(h, e)
          IN  IsHeap(g) /\ {g.p[i] : i \in 0 .. g.n - 1} = (0 .. n - 1) \ {e}
       /\ \A k \in HeapKeys :
             LET g == minheap_adjust([h EXCEPT !.key[e] = k], e)
             IN  IsHeap(g) /\ {g.p[i] : i \in 0 .. g.n - 1} = 0 .. n - 1

(* minheap_erase and minheap_adjust keep every heap of up to HeapSize nodes a *)
(* heap (HeapOpsRight), stated where the server's own heap is empty.         *)
HeapsStayHeaps == heap.n = 0 => HeapOpsRight
=============================================================================
