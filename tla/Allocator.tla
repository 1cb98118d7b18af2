------------------------------ MODULE Allocator ------------------------------
(***************************************************************************)
(* What a memory allocator promises: the regions it has handed out and not   *)
(* got back never overlap.  PoolAlloter and BlockPool implement it.          *)
(***************************************************************************)
EXTENDS Integers

VARIABLE live   \* the regions [addr, len] in use

Disjoint(r, s) == r.addr + r.len <= s.addr \/ s.addr + s.len <= r.addr

Init == live = {}

Alloc == \E r \in live' :
           /\ r \notin live
           /\ r.len > 0
           /\ \A s \in live : Disjoint(r, s)
           /\ live' = live \cup {r}

Free == \E r \in live : live' = live \ {r}

Spec == Init /\ [][Alloc \/ Free]_live
=============================================================================
