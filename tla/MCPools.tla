------------------------------- MODULE MCPools -------------------------------
(***************************************************************************)
(* The two pools of a connection, checked in one run.  They share no state,  *)
(* so a behaviour exercises one of them: which tells which.                  *)
(***************************************************************************)
EXTENDS PoolAlloter, BlockPool

VARIABLE which

Init == which \in {"alloter", "blocks"} /\ PoolInit /\ BlockInit

Next == \/ which = "alloter" /\ PoolNext /\ UNCHANGED <<which, block_vars>>
        \/ which = "blocks" /\ BlockNext /\ UNCHANGED <<which, pool_vars>>

Spec == Init /\ [][Next]_<<which, pool_vars, block_vars>>
=============================================================================
