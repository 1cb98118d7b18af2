------------------------------ MODULE BlockPool ------------------------------
(***************************************************************************)
(* BlockMemoryPool (common/alloter/pool_block.cpp): the blocks of the buffer *)
(* queues, kept in a vector of free blocks.  Each function holds the mutex   *)
(* of the IOCP build from its first to its last statement, except that       *)
(* PoolLargeFree calls ReleaseHalf after it has given the mutex up.  The     *)
(* build without a mutex uses a pool on one thread only.                    *)
(***************************************************************************)
EXTENDS Integers, Sequences, SequencesExt, FiniteSets

CONSTANTS
    Threads,     \* the threads that use the pool
    AddNum,      \* _number_large_add_nodes
    MaxBlockNum, \* __max_block_num
    MaxBlocks    \* bound on the blocks malloc'ed at one time

ASSUME BlockPoolAssumption == /\ AddNum \in Nat \ {0} /\ MaxBlockNum \in Nat
                              /\ AddNum <= MaxBlockNum /\ MaxBlocks \in Nat
                              /\ IsFiniteSet(Threads)

VARIABLES
    free_vec,  \* _free_mem_vec
    mapped,    \* the blocks malloc'ed and not freed
    used,      \* used[b]: how many callers hold block b
    pending,   \* the threads between the two halves of PoolLargeFree
    alive      \* FALSE once the pool is destroyed

block_vars == <<free_vec, mapped, used, pending, alive>>

Blocks == 1 .. MaxBlocks

BlockInit == /\ free_vec = <<>> /\ mapped = {} /\ used = [b \in Blocks |-> 0]
        /\ pending = {} /\ alive = TRUE

InUse == {b \in Blocks : used[b] > 0}

(* Expansion: what malloc returns is not in use, and no block twice.         *)
Expansions == {s \in [1 .. AddNum -> Blocks \ mapped] : IsInjective(s)}

(* Mutant: back() without pop_back().                                       *)
PoolLargeMallocKeeps(t) ==
    /\ alive /\ t \notin pending
    /\ \E more \in IF free_vec = <<>> THEN Expansions ELSE {<<>>} :
         LET vec == free_vec \o more
         IN  /\ mapped' = mapped \cup Range(more)
             /\ used' = [used EXCEPT ![Last(vec)] = @ + 1]
             /\ free_vec' = vec
    /\ UNCHANGED <<pending, alive>>

PoolLargeMalloc(t) ==
    /\ alive /\ t \notin pending
    /\ \E more \in IF free_vec = <<>> THEN Expansions ELSE {<<>>} :
         LET vec == free_vec \o more
         IN  /\ mapped' = mapped \cup Range(more)
             /\ used' = [used EXCEPT ![Last(vec)] = @ + 1]
             /\ free_vec' = Front(vec)
    /\ UNCHANGED <<pending, alive>>

(* Mutant: == for >, which two threads can step over.                       *)
PoolLargeFreeEqual(t, b) ==
    /\ alive /\ t \notin pending /\ used[b] > 0
    /\ used' = [used EXCEPT ![b] = @ - 1]
    /\ free_vec' = Append(free_vec, b)
    /\ pending' = IF Len(free_vec') = MaxBlockNum + 1 THEN pending \cup {t} ELSE pending
    /\ UNCHANGED <<mapped, alive>>

(* The first half of PoolLargeFree; the caller gives back a block it has.    *)
PoolLargeFree(t, b) ==
    /\ alive /\ t \notin pending /\ used[b] > 0
    /\ used' = [used EXCEPT ![b] = @ - 1]
    /\ free_vec' = Append(free_vec, b)
    /\ pending' = IF Len(free_vec') > MaxBlockNum THEN pending \cup {t} ELSE pending
    /\ UNCHANGED <<mapped, alive>>

(* The blocks ReleaseHalf frees of a vector of n: at least one when there is *)
(* one, and until no more than half are left.                               *)
Released(n) == IF n <= 1 THEN n ELSE n - n \div 2

ReleaseHalf(t) ==
    /\ t \in pending
    /\ LET k == Released(Len(free_vec))
       IN  /\ mapped' = mapped \ Range(SubSeq(free_vec, 1, k))
           /\ free_vec' = SubSeq(free_vec, k + 1, Len(free_vec))
    /\ pending' = pending \ {t}
    /\ UNCHANGED <<used, alive>>

(* ~BlockMemoryPool.  The header says: "all memory must return memory pool   *)
(* before destroy".                                                         *)
Destroy ==
    /\ alive /\ InUse = {} /\ pending = {}
    /\ mapped' = mapped \ Range(free_vec)
    /\ free_vec' = <<>> /\ alive' = FALSE
    /\ UNCHANGED <<used, pending>>

BlockNext == \/ \E t \in Threads : PoolLargeMalloc(t) \/ ReleaseHalf(t)
        \/ \E t \in Threads, b \in Blocks : PoolLargeFree(t, b)
        \/ Destroy

BlockSpec == BlockInit /\ [][BlockNext]_block_vars

-----------------------------------------------------------------------------
BlockTypeOK == /\ free_vec \in Seq(Blocks) /\ mapped \subseteq Blocks /\ used \in [Blocks -> Nat]
          /\ pending \subseteq Threads /\ alive \in BOOLEAN

(* A block is free once, or in use, or not there: none is in two places, and *)
(* none that was malloc'ed is lost, up to the destructor, which leaves       *)
(* nothing behind.  The free blocks exceed __max_block_num by no more than   *)
(* the threads that are about to release some.                              *)
BlocksPartition ==
    /\ BlockTypeOK
    /\ IsInjective(free_vec)
    /\ Range(free_vec) \cap InUse = {}
    /\ Range(free_vec) \cup InUse = mapped
    /\ ~alive => mapped = {}
    /\ Len(free_vec) <= MaxBlockNum + Cardinality(pending)

(* What the callers hold does not overlap: the pool is an allocator, and no  *)
(* block is handed out a second time before it is given back.               *)
Regions == {[addr |-> b, len |-> 1, copy |-> n] : b \in Blocks, n \in 1 .. MaxBlocks}
HeldRegions == INSTANCE Allocator WITH live <- {r \in Regions : r.copy <= used[r.addr]}
BlockPoolIsAllocator == HeldRegions!Spec
=============================================================================
