----------------------------- MODULE PoolAlloter -----------------------------
(***************************************************************************)
(* PoolAlloter (common/alloter/pool_alloter.cpp): small objects from free    *)
(* lists by size class, filled from chunks; large ones straight from malloc. *)
(* Addresses are byte offsets, with alignment __align scaled down.  A free   *)
(* list is the sequence of its nodes.                                       *)
(***************************************************************************)
EXTENDS Integers, Sequences, SequencesExt, FiniteSets, FiniteSetsExt

CONSTANTS
    Unit,      \* __align
    MaxBytes,  \* __default_max_bytes
    AddNodes,  \* __default_number_add_nodes
    Sizes,     \* the sizes asked for
    MaxLive,   \* bound on the allocations in use
    Heap       \* bound on the addresses

ASSUME PoolAssumption == /\ Unit \in Nat \ {0} /\ AddNodes \in Nat \ {0, 1}
                         /\ MaxBytes \in Nat /\ MaxBytes % Unit = 0
                         /\ Sizes \subseteq Nat \ {0} /\ {MaxLive, Heap} \subseteq Nat

VARIABLES
    pool,  \* [start, end]: _pool_start and _pool_end; list[i]: _free_list[i];
           \* chunks: the regions of _malloc_vec
    large, \* the regions got from malloc for large objects
    live   \* the regions the callers have, as they asked for them

pool_vars == <<pool, large, live>>

Classes == 0 .. (MaxBytes \div Unit) - 1

Align(size) == ((size + Unit - 1) \div Unit) * Unit
FreeListIndex(size) == (size + Unit - 1) \div Unit - 1

PoolInit == /\ pool = [start |-> 0, end |-> 0, list |-> [i \in Classes |-> <<>>], chunks |-> {}]
        /\ large = {} /\ live = {}

Disjoint(r, s) == r.addr + r.len <= s.addr \/ s.addr + s.len <= r.addr

(* malloc: any aligned region of n bytes that is not in use.                 *)
Room(n) == {a \in 1 .. Heap - n : /\ a % Unit = 1 % Unit
                                  /\ \A r \in pool.chunks \cup large :
                                       Disjoint([addr |-> a, len |-> n], r)}
Malloced(n) == {[addr |-> a, len |-> n] : a \in Room(n)}

-----------------------------------------------------------------------------
LeftBytes(p) == p.end - p.start

(* ChunkAlloc when the rest of the pool holds a node or more: what is left   *)
(* of p, the nodes' place and how many there are.                           *)
Carve(p, size) ==
    LET nums == IF LeftBytes(p) >= size * AddNodes THEN AddNodes ELSE LeftBytes(p) \div size
    IN  [pool |-> [p EXCEPT !.start = @ + size * nums], res |-> p.start, nums |-> nums]

(* ChunkAlloc otherwise: the rest, too small for a node of this size, becomes *)
(* the head of the list of this size, in front of the list of its own size.  *)
KeepRest(p, size) ==
    IF LeftBytes(p) = 0 THEN p
    ELSE [p EXCEPT !.list[FreeListIndex(size)] = <<p.start>> \o p.list[FreeListIndex(LeftBytes(p))]]

NewChunk(p, c) == [p EXCEPT !.start = c.addr, !.end = c.addr + c.len, !.chunks = @ \cup {c}]

(* Mutant: a chunk of twice the size, as the classical pool allocator takes. *)
ChunkAllocTwice(p, size) ==
    IF LeftBytes(p) >= size THEN {Carve(p, size)}
    ELSE {Carve(NewChunk(KeepRest(p, size), c), size) :
             c \in Malloced(2 * size * AddNodes + Unit)}

(* ChunkAlloc: what it may return, by the region that malloc gives.          *)
ChunkAlloc(p, size) ==
    IF LeftBytes(p) >= size THEN {Carve(p, size)}
    ELSE {Carve(NewChunk(KeepRest(p, size), c), size) : c \in Malloced(size * AddNodes)}

(* ReFill: the first node is the caller's, the others are the free list.     *)
ReFill(c, size) ==
    LET rest == [i \in 1 .. c.nums - 1 |-> c.res + i * size]
    IN  [addr |-> c.res,
         pool |-> IF c.nums = 1 THEN c.pool
                  ELSE [c.pool EXCEPT !.list[FreeListIndex(size)] = rest]]

(* The caller's region.  copy tells apart two callers given the same one.    *)
Region(a, size) ==
    [addr |-> a, len |-> size,
     copy |-> <<"live", Cardinality({r \in live : r.addr = a /\ r.len = size})>>]

MallocLarge(size) ==
    /\ size > MaxBytes
    /\ \E g \in Malloced(size) : /\ large' = large \cup {g}
                                 /\ live' = live \cup {Region(g.addr, size)}
    /\ UNCHANGED pool

(* Mutant: the head stays in the list.                                      *)
MallocNodeKeeps(size) ==
    LET i == FreeListIndex(size)
    IN  /\ size <= MaxBytes /\ pool.list[i] # <<>>
        /\ live' = live \cup {Region(Head(pool.list[i]), size)}
        /\ UNCHANGED <<pool, large>>

MallocNode(size) ==
    LET i == FreeListIndex(size)
    IN  /\ size <= MaxBytes /\ pool.list[i] # <<>>
        /\ live' = live \cup {Region(Head(pool.list[i]), size)}
        /\ pool' = [pool EXCEPT !.list[i] = Tail(@)]
        /\ UNCHANGED large

NeedsChunk(size) == LeftBytes(pool) < Align(size)

MallocReFill(size) ==
    /\ size <= MaxBytes /\ pool.list[FreeListIndex(size)] = <<>>
    /\ \E c \in ChunkAlloc(pool, Align(size)) :
         LET f == ReFill(c, Align(size))
         IN  pool' = f.pool /\ live' = live \cup {Region(f.addr, size)}
    /\ UNCHANGED large

(* malloc fails under ChunkAlloc: NormalAlloter throws, after the rest of    *)
(* the pool has been linked into the list.                                  *)
MallocFails(size) ==
    /\ size <= MaxBytes /\ pool.list[FreeListIndex(size)] = <<>> /\ NeedsChunk(size)
    /\ pool' = KeepRest(pool, Align(size))
    /\ UNCHANGED <<large, live>>

Malloc(size) == /\ Cardinality(live) < MaxLive
                /\ MallocLarge(size) \/ MallocNode(size) \/ MallocReFill(size)

(* Free of what Malloc returned, with the length it was asked for.           *)
Free(r) ==
    /\ live' = live \ {r}
    /\ IF r.len > MaxBytes
         THEN large' = large \ {[addr |-> r.addr, len |-> r.len]} /\ UNCHANGED pool
         ELSE /\ pool' = [pool EXCEPT !.list[FreeListIndex(r.len)] = <<r.addr>> \o @]
              /\ UNCHANGED large

PoolNext == \/ \E size \in Sizes : Malloc(size)
        \/ \E size \in Sizes : MallocFails(size)
        \/ \E r \in live : Free(r)

PoolSpec == PoolInit /\ [][PoolNext]_pool_vars

-----------------------------------------------------------------------------
PoolTypeOK ==
    /\ pool.start \in 0 .. Heap /\ pool.end \in pool.start .. Heap
    /\ pool.list \in [Classes -> Seq(0 .. Heap)]
    /\ \A r \in pool.chunks \cup large : r.addr \in 1 .. Heap /\ r.len \in 1 .. Heap
    /\ \A r \in live : r.addr \in 1 .. Heap /\ r.len \in Sizes

(* Everything the allocator keeps apart: nodes in the lists, with the room    *)
(* their class promises, what the callers have, and the rest of the pool.    *)
FreeNodes == UNION {{[addr |-> pool.list[i][k], len |-> (i + 1) * Unit, copy |-> <<"free", i, k>>] :
                       k \in 1 .. Len(pool.list[i])} : i \in Classes}
Used == {[r EXCEPT !.len = Align(@)] : r \in {l \in live : l.len <= MaxBytes}}
Rest == IF LeftBytes(pool) = 0 THEN {}
        ELSE {[addr |-> pool.start, len |-> LeftBytes(pool), copy |-> <<"rest">>]}

Bytes(r) == r.addr .. r.addr + r.len - 1
Inside(r, c) == c.addr <= r.addr /\ r.addr + r.len <= c.addr + c.len

(* The free nodes, the objects in use and the rest of the pool are disjoint, *)
(* each as large as its class promises and within one chunk, and no byte of  *)
(* a chunk is lost.  As a chunk is as large as the nodes ReFill asks for,    *)
(* nothing is ever left in the pool: the branches of ChunkAlloc for a rest,  *)
(* one of which links it into the wrong list, are not reached.              *)
PiecesPartition ==
    LET pieces == FreeNodes \cup Used \cup Rest
    IN  /\ PoolTypeOK
        /\ \A r, s \in pieces : r = s \/ Disjoint(r, s)
        /\ \A r \in pieces : \E c \in pool.chunks : Inside(r, c)
        /\ LeftBytes(pool) = 0
        /\ \A c \in pool.chunks : \A x \in Bytes(c) : \E r \in pieces : x \in Bytes(r)

(* What the callers have does not overlap: PoolAlloter is an allocator.      *)
LiveRegions == INSTANCE Allocator
PoolIsAllocator == LiveRegions!Spec
=============================================================================
