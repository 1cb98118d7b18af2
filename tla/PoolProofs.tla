------------------------------ MODULE PoolProofs ------------------------------
(***************************************************************************)
(* Proofs about the two memory pools, for every number of threads, blocks and *)
(* sizes.                                                                   *)
(***************************************************************************)
EXTENDS PoolAlloter, BlockPool, FiniteSetTheorems, SequenceTheorems, TLAPS

-----------------------------------------------------------------------------
(* Sequences without repetition.                                            *)

(* A sequence without repetitions, without its last element.                *)
LEMMA FrontLast ==
    ASSUME NEW S, NEW s \in Seq(S), s # <<>>, IsInjective(s)
    PROVE  /\ Front(s) \in Seq(S) /\ Len(Front(s)) = Len(s) - 1 /\ IsInjective(Front(s))
           /\ Last(s) \in Range(s) /\ Range(Front(s)) = Range(s) \ {Last(s)}
  <1> DEFINE n == Len(s)
             f == Front(s)
  <1>1. n \in Nat /\ n > 0 /\ DOMAIN s = 1 .. n
    BY EmptySeq, LenProperties
  <1>2. f \in Seq(S) /\ Len(f) = n - 1 /\ DOMAIN f = 1 .. n - 1 /\ \A i \in 1 .. n - 1 : f[i] = s[i]
    BY <1>1, SubSeqProperties DEF Front
  <1> HIDE DEF f
  <1>3. IsInjective(f)
    BY <1>1, <1>2 DEF IsInjective
  <1>4. Last(s) = s[n] /\ s[n] \in Range(s)
    BY <1>1 DEF Last, Range
  <1>5. Range(f) = Range(s) \ {s[n]}
    <2>1. ASSUME NEW x \in Range(f) PROVE x \in Range(s) \ {s[n]}
      BY <1>1, <1>2 DEF Range, IsInjective
    <2>2. ASSUME NEW x \in Range(s) \ {s[n]} PROVE x \in Range(f)
      <3>1. PICK i \in 1 .. n : x = s[i]
        BY <1>1 DEF Range
      <3>2. i \in 1 .. n - 1
        BY <1>1, <3>1
      <3> QED
        BY <1>2, <3>1, <3>2 DEF Range
    <2> QED
      BY <2>1, <2>2
  <1> QED
    BY <1>2, <1>3, <1>4, <1>5 DEF f

(* A sequence without repetitions, with one more element at its end.        *)
LEMMA AppendOne ==
    ASSUME NEW S, NEW s \in Seq(S), IsInjective(s), NEW x \in S, x \notin Range(s)
    PROVE  /\ Append(s, x) \in Seq(S) /\ Len(Append(s, x)) = Len(s) + 1
           /\ IsInjective(Append(s, x)) /\ Range(Append(s, x)) = Range(s) \cup {x}
  <1> DEFINE n == Len(s)
             t == Append(s, x)
  <1>1. n \in Nat /\ DOMAIN s = 1 .. n
    BY LenProperties
  <1>2. /\ t \in Seq(S) /\ Len(t) = n + 1 /\ DOMAIN t = 1 .. n + 1
        /\ t[n + 1] = x /\ \A i \in 1 .. n : t[i] = s[i]
    BY <1>1, AppendProperties, LenProperties
  <1> HIDE DEF t
  <1>3. IsInjective(t)
    BY <1>1, <1>2 DEF IsInjective, Range
  <1>4. Range(t) = Range(s) \cup {x}
    <2>1. ASSUME NEW y \in Range(t) PROVE y \in Range(s) \cup {x}
      BY <1>1, <1>2 DEF Range
    <2>2. ASSUME NEW y \in Range(s) \cup {x} PROVE y \in Range(t)
      BY <1>1, <1>2 DEF Range
    <2> QED
      BY <2>1, <2>2
  <1> QED
    BY <1>2, <1>3, <1>4 DEF t

(* A sequence without repetitions, without its first k elements.            *)
LEMMA CutAt ==
    ASSUME NEW S, NEW s \in Seq(S), IsInjective(s), NEW k \in 0 .. Len(s)
    PROVE  LET a == SubSeq(s, 1, k)
               b == SubSeq(s, k + 1, Len(s))
           IN  /\ b \in Seq(S) /\ Len(b) = Len(s) - k /\ IsInjective(b)
               /\ Range(b) = Range(s) \ Range(a) /\ Range(a) \subseteq Range(s)
  <1> DEFINE n == Len(s)
             a == SubSeq(s, 1, k)
             b == SubSeq(s, k + 1, n)
  <1>1. n \in Nat /\ DOMAIN s = 1 .. n
    BY LenProperties
  <1>2. DOMAIN a = 1 .. k /\ \A i \in 1 .. k : a[i] = s[i]
    <2>1. a \in Seq(S) /\ Len(a) = k /\ \A i \in 1 .. k : a[i] = s[i]
      BY <1>1, SubSeqProperties
    <2> HIDE DEF a
    <2> QED
      BY <2>1, LenProperties
  <1>3. /\ b \in Seq(S) /\ Len(b) = n - k /\ DOMAIN b = 1 .. n - k
        /\ \A i \in 1 .. n - k : b[i] = s[k + i]
    <2>1. \A i \in (k + 1) .. n : s[i] \in S
      BY <1>1, ElementOfSeq
    <2> k + 1 \in Int /\ n \in Int
      BY <1>1
    <2>2. /\ b \in Seq(S) /\ Len(b) = IF k + 1 <= n THEN n - (k + 1) + 1 ELSE 0
          /\ \A i \in 1 .. n - (k + 1) + 1 : b[i] = s[(k + 1) + i - 1]
      BY <2>1, SubSeqProperties
    <2> HIDE DEF b
    <2>3. Len(b) = n - k
      <3> k \in Nat /\ k <= n
        BY <1>1
      <3> HIDE DEF n
      <3>1. CASE k = n
        BY <1>1, <2>2, <3>1
      <3>2. CASE k < n
        <4>1. k + 1 <= n /\ n - (k + 1) + 1 = n - k
          BY <1>1, <3>2
        <4> QED
          BY <2>2, <4>1
      <3>3. k = n \/ k < n
        BY <1>1
      <3> QED
        BY <3>1, <3>2, <3>3
    <2>4. DOMAIN b = 1 .. n - k
      BY <2>2, <2>3, LenProperties
    <2>5. ASSUME NEW i \in 1 .. n - k PROVE b[i] = s[k + i]
      <3>1. i \in 1 .. n - (k + 1) + 1 /\ (k + 1) + i - 1 = k + i
        BY <1>1
      <3> QED
        BY <2>2, <3>1
    <2> QED
      BY <2>2, <2>3, <2>4, <2>5
  <1> HIDE DEF a, b
  <1>4. IsInjective(b)
    <2>1. \A i \in 1 .. n - k : k + i \in 1 .. n
      BY <1>1
    <2>2. \A i, j \in 1 .. n - k : k + i = k + j => i = j
      BY <1>1
    <2>3. ASSUME NEW i \in 1 .. n - k, NEW j \in 1 .. n - k, b[i] = b[j] PROVE i = j
      BY <1>1, <1>3, <2>1, <2>2, <2>3 DEF IsInjective
    <2> QED
      BY <1>3, <2>3 DEF IsInjective
  <1>5. Range(a) \subseteq Range(s)
    BY <1>1, <1>2 DEF Range
  <1>6. Range(b) = Range(s) \ Range(a)
    <2>1. ASSUME NEW x \in Range(b) PROVE x \in Range(s) \ Range(a)
      <3>1. PICK i \in 1 .. n - k : x = s[k + i]
        BY <1>3 DEF Range
      <3>2. k + i \in 1 .. n /\ \A j \in 1 .. k : j # k + i
        BY <1>1, <3>1
      <3> QED
        BY <1>1, <1>2, <3>1, <3>2 DEF Range, IsInjective
    <2>2. ASSUME NEW x \in Range(s) \ Range(a) PROVE x \in Range(b)
      <3>1. PICK i \in 1 .. n : x = s[i]
        BY <1>1 DEF Range
      <3>2. i \notin 1 .. k
        BY <1>2, <3>1 DEF Range
      <3>3. i - k \in 1 .. n - k /\ k + (i - k) = i
        BY <1>1, <3>1, <3>2
      <3> QED
        BY <1>3, <3>1, <3>3 DEF Range
    <2> QED
      BY <2>1, <2>2
  <1> QED
    BY <1>3, <1>4, <1>5, <1>6 DEF a, b

-----------------------------------------------------------------------------
(* BlockMemoryPool: no block is held twice.                                  *)
BlockInv == BlocksPartition /\ \A b \in Blocks : used[b] <= 1

(* The blocks of an expansion are new ones, and the vector has them all.      *)
LEMMA Expanded ==
    ASSUME BlockInv, NEW more \in IF free_vec = <<>> THEN Expansions ELSE {<<>>}
    PROVE  LET vec == free_vec \o more
           IN  /\ vec \in Seq(Blocks) /\ vec # <<>> /\ IsInjective(vec)
               /\ Range(vec) = Range(free_vec) \cup Range(more)
               /\ Range(more) \subseteq Blocks /\ Range(vec) \cap InUse = {}
               /\ Len(vec) - 1 <= MaxBlockNum + Cardinality(pending)
  <1> free_vec \in Seq(Blocks) /\ IsFiniteSet(pending) /\ Cardinality(pending) \in Nat
    BY BlockPoolAssumption, FS_Subset, FS_CardinalityType DEF BlockInv, BlocksPartition, BlockTypeOK
  <1>1. CASE free_vec = <<>>
    <2>1. more \in [1 .. AddNum -> Blocks \ mapped] /\ IsInjective(more)
      BY <1>1 DEF Expansions
    <2>2. more \in Seq(Blocks) /\ Len(more) = AddNum /\ DOMAIN more = 1 .. AddNum
      BY <2>1, BlockPoolAssumption
    <2>3. free_vec \o more = more /\ more # <<>>
      BY <1>1, <2>2, BlockPoolAssumption, ConcatEmptySeq
    <2>4. Range(free_vec) = {} /\ Range(more) \subseteq Blocks \ mapped
      BY <1>1, <2>1, <2>2 DEF Range
    <2>5. InUse \subseteq mapped
      BY DEF BlockInv, BlocksPartition
    <2> QED
      BY <2>1, <2>2, <2>3, <2>4, <2>5, BlockPoolAssumption
  <1>2. CASE free_vec # <<>>
    <2>1. more = <<>> /\ free_vec \o more = free_vec
      BY <1>2, ConcatEmptySeq
    <2>2. Range(more) = {}
      BY <2>1 DEF Range
    <2>3. Len(free_vec) - 1 <= MaxBlockNum + Cardinality(pending)
      BY BlockPoolAssumption, LenProperties DEF BlockInv, BlocksPartition
    <2> QED
      BY <1>2, <2>1, <2>2, <2>3 DEF BlockInv, BlocksPartition
  <1> QED
    BY <1>1, <1>2

(* PoolLargeMalloc hands out the last free block, after an expansion if     *)
(* there is none.                                                           *)
LEMMA MallocKeepsBlocks ==
    ASSUME BlockInv, NEW t \in Threads, PoolLargeMalloc(t)
    PROVE  BlockInv' /\ \E b \in Blocks : used[b] = 0 /\ used' = [used EXCEPT ![b] = 1]
  <1>1. PICK more \in IF free_vec = <<>> THEN Expansions ELSE {<<>>} :
             /\ mapped' = mapped \cup Range(more)
             /\ used' = [used EXCEPT ![Last(free_vec \o more)] = @ + 1]
             /\ free_vec' = Front(free_vec \o more)
    BY DEF PoolLargeMalloc
  <1> DEFINE vec == free_vec \o more
             l == Last(vec)
  <1>2. /\ vec \in Seq(Blocks) /\ vec # <<>> /\ IsInjective(vec)
        /\ Range(vec) = Range(free_vec) \cup Range(more)
        /\ Range(more) \subseteq Blocks /\ Range(vec) \cap InUse = {}
        /\ Len(vec) - 1 <= MaxBlockNum + Cardinality(pending)
    BY Expanded
  <1> HIDE DEF vec
  <1>3. /\ free_vec' \in Seq(Blocks) /\ Len(free_vec') = Len(vec) - 1 /\ IsInjective(free_vec')
        /\ l \in Range(vec) /\ Range(free_vec') = Range(vec) \ {l}
    BY <1>1, <1>2, FrontLast DEF vec
  <1>4. l \in Blocks
    BY <1>2, <1>3 DEF Range
  <1>5. used[l] = 0
    BY <1>2, <1>3, <1>4 DEF InUse, BlockInv, BlocksPartition, BlockTypeOK
  <1>6. used' = [used EXCEPT ![l] = 1]
    BY <1>1, <1>4, <1>5 DEF BlockInv, BlocksPartition, BlockTypeOK, vec
  <1> HIDE DEF l
  <1>7. InUse' = InUse \cup {l}
    BY <1>4, <1>6 DEF InUse, BlockInv, BlocksPartition, BlockTypeOK
  <1>8. used' \in [Blocks -> Nat] /\ \A b \in Blocks : used'[b] <= 1
    BY <1>4, <1>6 DEF BlockInv, BlocksPartition, BlockTypeOK
  <1>9. pending' = pending /\ alive' = alive /\ alive
    BY DEF PoolLargeMalloc
  <1>10. BlockTypeOK'
    BY <1>1, <1>2, <1>3, <1>8, <1>9 DEF BlockTypeOK, BlockInv, BlocksPartition
  <1>11. Range(free_vec') \cap InUse' = {} /\ Range(free_vec') \cup InUse' = mapped'
    BY <1>1, <1>2, <1>3, <1>7 DEF BlockInv, BlocksPartition
  <1>12. BlocksPartition'
    BY <1>2, <1>3, <1>9, <1>10, <1>11 DEF BlocksPartition
  <1> QED
    BY <1>4, <1>5, <1>6, <1>8, <1>12 DEF BlockInv

(* PoolLargeFree takes a block back, and releases half of the free ones     *)
(* when they are too many.                                                  *)
LEMMA FreeKeepsBlocks ==
    ASSUME BlockInv, NEW t \in Threads, NEW b \in Blocks, PoolLargeFree(t, b)
    PROVE  BlockInv' /\ used[b] = 1 /\ used' = [used EXCEPT ![b] = 0]
  <1> /\ free_vec \in Seq(Blocks) /\ IsInjective(free_vec) /\ used \in [Blocks -> Nat]
      /\ IsFiniteSet(pending) /\ Cardinality(pending) \in Nat
    BY BlockPoolAssumption, FS_Subset, FS_CardinalityType DEF BlockInv, BlocksPartition, BlockTypeOK
  <1>1. used[b] = 1
    BY DEF PoolLargeFree, BlockInv
  <1>2. used' = [used EXCEPT ![b] = 0]
    BY <1>1 DEF PoolLargeFree
  <1>3. b \in InUse /\ b \notin Range(free_vec)
    BY <1>1 DEF InUse, BlockInv, BlocksPartition
  <1>4. /\ free_vec' \in Seq(Blocks) /\ Len(free_vec') = Len(free_vec) + 1
        /\ IsInjective(free_vec') /\ Range(free_vec') = Range(free_vec) \cup {b}
    BY <1>3, AppendOne DEF PoolLargeFree
  <1>5. InUse' = InUse \ {b}
    BY <1>2 DEF InUse
  <1>6. used' \in [Blocks -> Nat] /\ \A x \in Blocks : used'[x] <= 1
    BY <1>2 DEF BlockInv
  <1>7. mapped' = mapped /\ alive' = alive /\ alive /\ t \notin pending
    BY DEF PoolLargeFree
  <1>8. Range(free_vec') \cap InUse' = {} /\ Range(free_vec') \cup InUse' = mapped'
    BY <1>3, <1>4, <1>5, <1>7 DEF BlockInv, BlocksPartition
  <1>9. /\ pending' \subseteq Threads
        /\ Len(free_vec') <= MaxBlockNum + Cardinality(pending')
    <2>1. pending \subseteq Threads /\ Len(free_vec) <= MaxBlockNum + Cardinality(pending)
      BY DEF BlockInv, BlocksPartition, BlockTypeOK
    <2>2. Len(free_vec) \in Nat
      BY LenProperties
    <2>3. CASE Len(free_vec') > MaxBlockNum
      <3>1. pending' = pending \cup {t} /\ Cardinality(pending') = Cardinality(pending) + 1
        BY <1>7, <2>3, FS_AddElement DEF PoolLargeFree
      <3> QED
        BY <1>4, <2>1, <2>2, <3>1, BlockPoolAssumption
    <2>4. CASE ~(Len(free_vec') > MaxBlockNum)
      <3>1. pending' = pending
        BY <2>4 DEF PoolLargeFree
      <3> QED
        BY <1>4, <2>1, <2>2, <2>4, <3>1, BlockPoolAssumption
    <2> QED
      BY <2>3, <2>4
  <1>10. BlockTypeOK'
    BY <1>4, <1>6, <1>7, <1>9 DEF BlockTypeOK, BlockInv, BlocksPartition
  <1> QED
    BY <1>1, <1>2, <1>4, <1>6, <1>7, <1>8, <1>9, <1>10 DEF BlockInv, BlocksPartition

(* ReleaseHalf, which unmaps the first half of the free blocks.             *)
LEMMA ReleaseKeepsBlocks ==
    ASSUME BlockInv, NEW t \in Threads, ReleaseHalf(t)
    PROVE  BlockInv' /\ used' = used
  <1> DEFINE n == Len(free_vec)
             k == Released(n)
  <1> /\ free_vec \in Seq(Blocks) /\ IsInjective(free_vec) /\ n \in Nat
      /\ IsFiniteSet(pending) /\ Cardinality(pending) \in Nat
    BY BlockPoolAssumption, FS_Subset, FS_CardinalityType, LenProperties
       DEF BlockInv, BlocksPartition, BlockTypeOK
  <1>1. k \in 0 .. n /\ (n > 0 => n - k < n)
    BY DEF Released
  <1> HIDE DEF k
  <1>2. /\ mapped' = mapped \ Range(SubSeq(free_vec, 1, k))
        /\ free_vec' = SubSeq(free_vec, k + 1, n)
        /\ pending' = pending \ {t} /\ t \in pending /\ used' = used /\ alive' = alive
    BY DEF ReleaseHalf, k
  <1> DEFINE a == Range(SubSeq(free_vec, 1, k))
  <1>3. /\ free_vec' \in Seq(Blocks) /\ Len(free_vec') = n - k /\ IsInjective(free_vec')
        /\ Range(free_vec') = Range(free_vec) \ a /\ a \subseteq Range(free_vec)
    BY <1>1, <1>2, CutAt
  <1> HIDE DEF a
  <1>4. InUse' = InUse
    BY <1>2 DEF InUse
  <1>5. Range(free_vec') \cap InUse' = {} /\ Range(free_vec') \cup InUse' = mapped'
    BY <1>2, <1>3, <1>4 DEF BlockInv, BlocksPartition, a
  <1>6. Cardinality(pending') = Cardinality(pending) - 1 /\ Cardinality(pending) > 0
    <2>1. Cardinality(pending') = Cardinality(pending) - 1
      BY <1>2, FS_RemoveElement
    <2>2. Cardinality(pending) # 0
      BY <1>2, FS_EmptySet
    <2> QED
      BY <2>1, <2>2
  <1>7. Len(free_vec') <= MaxBlockNum + Cardinality(pending')
    <2>1. n <= MaxBlockNum + Cardinality(pending)
      BY DEF BlockInv, BlocksPartition
    <2> QED
      BY <1>1, <1>3, <1>6, <2>1, BlockPoolAssumption
  <1>8. BlockTypeOK'
    BY <1>2, <1>3 DEF BlockTypeOK, BlockInv, BlocksPartition
  <1> QED
    BY <1>2, <1>3, <1>5, <1>7, <1>8 DEF BlockInv, BlocksPartition

(* The destructor unmaps the free blocks and leaves those in use mapped.    *)
LEMMA DestroyKeepsBlocks ==
    ASSUME BlockInv, Destroy
    PROVE  BlockInv' /\ used' = used
  <1> /\ free_vec' = <<>> /\ mapped' = mapped \ Range(free_vec) /\ ~alive' /\ alive' \in BOOLEAN
      /\ used' = used /\ pending' = pending /\ InUse = {}
    BY DEF Destroy
  <1>1. InUse' = {} /\ mapped' = {}
    BY DEF InUse, BlockInv, BlocksPartition
  <1>2. free_vec' \in Seq(Blocks) /\ Len(free_vec') = 0 /\ Range(free_vec') = {} /\ IsInjective(free_vec')
    BY DEF Range, IsInjective
  <1>3. Cardinality(pending) \in Nat
    BY BlockPoolAssumption, FS_Subset, FS_CardinalityType DEF BlockInv, BlocksPartition, BlockTypeOK
  <1>4. BlockTypeOK'
    BY <1>1, <1>2 DEF BlockTypeOK, BlockInv, BlocksPartition
  <1> QED
    BY <1>1, <1>2, <1>3, <1>4, BlockPoolAssumption DEF BlockInv, BlocksPartition

(* The invariant holds of an empty pool.                                    *)
LEMMA BlockInitInv == BlockInit => BlockInv
  <1> SUFFICES ASSUME BlockInit PROVE BlockInv
    OBVIOUS
  <1>1. /\ free_vec = <<>> /\ mapped = {} /\ used = [b \in Blocks |-> 0] /\ pending = {} /\ alive
        /\ alive \in BOOLEAN
    BY DEF BlockInit
  <1>2. InUse = {}
    BY <1>1 DEF InUse
  <1>3. free_vec \in Seq(Blocks) /\ Len(free_vec) = 0 /\ Range(free_vec) = {} /\ IsInjective(free_vec)
    BY <1>1 DEF Range, IsInjective
  <1>4. BlockTypeOK
    BY <1>1, <1>3 DEF BlockTypeOK
  <1> QED
    BY <1>1, <1>2, <1>3, <1>4, FS_EmptySet, BlockPoolAssumption DEF BlockInv, BlocksPartition

(* Every step keeps it.                                                     *)
LEMMA BlockNextInv ==
    ASSUME BlockInv, [BlockNext]_block_vars
    PROVE  BlockInv'
  <1>1. CASE BlockNext
    BY <1>1, MallocKeepsBlocks, FreeKeepsBlocks, ReleaseKeepsBlocks, DestroyKeepsBlocks DEF BlockNext
  <1>2. CASE UNCHANGED block_vars
    BY <1>2 DEF block_vars, BlockInv, BlocksPartition, BlockTypeOK, InUse
  <1> QED
    BY <1>1, <1>2

(* No block of BlockMemoryPool is in two places or lost, and the free ones      *)
(* stay within __max_block_num and the threads that are about to release.    *)
THEOREM BlocksArePartitioned == BlockSpec => []BlocksPartition
  <1>1. BlockInv => BlocksPartition
    BY DEF BlockInv
  <1> QED
    BY <1>1, BlockInitInv, BlockNextInv, PTL DEF BlockSpec

(* The regions of the callers: one for each block in use.                     *)
Block(b) == [addr |-> b, len |-> 1, copy |-> 1]
Held == {r \in Regions : r.copy <= used[r.addr]}

(* With the invariant, a block in use is held once.                         *)
LEMMA HeldOnes ==
    ASSUME NEW u \in [Blocks -> Nat], \A b \in Blocks : u[b] <= 1
    PROVE  {r \in Regions : r.copy <= u[r.addr]} = {Block(b) : b \in {x \in Blocks : u[x] > 0}}
  <1> DEFINE H == {r \in Regions : r.copy <= u[r.addr]}
             U == {x \in Blocks : u[x] > 0}
  <1> MaxBlocks \in Nat
    BY BlockPoolAssumption
  <1>1. ASSUME NEW r \in H PROVE r \in {Block(b) : b \in U}
    <2>1. PICK b \in Blocks, n \in 1 .. MaxBlocks : r = [addr |-> b, len |-> 1, copy |-> n]
      BY DEF Regions
    <2>2. n <= u[b] /\ u[b] <= 1 /\ u[b] \in Nat
      BY <2>1
    <2>3. n = 1 /\ u[b] > 0
      BY <2>2
    <2> QED
      BY <2>1, <2>3 DEF Block
  <1>2. ASSUME NEW b \in U PROVE Block(b) \in H
    <2>1. b \in Blocks /\ 1 <= u[b] /\ 1 \in 1 .. MaxBlocks
      BY DEF Blocks
    <2>2. \E x \in Blocks, n \in 1 .. MaxBlocks : Block(b) = [addr |-> x, len |-> 1, copy |-> n]
      BY <2>1 DEF Block
    <2>3. Block(b) \in Regions
      BY <2>2 DEF Regions
    <2>4. Block(b).copy = 1 /\ Block(b).addr = b
      BY DEF Block
    <2> QED
      BY <2>1, <2>3, <2>4
  <1> QED
    BY <1>1, <1>2

(* So the regions held are those of the blocks in use.                      *)
LEMMA HeldBlocks ==
    ASSUME BlockInv
    PROVE  Held = {Block(b) : b \in InUse}
  BY HeldOnes DEF Held, InUse, BlockInv, BlocksPartition, BlockTypeOK

(* The same of the next state.                                              *)
LEMMA HeldBlocksNext ==
    ASSUME BlockInv'
    PROVE  Held' = {Block(b) : b \in InUse'}
  <1>1. used' \in [Blocks -> Nat] /\ \A b \in Blocks : used'[b] <= 1
    BY DEF BlockInv, BlocksPartition, BlockTypeOK
  <1> QED
    BY <1>1, HeldOnes DEF Held, InUse

(* Two blocks do not share a region.                                        *)
LEMMA BlockInjective == \A x, y : Block(x) = Block(y) => x = y
  <1> SUFFICES ASSUME NEW x, NEW y, Block(x) = Block(y) PROVE x = y
    OBVIOUS
  <1>1. Block(x).addr = x /\ Block(y).addr = y
    BY DEF Block
  <1> QED
    BY <1>1

(* Handing out a block is a step Alloc of the allocator.                    *)
LEMMA TakeBlock ==
    ASSUME BlockInv, BlockInv', NEW b \in Blocks, used[b] = 0, used' = [used EXCEPT ![b] = 1]
    PROVE  HeldRegions!Alloc
  <1> used \in [Blocks -> Nat]
    BY DEF BlockInv, BlocksPartition, BlockTypeOK
  <1>1. InUse' = InUse \cup {b} /\ b \notin InUse
    BY DEF InUse
  <1>2. Held = {Block(x) : x \in InUse}
    BY HeldBlocks
  <1>3. Held' = {Block(x) : x \in InUse'}
    BY HeldBlocksNext
  <1>4. Held' = Held \cup {Block(b)}
    BY <1>1, <1>2, <1>3
  <1>5. Block(b) \notin Held /\ Block(b).len > 0
    <2>1. Block(b) \notin Held
      BY <1>1, <1>2, BlockInjective
    <2> QED
      BY <2>1 DEF Block
  <1>6. \A s \in Held : HeldRegions!Disjoint(Block(b), s)
    <2>1. ASSUME NEW x \in InUse PROVE HeldRegions!Disjoint(Block(b), Block(x))
      <3>1. x \in Int /\ b \in Int /\ x # b
        BY <1>1 DEF InUse, Blocks
      <3>2. b + 1 <= x \/ x + 1 <= b
        BY <3>1
      <3> QED
        BY <3>2 DEF Block, HeldRegions!Disjoint
    <2> QED
      BY <1>2, <2>1
  <1>7. Block(b) \in Held'
    BY <1>4
  <1> QED
    BY <1>4, <1>5, <1>6, <1>7 DEF HeldRegions!Alloc, Held

(* Taking a block back is a step Free of the allocator.                     *)
LEMMA GiveBlock ==
    ASSUME BlockInv, BlockInv', NEW b \in Blocks, used[b] = 1, used' = [used EXCEPT ![b] = 0]
    PROVE  HeldRegions!Free
  <1> used \in [Blocks -> Nat]
    BY DEF BlockInv, BlocksPartition, BlockTypeOK
  <1>1. InUse' = InUse \ {b} /\ b \in InUse
    BY DEF InUse
  <1>2. Held = {Block(x) : x \in InUse}
    BY HeldBlocks
  <1>3. Held' = {Block(x) : x \in InUse'}
    BY HeldBlocksNext
  <1>5. Block(b) \in Held /\ Held' = Held \ {Block(b)}
    BY <1>1, <1>2, <1>3, BlockInjective
  <1> QED
    BY <1>5 DEF HeldRegions!Free, Held

(* BlockMemoryPool hands out no block a second time before it is given back:   *)
(* with the blocks its callers hold it implements the abstract allocator.    *)
THEOREM BlockPoolRefines == BlockSpec => BlockPoolIsAllocator
  <1>1. BlockInit => HeldRegions!Init
    <2> SUFFICES ASSUME BlockInit PROVE HeldRegions!Init
      OBVIOUS
    <2>1. InUse = {}
      BY DEF BlockInit, InUse
    <2>2. Held = {}
      BY <2>1, BlockInitInv, HeldBlocks
    <2> QED
      BY <2>2 DEF HeldRegions!Init, Held
  <1>2. ASSUME BlockInv, BlockInv', [BlockNext]_block_vars
        PROVE  [HeldRegions!Alloc \/ HeldRegions!Free]_Held
    <2>1. ASSUME NEW t \in Threads, PoolLargeMalloc(t) PROVE HeldRegions!Alloc
      BY <1>2, <2>1, MallocKeepsBlocks, TakeBlock
    <2>2. ASSUME NEW t \in Threads, NEW b \in Blocks, PoolLargeFree(t, b) PROVE HeldRegions!Free
      BY <1>2, <2>2, FreeKeepsBlocks, GiveBlock
    <2>3. ASSUME used' = used PROVE Held' = Held
      BY <2>3 DEF Held
    <2>4. CASE UNCHANGED block_vars
      BY <2>3, <2>4 DEF block_vars
    <2>5. CASE BlockNext
      <3>1. CASE \E t \in Threads : ReleaseHalf(t)
        BY <1>2, <2>3, <3>1, ReleaseKeepsBlocks
      <3>2. CASE Destroy
        BY <1>2, <2>3, <3>2, DestroyKeepsBlocks
      <3> QED
        BY <2>1, <2>2, <2>5, <3>1, <3>2 DEF BlockNext
    <2> QED
      BY <1>2, <2>4, <2>5
  <1>3. BlockSpec => []BlockInv
    BY BlockInitInv, BlockNextInv, PTL DEF BlockSpec
  <1> QED
    BY <1>1, <1>2, <1>3, PTL DEF BlockSpec, BlockPoolIsAllocator, HeldRegions!Spec, Held

-----------------------------------------------------------------------------
(* PoolAlloter.  Sizes and classes.                                         *)

Size(i) == (i + 1) * Unit

(* A size up to __default_max_bytes has a class, whose nodes are as large as   *)
(* the aligned size.                                                        *)
LEMMA SizeClass ==
    ASSUME NEW size \in Sizes
    PROVE  /\ Align(size) \in Nat /\ Align(size) >= size /\ size \in Nat /\ size > 0
           /\ FreeListIndex(Align(size)) = FreeListIndex(size)
           /\ Size(FreeListIndex(size)) = Align(size)
           /\ size <= MaxBytes => FreeListIndex(size) \in Classes
  <1> DEFINE a == size + Unit - 1
             q == a \div Unit
             k == MaxBytes \div Unit
  <1>1. /\ Unit \in Nat \ {0} /\ size \in Nat \ {0} /\ MaxBytes \in Nat /\ MaxBytes % Unit = 0
        /\ a \in Nat
    BY PoolAssumption
  <1>2. q \in Nat /\ q * Unit <= a /\ a < q * Unit + Unit
    BY <1>1
  <1>3. k \in Nat /\ k * Unit = MaxBytes
    BY <1>1
  <1>4. Align(size) = q * Unit /\ FreeListIndex(size) = q - 1
    BY DEF Align, FreeListIndex
  <1> HIDE DEF q, k
  <1>5. q * Unit \in Nat /\ q * Unit >= size /\ q >= 1
    BY <1>1, <1>2
  <1>6. (q * Unit + Unit - 1) \div Unit = q
    BY <1>1, <1>2
  <1>7. FreeListIndex(Align(size)) = q - 1
    BY <1>4, <1>6 DEF FreeListIndex
  <1>8. Size(q - 1) = q * Unit
    BY <1>2 DEF Size
  <1>9. ASSUME size <= MaxBytes PROVE q - 1 \in Classes
    <2>1. q * Unit < k * Unit + Unit
      BY <1>1, <1>2, <1>3, <1>9
    <2>2. q < k + 1
      BY <1>1, <1>2, <1>3, <2>1
    <2> QED
      BY <1>2, <1>3, <1>5, <2>2 DEF Classes, k
  <1> QED
    BY <1>1, <1>4, <1>5, <1>7, <1>8, <1>9

(* The nodes of a class have a positive size.                               *)
LEMMA ClassSize ==
    ASSUME NEW i \in Classes
    PROVE  i \in Nat /\ Size(i) \in Nat /\ Size(i) > 0
  BY PoolAssumption DEF Classes, Size

(* malloc returns a region apart from all it has returned.                   *)
LEMMA MallocedApart ==
    ASSUME NEW n \in Nat, NEW g \in Malloced(n)
    PROVE  /\ g.len = n /\ g = [addr |-> g.addr, len |-> n]
           /\ g.addr \in 1 .. Heap - n
           /\ \A r \in pool.chunks \cup large : Disjoint(g, r)
  <1>1. PICK a \in Room(n) : g = [addr |-> a, len |-> n]
    BY DEF Malloced
  <1>2. a \in 1 .. Heap - n /\ \A r \in pool.chunks \cup large : Disjoint([addr |-> a, len |-> n], r)
    BY DEF Room
  <1> QED
    BY <1>1, <1>2

(* Byte x of n nodes of m bytes is in one of them.                           *)
LEMMA NodeOfByte ==
    ASSUME NEW n \in Nat, NEW m \in Nat \ {0}, NEW x \in 0 .. n * m - 1
    PROVE  \E k \in 0 .. n - 1 : x \in k * m .. k * m + m - 1
  <1> DEFINE k == x \div m
  <1>1. n * m \in Nat /\ x \in Nat /\ x < n * m
    OBVIOUS
  <1>2. k \in Nat /\ k * m <= x /\ x < k * m + m
    BY <1>1
  <1> HIDE DEF k
  <1>3. k < n
    BY <1>1, <1>2
  <1>4. k * m \in Int
    BY <1>2
  <1> QED
    BY <1>1, <1>2, <1>3, <1>4

-----------------------------------------------------------------------------
(* The pieces of the pool: node k of free list L[i], and what the callers have  *)
(* in V, within the chunks C.  No two overlap and no byte is lost.           *)

Apart(a, m, b, n) == a + m <= b \/ b + n <= a
Within(a, m, c) == c.addr <= a /\ a + m <= c.addr + c.len
Small(V) == {l \in V : l.len <= MaxBytes}

FreeApart(L) ==
    \A i, j \in Classes : \A k \in 1 .. Len(L[i]), m \in 1 .. Len(L[j]) :
        (i = j /\ k = m) \/ Apart(L[i][k], Size(i), L[j][m], Size(j))
FreeUsed(L, V) ==
    \A i \in Classes : \A k \in 1 .. Len(L[i]), l \in Small(V) :
        Apart(L[i][k], Size(i), l.addr, Align(l.len))
UsedApart(V) ==
    \A l, m \in Small(V) : l = m \/ Apart(l.addr, Align(l.len), m.addr, Align(m.len))
FreeIn(L, C) ==
    \A i \in Classes : \A k \in 1 .. Len(L[i]) : \E c \in C : Within(L[i][k], Size(i), c)
UsedIn(V, C) == \A l \in Small(V) : \E c \in C : Within(l.addr, Align(l.len), c)
Covered(L, V, C) ==
    \A c \in C : \A x \in c.addr .. c.addr + c.len - 1 :
        \/ \E i \in Classes : \E k \in 1 .. Len(L[i]) : x \in L[i][k] .. L[i][k] + Size(i) - 1
        \/ \E l \in Small(V) : x \in l.addr .. l.addr + Align(l.len) - 1

Pieces(L, V, C) ==
    /\ FreeApart(L) /\ FreeUsed(L, V) /\ UsedApart(V)
    /\ FreeIn(L, C) /\ UsedIn(V, C) /\ Covered(L, V, C)

(* M is L with node a in front of list h.                                    *)
Pushed(L, M, h, a) ==
    /\ L \in [Classes -> Seq(Nat)] /\ M \in [Classes -> Seq(Nat)] /\ h \in Classes
    /\ Len(M[h]) = Len(L[h]) + 1 /\ M[h][1] = a
    /\ \A k \in 1 .. Len(L[h]) : M[h][k + 1] = L[h][k]
    /\ \A i \in Classes \ {h} : M[i] = L[i]

Shift(h, i, k) == IF i = h THEN k + 1 ELSE k

(* The nodes of L are those of M but the head of list h.                    *)
LEMMA PushedNodes ==
    ASSUME NEW L, NEW M, NEW h, NEW a, Pushed(L, M, h, a)
    PROVE  /\ 1 \in 1 .. Len(M[h])
           /\ \A i \in Classes : \A k \in 1 .. Len(L[i]) :
                /\ Shift(h, i, k) \in 1 .. Len(M[i]) /\ M[i][Shift(h, i, k)] = L[i][k]
                /\ ~(i = h /\ Shift(h, i, k) = 1)
                /\ \A m \in 1 .. Len(L[i]) : Shift(h, i, k) = Shift(h, i, m) => k = m
           /\ \A i \in Classes : \A s \in 1 .. Len(M[i]) :
                (i = h /\ s = 1) \/ \E k \in 1 .. Len(L[i]) : s = Shift(h, i, k)
  <1>1. \A i \in Classes : Len(L[i]) \in Nat /\ Len(M[i]) \in Nat
    BY LenProperties DEF Pushed
  <1>2. 1 \in 1 .. Len(M[h])
    BY <1>1 DEF Pushed
  <1>3. ASSUME NEW i \in Classes, NEW k \in 1 .. Len(L[i])
        PROVE  /\ Shift(h, i, k) \in 1 .. Len(M[i]) /\ M[i][Shift(h, i, k)] = L[i][k]
               /\ ~(i = h /\ Shift(h, i, k) = 1)
               /\ \A m \in 1 .. Len(L[i]) : Shift(h, i, k) = Shift(h, i, m) => k = m
    <2>1. CASE i = h
      BY <1>1, <2>1 DEF Pushed, Shift
    <2>2. CASE i # h
      BY <1>1, <2>2 DEF Pushed, Shift
    <2> QED
      BY <2>1, <2>2
  <1>4. ASSUME NEW i \in Classes, NEW s \in 1 .. Len(M[i]), ~(i = h /\ s = 1)
        PROVE  \E k \in 1 .. Len(L[i]) : s = Shift(h, i, k)
    <2>1. CASE i = h
      <3>1. s - 1 \in 1 .. Len(L[i]) /\ s = (s - 1) + 1
        BY <1>1, <1>4, <2>1 DEF Pushed
      <3> QED
        BY <2>1, <3>1 DEF Shift
    <2>2. CASE i # h
      <3>1. s \in 1 .. Len(L[i])
        BY <2>2 DEF Pushed
      <3> QED
        BY <2>2, <3>1 DEF Shift
    <2> QED
      BY <2>1, <2>2
  <1> QED
    BY <1>2, <1>3, <1>4

(* The head of a list becomes the caller's.                                  *)
LEMMA TakeNode ==
    ASSUME NEW L, NEW M, NEW h, NEW a, Pushed(L, M, h, a), NEW V, NEW C, Pieces(M, V, C),
           NEW l, l.addr = a, l.len <= MaxBytes, Align(l.len) = Size(h)
    PROVE  Pieces(L, V \cup {l}, C)
  <1>a. h \in Classes /\ 1 \in 1 .. Len(M[h]) /\ M[h][1] = a
    BY PushedNodes DEF Pushed
  <1>b. ASSUME NEW i \in Classes, NEW k \in 1 .. Len(L[i])
        PROVE  /\ Shift(h, i, k) \in 1 .. Len(M[i]) /\ M[i][Shift(h, i, k)] = L[i][k]
               /\ ~(i = h /\ Shift(h, i, k) = 1)
               /\ \A m \in 1 .. Len(L[i]) : Shift(h, i, k) = Shift(h, i, m) => k = m
    BY PushedNodes
  <1>c. ASSUME NEW i \in Classes, NEW s \in 1 .. Len(M[i]), ~(i = h /\ s = 1)
        PROVE  \E k \in 1 .. Len(L[i]) : s = Shift(h, i, k)
    BY <1>c, PushedNodes
  <1>1. FreeApart(L)
    <2>1. ASSUME NEW i \in Classes, NEW j \in Classes,
                 NEW k \in 1 .. Len(L[i]), NEW m \in 1 .. Len(L[j]), ~(i = j /\ k = m)
          PROVE  Apart(L[i][k], Size(i), L[j][m], Size(j))
      <3>1. Shift(h, i, k) \in 1 .. Len(M[i]) /\ M[i][Shift(h, i, k)] = L[i][k]
        BY <1>b
      <3>2. Shift(h, j, m) \in 1 .. Len(M[j]) /\ M[j][Shift(h, j, m)] = L[j][m]
        BY <1>b
      <3>3. ~(i = j /\ Shift(h, i, k) = Shift(h, j, m))
        BY <1>b, <2>1
      <3>4. Apart(M[i][Shift(h, i, k)], Size(i), M[j][Shift(h, j, m)], Size(j))
        BY <3>1, <3>2, <3>3 DEF Pieces, FreeApart
      <3> QED
        BY <3>1, <3>2, <3>4
    <2> QED
      BY <2>1 DEF FreeApart
  <1>2. FreeUsed(L, V \cup {l})
    <2>1. ASSUME NEW i \in Classes, NEW k \in 1 .. Len(L[i]), NEW v \in Small(V \cup {l})
          PROVE  Apart(L[i][k], Size(i), v.addr, Align(v.len))
      <3>0. /\ Shift(h, i, k) \in 1 .. Len(M[i]) /\ M[i][Shift(h, i, k)] = L[i][k]
            /\ ~(i = h /\ Shift(h, i, k) = 1)
        BY <1>b
      <3>1. CASE v = l
        <4>1. Apart(M[i][Shift(h, i, k)], Size(i), M[h][1], Size(h))
          BY <1>a, <3>0 DEF Pieces, FreeApart
        <4> QED
          BY <1>a, <3>0, <3>1, <4>1
      <3>2. CASE v # l
        <4>1. v \in Small(V)
          BY <3>2 DEF Small
        <4>2. Apart(M[i][Shift(h, i, k)], Size(i), v.addr, Align(v.len))
          BY <3>0, <4>1 DEF Pieces, FreeUsed
        <4> QED
          BY <3>0, <4>2
      <3> QED
        BY <3>1, <3>2
    <2> QED
      BY <2>1 DEF FreeUsed
  <1>3. UsedApart(V \cup {l})
    <2>1. ASSUME NEW v \in Small(V) PROVE Apart(a, Size(h), v.addr, Align(v.len))
      BY <1>a DEF Pieces, FreeUsed
    <2>2. ASSUME NEW v \in Small(V \cup {l}), NEW w \in Small(V \cup {l}), v # w
          PROVE  Apart(v.addr, Align(v.len), w.addr, Align(w.len))
      <3>1. CASE v \in Small(V) /\ w \in Small(V)
        BY <2>2, <3>1 DEF Pieces, UsedApart
      <3>2. CASE v = l /\ w \in Small(V)
        BY <2>1, <3>2
      <3>3. CASE v \in Small(V) /\ w = l
        BY <2>1, <3>3 DEF Apart
      <3> QED
        BY <2>2, <3>1, <3>2, <3>3 DEF Small
    <2> QED
      BY <2>2 DEF UsedApart
  <1>4. FreeIn(L, C)
    BY <1>b DEF Pieces, FreeIn
  <1>5. UsedIn(V \cup {l}, C)
    <2>1. \E c \in C : Within(a, Size(h), c)
      BY <1>a DEF Pieces, FreeIn
    <2>2. ASSUME NEW v \in Small(V \cup {l}) PROVE \E c \in C : Within(v.addr, Align(v.len), c)
      <3>1. CASE v = l
        BY <2>1, <3>1
      <3>2. CASE v \in Small(V)
        BY <3>2 DEF Pieces, UsedIn
      <3> QED
        BY <3>1, <3>2 DEF Small
    <2> QED
      BY <2>2 DEF UsedIn
  <1>6. Covered(L, V \cup {l}, C)
    <2>1. ASSUME NEW c \in C, NEW x \in c.addr .. c.addr + c.len - 1
          PROVE  \/ \E i \in Classes : \E k \in 1 .. Len(L[i]) : x \in L[i][k] .. L[i][k] + Size(i) - 1
                 \/ \E v \in Small(V \cup {l}) : x \in v.addr .. v.addr + Align(v.len) - 1
      <3>1. CASE \E v \in Small(V) : x \in v.addr .. v.addr + Align(v.len) - 1
        BY <3>1 DEF Small
      <3>2. CASE \E i \in Classes : \E s \in 1 .. Len(M[i]) : x \in M[i][s] .. M[i][s] + Size(i) - 1
        <4>0. PICK i \in Classes :
                \E s \in 1 .. Len(M[i]) : x \in M[i][s] .. M[i][s] + Size(i) - 1
          BY <3>2
        <4>1. PICK s \in 1 .. Len(M[i]) : x \in M[i][s] .. M[i][s] + Size(i) - 1
          BY <4>0
        <4>2. CASE i = h /\ s = 1
          <5>1. l \in Small(V \cup {l}) /\ x \in l.addr .. l.addr + Align(l.len) - 1
            BY <1>a, <4>1, <4>2 DEF Small
          <5> QED
            BY <5>1
        <4>3. CASE ~(i = h /\ s = 1)
          <5>1. PICK k \in 1 .. Len(L[i]) : s = Shift(h, i, k)
            BY <1>c, <4>3
          <5>2. x \in L[i][k] .. L[i][k] + Size(i) - 1
            BY <1>b, <4>1, <5>1
          <5> QED
            BY <5>2
        <4> QED
          BY <4>2, <4>3
      <3> QED
        BY <3>1, <3>2 DEF Pieces, Covered
    <2> QED
      BY <2>1 DEF Covered
  <1> QED
    BY <1>1, <1>2, <1>3, <1>4, <1>5, <1>6 DEF Pieces

(* What a caller gives back becomes the head of its list.                     *)
LEMMA GiveNode ==
    ASSUME NEW L, NEW M, NEW h, NEW a, Pushed(L, M, h, a), NEW V, NEW C, Pieces(L, V, C),
           NEW l \in V, l.addr = a, l.len <= MaxBytes, Align(l.len) = Size(h)
    PROVE  Pieces(M, V \ {l}, C)
  <1>a. h \in Classes /\ 1 \in 1 .. Len(M[h]) /\ M[h][1] = a /\ l \in Small(V)
    BY PushedNodes DEF Pushed, Small
  <1>b. ASSUME NEW i \in Classes, NEW k \in 1 .. Len(L[i])
        PROVE  Shift(h, i, k) \in 1 .. Len(M[i]) /\ M[i][Shift(h, i, k)] = L[i][k]
    BY PushedNodes
  <1>c. ASSUME NEW i \in Classes, NEW s \in 1 .. Len(M[i]), ~(i = h /\ s = 1)
        PROVE  \E k \in 1 .. Len(L[i]) : s = Shift(h, i, k) /\ M[i][s] = L[i][k]
    <2>1. PICK k \in 1 .. Len(L[i]) : s = Shift(h, i, k)
      BY <1>c, PushedNodes
    <2> QED
      BY <1>b, <2>1
  <1>d. ASSUME NEW v \in Small(V \ {l}) PROVE v \in Small(V) /\ v # l
    BY DEF Small
  <1>1. FreeApart(M)
    <2>1. ASSUME NEW i \in Classes, NEW s \in 1 .. Len(M[i]), ~(i = h /\ s = 1)
          PROVE  Apart(M[i][s], Size(i), a, Size(h))
      <3>1. PICK k \in 1 .. Len(L[i]) : M[i][s] = L[i][k]
        BY <1>c, <2>1
      <3> QED
        BY <1>a, <3>1 DEF Pieces, FreeUsed
    <2>2. ASSUME NEW i \in Classes, NEW j \in Classes,
                 NEW s \in 1 .. Len(M[i]), NEW t \in 1 .. Len(M[j]), ~(i = j /\ s = t)
          PROVE  Apart(M[i][s], Size(i), M[j][t], Size(j))
      <3>1. CASE i = h /\ s = 1
        <4>1. Apart(M[j][t], Size(j), a, Size(h))
          BY <2>1, <2>2, <3>1
        <4> QED
          BY <1>a, <3>1, <4>1 DEF Apart
      <3>2. CASE j = h /\ t = 1
        BY <1>a, <2>1, <2>2, <3>2
      <3>3. CASE ~(i = h /\ s = 1) /\ ~(j = h /\ t = 1)
        <4>1. PICK k \in 1 .. Len(L[i]) : s = Shift(h, i, k) /\ M[i][s] = L[i][k]
          BY <1>c, <3>3
        <4>2. PICK m \in 1 .. Len(L[j]) : t = Shift(h, j, m) /\ M[j][t] = L[j][m]
          BY <1>c, <3>3
        <4>3. ~(i = j /\ k = m)
          BY <2>2, <4>1, <4>2
        <4>4. Apart(L[i][k], Size(i), L[j][m], Size(j))
          BY <4>3 DEF Pieces, FreeApart
        <4> QED
          BY <4>1, <4>2, <4>4
      <3> QED
        BY <3>1, <3>2, <3>3
    <2> QED
      BY <2>2 DEF FreeApart
  <1>2. FreeUsed(M, V \ {l})
    <2>1. ASSUME NEW i \in Classes, NEW s \in 1 .. Len(M[i]), NEW v \in Small(V \ {l})
          PROVE  Apart(M[i][s], Size(i), v.addr, Align(v.len))
      <3>1. CASE i = h /\ s = 1
        BY <1>a, <1>d, <3>1 DEF Pieces, UsedApart
      <3>2. CASE ~(i = h /\ s = 1)
        <4>1. PICK k \in 1 .. Len(L[i]) : M[i][s] = L[i][k]
          BY <1>c, <3>2
        <4> QED
          BY <1>d, <4>1 DEF Pieces, FreeUsed
      <3> QED
        BY <3>1, <3>2
    <2> QED
      BY <2>1 DEF FreeUsed
  <1>3. UsedApart(V \ {l})
    BY <1>d DEF Pieces, UsedApart
  <1>4. FreeIn(M, C)
    <2>1. ASSUME NEW i \in Classes, NEW s \in 1 .. Len(M[i])
          PROVE  \E c \in C : Within(M[i][s], Size(i), c)
      <3>1. CASE i = h /\ s = 1
        BY <1>a, <3>1 DEF Pieces, UsedIn
      <3>2. CASE ~(i = h /\ s = 1)
        <4>1. PICK k \in 1 .. Len(L[i]) : M[i][s] = L[i][k]
          BY <1>c, <3>2
        <4> QED
          BY <4>1 DEF Pieces, FreeIn
      <3> QED
        BY <3>1, <3>2
    <2> QED
      BY <2>1 DEF FreeIn
  <1>5. UsedIn(V \ {l}, C)
    BY <1>d DEF Pieces, UsedIn
  <1>6. Covered(M, V \ {l}, C)
    <2>1. ASSUME NEW c \in C, NEW x \in c.addr .. c.addr + c.len - 1
          PROVE  \/ \E i \in Classes : \E s \in 1 .. Len(M[i]) : x \in M[i][s] .. M[i][s] + Size(i) - 1
                 \/ \E v \in Small(V \ {l}) : x \in v.addr .. v.addr + Align(v.len) - 1
      <3>1. CASE \E v \in Small(V) : x \in v.addr .. v.addr + Align(v.len) - 1
        <4>1. PICK v \in Small(V) : x \in v.addr .. v.addr + Align(v.len) - 1
          BY <3>1
        <4>2. CASE v = l
          <5>1. x \in M[h][1] .. M[h][1] + Size(h) - 1
            BY <1>a, <4>1, <4>2
          <5> QED
            BY <1>a, <5>1
        <4>3. CASE v # l
          BY <4>1, <4>3 DEF Small
        <4> QED
          BY <4>2, <4>3
      <3>2. CASE \E i \in Classes : \E k \in 1 .. Len(L[i]) : x \in L[i][k] .. L[i][k] + Size(i) - 1
        BY <1>b, <3>2
      <3> QED
        BY <3>1, <3>2 DEF Pieces, Covered
    <2> QED
      BY <2>1 DEF Covered
  <1> QED
    BY <1>1, <1>2, <1>3, <1>4, <1>5, <1>6 DEF Pieces

(* M is L, with list h filled with the nodes of chunk c but the first.        *)
Filled(L, M, h, c) ==
    /\ h \in Classes /\ Len(L[h]) = 0 /\ Len(M[h]) = AddNodes - 1
    /\ \A k \in 1 .. AddNodes - 1 : M[h][k] = c.addr + k * Size(h)
    /\ \A i \in Classes \ {h} : M[i] = L[i]
    /\ c.addr \in Nat /\ c.len = Size(h) * AddNodes

(* Pieces of two disjoint chunks are disjoint.                               *)
LEMMA ChunksApart ==
    ASSUME NEW a \in Int, NEW m \in Int, NEW b \in Int, NEW n \in Int, NEW c, NEW d,
           c.addr \in Int, c.len \in Int, d.addr \in Int, d.len \in Int,
           Within(a, m, c), Within(b, n, d), Disjoint(c, d)
    PROVE  Apart(a, m, b, n)
  BY DEF Within, Disjoint, Apart

(* The nodes of a chunk are disjoint, and in it.                             *)
LEMMA NodesApart ==
    ASSUME NEW m \in Nat \ {0}, NEW n \in Nat, NEW a \in Nat, NEW j \in 0 .. n - 1, NEW k \in 0 .. n - 1
    PROVE  /\ a + j * m \in Nat /\ a <= a + j * m /\ a + j * m + m <= a + m * n
           /\ j = k \/ Apart(a + j * m, m, a + k * m, m)
  <1>1. j * m \in Nat /\ k * m \in Nat /\ m * n \in Nat
    OBVIOUS
  <1>2. j * m + m <= m * n
    <2>1. (j + 1) * m <= n * m
      OBVIOUS
    <2> QED
      BY <2>1
  <1>3. j < k => j * m + m <= k * m
    <2>1. j < k => (j + 1) * m <= k * m
      OBVIOUS
    <2> QED
      BY <2>1
  <1>4. k < j => k * m + m <= j * m
    <2>1. k < j => (k + 1) * m <= j * m
      OBVIOUS
    <2> QED
      BY <2>1
  <1> QED
    BY <1>1, <1>2, <1>3, <1>4 DEF Apart

(* A new chunk becomes a caller's object and a list of free nodes.            *)
LEMMA FillList ==
    ASSUME NEW L, NEW M, NEW h, NEW c, Filled(L, M, h, c), NEW V, NEW C, Pieces(L, V, C),
           L \in [Classes -> Seq(Nat)],
           \A d \in C : d.addr \in Nat /\ d.len \in Nat /\ Disjoint(c, d),
           \A v \in Small(V) : v.addr \in Nat /\ Align(v.len) \in Nat,
           NEW l, l.addr = c.addr, l.len <= MaxBytes, Align(l.len) = Size(h)
    PROVE  Pieces(M, V \cup {l}, C \cup {c})
  <1> DEFINE S == Size(h)
             node(k) == c.addr + k * S
  <1>a. /\ h \in Classes /\ S \in Nat \ {0} /\ AddNodes \in Nat \ {0, 1} /\ c.addr \in Nat
        /\ c.len = S * AddNodes /\ c.len \in Nat
    BY ClassSize, PoolAssumption DEF Filled
  <1>b. ASSUME NEW k \in 0 .. AddNodes - 1
        PROVE  /\ node(k) \in Nat /\ Within(node(k), S, c)
               /\ \A j \in 0 .. AddNodes - 1 : j = k \/ Apart(node(k), S, node(j), S)
    BY <1>a, NodesApart DEF Within
  <1>c. ASSUME NEW k \in 1 .. Len(M[h])
        PROVE  k \in 1 .. AddNodes - 1 /\ M[h][k] = node(k)
    BY <1>a DEF Filled
  <1>d. ASSUME NEW i \in Classes, i # h
        PROVE  M[i] = L[i]
    BY <1>d DEF Filled
  <1>e. node(0) = c.addr /\ Within(c.addr, S, c)
    <2>1. node(0) = c.addr
      BY <1>a
    <2> QED
      BY <1>a, <1>b, <2>1
  <1>f. ASSUME NEW i \in Classes, NEW k \in 1 .. Len(L[i])
        PROVE  i # h /\ L[i][k] \in Nat /\ Size(i) \in Nat
    <2>1. L[i] \in Seq(Nat)
      OBVIOUS
    <2>2. k \in DOMAIN L[i]
      BY <2>1, LenProperties
    <2>3. i # h
      BY DEF Filled
    <2>4. L[i][k] \in Nat
      BY <2>1, <2>2, ElementOfSeq, LenProperties
    <2> QED
      BY <2>3, <2>4, ClassSize
  <1> HIDE DEF node, S
  <1>g. ASSUME NEW a \in Nat, NEW m \in Nat, NEW d \in C, Within(a, m, d), NEW k \in 0 .. AddNodes - 1
        PROVE  Apart(a, m, node(k), S) /\ Apart(node(k), S, a, m)
    <2>1. Disjoint(d, c) /\ d.addr \in Nat /\ d.len \in Nat
      <3>1. Disjoint(c, d) /\ d.addr \in Nat /\ d.len \in Nat
        OBVIOUS
      <3> QED
        BY <3>1 DEF Disjoint
    <2>2. node(k) \in Nat /\ Within(node(k), S, c)
      BY <1>b
    <2>3. Apart(a, m, node(k), S)
      BY <1>a, <1>g, <2>1, <2>2, ChunksApart
    <2> QED
      BY <2>3 DEF Apart
  <1>h. ASSUME NEW i \in Classes, NEW k \in 1 .. Len(L[i]), NEW j \in 0 .. AddNodes - 1
        PROVE  Apart(L[i][k], Size(i), node(j), S) /\ Apart(node(j), S, L[i][k], Size(i))
    <2>1. PICK d \in C : Within(L[i][k], Size(i), d)
      BY DEF Pieces, FreeIn
    <2> QED
      BY <1>f, <1>g, <2>1
  <1>i. ASSUME NEW v \in Small(V), NEW j \in 0 .. AddNodes - 1
        PROVE  /\ Apart(v.addr, Align(v.len), node(j), S)
               /\ Apart(node(j), S, v.addr, Align(v.len))
    <2>1. PICK d \in C : Within(v.addr, Align(v.len), d)
      BY DEF Pieces, UsedIn
    <2> QED
      BY <1>g, <2>1
  <1>j. 0 \in 0 .. AddNodes - 1 /\ \A k \in 1 .. AddNodes - 1 : k \in 0 .. AddNodes - 1 /\ k # 0
    BY <1>a
  <1>k. l.addr = node(0) /\ Align(l.len) = S
    BY <1>e DEF S
  <1>1. FreeApart(M)
    <2>1. ASSUME NEW i \in Classes, NEW j \in Classes,
                 NEW s \in 1 .. Len(M[i]), NEW t \in 1 .. Len(M[j]), ~(i = j /\ s = t)
          PROVE  Apart(M[i][s], Size(i), M[j][t], Size(j))
      <3>1. CASE i = h /\ j = h
        BY <1>b, <1>c, <1>j, <2>1, <3>1 DEF S
      <3>2. CASE i = h /\ j # h
        BY <1>c, <1>d, <1>h, <1>j, <3>2 DEF S
      <3>3. CASE i # h /\ j = h
        BY <1>c, <1>d, <1>h, <1>j, <3>3 DEF S
      <3>4. CASE i # h /\ j # h
        BY <1>d, <2>1, <3>4 DEF Pieces, FreeApart
      <3> QED
        BY <3>1, <3>2, <3>3, <3>4
    <2> QED
      BY <2>1 DEF FreeApart
  <1>2. FreeUsed(M, V \cup {l})
    <2>1. ASSUME NEW i \in Classes, NEW s \in 1 .. Len(M[i]), NEW v \in Small(V \cup {l})
          PROVE  Apart(M[i][s], Size(i), v.addr, Align(v.len))
      <3>1. CASE i = h /\ v = l
        BY <1>b, <1>c, <1>j, <1>k, <3>1 DEF S
      <3>2. CASE i = h /\ v \in Small(V)
        BY <1>c, <1>i, <1>j, <3>2 DEF S
      <3>3. CASE i # h /\ v = l
        BY <1>d, <1>h, <1>j, <1>k, <3>3
      <3>4. CASE i # h /\ v \in Small(V)
        BY <1>d, <3>4 DEF Pieces, FreeUsed
      <3> QED
        BY <3>1, <3>2, <3>3, <3>4 DEF Small
    <2> QED
      BY <2>1 DEF FreeUsed
  <1>3. UsedApart(V \cup {l})
    <2>1. ASSUME NEW v \in Small(V \cup {l}), NEW w \in Small(V \cup {l}), v # w
          PROVE  Apart(v.addr, Align(v.len), w.addr, Align(w.len))
      <3>1. CASE v \in Small(V) /\ w \in Small(V)
        BY <2>1, <3>1 DEF Pieces, UsedApart
      <3>2. CASE v = l /\ w \in Small(V)
        BY <1>i, <1>j, <1>k, <3>2
      <3>3. CASE v \in Small(V) /\ w = l
        BY <1>i, <1>j, <1>k, <3>3
      <3> QED
        BY <2>1, <3>1, <3>2, <3>3 DEF Small
    <2> QED
      BY <2>1 DEF UsedApart
  <1>4. FreeIn(M, C \cup {c})
    <2>1. ASSUME NEW i \in Classes, NEW s \in 1 .. Len(M[i])
          PROVE  \E d \in C \cup {c} : Within(M[i][s], Size(i), d)
      <3>1. CASE i = h
        BY <1>b, <1>c, <1>j, <3>1 DEF S
      <3>2. CASE i # h
        BY <1>d, <3>2 DEF Pieces, FreeIn
      <3> QED
        BY <3>1, <3>2
    <2> QED
      BY <2>1 DEF FreeIn
  <1>5. UsedIn(V \cup {l}, C \cup {c})
    <2>1. ASSUME NEW v \in Small(V \cup {l})
          PROVE  \E d \in C \cup {c} : Within(v.addr, Align(v.len), d)
      <3>1. CASE v = l
        BY <1>b, <1>j, <1>k, <3>1
      <3>2. CASE v \in Small(V)
        BY <3>2 DEF Pieces, UsedIn
      <3> QED
        BY <3>1, <3>2 DEF Small
    <2> QED
      BY <2>1 DEF UsedIn
  <1>6. Covered(M, V \cup {l}, C \cup {c})
    <2>1. ASSUME NEW d \in C \cup {c}, NEW x \in d.addr .. d.addr + d.len - 1
          PROVE  \/ \E i \in Classes : \E s \in 1 .. Len(M[i]) : x \in M[i][s] .. M[i][s] + Size(i) - 1
                 \/ \E v \in Small(V \cup {l}) : x \in v.addr .. v.addr + Align(v.len) - 1
      <3>1. CASE d \in C
        <4>1. CASE \E v \in Small(V) : x \in v.addr .. v.addr + Align(v.len) - 1
          BY <4>1 DEF Small
        <4>2. CASE \E i \in Classes : \E k \in 1 .. Len(L[i]) : x \in L[i][k] .. L[i][k] + Size(i) - 1
          <5>1. PICK i \in Classes : \E k \in 1 .. Len(L[i]) : x \in L[i][k] .. L[i][k] + Size(i) - 1
            BY <4>2
          <5>2. M[i] = L[i]
            BY <1>d, <1>f, <5>1
          <5> QED
            BY <5>1, <5>2
        <4> QED
          BY <3>1, <4>1, <4>2 DEF Pieces, Covered
      <3>2. CASE d = c
        <4>0. x \in Int /\ c.addr <= x /\ x < c.addr + c.len
          BY <1>a, <3>2
        <4>1. x - c.addr \in 0 .. AddNodes * S - 1
          BY <1>a, <4>0
        <4>2. PICK k \in 0 .. AddNodes - 1 : x - c.addr \in k * S .. k * S + S - 1
          BY <1>a, <4>1, NodeOfByte
        <4>3. x \in node(k) .. node(k) + S - 1
          <5>1. k * S \in Nat
            BY <1>a
          <5> QED
            BY <1>a, <4>0, <4>2, <5>1 DEF node
        <4>4. CASE k = 0
          <5>1. l \in Small(V \cup {l}) /\ x \in l.addr .. l.addr + Align(l.len) - 1
            BY <1>k, <4>3, <4>4 DEF Small
          <5> QED
            BY <5>1
        <4>5. CASE k # 0
          <5>1. k \in 1 .. Len(M[h]) /\ M[h][k] = node(k)
            BY <1>a, <4>5 DEF Filled, node, S
          <5>2. x \in M[h][k] .. M[h][k] + Size(h) - 1
            BY <4>3, <5>1 DEF S
          <5> QED
            BY <1>a, <5>1, <5>2
        <4> QED
          BY <4>4, <4>5
      <3> QED
        BY <3>1, <3>2
    <2> QED
      BY <2>1 DEF Covered
  <1> QED
    BY <1>1, <1>2, <1>3, <1>4, <1>5, <1>6 DEF Pieces

-----------------------------------------------------------------------------
(* The inductive invariant of PoolAlloter: nothing is left between            *)
(* _pool_start and _pool_end, the pieces partition the chunks, and each large *)
(* object in use has the region that malloc gave for it, to nobody else.      *)

PoolRecord(p) ==
    /\ p = [start |-> p.start, end |-> p.end, list |-> p.list, chunks |-> p.chunks]
    /\ p.start \in 0 .. Heap /\ p.end = p.start
    /\ p.list \in [Classes -> Seq(1 .. Heap)]
Got(r) ==
    /\ r.addr \in 1 .. Heap /\ r.len \in 1 .. Heap
    /\ r = [addr |-> r.addr, len |-> r.len]
Handed(r) ==
    /\ r.addr \in 1 .. Heap /\ r.len \in Sizes
    /\ r = [addr |-> r.addr, len |-> r.len, copy |-> r.copy]
(* The region of an object without its copy, as malloc gave it.              *)
Bare(r) == [addr |-> r.addr, len |-> r.len]
Large(V) == {l \in V : l.len > MaxBytes}

LargeHeld(V, G) ==
    /\ \A l \in Large(V) : Bare(l) \in G
    /\ \A l, m \in Large(V) : l = m \/ Disjoint(l, m)

PoolInv ==
    /\ PoolRecord(pool)
    /\ \A r \in pool.chunks \cup large : Got(r)
    /\ \A r \in live : Handed(r)
    /\ Pieces(pool.list, live, pool.chunks)
    /\ \A c \in pool.chunks, g \in large : Disjoint(c, g)
    /\ LargeHeld(live, large)

(* A list of node addresses is a list of numbers.                            *)
LEMMA NodeSeq ==
    ASSUME NEW s \in Seq(1 .. Heap)
    PROVE  s \in Seq(Nat)
  <1> DEFINE n == Len(s)
  <1>1. n \in Nat /\ s \in [1 .. n -> 1 .. Heap]
    BY LenProperties
  <1>2. s = [i \in 1 .. n |-> s[i]] /\ \A i \in 1 .. n : s[i] \in Nat
    BY <1>1
  <1> HIDE DEF n
  <1>3. [i \in 1 .. n |-> s[i]] \in Seq(Nat)
    BY <1>1, <1>2
  <1> QED
    BY <1>2, <1>3

(* A function on 1 .. n is a sequence of length n.                           *)
LEMMA FunIsSeq ==
    ASSUME NEW n \in Nat, NEW S, NEW f \in [1 .. n -> S]
    PROVE  f \in Seq(S) /\ Len(f) = n
  <1>1. f = [i \in 1 .. n |-> f[i]] /\ \A i \in 1 .. n : f[i] \in S
    OBVIOUS
  <1>2. [i \in 1 .. n |-> f[i]] \in Seq(S) /\ Len([i \in 1 .. n |-> f[i]]) = n
    BY <1>1
  <1> QED
    BY <1>1, <1>2

(* What NewChunk does to the record of the pool.                             *)
LEMMA NewChunkOf ==
    ASSUME NEW s, NEW e, NEW L, NEW C, NEW c
    PROVE  NewChunk([start |-> s, end |-> e, list |-> L, chunks |-> C], c)
             = [start |-> c.addr, end |-> c.addr + c.len, list |-> L, chunks |-> C \cup {c}]
  <1> DEFINE a == c.addr
             z == c.addr + c.len
             D == C \cup {c}
             p == [start |-> s, end |-> e, list |-> L, chunks |-> C]
             q == [start |-> a, end |-> e, list |-> L, chunks |-> C]
             r == [start |-> a, end |-> z, list |-> L, chunks |-> C]
             t == [start |-> a, end |-> z, list |-> L, chunks |-> D]
  <1>0. p.chunks \cup {c} = D
    OBVIOUS
  <1> HIDE DEF a, z, D
  <1>1. [p EXCEPT !.start = a] = q
    OBVIOUS
  <1>2. [q EXCEPT !.end = z] = r
    OBVIOUS
  <1>3. [r EXCEPT !.chunks = D] = t
    OBVIOUS
  <1> HIDE DEF p, q, r, t
  <1>4. NewChunk(p, c) = t
    BY <1>0, <1>1, <1>2, <1>3, Zenon DEF NewChunk, a, z
  <1> QED
    BY <1>4 DEF p, t, a, z, D

(* Setting a list of the pool.                                               *)
LEMMA SetList ==
    ASSUME NEW s, NEW e, NEW L, NEW C, NEW h, NEW x
    PROVE  [[start |-> s, end |-> e, list |-> L, chunks |-> C] EXCEPT !.list[h] = x]
             = [start |-> s, end |-> e, list |-> [L EXCEPT ![h] = x], chunks |-> C]
  OBVIOUS

(* The caller's region is a record of its kind.                              *)
LEMMA RegionHeld ==
    ASSUME NEW a \in 1 .. Heap, NEW size \in Sizes
    PROVE  Handed(Region(a, size)) /\ Region(a, size).addr = a /\ Region(a, size).len = size
  BY DEF Handed, Region

(* The numbers of an object in use.                                         *)
LEMMA HeldTypes ==
    ASSUME NEW r, Handed(r)
    PROVE  /\ r.addr \in Nat /\ r.addr >= 1 /\ r.addr <= Heap
           /\ r.len \in Nat /\ r.len > 0 /\ Align(r.len) \in Nat /\ Align(r.len) >= r.len
  BY SizeClass, PoolAssumption DEF Handed

(* The invariant holds before the first Malloc.                             *)
LEMMA PoolInitInv == PoolInit => PoolInv
  <1> SUFFICES ASSUME PoolInit PROVE PoolInv
    OBVIOUS
  <1>1. PoolRecord(pool)
    <2>1. [i \in Classes |-> <<>>] \in [Classes -> Seq(1 .. Heap)]
      OBVIOUS
    <2> QED
      BY <2>1, PoolAssumption DEF PoolInit, PoolRecord
  <1>2. pool.chunks = {} /\ large = {} /\ live = {} /\ \A i \in Classes : Len(pool.list[i]) = 0
    BY DEF PoolInit
  <1>3. Pieces(pool.list, live, pool.chunks)
    BY <1>2 DEF Pieces, FreeApart, FreeUsed, UsedApart, FreeIn, UsedIn, Covered, Small
  <1> QED
    BY <1>1, <1>2, <1>3 DEF PoolInv, LargeHeld, Large

(* Adding a small object leaves the large ones alone.                        *)
LEMMA LargeKept ==
    ASSUME NEW V, NEW G, NEW l, l.len <= MaxBytes, l.len \in Nat, LargeHeld(V, G)
    PROVE  LargeHeld(V \cup {l}, G) /\ LargeHeld(V \ {l}, G)
  <1>1. Large(V \cup {l}) = Large(V) /\ Large(V \ {l}) = Large(V)
    BY PoolAssumption DEF Large
  <1> QED
    BY <1>1 DEF LargeHeld

(* MallocNode: the head of the list becomes the caller's object.            *)
LEMMA MallocNodeKeepsInv ==
    ASSUME PoolInv, NEW size \in Sizes, MallocNode(size)
    PROVE  PoolInv'
  <1> DEFINE h == FreeListIndex(size)
             L == pool.list
             a == Head(L[h])
             M == [L EXCEPT ![h] = Tail(@)]
             l == Region(a, size)
  <1>1. /\ size <= MaxBytes /\ L[h] # <<>> /\ live' = live \cup {l}
        /\ pool' = [pool EXCEPT !.list[h] = Tail(@)] /\ large' = large
    BY DEF MallocNode
  <1>2. h \in Classes /\ Size(h) = Align(size) /\ size \in Nat
    BY <1>1, SizeClass
  <1>3. L \in [Classes -> Seq(1 .. Heap)] /\ L[h] \in Seq(1 .. Heap)
    BY <1>2 DEF PoolInv, PoolRecord
  <1>4. /\ a \in 1 .. Heap /\ Tail(L[h]) \in Seq(1 .. Heap) /\ Len(L[h]) = Len(Tail(L[h])) + 1
        /\ L[h][1] = a /\ \A k \in 1 .. Len(Tail(L[h])) : L[h][k + 1] = Tail(L[h])[k]
    <2>1. /\ Head(L[h]) \in 1 .. Heap /\ Tail(L[h]) \in Seq(1 .. Heap)
          /\ Len(Tail(L[h])) = Len(L[h]) - 1
          /\ \A k \in 1 .. Len(Tail(L[h])) : Tail(L[h])[k] = L[h][k + 1]
      BY <1>1, <1>3, HeadTailProperties
    <2>2. Len(L[h]) \in Nat /\ L[h][1] = Head(L[h])
      BY <1>3, LenProperties
    <2> QED
      BY <2>1, <2>2
  <1> HIDE DEF a, h
  <1>5. /\ M \in [Classes -> Seq(1 .. Heap)] /\ M[h] = Tail(L[h])
        /\ \A i \in Classes \ {h} : M[i] = L[i]
    BY <1>2, <1>3, <1>4
  <1>6. pool' = [start |-> pool.start, end |-> pool.end, list |-> M, chunks |-> pool.chunks]
    BY <1>1 DEF PoolInv, PoolRecord
  <1>7. Handed(l) /\ l.addr = a /\ l.len = size
    BY <1>4, RegionHeld DEF l
  <1> HIDE DEF l, M, L
  <1>8. Pushed(M, L, h, a)
    <2>3. L \in [Classes -> Seq(Nat)] /\ M \in [Classes -> Seq(Nat)]
      BY <1>3, <1>5, NodeSeq
    <2> QED
      BY <1>2, <1>4, <1>5, <2>3 DEF Pushed
  <1>9. Pieces(M, live \cup {l}, pool.chunks)
    <2>1. Pieces(L, live, pool.chunks)
      BY DEF PoolInv, L
    <2> QED
      BY <1>1, <1>2, <1>7, <1>8, <2>1, TakeNode
  <1>10. PoolRecord(pool')
    BY <1>5, <1>6 DEF PoolInv, PoolRecord
  <1>11. LargeHeld(live \cup {l}, large)
    BY <1>1, <1>2, <1>7, LargeKept DEF PoolInv
  <1>12. pool'.list = M /\ pool'.chunks = pool.chunks
    BY <1>6
  <1> QED
    BY <1>1, <1>7, <1>9, <1>10, <1>11, <1>12 DEF PoolInv

(* MallocReFill takes a chunk that malloc took from nobody; its first node is  *)
(* the caller's and the others are the list.                                *)
LEMMA ReFillStep ==
    ASSUME PoolInv, NEW size \in Sizes, MallocReFill(size)
    PROVE  \E c \in Malloced(Align(size) * AddNodes) :
             LET S == Align(size)
                 e == c.addr + S * AddNodes
                 M == [pool.list EXCEPT ![FreeListIndex(size)] =
                         [i \in 1 .. AddNodes - 1 |-> c.addr + i * S]]
             IN  /\ size <= MaxBytes /\ pool.list[FreeListIndex(size)] = <<>> /\ large' = large
                 /\ pool' = [start |-> e, end |-> e, list |-> M, chunks |-> pool.chunks \cup {c}]
                 /\ live' = live \cup {Region(c.addr, size)}
  <1> DEFINE h == FreeListIndex(size)
             S == Align(size)
             L == pool.list
  <1>1. /\ size <= MaxBytes /\ L[h] = <<>> /\ large' = large
        /\ \E k \in ChunkAlloc(pool, S) :
               pool' = ReFill(k, S).pool /\ live' = live \cup {Region(ReFill(k, S).addr, size)}
    BY DEF MallocReFill
  <1>2. /\ h \in Classes /\ Size(h) = S /\ size \in Nat /\ S \in Nat /\ S > 0
        /\ FreeListIndex(S) = h /\ AddNodes \in Nat /\ AddNodes > 1 /\ S * AddNodes \in Nat
        /\ S * AddNodes > 0
    <2>1. /\ h \in Classes /\ Size(h) = S /\ size \in Nat /\ S \in Nat /\ S >= size /\ size > 0
          /\ FreeListIndex(S) = h /\ AddNodes \in Nat /\ AddNodes > 1
      BY <1>1, SizeClass, PoolAssumption
    <2> HIDE DEF S, h
    <2> QED
      BY <2>1
  <1>3. /\ LeftBytes(pool) = 0 /\ L \in [Classes -> Seq(1 .. Heap)] /\ pool.start \in Nat
        /\ pool = [start |-> pool.start, end |-> pool.start, list |-> L, chunks |-> pool.chunks]
    BY DEF PoolInv, PoolRecord, LeftBytes
  <1>4. PICK c \in Malloced(S * AddNodes) :
            LET k == Carve(NewChunk(KeepRest(pool, S), c), S)
            IN  pool' = ReFill(k, S).pool /\ live' = live \cup {Region(ReFill(k, S).addr, size)}
    <2>1. ~(LeftBytes(pool) >= S)
      BY <1>2, <1>3
    <2> QED
      BY <1>1, <2>1 DEF ChunkAlloc
  <1> DEFINE rest == [i \in 1 .. AddNodes - 1 |-> c.addr + i * S]
             M == [L EXCEPT ![h] = rest]
             e == c.addr + S * AddNodes
             K == pool.chunks \cup {c}
             p == [start |-> c.addr, end |-> e, list |-> L, chunks |-> K]
             q == [start |-> e, end |-> e, list |-> L, chunks |-> K]
             r == [start |-> e, end |-> e, list |-> M, chunks |-> K]
             k == Carve(NewChunk(KeepRest(pool, S), c), S)
  <1> HIDE DEF S, h
  <1>5. /\ c.len = S * AddNodes /\ c = [addr |-> c.addr, len |-> c.len]
        /\ c.addr \in 1 .. Heap - S * AddNodes
        /\ \A d \in pool.chunks \cup large : Disjoint(c, d)
    BY <1>2, <1>4, MallocedApart
  <1> HIDE DEF L
  <1>6. NewChunk(KeepRest(pool, S), c) = p
    <2>1. KeepRest(pool, S) = pool
      BY <1>3 DEF KeepRest
    <2>2. NewChunk([start |-> pool.start, end |-> pool.start, list |-> L, chunks |-> pool.chunks], c)
            = [start |-> c.addr, end |-> c.addr + c.len, list |-> L, chunks |-> pool.chunks \cup {c}]
      BY NewChunkOf
    <2> QED
      BY <1>3, <1>5, <2>1, <2>2
  <1>7. Carve(p, S) = [pool |-> q, res |-> c.addr, nums |-> AddNodes]
    <2>1. LeftBytes(p) = S * AddNodes
      BY <1>2, <1>5 DEF LeftBytes
    <2>2. [p EXCEPT !.start = @ + S * AddNodes] = q
      <3>1. [p EXCEPT !.start = e] = q
        <4> HIDE DEF e, K
        <4> QED
          OBVIOUS
      <3> QED
        BY <3>1
    <2>3. p.start = c.addr
      OBVIOUS
    <2> HIDE DEF p, q
    <2> QED
      BY <1>2, <2>1, <2>2, <2>3 DEF Carve
  <1>8. k = [pool |-> q, res |-> c.addr, nums |-> AddNodes]
    BY <1>6, <1>7
  <1> HIDE DEF k
  <1>9. ReFill(k, S).addr = c.addr /\ ReFill(k, S).pool = r
    <2>1. [q EXCEPT !.list[h] = rest] = r
      <3> HIDE DEF rest, e, K
      <3> QED
        BY SetList
    <2>2. AddNodes # 1
      BY <1>2
    <2> HIDE DEF q, r, rest
    <2>3. ReFill(k, S) = [addr |-> c.addr, pool |-> [q EXCEPT !.list[h] = rest]]
      BY <1>2, <1>8, <2>2 DEF ReFill, rest
    <2> QED
      BY <2>1, <2>3
  <1>10. large' = large /\ pool' = r /\ live' = live \cup {Region(c.addr, size)}
    BY <1>1, <1>4, <1>9 DEF k
  <1> QED
    BY <1>1, <1>10 DEF S, h, L

(* MallocReFill: the new chunk becomes the caller's object and the list.    *)
LEMMA MallocReFillKeepsInv ==
    ASSUME PoolInv, NEW size \in Sizes, MallocReFill(size)
    PROVE  PoolInv'
  <1> DEFINE h == FreeListIndex(size)
             S == Align(size)
             L == pool.list
  <1>0. PICK c \in Malloced(S * AddNodes) :
            LET e == c.addr + S * AddNodes
                M == [L EXCEPT ![h] = [i \in 1 .. AddNodes - 1 |-> c.addr + i * S]]
            IN  /\ size <= MaxBytes /\ L[h] = <<>> /\ large' = large
                /\ pool' = [start |-> e, end |-> e, list |-> M, chunks |-> pool.chunks \cup {c}]
                /\ live' = live \cup {Region(c.addr, size)}
    BY ReFillStep
  <1> DEFINE rest == [i \in 1 .. AddNodes - 1 |-> c.addr + i * S]
             M == [L EXCEPT ![h] = rest]
             l == Region(c.addr, size)
             e == c.addr + S * AddNodes
             K == pool.chunks \cup {c}
             r == [start |-> e, end |-> e, list |-> M, chunks |-> K]
  <1>1. /\ size <= MaxBytes /\ L[h] = <<>> /\ large' = large
        /\ pool' = r /\ live' = live \cup {l}
    BY <1>0
  <1>2. /\ h \in Classes /\ Size(h) = S /\ size \in Nat /\ S \in Nat /\ S > 0
        /\ FreeListIndex(S) = h /\ AddNodes \in Nat /\ AddNodes > 1 /\ S * AddNodes \in Nat
        /\ S * AddNodes > 0
    <2>1. /\ h \in Classes /\ Size(h) = S /\ size \in Nat /\ S \in Nat /\ S >= size /\ size > 0
          /\ FreeListIndex(S) = h /\ AddNodes \in Nat /\ AddNodes > 1
      BY <1>1, SizeClass, PoolAssumption
    <2> HIDE DEF S, h
    <2> QED
      BY <2>1
  <1>3. /\ LeftBytes(pool) = 0 /\ L \in [Classes -> Seq(1 .. Heap)] /\ pool.start \in Nat
        /\ pool = [start |-> pool.start, end |-> pool.start, list |-> L, chunks |-> pool.chunks]
    BY DEF PoolInv, PoolRecord, LeftBytes
  <1> HIDE DEF S, h
  <1>5. /\ c.len = S * AddNodes /\ c = [addr |-> c.addr, len |-> c.len]
        /\ c.addr \in 1 .. Heap - S * AddNodes
        /\ \A d \in pool.chunks \cup large : Disjoint(c, d)
    BY <1>2, MallocedApart
  <1> HIDE DEF L
  <1>11. c.addr \in 1 .. Heap /\ c.addr + S * AddNodes \in 1 .. Heap /\ c.len \in 1 .. Heap
    BY <1>2, <1>5, PoolAssumption
  <1>12. rest \in Seq(1 .. Heap) /\ Len(rest) = AddNodes - 1
    <2>1. ASSUME NEW i \in 1 .. AddNodes - 1 PROVE c.addr + i * S \in 1 .. Heap
      <3>1. /\ c.addr + i * S \in Nat /\ c.addr <= c.addr + i * S
            /\ c.addr + i * S + S <= c.addr + S * AddNodes
        BY <1>2, <1>11, NodesApart, PoolAssumption
      <3> QED
        BY <1>2, <1>11, <3>1, PoolAssumption
    <2>2. AddNodes - 1 \in Nat
      BY <1>2
    <2>3. rest \in [1 .. AddNodes - 1 -> 1 .. Heap]
      BY <2>1
    <2> HIDE DEF rest
    <2> QED
      BY <2>2, <2>3, FunIsSeq
  <1>13. Handed(l) /\ l.addr = c.addr /\ l.len = size
    BY <1>11, RegionHeld DEF l
  <1>14. Filled(L, M, h, c) /\ M \in [Classes -> Seq(1 .. Heap)]
    <2>1. /\ M \in [Classes -> Seq(1 .. Heap)] /\ M[h] = rest
          /\ \A i \in Classes \ {h} : M[i] = L[i]
      BY <1>2, <1>3, <1>12
    <2>2. Len(L[h]) = 0
      BY <1>1 DEF h, L
    <2>3. \A k \in 1 .. AddNodes - 1 : rest[k] = c.addr + k * S
      OBVIOUS
    <2> HIDE DEF M, rest
    <2> QED
      BY <1>2, <1>5, <1>11, <1>12, <2>1, <2>2, <2>3 DEF Filled
  <1> HIDE DEF M, l, rest
  <1>15. Pieces(M, live \cup {l}, pool.chunks \cup {c})
    <2>1. Pieces(L, live, pool.chunks)
      BY DEF PoolInv, L
    <2>2. L \in [Classes -> Seq(Nat)]
      BY <1>3, NodeSeq
    <2>3. \A d \in pool.chunks : d.addr \in Nat /\ d.len \in Nat /\ Disjoint(c, d)
      BY <1>5, PoolAssumption DEF PoolInv, Got
    <2>4. \A v \in Small(live) : v.addr \in Nat /\ Align(v.len) \in Nat
      BY HeldTypes DEF PoolInv, Small
    <2> QED
      BY <1>1, <1>2, <1>13, <1>14, <2>1, <2>2, <2>3, <2>4, FillList DEF S
  <1>16. PoolRecord(r)
    <2>1. /\ r.start = c.addr + S * AddNodes /\ r.end = c.addr + S * AddNodes /\ r.list = M
          /\ r = [start |-> r.start, end |-> r.end, list |-> r.list, chunks |-> r.chunks]
      OBVIOUS
    <2> HIDE DEF r
    <2> QED
      BY <1>11, <1>14, <2>1 DEF PoolRecord
  <1>17. LargeHeld(live \cup {l}, large)
    BY <1>1, <1>2, <1>13, LargeKept DEF PoolInv
  <1>18. Got(c) /\ \A g \in large : Disjoint(c, g)
    BY <1>5, <1>11 DEF Got
  <1>19. r.list = M /\ r.chunks = pool.chunks \cup {c}
    OBVIOUS
  <1> HIDE DEF r
  <1>20. \A g \in pool'.chunks \cup large' : Got(g)
    BY <1>1, <1>18, <1>19 DEF PoolInv
  <1>21. \A g \in live' : Handed(g)
    BY <1>1, <1>13 DEF PoolInv
  <1>22. \A d \in pool'.chunks, g \in large' : Disjoint(d, g)
    BY <1>1, <1>18, <1>19 DEF PoolInv
  <1> QED
    BY <1>1, <1>15, <1>16, <1>17, <1>19, <1>20, <1>21, <1>22 DEF PoolInv

(* The pieces do not depend on the large objects.                            *)
LEMMA PiecesSmall ==
    ASSUME NEW L, NEW V, NEW W, NEW C, Small(V) = Small(W), Pieces(L, V, C)
    PROVE  Pieces(L, W, C)
  BY DEF Pieces, FreeUsed, UsedApart, UsedIn, Covered

(* The region of a new large object, which malloc took from nobody.          *)
LEMMA MallocLargeKeepsInv ==
    ASSUME PoolInv, NEW size \in Sizes, MallocLarge(size)
    PROVE  PoolInv'
  <1>0. PICK g \in Malloced(size) :
            large' = large \cup {g} /\ live' = live \cup {Region(g.addr, size)}
    BY DEF MallocLarge
  <1> DEFINE l == Region(g.addr, size)
  <1>1. /\ size > MaxBytes /\ large' = large \cup {g} /\ live' = live \cup {l}
        /\ pool' = pool
    BY <1>0 DEF MallocLarge
  <1>2. size \in Nat /\ size > 0
    BY SizeClass
  <1>3. /\ g.len = size /\ g = [addr |-> g.addr, len |-> size] /\ g.addr \in 1 .. Heap - size
        /\ \A d \in pool.chunks \cup large : Disjoint(g, d)
    BY <1>2, MallocedApart
  <1>4. g.addr \in 1 .. Heap /\ size \in 1 .. Heap
    BY <1>2, <1>3, PoolAssumption
  <1>5. Handed(l) /\ l.addr = g.addr /\ l.len = size
    BY <1>4, RegionHeld
  <1> HIDE DEF l
  <1>6. Got(g) /\ Bare(l) = g
    BY <1>3, <1>4, <1>5 DEF Got, Bare
  <1>7. Pieces(pool.list, live \cup {l}, pool.chunks)
    <2>1. ~(size <= MaxBytes)
      BY <1>1, <1>2, PoolAssumption
    <2>2. Small(live \cup {l}) = Small(live)
      BY <1>5, <2>1 DEF Small
    <2> QED
      BY <2>2, PiecesSmall DEF PoolInv
  <1>8. LargeHeld(live \cup {l}, large \cup {g})
    <2>1. ASSUME NEW m \in Large(live) PROVE Disjoint(l, m) /\ Disjoint(m, l)
      <3>1. Bare(m) \in large
        BY DEF PoolInv, LargeHeld
      <3>2. Disjoint(g, Bare(m))
        BY <1>3, <3>1
      <3> QED
        BY <1>3, <1>5, <3>2 DEF Disjoint, Bare
    <2>2. Large(live \cup {l}) \subseteq Large(live) \cup {l}
      BY DEF Large
    <2> QED
      BY <1>6, <2>1, <2>2 DEF PoolInv, LargeHeld
  <1>9. \A c \in pool.chunks, d \in large \cup {g} : Disjoint(c, d)
    <2>1. \A c \in pool.chunks : Disjoint(c, g)
      BY <1>3 DEF Disjoint
    <2> QED
      BY <2>1 DEF PoolInv
  <1>10. \A d \in pool.chunks \cup (large \cup {g}) : Got(d)
    BY <1>6 DEF PoolInv
  <1>11. \A d \in live \cup {l} : Handed(d)
    BY <1>5 DEF PoolInv
  <1> QED
    BY <1>1, <1>7, <1>8, <1>9, <1>10, <1>11 DEF PoolInv

(* Free of a large object.                                                  *)
LEMMA FreeLargeKeepsInv ==
    ASSUME PoolInv, NEW r \in live, Free(r), r.len > MaxBytes
    PROVE  PoolInv'
  <1>1. live' = live \ {r} /\ large' = large \ {Bare(r)} /\ pool' = pool
    BY DEF Free, Bare
  <1>2. Pieces(pool.list, live \ {r}, pool.chunks)
    <2>1. ~(r.len <= MaxBytes)
      BY HeldTypes, PoolAssumption DEF PoolInv
    <2>2. Small(live \ {r}) = Small(live)
      BY <2>1 DEF Small
    <2> QED
      BY <2>2, PiecesSmall DEF PoolInv
  <1>3. LargeHeld(live \ {r}, large \ {Bare(r)})
    <2>1. ASSUME NEW m \in Large(live \ {r}) PROVE Bare(m) \in large /\ Bare(m) # Bare(r)
      <3>1. m \in Large(live) /\ r \in Large(live) /\ m # r
        BY DEF Large
      <3>2. Disjoint(m, r) /\ Bare(m) \in large
        BY <3>1 DEF PoolInv, LargeHeld
      <3>3. m.addr \in Nat /\ m.len \in Nat /\ m.len > 0 /\ r.len > 0
        BY <3>1, HeldTypes DEF PoolInv, Large
      <3>4. ~(m.addr = r.addr /\ m.len = r.len)
        BY <3>2, <3>3 DEF Disjoint
      <3>5. Bare(m).addr = m.addr /\ Bare(m).len = m.len /\ Bare(r).addr = r.addr /\ Bare(r).len = r.len
        BY DEF Bare
      <3> QED
        BY <3>2, <3>4, <3>5
    <2>2. \A m \in Large(live \ {r}) : m \in Large(live)
      BY DEF Large
    <2> QED
      BY <2>1, <2>2 DEF PoolInv, LargeHeld
  <1> QED
    BY <1>1, <1>2, <1>3 DEF PoolInv

(* Free of a small object: its node becomes the head of its list.             *)
LEMMA FreeNodeKeepsInv ==
    ASSUME PoolInv, NEW r \in live, Free(r), ~(r.len > MaxBytes)
    PROVE  PoolInv'
  <1> DEFINE h == FreeListIndex(r.len)
             L == pool.list
             x == <<r.addr>> \o L[h]
             M == [L EXCEPT ![h] = x]
  <1>1. live' = live \ {r} /\ pool' = [pool EXCEPT !.list[h] = x] /\ large' = large
    BY DEF Free
  <1>2. /\ Handed(r) /\ r.addr \in 1 .. Heap /\ r.len \in Sizes /\ r.len <= MaxBytes
        /\ r.len \in Nat
    <2>1. Handed(r)
      BY DEF PoolInv
    <2>2. r.len \in Nat
      BY <2>1, HeldTypes
    <2> QED
      BY <2>1, <2>2, PoolAssumption DEF Handed
  <1>3. h \in Classes /\ Size(h) = Align(r.len)
    BY <1>2, SizeClass
  <1>4. L \in [Classes -> Seq(1 .. Heap)] /\ L[h] \in Seq(1 .. Heap)
    BY <1>3 DEF PoolInv, PoolRecord
  <1> HIDE DEF h
  <1>5. /\ x \in Seq(1 .. Heap) /\ Len(x) = Len(L[h]) + 1 /\ x[1] = r.addr
        /\ \A k \in 1 .. Len(L[h]) : x[k + 1] = L[h][k]
    <2>1. <<r.addr>> \in Seq(1 .. Heap) /\ Len(<<r.addr>>) = 1
      BY <1>2
    <2>2. Len(L[h]) \in Nat
      BY <1>4, LenProperties
    <2>3. /\ x \in Seq(1 .. Heap) /\ Len(x) = 1 + Len(L[h])
          /\ \A i \in 1 .. 1 + Len(L[h]) : x[i] = IF i <= 1 THEN <<r.addr>>[i] ELSE L[h][i - 1]
      BY <1>4, <2>1, ConcatProperties
    <2> HIDE DEF x
    <2>4. x[1] = r.addr
      BY <2>2, <2>3
    <2>5. ASSUME NEW k \in 1 .. Len(L[h]) PROVE x[k + 1] = L[h][k]
      <3>1. k + 1 \in 1 .. 1 + Len(L[h]) /\ ~(k + 1 <= 1) /\ (k + 1) - 1 = k
        BY <2>2
      <3> QED
        BY <2>3, <3>1
    <2> QED
      BY <2>2, <2>3, <2>4, <2>5
  <1> HIDE DEF x
  <1>6. /\ M \in [Classes -> Seq(1 .. Heap)] /\ M[h] = x
        /\ \A i \in Classes \ {h} : M[i] = L[i]
    BY <1>3, <1>4, <1>5
  <1>7. pool' = [start |-> pool.start, end |-> pool.end, list |-> M, chunks |-> pool.chunks]
    <2>1. pool = [start |-> pool.start, end |-> pool.end, list |-> L, chunks |-> pool.chunks]
      BY DEF PoolInv, PoolRecord
    <2> QED
      BY <1>1, <2>1, SetList
  <1> HIDE DEF M, L
  <1>8. Pushed(L, M, h, r.addr)
    <2>1. L \in [Classes -> Seq(Nat)] /\ M \in [Classes -> Seq(Nat)]
      BY <1>4, <1>6, NodeSeq
    <2> QED
      BY <1>3, <1>5, <1>6, <2>1 DEF Pushed
  <1>9. Pieces(M, live \ {r}, pool.chunks)
    <2>1. Pieces(L, live, pool.chunks)
      BY DEF PoolInv, L
    <2> QED
      BY <1>2, <1>3, <1>8, <2>1, GiveNode
  <1>10. PoolRecord(pool')
    BY <1>6, <1>7 DEF PoolInv, PoolRecord
  <1>11. LargeHeld(live \ {r}, large)
    BY <1>2, LargeKept DEF PoolInv
  <1>12. pool'.list = M /\ pool'.chunks = pool.chunks
    BY <1>7
  <1> QED
    BY <1>1, <1>9, <1>10, <1>11, <1>12 DEF PoolInv

(* With nothing left in the pool, a failed malloc changes nothing.            *)
LEMMA FailChangesNothing ==
    ASSUME PoolInv, NEW size \in Sizes, MallocFails(size)
    PROVE  UNCHANGED pool_vars
  <1>1. LeftBytes(pool) = 0
    BY DEF PoolInv, PoolRecord, LeftBytes
  <1> QED
    BY <1>1 DEF MallocFails, KeepRest, pool_vars

(* Every step keeps the invariant.                                          *)
LEMMA PoolNextInv == PoolInv /\ [PoolNext]_pool_vars => PoolInv'
  <1> SUFFICES ASSUME PoolInv, [PoolNext]_pool_vars PROVE PoolInv'
    OBVIOUS
  <1>1. CASE UNCHANGED pool_vars
    BY <1>1 DEF PoolInv, pool_vars
  <1>2. ASSUME NEW size \in Sizes, Malloc(size) PROVE PoolInv'
    BY <1>2, MallocLargeKeepsInv, MallocNodeKeepsInv, MallocReFillKeepsInv DEF Malloc
  <1>3. ASSUME NEW size \in Sizes, MallocFails(size) PROVE PoolInv'
    <2>1. UNCHANGED pool_vars
      BY <1>3, FailChangesNothing
    <2> QED
      BY <1>1, <2>1
  <1>4. ASSUME NEW r \in live, Free(r) PROVE PoolInv'
    BY <1>4, FreeLargeKeepsInv, FreeNodeKeepsInv
  <1> QED
    BY <1>1, <1>2, <1>3, <1>4 DEF PoolNext

(* So it is an invariant of PoolAlloter.                                    *)
LEMMA PoolInductive == PoolSpec => []PoolInv
  BY PoolInitInv, PoolNextInv, PTL DEF PoolSpec

(* The invariant in the terms of PiecesPartition.                            *)
LEMMA PiecesAreApart == PoolInv => PiecesPartition
  <1> SUFFICES ASSUME PoolInv PROVE PiecesPartition
    OBVIOUS
  <1> DEFINE L == pool.list
             free(i, k) == [addr |-> L[i][k], len |-> (i + 1) * Unit, copy |-> <<"free", i, k>>]
             obj(l) == [l EXCEPT !.len = Align(@)]
  <1>1. PoolTypeOK
    <2>1. pool.start \in 0 .. Heap /\ pool.end \in pool.start .. Heap
      BY PoolAssumption DEF PoolInv, PoolRecord
    <2>2. pool.list \in [Classes -> Seq(0 .. Heap)]
      <3>1. ASSUME NEW t \in Seq(1 .. Heap) PROVE t \in Seq(0 .. Heap)
        <4>1. Len(t) \in Nat /\ t \in [1 .. Len(t) -> 1 .. Heap]
          BY LenProperties
        <4>2. t \in [1 .. Len(t) -> 0 .. Heap]
          BY <4>1
        <4> QED
          BY <4>1, <4>2, FunIsSeq
      <3> QED
        BY <3>1 DEF PoolInv, PoolRecord
    <2>3. \A r \in live : r.addr \in 1 .. Heap /\ r.len \in Sizes
      BY DEF PoolInv, Handed
    <2>4. \A r \in pool.chunks \cup large : r.addr \in 1 .. Heap /\ r.len \in 1 .. Heap
      BY DEF PoolInv, Got
    <2> QED
      BY <2>1, <2>2, <2>3, <2>4 DEF PoolTypeOK
  <1>2. LeftBytes(pool) = 0 /\ Rest = {}
    BY DEF PoolInv, PoolRecord, LeftBytes, Rest
  <1>3. ASSUME NEW r \in FreeNodes
        PROVE  \E i \in Classes : \E k \in 1 .. Len(L[i]) :
                 r = free(i, k) /\ r.addr = L[i][k] /\ r.len = Size(i)
    <2>1. PICK i \in Classes : \E k \in 1 .. Len(L[i]) : r = free(i, k)
      BY DEF FreeNodes
    <2>2. PICK k \in 1 .. Len(L[i]) : r = free(i, k)
      BY <2>1
    <2>3. r.addr = L[i][k] /\ r.len = Size(i)
      BY <2>2 DEF Size
    <2> QED
      BY <2>2, <2>3
  <1>4. ASSUME NEW i \in Classes, NEW k \in 1 .. Len(L[i])
        PROVE  free(i, k) \in FreeNodes /\ free(i, k).addr = L[i][k] /\ free(i, k).len = Size(i)
    <2>1. free(i, k) \in FreeNodes
      BY DEF FreeNodes
    <2> QED
      BY <2>1 DEF Size
  <1>5. ASSUME NEW l \in Small(live)
        PROVE  obj(l) \in Used /\ obj(l).addr = l.addr /\ obj(l).len = Align(l.len)
    <2>1. obj(l) \in Used
      BY DEF Used, Small
    <2>2. l = [addr |-> l.addr, len |-> l.len, copy |-> l.copy]
      BY DEF PoolInv, Handed, Small
    <2>3. obj(l) = [addr |-> l.addr, len |-> Align(l.len), copy |-> l.copy]
      BY <2>2
    <2> QED
      BY <2>1, <2>3
  <1>6. ASSUME NEW r \in Used
        PROVE  \E l \in Small(live) : r = obj(l) /\ r.addr = l.addr /\ r.len = Align(l.len)
    <2>1. PICK l \in Small(live) : r = obj(l)
      BY DEF Used, Small
    <2> QED
      BY <1>5, <2>1
  <1> HIDE DEF free, obj, L
  <1>7. ASSUME NEW r \in FreeNodes \cup Used, NEW s \in FreeNodes \cup Used, r # s
        PROVE  Disjoint(r, s)
    <2> SUFFICES Apart(r.addr, r.len, s.addr, s.len)
      BY DEF Apart, Disjoint
    <2>1. CASE r \in FreeNodes /\ s \in FreeNodes
      <3>1. PICK i \in Classes : \E k \in 1 .. Len(L[i]) :
                   r = free(i, k) /\ r.addr = L[i][k] /\ r.len = Size(i)
        BY <1>3, <2>1
      <3>2. PICK k \in 1 .. Len(L[i]) : r = free(i, k) /\ r.addr = L[i][k] /\ r.len = Size(i)
        BY <3>1
      <3>3. PICK j \in Classes : \E m \in 1 .. Len(L[j]) :
                   s = free(j, m) /\ s.addr = L[j][m] /\ s.len = Size(j)
        BY <1>3, <2>1
      <3>4. PICK m \in 1 .. Len(L[j]) : s = free(j, m) /\ s.addr = L[j][m] /\ s.len = Size(j)
        BY <3>3
      <3>5. ~(i = j /\ k = m)
        BY <1>7, <3>2, <3>4
      <3> QED
        BY <3>2, <3>4, <3>5 DEF PoolInv, Pieces, FreeApart, L
    <2>2. CASE r \in FreeNodes /\ s \in Used
      <3>1. PICK i \in Classes : \E k \in 1 .. Len(L[i]) : r.addr = L[i][k] /\ r.len = Size(i)
        BY <1>3, <2>2
      <3>2. PICK l \in Small(live) : s.addr = l.addr /\ s.len = Align(l.len)
        BY <1>6, <2>2
      <3> QED
        BY <3>1, <3>2 DEF PoolInv, Pieces, FreeUsed, L
    <2>3. CASE r \in Used /\ s \in FreeNodes
      <3>1. PICK i \in Classes : \E k \in 1 .. Len(L[i]) : s.addr = L[i][k] /\ s.len = Size(i)
        BY <1>3, <2>3
      <3>2. PICK l \in Small(live) : r.addr = l.addr /\ r.len = Align(l.len)
        BY <1>6, <2>3
      <3>3. Apart(s.addr, s.len, r.addr, r.len)
        BY <3>1, <3>2 DEF PoolInv, Pieces, FreeUsed, L
      <3> QED
        BY <3>3 DEF Apart
    <2>4. CASE r \in Used /\ s \in Used
      <3>1. PICK l \in Small(live) : r = obj(l) /\ r.addr = l.addr /\ r.len = Align(l.len)
        BY <1>6, <2>4
      <3>2. PICK m \in Small(live) : s = obj(m) /\ s.addr = m.addr /\ s.len = Align(m.len)
        BY <1>6, <2>4
      <3>3. l # m
        BY <1>7, <3>1, <3>2
      <3> QED
        BY <3>1, <3>2, <3>3 DEF PoolInv, Pieces, UsedApart
    <2> QED
      BY <2>1, <2>2, <2>3, <2>4
  <1>8. ASSUME NEW r \in FreeNodes \cup Used PROVE \E c \in pool.chunks : Inside(r, c)
    <2>1. CASE r \in FreeNodes
      <3>1. PICK i \in Classes : \E k \in 1 .. Len(L[i]) : r.addr = L[i][k] /\ r.len = Size(i)
        BY <1>3, <2>1
      <3>2. \E c \in pool.chunks : Within(r.addr, r.len, c)
        BY <3>1 DEF PoolInv, Pieces, FreeIn, L
      <3> QED
        BY <3>2 DEF Within, Inside
    <2>2. CASE r \in Used
      <3>1. PICK l \in Small(live) : r.addr = l.addr /\ r.len = Align(l.len)
        BY <1>6, <2>2
      <3>2. \E c \in pool.chunks : Within(r.addr, r.len, c)
        BY <3>1 DEF PoolInv, Pieces, UsedIn
      <3> QED
        BY <3>2 DEF Within, Inside
    <2> QED
      BY <2>1, <2>2
  <1>9. ASSUME NEW c \in pool.chunks, NEW x \in Bytes(c)
        PROVE  \E r \in FreeNodes \cup Used : x \in Bytes(r)
    <2>1. \/ \E i \in Classes : \E k \in 1 .. Len(L[i]) : x \in L[i][k] .. L[i][k] + Size(i) - 1
          \/ \E l \in Small(live) : x \in l.addr .. l.addr + Align(l.len) - 1
      BY DEF PoolInv, Pieces, Covered, L, Bytes
    <2>2. CASE \E i \in Classes : \E k \in 1 .. Len(L[i]) : x \in L[i][k] .. L[i][k] + Size(i) - 1
      <3>1. PICK i \in Classes : \E k \in 1 .. Len(L[i]) : x \in L[i][k] .. L[i][k] + Size(i) - 1
        BY <2>2
      <3>2. PICK k \in 1 .. Len(L[i]) : x \in L[i][k] .. L[i][k] + Size(i) - 1
        BY <3>1
      <3>3. x \in Bytes(free(i, k))
        BY <1>4, <3>2 DEF Bytes
      <3> QED
        BY <1>4, <3>3
    <2>3. CASE \E l \in Small(live) : x \in l.addr .. l.addr + Align(l.len) - 1
      <3>1. PICK l \in Small(live) : x \in l.addr .. l.addr + Align(l.len) - 1
        BY <2>3
      <3>2. x \in Bytes(obj(l))
        BY <1>5, <3>1 DEF Bytes
      <3> QED
        BY <1>5, <3>2
    <2> QED
      BY <2>1, <2>2, <2>3
  <1> QED
    BY <1>1, <1>2, <1>7, <1>8, <1>9 DEF PiecesPartition

(* The free nodes and the objects in use never overlap, each lies within a    *)
(* chunk, and no byte of a chunk is lost, whatever is asked of PoolAlloter.   *)
THEOREM PiecesArePartitioned == PoolSpec => []PiecesPartition
  BY PoolInductive, PiecesAreApart, PTL

(* An object in use lies in a region that malloc gave.                        *)
LEMMA LiveInside ==
    ASSUME PoolInv, NEW m \in live
    PROVE  \E d \in pool.chunks \cup large : Within(m.addr, m.len, d)
  <1>1. /\ m.addr \in Nat /\ m.len \in Nat /\ Align(m.len) \in Nat /\ Align(m.len) >= m.len
    BY HeldTypes DEF PoolInv
  <1>2. CASE m.len <= MaxBytes
    <2>1. PICK c \in pool.chunks : Within(m.addr, Align(m.len), c)
      BY <1>2 DEF PoolInv, Pieces, UsedIn, Small
    <2>2. c.addr \in Nat /\ c.len \in Nat
      BY PoolAssumption DEF PoolInv, Got
    <2>3. Within(m.addr, m.len, c)
      BY <1>1, <2>1, <2>2 DEF Within
    <2> QED
      BY <2>3
  <1>3. CASE ~(m.len <= MaxBytes)
    <2>1. m.len > MaxBytes
      BY <1>1, <1>3, PoolAssumption
    <2>2. Bare(m) \in large
      BY <2>1 DEF PoolInv, LargeHeld, Large
    <2>3. Within(m.addr, m.len, Bare(m))
      BY <1>1 DEF Within, Bare
    <2> QED
      BY <2>2, <2>3
  <1> QED
    BY <1>2, <1>3

(* What is within a region fresh from malloc overlaps no object in use.       *)
LEMMA FreshIsApart ==
    ASSUME PoolInv, NEW n \in Nat, NEW g \in Malloced(n), NEW l, Handed(l),
           Within(l.addr, l.len, g), NEW m \in live
    PROVE  Disjoint(l, m)
  <1>1. PICK d \in pool.chunks \cup large : Within(m.addr, m.len, d)
    BY LiveInside
  <1>2. d.addr \in Nat /\ d.len \in Nat
    BY PoolAssumption DEF PoolInv, Got
  <1>3. m.addr \in Nat /\ m.len \in Nat /\ l.addr \in Nat /\ l.len \in Nat
    BY HeldTypes DEF PoolInv
  <1>4. g.addr \in Nat /\ g.len \in Nat /\ Disjoint(g, d)
    BY MallocedApart, PoolAssumption
  <1>5. Apart(l.addr, l.len, m.addr, m.len)
    BY <1>1, <1>2, <1>3, <1>4, ChunksApart
  <1> QED
    BY <1>5 DEF Apart, Disjoint

(* A free node overlaps no object in use.                                    *)
LEMMA NodeIsApart ==
    ASSUME PoolInv, NEW size \in Sizes, size <= MaxBytes,
           pool.list[FreeListIndex(size)] # <<>>, NEW m \in live
    PROVE  /\ Head(pool.list[FreeListIndex(size)]) \in 1 .. Heap
           /\ Disjoint(Region(Head(pool.list[FreeListIndex(size)]), size), m)
  <1> DEFINE h == FreeListIndex(size)
             L == pool.list
             a == Head(L[h])
             l == Region(a, size)
  <1>1. h \in Classes /\ Size(h) = Align(size)
    BY SizeClass
  <1>2. L[h] \in Seq(1 .. Heap)
    BY <1>1 DEF PoolInv, PoolRecord
  <1>3. a \in 1 .. Heap /\ a = L[h][1] /\ Len(L[h]) \in Nat /\ Len(L[h]) # 0
    <2>1. a \in 1 .. Heap /\ Tail(L[h]) \in Seq(1 .. Heap) /\ Len(Tail(L[h])) = Len(L[h]) - 1
      BY <1>2, HeadTailProperties
    <2>2. Len(L[h]) \in Nat /\ a = L[h][1]
      BY <1>2, LenProperties
    <2>3. Len(Tail(L[h])) \in Nat
      BY <2>1, LenProperties
    <2> QED
      BY <2>1, <2>2, <2>3
  <1>4. 1 \in 1 .. Len(L[h])
    BY <1>3
  <1> HIDE DEF h, a
  <1>5. Handed(l) /\ l.addr = a /\ l.len = size
    BY <1>3, RegionHeld
  <1> HIDE DEF l
  <1>6. /\ m.addr \in Nat /\ m.len \in Nat /\ Align(m.len) \in Nat /\ Align(m.len) >= m.len
        /\ l.addr \in Nat /\ l.len \in Nat /\ Align(size) \in Nat /\ Align(size) >= l.len
    BY <1>5, HeldTypes DEF PoolInv
  <1>7. ASSUME m.len <= MaxBytes PROVE Disjoint(l, m)
    <2>1. Apart(L[h][1], Size(h), m.addr, Align(m.len))
      BY <1>1, <1>4, <1>7 DEF PoolInv, Pieces, FreeUsed, Small
    <2>2. Apart(l.addr, Align(size), m.addr, Align(m.len))
      BY <1>1, <1>3, <1>5, <2>1
    <2> QED
      BY <1>6, <2>2 DEF Apart, Disjoint
  <1>8. ASSUME ~(m.len <= MaxBytes) PROVE Disjoint(l, m)
    <2>1. m.len > MaxBytes
      BY <1>6, <1>8, PoolAssumption
    <2>2. Bare(m) \in large
      BY <2>1 DEF PoolInv, LargeHeld, Large
    <2>3. PICK c \in pool.chunks : Within(L[h][1], Size(h), c)
      BY <1>1, <1>4 DEF PoolInv, Pieces, FreeIn
    <2>4. c.addr \in Nat /\ c.len \in Nat /\ Disjoint(c, Bare(m))
      BY <2>2, PoolAssumption DEF PoolInv, Got
    <2>5. Bare(m).addr = m.addr /\ Bare(m).len = m.len
      BY DEF Bare
    <2>6. Within(l.addr, Align(size), c)
      BY <1>1, <1>3, <1>5, <2>3
    <2> QED
      BY <1>6, <2>4, <2>5, <2>6 DEF Within, Disjoint
  <1> QED
    BY <1>3, <1>7, <1>8 DEF l, a, h

(* The region of a Malloc is none that a caller has, and overlaps none.        *)
LEMMA NewIsApart ==
    ASSUME PoolInv, NEW size \in Sizes, Malloc(size)
    PROVE  \E l \in live' : /\ l \notin live /\ l.len > 0 /\ live' = live \cup {l}
                            /\ \A m \in live : Disjoint(l, m)
  <1>1. ASSUME NEW l, Handed(l), live' = live \cup {l}, \A m \in live : Disjoint(l, m)
        PROVE  \E k \in live' : /\ k \notin live /\ k.len > 0 /\ live' = live \cup {k}
                                /\ \A m \in live : Disjoint(k, m)
    <2>1. l.addr \in Nat /\ l.len \in Nat /\ l.len > 0
      BY <1>1, HeldTypes
    <2>2. ~Disjoint(l, l)
      BY <2>1 DEF Disjoint
    <2>3. l \notin live
      BY <1>1, <2>2
    <2> QED
      BY <1>1, <2>1, <2>3
  <1>2. CASE MallocLarge(size)
    <2>0. PICK g \in Malloced(size) : live' = live \cup {Region(g.addr, size)}
      BY <1>2 DEF MallocLarge
    <2> DEFINE l == Region(g.addr, size)
    <2>1. live' = live \cup {l}
      BY <2>0
    <2>2. size \in Nat /\ size > 0
      BY SizeClass
    <2>3. g.len = size /\ g.addr \in 1 .. Heap - size
      BY <2>2, MallocedApart
    <2>4. g.addr \in 1 .. Heap
      BY <2>2, <2>3, PoolAssumption
    <2>5. Handed(l) /\ l.addr = g.addr /\ l.len = size
      BY <2>4, RegionHeld
    <2> HIDE DEF l
    <2>6. Within(l.addr, l.len, g)
      BY <2>2, <2>3, <2>5 DEF Within
    <2>7. \A m \in live : Disjoint(l, m)
      BY <2>2, <2>5, <2>6, FreshIsApart
    <2> QED
      BY <1>1, <2>1, <2>5, <2>7
  <1>3. CASE MallocNode(size)
    <2> DEFINE a == Head(pool.list[FreeListIndex(size)])
               l == Region(a, size)
    <2>1. /\ live' = live \cup {l} /\ size <= MaxBytes /\ pool.list[FreeListIndex(size)] # <<>>
      BY <1>3 DEF MallocNode
    <2>2. \A m \in live : Disjoint(l, m)
      BY <2>1, NodeIsApart
    <2>3. a \in 1 .. Heap
      <3>1. FreeListIndex(size) \in Classes
        BY <2>1, SizeClass
      <3>2. pool.list[FreeListIndex(size)] \in Seq(1 .. Heap)
        BY <3>1 DEF PoolInv, PoolRecord
      <3> QED
        BY <2>1, <3>2, HeadTailProperties
    <2> HIDE DEF a
    <2>4. Handed(l)
      BY <2>3, RegionHeld
    <2> HIDE DEF l
    <2> QED
      BY <1>1, <2>1, <2>2, <2>4
  <1>4. CASE MallocReFill(size)
    <2> DEFINE S == Align(size)
    <2>0. PICK g \in Malloced(S * AddNodes) : live' = live \cup {Region(g.addr, size)}
      BY <1>4, ReFillStep
    <2> DEFINE l == Region(g.addr, size)
    <2>1. live' = live \cup {l}
      BY <2>0
    <2>2. /\ size \in Nat /\ S \in Nat /\ S >= size /\ AddNodes \in Nat /\ AddNodes > 1
      BY SizeClass, PoolAssumption
    <2> HIDE DEF S
    <2>3. S * AddNodes \in Nat /\ S * AddNodes >= S
      BY <2>2
    <2>4. g.len = S * AddNodes /\ g.addr \in 1 .. Heap - S * AddNodes
      BY <2>3, MallocedApart
    <2>5. g.addr \in 1 .. Heap
      BY <2>3, <2>4, PoolAssumption
    <2>6. Handed(l) /\ l.addr = g.addr /\ l.len = size
      BY <2>5, RegionHeld
    <2> HIDE DEF l
    <2>7. Within(l.addr, l.len, g)
      BY <2>2, <2>3, <2>4, <2>5, <2>6 DEF Within
    <2>8. \A m \in live : Disjoint(l, m)
      BY <2>3, <2>6, <2>7, FreshIsApart
    <2> QED
      BY <1>1, <2>1, <2>6, <2>8
  <1> QED
    BY <1>2, <1>3, <1>4 DEF Malloc

(* PoolAlloter implements the allocator's promise: what the callers have      *)
(* never overlaps.                                                          *)
THEOREM PoolRefines == PoolSpec => PoolIsAllocator
  <1>1. PoolInit => LiveRegions!Init
    BY DEF PoolInit, LiveRegions!Init
  <1>2. PoolInv /\ [PoolNext]_pool_vars => [LiveRegions!Alloc \/ LiveRegions!Free]_live
    <2> SUFFICES ASSUME PoolInv, [PoolNext]_pool_vars
                 PROVE  [LiveRegions!Alloc \/ LiveRegions!Free]_live
      OBVIOUS
    <2>1. CASE UNCHANGED pool_vars
      BY <2>1 DEF pool_vars
    <2>2. ASSUME NEW size \in Sizes, Malloc(size) PROVE LiveRegions!Alloc
      BY <2>2, NewIsApart DEF LiveRegions!Alloc, LiveRegions!Disjoint, Disjoint
    <2>3. ASSUME NEW size \in Sizes, MallocFails(size) PROVE UNCHANGED live
      BY <2>3 DEF MallocFails
    <2>4. ASSUME NEW r \in live, Free(r) PROVE LiveRegions!Free
      BY <2>4 DEF Free, LiveRegions!Free
    <2> QED
      BY <2>1, <2>2, <2>3, <2>4 DEF PoolNext
  <1> QED
    BY <1>1, <1>2, PoolInductive, PTL DEF PoolSpec, PoolIsAllocator, LiveRegions!Spec
=============================================================================
