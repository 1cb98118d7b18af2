------------------------------- MODULE UvProofs -------------------------------
(***************************************************************************)
(* Proofs about the minimum heap of libuv-lua, for heaps of any size, and    *)
(* about the server that keeps its connections in one.                      *)
(***************************************************************************)
EXTENDS MCUvServer, FiniteSetTheorems, WellFoundedInduction, TLAPS

-----------------------------------------------------------------------------
(* The loops of minheap.c.  What holds for every number is shown by looking  *)
(* at the least one for which it would not hold.                            *)

(* A non-empty set of numbers has a least element.                          *)
LEMMA LeastOf ==
    ASSUME NEW T, T \subseteq Nat, T # {}
    PROVE  \E x \in T : \A y \in T : x <= y
  <1> DEFINE R == OpToRel(<, Nat)
  <1>1. PICK x \in T : \A y \in T : ~(<<y, x>> \in R)
    BY NatLessThanWellFounded, WFMin
  <1>2. R = {ss \in Nat \X Nat : ss[1] < ss[2]}
    BY DEF OpToRel
  <1> HIDE DEF R
  <1>3. ASSUME NEW y \in T PROVE x <= y
    <2>1. <<y, x>> \in Nat \X Nat
      OBVIOUS
    <2>2. ~(y < x)
      BY <1>1, <1>2, <2>1
    <2> QED
      BY <2>2
  <1> QED
    BY <1>3

(* The parent of a place, and its two children.                             *)
LEMMA Family ==
    ASSUME NEW k \in Nat
    PROVE  /\ k > 0 => Parent(k) \in 0 .. k - 1 /\ (k = 2 * Parent(k) + 1 \/ k = 2 * Parent(k) + 2)
           /\ Parent(2 * k + 1) = k /\ Parent(2 * k + 2) = k
  BY DEF Parent

(* The function that UpPath is defined by.                                  *)
IsUp(f, h, e, m) ==
    f = [j \in 0 .. m |-> IF UpStops(h, j, e) THEN {j} ELSE {j} \cup f[Parent(j)]]

(* It exists, as the loop ends.                                             *)
LEMMA UpExists ==
    ASSUME NEW h, NEW e, NEW i \in Nat
    PROVE  \E f : IsUp(f, h, e, i)
  <1> DEFINE T == {m \in Nat : ~\E f : IsUp(f, h, e, m)}
  <1>1. ASSUME NEW j \in Nat, ~UpStops(h, j, e)
        PROVE  j > 0 /\ Parent(j) \in 0 .. j - 1
    <2>1. j # 0
      BY <1>1 DEF UpStops
    <2> QED
      BY <2>1, Family
  <1>2. ASSUME T # {} PROVE FALSE
    <2>1. PICK m \in T : \A y \in T : m <= y
      BY <1>2, LeastOf
    <2>2. CASE m = 0
      <3> DEFINE f == [j \in 0 .. 0 |-> {0}]
      <3>1. UpStops(h, 0, e)
        BY DEF UpStops
      <3>2. IsUp(f, h, e, 0)
        BY <3>1 DEF IsUp
      <3> QED
        BY <2>2, <3>2
    <2>3. CASE m # 0
      <3>1. m \in Nat /\ m - 1 \in Nat /\ m - 1 \notin T
        BY <2>1, <2>3
      <3>2. PICK g : IsUp(g, h, e, m - 1)
        BY <3>1
      <3> DEFINE f == [j \in 0 .. m |-> IF j = m
                          THEN IF UpStops(h, m, e) THEN {m} ELSE {m} \cup g[Parent(m)]
                          ELSE g[j]]
      <3>3. ASSUME NEW j \in 0 .. m
            PROVE  f[j] = IF UpStops(h, j, e) THEN {j} ELSE {j} \cup f[Parent(j)]
        <4>1. CASE j = m
          <5>1. f[m] = IF UpStops(h, m, e) THEN {m} ELSE {m} \cup g[Parent(m)]
            BY <3>1
          <5>2. ASSUME ~UpStops(h, m, e) PROVE f[Parent(m)] = g[Parent(m)]
            BY <1>1, <3>1, <5>2
          <5> QED
            BY <4>1, <5>1, <5>2
        <4>2. CASE j # m
          <5>1. j \in 0 .. m - 1 /\ f[j] = g[j]
            BY <4>2, <3>1
          <5>2. g[j] = IF UpStops(h, j, e) THEN {j} ELSE {j} \cup g[Parent(j)]
            BY <3>2, <5>1 DEF IsUp
          <5>3. ASSUME ~UpStops(h, j, e) PROVE f[Parent(j)] = g[Parent(j)]
            BY <1>1, <5>1, <5>3, <3>1
          <5> QED
            BY <5>1, <5>2, <5>3
        <4> QED
          BY <4>1, <4>2
      <3>4. f = [j \in 0 .. m |-> f[j]]
        OBVIOUS
      <3> HIDE DEF f
      <3>5. IsUp(f, h, e, m)
        BY <3>3, <3>4 DEF IsUp
      <3> QED
        BY <3>5, <2>1
    <2> QED
      BY <2>2, <2>3
  <1> QED
    BY <1>2

(* What a loop that goes up has on its path from j.                         *)
GoesUp(h, e, j, U) ==
    /\ U \subseteq 0 .. j /\ j \in U
    /\ \A k \in U : ~UpStops(h, k, e) => k > 0 /\ Parent(k) \in U
    /\ \A k \in U : k # j => \E c \in U : c > 0 /\ Parent(c) = k /\ ~UpStops(h, c, e)
    /\ \A a, b \in U : a < b => a <= Parent(b) /\ ~UpStops(h, b, e)
    /\ \E s \in U : UpStops(h, s, e)

(* The path of minheap_shift_up_ is a chain from the hole to where it stops. *)
LEMMA UpPathGoesUp ==
    ASSUME NEW h, NEW e, NEW i \in Nat
    PROVE  GoesUp(h, e, i, UpPath(h, i, e))
  <1> DEFINE f == CHOOSE g : IsUp(g, h, e, i)
  <1>1. IsUp(f, h, e, i)
    BY UpExists
  <1>2. UpPath(h, i, e) = f[i]
    BY DEF UpPath, IsUp
  <1> HIDE DEF f
  <1> DEFINE T == {j \in 0 .. i : ~GoesUp(h, e, j, f[j])}
  <1>3. ASSUME T # {} PROVE FALSE
    <2>1. T \subseteq Nat
      OBVIOUS
    <2>2. PICK j \in T : \A y \in T : j <= y
      BY <1>3, <2>1, LeastOf
    <2>3. j \in 0 .. i /\ ~GoesUp(h, e, j, f[j])
      BY <2>2
    <2>4. CASE UpStops(h, j, e)
      <3>1. f[j] = {j}
        BY <1>1, <2>3, <2>4 DEF IsUp
      <3>2. GoesUp(h, e, j, {j})
        BY <2>3, <2>4 DEF GoesUp
      <3> QED
        BY <2>3, <3>1, <3>2
    <2>5. CASE ~UpStops(h, j, e)
      <3> DEFINE m == Parent(j)
                 V == f[m]
      <3>1. j \in Nat /\ j > 0 /\ m \in 0 .. j - 1
        <4>1. j # 0
          BY <2>5 DEF UpStops
        <4> QED
          BY <4>1, <2>3, Family
      <3>2. f[j] = {j} \cup V
        BY <1>1, <2>3, <2>5 DEF IsUp
      <3>3. m \in 0 .. i /\ m < j
        BY <3>1, <2>3
      <3> HIDE DEF m, V
      <3>4. GoesUp(h, e, m, V)
        BY <3>3, <2>2, <2>3 DEF V
      <3>5. GoesUp(h, e, j, {j} \cup V)
        <4> DEFINE U == {j} \cup V
        <4>1. V \subseteq 0 .. m /\ m \in V
          BY <3>4 DEF GoesUp
        <4>2. U \subseteq 0 .. j /\ j \in U
          BY <4>1, <3>1
        <4>3. \A k \in U : ~UpStops(h, k, e) => k > 0 /\ Parent(k) \in U
          BY <3>4, <3>1, <4>1 DEF GoesUp, m
        <4>4. \A k \in U : k # j => \E c \in U : c > 0 /\ Parent(c) = k /\ ~UpStops(h, c, e)
          BY <3>4, <3>1, <2>5 DEF GoesUp, m
        <4>5. \A a, b \in U : a < b => a <= Parent(b) /\ ~UpStops(h, b, e)
          <5> SUFFICES ASSUME NEW a \in U, NEW b \in U, a < b
                       PROVE  a <= Parent(b) /\ ~UpStops(h, b, e)
            OBVIOUS
          <5>1. CASE b = j
            BY <5>1, <2>5, <4>1, <3>1 DEF m
          <5>2. CASE b # j
            <6>1. b \in V /\ b <= m /\ a # j /\ a \in V
              BY <5>2, <4>1, <3>1
            <6> QED
              BY <6>1, <3>4 DEF GoesUp
          <5> QED
            BY <5>1, <5>2
        <4>6. \E s \in U : UpStops(h, s, e)
          BY <3>4 DEF GoesUp
        <4> HIDE DEF U
        <4>7. GoesUp(h, e, j, U)
          BY <4>2, <4>3, <4>4, <4>5, <4>6 DEF GoesUp
        <4> QED
          BY <4>7 DEF U
      <3> QED
        BY <2>3, <3>2, <3>5
    <2> QED
      BY <2>4, <2>5
  <1>4. GoesUp(h, e, i, f[i])
    BY <1>3
  <1> QED
    BY <1>2, <1>4

-----------------------------------------------------------------------------
(* The lesser child is a child, and not greater than the other one.          *)
LEMMA Child ==
    ASSUME NEW h, NEW n \in Nat, NEW j \in Nat, 2 * (j + 1) <= n,
           \A k \in 1 .. n - 1 : Parent(k) = j => h.key[h.p[k]] \in Int
    PROVE  /\ MinChild(h, j, n) \in j + 1 .. n - 1 /\ Parent(MinChild(h, j, n)) = j
           /\ \A k \in 1 .. n - 1 : Parent(k) = j => h.key[h.p[MinChild(h, j, n)]] <= h.key[h.p[k]]
  <1> DEFINE r == 2 * (j + 1)
  <1>1. /\ r \in Nat /\ r - 1 \in j + 1 .. n - 1 /\ r - 1 \in 1 .. n - 1 /\ Parent(r - 1) = j
        /\ Parent(r) = j /\ (r # n => r \in j + 1 .. n - 1 /\ r \in 1 .. n - 1)
    <2>1. Parent(2 * j + 1) = j /\ Parent(2 * j + 2) = j
      BY Family
    <2>2. r - 1 = 2 * j + 1 /\ r = 2 * j + 2
      OBVIOUS
    <2>3. /\ r \in Nat /\ r - 1 \in j + 1 .. n - 1 /\ r - 1 \in 1 .. n - 1
          /\ (r # n => r \in j + 1 .. n - 1 /\ r \in 1 .. n - 1)
      OBVIOUS
    <2>4. Parent(r - 1) = j
      BY ONLY <2>1, <2>2
    <2>5. Parent(r) = j
      BY ONLY <2>1, <2>2
    <2> HIDE DEF r
    <2> QED
      BY <2>3, <2>4, <2>5
  <1>2. ASSUME NEW k \in 1 .. n - 1, Parent(k) = j PROVE k = r - 1 \/ k = r
    <2>1. k \in Nat /\ k > 0
      OBVIOUS
    <2>2. k = 2 * Parent(k) + 1 \/ k = 2 * Parent(k) + 2
      BY ONLY <2>1, Family
    <2>3. k = 2 * j + 1 \/ k = 2 * j + 2
      BY ONLY <1>2, <2>2
    <2> QED
      BY <2>3
  <1>3. MinChild(h, j, n) = IF r = n \/ Greater(h, h.p[r], h.p[r - 1]) THEN r - 1 ELSE r
    BY DEF MinChild
  <1> HIDE DEF r
  <1>4. CASE r = n
    <2>1. \A k \in 1 .. n - 1 : Parent(k) = j => k = r - 1
      BY <1>4, <1>1, <1>2
    <2>2. MinChild(h, j, n) = r - 1
      BY <1>3, <1>4
    <2>3. h.key[h.p[r - 1]] \in Int
      BY <1>1
    <2> QED
      BY <2>1, <2>2, <2>3, <1>1
  <1>5. CASE r # n
    <2>1. h.key[h.p[r - 1]] \in Int /\ h.key[h.p[r]] \in Int
      BY <1>1, <1>5
    <2>2. CASE h.key[h.p[r]] > h.key[h.p[r - 1]]
      <3>1. MinChild(h, j, n) = r - 1
        BY <1>3, <2>2 DEF Greater
      <3> QED
        BY <3>1, <2>1, <2>2, <1>1, <1>2
    <2>3. CASE ~(h.key[h.p[r]] > h.key[h.p[r - 1]])
      <3>1. MinChild(h, j, n) = r
        BY <1>3, <1>5, <2>3 DEF Greater
      <3> QED
        BY <3>1, <2>1, <2>3, <1>1, <1>2, <1>5
    <2> QED
      BY <2>2, <2>3
  <1> QED
    BY <1>4, <1>5

(* The place of the lesser child, whatever the keys are.                    *)
LEMMA ChildPlace ==
    ASSUME NEW h, NEW n \in Nat, NEW j \in Nat, 2 * (j + 1) <= n
    PROVE  MinChild(h, j, n) \in j + 1 .. n - 1 /\ Parent(MinChild(h, j, n)) = j
  <1>1. MinChild(h, j, n) \in {2 * (j + 1) - 1, 2 * (j + 1)}
        /\ (MinChild(h, j, n) = 2 * (j + 1) => 2 * (j + 1) # n)
    BY DEF MinChild
  <1>2. Parent(2 * j + 1) = j /\ Parent(2 * j + 2) = j
    BY Family
  <1>3. CASE MinChild(h, j, n) = 2 * (j + 1) - 1
    <2>1. 2 * (j + 1) - 1 = 2 * j + 1 /\ 2 * (j + 1) - 1 \in j + 1 .. n - 1
      OBVIOUS
    <2> QED
      BY <1>2, <1>3, <2>1
  <1>4. CASE MinChild(h, j, n) = 2 * (j + 1)
    <2>1. 2 * (j + 1) = 2 * j + 2 /\ 2 * (j + 1) # n
      BY <1>1, <1>4
    <2>2. 2 * (j + 1) \in j + 1 .. n - 1
      BY <2>1
    <2> QED
      BY <1>2, <1>4, <2>1, <2>2
  <1> QED
    BY <1>1, <1>3, <1>4

(* The function that DownPath is defined by.                                *)
IsDown(f, h, e, n, m) ==
    f = [j \in m .. n |-> IF DownStops(h, j, e, n) THEN {j} ELSE {j} \cup f[MinChild(h, j, n)]]

(* It exists: the loop ends at the last place.                              *)
LEMMA DownExists ==
    ASSUME NEW h, NEW e, NEW n \in Nat
    PROVE  \E f : IsDown(f, h, e, n, 0)
  <1> DEFINE T == {d \in 0 .. n : ~\E f : IsDown(f, h, e, n, n - d)}
  <1>1. ASSUME NEW j \in 0 .. n, ~DownStops(h, j, e, n)
        PROVE  MinChild(h, j, n) \in j + 1 .. n
    <2>1. 2 * (j + 1) <= n
      BY <1>1 DEF DownStops
    <2>2. MinChild(h, j, n) \in j + 1 .. n - 1
      BY <2>1, ChildPlace
    <2> QED
      BY <2>2
  <1>2. ASSUME T # {} PROVE FALSE
    <2>1. T \subseteq Nat
      OBVIOUS
    <2>2. PICK d \in T : \A y \in T : d <= y
      BY <1>2, <2>1, LeastOf
    <2> DEFINE m == n - d
    <2>3. m \in 0 .. n /\ ~\E f : IsDown(f, h, e, n, m)
      BY <2>2
    <2>4. CASE d = 0
      <3>1. m = n
        BY <2>4
      <3>2. DownStops(h, n, e, n)
        BY DEF DownStops
      <3>3. IsDown([j \in n .. n |-> {n}], h, e, n, n)
        BY <3>2 DEF IsDown
      <3> QED
        BY <2>3, <3>1, <3>3
    <2>5. CASE d # 0
      <3>1. d - 1 \in 0 .. n /\ d - 1 \notin T /\ n - (d - 1) = m + 1
        BY <2>2, <2>5
      <3>2. PICK g : IsDown(g, h, e, n, m + 1)
        BY <3>1
      <3> HIDE DEF m
      <3> DEFINE f == [j \in m .. n |-> IF j = m
                          THEN IF DownStops(h, m, e, n) THEN {m} ELSE {m} \cup g[MinChild(h, m, n)]
                          ELSE g[j]]
      <3>3. ASSUME NEW j \in m .. n
            PROVE  f[j] = IF DownStops(h, j, e, n) THEN {j} ELSE {j} \cup f[MinChild(h, j, n)]
        <4>0. ASSUME ~DownStops(h, j, e, n)
              PROVE  f[MinChild(h, j, n)] = g[MinChild(h, j, n)]
          <5>1. MinChild(h, j, n) \in j + 1 .. n
            BY <1>1, <4>0, <2>3
          <5>2. MinChild(h, j, n) \in m .. n /\ MinChild(h, j, n) # m
            BY <5>1, <2>3
          <5> QED
            BY <5>2
        <4>1. CASE j = m
          <5>1. f[m] = IF DownStops(h, m, e, n) THEN {m} ELSE {m} \cup g[MinChild(h, m, n)]
            BY <2>3
          <5> QED
            BY <4>0, <4>1, <5>1
        <4>2. CASE j # m
          <5>1. j \in m + 1 .. n /\ f[j] = g[j]
            BY <4>2, <2>3
          <5>2. g[j] = IF DownStops(h, j, e, n) THEN {j} ELSE {j} \cup g[MinChild(h, j, n)]
            BY <3>2, <5>1 DEF IsDown
          <5> QED
            BY <4>0, <5>1, <5>2
        <4> QED
          BY <4>1, <4>2
      <3>4. f = [j \in m .. n |-> f[j]]
        OBVIOUS
      <3> HIDE DEF f
      <3>5. IsDown(f, h, e, n, m)
        BY <3>3, <3>4 DEF IsDown
      <3> QED
        BY <3>5, <2>3
    <2> QED
      BY <2>4, <2>5
  <1>3. n \in 0 .. n /\ n \notin T /\ n - n = 0
    BY <1>2
  <1> QED
    BY <1>3

(* What a loop that goes down has on its path from j.                       *)
GoesDown(h, e, n, j, U) ==
    /\ U \subseteq j .. n /\ j \in U
    /\ \A k \in U : ~DownStops(h, k, e, n) => MinChild(h, k, n) \in U
    /\ \A k \in U : k # j => /\ Parent(k) \in U /\ ~DownStops(h, Parent(k), e, n)
                             /\ k = MinChild(h, Parent(k), n)
    /\ \A a, b \in U : a < b => ~DownStops(h, a, e, n)
    /\ \E s \in U : DownStops(h, s, e, n)

(* The path of minheap_shift_down_ is a chain of lesser children.           *)
LEMMA DownPathGoesDown ==
    ASSUME NEW h, NEW e, NEW n \in Nat, NEW i \in 0 .. n
    PROVE  GoesDown(h, e, n, i, DownPath(h, i, e, n))
  <1> DEFINE f == CHOOSE g : IsDown(g, h, e, n, 0)
  <1>1. IsDown(f, h, e, n, 0)
    BY DownExists
  <1>2. DownPath(h, i, e, n) = f[i]
    BY DEF DownPath, IsDown
  <1> HIDE DEF f
  <1> DEFINE T == {d \in 0 .. n : ~GoesDown(h, e, n, n - d, f[n - d])}
  <1>3. ASSUME T # {} PROVE FALSE
    <2>1. T \subseteq Nat
      OBVIOUS
    <2>2. PICK d \in T : \A y \in T : d <= y
      BY <1>3, <2>1, LeastOf
    <2> DEFINE j == n - d
    <2>3. j \in 0 .. n /\ ~GoesDown(h, e, n, j, f[j])
      BY <2>2
    <2>4. \A m \in j + 1 .. n : GoesDown(h, e, n, m, f[m])
      <3> SUFFICES ASSUME NEW m \in j + 1 .. n PROVE GoesDown(h, e, n, m, f[m])
        OBVIOUS
      <3>1. n - m \in 0 .. n /\ n - m < d /\ n - (n - m) = m
        BY <2>2
      <3>2. n - m \notin T
        BY <2>2, <3>1
      <3> QED
        BY <3>1, <3>2
    <2> HIDE DEF j
    <2>5. CASE DownStops(h, j, e, n)
      <3>1. f[j] = {j}
        BY <1>1, <2>3, <2>5 DEF IsDown
      <3>2. GoesDown(h, e, n, j, {j})
        BY <2>3, <2>5 DEF GoesDown
      <3> QED
        BY <2>3, <3>1, <3>2
    <2>6. CASE ~DownStops(h, j, e, n)
      <3> DEFINE m == MinChild(h, j, n)
                 V == f[m]
      <3>1. m \in j + 1 .. n - 1 /\ Parent(m) = j /\ m \in j + 1 .. n
        <4>1. 2 * (j + 1) <= n
          BY <2>6, <2>3 DEF DownStops
        <4>2. m \in j + 1 .. n - 1 /\ Parent(m) = j
          BY <4>1, <2>3, ChildPlace
        <4> QED
          BY <4>2
      <3>2. f[j] = {j} \cup V
        BY <1>1, <2>3, <2>6 DEF IsDown
      <3>3. GoesDown(h, e, n, m, V)
        BY <3>1, <2>4
      <3>4. m = MinChild(h, j, n)
        OBVIOUS
      <3> HIDE DEF m, V
      <3> DEFINE U == {j} \cup V
      <3>5. V \subseteq m .. n /\ m \in V /\ j < m
        BY <3>3, <3>1, <2>3 DEF GoesDown
      <3>6. U \subseteq j .. n /\ j \in U
        BY <3>5, <3>1, <2>3
      <3>7. \A k \in U : ~DownStops(h, k, e, n) => MinChild(h, k, n) \in U
        BY <3>3, <3>4, <3>5 DEF GoesDown
      <3>8. \A k \in U : k # j => /\ Parent(k) \in U /\ ~DownStops(h, Parent(k), e, n)
                                  /\ k = MinChild(h, Parent(k), n)
        <4> SUFFICES ASSUME NEW k \in V, k # j
                     PROVE  /\ Parent(k) \in U /\ ~DownStops(h, Parent(k), e, n)
                            /\ k = MinChild(h, Parent(k), n)
          OBVIOUS
        <4>1. CASE k = m
          BY <4>1, <3>1, <3>4, <2>6
        <4>2. CASE k # m
          BY <4>2, <3>3 DEF GoesDown
        <4> QED
          BY <4>1, <4>2
      <3>9. \A a, b \in U : a < b => ~DownStops(h, a, e, n)
        <4> SUFFICES ASSUME NEW a \in U, NEW b \in U, a < b PROVE ~DownStops(h, a, e, n)
          OBVIOUS
        <4>1. CASE a = j
          BY <4>1, <2>6
        <4>2. CASE a # j
          <5>1. a \in V /\ a >= m /\ b # j /\ b \in V
            BY <4>2, <3>5, <3>6, <2>3
          <5> QED
            BY <5>1, <3>3 DEF GoesDown
        <4> QED
          BY <4>1, <4>2
      <3>10. \E s \in U : DownStops(h, s, e, n)
        BY <3>3 DEF GoesDown
      <3> HIDE DEF U
      <3>11. GoesDown(h, e, n, j, U)
        BY <3>6, <3>7, <3>8, <3>9, <3>10 DEF GoesDown
      <3> QED
        BY <2>3, <3>2, <3>11 DEF U
    <2> QED
      BY <2>5, <2>6
  <1>4. n - i \in 0 .. n /\ n - (n - i) = i
    OBVIOUS
  <1>5. GoesDown(h, e, n, i, f[i])
    BY <1>3, <1>4
  <1> QED
    BY <1>2, <1>5

-----------------------------------------------------------------------------
(* What a move leaves.                                                      *)

(* The fields of a heap of nodes D.                                         *)
Shape(h, D) ==
    /\ h = [p |-> h.p, n |-> h.n, idx |-> h.idx, key |-> h.key]
    /\ h.idx \in [D -> Int] /\ h.key \in [D -> Int]

(* A heap of n places with a hole at i, in which x is to be put: the other    *)
(* nodes know their places, and are in order across the hole as well.       *)
Hole(h, D, i, x, n) ==
    /\ Shape(h, D) /\ n \in Nat /\ i \in 0 .. n /\ x \in D
    /\ \A k \in 0 .. n - 1 : k # i => h.p[k] \in D /\ h.idx[h.p[k]] = k /\ h.p[k] # x
    /\ \A d \in D : d # x /\ h.idx[d] \notin {-1, i} => h.idx[d] \in 0 .. n - 1 /\ h.p[h.idx[d]] = d
    /\ \A k \in 1 .. n - 1 : k # i /\ Parent(k) # i => h.key[h.p[Parent(k)]] <= h.key[h.p[k]]
    /\ \A k \in 1 .. n - 1 : Parent(k) = i /\ i > 0 => h.key[h.p[Parent(i)]] <= h.key[h.p[k]]

(* The nodes of g are those that h has around the hole at i, and x; they know *)
(* their places, and nobody else's place has changed.                       *)
Placed(h, D, i, x, n, g) ==
    /\ Shape(g, D) /\ g.n = n /\ g.key = h.key /\ g.p \in [0 .. n - 1 -> D]
    /\ \A k \in 0 .. n - 1 : /\ g.idx[g.p[k]] = k
                             /\ g.p[k] # x => h.idx[g.p[k]] \notin {-1, i}
    /\ i < n => g.idx[x] \in 0 .. n - 1 /\ g.p[g.idx[x]] = x
    /\ i = n => \A k \in 0 .. n - 1 : g.p[k] # x
    /\ \A d \in D : d # x => IF h.idx[d] \in {-1, i} THEN g.idx[d] = h.idx[d]
                             ELSE g.idx[d] \in 0 .. n - 1 /\ g.p[g.idx[d]] = d

(* The order of a heap.                                                     *)
Ordered(g) == \A k \in 1 .. g.n - 1 : g.key[g.p[Parent(k)]] <= g.key[g.p[k]]

(* Along path the nodes move on by one place, from the hole to s, where x is *)
(* put.                                                                     *)
Moved(h, i, x, n, path, s, q) ==
    /\ i \in path /\ path \subseteq 0 .. n /\ s \in path
    /\ i < n => path \subseteq 0 .. n - 1
    /\ i = n => path = {n}
    /\ q[s] = x
    /\ \A k \in path : k # s => \E c \in path : c # i /\ q[k] = h.p[c]
    /\ \A c \in path : c # i => \E k \in path : k # s /\ q[k] = h.p[c]
    /\ \A k, l \in path : q[k] = q[l] => k = l
    /\ \A k \in 0 .. n - 1 : k \notin path => q[k] = h.p[k]

(* The writes along a path put each of its nodes in one place.              *)
LEMMA WrittenPlaced ==
    ASSUME NEW h, NEW D, NEW i, NEW x, NEW n, Hole(h, D, i, x, n),
           NEW path, NEW s, NEW q, Moved(h, i, x, n, path, s, q)
    PROVE  /\ Placed(h, D, i, x, n, Written(h, q, n, path))
           /\ \A k \in 0 .. n - 1 : Written(h, q, n, path).p[k] = q[k]
  <1> DEFINE P == [k \in 0 .. n - 1 |-> q[k]]
             at(d) == CHOOSE k \in path : q[k] = d
             I == [d \in D |-> IF \E k \in path : q[k] = d THEN at(d) ELSE h.idx[d]]
             g == Written(h, q, n, path)
  <1> /\ i \in path /\ path \subseteq 0 .. n /\ s \in path
      /\ i < n => path \subseteq 0 .. n - 1
      /\ i = n => path = {n}
      /\ q[s] = x
      /\ \A k \in path : k # s => \E c \in path : c # i /\ q[k] = h.p[c]
      /\ \A c \in path : c # i => \E k \in path : k # s /\ q[k] = h.p[c]
      /\ \A k, l \in path : q[k] = q[l] => k = l
      /\ \A k \in 0 .. n - 1 : k \notin path => q[k] = h.p[k]
    BY DEF Moved
  <1>1. Shape(h, D) /\ n \in Nat /\ i \in 0 .. n /\ x \in D
    BY DEF Hole
  <1>2. g = [p |-> P, n |-> n, idx |-> I, key |-> h.key]
    <2>1. DOMAIN h.idx = D
      BY <1>1 DEF Shape
    <2>2. g = [h EXCEPT !.p = P, !.n = n, !.idx = I]
      BY <2>1 DEF Written
    <2> HIDE DEF P, I, g
    <2> QED
      BY <2>2, <1>1 DEF Shape
  <1>3. ASSUME NEW k \in path, k # i PROVE k \in 0 .. n - 1 /\ h.p[k] \in D /\ h.idx[h.p[k]] = k /\ h.p[k] # x
    <2>1. i < n
      BY <1>1, <1>3
    <2>2. k \in 0 .. n - 1
      BY <2>1
    <2> QED
      BY <2>2, <1>3 DEF Hole
  <1>4. ASSUME NEW k \in path PROVE q[k] \in D /\ (q[k] # x => h.idx[q[k]] \in path /\ h.idx[q[k]] # i /\ k # s
                                                 /\ h.idx[q[k]] \in 0 .. n - 1)
    <2>1. CASE k = s
      BY <2>1, <1>1
    <2>2. CASE k # s
      BY <2>2, <1>3
    <2> QED
      BY <2>1, <2>2
  <1>5. ASSUME NEW k \in path PROVE I[q[k]] = k
    <2>1. at(q[k]) \in path /\ q[at(q[k])] = q[k]
      OBVIOUS
    <2>2. at(q[k]) = k
      BY <2>1
    <2> HIDE DEF at
    <2> QED
      BY <2>2, <1>4, <1>5
  <1>6. ASSUME NEW d \in D, \A k \in path : q[k] # d PROVE I[d] = h.idx[d]
    BY <1>6
  <1>7. ASSUME NEW d \in D PROVE I[d] \in Int
    <2>1. CASE \E k \in path : q[k] = d
      <3>1. PICK k \in path : q[k] = d
        BY <2>1
      <3>2. I[d] = k
        BY <3>1, <1>5
      <3>3. k \in 0 .. n
        OBVIOUS
      <3>4. k \in Int
        BY <3>3, <1>1
      <3> HIDE DEF I
      <3> QED
        BY <3>2, <3>4
    <2>2. CASE ~\E k \in path : q[k] = d
      <3>1. I[d] = h.idx[d]
        BY <2>2, <1>6
      <3> HIDE DEF I
      <3> QED
        BY <3>1, <1>1 DEF Shape
    <2> QED
      BY <2>1, <2>2
  <1>8. I \in [D -> Int]
    <2>1. I = [d \in D |-> I[d]]
      OBVIOUS
    <2> HIDE DEF I
    <2> QED
      BY <2>1, <1>7
  <1> HIDE DEF I
  <1>9. ASSUME NEW k \in 0 .. n - 1, k \notin path
        PROVE  /\ q[k] = h.p[k] /\ q[k] \in D /\ q[k] # x /\ h.idx[q[k]] = k /\ I[q[k]] = k
               /\ k # i
    <2>1. k # i /\ q[k] = h.p[k]
      BY <1>9
    <2>2. h.p[k] \in D /\ h.idx[h.p[k]] = k /\ h.p[k] # x
      BY <2>1 DEF Hole
    <2>3. \A l \in path : q[l] # q[k]
      BY <2>1, <2>2, <1>4, <1>9
    <2>4. I[q[k]] = h.idx[q[k]]
      BY <2>1, <2>2, <2>3, <1>6
    <2> QED
      BY <2>1, <2>2, <2>4
  <1>10. ASSUME NEW k \in 0 .. n - 1
         PROVE  q[k] \in D /\ I[q[k]] = k /\ (q[k] # x => h.idx[q[k]] \notin {-1, i})
    <2>1. CASE k \in path
      BY <2>1, <1>4, <1>5
    <2>2. CASE k \notin path
      BY <2>2, <1>9
    <2> QED
      BY <2>1, <2>2
  <1>11. P \in [0 .. n - 1 -> D] /\ \A k \in 0 .. n - 1 : P[k] = q[k]
    BY <1>10
  <1> HIDE DEF P
  <1>12. i < n => I[x] \in 0 .. n - 1 /\ P[I[x]] = x
    BY <1>5, <1>11
  <1>12a. i = n => \A k \in 0 .. n - 1 : P[k] # x
    <2> SUFFICES ASSUME i = n, NEW k \in 0 .. n - 1 PROVE P[k] # x
      OBVIOUS
    <2>1. k \notin path
      BY <1>1
    <2> QED
      BY <2>1, <1>9, <1>11
  <1>13. ASSUME NEW d \in D, d # x
         PROVE  IF h.idx[d] \in {-1, i} THEN I[d] = h.idx[d] ELSE I[d] \in 0 .. n - 1 /\ P[I[d]] = d
    <2>1. CASE h.idx[d] \in {-1, i}
      <3>1. \A k \in path : q[k] # d
        BY <2>1, <1>4, <1>13
      <3> QED
        BY <2>1, <3>1, <1>6
    <2>2. CASE h.idx[d] \notin {-1, i}
      <3> DEFINE c == h.idx[d]
      <3>1. c \in 0 .. n - 1 /\ h.p[c] = d
        BY <2>2, <1>13 DEF Hole
      <3>2. CASE c \in path
        <4>1. PICK k \in path : k # s /\ q[k] = d
          BY <3>1, <3>2, <2>2
        <4>2. k \in 0 .. n - 1
          <5>1. i < n
            BY <4>1, <1>1
          <5> QED
            BY <5>1
        <4> QED
          BY <4>1, <4>2, <1>5, <1>11, <2>2
      <3>3. CASE c \notin path
        <4>1. q[c] = d /\ I[d] = c
          BY <3>1, <3>3, <1>9
        <4> QED
          BY <3>1, <4>1, <1>11, <2>2
      <3> QED
        BY <3>2, <3>3
    <2> QED
      BY <2>1, <2>2
  <1> HIDE DEF g
  <1>14. Shape(g, D) /\ g.p = P /\ g.n = n /\ g.idx = I /\ g.key = h.key
    BY <1>1, <1>2, <1>8 DEF Shape
  <1>15. Placed(h, D, i, x, n, g)
    <2>1. \A k \in 0 .. n - 1 : g.idx[g.p[k]] = k /\ (g.p[k] # x => h.idx[g.p[k]] \notin {-1, i})
      BY <1>10, <1>11, <1>14
    <2>2. /\ i < n => g.idx[x] \in 0 .. n - 1 /\ g.p[g.idx[x]] = x
          /\ i = n => \A k \in 0 .. n - 1 : g.p[k] # x
      BY <1>12, <1>12a, <1>14
    <2>3. \A d \in D : d # x => IF h.idx[d] \in {-1, i} THEN g.idx[d] = h.idx[d]
                                ELSE g.idx[d] \in 0 .. n - 1 /\ g.p[g.idx[d]] = d
      BY <1>13, <1>14
    <2>4. Shape(g, D) /\ g.n = n /\ g.key = h.key /\ g.p \in [0 .. n - 1 -> D]
      BY <1>11, <1>14
    <2> QED
      BY ONLY <2>1, <2>2, <2>3, <2>4 DEF Placed
  <1> QED
    BY <1>11, <1>14, <1>15 DEF g

(* minheap_shift_up_ fills a hole that has no children, or whose parent is   *)
(* greater than the new node.                                               *)
LEMMA ShiftUpRight ==
    ASSUME NEW h, NEW D, NEW i, NEW x, NEW n, Hole(h, D, i, x, n), i < n,
           i = n - 1 \/ ~UpStops(h, i, x)
    PROVE  Placed(h, D, i, x, n, ShiftUp(h, i, x, n)) /\ Ordered(ShiftUp(h, i, x, n))
  <1> DEFINE U == UpPath(h, i, x)
             q == [k \in 0 .. n - 1 |-> IF k \notin U THEN h.p[k]
                                        ELSE IF UpStops(h, k, x) THEN x ELSE h.p[Parent(k)]]
             g == ShiftUp(h, i, x, n)
  <1>1. Shape(h, D) /\ n \in Nat /\ i \in Nat /\ i \in 0 .. n - 1 /\ x \in D
    BY DEF Hole
  <1>2. GoesUp(h, x, i, U)
    BY <1>1, UpPathGoesUp
  <1>3. g = Written(h, q, n, U)
    BY DEF ShiftUp
  <1> HIDE DEF U, g
  <1>4. U \subseteq 0 .. i /\ U \subseteq 0 .. n - 1 /\ i \in U
    BY <1>1, <1>2 DEF GoesUp
  <1>5. PICK s \in U : UpStops(h, s, x)
    BY <1>2 DEF GoesUp
  <1>6. ASSUME NEW k \in U, k # s
        PROVE  ~UpStops(h, k, x) /\ k > 0 /\ Parent(k) \in U /\ Parent(k) < k /\ Parent(k) # i
               /\ Parent(k) \in Nat
    <2>1. k \in Nat /\ s \in Nat /\ k <= i
      BY <1>1, <1>4
    <2>2. ~UpStops(h, k, x)
      <3>1. CASE s < k
        BY <3>1, <1>2 DEF GoesUp
      <3>2. CASE k < s
        BY <3>2, <1>2, <1>5 DEF GoesUp
      <3> QED
        BY <3>1, <3>2, <2>1, <1>6
    <2>3. k > 0 /\ Parent(k) \in U
      BY <2>2, <1>2 DEF GoesUp
    <2>4. Parent(k) \in 0 .. k - 1
      BY <2>1, <2>3, Family
    <2> QED
      BY <2>1, <2>2, <2>3, <2>4, <1>1
  <1>7. /\ \A k \in 0 .. n - 1 : k \notin U => q[k] = h.p[k]
        /\ q[s] = x /\ \A k \in U : k # s => q[k] = h.p[Parent(k)]
    BY <1>4, <1>5, <1>6
  <1> HIDE DEF q
  <1>8. ASSUME NEW k \in 0 .. n - 1, k # i PROVE h.p[k] \in D /\ h.idx[h.p[k]] = k /\ h.p[k] # x
    BY <1>8 DEF Hole
  <1>9. ASSUME NEW k \in U, NEW l \in U, q[k] = q[l] PROVE k = l
    <2>1. CASE k = s \/ l = s
      <3>1. ASSUME NEW m \in U, m # s PROVE q[m] # x
        <4>1. Parent(m) \in 0 .. n - 1 /\ Parent(m) # i
          BY <1>6, <3>1, <1>4
        <4> QED
          BY <4>1, <1>7, <1>8, <3>1
      <3> QED
        BY <2>1, <3>1, <1>7, <1>9
    <2>2. CASE k # s /\ l # s
      <3>1. /\ Parent(k) \in U /\ Parent(l) \in U /\ Parent(k) # i /\ Parent(l) # i
            /\ Parent(k) < k /\ Parent(l) < l
        BY <2>2, <1>6
      <3>2. Parent(k) \in 0 .. n - 1 /\ Parent(l) \in 0 .. n - 1
        BY <3>1, <1>4
      <3>3. h.p[Parent(k)] = h.p[Parent(l)]
        BY <2>2, <1>7, <1>9
      <3>4. Parent(k) = Parent(l)
        BY <3>1, <3>2, <3>3, <1>8
      <3>5. k \in Nat /\ l \in Nat /\ Parent(k) \in Nat
        BY <1>4, <1>1, <3>2
      <3>6. ~(k < l)
        <4>1. k < l => k <= Parent(l)
          BY <1>2 DEF GoesUp
        <4> QED
          BY <4>1, <3>1, <3>4, <3>5
      <3>7. ~(l < k)
        <4>1. l < k => l <= Parent(k)
          BY <1>2 DEF GoesUp
        <4> QED
          BY <4>1, <3>1, <3>4, <3>5
      <3> QED
        BY <3>5, <3>6, <3>7
    <2> QED
      BY <2>1, <2>2
  <1>10. ASSUME NEW c \in U, c # i PROVE \E k \in U : k # s /\ Parent(k) = c /\ q[k] = h.p[c]
    <2>1. PICK k \in U : k > 0 /\ Parent(k) = c /\ ~UpStops(h, k, x)
      BY <1>10, <1>2 DEF GoesUp
    <2>2. k # s
      BY <2>1, <1>5
    <2> QED
      BY <2>1, <2>2, <1>7
  <1>11. Placed(h, D, i, x, n, g) /\ \A k \in 0 .. n - 1 : g.p[k] = q[k]
    <2>1. U \subseteq 0 .. n /\ i # n
      BY <1>1, <1>4
    <2>2. \A k \in U : k # s => \E c \in U : c # i /\ q[k] = h.p[c]
      BY <1>6, <1>7
    <2>3. \A c \in U : c # i => \E k \in U : k # s /\ q[k] = h.p[c]
      BY <1>10
    <2>4. \A k, l \in U : q[k] = q[l] => k = l
      BY <1>9
    <2>5. Moved(h, i, x, n, U, s, q)
      BY <1>4, <1>7, <2>1, <2>2, <2>3, <2>4 DEF Moved
    <2> QED
      BY <1>3, <2>5, WrittenPlaced
  <1> DEFINE K(k) == h.key[h.p[k]]
             V(k) == h.key[q[k]]
  <1>12. ASSUME NEW k \in 0 .. n - 1, k # i PROVE K(k) \in Int
    BY <1>1, <1>8, <1>12 DEF Shape
  <1>13. h.key[x] \in Int
    BY <1>1 DEF Shape
  <1>14. ASSUME NEW k \in 1 .. n - 1, k # i, Parent(k) # i PROVE K(Parent(k)) <= K(k)
    BY <1>14 DEF Hole
  <1>15. ASSUME NEW k \in U, k # s PROVE h.key[x] < K(Parent(k))
    <2>1. K(Parent(k)) \in Int
      BY <1>6, <1>15, <1>12, <1>4
    <2>2. Greater(h, h.p[Parent(k)], x)
      BY <1>6, <1>15 DEF UpStops
    <2> QED
      BY <2>1, <2>2, <1>13 DEF Greater
  <1>16. ASSUME NEW k \in 1 .. n - 1 PROVE V(Parent(k)) <= V(k)
    <2> DEFINE m == Parent(k)
    <2>0. m \in 0 .. k - 1 /\ k \in Nat
      BY Family
    <2>1. m \in 0 .. n - 1 /\ m \in Nat /\ m < k /\ k \in 0 .. n - 1
      BY <2>0, <1>1
    <2>2. CASE k \notin U /\ m \notin U
      <3>1. k # i /\ m # i /\ q[k] = h.p[k] /\ q[m] = h.p[m]
        BY <2>1, <2>2, <1>4, <1>7
      <3> QED
        BY <3>1, <1>14
    <2>3. CASE k \notin U /\ m = s
      <3>1. q[k] = h.p[k] /\ q[m] = x /\ k # i
        BY <2>3, <1>4, <1>7
      <3>2. K(k) \in Int
        BY <3>1, <1>12
      <3>3. CASE m = i
        <4>1. ~UpStops(h, i, x)
          BY <3>3, <2>1, <1>1
        <4> QED
          BY <4>1, <3>3, <2>3, <1>5
      <3>4. CASE m # i
        <4>1. PICK c \in U : c # s /\ Parent(c) = m
          BY <3>4, <2>3, <1>10
        <4>2. h.key[x] < K(m) /\ K(m) <= K(k) /\ K(m) \in Int
          BY <4>1, <3>1, <3>4, <1>12, <1>14, <1>15, <2>1
        <4> QED
          BY <3>1, <3>2, <4>2, <1>13
      <3> QED
        BY <3>3, <3>4
    <2>4. CASE k \notin U /\ m \in U /\ m # s
      <3> DEFINE o == Parent(m)
      <3>1. q[k] = h.p[k] /\ q[m] = h.p[o] /\ k # i
        BY <2>1, <2>4, <1>4, <1>7
      <3>2. m > 0 /\ o \in 0 .. n - 1 /\ o # i /\ m \in 1 .. n - 1
        BY <2>4, <2>1, <1>6, <1>4
      <3>3. CASE m = i
        <4>1. K(o) <= K(k)
          BY <3>2, <3>3 DEF Hole
        <4> QED
          BY <3>1, <4>1
      <3>4. CASE m # i
        <4>1. K(o) <= K(m) /\ K(m) <= K(k)
          BY <3>1, <3>2, <3>4, <1>14
        <4>2. K(o) \in Int /\ K(m) \in Int /\ K(k) \in Int
          BY <3>1, <3>2, <3>4, <1>12, <2>1
        <4> QED
          BY <3>1, <4>1, <4>2
      <3> QED
        BY <3>3, <3>4
    <2>5. CASE k = s
      <3>1. m \notin U
        BY <2>1, <2>5, <1>2, <1>5 DEF GoesUp
      <3>2. q[k] = x /\ q[m] = h.p[m] /\ m # i
        BY <2>1, <2>5, <3>1, <1>4, <1>7
      <3>3. ~Greater(h, h.p[m], x)
        BY <2>5, <1>5 DEF UpStops
      <3>4. K(m) \in Int
        BY <3>2, <2>1, <1>12
      <3> QED
        BY <3>2, <3>3, <3>4, <1>13 DEF Greater
    <2>6. CASE k \in U /\ k # s
      <3>1. q[k] = h.p[m] /\ m \in U /\ m # i
        BY <2>6, <1>6, <1>7
      <3>2. K(m) \in Int
        BY <3>1, <2>1, <1>12
      <3>3. CASE m = s
        <4>1. h.key[x] < K(m)
          BY <2>6, <1>15
        <4> QED
          BY <3>1, <3>2, <3>3, <4>1, <1>7, <1>13
      <3>4. CASE m # s
        <4>1. q[m] = h.p[Parent(m)] /\ Parent(m) # i /\ m > 0
          BY <3>1, <3>4, <1>6, <1>7
        <4>2. m \in 1 .. n - 1
          BY <4>1, <2>1
        <4>3. K(Parent(m)) <= K(m)
          BY <4>1, <4>2, <3>1, <1>14
        <4> QED
          BY <4>1, <4>3, <3>1
      <3> QED
        BY <3>3, <3>4
    <2> QED
      BY <2>2, <2>3, <2>4, <2>5, <2>6
  <1>17. Ordered(g)
    <2>1. g.n = n /\ g.key = h.key
      BY <1>11 DEF Placed
    <2>2. ASSUME NEW k \in 1 .. n - 1 PROVE g.key[g.p[Parent(k)]] <= g.key[g.p[k]]
      <3>1. k \in Nat /\ Parent(k) \in 0 .. k - 1
        BY Family
      <3>2. k \in 0 .. n - 1 /\ Parent(k) \in 0 .. n - 1
        BY <3>1, <1>1
      <3>3. g.p[k] = q[k] /\ g.p[Parent(k)] = q[Parent(k)]
        BY <3>2, <1>11
      <3> QED
        BY <3>3, <2>1, <1>16
    <2> QED
      BY <2>1, <2>2 DEF Ordered
  <1> QED
    BY <1>11, <1>17 DEF g

(* minheap_shift_down_ fills a hole whose parent is not greater than the new  *)
(* node.  Behind the last place it leaves the array alone.                  *)
LEMMA ShiftDownRight ==
    ASSUME NEW h, NEW D, NEW i, NEW x, NEW n, Hole(h, D, i, x, n),
           0 < i /\ i < n => h.key[h.p[Parent(i)]] <= h.key[x]
    PROVE  Placed(h, D, i, x, n, ShiftDown(h, i, x, n)) /\ Ordered(ShiftDown(h, i, x, n))
  <1> DEFINE U == DownPath(h, i, x, n)
             stop(k) == DownStops(h, k, x, n)
             low(k) == MinChild(h, k, n)
             q == [k \in 0 .. n |-> IF k \notin U THEN IF k < n THEN h.p[k] ELSE x
                                    ELSE IF stop(k) THEN x ELSE h.p[low(k)]]
             g == ShiftDown(h, i, x, n)
  <1>1. Shape(h, D) /\ n \in Nat /\ i \in Nat /\ i \in 0 .. n /\ x \in D
    BY DEF Hole
  <1>2. GoesDown(h, x, n, i, U)
    BY <1>1, DownPathGoesDown
  <1>3. g = Written(h, q, n, U)
    BY DEF ShiftDown
  <1> HIDE DEF U, g
  <1>4. U \subseteq i .. n /\ U \subseteq 0 .. n /\ i \in U
    BY <1>1, <1>2 DEF GoesDown
  <1>5. PICK s \in U : stop(s)
    BY <1>2 DEF GoesDown
  <1>6. ASSUME NEW k \in U, k # s PROVE ~stop(k)
    <2>0. k \in 0 .. n /\ s \in 0 .. n
      BY <1>4
    <2>1. k \in Nat /\ s \in Nat
      BY <2>0, <1>1
    <2>2. CASE k < s
      BY <2>2, <1>2 DEF GoesDown
    <2>3. CASE s < k
      BY <2>3, <1>2, <1>5 DEF GoesDown
    <2> QED
      BY <1>6, <2>1, <2>2, <2>3
  <1>7. ASSUME NEW k \in U, k # s
        PROVE  /\ 2 * (k + 1) <= n /\ low(k) \in U /\ low(k) \in k + 1 .. n - 1 /\ Parent(low(k)) = k
               /\ low(k) # i /\ low(k) \in 1 .. n - 1
    <2>1. k \in Nat /\ k >= i
      BY <1>1, <1>4
    <2>2. ~stop(k)
      BY <1>6, <1>7
    <2>3. 2 * (k + 1) <= n
      BY <2>1, <2>2, <1>1 DEF DownStops
    <2>4. low(k) \in k + 1 .. n - 1 /\ Parent(low(k)) = k
      BY <2>1, <2>3, <1>1, ChildPlace
    <2>5. low(k) \in U
      BY <2>2, <1>2 DEF GoesDown
    <2> HIDE DEF low, stop
    <2> QED
      BY <2>1, <2>3, <2>4, <2>5, <1>1
  <1>8. ASSUME NEW k \in U, k # i
        PROVE  Parent(k) \in U /\ Parent(k) # s /\ k = low(Parent(k)) /\ k \in 1 .. n - 1
    <2>1. Parent(k) \in U /\ ~stop(Parent(k)) /\ k = low(Parent(k))
      BY <1>8, <1>2 DEF GoesDown
    <2>2. Parent(k) # s
      BY <2>1, <1>5
    <2> HIDE DEF low, stop
    <2> QED
      BY <2>1, <2>2, <1>7
  <1>9. ASSUME i < n PROVE U \subseteq 0 .. n - 1
    <2> SUFFICES ASSUME NEW k \in U PROVE k \in 0 .. n - 1
      OBVIOUS
    <2>1. CASE k = i
      BY <2>1, <1>9, <1>1
    <2>2. CASE k # i
      BY <2>2, <1>8, <1>1
    <2> QED
      BY <2>1, <2>2
  <1>10. ASSUME i = n PROVE U = {n} /\ s = n
    <2>1. U \subseteq n .. n /\ n \in U
      BY <1>10, <1>4
    <2>2. n .. n = {n}
      BY <1>1
    <2> QED
      BY <2>1, <2>2
  <1>11. /\ \A k \in 0 .. n - 1 : k \notin U => q[k] = h.p[k]
         /\ q[s] = x /\ \A k \in U : k # s => q[k] = h.p[low(k)]
    <2>1. \A k \in 0 .. n - 1 : k \in 0 .. n /\ k < n
      BY <1>1
    <2> HIDE DEF low, stop
    <2> QED
      BY <2>1, <1>4, <1>5, <1>6
  <1> HIDE DEF q
  <1>12. ASSUME NEW k \in 0 .. n - 1, k # i PROVE h.p[k] \in D /\ h.idx[h.p[k]] = k /\ h.p[k] # x
    BY <1>12 DEF Hole
  <1>13. ASSUME NEW k \in U, k # s PROVE low(k) \in 0 .. n - 1
    BY <1>7, <1>13
  <1> HIDE DEF low, stop
  <1>14. ASSUME NEW k \in U, NEW l \in U, q[k] = q[l] PROVE k = l
    <2>1. CASE k = s \/ l = s
      <3>1. ASSUME NEW m \in U, m # s PROVE q[m] # x
        BY <3>1, <1>7, <1>11, <1>12, <1>13
      <3> QED
        BY <2>1, <3>1, <1>11, <1>14
    <2>2. CASE k # s /\ l # s
      <3>1. h.p[low(k)] = h.p[low(l)]
        BY <2>2, <1>11, <1>14
      <3>2. low(k) \in 0 .. n - 1 /\ low(l) \in 0 .. n - 1 /\ low(k) # i /\ low(l) # i
        BY <2>2, <1>7, <1>13
      <3>3. low(k) = low(l)
        BY <3>1, <3>2, <1>12
      <3> QED
        BY <2>2, <3>3, <1>7
    <2> QED
      BY <2>1, <2>2
  <1>15. Placed(h, D, i, x, n, g) /\ \A k \in 0 .. n - 1 : g.p[k] = q[k]
    <2>1. \A k \in U : k # s => \E c \in U : c # i /\ q[k] = h.p[c]
      BY <1>7, <1>11
    <2>2. \A c \in U : c # i => \E k \in U : k # s /\ q[k] = h.p[c]
      BY <1>8, <1>11
    <2>3. \A k, l \in U : q[k] = q[l] => k = l
      BY <1>14
    <2>4. Moved(h, i, x, n, U, s, q)
      BY <1>4, <1>9, <1>10, <1>11, <2>1, <2>2, <2>3 DEF Moved
    <2> QED
      BY <1>3, <2>4, WrittenPlaced
  <1> DEFINE K(k) == h.key[h.p[k]]
             V(k) == h.key[q[k]]
  <1>16. ASSUME NEW k \in 0 .. n - 1, k # i PROVE K(k) \in Int
    BY <1>1, <1>12, <1>16 DEF Shape
  <1>17. h.key[x] \in Int
    BY <1>1 DEF Shape
  <1>18. ASSUME NEW k \in 1 .. n - 1, k # i, Parent(k) # i PROVE K(Parent(k)) <= K(k)
    BY <1>18 DEF Hole
  <1>19. ASSUME NEW m \in U, NEW k \in 1 .. n - 1, Parent(k) = m
         PROVE  /\ 2 * (m + 1) <= n /\ low(m) \in 1 .. n - 1 /\ low(m) # i /\ Parent(low(m)) = m
                /\ K(low(m)) <= K(k) /\ K(low(m)) \in Int /\ K(k) \in Int /\ k # i
    <2>0. m \in i .. n
      BY <1>4
    <2>1. m \in Nat /\ m >= i
      BY <2>0, <1>1
    <2>2. k \in Nat /\ k > 0 /\ k <= n - 1
      BY <1>1
    <2>3. k = 2 * m + 1 \/ k = 2 * m + 2
      BY <2>2, <1>19, Family
    <2>4. 2 * (m + 1) <= n /\ k > m
      BY <2>1, <2>2, <2>3, <1>1
    <2>5. \A j \in 1 .. n - 1 : Parent(j) = m => j # i /\ j \in 0 .. n - 1
      <3> SUFFICES ASSUME NEW j \in 1 .. n - 1, Parent(j) = m PROVE j # i /\ j \in 0 .. n - 1
        OBVIOUS
      <3>1. j \in Nat /\ j > 0
        BY <1>1
      <3>2. Parent(j) \in 0 .. j - 1
        BY <3>1, Family
      <3> QED
        BY <3>1, <3>2, <2>1, <1>1
    <2>6. \A j \in 1 .. n - 1 : Parent(j) = m => h.key[h.p[j]] \in Int
      BY <2>5, <1>16
    <2>7. /\ low(m) \in m + 1 .. n - 1 /\ Parent(low(m)) = m
          /\ \A j \in 1 .. n - 1 : Parent(j) = m => h.key[h.p[low(m)]] <= h.key[h.p[j]]
      BY <2>1, <2>4, <2>6, <1>1, Child DEF low
    <2>8. low(m) \in 1 .. n - 1
      BY <2>1, <2>7, <1>1
    <2> QED
      BY <2>4, <2>5, <2>6, <2>7, <2>8, <1>19
  <1>20. ASSUME NEW k \in 1 .. n - 1 PROVE V(Parent(k)) <= V(k)
    <2> DEFINE m == Parent(k)
    <2>0. m \in 0 .. k - 1 /\ k \in Nat
      BY Family
    <2>1. m \in 0 .. n - 1 /\ m \in Nat /\ m < k /\ k \in 0 .. n - 1
      BY <2>0, <1>1
    <2>2. CASE k \notin U /\ m \notin U
      <3>1. k # i /\ m # i /\ q[k] = h.p[k] /\ q[m] = h.p[m]
        BY <2>1, <2>2, <1>4, <1>11
      <3> QED
        BY <3>1, <1>18
    <2>3. CASE k \notin U /\ m = s
      <3>1. q[k] = h.p[k] /\ q[m] = x
        BY <2>1, <2>3, <1>11
      <3>2. 2 * (m + 1) <= n /\ K(low(m)) <= K(k) /\ K(low(m)) \in Int /\ K(k) \in Int
        BY <2>3, <1>19
      <3>3. ~Greater(h, x, h.p[low(m)])
        BY <2>1, <2>3, <3>2, <1>1, <1>5 DEF stop, low, DownStops
      <3> QED
        BY <3>1, <3>2, <3>3, <1>17 DEF Greater
    <2>4. CASE k \notin U /\ m \in U /\ m # s
      <3>1. q[k] = h.p[k] /\ q[m] = h.p[low(m)]
        BY <2>1, <2>4, <1>11
      <3> QED
        BY <3>1, <2>4, <1>19
    <2>5. CASE k = i
      <3>0. m \notin U /\ 0 < i /\ i < n /\ m # i
        BY <2>1, <2>5, <1>1, <1>4
      <3>1. q[m] = h.p[m] /\ K(m) \in Int
        BY <3>0, <2>1, <1>11, <1>16
      <3>2. CASE s = i
        <4>1. q[k] = x
          BY <2>5, <3>2, <1>11
        <4> QED
          BY <2>5, <3>0, <3>1, <4>1
      <3>3. CASE s # i
        <4>1. q[k] = h.p[low(i)] /\ low(i) \in 1 .. n - 1 /\ Parent(low(i)) = i
          BY <2>5, <3>3, <1>4, <1>7, <1>11
        <4>2. K(m) <= K(low(i))
          BY <2>5, <3>0, <4>1 DEF Hole
        <4> QED
          BY <3>1, <4>1, <4>2
      <3> QED
        BY <3>2, <3>3
    <2>6. CASE k \in U /\ k # i
      <3>1. m \in U /\ m # s /\ k = low(m)
        BY <2>6, <1>8
      <3>2. q[m] = h.p[k] /\ K(k) \in Int
        BY <3>1, <2>1, <2>6, <1>11, <1>16
      <3>3. CASE k = s
        <4>1. q[k] = x
          BY <3>3, <1>11
        <4>2. ~stop(m)
          BY <3>1, <1>6
        <4>3. Greater(h, x, h.p[k])
          BY <3>1, <4>2 DEF stop, low, DownStops
        <4> QED
          BY <3>2, <4>1, <4>3, <1>17 DEF Greater
      <3>4. CASE k # s
        <4>1. q[k] = h.p[low(k)] /\ low(k) \in 1 .. n - 1 /\ low(k) # i /\ Parent(low(k)) = k
          BY <3>4, <2>6, <1>7, <1>11
        <4>2. K(k) <= K(low(k))
          BY <4>1, <2>6, <1>18
        <4> QED
          BY <3>2, <4>1, <4>2
      <3> QED
        BY <3>3, <3>4
    <2> QED
      BY <2>2, <2>3, <2>4, <2>5, <2>6
  <1>21. Ordered(g)
    <2>1. g.n = n /\ g.key = h.key
      BY <1>15 DEF Placed
    <2>2. ASSUME NEW k \in 1 .. n - 1 PROVE g.key[g.p[Parent(k)]] <= g.key[g.p[k]]
      <3>1. k \in Nat /\ Parent(k) \in 0 .. k - 1
        BY Family
      <3>2. k \in 0 .. n - 1 /\ Parent(k) \in 0 .. n - 1
        BY <3>1, <1>1
      <3>3. g.p[k] = q[k] /\ g.p[Parent(k)] = q[Parent(k)]
        BY <3>2, <1>15
      <3> QED
        BY <3>3, <2>1, <1>20
    <2> QED
      BY <2>1, <2>2 DEF Ordered
  <1> QED
    BY <1>15, <1>21 DEF g

(* So a hole is filled, by moving up or down as minheap_erase does.  Behind   *)
(* the last place the node must be in order where it is.                    *)
LEMMA SettleRight ==
    ASSUME NEW h, NEW D, NEW i, NEW x, NEW n, Hole(h, D, i, x, n),
           i = n /\ i > 0 => ~Greater(h, h.p[Parent(i)], x)
    PROVE  Placed(h, D, i, x, n, Settle(h, i, x, n)) /\ Ordered(Settle(h, i, x, n))
  <1>1. Shape(h, D) /\ n \in Nat /\ i \in Nat /\ i \in 0 .. n /\ x \in D
    BY DEF Hole
  <1>2. CASE i > 0 /\ Greater(h, h.p[Parent(i)], x)
    <2>1. i < n /\ ~UpStops(h, i, x)
      BY <1>1, <1>2 DEF UpStops
    <2>2. Settle(h, i, x, n) = ShiftUp(h, i, x, n)
      BY <1>2 DEF Settle
    <2> QED
      BY <2>1, <2>2, ShiftUpRight
  <1>3. CASE ~(i > 0 /\ Greater(h, h.p[Parent(i)], x))
    <2>1. ASSUME 0 < i, i < n PROVE h.key[h.p[Parent(i)]] <= h.key[x]
      <3>1. Parent(i) \in 0 .. i - 1
        BY <1>1, <2>1, Family
      <3>2. Parent(i) \in 0 .. n - 1 /\ Parent(i) # i
        BY <3>1, <1>1, <2>1
      <3>3. h.p[Parent(i)] \in D
        BY <3>2 DEF Hole
      <3>4. h.key[h.p[Parent(i)]] \in Int /\ h.key[x] \in Int
        BY <3>3, <1>1 DEF Shape
      <3>5. ~Greater(h, h.p[Parent(i)], x)
        BY <1>3, <2>1
      <3> QED
        BY <3>4, <3>5 DEF Greater
    <2>2. Settle(h, i, x, n) = ShiftDown(h, i, x, n)
      BY <1>3 DEF Settle
    <2> QED
      BY <2>1, <2>2, ShiftDownRight
  <1> QED
    BY <1>2, <1>3

-----------------------------------------------------------------------------
(* The operations of minheap.h on a heap of nodes D.                        *)

(* A heap of nodes from D.                                                 *)
HeapOf(h, D) == Shape(h, D) /\ h.n \in Nat /\ h.p \in [0 .. h.n - 1 -> D] /\ IsHeap(h)

(* What a heap is, in terms of its fields.                                  *)
LEMMA HeapFields ==
    ASSUME NEW h, NEW D
    PROVE  HeapOf(h, D) <=>
             /\ Shape(h, D) /\ h.n \in Nat /\ h.p \in [0 .. h.n - 1 -> D] /\ Ordered(h)
             /\ \A k \in 0 .. h.n - 1 : h.idx[h.p[k]] = k
             /\ \A d \in D : h.idx[d] # -1 => h.idx[d] \in 0 .. h.n - 1 /\ h.p[h.idx[d]] = d
  <1> SUFFICES ASSUME Shape(h, D), h.n \in Nat, h.p \in [0 .. h.n - 1 -> D]
               PROVE  IsHeap(h) <=>
                        /\ Ordered(h) /\ \A k \in 0 .. h.n - 1 : h.idx[h.p[k]] = k
                        /\ \A d \in D : h.idx[d] # -1 => h.idx[d] \in 0 .. h.n - 1 /\ h.p[h.idx[d]] = d
    BY DEF HeapOf
  <1>1. DOMAIN h.idx = D
    BY DEF Shape
  <1>2. ASSUME NEW k \in 1 .. h.n - 1
        PROVE  ~Greater(h, h.p[Parent(k)], h.p[k]) <=> h.key[h.p[Parent(k)]] <= h.key[h.p[k]]
    <2>0. k \in Nat /\ k > 0
      OBVIOUS
    <2>1. k \in Nat /\ Parent(k) \in 0 .. k - 1
      BY ONLY <2>0, Family
    <2>2. k \in 0 .. h.n - 1 /\ Parent(k) \in 0 .. h.n - 1
      BY <2>1
    <2>3. h.key[h.p[k]] \in Int /\ h.key[h.p[Parent(k)]] \in Int
      BY <2>2 DEF Shape
    <2> QED
      BY <2>3 DEF Greater
  <1>3. Ordered(h) <=> \A k \in 1 .. h.n - 1 : ~Greater(h, h.p[Parent(k)], h.p[k])
    BY <1>2 DEF Ordered
  <1> QED
    BY <1>1, <1>3 DEF IsHeap

(* A hole that was filled, with no node left that thinks it is there.        *)
LEMMA PlacedHeap ==
    ASSUME NEW h, NEW D, NEW i, NEW x, NEW n, NEW g, Hole(h, D, i, x, n), i < n,
           Placed(h, D, i, x, n, g), Ordered(g), \A d \in D : d # x => h.idx[d] # i
    PROVE  HeapOf(g, D) /\ \A d \in D : g.idx[d] # -1 <=> d = x \/ h.idx[d] # -1
  <1>1. n \in Nat /\ x \in D /\ i \in 0 .. n
    BY DEF Hole
  <1>2. Shape(g, D) /\ g.n \in Nat /\ g.n = n /\ g.p \in [0 .. g.n - 1 -> D]
        /\ \A k \in 0 .. g.n - 1 : g.idx[g.p[k]] = k
    BY <1>1 DEF Placed
  <1>3. ASSUME NEW d \in D
        PROVE  /\ g.idx[d] # -1 <=> d = x \/ h.idx[d] # -1
               /\ g.idx[d] # -1 => g.idx[d] \in 0 .. n - 1 /\ g.p[g.idx[d]] = d
    <2>1. CASE d = x
      <3>1. g.idx[d] \in 0 .. n - 1 /\ g.p[g.idx[d]] = d
        BY <2>1 DEF Placed
      <3>2. g.idx[d] # -1
        BY <3>1, <1>1
      <3> QED
        BY <2>1, <3>1, <3>2
    <2>2. CASE d # x /\ h.idx[d] = -1
      <3>1. g.idx[d] = -1
        BY <2>2 DEF Placed
      <3> QED
        BY <2>2, <3>1
    <2>3. CASE d # x /\ h.idx[d] # -1
      <3>1. g.idx[d] \in 0 .. n - 1 /\ g.p[g.idx[d]] = d
        BY <2>3 DEF Placed
      <3>2. g.idx[d] # -1
        BY <3>1, <1>1
      <3> QED
        BY <2>3, <3>1, <3>2
    <2> QED
      BY <2>1, <2>2, <2>3
  <1> QED
    BY <1>2, <1>3, HeapFields

(* The hole at i is the place of y, and x is the last node.                 *)
Vacated(h, D, i, x, n, y) ==
    /\ y \in D /\ h.idx[y] = i
    /\ \A d \in D : d # y => h.idx[d] # i
    /\ i < n => x # y /\ h.idx[x] # -1
    /\ i = n => x = y

(* A hole that was filled with x after y had been there.                    *)
LEMMA RemovedHeap ==
    ASSUME NEW h, NEW D, NEW i, NEW x, NEW n, NEW g, NEW y, Hole(h, D, i, x, n),
           Placed(h, D, i, x, n, g), Ordered(g), Vacated(h, D, i, x, n, y)
    PROVE  /\ HeapOf(Removed(g, y), D) /\ Removed(g, y).n = n /\ Removed(g, y).key = h.key
           /\ \A d \in D : Removed(g, y).idx[d] # -1 <=> d # y /\ h.idx[d] # -1
  <1> DEFINE r == Removed(g, y)
  <1> /\ y \in D /\ h.idx[y] = i
      /\ \A d \in D : d # y => h.idx[d] # i
      /\ i < n => x # y /\ h.idx[x] # -1
      /\ i = n => x = y
    BY DEF Vacated
  <1>1. n \in Nat /\ x \in D /\ i \in 0 .. n
    BY DEF Hole
  <1>2. Shape(g, D) /\ g.n = n /\ g.p \in [0 .. n - 1 -> D] /\ g.key = h.key
        /\ \A k \in 0 .. n - 1 : g.idx[g.p[k]] = k
    BY DEF Placed
  <1>3. /\ Shape(r, D) /\ r.n = n /\ r.p = g.p /\ r.key = g.key
        /\ \A d \in D : r.idx[d] = IF d = y THEN -1 ELSE g.idx[d]
    <2>1. g = [p |-> g.p, n |-> g.n, idx |-> g.idx, key |-> g.key]
          /\ g.idx \in [D -> Int] /\ g.key \in [D -> Int]
      BY <1>2 DEF Shape
    <2> DEFINE I == [g.idx EXCEPT ![y] = -1]
    <2>2. r = [g EXCEPT !.idx = I]
      BY DEF Removed
    <2>3. I \in [D -> Int] /\ \A d \in D : I[d] = IF d = y THEN -1 ELSE g.idx[d]
      BY <2>1
    <2> HIDE DEF I, r
    <2>4. r = [p |-> g.p, n |-> g.n, idx |-> I, key |-> g.key]
      BY <2>1, <2>2
    <2> QED
      BY <1>2, <2>1, <2>3, <2>4 DEF Shape
  <1> HIDE DEF r
  <1>4. ASSUME NEW k \in 0 .. n - 1 PROVE g.p[k] # y
    <2>1. CASE i = n
      BY <2>1 DEF Placed
    <2>2. CASE i < n
      BY <2>2 DEF Placed
    <2> QED
      BY <2>1, <2>2, <1>1
  <1>5. \A k \in 0 .. r.n - 1 : r.idx[r.p[k]] = k
    BY <1>2, <1>3, <1>4
  <1>6. ASSUME NEW d \in D
        PROVE  /\ r.idx[d] # -1 <=> d # y /\ h.idx[d] # -1
               /\ r.idx[d] # -1 => r.idx[d] \in 0 .. n - 1 /\ r.p[r.idx[d]] = d
    <2>1. CASE d = y
      BY <2>1, <1>3
    <2>2. CASE d # y /\ d = x
      <3>1. i < n
        BY <2>2, <1>1
      <3>2. g.idx[d] \in 0 .. n - 1 /\ g.p[g.idx[d]] = d
        BY <2>2, <3>1 DEF Placed
      <3>3. g.idx[d] # -1
        BY <3>2, <1>1
      <3> QED
        BY <2>2, <3>1, <3>2, <3>3, <1>3
    <2>3. CASE d # y /\ d # x /\ h.idx[d] = -1
      <3>1. g.idx[d] = -1
        BY <2>3 DEF Placed
      <3> QED
        BY <2>3, <3>1, <1>3
    <2>4. CASE d # y /\ d # x /\ h.idx[d] # -1
      <3>1. g.idx[d] \in 0 .. n - 1 /\ g.p[g.idx[d]] = d
        BY <2>4 DEF Placed
      <3>2. g.idx[d] # -1
        BY <3>1, <1>1
      <3> QED
        BY <2>4, <3>1, <3>2, <1>3
    <2> QED
      BY <2>1, <2>2, <2>3, <2>4
  <1>7. Ordered(r)
    BY <1>2, <1>3 DEF Ordered
  <1>8. HeapOf(r, D)
    <2>1. Shape(r, D) /\ r.n \in Nat /\ r.p \in [0 .. r.n - 1 -> D]
      BY <1>1, <1>2, <1>3
    <2>2. \A d \in D : r.idx[d] # -1 => r.idx[d] \in 0 .. r.n - 1 /\ r.p[r.idx[d]] = d
      BY <1>3, <1>6
    <2> QED
      BY ONLY <1>5, <1>7, <2>1, <2>2, HeapFields
  <1> QED
    BY <1>2, <1>3, <1>6, <1>8 DEF r

(* minheap_push adds a node that is not there.                              *)
LEMMA PushRight ==
    ASSUME NEW h, NEW D, NEW e \in D, HeapOf(h, D), h.idx[e] = -1
    PROVE  /\ HeapOf(minheap_push(h, e), D) /\ minheap_push(h, e).key = h.key
           /\ \A d \in D : minheap_push(h, e).idx[d] # -1 <=> d = e \/ h.idx[d] # -1
  <1> DEFINE n == h.n
             g == minheap_push(h, e)
  <1>1. /\ Shape(h, D) /\ n \in Nat /\ h.p \in [0 .. n - 1 -> D] /\ Ordered(h)
        /\ \A k \in 0 .. n - 1 : h.idx[h.p[k]] = k
        /\ \A d \in D : h.idx[d] # -1 => h.idx[d] \in 0 .. n - 1 /\ h.p[h.idx[d]] = d
    BY HeapFields
  <1>2. \A k \in 1 .. n - 1 : h.key[h.p[Parent(k)]] <= h.key[h.p[k]]
    BY <1>1 DEF Ordered
  <1>3. g = ShiftUp(h, n, e, n + 1)
    BY DEF minheap_push
  <1> HIDE DEF n, g
  <1>4. Hole(h, D, n, e, n + 1)
    <2>1. n + 1 \in Nat /\ n \in 0 .. n + 1 /\ (n + 1) - 1 = n
      BY <1>1
    <2>2. ASSUME NEW k \in 0 .. n, k # n PROVE h.p[k] \in D /\ h.idx[h.p[k]] = k /\ h.p[k] # e
      <3>1. k \in 0 .. n - 1 /\ k # -1
        BY <1>1, <2>2
      <3> QED
        BY <3>1, <1>1
    <2>3. ASSUME NEW d \in D, h.idx[d] # -1 PROVE h.idx[d] \in 0 .. n /\ h.p[h.idx[d]] = d
      <3>1. h.idx[d] \in 0 .. n - 1 /\ h.p[h.idx[d]] = d
        BY <1>1, <2>3
      <3> QED
        BY <3>1, <1>1
    <2>4. ASSUME NEW k \in 1 .. n PROVE /\ k # n => h.key[h.p[Parent(k)]] <= h.key[h.p[k]]
                                        /\ Parent(k) # n
      <3>1. k \in Nat /\ k > 0 /\ k <= n
        BY <1>1
      <3>2. Parent(k) \in 0 .. k - 1
        BY ONLY <3>1, Family
      <3>3. k # n => k \in 1 .. n - 1
        BY <1>1, <3>1
      <3> QED
        BY <3>1, <3>2, <3>3, <1>1, <1>2
    <2> QED
      BY <1>1, <2>1, <2>2, <2>3, <2>4 DEF Hole
  <1>5. Placed(h, D, n, e, n + 1, g) /\ Ordered(g)
    <2>1. n < n + 1 /\ n = (n + 1) - 1
      BY <1>1
    <2> QED
      BY <1>3, <1>4, <2>1, ShiftUpRight
  <1>6. \A d \in D : d # e => h.idx[d] # n
    <2> SUFFICES ASSUME NEW d \in D, h.idx[d] = n PROVE FALSE
      OBVIOUS
    <2>1. n # -1 /\ n \notin 0 .. n - 1
      BY <1>1
    <2> QED
      BY <1>1, <2>1
  <1>7. HeapOf(g, D) /\ \A d \in D : g.idx[d] # -1 <=> d = e \/ h.idx[d] # -1
    <2>1. n < n + 1
      BY <1>1
    <2> QED
      BY <1>4, <1>5, <1>6, <2>1, PlacedHeap
  <1>8. g.key = h.key
    BY <1>5 DEF Placed
  <1> QED
    BY <1>7, <1>8 DEF g

(* The place of node e in a heap is a hole for the last node to go to.       *)
LEMMA HoleOf ==
    ASSUME NEW h, NEW D, NEW e \in D, HeapOf(h, D), h.idx[e] # -1
    PROVE  /\ Hole(h, D, h.idx[e], h.p[h.n - 1], h.n - 1)
           /\ \A d \in D : d # e => h.idx[d] # h.idx[e]
           /\ h.idx[e] < h.n - 1 => h.p[h.n - 1] # e /\ h.idx[h.p[h.n - 1]] # -1
           /\ h.idx[e] = h.n - 1 => h.p[h.n - 1] = e
           /\ h.n - 1 \in Nat /\ h.p[h.n - 1] \in D
           /\ h.idx[e] > 0 /\ h.idx[e] = h.n - 1 => ~Greater(h, h.p[Parent(h.idx[e])], e)
  <1> DEFINE n == h.n - 1
             i == h.idx[e]
             x == h.p[n]
  <1>1. /\ Shape(h, D) /\ h.n \in Nat /\ h.p \in [0 .. h.n - 1 -> D] /\ Ordered(h)
        /\ \A k \in 0 .. h.n - 1 : h.idx[h.p[k]] = k
        /\ \A d \in D : h.idx[d] # -1 => h.idx[d] \in 0 .. h.n - 1 /\ h.p[h.idx[d]] = d
    BY HeapFields
  <1>2. /\ h.p \in [0 .. n -> D] /\ \A k \in 0 .. n : h.idx[h.p[k]] = k
        /\ \A d \in D : h.idx[d] # -1 => h.idx[d] \in 0 .. n /\ h.p[h.idx[d]] = d
        /\ \A k \in 1 .. n : h.key[h.p[Parent(k)]] <= h.key[h.p[k]]
    BY <1>1 DEF Ordered
  <1>3. i \in 0 .. n /\ n \in Int
    BY <1>1, <1>2
  <1> HIDE DEF n, i
  <1>4. n \in Nat /\ i \in Nat /\ i <= n
    BY <1>3
  <1>5. x \in D /\ h.idx[x] = n /\ h.p[i] = e /\ h.idx[e] = i
    BY <1>2, <1>4 DEF i
  <1> HIDE DEF x
  <1>6. \A k \in 1 .. n : Parent(k) \in 0 .. k - 1 /\ k \in Nat
    <2> SUFFICES ASSUME NEW k \in 1 .. n PROVE Parent(k) \in 0 .. k - 1 /\ k \in Nat
      OBVIOUS
    <2>1. k \in Nat /\ k > 0
      BY <1>4
    <2> QED
      BY ONLY <2>1, Family
  <1>7. \A d \in D : d # e => h.idx[d] # i
    BY <1>2, <1>4, <1>5
  <1>8. Hole(h, D, i, x, n)
    <2>1. ASSUME NEW k \in 0 .. n - 1 PROVE h.p[k] \in D /\ h.idx[h.p[k]] = k /\ h.p[k] # x
      <3>1. k \in 0 .. n /\ k # n
        BY <1>4
      <3> QED
        BY <3>1, <1>2, <1>5
    <2>2. ASSUME NEW d \in D, d # x, h.idx[d] # -1
          PROVE  h.idx[d] \in 0 .. n - 1 /\ h.p[h.idx[d]] = d
      <3>1. h.idx[d] \in 0 .. n /\ h.p[h.idx[d]] = d
        BY <2>2, <1>2
      <3>2. h.idx[d] # n
        BY <3>1, <2>2 DEF x
      <3> QED
        BY <3>1, <3>2, <1>4
    <2>3. ASSUME NEW k \in 1 .. n - 1 PROVE h.key[h.p[Parent(k)]] <= h.key[h.p[k]]
      <3>1. k \in 1 .. n
        BY <1>4
      <3> QED
        BY <3>1, <1>2
    <2>4. ASSUME NEW k \in 1 .. n - 1, Parent(k) = i, i > 0
          PROVE  h.key[h.p[Parent(i)]] <= h.key[h.p[k]]
      <3>1. k \in 1 .. n /\ i \in 1 .. n /\ k \in 0 .. n /\ i \in 0 .. n
        BY <1>4, <2>4
      <3>2. Parent(i) \in 0 .. n
        BY <3>1, <1>4, <1>6
      <3>3. h.key[h.p[Parent(i)]] <= h.key[h.p[i]] /\ h.key[h.p[i]] <= h.key[h.p[k]]
        BY <3>1, <1>2, <2>4
      <3>4. h.key[h.p[Parent(i)]] \in Int /\ h.key[h.p[i]] \in Int /\ h.key[h.p[k]] \in Int
        BY <3>1, <3>2, <1>1, <1>2 DEF Shape
      <3> QED
        BY <3>3, <3>4
    <2>5. Shape(h, D) /\ n \in Nat /\ i \in 0 .. n /\ x \in D
      BY <1>1, <1>3, <1>4, <1>5
    <2> QED
      BY ONLY <2>1, <2>2, <2>3, <2>4, <2>5 DEF Hole
  <1>9. (i < n => x # e /\ h.idx[x] # -1) /\ (i = n => x = e)
    BY <1>4, <1>5 DEF x
  <1>10. ASSUME i > 0, i = n PROVE ~Greater(h, h.p[Parent(i)], e)
    <2>1. i \in 1 .. n /\ i \in 0 .. n
      BY <1>4, <1>10
    <2>2. h.key[h.p[Parent(i)]] <= h.key[h.p[i]] /\ Parent(i) \in 0 .. i - 1
      BY <2>1, <1>2, <1>6
    <2>3. Parent(i) \in 0 .. n
      BY <2>2, <1>4
    <2>4. h.key[h.p[Parent(i)]] \in Int /\ h.key[h.p[i]] \in Int
      BY <2>1, <2>3, <1>1, <1>2 DEF Shape
    <2> QED
      BY <2>2, <2>4, <1>5 DEF Greater
  <1> QED
    BY <1>4, <1>5, <1>7, <1>8, <1>9, <1>10 DEF n, i, x

(* g is the heap h without e.                                               *)
Without(h, g, D, e) ==
    /\ HeapOf(g, D) /\ g.key = h.key
    /\ \A d \in D : g.idx[d] # -1 <=> d # e /\ h.idx[d] # -1

(* minheap_erase takes a node out.                                          *)
LEMMA EraseRight ==
    ASSUME NEW h, NEW D, NEW e \in D, HeapOf(h, D)
    PROVE  Without(h, minheap_erase(h, e), D, e)
  <1>1. CASE h.idx[e] = -1
    BY <1>1 DEF minheap_erase, Without
  <1>2. CASE h.idx[e] # -1
    <2> DEFINE i == h.idx[e]
               n == h.n - 1
               x == h.p[n]
               g == Settle(h, i, x, n)
    <2>1. /\ Hole(h, D, i, x, n) /\ \A d \in D : d # e => h.idx[d] # i
          /\ i < n => x # e /\ h.idx[x] # -1
          /\ i = n => x = e
          /\ i > 0 /\ i = n => ~Greater(h, h.p[Parent(i)], e)
      BY <1>2, HoleOf
    <2>2. minheap_erase(h, e) = Removed(g, e) /\ h.idx[e] = i
      BY <1>2 DEF minheap_erase
    <2> HIDE DEF i, n, x
    <2>5. Vacated(h, D, i, x, n, e)
      BY <2>1, <2>2 DEF Vacated
    <2>3. Placed(h, D, i, x, n, g) /\ Ordered(g)
      BY <2>1, SettleRight
    <2> HIDE DEF g
    <2>4. /\ HeapOf(Removed(g, e), D) /\ Removed(g, e).key = h.key
          /\ \A d \in D : Removed(g, e).idx[d] # -1 <=> d # e /\ h.idx[d] # -1
      BY <2>1, <2>3, <2>5, RemovedHeap
    <2> QED
      BY <2>2, <2>4 DEF Without
  <1> QED
    BY <1>1, <1>2

(* minheap_pop: the first node leaves, and the others stay.                 *)
LEMMA PopRight ==
    ASSUME NEW h, NEW D, HeapOf(h, D), h.n > 0
    PROVE  /\ HeapOf(minheap_pop(h), D) /\ minheap_pop(h).key = h.key /\ minheap_pop(h).n = h.n - 1
           /\ h.p[0] \in D /\ h.idx[h.p[0]] = 0
           /\ \A d \in D : minheap_pop(h).idx[d] # -1 <=> d # h.p[0] /\ h.idx[d] # -1
  <1> DEFINE e == h.p[0]
             n == h.n - 1
             x == h.p[n]
             g == ShiftDown(h, 0, x, n)
  <1>1. e \in D /\ h.idx[e] = 0
    <2>1. h.n \in Nat /\ h.p \in [0 .. h.n - 1 -> D] /\ \A k \in 0 .. h.n - 1 : h.idx[h.p[k]] = k
      BY HeapFields
    <2>2. 0 \in 0 .. h.n - 1
      BY <2>1
    <2> QED
      BY <2>1, <2>2
  <1>2. minheap_pop(h) = Removed(g, e)
    BY DEF minheap_pop
  <1> HIDE DEF e
  <1>3. /\ Hole(h, D, 0, x, n) /\ \A d \in D : d # e => h.idx[d] # 0
        /\ 0 < n => x # e /\ h.idx[x] # -1
        /\ 0 = n => x = e
    <2>1. h.idx[e] # -1
      BY <1>1
    <2> QED
      BY <2>1, <1>1, HoleOf
  <1> HIDE DEF n, x
  <1>6. Vacated(h, D, 0, x, n, e)
    BY <1>1, <1>3 DEF Vacated
  <1>4. Placed(h, D, 0, x, n, g) /\ Ordered(g)
    BY <1>3, ShiftDownRight
  <1> HIDE DEF g
  <1>5. /\ HeapOf(Removed(g, e), D) /\ Removed(g, e).key = h.key /\ Removed(g, e).n = n
        /\ \A d \in D : Removed(g, e).idx[d] # -1 <=> d # e /\ h.idx[d] # -1
    BY <1>3, <1>4, <1>6, RemovedHeap
  <1> QED
    BY <1>1, <1>2, <1>5 DEF e, n

(* The fields of a heap in which the key of e is set to t.                  *)
LEMMA KeySet ==
    ASSUME NEW h, NEW D, NEW e \in D, NEW t \in Int, Shape(h, D)
    PROVE  LET k == [h EXCEPT !.key[e] = t]
           IN  /\ Shape(k, D) /\ k.n = h.n /\ k.p = h.p /\ k.idx = h.idx
               /\ k.key = [h.key EXCEPT ![e] = t]
               /\ \A d \in D : k.key[d] = IF d = e THEN t ELSE h.key[d]
  <1> DEFINE K == [h.key EXCEPT ![e] = t]
             k == [h EXCEPT !.key[e] = t]
  <1>1. /\ h = [p |-> h.p, n |-> h.n, idx |-> h.idx, key |-> h.key]
        /\ h.idx \in [D -> Int] /\ h.key \in [D -> Int]
    BY DEF Shape
  <1>2. K \in [D -> Int] /\ \A d \in D : K[d] = IF d = e THEN t ELSE h.key[d]
    BY <1>1
  <1>3. k = [h EXCEPT !.key = K]
    OBVIOUS
  <1>4. K = [h.key EXCEPT ![e] = t]
    OBVIOUS
  <1> HIDE DEF K, k
  <1>5. k = [p |-> h.p, n |-> h.n, idx |-> h.idx, key |-> K]
    BY <1>1, <1>3
  <1>6. /\ Shape(k, D) /\ k.n = h.n /\ k.p = h.p /\ k.idx = h.idx /\ k.key = K
    BY <1>1, <1>2, <1>5 DEF Shape
  <1> QED
    BY <1>2, <1>4, <1>6 DEF k

(* The key of a node that is in no heap may change.                         *)
LEMMA KeySetHeap ==
    ASSUME NEW h, NEW D, NEW e \in D, NEW t \in Int, HeapOf(h, D), h.idx[e] = -1
    PROVE  HeapOf([h EXCEPT !.key[e] = t], D)
  <1> DEFINE k == [h EXCEPT !.key[e] = t]
  <1>1. /\ Shape(h, D) /\ h.n \in Nat /\ h.p \in [0 .. h.n - 1 -> D] /\ Ordered(h)
        /\ \A j \in 0 .. h.n - 1 : h.idx[h.p[j]] = j
        /\ \A d \in D : h.idx[d] # -1 => h.idx[d] \in 0 .. h.n - 1 /\ h.p[h.idx[d]] = d
    BY HeapFields
  <1>2. /\ Shape(k, D) /\ k.n = h.n /\ k.p = h.p /\ k.idx = h.idx
        /\ \A d \in D : k.key[d] = IF d = e THEN t ELSE h.key[d]
    BY <1>1, KeySet
  <1> HIDE DEF k
  <1>3. \A j \in 0 .. h.n - 1 : h.p[j] \in D /\ k.key[h.p[j]] = h.key[h.p[j]]
    <2> SUFFICES ASSUME NEW j \in 0 .. h.n - 1
                 PROVE  h.p[j] \in D /\ k.key[h.p[j]] = h.key[h.p[j]]
      OBVIOUS
    <2>1. h.idx[h.p[j]] # -1
      BY <1>1
    <2>2. h.p[j] # e
      BY <2>1
    <2> QED
      BY <2>2, <1>1, <1>2
  <1>4. Ordered(k)
    <2> SUFFICES ASSUME NEW j \in 1 .. h.n - 1 PROVE k.key[h.p[Parent(j)]] <= k.key[h.p[j]]
      BY <1>2 DEF Ordered
    <2>1. j \in Nat /\ j > 0 /\ j <= h.n - 1
      BY <1>1
    <2>2. Parent(j) \in 0 .. j - 1
      BY ONLY <2>1, Family
    <2>3. j \in 0 .. h.n - 1 /\ Parent(j) \in 0 .. h.n - 1
      BY <1>1, <2>1, <2>2
    <2>4. h.key[h.p[Parent(j)]] <= h.key[h.p[j]]
      BY <1>1 DEF Ordered
    <2> QED
      BY <1>3, <2>3, <2>4
  <1>5. HeapOf(k, D)
    BY <1>1, <1>2, <1>4, HeapFields
  <1> QED
    BY <1>5 DEF k

(* g is the heap h with e in it and the key t of e.                         *)
Renewed(h, g, D, e, t) ==
    /\ HeapOf(g, D) /\ \A d \in D : g.key[d] = IF d = e THEN t ELSE h.key[d]
    /\ \A d \in D : g.idx[d] # -1 <=> d = e \/ h.idx[d] # -1

(* What follows a new time: minheap_adjust of the heap with the key t of e.  *)
Adjusted(h, e, t) == minheap_adjust([h EXCEPT !.key[e] = t], e)

(* minheap_adjust after the key of a node has changed: the node finds its     *)
(* place, or is pushed.                                                     *)
LEMMA AdjustRight ==
    ASSUME NEW h, NEW D, NEW e \in D, NEW t \in Int, HeapOf(h, D),
           NEW g, g = Adjusted(h, e, t)
    PROVE  Renewed(h, g, D, e, t)
  <1> DEFINE k == [h EXCEPT !.key[e] = t]
  <1>0. g = minheap_adjust(k, e)
    BY DEF Adjusted
  <1>1. /\ Shape(h, D) /\ h.n \in Nat /\ h.p \in [0 .. h.n - 1 -> D] /\ Ordered(h)
        /\ \A j \in 0 .. h.n - 1 : h.idx[h.p[j]] = j
        /\ \A d \in D : h.idx[d] # -1 => h.idx[d] \in 0 .. h.n - 1 /\ h.p[h.idx[d]] = d
    BY HeapFields
  <1>2. /\ Shape(k, D) /\ k.n = h.n /\ k.p = h.p /\ k.idx = h.idx /\ k.key = [h.key EXCEPT ![e] = t]
        /\ \A d \in D : k.key[d] = IF d = e THEN t ELSE h.key[d]
    BY <1>1, KeySet
  <1>3. CASE h.idx[e] = -1
    <2>1. HeapOf(k, D)
      BY <1>3, KeySetHeap
    <2> HIDE DEF k
    <2>2. g = minheap_push(k, e)
      BY <1>0, <1>2, <1>3 DEF minheap_adjust
    <2>3. HeapOf(g, D) /\ g.key = k.key /\ \A d \in D : g.idx[d] # -1 <=> d = e \/ k.idx[d] # -1
      <3>1. k.idx[e] = -1
        BY <1>2, <1>3
      <3> DEFINE m == minheap_push(k, e)
      <3>2. /\ HeapOf(m, D) /\ m.key = k.key
            /\ \A d \in D : m.idx[d] # -1 <=> d = e \/ k.idx[d] # -1
        BY <2>1, <3>1, PushRight
      <3> HIDE DEF m
      <3>3. g = m
        BY <2>2 DEF m
      <3> QED
        BY ONLY <3>2, <3>3
    <2>4. HeapOf(g, D) /\ (\A d \in D : g.key[d] = IF d = e THEN t ELSE h.key[d])
          /\ \A d \in D : g.idx[d] # -1 <=> d = e \/ h.idx[d] # -1
      BY <2>3, <1>2
    <2> QED
      BY <2>4 DEF Renewed
  <1>4. CASE h.idx[e] # -1
    <2> DEFINE i == h.idx[e]
               n == h.n
    <2> HIDE DEF k
    <2>1. n \in Nat /\ i \in 0 .. n - 1 /\ i \in Nat /\ i < n /\ h.p[i] = e
      <3>1. h.idx[e] \in 0 .. h.n - 1 /\ h.p[h.idx[e]] = e
        BY <1>1, <1>4
      <3> QED
        BY <3>1, <1>1
    <2>2. /\ \A j \in 0 .. n - 1 : h.p[j] \in D /\ h.idx[h.p[j]] = j /\ h.key[h.p[j]] \in Int
          /\ \A j \in 1 .. n - 1 : h.key[h.p[Parent(j)]] <= h.key[h.p[j]]
          /\ \A d \in D : h.idx[d] # -1 => h.idx[d] \in 0 .. n - 1 /\ h.p[h.idx[d]] = d
      BY <1>1 DEF Ordered, Shape
    <2>3. g = Settle(k, i, e, n)
      BY <1>0, <1>2, <1>4 DEF minheap_adjust
    <2>4. h.idx[e] = i
      OBVIOUS
    <2> HIDE DEF i, n
    <2>5. \A j \in 1 .. n - 1 : Parent(j) \in 0 .. n - 1 /\ j \in 0 .. n - 1
      <3> SUFFICES ASSUME NEW j \in 1 .. n - 1 PROVE Parent(j) \in 0 .. n - 1 /\ j \in 0 .. n - 1
        OBVIOUS
      <3>1. j \in Nat /\ j > 0 /\ j <= n - 1
        BY <2>1
      <3>2. Parent(j) \in 0 .. j - 1
        BY ONLY <3>1, Family
      <3> QED
        BY <3>1, <3>2, <2>1
    <2>6. \A j \in 0 .. n - 1 : j # i => h.p[j] # e /\ k.key[h.p[j]] = h.key[h.p[j]]
      BY <2>2, <2>4, <1>2
    <2>7. Hole(k, D, i, e, n)
      <3>1. Shape(k, D) /\ n \in Nat /\ i \in 0 .. n /\ e \in D
        BY <1>2, <2>1
      <3>2. \A j \in 0 .. n - 1 : j # i => k.p[j] \in D /\ k.idx[k.p[j]] = j /\ k.p[j] # e
        BY <1>2, <2>2, <2>6
      <3>3. \A d \in D : d # e /\ k.idx[d] \notin {-1, i} => k.idx[d] \in 0 .. n - 1 /\ k.p[k.idx[d]] = d
        BY <1>2, <2>2
      <3>4. \A j \in 1 .. n - 1 : j # i /\ Parent(j) # i => k.key[k.p[Parent(j)]] <= k.key[k.p[j]]
        BY <1>2, <2>2, <2>5, <2>6
      <3>5. \A j \in 1 .. n - 1 : Parent(j) = i /\ i > 0 => k.key[k.p[Parent(i)]] <= k.key[k.p[j]]
        <4> SUFFICES ASSUME NEW j \in 1 .. n - 1, Parent(j) = i, i > 0
                     PROVE  k.key[k.p[Parent(i)]] <= k.key[k.p[j]]
          OBVIOUS
        <4>1. i \in 1 .. n - 1 /\ j \in Nat /\ j > 0
          BY <2>1
        <4>2. Parent(j) \in 0 .. j - 1 /\ Parent(i) \in 0 .. i - 1
          BY ONLY <4>1, <2>1, Family
        <4>3. j # i /\ Parent(i) # i
          BY <4>1, <4>2, <2>1
        <4>4. Parent(i) \in 0 .. n - 1 /\ j \in 0 .. n - 1
          BY <4>1, <2>5
        <4>5. /\ k.key[k.p[Parent(i)]] = h.key[h.p[Parent(i)]] /\ k.key[k.p[j]] = h.key[h.p[j]]
          BY <4>3, <4>4, <2>6, <1>2
        <4>6. /\ h.key[h.p[Parent(i)]] <= h.key[h.p[i]] /\ h.key[h.p[i]] <= h.key[h.p[j]]
              /\ h.key[h.p[Parent(i)]] \in Int /\ h.key[h.p[i]] \in Int /\ h.key[h.p[j]] \in Int
          BY <4>1, <4>4, <2>1, <2>2
        <4> QED
          BY <4>5, <4>6
      <3> QED
        BY ONLY <3>1, <3>2, <3>3, <3>4, <3>5 DEF Hole
    <2>8. Placed(k, D, i, e, n, g) /\ Ordered(g)
      <3>1. ~(i = n)
        BY <2>1
      <3> QED
        BY <2>3, <2>7, <3>1, SettleRight
    <2>9. \A d \in D : d # e => k.idx[d] # i
      BY <1>2, <2>1, <2>2, <2>4
    <2>10. HeapOf(g, D) /\ \A d \in D : g.idx[d] # -1 <=> d = e \/ k.idx[d] # -1
      BY <2>1, <2>7, <2>8, <2>9, PlacedHeap
    <2>11. g.key = k.key
      BY <2>8 DEF Placed
    <2>12. HeapOf(g, D) /\ (\A d \in D : g.key[d] = IF d = e THEN t ELSE h.key[d])
           /\ \A d \in D : g.idx[d] # -1 <=> d = e \/ h.idx[d] # -1
      BY <2>10, <2>11, <1>2
    <2> QED
      BY <2>12 DEF Renewed
  <1> QED
    BY <1>3, <1>4

(* The first node of a heap has the least key.                              *)
LEMMA FirstIsLeast ==
    ASSUME NEW h, NEW D, HeapOf(h, D), NEW d \in D, h.idx[d] # -1
    PROVE  h.n > 0 /\ h.key[h.p[0]] <= h.key[d]
  <1> DEFINE n == h.n
             K(j) == h.key[h.p[j]]
             T == {j \in 0 .. n - 1 : ~(K(0) <= K(j))}
  <1>1. /\ n \in Nat /\ \A j \in 1 .. n - 1 : K(Parent(j)) <= K(j)
        /\ h.idx[d] \in 0 .. n - 1 /\ h.p[h.idx[d]] = d
    BY HeapFields DEF Ordered
  <1>2. \A j \in 0 .. n - 1 : K(j) \in Int
    <2>1. h.p \in [0 .. n - 1 -> D] /\ h.key \in [D -> Int]
      BY HeapFields DEF Shape
    <2> QED
      BY <2>1
  <1> HIDE DEF n, K
  <1>3. n > 0 /\ 0 \in 0 .. n - 1
    BY <1>1
  <1>4. ASSUME T # {} PROVE FALSE
    <2>1. T \subseteq Nat
      BY <1>1
    <2>2. PICK j \in T : \A y \in T : j <= y
      BY <1>4, <2>1, LeastOf
    <2>3. j \in 0 .. n - 1 /\ ~(K(0) <= K(j))
      BY <2>2
    <2>4. j # 0
      BY <2>3, <1>2, <1>3
    <2>5. j \in Nat /\ j > 0 /\ j \in 1 .. n - 1
      BY <2>3, <2>4, <1>1
    <2>6. Parent(j) \in 0 .. j - 1
      BY ONLY <2>5, Family
    <2>7. Parent(j) \in 0 .. n - 1 /\ Parent(j) < j
      BY <2>5, <2>6, <1>1
    <2>8. K(0) <= K(Parent(j))
      BY <2>2, <2>7
    <2>9. K(Parent(j)) <= K(j)
      BY <1>1, <2>5
    <2> QED
      BY <2>3, <2>7, <2>8, <2>9, <1>2, <1>3
  <1>5. K(0) <= K(h.idx[d])
    BY <1>1, <1>4
  <1> QED
    BY <1>1, <1>3, <1>5 DEF K, n

(* The nodes of a heap are those that have a place in it.                   *)
LEMMA Members ==
    ASSUME NEW h, NEW D, HeapOf(h, D)
    PROVE  {h.p[i] : i \in 0 .. h.n - 1} = {d \in D : h.idx[d] # -1}
  <1>1. /\ h.n \in Nat /\ h.p \in [0 .. h.n - 1 -> D]
        /\ \A i \in 0 .. h.n - 1 : h.idx[h.p[i]] = i
        /\ \A d \in D : h.idx[d] # -1 => h.idx[d] \in 0 .. h.n - 1 /\ h.p[h.idx[d]] = d
    BY HeapFields
  <1>2. \A i \in 0 .. h.n - 1 : h.p[i] \in D /\ h.idx[h.p[i]] # -1
    BY <1>1
  <1> QED
    BY <1>1, <1>2

(* A heap has no more places than there are nodes.                          *)
LEMMA HeapFits ==
    ASSUME NEW h, NEW D, HeapOf(h, D), IsFiniteSet(D)
    PROVE  Cardinality(D) \in Nat /\ h.n \in 0 .. Cardinality(D)
  <1>1. /\ h.n \in Nat /\ h.p \in [0 .. h.n - 1 -> D]
        /\ \A i \in 0 .. h.n - 1 : h.idx[h.p[i]] = i
    BY HeapFields
  <1>2. h.p \in Injection(0 .. h.n - 1, D)
    BY <1>1 DEF Injection, IsInjective
  <1>3. Cardinality(0 .. h.n - 1) <= Cardinality(D)
    BY <1>2, FS_Injection
  <1>4. Cardinality(0 .. h.n - 1) = h.n
    <2>1. 0 \in Int /\ h.n - 1 \in Int
      BY <1>1
    <2>2. Cardinality(0 .. h.n - 1) = IF 0 > h.n - 1 THEN 0 ELSE h.n - 1 - 0 + 1
      BY ONLY <2>1, FS_Interval
    <2> QED
      BY <2>2, <1>1
  <1>5. Cardinality(D) \in Nat
    BY FS_CardinalityType
  <1> QED
    BY <1>1, <1>3, <1>4, <1>5

(* The nodes that a heap has in its places.                                *)
NodesOf(g) == {g.p[i] : i \in 0 .. g.n - 1}

(* minheap_adjust of a heap of all the nodes.                               *)
LEMMA AdjustAll ==
    ASSUME NEW h, NEW D, NEW e \in D, NEW t \in Int, HeapOf(h, D), \A d \in D : h.idx[d] # -1
    PROVE  IsHeap(Adjusted(h, e, t)) /\ NodesOf(Adjusted(h, e, t)) = D
  <1> DEFINE g == Adjusted(h, e, t)
  <1>1. HeapOf(g, D) /\ \A d \in D : g.idx[d] # -1 <=> d = e \/ h.idx[d] # -1
    <2>1. Renewed(h, g, D, e, t)
      BY AdjustRight
    <2> QED
      BY <2>1 DEF Renewed
  <1> HIDE DEF g
  <1>2. {g.p[i] : i \in 0 .. g.n - 1} = {d \in D : g.idx[d] # -1}
    BY ONLY <1>1, Members
  <1>3. {d \in D : g.idx[d] # -1} = D
    BY <1>1
  <1>4. IsHeap(g) /\ {g.p[i] : i \in 0 .. g.n - 1} = D
    BY <1>1, <1>2, <1>3 DEF HeapOf
  <1> QED
    BY <1>4 DEF g, NodesOf

(* minheap_erase and minheap_adjust on the heaps of n nodes.                 *)
LEMMA HeapsOfRight ==
    ASSUME NEW n \in Nat \ {0}, NEW h \in HeapsOf(n), NEW e \in 0 .. n - 1
    PROVE  /\ LET g == minheap_erase(h, e)
              IN  IsHeap(g) /\ {g.p[i] : i \in 0 .. g.n - 1} = (0 .. n - 1) \ {e}
           /\ \A k \in HeapKeys :
                 LET g == minheap_adjust([h EXCEPT !.key[e] = k], e)
                 IN  IsHeap(g) /\ {g.p[i] : i \in 0 .. g.n - 1} = 0 .. n - 1
  <1> DEFINE D == 0 .. n - 1
  <1>1. PICK f \in [D -> HeapKeys] :
          /\ h = [p |-> [i \in 0 .. n - 1 |-> i], n |-> n, idx |-> [i \in 0 .. n - 1 |-> i], key |-> f]
          /\ IsHeap(h)
    BY DEF HeapsOf
  <1>2. HeapOf(h, D) /\ \A d \in D : h.idx[d] # -1
    <2>1. /\ h.n = n /\ h.p = [i \in 0 .. n - 1 |-> i]
          /\ h.idx = [i \in 0 .. n - 1 |-> i] /\ h.key = f
      BY <1>1
    <2>2. h = [p |-> h.p, n |-> h.n, idx |-> h.idx, key |-> h.key]
      BY <1>1
    <2>3. h.key \in [D -> Int]
      BY <2>1, HeapAssumption
    <2>4. h.idx \in [D -> Int] /\ h.p \in [0 .. h.n - 1 -> D]
      BY <2>1
    <2>5. \A d \in D : h.idx[d] # -1
      BY <2>1
    <2> QED
      BY <2>1, <2>2, <2>3, <2>4, <2>5, <1>1 DEF HeapOf, Shape
  <1>3. /\ IsHeap(minheap_erase(h, e))
        /\ {minheap_erase(h, e).p[i] : i \in 0 .. minheap_erase(h, e).n - 1} = D \ {e}
    <2> DEFINE g == minheap_erase(h, e)
    <2>1. HeapOf(g, D) /\ \A d \in D : g.idx[d] # -1 <=> d # e /\ h.idx[d] # -1
      <3>1. Without(h, g, D, e)
        BY <1>2, EraseRight
      <3> QED
        BY <3>1 DEF Without
    <2> HIDE DEF g
    <2>2. {g.p[i] : i \in 0 .. g.n - 1} = {d \in D : g.idx[d] # -1}
      BY ONLY <2>1, Members
    <2>3. {d \in D : g.idx[d] # -1} = D \ {e}
      BY <2>1, <1>2
    <2>4. IsHeap(g) /\ {g.p[i] : i \in 0 .. g.n - 1} = D \ {e}
      BY <2>1, <2>2, <2>3 DEF HeapOf
    <2> QED
      BY <2>4 DEF g
  <1>4. ASSUME NEW k \in HeapKeys
        PROVE  LET g == minheap_adjust([h EXCEPT !.key[e] = k], e)
               IN  IsHeap(g) /\ {g.p[i] : i \in 0 .. g.n - 1} = D
    <2>1. k \in Int /\ e \in D
      BY HeapAssumption
    <2> DEFINE g == Adjusted(h, e, k)
    <2> HIDE DEF D
    <2>2. IsHeap(g) /\ NodesOf(g) = D
      BY ONLY <1>2, <2>1, AdjustAll
    <2> QED
      BY <2>2 DEF Adjusted, NodesOf
  <1> QED
    BY <1>3, <1>4

-----------------------------------------------------------------------------
(* The loop of uv_tcpserver_ontimer.                                         *)

(* f has the heaps after 0, 1, ... m rounds of the loop.                   *)
IsPops(f, m) ==
    f = [k \in 0 .. m |-> IF k = 0 THEN heap
                          ELSE IF Expired(f[k - 1]) THEN minheap_pop(f[k - 1]) ELSE f[k - 1]]

(* They exist.                                                              *)
LEMMA PopsExist ==
    ASSUME NEW i \in Nat
    PROVE  \E f : IsPops(f, i)
  <1> DEFINE T == {m \in Nat : ~\E f : IsPops(f, m)}
             More(x) == IF Expired(x) THEN minheap_pop(x) ELSE x
  <1> HIDE DEF More
  <1>1. ASSUME NEW f, NEW m
        PROVE  IsPops(f, m) <=> f = [k \in 0 .. m |-> IF k = 0 THEN heap ELSE More(f[k - 1])]
    BY DEF IsPops, More
  <1>2. ASSUME T # {} PROVE FALSE
    <2>1. PICK m \in T : \A y \in T : m <= y
      BY <1>2, LeastOf
    <2>2. CASE m = 0
      <3> DEFINE f == [k \in 0 .. 0 |-> heap]
      <3>1. f = [k \in 0 .. 0 |-> IF k = 0 THEN heap ELSE More(f[k - 1])]
        OBVIOUS
      <3> QED
        BY <2>1, <2>2, <3>1, <1>1
    <2>3. CASE m # 0
      <3>1. m \in Nat /\ m - 1 \in Nat /\ m - 1 \notin T
        BY <2>1, <2>3
      <3>2. PICK g : g = [k \in 0 .. m - 1 |-> IF k = 0 THEN heap ELSE More(g[k - 1])]
        BY <3>1, <1>1
      <3> DEFINE f == [k \in 0 .. m |-> IF k = m THEN More(g[m - 1]) ELSE g[k]]
      <3>3. ASSUME NEW k \in 0 .. m
            PROVE  f[k] = IF k = 0 THEN heap ELSE More(f[k - 1])
        <4>1. CASE k = m
          <5>1. f[k] = More(g[m - 1]) /\ f[k - 1] = g[m - 1]
            BY <3>1, <4>1
          <5> QED
            BY <5>1, <4>1, <2>3
        <4>2. CASE k # m
          <5>1. k \in 0 .. m - 1 /\ f[k] = g[k]
            BY <3>1, <4>2
          <5>2. g[k] = IF k = 0 THEN heap ELSE More(g[k - 1])
            BY <3>2, <5>1
          <5>3. k # 0 => f[k - 1] = g[k - 1]
            BY <3>1, <5>1
          <5> QED
            BY <5>1, <5>2, <5>3
        <4> QED
          BY <4>1, <4>2
      <3>4. f = [k \in 0 .. m |-> f[k]]
        OBVIOUS
      <3> HIDE DEF f
      <3>5. f = [k \in 0 .. m |-> IF k = 0 THEN heap ELSE More(f[k - 1])]
        BY <3>3, <3>4
      <3> QED
        BY <3>5, <2>1, <1>1
    <2> QED
      BY <2>2, <2>3
  <1> QED
    BY <1>2

(* What the loop has after k rounds: a heap of which the nodes that are gone  *)
(* were due, and fewer of them with every round that is not the last.        *)
Popped(k, g) ==
    /\ HeapOf(g, Conns) /\ g.key = heap.key
    /\ \A d \in Conns : g.idx[d] # -1 => heap.idx[d] # -1
    /\ \A d \in Conns : heap.idx[d] # -1 /\ g.idx[d] = -1 => clock - idle > heap.key[d]
    /\ Expired(g) => g.n <= heap.n - k

(* A round keeps that.                                                      *)
LEMMA PopRound ==
    ASSUME HeapOf(heap, Conns), clock \in Int, idle \in Int, NEW k \in Nat, NEW g, Popped(k, g)
    PROVE  Popped(k + 1, IF Expired(g) THEN minheap_pop(g) ELSE g)
  <1>1. /\ HeapOf(g, Conns) /\ g.key = heap.key
        /\ \A d \in Conns : g.idx[d] # -1 => heap.idx[d] # -1
        /\ \A d \in Conns : heap.idx[d] # -1 /\ g.idx[d] = -1 => clock - idle > heap.key[d]
        /\ Expired(g) => g.n <= heap.n - k
    BY DEF Popped
  <1>2. CASE ~Expired(g)
    <2>1. Popped(k + 1, g)
      BY <1>1, <1>2 DEF Popped
    <2> QED
      BY <2>1, <1>2
  <1>3. CASE Expired(g)
    <2> DEFINE q == minheap_pop(g)
    <2>1. g.n > 0 /\ clock - idle > g.key[g.p[0]]
      BY <1>3 DEF Expired
    <2>2. /\ HeapOf(q, Conns) /\ q.key = g.key /\ q.n = g.n - 1
          /\ g.p[0] \in Conns /\ g.idx[g.p[0]] = 0
          /\ \A d \in Conns : q.idx[d] # -1 <=> d # g.p[0] /\ g.idx[d] # -1
      BY <1>1, <2>1, PopRight
    <2> HIDE DEF q
    <2>3. g.n \in Nat /\ heap.n \in Nat
      BY <1>1 DEF HeapOf
    <2>4. q.n <= heap.n - (k + 1)
      BY <1>1, <1>3, <2>2, <2>3
    <2>5. \A d \in Conns : heap.idx[d] # -1 /\ q.idx[d] = -1 => clock - idle > heap.key[d]
      BY <1>1, <2>1, <2>2
    <2>6. Popped(k + 1, q)
      BY <1>1, <2>2, <2>4, <2>5 DEF Popped
    <2> QED
      BY <1>3, <2>6 DEF q
  <1> QED
    BY <1>2, <1>3

(* When the loop ends the heap has lost exactly the nodes that were due: as   *)
(* many rounds as there are connections are enough for it to end.            *)
LEMMA PopsRight ==
    ASSUME HeapOf(heap, Conns), clock \in Int, idle \in Int
    PROVE  /\ HeapOf(AfterPops, Conns) /\ AfterPops.key = heap.key
           /\ \A d \in Conns : AfterPops.idx[d] # -1 <=>
                heap.idx[d] # -1 /\ ~(clock - idle > heap.key[d])
  <1> DEFINE C == Cardinality(Conns)
             f == CHOOSE g : IsPops(g, C)
             T == {k \in 0 .. C : ~Popped(k, f[k])}
             g == f[C]
  <1>1. C \in Nat /\ heap.n \in 0 .. C
    BY HeapFits, UvAssumption
  <1>2. IsPops(f, C)
    BY <1>1, PopsExist
  <1>3. AfterPops = g
    BY DEF AfterPops, IsPops
  <1> HIDE DEF f, C
  <1>4. \A k \in 0 .. C : f[k] = IF k = 0 THEN heap
                                 ELSE IF Expired(f[k - 1]) THEN minheap_pop(f[k - 1]) ELSE f[k - 1]
    BY <1>2 DEF IsPops
  <1>5. ASSUME T # {} PROVE FALSE
    <2>1. T \subseteq Nat
      BY <1>1
    <2>2. PICK k \in T : \A y \in T : k <= y
      BY <1>5, <2>1, LeastOf
    <2>3. k \in 0 .. C /\ ~Popped(k, f[k])
      BY <2>2
    <2>4. CASE k = 0
      <3>1. f[k] = heap
        BY <1>4, <2>3, <2>4
      <3>2. Popped(0, heap)
        BY <1>1 DEF Popped
      <3> QED
        BY <2>3, <2>4, <3>1, <3>2
    <2>5. CASE k # 0
      <3> DEFINE x == f[k - 1]
      <3>1. k - 1 \in Nat /\ k - 1 \in 0 .. C /\ k - 1 < k /\ k - 1 + 1 = k
        BY <1>1, <2>3, <2>5
      <3>2. Popped(k - 1, x)
        BY <2>2, <3>1
      <3>3. f[k] = IF Expired(x) THEN minheap_pop(x) ELSE x
        BY <1>4, <2>3, <2>5
      <3> HIDE DEF x
      <3>4. Popped(k - 1 + 1, IF Expired(x) THEN minheap_pop(x) ELSE x)
        BY <3>1, <3>2, PopRound
      <3> QED
        BY <2>3, <3>1, <3>3, <3>4
    <2> QED
      BY <2>4, <2>5
  <1>6. Popped(C, g)
    BY <1>1, <1>5
  <1> HIDE DEF g
  <1>7. /\ HeapOf(g, Conns) /\ g.key = heap.key
        /\ \A d \in Conns : g.idx[d] # -1 => heap.idx[d] # -1
        /\ \A d \in Conns : heap.idx[d] # -1 /\ g.idx[d] = -1 => clock - idle > heap.key[d]
        /\ Expired(g) => g.n <= heap.n - C
    BY <1>6 DEF Popped
  <1>8. ~Expired(g)
    <2>1. g.n \in Nat
      BY <1>7 DEF HeapOf
    <2>2. Expired(g) => g.n > 0
      BY DEF Expired
    <2> QED
      BY <1>1, <1>7, <2>1, <2>2
  <1>9. ASSUME NEW d \in Conns, g.idx[d] # -1
        PROVE  ~(clock - idle > heap.key[d])
    <2>1. g.n > 0 /\ g.key[g.p[0]] <= g.key[d]
      BY <1>7, <1>9, FirstIsLeast
    <2>2. ~(clock - idle > g.key[g.p[0]])
      BY <1>8, <2>1 DEF Expired
    <2>3. g.key[g.p[0]] \in Int /\ g.key[d] \in Int
      <3>1. g.n \in Nat /\ g.p \in [0 .. g.n - 1 -> Conns] /\ g.key \in [Conns -> Int]
        BY <1>7 DEF HeapOf, Shape
      <3> QED
        BY <3>1, <2>1
    <2> QED
      BY <2>1, <2>2, <2>3, <1>7
  <1> QED
    BY <1>3, <1>7, <1>9

-----------------------------------------------------------------------------
(* The server.                                                              *)

(* A node with a new key is pushed, as onconnection does.                   *)
Pushed(h, e, t) == minheap_push([h EXCEPT !.key[e] = t], e)

(* What that leaves.                                                        *)
LEMMA PushedRight ==
    ASSUME NEW h, NEW D, NEW e \in D, NEW t \in Int, HeapOf(h, D), h.idx[e] = -1,
           NEW g, g = Pushed(h, e, t)
    PROVE  Renewed(h, g, D, e, t)
  <1> DEFINE k == [h EXCEPT !.key[e] = t]
  <1>1. HeapOf(k, D)
    BY KeySetHeap
  <1>2. /\ Shape(k, D) /\ k.n = h.n /\ k.p = h.p /\ k.idx = h.idx /\ k.key = [h.key EXCEPT ![e] = t]
        /\ \A d \in D : k.key[d] = IF d = e THEN t ELSE h.key[d]
    <2>1. Shape(h, D)
      BY DEF HeapOf
    <2> QED
      BY <2>1, KeySet
  <1>3. g = minheap_push(k, e)
    BY DEF Pushed
  <1> HIDE DEF k
  <1>4. k.idx[e] = -1
    BY <1>2
  <1> DEFINE m == minheap_push(k, e)
  <1>5. HeapOf(m, D) /\ m.key = k.key /\ \A d \in D : m.idx[d] # -1 <=> d = e \/ k.idx[d] # -1
    BY <1>1, <1>4, PushRight
  <1> HIDE DEF m
  <1>6. g = m
    BY <1>3 DEF m
  <1> QED
    BY <1>2, <1>5, <1>6 DEF Renewed

(* The types, with the heap among them.                                     *)
Types ==
    /\ st \in [Conns -> {"none", "open", "shutting", "closing", "closed"}]
    /\ reading \in [Conns -> BOOLEAN] /\ writes \in [Conns -> 0 .. MaxWrites]
    /\ HeapOf(heap, Conns) /\ heap.key \in [Conns -> 0 .. MaxTime]
    /\ idle \in Nat /\ timer \in BOOLEAN /\ clock \in 0 .. MaxTime
    /\ last \in [Conns -> 0 .. MaxTime] /\ closes \in [Conns -> Nat]

(* The connections that have a node in the heap.                            *)
Places ==
    \A c \in Conns : /\ heap.idx[c] # -1 => st[c] \notin {"none", "closed"}
                     /\ st[c] = "open" => heap.idx[c] # -1

(* libuv reads from connections that are not yet being closed: it is what     *)
(* lets data put a node back that the timer had taken out.                   *)
Readers == \A c \in Conns : reading[c] => st[c] \in {"open", "shutting"}

(* The invariant: every step of the server keeps it.                       *)
UvInv == Types /\ Places /\ Readers /\ ClosedOnce

(* The times that the heap has are those of the last data.                  *)
Times == idle > 0 /\ \A c \in Conns : heap.idx[c] # -1 => heap.key[c] = last[c]

(* A heap as it is after minheap_init.                                      *)
LEMMA EmptyHeap == HeapOf(minheap_init(Conns), Conns)
  <1> DEFINE h == minheap_init(Conns)
  <1>1. /\ h = [p |-> [i \in {} |-> 0], n |-> 0,
                idx |-> [e \in Conns |-> -1], key |-> [e \in Conns |-> 0]]
    BY DEF minheap_init
  <1> HIDE DEF h
  <1>2. /\ h.p = [i \in {} |-> 0] /\ h.n = 0 /\ h.idx = [e \in Conns |-> -1]
        /\ h.key = [e \in Conns |-> 0]
        /\ h = [p |-> h.p, n |-> h.n, idx |-> h.idx, key |-> h.key]
    BY <1>1
  <1>3. Shape(h, Conns)
    BY <1>2 DEF Shape
  <1>4. 0 .. 0 - 1 = {}
    OBVIOUS
  <1>5. h.p \in [0 .. h.n - 1 -> Conns]
    <2>1. [i \in {} |-> 0] \in [{} -> Conns]
      OBVIOUS
    <2> QED
      BY <1>2, <1>4, <2>1
  <1>6. Ordered(h) /\ \A k \in 0 .. h.n - 1 : h.idx[h.p[k]] = k
    BY <1>2 DEF Ordered
  <1>7. h.n \in Nat /\ \A d \in Conns : h.idx[d] = -1
    BY <1>2
  <1>8. HeapOf(h, Conns)
    BY ONLY <1>3, <1>5, <1>6, <1>7, HeapFields
  <1> QED
    BY <1>8 DEF h

(* The server starts so.                                                    *)
LEMMA UvInit == ASSUME Init PROVE UvInv
  <1>1. HeapOf(heap, Conns) /\ heap.idx = [e \in Conns |-> -1] /\ heap.key = [e \in Conns |-> 0]
    <2>1. heap = minheap_init(Conns)
      BY DEF Init
    <2>2. HeapOf(heap, Conns)
      BY ONLY <2>1, EmptyHeap
    <2> QED
      BY <2>1, <2>2 DEF minheap_init
  <1>2. Types
    BY <1>1, UvAssumption DEF Types, Init
  <1>3. Places
    BY <1>1 DEF Places, Init
  <1>4. Readers /\ ClosedOnce
    BY DEF Readers, ClosedOnce, Init
  <1> QED
    BY <1>2, <1>3, <1>4 DEF UvInv

(* What uv_shutdown does to the states.                                     *)
LEMMA ShutStates ==
    ASSUME Types, NEW S, st' = UvShutdown(S)
    PROVE  /\ st' \in [Conns -> {"none", "open", "shutting", "closing", "closed"}]
           /\ \A c \in Conns : st'[c] = IF c \in S /\ st[c] = "open" THEN "shutting" ELSE st[c]
  BY DEF Types, UvShutdown

(* What echo does to the writes.                                            *)
LEMMA EchoWrites ==
    ASSUME Types, NEW c \in Conns, NEW h, Echo(c, h) \/ UNCHANGED writes
    PROVE  writes' \in [Conns -> 0 .. MaxWrites]
  <1>1. writes \in [Conns -> 0 .. MaxWrites] /\ MaxWrites \in Nat
    BY UvAssumption DEF Types
  <1>2. CASE writes' = writes
    BY <1>1, <1>2
  <1>3. CASE writes' # writes
    <2>1. PICK k \in {0, 1} : writes[c] < MaxWrites /\ writes' = [writes EXCEPT ![c] = @ + k]
      BY <1>3 DEF Echo
    <2>2. writes[c] + k \in 0 .. MaxWrites
      BY <1>1, <2>1
    <2> QED
      BY <1>1, <2>1, <2>2
  <1> QED
    BY <1>2, <1>3

(* A connection is accepted.                                                *)
LEMMA ConnectionStep ==
    ASSUME UvInv, NEW c \in Conns, OnConnection(c)
    PROVE  UvInv' /\ (Times => Times')
  <1> USE DEF UvInv
  <1>1. /\ st[c] = "none" /\ heap.idx[c] = -1 /\ clock \in Int /\ closes[c] = 0
        /\ HeapOf(heap, Conns) /\ heap.key \in [Conns -> 0 .. MaxTime]
    BY UvAssumption DEF OnConnection, Types, Places, ClosedOnce
  <1>2. UNCHANGED <<writes, idle, timer, clock>>
    BY DEF OnConnection
  <1>3. CASE /\ st' = [st EXCEPT ![c] = "open"] /\ reading' = [reading EXCEPT ![c] = TRUE]
             /\ heap' = minheap_push(Touched(c), c)
             /\ last' = [last EXCEPT ![c] = clock]
             /\ UNCHANGED closes
    <2>1. heap' = Pushed(heap, c, clock)
      BY <1>3 DEF Touched, Pushed
    <2>2. /\ HeapOf(heap', Conns)
          /\ \A d \in Conns : heap'.key[d] = IF d = c THEN clock ELSE heap.key[d]
          /\ \A d \in Conns : heap'.idx[d] # -1 <=> d = c \/ heap.idx[d] # -1
      <3>1. Renewed(heap, heap', Conns, c, clock)
        BY ONLY <1>1, <2>1, PushedRight
      <3> QED
        BY <3>1 DEF Renewed
    <2>3. heap'.key \in [Conns -> 0 .. MaxTime]
      <3>1. heap'.key \in [Conns -> Int]
        BY <2>2 DEF HeapOf, Shape
      <3>2. \A d \in Conns : heap'.key[d] \in 0 .. MaxTime
        BY <2>2, <1>1 DEF Types
      <3> QED
        BY <3>1, <3>2
    <2>4. Types'
      BY <1>2, <1>3, <2>2, <2>3 DEF Types
    <2>5. Places'
      BY <1>3, <2>2 DEF Types, Places
    <2>6. Readers' /\ ClosedOnce'
      BY <1>1, <1>3 DEF Types, Readers, ClosedOnce
    <2>7. Times => Times'
      BY <1>2, <1>3, <2>2 DEF Types, Times
    <2> QED
      BY <2>4, <2>5, <2>6, <2>7
  <1>4. CASE UvClose(c) /\ UNCHANGED <<heap, last>>
    <2>1. Types'
      BY <1>2, <1>4 DEF Types, UvClose
    <2>2. Places' /\ Readers'
      BY <1>1, <1>4 DEF Types, Places, Readers, UvClose
    <2>3. ClosedOnce'
      BY <1>1, <1>4 DEF Types, ClosedOnce, UvClose
    <2>4. Times => Times'
      BY <1>2, <1>4 DEF Times
    <2> QED
      BY <2>1, <2>2, <2>3, <2>4
  <1> QED
    BY <1>3, <1>4 DEF OnConnection

(* Data arrives.                                                            *)
LEMMA DataStep ==
    ASSUME UvInv, NEW c \in Conns, OnData(c)
    PROVE  UvInv' /\ (Times => Times')
  <1> USE DEF UvInv
  <1>1. /\ st[c] \in {"open", "shutting"} /\ clock \in Int
        /\ HeapOf(heap, Conns) /\ heap.key \in [Conns -> 0 .. MaxTime]
    BY UvAssumption DEF OnData, Types, Readers
  <1>2. UNCHANGED <<st, reading, closes, idle, timer, clock>> /\ last' = [last EXCEPT ![c] = clock]
    BY DEF OnData
  <1>3. writes' \in [Conns -> 0 .. MaxWrites]
    BY EchoWrites DEF OnData
  <1>4. CASE idle > 0
    <2>1. heap' = Adjusted(heap, c, clock)
      BY <1>4 DEF OnData, Touched, Adjusted
    <2>2. /\ HeapOf(heap', Conns)
          /\ \A d \in Conns : heap'.key[d] = IF d = c THEN clock ELSE heap.key[d]
          /\ \A d \in Conns : heap'.idx[d] # -1 <=> d = c \/ heap.idx[d] # -1
      <3>1. Renewed(heap, heap', Conns, c, clock)
        BY ONLY <1>1, <2>1, AdjustRight
      <3> QED
        BY <3>1 DEF Renewed
    <2>3. heap'.key \in [Conns -> 0 .. MaxTime]
      <3>1. heap'.key \in [Conns -> Int]
        BY <2>2 DEF HeapOf, Shape
      <3>2. \A d \in Conns : heap'.key[d] \in 0 .. MaxTime
        BY <2>2, <1>1 DEF Types
      <3> QED
        BY <3>1, <3>2
    <2>4. Types'
      BY <1>2, <1>3, <2>2, <2>3 DEF Types
    <2>5. Places'
      BY <1>1, <1>2, <2>2 DEF Types, Places
    <2>6. Readers' /\ ClosedOnce'
      BY <1>2 DEF Readers, ClosedOnce
    <2>7. Times => Times'
      BY <1>2, <2>2 DEF Types, Times
    <2> QED
      BY <2>4, <2>5, <2>6, <2>7
  <1>5. CASE ~(idle > 0)
    <2>1. heap' = heap
      BY <1>5 DEF OnData
    <2>2. Types'
      BY <1>2, <1>3, <2>1 DEF Types
    <2>3. Places' /\ Readers' /\ ClosedOnce'
      BY <1>2, <2>1 DEF Places, Readers, ClosedOnce
    <2>4. ~Times
      BY <1>5 DEF Times
    <2> QED
      BY <2>2, <2>3, <2>4
  <1> QED
    BY <1>4, <1>5

(* The data ends, or a read brings nothing.                                 *)
LEMMA EndStep ==
    ASSUME UvInv, NEW c \in Conns, OnEnd(c) \/ OnEmptyRead(c)
    PROVE  UvInv' /\ (Times => Times')
  <1> USE DEF UvInv
  <1>1. /\ st' = UvShutdown({c}) /\ UNCHANGED <<writes, closes, heap, idle, timer, clock, last>>
        /\ reading' \in [Conns -> BOOLEAN] /\ \A d \in Conns : reading'[d] => reading[d]
    BY DEF OnEnd, OnEmptyRead, Types
  <1>2. /\ st' \in [Conns -> {"none", "open", "shutting", "closing", "closed"}]
        /\ \A d \in Conns : st'[d] = IF d \in {c} /\ st[d] = "open" THEN "shutting" ELSE st[d]
    BY <1>1, ShutStates
  <1>3. Types'
    BY <1>1, <1>2 DEF Types
  <1>4. Places'
    BY <1>1, <1>2 DEF Places
  <1>5. Readers'
    BY <1>1, <1>2 DEF Readers
  <1>6. ClosedOnce'
    BY <1>1, <1>2 DEF ClosedOnce
  <1>7. Times => Times'
    BY <1>1 DEF Times
  <1> QED
    BY <1>3, <1>4, <1>5, <1>6, <1>7

(* Lua code answers later.                                                  *)
LEMMA EchoStep ==
    ASSUME UvInv, NEW c \in Conns, EchoLater(c)
    PROVE  UvInv' /\ (Times => Times')
  <1> USE DEF UvInv
  <1>1. UNCHANGED <<st, reading, closes, heap, idle, timer, clock, last>>
    BY DEF EchoLater
  <1>2. writes' \in [Conns -> 0 .. MaxWrites]
    BY EchoWrites DEF EchoLater
  <1>3. Types'
    BY <1>1, <1>2 DEF Types
  <1>4. Places' /\ Readers' /\ ClosedOnce' /\ (Times => Times')
    BY <1>1 DEF Places, Readers, ClosedOnce, Times
  <1> QED
    BY <1>3, <1>4

(* The socket takes writes.                                                 *)
LEMMA WritableStep ==
    ASSUME UvInv, NEW c \in Conns, OnWritable(c)
    PROVE  UvInv' /\ (Times => Times')
  <1> USE DEF UvInv
  <1>1. UNCHANGED <<heap, idle, timer, clock, last>> /\ writes' = UvWrite(c)
    BY DEF OnWritable
  <1>2. writes' \in [Conns -> 0 .. MaxWrites]
    <2>1. writes \in [Conns -> 0 .. MaxWrites] /\ MaxWrites \in Nat
      BY UvAssumption DEF Types
    <2>2. (IF writes[c] = 0 THEN 0 ELSE writes[c] - 1) \in 0 .. MaxWrites
      BY <2>1
    <2> QED
      BY <1>1, <2>1, <2>2 DEF UvWrite
  <1>3. CASE writes'[c] = 0 /\ st[c] = "shutting"
    <2>1. UvClose(c) /\ closes[c] = 0
      BY <1>3 DEF OnWritable, ClosedOnce
    <2>2. Types'
      BY <1>1, <1>2, <2>1 DEF Types, UvClose
    <2>3. Places' /\ Readers'
      BY <1>1, <2>1 DEF Types, Places, Readers, UvClose
    <2>4. ClosedOnce'
      BY <1>1, <2>1 DEF Types, ClosedOnce, UvClose
    <2>5. Times => Times'
      BY <1>1 DEF Times
    <2> QED
      BY <2>2, <2>3, <2>4, <2>5
  <1>4. CASE ~(writes'[c] = 0 /\ st[c] = "shutting")
    <2>1. UNCHANGED <<st, closes, reading>>
      BY <1>4 DEF OnWritable
    <2>2. Types'
      BY <1>1, <1>2, <2>1 DEF Types
    <2>3. Places' /\ Readers' /\ ClosedOnce' /\ (Times => Times')
      BY <1>1, <2>1 DEF Places, Readers, ClosedOnce, Times
    <2> QED
      BY <2>2, <2>3
  <1> QED
    BY <1>3, <1>4

(* A handle has been closed.                                                *)
LEMMA CloseStep ==
    ASSUME UvInv, NEW c \in Conns, OnConnClose(c)
    PROVE  UvInv' /\ (Times => Times')
  <1> USE DEF UvInv
  <1>1. /\ st[c] = "closing" /\ st' = [st EXCEPT ![c] = "closed"] /\ heap' = minheap_erase(heap, c)
        /\ writes' = [writes EXCEPT ![c] = 0]
        /\ UNCHANGED <<reading, closes, idle, timer, clock, last>>
    BY DEF OnConnClose
  <1>2. HeapOf(heap, Conns) /\ heap.key \in [Conns -> 0 .. MaxTime]
    BY DEF Types
  <1> DEFINE g == minheap_erase(heap, c)
  <1>3. /\ HeapOf(g, Conns) /\ g.key = heap.key
        /\ \A d \in Conns : g.idx[d] # -1 <=> d # c /\ heap.idx[d] # -1
    <2>1. HeapOf(heap, Conns) /\ c \in Conns
      BY <1>2
    <2>2. Without(heap, g, Conns, c)
      BY ONLY <2>1, EraseRight
    <2> QED
      BY <2>2 DEF Without
  <1> HIDE DEF g
  <1>4. heap' = g
    BY <1>1 DEF g
  <1>5. Types'
    BY <1>1, <1>2, <1>3, <1>4, UvAssumption DEF Types
  <1>6. Places' /\ Readers' /\ ClosedOnce'
    BY <1>1, <1>3, <1>4 DEF Types, Places, Readers, ClosedOnce
  <1>7. Times => Times'
    BY <1>1, <1>3, <1>4 DEF Times
  <1> QED
    BY <1>5, <1>6, <1>7

(* The timer: who leaves the heap, and who is shut down.                    *)
LEMMA TimerDoes ==
    ASSUME UvInv, OnTimer
    PROVE  /\ UNCHANGED <<reading, writes, closes, idle, timer, clock, last>>
           /\ HeapOf(heap', Conns) /\ heap'.key = heap.key
           /\ \A c \in Conns : heap'.idx[c] # -1 <=> heap.idx[c] # -1 /\ ~(clock - idle > heap.key[c])
           /\ st' \in [Conns -> {"none", "open", "shutting", "closing", "closed"}]
           /\ \A c \in Conns : st'[c] = IF heap.idx[c] # -1 /\ heap'.idx[c] = -1 /\ st[c] = "open"
                                        THEN "shutting" ELSE st[c]
  <1> DEFINE S == {c \in Conns : minheap_elm_inheap(heap, c) /\ ~minheap_elm_inheap(heap', c)}
  <1>1. /\ heap' = AfterPops /\ st' = UvShutdown(S)
        /\ UNCHANGED <<reading, writes, closes, idle, timer, clock, last>>
    BY DEF OnTimer
  <1>2. HeapOf(heap, Conns) /\ clock \in Int /\ idle \in Int
    BY UvAssumption DEF UvInv, Types
  <1>3. /\ HeapOf(AfterPops, Conns) /\ AfterPops.key = heap.key
        /\ \A c \in Conns : AfterPops.idx[c] # -1 <=> heap.idx[c] # -1 /\ ~(clock - idle > heap.key[c])
    BY ONLY <1>2, PopsRight
  <1>4. \A c \in Conns : c \in S <=> heap.idx[c] # -1 /\ heap'.idx[c] = -1
    BY DEF minheap_elm_inheap
  <1> HIDE DEF S
  <1>5. /\ st' \in [Conns -> {"none", "open", "shutting", "closing", "closed"}]
        /\ \A c \in Conns : st'[c] = IF c \in S /\ st[c] = "open" THEN "shutting" ELSE st[c]
    BY <1>1, ShutStates DEF UvInv
  <1> QED
    BY ONLY <1>1, <1>3, <1>4, <1>5

(* The timer keeps the invariant.                                           *)
LEMMA TimerStep ==
    ASSUME UvInv, OnTimer
    PROVE  UvInv' /\ (Times => Times')
  <1> USE DEF UvInv
  <1>1. /\ UNCHANGED <<reading, writes, closes, idle, timer, clock, last>>
        /\ HeapOf(heap', Conns) /\ heap'.key = heap.key
        /\ \A c \in Conns : heap'.idx[c] # -1 <=> heap.idx[c] # -1 /\ ~(clock - idle > heap.key[c])
        /\ st' \in [Conns -> {"none", "open", "shutting", "closing", "closed"}]
        /\ \A c \in Conns : st'[c] = IF heap.idx[c] # -1 /\ heap'.idx[c] = -1 /\ st[c] = "open"
                                     THEN "shutting" ELSE st[c]
    BY TimerDoes
  <1>2. Types'
    BY <1>1 DEF Types
  <1>3. Places'
    BY <1>1 DEF Places
  <1>4. Readers' /\ ClosedOnce'
    BY <1>1 DEF Readers, ClosedOnce
  <1>5. Times => Times'
    BY <1>1 DEF Times
  <1> QED
    BY <1>2, <1>3, <1>4, <1>5

(* Every step keeps the invariant, and the times.                           *)
LEMMA UvNext ==
    ASSUME UvInv, [Next]_vars
    PROVE  UvInv' /\ (Times => Times')
  <1>1. ASSUME NEW n \in Timeouts, SetTimeout(n) PROVE UvInv' /\ (Times => Times')
    <2>1. n \in Int
      BY UvAssumption
    <2>2. /\ idle' \in Nat /\ timer' \in BOOLEAN /\ (idle > 0 => idle' > 0)
          /\ UNCHANGED <<st, reading, writes, closes, heap, clock, last>>
      <3>1. idle \in Nat /\ timer \in BOOLEAN
        BY DEF UvInv, Types
      <3>2. idle' \in Nat /\ (idle > 0 => idle' > 0)
        BY <1>1, <2>1, <3>1 DEF SetTimeout
      <3>3. timer' \in BOOLEAN
        BY <1>1, <3>1, Zenon DEF SetTimeout
      <3>4. UNCHANGED <<st, reading, writes, closes, heap, clock, last>>
        BY <1>1 DEF SetTimeout, conn
      <3> QED
        BY <3>2, <3>3, <3>4
    <2>3. Types'
      BY <2>2 DEF UvInv, Types
    <2>4. Places' /\ Readers' /\ ClosedOnce' /\ (Times => Times')
      BY <2>2 DEF UvInv, Places, Readers, ClosedOnce, Times
    <2> QED
      BY <2>3, <2>4 DEF UvInv
  <1>2. ASSUME Tick PROVE UvInv' /\ (Times => Times')
    <2>1. clock' \in 0 .. MaxTime /\ UNCHANGED <<st, reading, writes, closes, heap, idle, timer, last>>
      BY <1>2, UvAssumption DEF Tick, conn, UvInv, Types
    <2>2. Types'
      BY <2>1 DEF UvInv, Types
    <2>3. Places' /\ Readers' /\ ClosedOnce' /\ (Times => Times')
      BY <2>1 DEF UvInv, Places, Readers, ClosedOnce, Times
    <2> QED
      BY <2>2, <2>3 DEF UvInv
  <1>3. ASSUME UNCHANGED vars PROVE UvInv' /\ (Times => Times')
    <2>1. Types' /\ Places'
      BY <1>3 DEF UvInv, Types, Places, vars, conn
    <2>2. Readers' /\ ClosedOnce' /\ (Times => Times')
      BY <1>3 DEF UvInv, Readers, ClosedOnce, Times, vars, conn
    <2> QED
      BY <2>1, <2>2 DEF UvInv
  <1> QED
    BY <1>1, <1>2, <1>3, ConnectionStep, DataStep, EndStep, EchoStep, WritableStep, CloseStep,
       TimerStep DEF Next

-----------------------------------------------------------------------------
(* What is proved about the server.                                         *)

(* The invariant that the theorems below rest on.                           *)
THEOREM UvInductive == Spec => []UvInv
  <1>1. Init => UvInv
    BY UvInit
  <1>2. UvInv /\ [Next]_vars => UvInv'
    BY UvNext
  <1> QED
    BY <1>1, <1>2, PTL DEF Spec

(* The heap stays one through pushes, pops, erasures and new times, every     *)
(* node in it belongs to a connection that has not been freed, and an open    *)
(* connection has its node there (tcpserver.c, minheap.c): for any number of  *)
(* connections.                                                             *)
THEOREM NodesStayLive == Spec => []NodesAreLive
  <1>1. UvInv => NodesAreLive
    <2> SUFFICES ASSUME UvInv PROVE NodesAreLive
      OBVIOUS
    <2>1. HeapOf(heap, Conns) /\ Cardinality(Conns) \in Nat /\ heap.n \in 0 .. Cardinality(Conns)
      BY HeapFits, UvAssumption DEF UvInv, Types
    <2>2. heap.p \in [0 .. heap.n - 1 -> Conns] /\ IsHeap(heap)
      BY <2>1 DEF HeapOf
    <2>3. heap.idx \in [Conns -> -1 .. Cardinality(Conns)]
      <3>1. heap.idx \in [Conns -> Int]
        BY <2>1 DEF HeapOf, Shape
      <3>2. \A d \in Conns : heap.idx[d] # -1 => heap.idx[d] \in 0 .. heap.n - 1
        BY <2>1, HeapFields
      <3>3. \A d \in Conns : heap.idx[d] \in -1 .. Cardinality(Conns)
        BY <2>1, <3>1, <3>2
      <3> QED
        BY <3>1, <3>3
    <2>4. TypeOK
      BY <2>1, <2>2, <2>3 DEF TypeOK, UvInv, Types
    <2> QED
      BY <2>2, <2>4 DEF NodesAreLive, UvInv, Places, minheap_elm_inheap
  <1> QED
    BY <1>1, UvInductive, PTL

(* uv_close is called at most once on a connection, whichever of the timer,   *)
(* the end of the data and an empty read shuts it down (tcpserver.c): for any *)
(* number of connections.                                                   *)
THEOREM ClosesOnce == Spec => []ClosedOnce
  <1>1. UvInv => ClosedOnce
    BY DEF UvInv
  <1> QED
    BY <1>1, UvInductive, PTL

(* uv_tcpserver_ontimer shuts down exactly the open connections that were     *)
(* idle for longer than idle_timeout, when the loop starts with a timeout:   *)
(* only then are the times in the heap those of the last data.               *)
THEOREM TimerStaysExact ==
    ASSUME InitTimeout > 0
    PROVE  Spec => TimerIsExact
  <1>1. Init => Times
    <2> SUFFICES ASSUME Init PROVE Times
      OBVIOUS
    <2>1. heap.idx = [e \in Conns |-> -1]
      BY DEF Init, minheap_init
    <2> QED
      BY <2>1 DEF Init, Times
  <1>2. UvInv /\ Times /\ [Next]_vars => Times'
    BY UvNext
  <1>3. UvInv /\ Times /\ [Next]_vars =>
          [OnTimer => \A c \in Conns :
             st[c] = "open" => (st'[c] = "shutting" <=> clock - last[c] > idle)]_vars
    <2> SUFFICES ASSUME UvInv, Times, OnTimer, NEW c \in Conns, st[c] = "open"
                 PROVE  st'[c] = "shutting" <=> clock - last[c] > idle
      OBVIOUS
    <2>1. /\ heap'.idx[c] # -1 <=> heap.idx[c] # -1 /\ ~(clock - idle > heap.key[c])
          /\ st'[c] = IF heap.idx[c] # -1 /\ heap'.idx[c] = -1 /\ st[c] = "open"
                      THEN "shutting" ELSE st[c]
      BY TimerDoes
    <2>2. heap.idx[c] # -1 /\ heap.key[c] = last[c]
      BY DEF UvInv, Places, Times
    <2>3. clock \in Int /\ idle \in Int /\ last[c] \in Int
      BY UvAssumption DEF UvInv, Types
    <2>4. clock - idle > last[c] <=> clock - last[c] > idle
      BY <2>3
    <2> QED
      BY <2>1, <2>2, <2>4
  <1> QED
    BY <1>1, <1>2, <1>3, UvInductive, PTL DEF Spec, TimerIsExact

(* minheap_erase and minheap_adjust keep every heap a heap of the nodes it    *)
(* should have (minheap.c), whatever its size and its keys.                 *)
THEOREM HeapsAreKept == Spec => []HeapsStayHeaps
  <1>1. HeapOpsRight
    <2>1. \A n \in 1 .. HeapSize : n \in Nat \ {0}
      BY HeapAssumption
    <2> QED
      BY <2>1, HeapsOfRight DEF HeapOpsRight
  <1>2. HeapsStayHeaps
    BY <1>1 DEF HeapsStayHeaps
  <1>3. UvInv => HeapsStayHeaps
    BY <1>2
  <1> QED
    BY <1>3, UvInductive, PTL

=============================================================================
