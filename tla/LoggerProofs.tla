----------------------------- MODULE LoggerProofs ----------------------------
(***************************************************************************)
(* Proofs about Logger, for any threads, lines, dates and sizes: every block *)
(* is accounted for, the queue keeps the lines as they were pushed, and the  *)
(* files have the lines of their dates.                                     *)
(***************************************************************************)
EXTENDS Logger, SequenceTheorems, WellFoundedInduction, TLAPS

-----------------------------------------------------------------------------
(* The inductive invariant, from its parts.                                  *)

ThreadAt == {"idle", "get", "format", "text", "push", "print", "size", "put", "free"}
LoggerAt == {"loop", "pop", "write", "size", "put", "free", "done"}
MainAt == {"idle", "fill", "drain", "new", "del", "null", "join", "clear", "size", "put", "free", "end"}

(* Where a thread has a block, where it is the only one that has it, and     *)
(* where a caller has a line of its own.                                    *)
Holding == {"format", "text", "push", "print", "write", "size", "put", "free"}
Sole == {"format", "text", "push", "size", "put", "free"}
Logging == {"get", "format", "text", "push", "print"}

(* The variables that hold no block, thread or line.                        *)
Shapes ==
    /\ level \in BOOLEAN /\ stop \in BOOLEAN
    /\ lines \in 0 .. MaxLines /\ levels \in 0 .. MaxLevels /\ todo \in Nat
    /\ day \in Days /\ max \in StoreDays \cup {MaxStore}

(* Every thread is in its own code, holds a block where it should, and all   *)
(* of them are done once ~FileLogger is past Join.                          *)
Places ==
    /\ at \in [All -> ThreadAt \cup LoggerAt \cup MainAt]
    /\ blk \in [All -> Blocks \cup {None}]
    /\ own \in [Threads -> 0 .. MaxLines]
    /\ \A t \in Threads : at[t] \in ThreadAt /\ (at[t] \in Logging => own[t] # 0)
    /\ at[LogThread] \in LoggerAt /\ at[Main] \in MainAt
    /\ \A t \in All : blk[t] # None <=> at[t] \in Holding
    /\ Ended => at[LogThread] = "done" /\ \A t \in Threads : at[t] = "idle"

(* The holders of a block: the queue has it once, of the callers one at most *)
(* has it, and nobody but the queue or the logger's thread has it as well.   *)
Owners ==
    /\ queue \in Seq(Blocks \cup {None}) /\ IsInjective(queue)
    /\ None \in Range(queue) => at[Main] \in {"join", "clear", "size", "put", "free"}
    /\ \A t, u \in Threads : blk[t] = blk[u] /\ blk[t] # None => t = u
    /\ \A t \in All : at[t] \in Sole => LastHolder(t)
    /\ at[LogThread] = "write" => blk[LogThread] \notin Range(queue)

Accounts ==
    /\ cache \in Seq(Blocks) /\ IsInjective(cache)
    /\ mem \in [Blocks -> {None} \cup [line : Line \cup {None}, len : Nat \ {0}]]
    /\ Range(cache) \cap HeldBlocks = {}
    /\ Range(cache) \cup HeldBlocks = Allocated
    /\ \A b \in Range(cache) : mem[b].len = BlockLen

(* Block b has a line in it.                                                *)
HasLine(b) == mem[b] # None /\ mem[b].line \in Line

(* Who has a block past FormatLog has a line in it.                          *)
Texts ==
    /\ \A t \in Threads : at[t] \in {"text", "push", "print"} =>
                             HasLine(blk[t]) /\ mem[blk[t]].line.id = own[t]
    /\ \A b \in Range(queue) \ {None} : HasLine(b)
    /\ at[LogThread] = "write" => HasLine(blk[LogThread])

(* The sequence Q of blocks of memory m, of which the nullptr is no line,    *)
(* has the lines of P after the first h.                                    *)
Skip(Q, n) == n - IF \E j \in 1 .. n : Q[j] = None THEN 1 ELSE 0
Holds(Q, m, P, h) ==
    /\ Len(P) = h + Skip(Q, Len(Q))
    /\ \A i \in 1 .. Len(Q) : Q[i] # None => m[Q[i]].line = P[h + Skip(Q, i)]

Order ==
    /\ pushed \in Seq(Line) /\ handled \in 0 .. Len(pushed)
    /\ ~Ended => Holds(Queued, mem, pushed, handled)

IndInv == Shapes /\ Places /\ Owners /\ Accounts /\ Texts /\ Order

(* The lines of date d that the logger's thread has handled.                 *)
DoneOf(d) == {pushed[i] : i \in {k \in 1 .. handled : pushed[k].day = d}}

(* The files, as long as the lines come in the order of their dates: the     *)
(* history ascends to _time, the date of the last line; a file on disk is in *)
(* the history and has the lines of its date; the file of _time, when it is  *)
(* there, is the open one.                                                  *)
Files ==
    /\ handled = 0 <=> fs.time = None
    /\ handled # 0 => fs.time = pushed[handled].day
    /\ \A i, j \in 1 .. Len(fs.history) : i < j => fs.history[i] < fs.history[j]
    /\ \A d \in Range(fs.history) \cup fs.opened : fs.time # None /\ d <= fs.time
    /\ \A d \in Days : /\ fs.disk[d] # None => d \in Range(fs.history) /\ fs.disk[d] = DoneOf(d)
                       /\ d \in Range(fs.history) \cap fs.opened => fs.disk[d] # None
    /\ fs.open # None => fs.open = fs.time
    /\ fs.time # None /\ ~Ended /\ fs.disk[fs.time] # None => fs.open = fs.time

FilesInv == DatesInOrder => Files

(* What fs may be.                                                          *)
FileSystems ==
    [time : Days \cup {None}, open : Days \cup {None}, history : Seq(Days),
     opened : SUBSET Days, disk : [Days -> {None} \cup SUBSET Line]]

-----------------------------------------------------------------------------
(* Sequences without repetitions.                                            *)

(* One more element at the end.                                             *)
LEMMA Appended ==
    ASSUME NEW S, NEW L \in Seq(S), IsInjective(L), NEW x \in S, x \notin Range(L)
    PROVE  /\ Append(L, x) \in Seq(S) /\ IsInjective(Append(L, x))
           /\ Range(Append(L, x)) = Range(L) \cup {x}
  <1> DEFINE n == Len(L)
             M == Append(L, x)
  <1>1. n \in Nat /\ DOMAIN L = 1 .. n
    BY LenProperties
  <1>2. /\ M \in Seq(S) /\ Len(M) = n + 1 /\ DOMAIN M = 1 .. n + 1
        /\ M[n + 1] = x /\ \A i \in 1 .. n : M[i] = L[i]
    BY <1>1, AppendProperties, LenProperties
  <1> HIDE DEF M, n
  <1>3. ASSUME NEW i \in 1 .. n + 1, i # n + 1 PROVE i \in 1 .. n /\ M[i] = L[i] /\ M[i] # x
    <2>1. i \in 1 .. n
      BY <1>1, <1>3
    <2> QED
      BY <1>1, <1>2, <2>1 DEF Range
  <1>4. IsInjective(M)
    <2>1. ASSUME NEW i \in 1 .. n + 1, NEW j \in 1 .. n + 1, M[i] = M[j] PROVE i = j
      <3>1. CASE i = n + 1 \/ j = n + 1
        BY <1>2, <1>3, <2>1, <3>1
      <3>2. CASE i # n + 1 /\ j # n + 1
        BY <1>1, <1>3, <2>1, <3>2 DEF IsInjective
      <3> QED
        BY <3>1, <3>2
    <2> QED
      BY <1>2, <2>1 DEF IsInjective
  <1>5. Range(M) = Range(L) \cup {x}
    <2>1. ASSUME NEW y \in Range(M) PROVE y \in Range(L) \cup {x}
      <3>1. PICK i \in 1 .. n + 1 : y = M[i]
        BY <1>2 DEF Range
      <3> QED
        BY <1>1, <1>2, <1>3, <3>1 DEF Range
    <2>2. ASSUME NEW y \in Range(L) PROVE y \in Range(M)
      <3>1. PICK i \in 1 .. n : y = L[i]
        BY <1>1 DEF Range
      <3>2. i \in 1 .. n + 1 /\ M[i] = y
        BY <1>1, <1>2, <3>1
      <3> QED
        BY <1>2, <3>2 DEF Range
    <2>3. x \in Range(M)
      <3>1. n + 1 \in 1 .. n + 1
        BY <1>1
      <3> QED
        BY <1>2, <3>1 DEF Range
    <2> QED
      BY <2>1, <2>2, <2>3
  <1> QED
    BY <1>2, <1>4, <1>5 DEF M

(* The first element is gone.                                               *)
LEMMA Tailed ==
    ASSUME NEW S, NEW L \in Seq(S), IsInjective(L), L # <<>>
    PROVE  /\ Tail(L) \in Seq(S) /\ IsInjective(Tail(L))
           /\ Head(L) \in S /\ Head(L) \in Range(L)
           /\ Range(Tail(L)) = Range(L) \ {Head(L)}
  <1> DEFINE n == Len(L)
             M == Tail(L)
  <1>1. n \in Nat /\ n # 0 /\ DOMAIN L = 1 .. n /\ Head(L) = L[1]
    BY LenProperties
  <1>2. /\ M \in Seq(S) /\ Len(M) = n - 1 /\ DOMAIN M = 1 .. n - 1 /\ Head(L) \in S
        /\ \A i \in 1 .. n - 1 : M[i] = L[i + 1]
    BY HeadTailProperties, LenProperties
  <1> HIDE DEF M, n
  <1>3. Head(L) \in Range(L)
    <2>1. 1 \in 1 .. n
      BY <1>1
    <2> QED
      BY <1>1, <2>1 DEF Range
  <1>4. ASSUME NEW i \in 1 .. n - 1
        PROVE  i + 1 \in 1 .. n /\ i + 1 # 1 /\ M[i] = L[i + 1] /\ M[i] \in Range(L)
    <2>1. i + 1 \in 1 .. n /\ i + 1 # 1 /\ 1 \in 1 .. n
      BY <1>1
    <2> QED
      BY <1>1, <1>2, <2>1 DEF Range
  <1>5. IsInjective(M)
    <2>1. ASSUME NEW i \in 1 .. n - 1, NEW j \in 1 .. n - 1, M[i] = M[j] PROVE i = j
      <3>1. L[i + 1] = L[j + 1] /\ i + 1 \in 1 .. n /\ j + 1 \in 1 .. n
        BY <1>4, <2>1
      <3>2. i + 1 = j + 1
        BY <1>1, <3>1 DEF IsInjective
      <3> QED
        BY <1>1, <3>2
    <2> QED
      BY <1>2, <2>1 DEF IsInjective
  <1>6. Range(M) = Range(L) \ {Head(L)}
    <2>1. ASSUME NEW y \in Range(M) PROVE y \in Range(L) \ {Head(L)}
      <3>1. PICK i \in 1 .. n - 1 : y = M[i]
        BY <1>2 DEF Range
      <3>2. 1 \in 1 .. n
        BY <1>1
      <3> QED
        BY <1>1, <1>4, <3>1, <3>2 DEF IsInjective
    <2>2. ASSUME NEW y \in Range(L), y # Head(L) PROVE y \in Range(M)
      <3>1. PICK i \in 1 .. n : y = L[i]
        BY <1>1 DEF Range
      <3>2. i - 1 \in 1 .. n - 1 /\ (i - 1) + 1 = i
        BY <1>1, <2>2, <3>1
      <3>3. M[i - 1] = y
        BY <1>4, <3>1, <3>2
      <3> QED
        BY <1>2, <3>2, <3>3 DEF Range
    <2> QED
      BY <2>1, <2>2
  <1> QED
    BY <1>2, <1>3, <1>5, <1>6 DEF M

-----------------------------------------------------------------------------
(* The blocks still to be written.                                           *)

(* The block in hand comes before the queue.                                 *)
LEMMA QueuedIs ==
    ASSUME NEW q \in Seq(Blocks \cup {None}), NEW b \in Blocks
    PROVE  /\ <<>> \o q = q
           /\ <<b>> \o q \in Seq(Blocks \cup {None})
           /\ Len(<<b>> \o q) = Len(q) + 1 /\ (<<b>> \o q)[1] = b
           /\ \A i \in 1 .. Len(q) : (<<b>> \o q)[i + 1] = q[i]
  <1> DEFINE S == Blocks \cup {None}
             c == <<b>>
             M == c \o q
             n == Len(q)
  <1>1. <<>> \o q = q
    BY ConcatEmptySeq
  <1>2. c \in Seq(S) /\ Len(c) = 1 /\ c[1] = b /\ n \in Nat
    <2>1. c \in Seq(S) /\ Len(c) = 1 /\ c[1] = b
      OBVIOUS
    <2>2. n \in Nat
      BY LenProperties
    <2> QED
      BY <2>1, <2>2
  <1> HIDE DEF c, S
  <1>3. /\ M \in Seq(S) /\ Len(M) = 1 + n
        /\ \A i \in 1 .. 1 + n : M[i] = IF i <= 1 THEN c[i] ELSE q[i - 1]
    <2>1. q \in Seq(S)
      BY DEF S
    <2>2. /\ M \in Seq(S) /\ Len(M) = Len(c) + Len(q)
          /\ \A i \in 1 .. Len(c) + Len(q) : M[i] = IF i <= Len(c) THEN c[i] ELSE q[i - Len(c)]
      BY <1>2, <2>1, ConcatProperties
    <2> HIDE DEF M
    <2> QED
      BY <1>2, <2>2
  <1> HIDE DEF M, n
  <1>4. M[1] = b
    BY <1>2, <1>3
  <1>5. ASSUME NEW i \in 1 .. n PROVE M[i + 1] = q[i]
    <2>1. i + 1 \in 1 .. 1 + n /\ ~(i + 1 <= 1) /\ (i + 1) - 1 = i
      BY <1>2
    <2> QED
      BY <1>3, <2>1
  <1> QED
    BY <1>1, <1>2, <1>3, <1>4, <1>5 DEF M, n, c, S

(* How many lines there are among the first blocks.                         *)
LEMMA SkipBounds ==
    ASSUME NEW Q \in Seq(Blocks \cup {None}), NEW i \in 1 .. Len(Q)
    PROVE  /\ Skip(Q, i) \in Nat /\ Skip(Q, Len(Q)) \in Nat /\ Skip(Q, i) <= Skip(Q, Len(Q))
           /\ Q[i] # None => Skip(Q, i) >= 1
  <1> DEFINE n == Len(Q)
             early == \E j \in 1 .. i : Q[j] = None
             some == \E j \in 1 .. n : Q[j] = None
  <1>1. n \in Nat /\ i \in Nat /\ 1 <= i /\ i <= n
    BY LenProperties
  <1>2. Skip(Q, i) = i - (IF early THEN 1 ELSE 0) /\ Skip(Q, n) = n - (IF some THEN 1 ELSE 0)
    BY DEF Skip
  <1>3. early => some
    BY <1>1
  <1>4. ~early /\ some => i < n
    BY <1>1
  <1>5. early /\ Q[i] # None => i > 1
    BY <1>1
  <1> HIDE DEF n, early, some
  <1> QED
    BY <1>1, <1>2, <1>3, <1>4, <1>5 DEF n

(* A line is pushed.                                                        *)
LEMMA HoldsAppend ==
    ASSUME NEW Q \in Seq(Blocks \cup {None}), NEW P \in Seq(Line), NEW h \in Nat, NEW m,
           Holds(Q, m, P, h), NEW b \in Blocks, m[b].line \in Line
    PROVE  Holds(Append(Q, b), m, Append(P, m[b].line), h)
  <1> DEFINE n == Len(Q)
             A == Append(Q, b)
             l == m[b].line
             R == Append(P, l)
  <1>1. /\ n \in Nat /\ Len(A) = n + 1 /\ A[n + 1] = b /\ \A i \in 1 .. n : A[i] = Q[i]
    BY AppendProperties, LenProperties
  <1>2. /\ Len(P) \in Nat /\ Len(R) = Len(P) + 1 /\ R[Len(P) + 1] = l
        /\ \A i \in 1 .. Len(P) : R[i] = P[i]
    BY AppendProperties, LenProperties
  <1>3. b # None
    BY NoneAssumption
  <1> HIDE DEF A, R
  <1>4. ASSUME NEW i \in 1 .. n PROVE Skip(A, i) = Skip(Q, i)
    <2>1. \A j \in 1 .. i : A[j] = Q[j]
      BY <1>1
    <2> QED
      BY <2>1 DEF Skip
  <1>5. Skip(A, n + 1) = Skip(Q, n) + 1 /\ Skip(Q, n) \in Int
    <2>1. (\E j \in 1 .. n + 1 : A[j] = None) <=> (\E j \in 1 .. n : Q[j] = None)
      BY <1>1, <1>3
    <2> HIDE DEF n
    <2>2. CASE \E j \in 1 .. n : Q[j] = None
      BY <1>1, <2>1, <2>2 DEF Skip
    <2>3. CASE ~\E j \in 1 .. n : Q[j] = None
      BY <1>1, <2>1, <2>3 DEF Skip
    <2> QED
      BY <2>2, <2>3
  <1>6. Len(P) = h + Skip(Q, n)
    BY DEF Holds
  <1>7. Len(R) = h + Skip(A, n + 1)
    BY <1>2, <1>5, <1>6
  <1>8. ASSUME NEW i \in 1 .. n + 1, A[i] # None PROVE m[A[i]].line = R[h + Skip(A, i)]
    <2>1. CASE i = n + 1
      <3>1. h + Skip(A, i) = Len(P) + 1
        BY <1>2, <1>5, <1>6, <2>1
      <3> QED
        BY <1>1, <1>2, <2>1, <3>1
    <2>2. CASE i # n + 1
      <3>1. i \in 1 .. n
        BY <1>1, <2>2
      <3>2. A[i] = Q[i] /\ Q[i] # None /\ m[Q[i]].line = P[h + Skip(Q, i)]
        BY <1>1, <1>8, <3>1 DEF Holds
      <3>3. Skip(Q, i) \in Nat /\ Skip(Q, i) >= 1 /\ Skip(Q, i) <= Skip(Q, n)
        BY <3>1, <3>2, SkipBounds
      <3>4. h + Skip(Q, i) \in 1 .. Len(P)
        BY <1>2, <1>5, <1>6, <3>3
      <3> QED
        BY <1>2, <1>4, <3>1, <3>2, <3>4
    <2> QED
      BY <2>1, <2>2
  <1> QED
    BY <1>1, <1>7, <1>8 DEF Holds, A, R

(* Stop pushes its nullptr.                                                 *)
LEMMA HoldsNull ==
    ASSUME NEW Q \in Seq(Blocks \cup {None}), NEW P, NEW h, NEW m,
           Holds(Q, m, P, h), None \notin Range(Q)
    PROVE  Holds(Append(Q, None), m, P, h)
  <1> DEFINE n == Len(Q)
             A == Append(Q, None)
  <1>1. /\ n \in Nat /\ Len(A) = n + 1 /\ A[n + 1] = None /\ \A i \in 1 .. n : A[i] = Q[i]
    BY AppendProperties, LenProperties
  <1>2. DOMAIN Q = 1 .. n
    BY LenProperties
  <1> HIDE DEF A, n
  <1>3. ASSUME NEW i \in 1 .. n PROVE Skip(A, i) = Skip(Q, i)
    <2>1. \A j \in 1 .. i : A[j] = Q[j]
      BY <1>1
    <2> QED
      BY <2>1 DEF Skip
  <1>4. Skip(A, n + 1) = Skip(Q, n)
    <2>1. \E j \in 1 .. n + 1 : A[j] = None
      BY <1>1
    <2>2. ~\E j \in 1 .. n : Q[j] = None
      BY <1>2 DEF Range
    <2> QED
      BY <1>1, <2>1, <2>2 DEF Skip
  <1>5. ASSUME NEW i \in 1 .. n + 1, A[i] # None PROVE m[A[i]].line = P[h + Skip(A, i)]
    <2>1. i \in 1 .. n
      BY <1>1, <1>5
    <2> QED
      BY <1>1, <1>3, <1>5, <2>1 DEF Holds, n
  <1> QED
    BY <1>1, <1>4, <1>5 DEF Holds, A, n

(* The line in hand is handled.                                             *)
LEMMA HoldsNext ==
    ASSUME NEW q \in Seq(Blocks \cup {None}), NEW P \in Seq(Line), NEW h \in Nat, NEW m,
           NEW b \in Blocks, Holds(<<b>> \o q, m, P, h)
    PROVE  h + 1 <= Len(P) /\ m[b].line = P[h + 1] /\ Holds(q, m, P, h + 1)
  <1> DEFINE n == Len(q)
             M == <<b>> \o q
  <1>1. /\ n \in Nat /\ Len(M) = n + 1 /\ M[1] = b /\ \A i \in 1 .. n : M[i + 1] = q[i]
        /\ M \in Seq(Blocks \cup {None}) /\ Len(P) \in Nat
    BY QueuedIs, LenProperties
  <1>2. b # None
    BY NoneAssumption
  <1>3. Holds(M, m, P, h)
    OBVIOUS
  <1> HIDE DEF M
  <1>4. ASSUME NEW i \in 0 .. n PROVE Skip(M, i + 1) = Skip(q, i) + 1 /\ Skip(q, i) \in Int
    <2>1. ASSUME NEW j \in 1 .. i + 1, M[j] = None PROVE \E k \in 1 .. i : q[k] = None
      <3>1. j - 1 \in 1 .. i /\ j - 1 \in 1 .. n /\ (j - 1) + 1 = j
        BY <1>1, <1>2, <2>1
      <3>2. q[j - 1] = None
        BY <1>1, <2>1, <3>1
      <3> QED
        BY <3>1, <3>2
    <2>2. ASSUME NEW k \in 1 .. i, q[k] = None PROVE \E j \in 1 .. i + 1 : M[j] = None
      <3>1. k + 1 \in 1 .. i + 1 /\ k \in 1 .. n
        BY <1>1
      <3> QED
        BY <1>1, <2>2, <3>1
    <2> HIDE DEF n
    <2>3. CASE \E k \in 1 .. i : q[k] = None
      BY <1>1, <2>1, <2>2, <2>3 DEF Skip
    <2>4. CASE ~\E k \in 1 .. i : q[k] = None
      BY <1>1, <2>1, <2>2, <2>4 DEF Skip
    <2> QED
      BY <2>3, <2>4
  <1>5. Len(P) = (h + 1) + Skip(q, n)
    <2>1. Len(P) = h + Skip(M, n + 1)
      BY <1>1, <1>3 DEF Holds
    <2>2. n \in 0 .. n
      BY <1>1
    <2>3. Skip(M, n + 1) = Skip(q, n) + 1 /\ Skip(q, n) \in Int
      BY <1>4, <2>2
    <2> QED
      BY <2>1, <2>3
  <1>6. h + 1 <= Len(P) /\ m[b].line = P[h + 1]
    <2>1. 1 \in 1 .. Len(M)
      BY <1>1
    <2>2. Skip(M, 1) = 1
      BY <1>1, <1>2 DEF Skip
    <2>3. m[b].line = P[h + 1]
      BY <1>1, <1>2, <1>3, <2>1, <2>2 DEF Holds
    <2>4. Skip(M, 1) <= Skip(M, Len(M)) /\ Skip(M, Len(M)) \in Nat
      BY <1>1, <2>1, SkipBounds
    <2> QED
      BY <1>1, <1>3, <2>2, <2>3, <2>4 DEF Holds
  <1>7. ASSUME NEW i \in 1 .. n, q[i] # None PROVE m[q[i]].line = P[(h + 1) + Skip(q, i)]
    <2>1. i + 1 \in 1 .. Len(M) /\ i \in 0 .. n /\ M[i + 1] = q[i]
      BY <1>1
    <2>2. m[q[i]].line = P[h + Skip(M, i + 1)]
      BY <1>3, <1>7, <2>1 DEF Holds
    <2>3. h + Skip(M, i + 1) = (h + 1) + Skip(q, i)
      BY <1>4, <2>1
    <2> QED
      BY <2>2, <2>3
  <1> QED
    BY <1>5, <1>6, <1>7 DEF Holds

(* The logger's thread takes the nullptr.                                   *)
LEMMA HoldsNullGone ==
    ASSUME NEW q \in Seq(Blocks \cup {None}), NEW P \in Seq(Line), NEW h \in Nat, NEW m,
           q # <<>>, Head(q) = None, IsInjective(q), Holds(q, m, P, h)
    PROVE  Holds(Tail(q), m, P, h)
  <1> DEFINE n == Len(q)
             T == Tail(q)
  <1>1. /\ n \in Nat /\ n # 0 /\ Len(T) = n - 1 /\ q[1] = None /\ \A i \in 1 .. n - 1 : T[i] = q[i + 1]
        /\ DOMAIN q = 1 .. n
    BY HeadTailProperties, LenProperties
  <1> HIDE DEF T, n
  <1>2. ASSUME NEW i \in 1 .. n - 1 PROVE T[i] # None
    <2>1. i + 1 \in 1 .. n /\ 1 \in 1 .. n /\ i + 1 # 1
      BY <1>1
    <2> QED
      BY <1>1, <2>1 DEF IsInjective
  <1>3. ASSUME NEW i \in 0 .. n - 1 PROVE Skip(T, i) = Skip(q, i + 1)
    <2>1. 1 \in 1 .. i + 1 /\ \A j \in 1 .. i : j \in 1 .. n - 1
      BY <1>1
    <2>2. ~\E j \in 1 .. i : T[j] = None
      BY <1>2, <2>1
    <2> QED
      BY <1>1, <2>1, <2>2 DEF Skip
  <1>4. Len(P) = h + Skip(T, n - 1)
    <2>1. n - 1 \in 0 .. n - 1 /\ (n - 1) + 1 = n
      BY <1>1
    <2> QED
      BY <1>3, <2>1 DEF Holds, n
  <1>5. ASSUME NEW i \in 1 .. n - 1 PROVE m[T[i]].line = P[h + Skip(T, i)]
    <2>1. i + 1 \in 1 .. n /\ i \in 0 .. n - 1 /\ T[i] = q[i + 1] /\ q[i + 1] # None
      BY <1>1, <1>2
    <2>2. m[q[i + 1]].line = P[h + Skip(q, i + 1)]
      BY <2>1 DEF Holds, n
    <2> QED
      BY <1>3, <2>1, <2>2
  <1> QED
    BY <1>1, <1>4, <1>5 DEF Holds, T

(* Blocks that are not queued change.                                       *)
LEMMA HoldsFrame ==
    ASSUME NEW Q \in Seq(Blocks \cup {None}), NEW P, NEW h, NEW m, NEW w,
           Holds(Q, m, P, h), \A b \in Range(Q) \ {None} : w[b].line = m[b].line
    PROVE  Holds(Q, w, P, h)
  <1>1. DOMAIN Q = 1 .. Len(Q)
    BY LenProperties
  <1> QED
    BY <1>1 DEF Holds, Range

(* A queue is its first element and the rest.                                *)
LEMMA HeadFirst ==
    ASSUME NEW q \in Seq(Blocks \cup {None}), q # <<>>, Head(q) \in Blocks
    PROVE  <<Head(q)>> \o Tail(q) = q
  <1> DEFINE b == Head(q)
             T == Tail(q)
             M == <<b>> \o T
             n == Len(q)
  <1>1. /\ T \in Seq(Blocks \cup {None}) /\ Len(T) = n - 1 /\ n \in Nat /\ n # 0 /\ q[1] = b
        /\ \A i \in 1 .. n - 1 : T[i] = q[i + 1]
    BY HeadTailProperties, LenProperties
  <1> HIDE DEF b, T, n
  <1>2. /\ M \in Seq(Blocks \cup {None}) /\ Len(M) = Len(T) + 1 /\ M[1] = b
        /\ \A i \in 1 .. Len(T) : M[i + 1] = T[i]
    BY <1>1, QueuedIs DEF b
  <1> HIDE DEF M
  <1>3. ASSUME NEW i \in 1 .. n PROVE M[i] = q[i]
    <2>1. CASE i = 1
      BY <1>1, <1>2, <2>1
    <2>2. CASE i # 1
      <3>1. i - 1 \in 1 .. n - 1 /\ (i - 1) + 1 = i
        BY <1>1, <2>2
      <3> QED
        BY <1>1, <1>2, <3>1
    <2> QED
      BY <2>1, <2>2
  <1>4. Len(M) = n
    BY <1>1, <1>2
  <1>5. M = q
    BY <1>2, <1>3, <1>4, SeqEqual DEF n
  <1> QED
    BY <1>5 DEF M, b, T

(* The queue grows behind the block in hand.                                 *)
LEMMA HandThenAppend ==
    ASSUME NEW q \in Seq(Blocks \cup {None}), NEW b \in Blocks, NEW x \in Blocks \cup {None}
    PROVE  <<b>> \o Append(q, x) = Append(<<b>> \o q, x)
  <1> DEFINE S == Blocks \cup {None}
             A == Append(q, x)
             M == <<b>> \o A
             Q == <<b>> \o q
             B == Append(Q, x)
             n == Len(q)
  <1>1. /\ n \in Nat /\ A \in Seq(S) /\ Len(A) = n + 1 /\ A[n + 1] = x
        /\ \A i \in 1 .. n : A[i] = q[i]
    BY AppendProperties, LenProperties
  <1>2. Q \in Seq(S) /\ Len(Q) = n + 1 /\ Q[1] = b /\ \A i \in 1 .. n : Q[i + 1] = q[i]
    BY QueuedIs
  <1> HIDE DEF A, Q
  <1>3. M \in Seq(S) /\ Len(M) = Len(A) + 1 /\ M[1] = b /\ \A i \in 1 .. Len(A) : M[i + 1] = A[i]
    BY <1>1, QueuedIs
  <1>4. B \in Seq(S) /\ Len(B) = Len(Q) + 1 /\ B[Len(Q) + 1] = x /\ \A i \in 1 .. Len(Q) : B[i] = Q[i]
    BY <1>2, AppendProperties
  <1> HIDE DEF M, B, S, n
  <1>5. ASSUME NEW i \in 1 .. n + 2 PROVE M[i] = B[i]
    <2>1. CASE i = 1
      BY <1>1, <1>2, <1>3, <1>4, <2>1
    <2>2. CASE i = n + 2
      <3>1. n + 1 \in 1 .. n + 1 /\ (n + 1) + 1 = i
        BY <1>1, <2>2
      <3> QED
        BY <1>1, <1>2, <1>3, <1>4, <3>1
    <2>3. CASE i # 1 /\ i # n + 2
      <3> DEFINE k == i - 1
      <3>1. k \in 1 .. n /\ k \in 1 .. n + 1 /\ k + 1 \in 1 .. n + 1 /\ k + 1 = i
        BY <1>1, <2>3
      <3> HIDE DEF k
      <3>2. M[k + 1] = q[k]
        BY <1>1, <1>3, <3>1
      <3>3. B[k + 1] = q[k]
        BY <1>2, <1>4, <3>1
      <3> QED
        BY <3>1, <3>2, <3>3
    <2> QED
      BY <2>1, <2>2, <2>3
  <1>6. Len(M) = n + 2 /\ Len(B) = n + 2
    BY <1>1, <1>2, <1>3, <1>4
  <1>7. M = B
    BY <1>3, <1>4, <1>5, <1>6, SeqEqual
  <1> QED
    BY <1>7 DEF M, B, A, Q

-----------------------------------------------------------------------------
(* Steps of one thread that change no block.                                 *)

(* Thread t goes on, holding what it held: no block, queue or line changes.  *)
LEMMA MoveParts ==
    ASSUME IndInv, NEW t \in All, NEW to, at' = [at EXCEPT ![t] = to], Shapes',
           UNCHANGED <<blk, blocks, queue>>,
           own' \in [Threads -> 0 .. MaxLines], \A u \in Threads \ {t} : own'[u] = own[u],
           t \in Threads => to \in ThreadAt /\ (to \in Logging => own'[t] # 0),
           t = LogThread => to \in LoggerAt, t = Main => to \in MainAt,
           to \in Holding <=> at[t] \in Holding, to \in Sole => LastHolder(t),
           to \notin {"text", "push", "print", "write"},
           Ended' => /\ t = Main /\ at[LogThread] = "done"
                     /\ \A u \in Threads : at[u] = "idle",
           t = Main /\ None \in Range(queue) => to \in {"join", "clear", "size", "put", "free"},
           Ended => Ended'
    PROVE  Shapes' /\ Places' /\ Owners' /\ Accounts' /\ Texts'
  <1>1. /\ at \in [All -> ThreadAt \cup LoggerAt \cup MainAt]
        /\ at'[t] = to /\ \A u \in All \ {t} : at'[u] = at[u]
        /\ LogThread \in All /\ Main \in All /\ Threads \subseteq All
        /\ LogThread \notin Threads /\ Main \notin Threads
    BY ThreadsAssumption DEF IndInv, Places, All
  <1>2. Places'
    <2>1. at' \in [All -> ThreadAt \cup LoggerAt \cup MainAt]
      BY <1>1 DEF All
    <2>2. blk' \in [All -> Blocks \cup {None}] /\ own' \in [Threads -> 0 .. MaxLines]
      BY DEF IndInv, Places
    <2>3. ASSUME NEW u \in Threads PROVE at'[u] \in ThreadAt /\ (at'[u] \in Logging => own'[u] # 0)
      BY <1>1 DEF IndInv, Places
    <2>4. at'[LogThread] \in LoggerAt /\ at'[Main] \in MainAt
      BY <1>1 DEF IndInv, Places
    <2>5. ASSUME NEW u \in All PROVE blk'[u] # None <=> at'[u] \in Holding
      BY <1>1 DEF IndInv, Places
    <2>6. Ended' => at'[LogThread] = "done" /\ \A u \in Threads : at'[u] = "idle"
      BY <1>1, ThreadsAssumption DEF LogThread, Main
    <2> QED
      BY <2>1, <2>2, <2>3, <2>4, <2>5, <2>6 DEF Places
  <1>3. Owners'
    <2>1. queue' \in Seq(Blocks \cup {None}) /\ IsInjective(queue')
      BY DEF IndInv, Owners
    <2>2. None \in Range(queue') => at'[Main] \in {"join", "clear", "size", "put", "free"}
      BY <1>1 DEF IndInv, Owners
    <2>3. \A u, v \in Threads : blk'[u] = blk'[v] /\ blk'[u] # None => u = v
      BY DEF IndInv, Owners
    <2>4. ASSUME NEW u \in All, at'[u] \in Sole PROVE LastHolder(u)'
      <3>1. LastHolder(u)
        BY <1>1, <2>4 DEF IndInv, Owners
      <3> QED
        BY <3>1 DEF LastHolder
    <2>5. at'[LogThread] = "write" => blk'[LogThread] \notin Range(queue')
      BY <1>1 DEF IndInv, Owners
    <2> QED
      BY <2>1, <2>2, <2>3, <2>4, <2>5 DEF Owners
  <1>4. Accounts'
    BY DEF IndInv, Accounts, HeldBlocks, Allocated, blocks
  <1>5. Texts'
    <2>1. ASSUME NEW u \in Threads, at'[u] \in {"text", "push", "print"}
          PROVE  HasLine(blk[u])' /\ mem'[blk'[u]].line.id = own'[u]
      <3>1. u # t /\ at[u] \in {"text", "push", "print"} /\ own'[u] = own[u]
        BY <1>1, <2>1
      <3> QED
        BY <3>1 DEF IndInv, Texts, HasLine, blocks
    <2>2. \A b \in Range(queue') \ {None} : HasLine(b)'
      BY DEF IndInv, Texts, HasLine, blocks
    <2>3. at'[LogThread] = "write" => HasLine(blk[LogThread])'
      BY <1>1 DEF IndInv, Texts, HasLine, blocks
    <2> QED
      BY <2>1, <2>2, <2>3 DEF Texts
  <1> QED
    BY <1>2, <1>3, <1>4, <1>5

(* The same, where what is to be written stays as well.                      *)
LEMMA MoveHolds ==
    ASSUME IndInv, NEW t \in All, NEW to, at' = [at EXCEPT ![t] = to], Shapes',
           UNCHANGED <<blk, blocks, queue, pushed, handled>>,
           own' \in [Threads -> 0 .. MaxLines], \A u \in Threads \ {t} : own'[u] = own[u],
           t \in Threads => to \in ThreadAt /\ (to \in Logging => own'[t] # 0),
           t = LogThread => to \in LoggerAt, t = Main => to \in MainAt,
           to \in Holding <=> at[t] \in Holding, to \in Sole => LastHolder(t),
           to \notin {"text", "push", "print", "write"}, at[t] # "write",
           Ended' => /\ t = Main /\ at[LogThread] = "done"
                     /\ \A u \in Threads : at[u] = "idle",
           t = Main /\ None \in Range(queue) => to \in {"join", "clear", "size", "put", "free"},
           Ended => Ended'
    PROVE  IndInv'
  <1>1. /\ at \in [All -> ThreadAt \cup LoggerAt \cup MainAt]
        /\ at'[t] = to /\ \A u \in All \ {t} : at'[u] = at[u]
        /\ LogThread \in All /\ Main \in All /\ Threads \subseteq All
        /\ LogThread \notin Threads /\ Main \notin Threads
    BY ThreadsAssumption DEF IndInv, Places, All
  <1>2. Shapes' /\ Places' /\ Owners' /\ Accounts' /\ Texts'
    BY MoveParts
  <1>3. Order'
    <2>1. Queued' = Queued
      BY <1>1 DEF Queued
    <2>2. ~Ended' => ~Ended
      OBVIOUS
    <2> QED
      BY <2>1, <2>2 DEF IndInv, Order, Holds, blocks
  <1> QED
    BY <1>2, <1>3 DEF IndInv

(* What every step starts from.                                             *)
LEMMA Basics ==
    ASSUME IndInv
    PROVE  /\ at \in [All -> ThreadAt \cup LoggerAt \cup MainAt]
           /\ LogThread \in All /\ Main \in All /\ Threads \subseteq All
           /\ LogThread \notin Threads /\ Main \notin Threads /\ LogThread # Main
           /\ at[LogThread] \in LoggerAt /\ at[Main] \in MainAt
           /\ \A t \in Threads : at[t] \in ThreadAt
           /\ Ended => at[LogThread] = "done" /\ \A t \in Threads : at[t] = "idle"
  BY ThreadsAssumption DEF IndInv, Places, All, LogThread, Main

(* FreeLogSize reads the size of the cache.                                  *)
LEMMA FreeLogSizeHolds ==
    ASSUME IndInv, NEW t \in All, FreeLogSize(t)
    PROVE  IndInv'
  <1> DEFINE to == IF Len(cache) > CacheSize THEN "free" ELSE "put"
  <1>1. /\ at[t] = "size" /\ at' = [at EXCEPT ![t] = to] /\ to \in {"free", "put"}
        /\ UNCHANGED <<blk, own, lines, blocks, setting, files, lineq>>
    BY DEF FreeLogSize, Goto
  <1> HIDE DEF to
  <1>2. /\ UNCHANGED <<blk, blocks, queue, pushed, handled>> /\ own' = own
        /\ UNCHANGED <<level, stop, lines, levels, todo, day, max>>
    BY <1>1 DEF setting, files, lineq
  <1>3. Shapes' /\ own' \in [Threads -> 0 .. MaxLines]
    BY <1>2 DEF IndInv, Shapes, Places
  <1>4. LastHolder(t)
    BY <1>1 DEF IndInv, Owners, Sole
  <1>5. Ended' <=> Ended
    BY <1>1, Basics DEF Ended
  <1>6. Ended => t = Main
    BY <1>1, Basics DEF All
  <1> QED
    BY <1>1, <1>2, <1>3, <1>4, <1>5, <1>6, Basics, MoveHolds
       DEF ThreadAt, LoggerAt, MainAt, Logging, Holding, Sole

(* A thread begins to log.                                                  *)
LEMMA BeginLogHolds ==
    ASSUME IndInv, NEW t \in Threads, BeginLog(t)
    PROVE  IndInv'
  <1>1. /\ at[t] = "idle" /\ at' = [at EXCEPT ![t] = "get"] /\ ~Ended
        /\ lines < MaxLines /\ lines' = lines + 1 /\ own' = [own EXCEPT ![t] = lines + 1]
        /\ UNCHANGED <<blk, blocks, setting, files, lineq>>
    BY DEF BeginLog, Goto
  <1>2. /\ UNCHANGED <<blk, blocks, queue, pushed, handled>>
        /\ UNCHANGED <<level, stop, levels, todo, day, max>>
    BY <1>1 DEF setting, files, lineq
  <1>3. lines + 1 \in 1 .. MaxLines /\ own \in [Threads -> 0 .. MaxLines]
    BY <1>1, LoggerAssumption DEF IndInv, Shapes, Places
  <1>4. /\ Shapes' /\ own' \in [Threads -> 0 .. MaxLines] /\ own'[t] # 0
        /\ \A u \in Threads \ {t} : own'[u] = own[u]
    BY <1>1, <1>2, <1>3 DEF IndInv, Shapes
  <1>5. ~Ended' /\ t # LogThread /\ t # Main /\ t \in All
    BY <1>1, Basics DEF Ended
  <1> QED
    BY <1>1, <1>2, <1>4, <1>5, MoveHolds
       DEF ThreadAt, LoggerAt, MainAt, Logging, Holding, Sole

(* Run tests _stop.                                                         *)
LEMMA LoopTestHolds ==
    ASSUME IndInv, LoopTest
    PROVE  IndInv'
  <1> DEFINE to == IF stop THEN "done" ELSE "pop"
  <1>1. /\ at[LogThread] = "loop" /\ at' = [at EXCEPT ![LogThread] = to] /\ to \in {"done", "pop"}
        /\ UNCHANGED <<blk, own, lines, blocks, setting, files, lineq>>
    BY DEF LoopTest, Goto
  <1> HIDE DEF to
  <1>2. /\ UNCHANGED <<blk, blocks, queue, pushed, handled>> /\ own' = own
        /\ UNCHANGED <<level, stop, lines, levels, todo, day, max>>
    BY <1>1 DEF setting, files, lineq
  <1>3. Shapes' /\ own' \in [Threads -> 0 .. MaxLines]
    BY <1>2 DEF IndInv, Shapes, Places
  <1>4. ~Ended' /\ ~Ended
    BY <1>1, Basics DEF Ended
  <1> QED
    BY <1>1, <1>2, <1>3, <1>4, Basics, MoveHolds
       DEF ThreadAt, LoggerAt, MainAt, Logging, Holding, Sole

(* The main thread goes on in its own code.                                  *)
LEMMA MainHolds ==
    ASSUME IndInv, NEW to, at' = [at EXCEPT ![Main] = to], Shapes',
           UNCHANGED <<blk, own, blocks, queue, pushed, handled>>,
           to \in MainAt, to \notin Holding, at[Main] \notin Holding,
           None \in Range(queue) => to \in {"join", "clear"},
           Ended' => /\ at[LogThread] = "done" /\ \A u \in Threads : at[u] = "idle",
           Ended => Ended'
    PROVE  IndInv'
  <1>1. own' \in [Threads -> 0 .. MaxLines] /\ \A u \in Threads : own'[u] = own[u]
    BY DEF IndInv, Places
  <1>2. /\ Main \in All /\ Main \notin Threads /\ Main # LogThread
    BY Basics
  <1>3. to \notin Sole /\ to \notin {"text", "push", "print", "write"} /\ at[Main] # "write"
    BY DEF Holding, Sole
  <1> QED
    BY <1>1, <1>2, <1>3, MoveHolds

(* No nullptr is in the queue before Stop.                                  *)
LEMMA NoNull ==
    ASSUME IndInv, at[Main] \notin {"join", "clear", "size", "put", "free"}
    PROVE  None \notin Range(queue)
  BY DEF IndInv, Owners

(* Every part of the invariant after the first step of SetLevel.            *)
LEMMA SetLevelHolds ==
    ASSUME IndInv, NEW o \in BOOLEAN, SetLevel(o)
    PROVE  IndInv'
  <1> DEFINE to == IF o THEN "fill" ELSE "drain"
  <1>1. /\ at[Main] = "idle" /\ at' = [at EXCEPT ![Main] = to] /\ to \in {"fill", "drain"}
        /\ level' \in BOOLEAN /\ levels < MaxLevels /\ levels' = levels + 1
        /\ UNCHANGED <<todo, blk, own, lines, blocks, files, lineq>>
    BY DEF SetLevel, Goto
  <1> HIDE DEF to
  <1>2. /\ UNCHANGED <<blk, own, blocks, queue, pushed, handled>>
        /\ UNCHANGED <<stop, lines, todo, day, max>>
    BY <1>1 DEF files, lineq
  <1>3. Shapes'
    BY <1>1, <1>2, LoggerAssumption DEF IndInv, Shapes
  <1>4. ~Ended /\ ~Ended' /\ None \notin Range(queue)
    BY <1>1, Basics, NoNull DEF Ended
  <1> QED
    BY <1>1, <1>2, <1>3, <1>4, MainHolds DEF MainAt, Holding

(* Every part of the invariant after the test of the cache in SetLevel.     *)
LEMMA CacheTestHolds ==
    ASSUME IndInv, CacheTest
    PROVE  IndInv'
  <1>1. PICK to \in {"new", "del"} : at' = [at EXCEPT ![Main] = to]
    BY DEF CacheTest, Goto
  <1>2. /\ at[Main] \in {"fill", "drain"} /\ todo' \in {0, CacheSize, Len(cache)}
        /\ UNCHANGED <<level, levels, blk, own, lines, blocks, files, lineq>>
    BY DEF CacheTest
  <1>3. /\ UNCHANGED <<blk, own, blocks, queue, pushed, handled>>
        /\ UNCHANGED <<level, levels, stop, lines, day, max>>
    BY <1>2 DEF files, lineq
  <1>4. Len(cache) \in Nat /\ CacheSize \in Nat
    BY LenProperties, LoggerAssumption DEF IndInv, Accounts
  <1>5. Shapes'
    BY <1>2, <1>3, <1>4 DEF IndInv, Shapes
  <1>6. ~Ended /\ ~Ended' /\ None \notin Range(queue)
    BY <1>1, <1>2, Basics, NoNull DEF Ended
  <1> QED
    BY <1>1, <1>2, <1>3, <1>5, <1>6, MainHolds DEF MainAt, Holding

(* Every part of the invariant after the end of SetLevel.                   *)
LEMMA LevelSetHolds ==
    ASSUME IndInv, LevelSet
    PROVE  IndInv'
  <1>1. /\ at[Main] \in {"new", "del"} /\ at' = [at EXCEPT ![Main] = "idle"]
        /\ UNCHANGED <<blk, own, lines, blocks, setting, files, lineq>>
    BY DEF LevelSet, Goto
  <1>2. /\ UNCHANGED <<blk, own, blocks, queue, pushed, handled>>
        /\ UNCHANGED <<level, levels, stop, lines, todo, day, max>>
    BY <1>1 DEF setting, files, lineq
  <1>3. Shapes'
    BY <1>2 DEF IndInv, Shapes
  <1>4. ~Ended /\ ~Ended' /\ None \notin Range(queue)
    BY <1>1, Basics, NoNull DEF Ended
  <1> QED
    BY <1>1, <1>2, <1>3, <1>4, MainHolds DEF MainAt, Holding

(* Every part of the invariant after _stop is set.                          *)
LEMMA StopFlagHolds ==
    ASSUME IndInv, StopFlag
    PROVE  IndInv'
  <1>1. /\ at[Main] = "idle" /\ at' = [at EXCEPT ![Main] = "null"] /\ stop' \in BOOLEAN
        /\ UNCHANGED <<blk, own, lines, blocks, setting, files, queue, pushed, handled, day>>
    BY DEF StopFlag, Goto
  <1>2. /\ UNCHANGED <<blk, own, blocks, queue, pushed, handled>>
        /\ UNCHANGED <<level, levels, lines, todo, day, max>>
    BY <1>1 DEF setting, files
  <1>3. Shapes'
    BY <1>1, <1>2 DEF IndInv, Shapes
  <1>4. ~Ended /\ ~Ended' /\ None \notin Range(queue)
    BY <1>1, Basics, NoNull DEF Ended
  <1> QED
    BY <1>1, <1>2, <1>3, <1>4, MainHolds DEF MainAt, Holding

(* Every part of the invariant after Join returns.                          *)
LEMMA JoinHolds ==
    ASSUME IndInv, Join
    PROVE  IndInv'
  <1>1. /\ at[Main] = "join" /\ at' = [at EXCEPT ![Main] = "clear"]
        /\ at[LogThread] = "done" /\ \A t \in Threads : at[t] = "idle"
        /\ UNCHANGED <<blk, own, lines, blocks, setting, max, lineq>>
    BY DEF Join, Goto
  <1>2. /\ UNCHANGED <<blk, own, blocks, queue, pushed, handled>>
        /\ UNCHANGED <<level, levels, stop, lines, todo, day, max>>
    BY <1>1 DEF setting, lineq
  <1>3. Shapes'
    BY <1>2 DEF IndInv, Shapes
  <1>4. ~Ended
    BY <1>1 DEF Ended
  <1> QED
    BY <1>1, <1>2, <1>3, <1>4, MainHolds DEF MainAt, Holding

(* Every part of the invariant after the end of ~FileLogger.                *)
LEMMA DestroyedHolds ==
    ASSUME IndInv, Destroyed
    PROVE  IndInv'
  <1>1. /\ at[Main] = "clear" /\ at' = [at EXCEPT ![Main] = "end"] /\ queue = <<>>
        /\ UNCHANGED <<blk, own, lines, blocks, setting, files, lineq>>
    BY DEF Destroyed, Goto
  <1>2. /\ UNCHANGED <<blk, own, blocks, queue, pushed, handled>>
        /\ UNCHANGED <<level, levels, stop, lines, todo, day, max>>
    BY <1>1 DEF setting, files, lineq
  <1>3. Shapes'
    BY <1>2 DEF IndInv, Shapes
  <1>4. Ended /\ Ended'
    BY <1>1, Basics DEF Ended
  <1>5. None \notin Range(queue)
    BY <1>1 DEF Range
  <1> QED
    BY <1>1, <1>2, <1>3, <1>4, <1>5, Basics, MainHolds DEF MainAt, Holding

(* Nothing changes but the date or the files.                                *)
LEMMA StillHolds ==
    ASSUME IndInv, Shapes', UNCHANGED <<calls, blocks, queue, pushed, handled>>
    PROVE  IndInv'
  <1>1. UNCHANGED <<at, blk, own, lines, cache, mem, queue, pushed, handled>>
    BY DEF calls, blocks
  <1>2. Places'
    BY <1>1 DEF IndInv, Places, Ended
  <1>3. Owners'
    BY <1>1 DEF IndInv, Owners, LastHolder
  <1>4. Accounts'
    BY <1>1 DEF IndInv, Accounts, HeldBlocks, Allocated
  <1>5. Texts'
    BY <1>1 DEF IndInv, Texts, HasLine
  <1>6. Order'
    BY <1>1 DEF IndInv, Order, Ended, Queued
  <1> QED
    BY <1>2, <1>3, <1>4, <1>5, <1>6 DEF IndInv

(* Every part of the invariant after a change of the date.                  *)
LEMMA MidnightHolds ==
    ASSUME IndInv, Midnight
    PROVE  IndInv'
  <1>1. /\ day < MaxDay /\ day' = day + 1
        /\ UNCHANGED <<calls, blocks, setting, files, queue, pushed, handled, stop>>
    BY DEF Midnight
  <1>2. UNCHANGED <<calls, blocks, queue, pushed, handled, lines, level, todo, levels, max, stop>>
    BY <1>1 DEF calls, setting, files
  <1>3. Shapes'
    BY <1>1, <1>2, LoggerAssumption DEF IndInv, Shapes, Days
  <1> QED
    BY <1>2, <1>3, StillHolds

(* Every part of the invariant after SetMaxStoreDays.                       *)
LEMMA SetMaxStoreDaysHolds ==
    ASSUME IndInv, NEW n \in StoreDays, SetMaxStoreDays(n)
    PROVE  IndInv'
  <1>1. max' = n /\ UNCHANGED <<calls, blocks, setting, lineq>>
    BY DEF SetMaxStoreDays
  <1>2. UNCHANGED <<calls, blocks, queue, pushed, handled, lines, level, todo, levels, day, stop>>
    BY <1>1 DEF calls, setting, lineq
  <1>3. Shapes'
    BY <1>1, <1>2 DEF IndInv, Shapes
  <1> QED
    BY <1>2, <1>3, StillHolds

-----------------------------------------------------------------------------
(* Steps of a caller that has a block for itself.                            *)

(* What is still to be written is in the queue or in the logger's hand.      *)
LEMMA QueuedHeld ==
    ASSUME IndInv
    PROVE  /\ Queued \in Seq(Blocks \cup {None})
           /\ at[LogThread] # "write" => Queued = queue
           /\ at[LogThread] = "write" => Queued = <<blk[LogThread]>> \o queue /\ blk[LogThread] \in Blocks
           /\ \A b \in Range(Queued) \ {None} :
                 b \in Range(queue) \/ (at[LogThread] = "write" /\ b = blk[LogThread])
  <1>1. queue \in Seq(Blocks \cup {None}) /\ DOMAIN queue = 1 .. Len(queue) /\ Len(queue) \in Nat
    BY LenProperties DEF IndInv, Owners
  <1>2. CASE at[LogThread] # "write"
    <2>1. Queued = queue
      BY <1>1, <1>2, ConcatEmptySeq DEF Queued
    <2> QED
      BY <1>1, <1>2, <2>1
  <1>3. CASE at[LogThread] = "write"
    <2> DEFINE b == blk[LogThread]
               M == <<b>> \o queue
    <2>1. b \in Blocks
      BY <1>3, Basics DEF IndInv, Places, Holding
    <2>2. Queued = M
      BY <1>3 DEF Queued
    <2> HIDE DEF b
    <2>3. /\ M \in Seq(Blocks \cup {None}) /\ Len(M) = Len(queue) + 1 /\ M[1] = b
          /\ \A i \in 1 .. Len(queue) : M[i + 1] = queue[i]
      BY <1>1, <2>1, QueuedIs
    <2>4. DOMAIN M = 1 .. Len(queue) + 1
      BY <2>3, LenProperties
    <2> HIDE DEF M
    <2>5. ASSUME NEW c \in Range(M) PROVE c \in Range(queue) \/ c = b
      <3>1. PICK i \in 1 .. Len(queue) + 1 : c = M[i]
        BY <2>4 DEF Range
      <3>2. CASE i = 1
        BY <2>3, <3>1, <3>2
      <3>3. CASE i # 1
        <4>1. i - 1 \in 1 .. Len(queue) /\ (i - 1) + 1 = i
          BY <1>1, <3>3
        <4>2. c = queue[i - 1]
          BY <2>3, <3>1, <4>1
        <4> QED
          BY <1>1, <4>1, <4>2 DEF Range
      <3> QED
        BY <3>2, <3>3
    <2> QED
      BY <1>3, <2>1, <2>2, <2>3, <2>5 DEF b, M
  <1> QED
    BY <1>2, <1>3

(* A block in anyone's hand is one that is allocated and not in the cache.   *)
LEMMA HandIsHeld ==
    ASSUME IndInv, NEW t \in All, at[t] \in Holding
    PROVE  /\ blk[t] \in Blocks /\ blk[t] \in HeldBlocks /\ mem[blk[t]] # None
           /\ blk[t] \notin Range(cache)
           /\ mem[blk[t]] \in [line : Line \cup {None}, len : Nat \ {0}]
  <1>1. blk[t] # None /\ blk[t] \in Blocks
    BY DEF IndInv, Places
  <1>2. blk[t] \in HeldBlocks
    BY <1>1 DEF HeldBlocks
  <1>3. blk[t] \in Allocated /\ blk[t] \notin Range(cache)
    BY <1>2 DEF IndInv, Accounts
  <1> QED
    BY <1>1, <1>2, <1>3 DEF IndInv, Accounts, Allocated

(* The order of the lines is about held blocks.                              *)
LEMMA OrderFrame ==
    ASSUME IndInv, Queued' = Queued, pushed' = pushed, handled' = handled, ~Ended' => ~Ended,
           \A b \in Range(Queued) \ {None} : mem'[b].line = mem[b].line
    PROVE  Order'
  <1>1. Queued \in Seq(Blocks \cup {None})
    BY QueuedHeld
  <1>2. ~Ended' => Holds(Queued, mem', pushed, handled)
    BY <1>1, HoldsFrame DEF IndInv, Order
  <1> QED
    BY <1>2 DEF IndInv, Order

(* FormatLog and AppendText: thread t writes to the block that it alone has.  *)
LEMMA WriteHolds ==
    ASSUME IndInv, NEW t \in Threads, at[t] \in {"format", "text"},
           NEW to \in {"text", "push"}, at' = [at EXCEPT ![t] = to],
           NEW e \in [line : Line, len : Nat \ {0}], e.line.id = own[t],
           mem' = [mem EXCEPT ![blk[t]] = e],
           UNCHANGED <<blk, own, lines, cache, setting, files, lineq>>
    PROVE  IndInv'
  <1> DEFINE b == blk[t]
  <1>1. UNCHANGED <<level, todo, levels, max, queue, pushed, handled, stop, day>>
    BY DEF setting, files, lineq
  <1>2. /\ at'[t] = to /\ \A u \in All \ {t} : at'[u] = at[u]
        /\ t \in All /\ t # LogThread /\ t # Main
        /\ at' \in [All -> ThreadAt \cup LoggerAt \cup MainAt]
    BY Basics DEF ThreadAt
  <1>3. /\ b \in Blocks /\ b \in HeldBlocks /\ mem[b] # None /\ b \notin Range(cache)
    BY <1>2, HandIsHeld DEF Holding
  <1>4. LastHolder(t)
    BY <1>2 DEF IndInv, Owners, Sole
  <1>5. /\ mem'[b] = e /\ \A c \in Blocks \ {b} : mem'[c] = mem[c]
        /\ mem' \in [Blocks -> {None} \cup [line : Line \cup {None}, len : Nat \ {0}]]
    <2>1. mem \in [Blocks -> {None} \cup [line : Line \cup {None}, len : Nat \ {0}]]
      BY DEF IndInv, Accounts
    <2>2. e \in {None} \cup [line : Line \cup {None}, len : Nat \ {0}]
      OBVIOUS
    <2> QED
      BY <1>3, <2>1, <2>2
  <1>6. e # None /\ e.line \in Line
    <2>1. e \in [line : Line \cup {None}, len : Nat]
      OBVIOUS
    <2> QED
      BY <2>1, NoneAssumption
  <1> HIDE DEF b
  <1>7. Shapes'
    BY <1>1 DEF IndInv, Shapes
  <1>8. Ended' <=> Ended
    BY <1>2, Basics DEF Ended
  <1>9. ~Ended
    BY <1>8, Basics
  <1>10. Places'
    <2>1. ASSUME NEW u \in Threads PROVE at'[u] \in ThreadAt /\ (at'[u] \in Logging => own'[u] # 0)
      BY <1>2 DEF IndInv, Places, ThreadAt, Logging
    <2>2. ASSUME NEW u \in All PROVE blk'[u] # None <=> at'[u] \in Holding
      BY <1>2 DEF IndInv, Places, Holding
    <2>3. at'[LogThread] \in LoggerAt /\ at'[Main] \in MainAt
      BY <1>2, Basics
    <2> QED
      BY <1>2, <1>8, <1>9, <2>1, <2>2, <2>3 DEF IndInv, Places
  <1>11. Owners'
    <2>1. queue' \in Seq(Blocks \cup {None}) /\ IsInjective(queue')
      BY <1>1 DEF IndInv, Owners
    <2>2. None \in Range(queue') => at'[Main] \in {"join", "clear", "size", "put", "free"}
      BY <1>1, <1>2, Basics DEF IndInv, Owners
    <2>3. \A u, v \in Threads : blk'[u] = blk'[v] /\ blk'[u] # None => u = v
      BY DEF IndInv, Owners
    <2>4. ASSUME NEW u \in All, at'[u] \in Sole PROVE LastHolder(u)'
      <3>1. LastHolder(u)
        BY <1>2, <1>4, <2>4 DEF IndInv, Owners
      <3> QED
        BY <1>1, <3>1 DEF LastHolder
    <2>5. at'[LogThread] = "write" => blk'[LogThread] \notin Range(queue')
      BY <1>1, <1>2, Basics DEF IndInv, Owners
    <2> QED
      BY <2>1, <2>2, <2>3, <2>4, <2>5 DEF Owners
  <1>12. Accounts'
    <2>1. Allocated' = Allocated
      BY <1>3, <1>5, <1>6 DEF Allocated
    <2>2. HeldBlocks' = HeldBlocks
      BY <1>1 DEF HeldBlocks
    <2>3. Range(cache) \subseteq Blocks
      <3>1. cache \in Seq(Blocks)
        BY DEF IndInv, Accounts
      <3> QED
        BY <3>1, LenProperties DEF Range
    <2>4. \A c \in Range(cache) : mem'[c] = mem[c]
      BY <1>3, <1>5, <2>3
    <2> QED
      BY <1>5, <2>1, <2>2, <2>4 DEF IndInv, Accounts
  <1>13. \A c \in Range(queue) \ {None} : c \in Blocks /\ c # b /\ mem'[c] = mem[c]
    <2>1. queue \in Seq(Blocks \cup {None})
      BY DEF IndInv, Owners
    <2>2. Range(queue) \subseteq Blocks \cup {None}
      BY <2>1, LenProperties DEF Range
    <2> QED
      BY <1>4, <1>5, <2>2 DEF LastHolder, b
  <1>14. \A u \in All \ {t} : blk[u] # None => blk[u] \in Blocks /\ mem'[blk[u]] = mem[blk[u]]
    <2> SUFFICES ASSUME NEW u \in All \ {t}, blk[u] # None
                 PROVE  blk[u] \in Blocks /\ mem'[blk[u]] = mem[blk[u]]
      OBVIOUS
    <2>1. blk[u] \in Blocks
      BY DEF IndInv, Places
    <2>2. blk[u] # b
      BY <1>4 DEF LastHolder, b
    <2> QED
      BY <1>5, <2>1, <2>2
  <1>15. Texts'
    <2>1. ASSUME NEW u \in Threads, at'[u] \in {"text", "push", "print"}
          PROVE  HasLine(blk[u])' /\ mem'[blk'[u]].line.id = own'[u]
      <3>1. CASE u = t
        BY <1>5, <1>6, <3>1 DEF HasLine, b
      <3>2. CASE u # t
        <4>1. u \in All /\ at[u] \in {"text", "push", "print"} /\ blk[u] # None
          BY <1>2, <2>1, <3>2, Basics DEF IndInv, Places, Holding
        <4> QED
          BY <1>14, <3>2, <4>1 DEF IndInv, Texts, HasLine
      <3> QED
        BY <3>1, <3>2
    <2>2. \A c \in Range(queue') \ {None} : HasLine(c)'
      BY <1>1, <1>13 DEF IndInv, Texts, HasLine
    <2>3. at'[LogThread] = "write" => HasLine(blk[LogThread])'
      <3> SUFFICES ASSUME at'[LogThread] = "write" PROVE HasLine(blk[LogThread])'
        OBVIOUS
      <3>1. LogThread \in All /\ at[LogThread] = "write" /\ blk[LogThread] # None
        BY <1>2, Basics DEF IndInv, Places, Holding
      <3> QED
        BY <1>2, <1>14, <3>1 DEF IndInv, Texts, HasLine
    <2> QED
      BY <2>1, <2>2, <2>3 DEF Texts
  <1>16. Order'
    <2>1. Queued' = Queued
      BY <1>1, <1>2, Basics DEF Queued
    <2>2. ASSUME NEW c \in Range(Queued) \ {None} PROVE mem'[c].line = mem[c].line
      <3>1. c \in Range(queue) \/ (at[LogThread] = "write" /\ c = blk[LogThread])
        BY QueuedHeld
      <3> QED
        BY <1>2, <1>13, <1>14, <3>1, Basics
    <2> QED
      BY <1>1, <1>8, <2>1, <2>2, OrderFrame
  <1> QED
    BY <1>7, <1>10, <1>11, <1>12, <1>15, <1>16 DEF IndInv

(* Every part of the invariant after FormatLog, which writes a block that   *)
(* nobody else has.                                                         *)
LEMMA FormatLogHolds ==
    ASSUME IndInv, NEW t \in Threads, FormatLog(t)
    PROVE  IndInv'
  <1> DEFINE l == [id |-> own[t], day |-> day]
             e == [line |-> l, len |-> Header]
  <1>1. /\ at[t] = "format" /\ at' = [at EXCEPT ![t] = "text"] /\ mem' = [mem EXCEPT ![blk[t]] = e]
        /\ UNCHANGED <<blk, own, lines, cache, setting, files, lineq>>
    BY DEF FormatLog, Goto
  <1>2. own[t] \in 1 .. MaxLines
    <2>1. own[t] # 0 /\ own[t] \in 0 .. MaxLines
      BY <1>1 DEF IndInv, Places, Logging
    <2> QED
      BY <2>1, LoggerAssumption
  <1>3. l \in Line
    BY <1>2 DEF IndInv, Shapes, Line
  <1>4. Header \in Nat \ {0}
    BY LoggerAssumption
  <1>5. e \in [line : Line, len : Nat \ {0}] /\ e.line.id = own[t]
    BY <1>3, <1>4
  <1> HIDE DEF e
  <1> QED
    BY <1>1, <1>5, WriteHolds

(* Every part of the invariant after a part of the text is appended.        *)
LEMMA AppendTextHolds ==
    ASSUME IndInv, NEW t \in Threads, AppendText(t)
    PROVE  IndInv'
  <1> DEFINE b == blk[t]
  <1>1. at[t] = "text" /\ UNCHANGED <<blk, own, lines, cache, setting, files, lineq>>
    BY DEF AppendText
  <1>2. PICK to \in {"text", "push"} : at' = [at EXCEPT ![t] = to]
    BY DEF AppendText, Goto
  <1>3. t \in All /\ b \in Blocks /\ mem[b].line \in Line /\ mem[b].line.id = own[t]
        /\ mem[b] \in [line : Line \cup {None}, len : Nat \ {0}]
    <2>1. t \in All
      BY Basics
    <2>2. b \in Blocks /\ mem[b] \in [line : Line \cup {None}, len : Nat \ {0}]
      BY <1>1, <2>1, HandIsHeld DEF Holding
    <2>3. mem[b].line \in Line /\ mem[b].line.id = own[t]
      BY <1>1 DEF IndInv, Texts, HasLine
    <2> QED
      BY <2>1, <2>2, <2>3
  <1>4. PICK n \in Lens : mem' = [mem EXCEPT ![b].len = IF @ < BlockLen THEN @ + n ELSE @]
    BY DEF AppendText
  <1> HIDE DEF b
  <1> DEFINE k == IF mem[b].len < BlockLen THEN mem[b].len + n ELSE mem[b].len
             e == [line |-> mem[b].line, len |-> k]
  <1>5. k \in Nat \ {0}
    <2>1. mem[b].len \in Nat \ {0} /\ n \in Nat
      BY <1>3, LoggerAssumption
    <2> QED
      BY <2>1
  <1>6. mem \in [Blocks -> {None} \cup [line : Line \cup {None}, len : Nat \ {0}]]
    BY DEF IndInv, Accounts
  <1>7. mem' = [mem EXCEPT ![b] = [mem[b] EXCEPT !.len = k]]
    BY <1>3, <1>4, <1>6
  <1> HIDE DEF k
  <1>8. [mem[b] EXCEPT !.len = k] = e
    BY <1>3
  <1>9. e \in [line : Line, len : Nat \ {0}] /\ e.line.id = own[t]
    BY <1>3, <1>5
  <1>10. mem' = [mem EXCEPT ![b] = e]
    BY <1>7, <1>8
  <1> HIDE DEF e
  <1> QED
    BY <1>1, <1>2, <1>9, <1>10, WriteHolds DEF b

-----------------------------------------------------------------------------
(* Blocks taken and given back.                                             *)

(* The block malloc returns is a new one.                                    *)
LEMMA NewBlockIs ==
    ASSUME Allocated # Blocks
    PROVE  NewBlock \in Blocks /\ NewBlock \notin Allocated
  <1> DEFINE T == Blocks \ Allocated
             R == OpToRel(<, Nat)
  <1>1. T \subseteq Nat /\ T # {}
    BY LoggerAssumption DEF Blocks, Allocated
  <1>2. PICK x \in T : \A y \in T : ~(<<y, x>> \in R)
    BY <1>1, NatLessThanWellFounded, WFMin
  <1>3. R = {ss \in Nat \X Nat : ss[1] < ss[2]}
    BY DEF OpToRel
  <1> HIDE DEF R, T
  <1>4. ASSUME NEW y \in T PROVE x <= y
    <2>1. <<y, x>> \in Nat \X Nat
      BY <1>1
    <2>2. ~(y < x)
      BY <1>2, <1>3, <2>1
    <2> QED
      BY <1>1, <2>2
  <1>5. NewBlock = CHOOSE b \in T : \A c \in T : b <= c
    BY DEF NewBlock, T
  <1>6. NewBlock \in T
    BY <1>4, <1>5
  <1> QED
    BY <1>6 DEF T

(* What of the blocks is held when thread t has x in its hand.               *)
OtherHeld(t) == ({blk[u] : u \in All \ {t}} \cup Range(queue)) \ {None}

(* What is held before and after thread t changes its hand.                 *)
LEMMA HeldAfter ==
    ASSUME IndInv, NEW t \in All, NEW x \in Blocks \cup {None},
           blk' = [blk EXCEPT ![t] = x], queue' = queue
    PROVE  /\ HeldBlocks' = (OtherHeld(t) \cup {x}) \ {None}
           /\ HeldBlocks = (OtherHeld(t) \cup {blk[t]}) \ {None}
           /\ OtherHeld(t) \subseteq Blocks
           /\ LastHolder(t) => blk[t] \notin OtherHeld(t)
           /\ ~LastHolder(t) /\ blk[t] # None => blk[t] \in OtherHeld(t)
  <1>1. blk \in [All -> Blocks \cup {None}]
    BY DEF IndInv, Places
  <1>2. blk'[t] = x /\ \A u \in All \ {t} : blk'[u] = blk[u]
    BY <1>1
  <1>3. Range(queue) \subseteq Blocks \cup {None}
    <2>1. queue \in Seq(Blocks \cup {None})
      BY DEF IndInv, Owners
    <2> QED
      BY <2>1, LenProperties DEF Range
  <1> QED
    BY <1>1, <1>2, <1>3 DEF HeldBlocks, OtherHeld, LastHolder

(* Thread t takes block x, or lets its block go (x is None).                 *)
LEMMA SwapParts ==
    ASSUME IndInv, NEW t \in All, NEW x \in Blocks \cup {None}, NEW to,
           at' = [at EXCEPT ![t] = to], blk' = [blk EXCEPT ![t] = x], Shapes', Accounts',
           queue' = queue,
           own' \in [Threads -> 0 .. MaxLines], \A u \in Threads \ {t} : own'[u] = own[u],
           t \in Threads => to \in ThreadAt /\ (to \in Logging => own'[t] # 0),
           t = LogThread => to \in LoggerAt, t = Main => to \in MainAt,
           to \in Holding <=> x # None, x \notin OtherHeld(t),
           to \notin {"text", "push", "print", "write"},
           \A c \in OtherHeld(t) : mem'[c] = mem[c],
           Ended' => /\ t = Main /\ at[LogThread] = "done"
                     /\ \A u \in Threads : at[u] = "idle",
           t = Main /\ None \in Range(queue) => to \in {"join", "clear", "size", "put", "free"},
           Ended => Ended'
    PROVE  Shapes' /\ Places' /\ Owners' /\ Accounts' /\ Texts'
  <1>1. /\ at \in [All -> ThreadAt \cup LoggerAt \cup MainAt]
        /\ blk \in [All -> Blocks \cup {None}]
        /\ at'[t] = to /\ \A u \in All \ {t} : at'[u] = at[u]
        /\ blk'[t] = x /\ \A u \in All \ {t} : blk'[u] = blk[u]
        /\ LogThread \in All /\ Main \in All /\ Threads \subseteq All
        /\ LogThread \notin Threads /\ Main \notin Threads /\ LogThread # Main
    BY Basics DEF IndInv, Places
  <1>2. Places'
    <2>1. at' \in [All -> ThreadAt \cup LoggerAt \cup MainAt]
      BY <1>1 DEF All
    <2>2. blk' \in [All -> Blocks \cup {None}] /\ own' \in [Threads -> 0 .. MaxLines]
      BY <1>1
    <2>3. ASSUME NEW u \in Threads PROVE at'[u] \in ThreadAt /\ (at'[u] \in Logging => own'[u] # 0)
      BY <1>1 DEF IndInv, Places
    <2>4. at'[LogThread] \in LoggerAt /\ at'[Main] \in MainAt
      BY <1>1 DEF IndInv, Places
    <2>5. ASSUME NEW u \in All PROVE blk'[u] # None <=> at'[u] \in Holding
      BY <1>1 DEF IndInv, Places
    <2>6. Ended' => at'[LogThread] = "done" /\ \A u \in Threads : at'[u] = "idle"
      BY <1>1
    <2> QED
      BY <2>1, <2>2, <2>3, <2>4, <2>5, <2>6 DEF Places
  <1>3. \A u \in All \ {t} : x # None => blk[u] # x
    BY DEF OtherHeld
  <1>4. Owners'
    <2>1. queue' \in Seq(Blocks \cup {None}) /\ IsInjective(queue')
      BY DEF IndInv, Owners
    <2>2. None \in Range(queue') => at'[Main] \in {"join", "clear", "size", "put", "free"}
      BY <1>1 DEF IndInv, Owners
    <2>3. ASSUME NEW u \in Threads, NEW v \in Threads, blk'[u] = blk'[v], blk'[u] # None PROVE u = v
      <3>1. CASE u # t /\ v # t
        BY <1>1, <2>3, <3>1 DEF IndInv, Owners
      <3>2. CASE u = t \/ v = t
        BY <1>1, <1>3, <2>3, <3>2
      <3> QED
        BY <3>1, <3>2
    <2>4. ASSUME NEW u \in All, at'[u] \in Sole PROVE LastHolder(u)'
      <3>1. blk'[u] # None
        BY <1>2, <2>4 DEF Places, Sole, Holding
      <3>2. CASE u = t
        <4>1. blk'[t] \notin Range(queue')
          BY <1>1, <3>1, <3>2 DEF OtherHeld
        <4> QED
          BY <1>1, <1>3, <3>1, <3>2, <4>1 DEF LastHolder
      <3>3. CASE u # t
        <4>1. LastHolder(u) /\ blk'[u] = blk[u]
          BY <1>1, <2>4, <3>3 DEF IndInv, Owners
        <4>2. blk'[t] # blk'[u]
          BY <1>1, <1>3, <3>1, <3>3
        <4>3. ASSUME NEW v \in All \ {u} PROVE blk'[v] # blk'[u]
          BY <1>1, <4>1, <4>2 DEF LastHolder
        <4> QED
          BY <4>1, <4>3 DEF LastHolder
      <3> QED
        BY <3>2, <3>3
    <2>5. at'[LogThread] = "write" => blk'[LogThread] \notin Range(queue')
      BY <1>1 DEF IndInv, Owners
    <2> QED
      BY <2>1, <2>2, <2>3, <2>4, <2>5 DEF Owners
  <1>5. Texts'
    <2>1. ASSUME NEW u \in Threads, at'[u] \in {"text", "push", "print"}
          PROVE  HasLine(blk[u])' /\ mem'[blk'[u]].line.id = own'[u]
      <3>1. u # t /\ u \in All /\ at[u] \in {"text", "push", "print"} /\ own'[u] = own[u] /\ blk'[u] = blk[u]
        BY <1>1, <2>1
      <3>2. blk[u] # None
        BY <3>1 DEF IndInv, Places, Holding
      <3>3. mem'[blk[u]] = mem[blk[u]]
        BY <3>1, <3>2 DEF OtherHeld
      <3> QED
        BY <3>1, <3>3 DEF IndInv, Texts, HasLine
    <2>2. \A c \in Range(queue') \ {None} : HasLine(c)'
      <3>1. \A c \in Range(queue) \ {None} : mem'[c] = mem[c]
        BY DEF OtherHeld
      <3> QED
        BY <3>1 DEF IndInv, Texts, HasLine
    <2>3. at'[LogThread] = "write" => HasLine(blk[LogThread])'
      <3> SUFFICES ASSUME at'[LogThread] = "write" PROVE HasLine(blk[LogThread])'
        OBVIOUS
      <3>1. LogThread # t /\ at[LogThread] = "write" /\ blk'[LogThread] = blk[LogThread]
        BY <1>1
      <3>2. blk[LogThread] # None
        BY <1>1, <3>1 DEF IndInv, Places, Holding
      <3>3. mem'[blk[LogThread]] = mem[blk[LogThread]]
        BY <1>1, <3>1, <3>2 DEF OtherHeld
      <3> QED
        BY <3>1, <3>3 DEF IndInv, Texts, HasLine
    <2> QED
      BY <2>1, <2>2, <2>3 DEF Texts
  <1> QED
    BY <1>2, <1>4, <1>5

(* The same, where what is to be written stays as well.                      *)
LEMMA SwapHolds ==
    ASSUME IndInv, NEW t \in All, NEW x \in Blocks \cup {None}, NEW to,
           at' = [at EXCEPT ![t] = to], blk' = [blk EXCEPT ![t] = x], Shapes', Accounts',
           UNCHANGED <<queue, pushed, handled>>,
           own' \in [Threads -> 0 .. MaxLines], \A u \in Threads \ {t} : own'[u] = own[u],
           t \in Threads => to \in ThreadAt /\ (to \in Logging => own'[t] # 0),
           t = LogThread => to \in LoggerAt, t = Main => to \in MainAt,
           to \in Holding <=> x # None, x \notin OtherHeld(t),
           to \notin {"text", "push", "print", "write"}, at[t] # "write",
           \A c \in OtherHeld(t) : mem'[c] = mem[c],
           Ended' => /\ t = Main /\ at[LogThread] = "done"
                     /\ \A u \in Threads : at[u] = "idle",
           t = Main /\ None \in Range(queue) => to \in {"join", "clear", "size", "put", "free"},
           Ended => Ended'
    PROVE  IndInv'
  <1>1. /\ at \in [All -> ThreadAt \cup LoggerAt \cup MainAt]
        /\ blk \in [All -> Blocks \cup {None}]
        /\ at'[t] = to /\ \A u \in All \ {t} : at'[u] = at[u]
        /\ blk'[t] = x /\ \A u \in All \ {t} : blk'[u] = blk[u]
        /\ LogThread \in All /\ Main \in All /\ Threads \subseteq All
        /\ LogThread \notin Threads /\ Main \notin Threads /\ LogThread # Main
    BY Basics DEF IndInv, Places
  <1>2. Shapes' /\ Places' /\ Owners' /\ Accounts' /\ Texts'
    BY SwapParts
  <1>3. Order'
    <2>1. Queued' = Queued
      <3>1. CASE at[LogThread] = "write"
        BY <1>1, <3>1 DEF Queued
      <3>2. CASE at[LogThread] # "write"
        <4>1. at'[LogThread] # "write"
          BY <1>1, <3>2
        <4> QED
          BY <3>2, <4>1 DEF Queued
      <3> QED
        BY <3>1, <3>2
    <2>2. ASSUME NEW c \in Range(Queued) \ {None} PROVE mem'[c].line = mem[c].line
      <3>1. c \in Range(queue) \/ (at[LogThread] = "write" /\ c = blk[LogThread])
        BY QueuedHeld
      <3> QED
        BY <1>1, <3>1 DEF OtherHeld
    <2> QED
      BY <2>1, <2>2, OrderFrame
  <1> QED
    BY <1>2, <1>3 DEF IndInv

(* A block as FreeLog leaves it.                                            *)
LEMMA CleanIs ==
    /\ CleanBlock \in [line : Line \cup {None}, len : Nat \ {0}]
    /\ CleanBlock # None /\ CleanBlock.len = BlockLen
  <1>1. BlockLen \in Nat \ {0}
    BY LoggerAssumption
  <1>2. CleanBlock \in [line : Line \cup {None}, len : Nat \ {0}] /\ CleanBlock.len = BlockLen
    BY <1>1 DEF CleanBlock
  <1>3. CleanBlock \in [line : Line \cup {None}, len : Nat]
    BY <1>2
  <1> QED
    BY <1>2, <1>3, NoneAssumption

(* Every part of the invariant after GetLog, which takes a block of the     *)
(* cache or a new one.                                                      *)
LEMMA GetLogHolds ==
    ASSUME IndInv, NEW t \in Threads, GetLog(t)
    PROVE  IndInv'
  <1> DEFINE M == [Blocks -> {None} \cup [line : Line \cup {None}, len : Nat \ {0}]]
  <1>1. /\ at[t] = "get" /\ at' = [at EXCEPT ![t] = "format"]
        /\ UNCHANGED <<own, lines, setting, files, lineq>>
    BY DEF GetLog, Goto
  <1>2. UNCHANGED <<level, todo, levels, max, queue, pushed, handled, stop, day>>
    BY <1>1 DEF setting, files, lineq
  <1>3. Shapes' /\ own' \in [Threads -> 0 .. MaxLines] /\ own'[t] # 0
    BY <1>1, <1>2 DEF IndInv, Shapes, Places, Logging
  <1>4. t \in All /\ t # LogThread /\ t # Main /\ blk[t] = None /\ ~Ended
    <2>1. t \in All /\ t # LogThread /\ t # Main
      BY Basics
    <2>2. blk[t] = None
      BY <1>1, <2>1 DEF IndInv, Places, Holding
    <2> QED
      BY <1>1, <2>1, <2>2, Basics
  <1>5. ~Ended'
    BY <1>1, <1>4, Basics DEF Ended
  <1>6. /\ cache \in Seq(Blocks) /\ IsInjective(cache) /\ mem \in M
        /\ Range(cache) \cap HeldBlocks = {} /\ Range(cache) \cup HeldBlocks = Allocated
        /\ \A b \in Range(cache) : mem[b].len = BlockLen
    BY DEF IndInv, Accounts
  <1>7. \E x \in Blocks : /\ blk' = [blk EXCEPT ![t] = x] /\ x \notin HeldBlocks /\ Accounts'
                          /\ \A c \in HeldBlocks : mem'[c] = mem[c]
    <2>1. CASE cache # <<>>
      <3> DEFINE x == Head(cache)
      <3>1. blk' = [blk EXCEPT ![t] = x] /\ cache' = Tail(cache) /\ mem' = mem
        BY <2>1 DEF GetLog, Take
      <3>2. /\ cache' \in Seq(Blocks) /\ IsInjective(cache') /\ x \in Blocks /\ x \in Range(cache)
            /\ Range(cache') = Range(cache) \ {x}
        BY <1>6, <2>1, <3>1, Tailed
      <3> HIDE DEF x
      <3>3. x # None /\ x \notin HeldBlocks
        BY <1>6, <3>2, NoneAssumption
      <3>4. HeldBlocks' = HeldBlocks \cup {x}
        <4>1. /\ HeldBlocks' = (OtherHeld(t) \cup {x}) \ {None}
              /\ HeldBlocks = (OtherHeld(t) \cup {blk[t]}) \ {None}
          BY <1>2, <1>4, <3>1, <3>2, HeldAfter
        <4> QED
          BY <1>4, <3>3, <4>1
      <3>5. Allocated' = Allocated
        BY <3>1 DEF Allocated
      <3>6. Accounts'
        BY <1>6, <3>1, <3>2, <3>3, <3>4, <3>5 DEF Accounts
      <3> QED
        BY <3>1, <3>2, <3>3, <3>6
    <2>2. CASE cache = <<>>
      <3> DEFINE x == NewBlock
      <3>1. /\ blk' = [blk EXCEPT ![t] = x] /\ cache' = cache /\ mem' = [mem EXCEPT ![x] = CleanBlock]
            /\ Allocated # Blocks
        BY <2>2 DEF GetLog, Take
      <3>2. x \in Blocks /\ x \notin Allocated
        BY <3>1, NewBlockIs
      <3> HIDE DEF x
      <3>3. x # None /\ x \notin HeldBlocks /\ x \notin Range(cache)
        BY <1>6, <3>2, NoneAssumption
      <3>4. HeldBlocks' = HeldBlocks \cup {x}
        <4>1. /\ HeldBlocks' = (OtherHeld(t) \cup {x}) \ {None}
              /\ HeldBlocks = (OtherHeld(t) \cup {blk[t]}) \ {None}
          BY <1>2, <1>4, <3>1, <3>2, HeldAfter
        <4> QED
          BY <1>4, <3>3, <4>1
      <3>5. mem' \in M /\ mem'[x] = CleanBlock /\ \A c \in Blocks \ {x} : mem'[c] = mem[c]
        BY <1>6, <3>1, <3>2, CleanIs
      <3>6. Allocated' = Allocated \cup {x}
        BY <3>2, <3>5, CleanIs DEF Allocated
      <3>7. HeldBlocks \subseteq Blocks /\ Range(cache) \subseteq Blocks
        BY <1>6 DEF Allocated
      <3>8. \A c \in HeldBlocks \cup Range(cache) : mem'[c] = mem[c]
        BY <3>3, <3>5, <3>7
      <3>9. Accounts'
        BY <1>6, <3>1, <3>3, <3>4, <3>5, <3>6, <3>8 DEF Accounts
      <3> QED
        BY <3>1, <3>2, <3>3, <3>8, <3>9
    <2> QED
      BY <2>1, <2>2
  <1>8. PICK x \in Blocks : /\ blk' = [blk EXCEPT ![t] = x] /\ x \notin HeldBlocks /\ Accounts'
                            /\ \A c \in HeldBlocks : mem'[c] = mem[c]
    BY <1>7
  <1>9. OtherHeld(t) \subseteq HeldBlocks /\ x # None
    BY <1>4, NoneAssumption DEF OtherHeld, HeldBlocks
  <1> QED
    BY <1>1, <1>2, <1>3, <1>4, <1>5, <1>8, <1>9, SwapHolds
       DEF ThreadAt, LoggerAt, MainAt, Logging, Holding

(* Where a thread goes on after FreeLog.                                    *)
LEMMA ResumeIs ==
    ASSUME NEW t \in All
    PROVE  /\ t \in Threads => Resume(t) = "idle"
           /\ t = LogThread => Resume(t) = "loop"
           /\ t = Main => Resume(t) = "clear"
  BY ThreadsAssumption DEF Resume, All, LogThread, Main

(* FreeLog ends: thread t, the last holder, has no block any more.           *)
LEMMA LeaveHolds ==
    ASSUME IndInv, NEW t \in All, at[t] \in {"put", "free"}, Accounts',
           at' = [at EXCEPT ![t] = Resume(t)], blk' = [blk EXCEPT ![t] = None],
           \A c \in Blocks \ {blk[t]} : mem'[c] = mem[c],
           UNCHANGED <<own, lines, setting, files, lineq>>
    PROVE  IndInv'
  <1> DEFINE to == Resume(t)
  <1>1. UNCHANGED <<level, todo, levels, max, queue, pushed, handled, stop, day>>
    BY DEF setting, files, lineq
  <1>2. Shapes' /\ own' \in [Threads -> 0 .. MaxLines]
    BY <1>1 DEF IndInv, Shapes, Places
  <1>3. LastHolder(t)
    BY DEF IndInv, Owners, Sole
  <1>4. \A c \in OtherHeld(t) : mem'[c] = mem[c]
    <2>1. OtherHeld(t) \subseteq Blocks /\ blk[t] \notin OtherHeld(t)
      BY <1>1, <1>3, HeldAfter
    <2> QED
      BY <2>1
  <1>5. None \notin OtherHeld(t)
    BY DEF OtherHeld
  <1>6. /\ t \in Threads => to = "idle" /\ t # LogThread /\ t # Main
        /\ t = LogThread => to = "loop" /\ t # Main
        /\ t = Main => to = "clear"
        /\ to \in {"idle", "loop", "clear"}
    BY ResumeIs, Basics DEF All
  <1> HIDE DEF to
  <1>7. Ended => t = Main
    BY <1>6, Basics DEF All
  <1>8. Ended' <=> Ended
    <2>1. CASE t = Main
      BY <1>6, <2>1, Basics DEF Ended, to
    <2>2. CASE t # Main
      BY <2>2, Basics DEF Ended
    <2> QED
      BY <2>1, <2>2
  <1> QED
    BY <1>1, <1>2, <1>4, <1>5, <1>6, <1>7, <1>8, Basics, SwapHolds
       DEF ThreadAt, LoggerAt, MainAt, Logging, Holding, to

(* FreeLog puts the block back.                                             *)
LEMMA FreeLogPutHolds ==
    ASSUME IndInv, NEW t \in All, FreeLogPut(t)
    PROVE  IndInv'
  <1> DEFINE M == [Blocks -> {None} \cup [line : Line \cup {None}, len : Nat \ {0}]]
             b == blk[t]
  <1>1. /\ at[t] = "put" /\ at' = [at EXCEPT ![t] = Resume(t)] /\ blk' = [blk EXCEPT ![t] = None]
        /\ cache' = Append(cache, b) /\ mem' = [mem EXCEPT ![b] = CleanBlock]
        /\ UNCHANGED <<own, lines, setting, files, lineq>>
    BY DEF FreeLogPut, Goto, Take
  <1>2. b \in Blocks /\ b \in HeldBlocks /\ b \notin Range(cache) /\ LastHolder(t)
    BY <1>1, HandIsHeld DEF Holding, IndInv, Owners, Sole
  <1>3. /\ cache \in Seq(Blocks) /\ IsInjective(cache) /\ mem \in M
        /\ Range(cache) \cap HeldBlocks = {} /\ Range(cache) \cup HeldBlocks = Allocated
        /\ \A c \in Range(cache) : mem[c].len = BlockLen
    BY DEF IndInv, Accounts
  <1>4. queue' = queue
    BY <1>1 DEF lineq
  <1>5. HeldBlocks' = HeldBlocks \ {b}
    <2>1. /\ HeldBlocks' = (OtherHeld(t) \cup {None}) \ {None}
          /\ HeldBlocks = (OtherHeld(t) \cup {b}) \ {None}
          /\ b \notin OtherHeld(t)
      BY <1>1, <1>2, <1>4, HeldAfter
    <2>2. b # None
      BY <1>2, NoneAssumption
    <2> QED
      BY <2>1, <2>2
  <1> HIDE DEF b
  <1>6. /\ cache' \in Seq(Blocks) /\ IsInjective(cache') /\ Range(cache') = Range(cache) \cup {b}
    BY <1>1, <1>2, <1>3, Appended
  <1>7. mem' \in M /\ mem'[b] = CleanBlock /\ \A c \in Blocks \ {b} : mem'[c] = mem[c]
    BY <1>1, <1>2, <1>3, CleanIs
  <1>8. Allocated' = Allocated
    <2>1. b \in Allocated
      BY <1>2, <1>3
    <2> QED
      BY <1>2, <1>7, <2>1, CleanIs DEF Allocated
  <1>9. ASSUME NEW c \in Range(cache') PROVE mem'[c].len = BlockLen
    <2>1. CASE c = b
      BY <1>7, <2>1, CleanIs
    <2>2. CASE c # b
      BY <1>3, <1>6, <1>7, <2>2 DEF Allocated
    <2> QED
      BY <2>1, <2>2
  <1>10. Range(cache') \cap HeldBlocks' = {} /\ Range(cache') \cup HeldBlocks' = Allocated'
    BY <1>2, <1>3, <1>5, <1>6, <1>8
  <1>11. Accounts'
    BY <1>6, <1>7, <1>9, <1>10 DEF Accounts
  <1> QED
    BY <1>1, <1>7, <1>11, LeaveHolds DEF b

(* FreeLog frees the block.                                                 *)
LEMMA FreeLogFreeHolds ==
    ASSUME IndInv, NEW t \in All, FreeLogFree(t)
    PROVE  IndInv'
  <1> DEFINE M == [Blocks -> {None} \cup [line : Line \cup {None}, len : Nat \ {0}]]
             b == blk[t]
  <1>1. /\ at[t] = "free" /\ at' = [at EXCEPT ![t] = Resume(t)] /\ blk' = [blk EXCEPT ![t] = None]
        /\ cache' = cache /\ mem' = [mem EXCEPT ![b] = None]
        /\ UNCHANGED <<own, lines, setting, files, lineq>>
    BY DEF FreeLogFree, Goto, Take
  <1>2. b \in Blocks /\ b \in HeldBlocks /\ b \notin Range(cache) /\ LastHolder(t)
    BY <1>1, HandIsHeld DEF Holding, IndInv, Owners, Sole
  <1>3. /\ cache \in Seq(Blocks) /\ IsInjective(cache) /\ mem \in M
        /\ Range(cache) \cap HeldBlocks = {} /\ Range(cache) \cup HeldBlocks = Allocated
        /\ \A c \in Range(cache) : mem[c].len = BlockLen
    BY DEF IndInv, Accounts
  <1>4. queue' = queue
    BY <1>1 DEF lineq
  <1>5. HeldBlocks' = HeldBlocks \ {b}
    <2>1. /\ HeldBlocks' = (OtherHeld(t) \cup {None}) \ {None}
          /\ HeldBlocks = (OtherHeld(t) \cup {b}) \ {None}
          /\ b \notin OtherHeld(t)
      BY <1>1, <1>2, <1>4, HeldAfter
    <2>2. b # None
      BY <1>2, NoneAssumption
    <2> QED
      BY <2>1, <2>2
  <1> HIDE DEF b
  <1>6. mem' \in M /\ mem'[b] = None /\ \A c \in Blocks \ {b} : mem'[c] = mem[c]
    BY <1>1, <1>2, <1>3
  <1>7. Allocated' = Allocated \ {b}
    BY <1>2, <1>6 DEF Allocated
  <1>8. ASSUME NEW c \in Range(cache') PROVE mem'[c].len = BlockLen
    BY <1>1, <1>2, <1>3, <1>6 DEF Allocated
  <1>9. Range(cache') \cap HeldBlocks' = {} /\ Range(cache') \cup HeldBlocks' = Allocated'
    BY <1>1, <1>2, <1>3, <1>5, <1>7
  <1>10. Accounts'
    BY <1>1, <1>3, <1>6, <1>8, <1>9 DEF Accounts
  <1> QED
    BY <1>1, <1>6, <1>10, LeaveHolds DEF b

(* A caller prints its line and lets its block go.                           *)
LEMMA PrintLineHolds ==
    ASSUME IndInv, NEW t \in Threads, PrintLine(t)
    PROVE  IndInv'
  <1>1. /\ at[t] = "print" /\ Release(t) /\ own' = [own EXCEPT ![t] = 0]
        /\ UNCHANGED <<lines, blocks, setting, files, lineq>>
    BY DEF PrintLine
  <1>2. UNCHANGED <<level, todo, levels, max, queue, pushed, handled, stop, day, cache, mem>>
    BY <1>1 DEF setting, files, lineq, blocks
  <1>3. own \in [Threads -> 0 .. MaxLines] /\ 0 \in 0 .. MaxLines
    BY LoggerAssumption DEF IndInv, Places
  <1>4. Shapes' /\ own' \in [Threads -> 0 .. MaxLines] /\ \A u \in Threads \ {t} : own'[u] = own[u]
    BY <1>1, <1>2, <1>3 DEF IndInv, Shapes
  <1>5. t \in All /\ t # LogThread /\ t # Main /\ ~Ended
    BY <1>1, Basics
  <1>6. Resume(t) = "idle"
    BY <1>5, ResumeIs
  <1>7. CASE LastHolder(t)
    <2>1. at' = [at EXCEPT ![t] = "size"] /\ blk' = blk
      BY <1>1, <1>7 DEF Release, Goto
    <2>2. ~Ended'
      BY <1>5, <2>1, Basics DEF Ended
    <2> QED
      BY <1>1, <1>2, <1>4, <1>5, <1>7, <2>1, <2>2, MoveHolds
         DEF ThreadAt, Logging, Holding, blocks
  <1>8. CASE ~LastHolder(t)
    <2>1. at' = [at EXCEPT ![t] = "idle"] /\ blk' = [blk EXCEPT ![t] = None]
      BY <1>1, <1>6, <1>8 DEF Release, Goto, Take
    <2>2. ~Ended'
      BY <1>5, <2>1, Basics DEF Ended
    <2>3. HeldBlocks' = HeldBlocks
      <3>1. blk[t] # None
        BY <1>1, <1>5 DEF IndInv, Places, Holding
      <3>2. /\ HeldBlocks' = (OtherHeld(t) \cup {None}) \ {None}
            /\ HeldBlocks = (OtherHeld(t) \cup {blk[t]}) \ {None}
            /\ blk[t] \in OtherHeld(t)
        BY <1>2, <1>5, <1>8, <2>1, <3>1, HeldAfter
      <3> QED
        BY <3>1, <3>2
    <2>4. Accounts'
      BY <1>2, <2>3 DEF IndInv, Accounts, Allocated
    <2>5. None \notin OtherHeld(t)
      BY DEF OtherHeld
    <2> QED
      BY <1>1, <1>2, <1>4, <1>5, <2>1, <2>2, <2>4, <2>5, SwapHolds
         DEF ThreadAt, Logging, Holding
  <1> QED
    BY <1>7, <1>8

(* SetLevel fills or empties the cache: no thread has these blocks.          *)
LEMMA CacheHolds ==
    ASSUME IndInv, Shapes', Accounts', UNCHANGED <<calls, queue, pushed, handled>>,
           \A c \in HeldBlocks : mem'[c] = mem[c]
    PROVE  IndInv'
  <1>1. UNCHANGED <<at, blk, own, lines, queue, pushed, handled>>
    BY DEF calls
  <1>2. Places'
    BY <1>1 DEF IndInv, Places, Ended
  <1>3. Owners'
    BY <1>1 DEF IndInv, Owners, LastHolder
  <1>4. \A c \in Range(queue) \ {None} : mem'[c] = mem[c]
    BY DEF HeldBlocks
  <1>5. \A t \in All : blk[t] # None => mem'[blk[t]] = mem[blk[t]]
    BY DEF HeldBlocks
  <1>6. Texts'
    <2>1. ASSUME NEW u \in Threads, at'[u] \in {"text", "push", "print"}
          PROVE  HasLine(blk[u])' /\ mem'[blk'[u]].line.id = own'[u]
      <3>1. u \in All /\ blk[u] # None
        BY <1>1, <2>1, Basics DEF IndInv, Places, Holding
      <3> QED
        BY <1>1, <1>5, <2>1, <3>1 DEF IndInv, Texts, HasLine
    <2>2. \A c \in Range(queue') \ {None} : HasLine(c)'
      BY <1>1, <1>4 DEF IndInv, Texts, HasLine
    <2>3. at'[LogThread] = "write" => HasLine(blk[LogThread])'
      <3> SUFFICES ASSUME at'[LogThread] = "write" PROVE HasLine(blk[LogThread])'
        OBVIOUS
      <3>1. LogThread \in All /\ blk[LogThread] # None
        BY <1>1, Basics DEF IndInv, Places, Holding
      <3> QED
        BY <1>1, <1>5, <3>1 DEF IndInv, Texts, HasLine
    <2> QED
      BY <2>1, <2>2, <2>3 DEF Texts
  <1>7. Order'
    <2>1. Queued' = Queued /\ (Ended' <=> Ended)
      BY <1>1 DEF Queued, Ended
    <2>2. ASSUME NEW c \in Range(Queued) \ {None} PROVE mem'[c].line = mem[c].line
      <3>1. c \in Range(queue) \/ (at[LogThread] = "write" /\ c = blk[LogThread])
        BY QueuedHeld
      <3> QED
        BY <1>4, <1>5, <3>1, Basics
    <2> QED
      BY <1>1, <2>1, <2>2, OrderFrame
  <1> QED
    BY <1>2, <1>3, <1>6, <1>7 DEF IndInv

(* Every part of the invariant after SetLevel has put a new block into the  *)
(* cache.                                                                   *)
LEMMA FillCacheHolds ==
    ASSUME IndInv, FillCache
    PROVE  IndInv'
  <1> DEFINE M == [Blocks -> {None} \cup [line : Line \cup {None}, len : Nat \ {0}]]
             x == NewBlock
  <1>1. /\ todo > 0 /\ Allocated # Blocks /\ mem' = [mem EXCEPT ![x] = CleanBlock]
        /\ cache' = Append(cache, x) /\ todo' = todo - 1
        /\ UNCHANGED <<calls, level, levels, files, lineq>>
    BY DEF FillCache
  <1>2. UNCHANGED <<lines, level, levels, max, queue, pushed, handled, stop, day, at, blk>>
    BY <1>1 DEF calls, files, lineq
  <1>3. Shapes'
    BY <1>1, <1>2 DEF IndInv, Shapes
  <1>4. /\ cache \in Seq(Blocks) /\ IsInjective(cache) /\ mem \in M
        /\ Range(cache) \cap HeldBlocks = {} /\ Range(cache) \cup HeldBlocks = Allocated
        /\ \A b \in Range(cache) : mem[b].len = BlockLen
    BY DEF IndInv, Accounts
  <1>5. x \in Blocks /\ x \notin Allocated
    BY <1>1, NewBlockIs
  <1> HIDE DEF x
  <1>6. x \notin HeldBlocks /\ x \notin Range(cache) /\ HeldBlocks \subseteq Blocks
        /\ Range(cache) \subseteq Blocks
    BY <1>4, <1>5 DEF Allocated
  <1>7. mem' \in M /\ mem'[x] = CleanBlock /\ \A c \in Blocks \ {x} : mem'[c] = mem[c]
    BY <1>1, <1>4, <1>5, CleanIs
  <1>8. HeldBlocks' = HeldBlocks
    BY <1>2 DEF HeldBlocks
  <1>9. Allocated' = Allocated \cup {x}
    BY <1>5, <1>7, CleanIs DEF Allocated
  <1>10. cache' \in Seq(Blocks) /\ IsInjective(cache') /\ Range(cache') = Range(cache) \cup {x}
    BY <1>1, <1>4, <1>5, <1>6, Appended
  <1>11. ASSUME NEW c \in Range(cache') PROVE mem'[c].len = BlockLen
    <2>1. CASE c = x
      BY <1>7, <2>1, CleanIs
    <2>2. CASE c # x
      BY <1>4, <1>6, <1>7, <1>10, <2>2
    <2> QED
      BY <2>1, <2>2
  <1>12. Range(cache') \cap HeldBlocks' = {} /\ Range(cache') \cup HeldBlocks' = Allocated'
    BY <1>4, <1>6, <1>8, <1>9, <1>10
  <1>13. Accounts'
    BY <1>7, <1>10, <1>11, <1>12 DEF Accounts
  <1>14. \A c \in HeldBlocks : mem'[c] = mem[c]
    BY <1>6, <1>7
  <1> QED
    BY <1>1, <1>2, <1>3, <1>13, <1>14, CacheHolds

(* Every part of the invariant after SetLevel has freed a block of the      *)
(* cache.                                                                   *)
LEMMA DrainCacheHolds ==
    ASSUME IndInv, DrainCache
    PROVE  IndInv'
  <1> DEFINE M == [Blocks -> {None} \cup [line : Line \cup {None}, len : Nat \ {0}]]
  <1>1. todo > 0 /\ todo' = todo - 1 /\ UNCHANGED <<calls, level, levels, files, lineq>>
    BY DEF DrainCache
  <1>2. UNCHANGED <<lines, level, levels, max, queue, pushed, handled, stop, day, at, blk>>
    BY <1>1 DEF calls, files, lineq
  <1>3. Shapes'
    BY <1>1, <1>2 DEF IndInv, Shapes
  <1>4. CASE cache = <<>>
    <2>1. UNCHANGED blocks
      BY <1>4 DEF DrainCache
    <2> QED
      BY <1>1, <1>2, <1>3, <2>1, StillHolds
  <1>5. CASE cache # <<>>
    <2> DEFINE x == Head(cache)
    <2>1. mem' = [mem EXCEPT ![x] = None] /\ cache' = Tail(cache)
      BY <1>5 DEF DrainCache
    <2>2. /\ cache \in Seq(Blocks) /\ IsInjective(cache) /\ mem \in M
          /\ Range(cache) \cap HeldBlocks = {} /\ Range(cache) \cup HeldBlocks = Allocated
          /\ \A b \in Range(cache) : mem[b].len = BlockLen
      BY DEF IndInv, Accounts
    <2>3. /\ cache' \in Seq(Blocks) /\ IsInjective(cache') /\ x \in Blocks /\ x \in Range(cache)
          /\ Range(cache') = Range(cache) \ {x}
      BY <1>5, <2>1, <2>2, Tailed
    <2> HIDE DEF x
    <2>4. x \notin HeldBlocks /\ HeldBlocks \subseteq Blocks /\ Range(cache) \subseteq Blocks
      BY <2>2, <2>3 DEF Allocated
    <2>5. mem' \in M /\ mem'[x] = None /\ \A c \in Blocks \ {x} : mem'[c] = mem[c]
      BY <2>1, <2>2, <2>3
    <2>6. HeldBlocks' = HeldBlocks
      BY <1>2 DEF HeldBlocks
    <2>7. Allocated' = Allocated \ {x}
      BY <2>3, <2>5 DEF Allocated
    <2>8. \A c \in Range(cache') : mem'[c].len = BlockLen
      BY <2>2, <2>3, <2>4, <2>5
    <2>9. Range(cache') \cap HeldBlocks' = {} /\ Range(cache') \cup HeldBlocks' = Allocated'
      BY <2>2, <2>3, <2>4, <2>6, <2>7
    <2>10. Accounts'
      BY <2>3, <2>5, <2>8, <2>9 DEF Accounts
    <2>11. \A c \in HeldBlocks : mem'[c] = mem[c]
      BY <2>4, <2>5
    <2> QED
      BY <1>1, <1>2, <1>3, <2>10, <2>11, CacheHolds
  <1> QED
    BY <1>4, <1>5

-----------------------------------------------------------------------------
(* The queue.                                                               *)

(* One more element, x, at the end of the queue; thread t goes on.           *)
LEMMA QueueGrows ==
    ASSUME IndInv, NEW t \in All, NEW to, NEW x \in Blocks \cup {None}, x \notin Range(queue),
           at' = [at EXCEPT ![t] = to], queue' = Append(queue, x),
           UNCHANGED <<blk, own, lines, blocks>>,
           \/ t \in Threads /\ at[t] = "push" /\ to = "print" /\ x = blk[t]
           \/ t = Main /\ at[t] = "null" /\ to = "join" /\ x = None
    PROVE  Places' /\ Owners' /\ Accounts' /\ Texts'
  <1>1. /\ at \in [All -> ThreadAt \cup LoggerAt \cup MainAt]
        /\ at'[t] = to /\ \A u \in All \ {t} : at'[u] = at[u]
        /\ LogThread \in All /\ Main \in All /\ Threads \subseteq All
        /\ LogThread \notin Threads /\ Main \notin Threads /\ LogThread # Main /\ t # LogThread
        /\ UNCHANGED <<cache, mem>>
    BY Basics DEF IndInv, Places, blocks
  <1>2. /\ queue' \in Seq(Blocks \cup {None}) /\ IsInjective(queue')
        /\ Range(queue') = Range(queue) \cup {x}
    BY Appended DEF IndInv, Owners
  <1>3. ~Ended /\ ~Ended'
    BY <1>1, Basics DEF Ended
  <1>4. /\ x # None => t \in Threads /\ x = blk[t] /\ LastHolder(t) /\ HasLine(x)
        /\ x = None => t = Main
    <2>1. t \in Threads => blk[t] # None /\ LastHolder(t) /\ HasLine(blk[t])
      <3> SUFFICES ASSUME t \in Threads PROVE blk[t] # None /\ LastHolder(t) /\ HasLine(blk[t])
        OBVIOUS
      <3>1. at[t] = "push"
        BY <1>1
      <3> QED
        BY <3>1 DEF IndInv, Places, Owners, Texts, Holding, Sole
    <2> QED
      BY <1>1, <2>1
  <1>5. Places'
    <2>1. at' \in [All -> ThreadAt \cup LoggerAt \cup MainAt]
      BY <1>1 DEF ThreadAt, MainAt, All
    <2>2. ASSUME NEW u \in Threads PROVE at'[u] \in ThreadAt /\ (at'[u] \in Logging => own'[u] # 0)
      BY <1>1 DEF IndInv, Places, ThreadAt, Logging
    <2>3. at'[LogThread] \in LoggerAt /\ at'[Main] \in MainAt
      BY <1>1 DEF IndInv, Places, MainAt
    <2>4. ASSUME NEW u \in All PROVE blk'[u] # None <=> at'[u] \in Holding
      BY <1>1 DEF IndInv, Places, Holding
    <2> QED
      BY <1>3, <2>1, <2>2, <2>3, <2>4 DEF IndInv, Places
  <1>6. Owners'
    <2>1. None \in Range(queue') => at'[Main] \in {"join", "clear", "size", "put", "free"}
      <3>1. CASE x = None
        BY <1>1, <1>4, <3>1
      <3>2. CASE x # None
        BY <1>1, <1>2, <1>4, <3>2 DEF IndInv, Owners
      <3> QED
        BY <3>1, <3>2
    <2>2. \A u, v \in Threads : blk'[u] = blk'[v] /\ blk'[u] # None => u = v
      BY DEF IndInv, Owners
    <2>3. ASSUME NEW u \in All, at'[u] \in Sole PROVE LastHolder(u)'
      <3>1. u # t /\ at[u] \in Sole
        BY <1>1, <2>3 DEF Sole
      <3>2. LastHolder(u) /\ blk[u] # None
        BY <3>1 DEF IndInv, Owners, Places, Sole, Holding
      <3>3. blk[u] # x
        BY <1>4, <3>1, <3>2 DEF LastHolder
      <3> QED
        BY <1>2, <3>2, <3>3 DEF LastHolder
    <2>4. at'[LogThread] = "write" => blk'[LogThread] \notin Range(queue')
      <3> SUFFICES ASSUME at'[LogThread] = "write" PROVE blk[LogThread] \notin Range(queue')
        OBVIOUS
      <3>1. at[LogThread] = "write"
        BY <1>1
      <3>2. blk[LogThread] \notin Range(queue) /\ blk[LogThread] # None
        BY <1>1, <3>1 DEF IndInv, Owners, Places, Holding
      <3>3. blk[LogThread] # x
        BY <1>1, <1>4, <3>2 DEF LastHolder
      <3> QED
        BY <1>2, <3>2, <3>3
    <2> QED
      BY <1>2, <2>1, <2>2, <2>3, <2>4 DEF Owners
  <1>7. Accounts'
    <2>1. HeldBlocks' = HeldBlocks
      BY <1>1, <1>2, <1>4 DEF HeldBlocks
    <2> QED
      BY <1>1, <2>1 DEF IndInv, Accounts, Allocated
  <1>8. Texts'
    <2>1. ASSUME NEW u \in Threads, at'[u] \in {"text", "push", "print"}
          PROVE  HasLine(blk[u])' /\ mem'[blk'[u]].line.id = own'[u]
      BY <1>1, <2>1 DEF IndInv, Texts, HasLine
    <2>2. \A c \in Range(queue') \ {None} : HasLine(c)'
      BY <1>1, <1>2, <1>4 DEF IndInv, Texts, HasLine
    <2>3. at'[LogThread] = "write" => HasLine(blk[LogThread])'
      BY <1>1 DEF IndInv, Texts, HasLine
    <2> QED
      BY <2>1, <2>2, <2>3 DEF Texts
  <1> QED
    BY <1>5, <1>6, <1>7, <1>8

(* What is to be written grows with the queue.                               *)
LEMMA QueuedGrows ==
    ASSUME IndInv, NEW x \in Blocks \cup {None}, queue' = Append(queue, x),
           at'[LogThread] = at[LogThread], blk' = blk
    PROVE  Queued' = Append(Queued, x)
  <1>1. queue \in Seq(Blocks \cup {None})
    BY DEF IndInv, Owners
  <1>2. CASE at[LogThread] = "write"
    <2>1. Queued = <<blk[LogThread]>> \o queue /\ blk[LogThread] \in Blocks
      BY <1>2, QueuedHeld
    <2>2. Queued' = <<blk[LogThread]>> \o Append(queue, x)
      BY <1>2 DEF Queued
    <2> QED
      BY <1>1, <2>1, <2>2, HandThenAppend
  <1>3. CASE at[LogThread] # "write"
    <2>1. Queued = queue
      BY <1>3, QueuedHeld
    <2>2. Queued' = <<>> \o Append(queue, x)
      BY <1>3 DEF Queued
    <2>3. Append(queue, x) \in Seq(Blocks \cup {None})
      BY <1>1, AppendProperties
    <2> QED
      BY <2>1, <2>2, <2>3, ConcatEmptySeq
  <1> QED
    BY <1>2, <1>3

(* A caller pushes its line.                                                *)
LEMMA PushHolds ==
    ASSUME IndInv, NEW t \in Threads, Push(t)
    PROVE  IndInv'
  <1> DEFINE b == blk[t]
             l == mem[b].line
  <1>1. /\ at[t] = "push" /\ at' = [at EXCEPT ![t] = "print"]
        /\ queue' = Append(queue, b) /\ pushed' = Append(pushed, l) /\ handled' = handled
        /\ UNCHANGED <<blk, own, lines, blocks, setting, files, stop, day, handled>>
    BY DEF Push, Goto
  <1>2. UNCHANGED <<level, todo, levels, max, stop, day, lines, cache, mem>>
    BY <1>1 DEF setting, files, blocks
  <1>3. Shapes'
    BY <1>2 DEF IndInv, Shapes
  <1>4. t \in All /\ t # LogThread /\ t # Main /\ ~Ended
    BY <1>1, Basics
  <1>5. b \in Blocks /\ b \notin Range(queue) /\ l \in Line
    <2>1. b \in Blocks
      BY <1>1, <1>4, HandIsHeld DEF Holding
    <2>2. b \notin Range(queue)
      BY <1>1, <1>4 DEF IndInv, Owners, Sole, LastHolder
    <2>3. l \in Line
      BY <1>1 DEF IndInv, Texts, HasLine
    <2> QED
      BY <2>1, <2>2, <2>3
  <1>6. Places' /\ Owners' /\ Accounts' /\ Texts'
    BY <1>1, <1>4, <1>5, QueueGrows
  <1>7. Order'
    <2>1. Queued' = Append(Queued, b)
      BY <1>1, <1>4, <1>5, Basics, QueuedGrows
    <2>2. /\ Queued \in Seq(Blocks \cup {None}) /\ pushed \in Seq(Line) /\ handled \in Nat
          /\ Holds(Queued, mem, pushed, handled) /\ handled <= Len(pushed) /\ Len(pushed) \in Nat
      BY <1>4, QueuedHeld, LenProperties DEF IndInv, Order
    <2>3. Holds(Append(Queued, b), mem, Append(pushed, l), handled)
      BY <1>5, <2>2, HoldsAppend
    <2>4. Append(pushed, l) \in Seq(Line) /\ Len(Append(pushed, l)) = Len(pushed) + 1
      BY <1>5, <2>2, AppendProperties
    <2>5. handled' \in 0 .. Len(pushed')
      BY <1>1, <2>2, <2>4
    <2> QED
      BY <1>1, <1>2, <2>1, <2>3, <2>4, <2>5 DEF Order
  <1> QED
    BY <1>3, <1>6, <1>7 DEF IndInv

(* Stop pushes the nullptr.                                                 *)
LEMMA StopPushHolds ==
    ASSUME IndInv, StopPush
    PROVE  IndInv'
  <1>1. /\ at[Main] = "null" /\ at' = [at EXCEPT ![Main] = "join"] /\ queue' = Append(queue, None)
        /\ UNCHANGED <<blk, own, lines, blocks, setting, files, pushed, handled, stop, day>>
    BY DEF StopPush, Goto
  <1>2. UNCHANGED <<level, todo, levels, max, stop, day, lines, cache, mem>>
    BY <1>1 DEF setting, files, blocks
  <1>3. Shapes'
    BY <1>2 DEF IndInv, Shapes
  <1>4. Main \in All /\ Main # LogThread /\ ~Ended /\ None \notin Range(queue)
    BY <1>1, Basics, NoNull DEF Ended
  <1>5. Places' /\ Owners' /\ Accounts' /\ Texts'
    BY <1>1, <1>4, QueueGrows
  <1>6. Order'
    <2>1. Queued' = Append(Queued, None)
      BY <1>1, <1>4, Basics, QueuedGrows
    <2>2. Queued \in Seq(Blocks \cup {None}) /\ Holds(Queued, mem, pushed, handled)
      BY <1>4, QueuedHeld DEF IndInv, Order
    <2>3. None \notin Range(Queued)
      <3>1. CASE at[LogThread] # "write"
        BY <1>4, <3>1, QueuedHeld
      <3>2. CASE at[LogThread] = "write"
        <4> DEFINE h == blk[LogThread]
                   Q == <<h>> \o queue
        <4>1. Queued = Q /\ h \in Blocks /\ queue \in Seq(Blocks \cup {None})
          BY <3>2, QueuedHeld DEF IndInv, Owners
        <4> HIDE DEF h
        <4>2. /\ Q \in Seq(Blocks \cup {None}) /\ Len(Q) = Len(queue) + 1 /\ Q[1] = h
              /\ \A i \in 1 .. Len(queue) : Q[i + 1] = queue[i]
          BY <4>1, QueuedIs
        <4>3. DOMAIN Q = 1 .. Len(queue) + 1 /\ DOMAIN queue = 1 .. Len(queue) /\ Len(queue) \in Nat
          BY <4>1, <4>2, LenProperties
        <4> HIDE DEF Q
        <4>4. ASSUME NEW i \in 1 .. Len(queue) + 1 PROVE Q[i] # None
          <5>1. CASE i = 1
            BY <4>1, <4>2, <5>1, NoneAssumption
          <5>2. CASE i # 1
            <6>1. i - 1 \in 1 .. Len(queue) /\ (i - 1) + 1 = i
              BY <4>3, <5>2
            <6> QED
              BY <1>4, <4>2, <4>3, <6>1 DEF Range
          <5> QED
            BY <5>1, <5>2
        <4> QED
          BY <4>1, <4>3, <4>4 DEF Range
      <3> QED
        BY <3>1, <3>2
    <2>4. Holds(Append(Queued, None), mem, pushed, handled)
      BY <2>2, <2>3, HoldsNull
    <2> QED
      BY <1>1, <1>2, <2>1, <2>4 DEF IndInv, Order
  <1> QED
    BY <1>3, <1>5, <1>6 DEF IndInv

(* Thread t, the logger's or the main one, takes the first of the queue.     *)
LEMMA HeadTaken ==
    ASSUME IndInv, NEW t \in {LogThread, Main}, NEW to, queue # <<>>, at[t] \in {"pop", "clear"},
           at' = [at EXCEPT ![t] = to], blk' = [blk EXCEPT ![t] = Head(queue)],
           queue' = Tail(queue), UNCHANGED <<own, lines, blocks>>,
           t = LogThread => to = IF Head(queue) = None THEN "done" ELSE "write",
           t = Main => /\ to = IF Head(queue) = None THEN "clear" ELSE "size"
                       /\ at[Main] = "clear"
    PROVE  Places' /\ Owners' /\ Accounts' /\ Texts'
  <1> DEFINE b == Head(queue)
  <1>1. /\ at \in [All -> ThreadAt \cup LoggerAt \cup MainAt]
        /\ blk \in [All -> Blocks \cup {None}] /\ t \in All
        /\ at'[t] = to /\ \A u \in All \ {t} : at'[u] = at[u]
        /\ blk'[t] = b /\ \A u \in All \ {t} : blk'[u] = blk[u]
        /\ LogThread \in All /\ Main \in All /\ Threads \subseteq All
        /\ LogThread \notin Threads /\ Main \notin Threads /\ LogThread # Main
        /\ UNCHANGED <<cache, mem>>
    BY Basics DEF IndInv, Places, blocks
  <1>2. /\ queue' \in Seq(Blocks \cup {None}) /\ IsInjective(queue') /\ b \in Blocks \cup {None}
        /\ b \in Range(queue) /\ Range(queue') = Range(queue) \ {b}
    BY Tailed DEF IndInv, Owners
  <1>3. blk[t] = None
    BY <1>1 DEF IndInv, Places, Holding
  <1>4. /\ t = LogThread => to = (IF b = None THEN "done" ELSE "write")
        /\ t = Main => to = (IF b = None THEN "clear" ELSE "size")
    OBVIOUS
  <1> HIDE DEF b
  <1>5. /\ t = Main => Ended /\ Ended'
        /\ t = LogThread => (Ended' <=> Ended) /\ (at[LogThread] # "done" => ~Ended)
        /\ at[t] # "done"
    BY <1>1, <1>4, Basics DEF Ended, MainAt, LoggerAt
  <1>6. Places'
    <2>1. at' \in [All -> ThreadAt \cup LoggerAt \cup MainAt]
      BY <1>1, <1>4 DEF LoggerAt, MainAt, All
    <2>2. blk' \in [All -> Blocks \cup {None}]
      BY <1>1, <1>2 DEF b
    <2>3. ASSUME NEW u \in Threads PROVE at'[u] \in ThreadAt /\ (at'[u] \in Logging => own'[u] # 0)
      BY <1>1 DEF IndInv, Places
    <2>4. at'[LogThread] \in LoggerAt /\ at'[Main] \in MainAt
      BY <1>1, <1>4 DEF IndInv, Places, LoggerAt, MainAt
    <2>5. ASSUME NEW u \in All PROVE blk'[u] # None <=> at'[u] \in Holding
      <3>1. CASE u = t
        BY <1>1, <1>4, <3>1 DEF Holding
      <3>2. CASE u # t
        BY <1>1, <3>2 DEF IndInv, Places
      <3> QED
        BY <3>1, <3>2
    <2>6. Ended' => at'[LogThread] = "done" /\ \A u \in Threads : at'[u] = "idle"
      BY <1>1, <1>5, Basics
    <2> QED
      BY <2>1, <2>2, <2>3, <2>4, <2>5, <2>6 DEF IndInv, Places
  <1>7. \A u \in All \ {t} : at[u] \in Sole => LastHolder(u) /\ blk[u] # b
    BY <1>2 DEF IndInv, Owners, LastHolder
  <1>8. Owners'
    <2>1. None \in Range(queue') => at'[Main] \in {"join", "clear", "size", "put", "free"}
      <3>1. None \in Range(queue) => at[Main] \in {"join", "clear", "size", "put", "free"}
        BY DEF IndInv, Owners
      <3> QED
        BY <1>1, <1>2, <1>4, <3>1
    <2>2. ASSUME NEW u \in Threads, NEW v \in Threads, blk'[u] = blk'[v], blk'[u] # None PROVE u = v
      BY <1>1, <2>2 DEF IndInv, Owners
    <2>3. ASSUME NEW u \in All, at'[u] \in Sole PROVE LastHolder(u)'
      <3>1. CASE u # t
        <4>1. at[u] \in Sole /\ LastHolder(u) /\ blk[u] # b /\ blk'[u] = blk[u]
          BY <1>1, <1>7, <2>3, <3>1
        <4>2. ASSUME NEW v \in All \ {u} PROVE blk'[v] # blk'[u]
          BY <1>1, <4>1 DEF LastHolder
        <4> QED
          BY <1>2, <4>1, <4>2 DEF LastHolder
      <3>2. CASE u = t
        <4>1. t = Main /\ b # None
          BY <1>1, <1>4, <2>3, <3>2 DEF Sole
        <4>2. \A v \in All \ {t} : blk[v] = None
          <5>1. \A v \in All \ {t} : at[v] \notin Holding
            BY <1>5, <4>1, Basics DEF All, Holding
          <5> QED
            BY <5>1 DEF IndInv, Places
        <4> QED
          BY <1>1, <1>2, <3>2, <4>1, <4>2 DEF LastHolder
      <3> QED
        BY <3>1, <3>2
    <2>4. at'[LogThread] = "write" => blk'[LogThread] \notin Range(queue')
      <3>1. CASE t = LogThread
        BY <1>1, <1>2, <3>1
      <3>2. CASE t = Main
        BY <1>1, <1>5, <3>2, Basics
      <3> QED
        BY <3>1, <3>2
    <2> QED
      BY <1>2, <2>1, <2>2, <2>3, <2>4 DEF Owners
  <1>9. Accounts'
    <2>1. HeldBlocks' = HeldBlocks
      BY <1>1, <1>2, <1>3 DEF HeldBlocks
    <2> QED
      BY <1>1, <2>1 DEF IndInv, Accounts, Allocated
  <1>10. Texts'
    <2>1. ASSUME NEW u \in Threads, at'[u] \in {"text", "push", "print"}
          PROVE  HasLine(blk[u])' /\ mem'[blk'[u]].line.id = own'[u]
      BY <1>1, <2>1 DEF IndInv, Texts, HasLine
    <2>2. \A c \in Range(queue') \ {None} : HasLine(c)'
      BY <1>1, <1>2 DEF IndInv, Texts, HasLine
    <2>3. at'[LogThread] = "write" => HasLine(blk[LogThread])'
      <3> SUFFICES ASSUME at'[LogThread] = "write" PROVE HasLine(blk[LogThread])'
        OBVIOUS
      <3>1. CASE t = LogThread
        <4>1. b # None
          BY <1>1, <1>4, <3>1
        <4> QED
          BY <1>1, <1>2, <3>1, <4>1 DEF IndInv, Texts, HasLine
      <3>2. CASE t = Main
        BY <1>1, <1>5, <3>2, Basics
      <3> QED
        BY <3>1, <3>2
    <2> QED
      BY <2>1, <2>2, <2>3 DEF Texts
  <1> QED
    BY <1>6, <1>8, <1>9, <1>10

(* Pop.                                                                     *)
LEMMA PopLineHolds ==
    ASSUME IndInv, PopLine
    PROVE  IndInv'
  <1> DEFINE b == Head(queue)
             to == IF b = None THEN "done" ELSE "write"
  <1>1. /\ at[LogThread] = "pop" /\ queue # <<>> /\ queue' = Tail(queue)
        /\ blk' = [blk EXCEPT ![LogThread] = b] /\ at' = [at EXCEPT ![LogThread] = to]
        /\ UNCHANGED <<own, lines, blocks, setting, files, stop, day, pushed, handled>>
    BY DEF PopLine, Goto, Take
  <1>2. UNCHANGED <<level, todo, levels, max, stop, day, lines, cache, mem>>
    BY <1>1 DEF setting, files, blocks
  <1>3. Shapes'
    BY <1>2 DEF IndInv, Shapes
  <1>4. Places' /\ Owners' /\ Accounts' /\ Texts'
    BY <1>1, Basics, HeadTaken
  <1>5. /\ queue \in Seq(Blocks \cup {None}) /\ IsInjective(queue)
        /\ pushed \in Seq(Line) /\ handled \in 0 .. Len(pushed)
    BY DEF IndInv, Owners, Order
  <1>6. ~Ended /\ Queued = queue
    BY <1>1, QueuedHeld, Basics
  <1>7. Holds(queue, mem, pushed, handled)
    BY <1>6 DEF IndInv, Order
  <1>8. LogThread \in All /\ at \in [All -> ThreadAt \cup LoggerAt \cup MainAt]
        /\ blk \in [All -> Blocks \cup {None}] /\ b \in Blocks \cup {None}
        /\ Tail(queue) \in Seq(Blocks \cup {None})
    BY <1>1, <1>5, Basics, HeadTailProperties DEF IndInv, Places
  <1>9. Holds(Queued', mem, pushed, handled)
    <2>1. CASE b = None
      <3>1. at'[LogThread] = "done" /\ Queued' = <<>> \o Tail(queue)
        BY <1>1, <1>8, <2>1 DEF Queued
      <3>2. Queued' = Tail(queue)
        BY <1>8, <3>1, ConcatEmptySeq
      <3>3. handled \in Nat
        BY <1>5
      <3> QED
        BY <1>1, <1>5, <1>7, <2>1, <3>2, <3>3, HoldsNullGone
    <2>2. CASE b # None
      <3>1. at'[LogThread] = "write" /\ blk'[LogThread] = b /\ b \in Blocks
        BY <1>1, <1>8, <2>2
      <3>2. Queued' = <<b>> \o Tail(queue)
        BY <1>1, <3>1 DEF Queued
      <3>3. Queued' = queue
        BY <1>1, <1>5, <3>1, <3>2, HeadFirst
      <3> QED
        BY <1>7, <3>3
    <2> QED
      BY <2>1, <2>2
  <1>10. Order'
    BY <1>1, <1>2, <1>5, <1>9 DEF Order
  <1> QED
    BY <1>3, <1>4, <1>10 DEF IndInv

(* ~FileLogger empties the queue.                                           *)
LEMMA ClearQueueHolds ==
    ASSUME IndInv, ClearQueue
    PROVE  IndInv'
  <1> DEFINE b == Head(queue)
             to == IF b = None THEN "clear" ELSE "size"
  <1>1. /\ at[Main] = "clear" /\ queue # <<>> /\ queue' = Tail(queue)
        /\ blk' = [blk EXCEPT ![Main] = b] /\ at' = [at EXCEPT ![Main] = to]
        /\ UNCHANGED <<own, lines, blocks, setting, files, stop, day, pushed, handled>>
    BY DEF ClearQueue, Goto, Take
  <1>2. UNCHANGED <<level, todo, levels, max, stop, day, lines>>
    BY <1>1 DEF setting, files
  <1>3. Shapes'
    BY <1>2 DEF IndInv, Shapes
  <1>4. Places' /\ Owners' /\ Accounts' /\ Texts'
    BY <1>1, Basics, HeadTaken
  <1>5. Ended'
    BY <1>1, Basics DEF Ended
  <1>6. Order'
    BY <1>1, <1>5 DEF IndInv, Order
  <1> QED
    BY <1>3, <1>4, <1>6 DEF IndInv

(* What HandleLine handles is the first line that is not handled yet.        *)
LEMMA HandIsNext ==
    ASSUME IndInv, at[LogThread] = "write"
    PROVE  /\ handled + 1 \in 1 .. Len(pushed) /\ handled \in Nat /\ ~Ended
           /\ mem[blk[LogThread]].line = pushed[handled + 1] /\ pushed[handled + 1] \in Line
           /\ Holds(queue, mem, pushed, handled + 1)
  <1> DEFINE b == blk[LogThread]
  <1>1. ~Ended /\ Queued = <<b>> \o queue /\ b \in Blocks
    BY QueuedHeld, Basics
  <1>2. queue \in Seq(Blocks \cup {None}) /\ pushed \in Seq(Line) /\ handled \in Nat /\ Len(pushed) \in Nat
    BY LenProperties DEF IndInv, Owners, Order
  <1>3. Holds(<<b>> \o queue, mem, pushed, handled)
    BY <1>1 DEF IndInv, Order
  <1> HIDE DEF b
  <1>4. /\ handled + 1 <= Len(pushed) /\ mem[b].line = pushed[handled + 1]
        /\ Holds(queue, mem, pushed, handled + 1)
    BY <1>1, <1>2, <1>3, HoldsNext
  <1>5. handled + 1 \in 1 .. Len(pushed)
    BY <1>2, <1>4
  <1>6. pushed[handled + 1] \in Line
    BY <1>2, <1>5, LenProperties
  <1> QED
    BY <1>1, <1>2, <1>4, <1>5, <1>6 DEF b

(* Every part of the invariant after a line is written and its block let    *)
(* go.                                                                      *)
LEMMA HandleLineHolds ==
    ASSUME IndInv, HandleLine
    PROVE  IndInv'
  <1>1. /\ at[LogThread] = "write" /\ handled' = handled + 1 /\ Release(LogThread)
        /\ UNCHANGED <<own, lines, blocks, setting, max, queue, pushed, stop, day>>
    BY DEF HandleLine
  <1>2. UNCHANGED <<level, todo, levels, max, stop, day, lines, cache, mem>>
    BY <1>1 DEF setting, blocks
  <1>3. Shapes' /\ own' \in [Threads -> 0 .. MaxLines]
    BY <1>1, <1>2 DEF IndInv, Shapes, Places
  <1>4. ~Ended /\ LogThread \in All /\ LogThread \notin Threads /\ LogThread # Main /\ Main \in All
        /\ at \in [All -> ThreadAt \cup LoggerAt \cup MainAt]
    BY <1>1, Basics
  <1>5. Resume(LogThread) = "loop"
    BY <1>4, ResumeIs
  <1>6. /\ Places' /\ Owners' /\ Accounts' /\ Texts'
        /\ at'[LogThread] \in {"size", "loop"} /\ ~Ended'
    <2>1. CASE LastHolder(LogThread)
      <3>1. at' = [at EXCEPT ![LogThread] = "size"] /\ blk' = blk
        BY <1>1, <2>1 DEF Release, Goto
      <3>2. ~Ended' /\ at'[LogThread] = "size"
        BY <1>4, <3>1 DEF Ended
      <3> QED
        BY <1>1, <1>2, <1>3, <1>4, <2>1, <3>1, <3>2, MoveParts DEF LoggerAt, Holding
    <2>2. CASE ~LastHolder(LogThread)
      <3>1. at' = [at EXCEPT ![LogThread] = "loop"] /\ blk' = [blk EXCEPT ![LogThread] = None]
        BY <1>1, <1>5, <2>2 DEF Release, Goto, Take
      <3>2. ~Ended' /\ at'[LogThread] = "loop"
        BY <1>4, <3>1 DEF Ended
      <3>3. HeldBlocks' = HeldBlocks
        <4>1. blk[LogThread] # None
          BY <1>1, <1>4 DEF IndInv, Places, Holding
        <4>2. /\ HeldBlocks' = (OtherHeld(LogThread) \cup {None}) \ {None}
              /\ HeldBlocks = (OtherHeld(LogThread) \cup {blk[LogThread]}) \ {None}
              /\ blk[LogThread] \in OtherHeld(LogThread)
          BY <1>1, <1>4, <2>2, <3>1, <4>1, HeldAfter
        <4> QED
          BY <4>1, <4>2
      <3>4. Accounts'
        BY <1>2, <3>3 DEF IndInv, Accounts, Allocated
      <3>5. None \notin OtherHeld(LogThread)
        BY DEF OtherHeld
      <3>6. /\ Shapes' /\ Places' /\ Owners' /\ Accounts' /\ Texts'
        BY <1>1, <1>2, <1>3, <1>4, <3>1, <3>2, <3>4, <3>5, SwapParts DEF LoggerAt, Holding
      <3> QED
        BY <3>2, <3>6
    <2> QED
      BY <2>1, <2>2
  <1>7. Order'
    <2>1. queue \in Seq(Blocks \cup {None}) /\ pushed \in Seq(Line)
      BY DEF IndInv, Owners, Order
    <2>2. Queued' = <<>> \o queue
      BY <1>1, <1>6 DEF Queued
    <2>3. Queued' = queue
      BY <2>1, <2>2, ConcatEmptySeq
    <2>4. /\ handled + 1 \in 1 .. Len(pushed) /\ Holds(queue, mem, pushed, handled + 1)
      BY <1>1, HandIsNext
    <2>5. handled' \in 0 .. Len(pushed)
      BY <1>1, <2>4
    <2> QED
      BY <1>1, <1>2, <2>1, <2>3, <2>4, <2>5 DEF Order
  <1> QED
    BY <1>3, <1>6, <1>7 DEF IndInv

-----------------------------------------------------------------------------
(* The invariant is inductive.                                              *)

(* Init of the logger: no block, no line, no file.                          *)
LEMMA InitHolds ==
    ASSUME Init
    PROVE  IndInv /\ fs \in FileSystems /\ FilesInv
  <1>1. /\ level = TRUE /\ cache = <<>> /\ todo = 0 /\ levels = 0 /\ mem = [b \in Blocks |-> None]
        /\ at = [t \in All |-> IF t = LogThread THEN "loop" ELSE "idle"]
        /\ blk = [t \in All |-> None] /\ own = [t \in Threads |-> 0] /\ lines = 0
        /\ queue = <<>> /\ stop = FALSE /\ day = 1 /\ max = MaxStore
        /\ pushed = <<>> /\ handled = 0
        /\ fs = [time |-> None, open |-> None, history |-> <<>>, opened |-> {},
                 disk |-> [d \in Days |-> None]]
    BY DEF Init
  <1>2. /\ LogThread \in All /\ Main \in All /\ Threads \subseteq All
        /\ LogThread \notin Threads /\ Main \notin Threads /\ LogThread # Main
    BY ThreadsAssumption DEF All, LogThread, Main
  <1>3. at[LogThread] = "loop" /\ at[Main] = "idle" /\ \A t \in Threads : at[t] = "idle"
    BY <1>1, <1>2
  <1>4. 1 \in Days
    BY LoggerAssumption DEF Days
  <1>5. Shapes
    <2>1. lines \in 0 .. MaxLines /\ levels \in 0 .. MaxLevels /\ todo \in Nat
      BY <1>1, LoggerAssumption
    <2>2. level \in BOOLEAN /\ stop \in BOOLEAN
      BY <1>1, Zenon
    <2>3. day \in Days /\ max \in StoreDays \cup {MaxStore}
      BY <1>1, <1>4
    <2> QED
      BY <2>1, <2>2, <2>3 DEF Shapes
  <1>6. Places
    <2>1. \A t \in All : at[t] \in {"loop", "idle"} /\ blk[t] = None
      BY <1>1
    <2>2. at \in [All -> ThreadAt \cup LoggerAt \cup MainAt] /\ blk \in [All -> Blocks \cup {None}]
          /\ own \in [Threads -> 0 .. MaxLines]
      BY <1>1, LoggerAssumption DEF ThreadAt, LoggerAt
    <2> QED
      BY <1>3, <2>1, <2>2 DEF Places, ThreadAt, LoggerAt, MainAt, Logging, Holding, Ended
  <1>7. Range(queue) = {} /\ Range(cache) = {} /\ queue \in Seq(Blocks \cup {None})
        /\ cache \in Seq(Blocks) /\ IsInjective(queue) /\ IsInjective(cache)
    BY <1>1 DEF Range, IsInjective
  <1>8. Owners
    BY <1>1, <1>3, <1>7 DEF Owners, Sole, All
  <1>9. Accounts
    <2>1. HeldBlocks = {} /\ Allocated = {}
      BY <1>1, <1>7 DEF HeldBlocks, Allocated
    <2> QED
      BY <1>1, <1>7, <2>1 DEF Accounts
  <1>10. Texts
    BY <1>3, <1>7 DEF Texts
  <1>11. Order
    <2>1. Queued = <<>> \o queue
      BY <1>3 DEF Queued
    <2>2. Queued = <<>>
      BY <1>1, <2>1
    <2>3. Skip(Queued, 0) = 0 /\ Len(Queued) = 0
      <3>1. Len(Queued) = 0
        BY <2>2
      <3>2. ~\E j \in 1 .. 0 : Queued[j] = None
        OBVIOUS
      <3>3. ASSUME NEW n \in Nat, ~\E j \in 1 .. n : Queued[j] = None
            PROVE  Skip(Queued, n) = n
        BY <3>3 DEF Skip
      <3> QED
        BY <3>1, <3>2, <3>3
    <2>4. Len(pushed) = 0 /\ pushed \in Seq(Line) /\ handled \in 0 .. Len(pushed)
      BY <1>1
    <2>5. Holds(Queued, mem, pushed, handled)
      BY <1>1, <2>3, <2>4 DEF Holds
    <2> QED
      BY <2>4, <2>5 DEF Order
  <1>12. fs \in FileSystems
    BY <1>1 DEF FileSystems
  <1>13. Files
    <2>1. fs.time = None /\ fs.open = None /\ fs.history = <<>> /\ fs.opened = {}
          /\ fs.disk = [d \in Days |-> None]
      BY <1>1
    <2> QED
      BY <1>1, <2>1 DEF Files, Range
  <1> QED
    BY <1>5, <1>6, <1>8, <1>9, <1>10, <1>11, <1>12, <1>13 DEF IndInv, FilesInv

(* Every step keeps the invariant, one step per action.                     *)
LEMMA NextHolds ==
    ASSUME IndInv, [Next]_vars
    PROVE  IndInv'
  <1>1. CASE \E t \in Threads : LogCall(t)
    BY <1>1, BeginLogHolds, GetLogHolds, FormatLogHolds, AppendTextHolds, PushHolds, PrintLineHolds
       DEF LogCall
  <1>2. CASE \E t \in All : FreeLog(t)
    BY <1>2, FreeLogSizeHolds, FreeLogPutHolds, FreeLogFreeHolds DEF FreeLog
  <1>3. CASE LoopTest \/ PopLine \/ HandleLine
    BY <1>3, LoopTestHolds, PopLineHolds, HandleLineHolds
  <1>4. CASE \/ \E o \in BOOLEAN : SetLevel(o)
             \/ \E n \in StoreDays : SetMaxStoreDays(n)
    BY <1>4, SetLevelHolds, SetMaxStoreDaysHolds
  <1>5. CASE CacheTest \/ FillCache \/ DrainCache \/ LevelSet
    BY <1>5, CacheTestHolds, FillCacheHolds, DrainCacheHolds, LevelSetHolds
  <1>6. CASE StopFlag \/ StopPush \/ Join \/ ClearQueue \/ Destroyed
    BY <1>6, StopFlagHolds, StopPushHolds, JoinHolds, ClearQueueHolds, DestroyedHolds
  <1>7. CASE Midnight
    BY <1>7, MidnightHolds
  <1>8. CASE UNCHANGED vars
    <2>1. Shapes' /\ UNCHANGED <<calls, blocks, queue, pushed, handled>>
      BY <1>8 DEF vars, IndInv, Shapes, calls, blocks, setting, files, lineq
    <2> QED
      BY <2>1, StillHolds
  <1>9. Next => \/ \E t \in Threads : LogCall(t)
                \/ \E t \in All : FreeLog(t)
                \/ LoopTest \/ PopLine \/ HandleLine
                \/ \E o \in BOOLEAN : SetLevel(o)
                \/ \E n \in StoreDays : SetMaxStoreDays(n)
                \/ CacheTest \/ FillCache \/ DrainCache \/ LevelSet
                \/ StopFlag \/ StopPush \/ Join \/ ClearQueue \/ Destroyed
                \/ Midnight
    BY Basics DEF Next, LoggerStep, Levelling, Stopping
  <1> QED
    BY <1>1, <1>2, <1>3, <1>4, <1>5, <1>6, <1>7, <1>8, <1>9

(* IndInv holds in every state the threads of the logger reach.              *)
THEOREM Inductive == Spec => []IndInv
  <1>1. Init => IndInv
    BY InitHolds
  <1>2. IndInv /\ [Next]_vars => IndInv'
    BY NextHolds
  <1> QED
    BY <1>1, <1>2, PTL DEF Spec

(* What the queue and the logger's hand hold is what was pushed and is not   *)
(* yet handled, in the order of the pushes, and a caller that prints its     *)
(* line still finds it in its block (file_logger.cpp, Run and Info; the      *)
(* shared pointers of base_logger.cpp).                                     *)
THEOREM LinesStayIntact == Spec => []LinesIntact
  <1>1. IndInv => LinesIntact
    <2> SUFFICES ASSUME IndInv PROVE LinesIntact
      OBVIOUS
    <2>1. \A n : Before(n) = Skip(Queued, n)
      BY DEF Before, Skip
    <2>2. ASSUME ~Ended
          PROVE  /\ Len(pushed) = handled + Before(Len(Queued))
                 /\ \A i \in 1 .. Len(Queued) :
                      Queued[i] # None => mem[Queued[i]].line = pushed[handled + Before(i)]
      BY <2>1, <2>2 DEF IndInv, Order, Holds
    <2>3. \A t \in Threads : at[t] = "print" => mem[blk[t]].line.id = own[t]
      BY DEF IndInv, Texts
    <2> QED
      BY <2>2, <2>3 DEF LinesIntact
  <1> QED
    BY <1>1, Inductive, PTL

-----------------------------------------------------------------------------
(* The files.                                                               *)

(* The parts of a file system.                                              *)
LEMMA FsParts ==
    ASSUME NEW f \in FileSystems
    PROVE  /\ f = [time |-> f.time, open |-> f.open, history |-> f.history,
                   opened |-> f.opened, disk |-> f.disk]
           /\ f.time \in Days \cup {None} /\ f.open \in Days \cup {None}
           /\ f.history \in Seq(Days) /\ f.opened \in SUBSET Days
           /\ f.disk \in [Days -> {None} \cup SUBSET Line]
  BY DEF FileSystems

(* CheckExpireFiles: of the history the first k names go, and the files of    *)
(* these names; a name that was put last stays when one file may stay.        *)
LEMMA ExpireIs ==
    ASSUME NEW f \in FileSystems, NEW n \in Nat
    PROVE  LET g == CheckExpireFiles(f, n)
           IN  /\ g \in FileSystems
               /\ g.time = f.time /\ g.open = f.open /\ g.opened = f.opened
               /\ \E k \in 0 .. Len(f.history) :
                    /\ Len(g.history) = Len(f.history) - k
                    /\ \A i \in 1 .. Len(f.history) - k : g.history[i] = f.history[k + i]
                    /\ \A d \in Days : g.disk[d] = IF \E i \in 1 .. k : f.history[i] = d
                                                   THEN None ELSE f.disk[d]
                    /\ n # 0 /\ Len(f.history) # 0 => k # Len(f.history)
  <1> DEFINE g == CheckExpireFiles(f, n)
             H == f.history
             m == Len(H)
             gone == m - n
  <1>1. /\ f = [time |-> f.time, open |-> f.open, history |-> f.history,
                opened |-> f.opened, disk |-> f.disk]
        /\ f.time \in Days \cup {None} /\ f.open \in Days \cup {None}
        /\ f.history \in Seq(Days) /\ f.opened \in SUBSET Days
        /\ f.disk \in [Days -> {None} \cup SUBSET Line]
    BY FsParts
  <1>2. m \in Nat /\ H \in [1 .. m -> Days]
    BY <1>1, LenProperties
  <1>3. CASE gone <= 0
    <2>1. g = f
      BY <1>3 DEF CheckExpireFiles
    <2> DEFINE k == 0
    <2>2. /\ k \in 0 .. m /\ m = m - k /\ \A i \in 1 .. m - k : H[i] = H[k + i]
          /\ ~\E i \in 1 .. k : H[i] = H[i]
          /\ n # 0 /\ m # 0 => k # m
      BY <1>2
    <2>3. \A d \in Days : f.disk[d] = IF \E i \in 1 .. k : H[i] = d THEN None ELSE f.disk[d]
      BY <2>2
    <2> HIDE DEF k
    <2> QED
      BY <2>1, <2>2, <2>3
  <1>4. CASE ~(gone <= 0)
    <2> DEFINE S == SubSeq(H, gone + 1, m)
               F == SubSeq(H, 1, gone)
               D == [d \in Days |-> IF d \in Range(F) THEN None ELSE f.disk[d]]
    <2>1. gone \in 1 .. m /\ (n # 0 => gone # m)
      BY <1>2, <1>4
    <2>2. g = [f EXCEPT !.history = S, !.disk = D]
      <3>1. g = [f EXCEPT !.history = SubSeq(@, gone + 1, Len(@)),
                          !.disk = [d \in Days |-> IF d \in Range(F) THEN None ELSE @[d]]]
        BY <1>4, Zenon DEF CheckExpireFiles
      <3>2. [f EXCEPT !.history = S].disk = f.disk
        <4> HIDE DEF S
        <4> QED
          BY <1>1
      <3> HIDE DEF F, g
      <3> QED
        BY <3>1, <3>2, Zenon
    <2>3. /\ S \in Seq(Days) /\ Len(S) = m - gone
          /\ \A i \in 1 .. m - gone : S[i] = H[gone + i]
      <3>1. \A i \in gone + 1 .. m : H[i] \in Days
        BY <1>2, <2>1
      <3>2. gone + 1 \in Int /\ m \in Int
        BY <1>2, <2>1
      <3> HIDE DEF m, gone, H
      <3>3. /\ S \in Seq(Days) /\ Len(S) = IF gone + 1 <= m THEN m - (gone + 1) + 1 ELSE 0
            /\ \A i \in 1 .. m - (gone + 1) + 1 : S[i] = H[(gone + 1) + i - 1]
        BY <3>1, <3>2, SubSeqProperties
      <3> HIDE DEF S
      <3>4. m - (gone + 1) + 1 = m - gone
        BY <1>2, <2>1
      <3>5. \A i \in 1 .. m - gone : (gone + 1) + i - 1 = gone + i
        BY <1>2, <2>1
      <3>6. Len(S) = m - gone
        BY <1>2, <2>1, <3>3
      <3> QED
        BY <3>3, <3>4, <3>5, <3>6
    <2>4. Range(F) = {H[i] : i \in 1 .. gone}
      <3>1. \A i \in 1 .. gone : H[i] \in Days
        BY <1>2, <2>1
      <3>2. gone \in Nat /\ 1 <= gone
        BY <1>2, <2>1
      <3> HIDE DEF gone, H
      <3>3. /\ F \in Seq(Days) /\ Len(F) = gone - 1 + 1
            /\ \A i \in 1 .. gone - 1 + 1 : F[i] = H[1 + i - 1]
        BY <3>1, <3>2, SubSeqProperties
      <3> HIDE DEF F
      <3>4. Len(F) = gone /\ \A i \in 1 .. gone : F[i] = H[i]
        BY <3>2, <3>3
      <3>5. DOMAIN F = 1 .. gone
        BY <3>3, <3>4, LenProperties
      <3> QED
        BY <3>4, <3>5 DEF Range
    <2>5. D \in [Days -> {None} \cup SUBSET Line]
          /\ \A d \in Days : D[d] = IF \E i \in 1 .. gone : H[i] = d THEN None ELSE f.disk[d]
      <3> HIDE DEF F, gone, H
      <3> QED
        BY <1>1, <2>4
    <2> HIDE DEF S, D, F
    <2>6. g = [time |-> f.time, open |-> f.open, history |-> S, opened |-> f.opened, disk |-> D]
      <3> HIDE DEF g
      <3> QED
        BY <1>1, <2>2
    <2> HIDE DEF g, H
    <2>7. /\ g.time = f.time /\ g.open = f.open /\ g.opened = f.opened /\ g.history = S /\ g.disk = D
          /\ g \in FileSystems
      BY <1>1, <2>3, <2>5, <2>6 DEF FileSystems
    <2> HIDE DEF gone, m
    <2>8. gone \in 0 .. m /\ (n # 0 /\ m # 0 => gone # m)
      BY <1>2, <2>1
    <2> QED
      BY <2>3, <2>5, <2>7, <2>8 DEF H, m, g
  <1> QED
    BY <1>3, <1>4

(* The file of date d is opened.                                            *)
LEMMA OpenIs ==
    ASSUME NEW f \in FileSystems, NEW d \in Days
    PROVE  LET g == OpenFile(f, d)
           IN  /\ g \in FileSystems /\ g.time = f.time /\ g.open = d /\ g.history = f.history
               /\ g.opened = f.opened \cup {d}
               /\ g.disk[d] = (IF f.disk[d] = None THEN {} ELSE f.disk[d])
               /\ \A e \in Days \ {d} : g.disk[e] = f.disk[e]
  <1> DEFINE g == OpenFile(f, d)
             x == IF f.disk[d] = None THEN {} ELSE f.disk[d]
             D == [f.disk EXCEPT ![d] = x]
  <1>1. /\ f = [time |-> f.time, open |-> f.open, history |-> f.history,
                opened |-> f.opened, disk |-> f.disk]
        /\ f.time \in Days \cup {None} /\ f.open \in Days \cup {None}
        /\ f.history \in Seq(Days) /\ f.opened \in SUBSET Days
        /\ f.disk \in [Days -> {None} \cup SUBSET Line]
    BY FsParts
  <1> DEFINE f1 == [f EXCEPT !.open = d]
             f2 == [f1 EXCEPT !.opened = @ \cup {d}]
  <1>2. g = [f2 EXCEPT !.disk[d] = IF @ = None THEN {} ELSE @]
    BY Zenon DEF OpenFile
  <1>3. f1 = [time |-> f.time, open |-> d, history |-> f.history, opened |-> f.opened, disk |-> f.disk]
    BY <1>1
  <1>4. f2 = [time |-> f.time, open |-> d, history |-> f.history, opened |-> f.opened \cup {d},
              disk |-> f.disk]
    <2> HIDE DEF f1
    <2> QED
      BY <1>3
  <1> HIDE DEF f1, f2, g
  <1>5. f2.disk = f.disk
    BY <1>4
  <1>6. g = [f2 EXCEPT !.disk = [f2.disk EXCEPT ![d] = IF f2.disk[d] = None THEN {} ELSE f2.disk[d]]]
    BY <1>2
  <1>7. g = [f2 EXCEPT !.disk = D]
    BY <1>5, <1>6
  <1>8. D \in [Days -> {None} \cup SUBSET Line] /\ D[d] = x /\ \A e \in Days \ {d} : D[e] = f.disk[e]
    BY <1>1
  <1> HIDE DEF D, x
  <1>9. g = [time |-> f.time, open |-> d, history |-> f.history, opened |-> f.opened \cup {d},
             disk |-> D]
    BY <1>4, <1>7
  <1>10. /\ g.time = f.time /\ g.open = d /\ g.history = f.history
         /\ g.opened = f.opened \cup {d} /\ g.disk = D /\ g \in FileSystems
    BY <1>1, <1>8, <1>9 DEF FileSystems
  <1> QED
    BY <1>8, <1>10 DEF g, x

(* A line goes to the open file.                                            *)
LEMMA WriteIs ==
    ASSUME NEW f \in FileSystems, NEW l \in Line
    PROVE  LET g == WriteLine(f, l)
           IN  /\ g \in FileSystems /\ g.time = f.time /\ g.open = f.open
               /\ g.history = f.history /\ g.opened = f.opened
               /\ \A e \in Days : g.disk[e] = IF e = f.open /\ f.disk[e] # None
                                              THEN f.disk[e] \cup {l} ELSE f.disk[e]
  <1> DEFINE g == WriteLine(f, l)
             o == f.open
             x == IF f.disk[o] = None THEN None ELSE f.disk[o] \cup {l}
             D == [f.disk EXCEPT ![o] = x]
  <1>1. /\ f = [time |-> f.time, open |-> f.open, history |-> f.history,
                opened |-> f.opened, disk |-> f.disk]
        /\ f.time \in Days \cup {None} /\ f.open \in Days \cup {None}
        /\ f.history \in Seq(Days) /\ f.opened \in SUBSET Days
        /\ f.disk \in [Days -> {None} \cup SUBSET Line]
    BY FsParts
  <1>2. CASE o = None
    <2>1. g = f /\ \A e \in Days : e # o
      BY <1>2, NoneAssumption DEF WriteLine
    <2> QED
      BY <2>1
  <1>3. CASE o # None
    <2>1. o \in Days
      BY <1>1, <1>3
    <2>2. g = [f EXCEPT !.disk[o] = IF @ = None THEN None ELSE @ \cup {l}]
      BY <1>3, Zenon DEF WriteLine
    <2>3. g = [f EXCEPT !.disk = D]
      <3> HIDE DEF g, o
      <3> QED
        BY <2>2
    <2>4. D \in [Days -> {None} \cup SUBSET Line] /\ D[o] = x /\ \A e \in Days \ {o} : D[e] = f.disk[e]
      <3>1. x \in {None} \cup SUBSET Line
        BY <1>1, <2>1
      <3> HIDE DEF x, o
      <3> QED
        BY <1>1, <2>1, <3>1
    <2> HIDE DEF D, g
    <2>5. g = [time |-> f.time, open |-> f.open, history |-> f.history, opened |-> f.opened, disk |-> D]
      BY <1>1, <2>3
    <2>6. /\ g.time = f.time /\ g.open = f.open /\ g.history = f.history
          /\ g.opened = f.opened /\ g.disk = D /\ g \in FileSystems
      BY <1>1, <2>4, <2>5 DEF FileSystems
    <2>7. ASSUME NEW e \in Days
          PROVE  D[e] = IF e = f.open /\ f.disk[e] # None THEN f.disk[e] \cup {l} ELSE f.disk[e]
      BY <2>4
    <2> QED
      BY <2>6, <2>7 DEF g
  <1> QED
    BY <1>2, <1>3

(* CheckTime closes the old file and puts the new name into the history.      *)
Renewed(f, d) == [f EXCEPT !.time = d, !.open = None, !.history = Append(@, d)]

(* The parts of the file system when the date changes.                      *)
LEMMA RenewedIs ==
    ASSUME NEW f \in FileSystems, NEW d \in Days
    PROVE  /\ Renewed(f, d) = [time |-> d, open |-> None, history |-> Append(f.history, d),
                               opened |-> f.opened, disk |-> f.disk]
           /\ Renewed(f, d) \in FileSystems
  <1>1. /\ f = [time |-> f.time, open |-> f.open, history |-> f.history,
                opened |-> f.opened, disk |-> f.disk]
        /\ f.history \in Seq(Days) /\ f.opened \in SUBSET Days
        /\ f.disk \in [Days -> {None} \cup SUBSET Line]
    BY FsParts
  <1> DEFINE f1 == [f EXCEPT !.time = d]
             f2 == [f1 EXCEPT !.open = None]
             H == Append(f.history, d)
  <1>2. f1 = [time |-> d, open |-> f.open, history |-> f.history, opened |-> f.opened, disk |-> f.disk]
    BY <1>1
  <1>3. f2 = [time |-> d, open |-> None, history |-> f.history, opened |-> f.opened, disk |-> f.disk]
    <2> HIDE DEF f1
    <2> QED
      BY <1>2
  <1>4. Renewed(f, d) = [f2 EXCEPT !.history = Append(@, d)]
    BY Zenon DEF Renewed
  <1> HIDE DEF f1, f2
  <1>5. f2.history = f.history
    BY <1>3
  <1>6. Renewed(f, d) = [f2 EXCEPT !.history = H]
    BY <1>4, <1>5
  <1>7. H \in Seq(Days)
    BY <1>1, AppendProperties
  <1> HIDE DEF H
  <1>8. Renewed(f, d) = [time |-> d, open |-> None, history |-> H, opened |-> f.opened, disk |-> f.disk]
    BY <1>3, <1>6
  <1> QED
    BY <1>1, <1>7, <1>8 DEF FileSystems, H

(* What CheckTime and the write make of a file system.                       *)
LEMMA HandledIs ==
    ASSUME IndInv, fs \in FileSystems, HandleLine
    PROVE  LET l == pushed[handled + 1]
           IN  /\ fs' \in FileSystems
               /\ fs.time = l.day => fs' = WriteLine(fs, l)
               /\ fs.time # l.day =>
                    \E ok \in Opens : \E g \in FileSystems :
                        /\ g = CheckExpireFiles(Renewed(fs, l.day), max)
                        /\ fs' = WriteLine(IF ok THEN OpenFile(g, l.day) ELSE g, l)
  <1> DEFINE l == mem[blk[LogThread]].line
  <1>1. at[LogThread] = "write"
    BY DEF HandleLine
  <1>2. l = pushed[handled + 1] /\ l \in Line
    BY <1>1, HandIsNext
  <1>3. PICK ok \in Opens : fs' = WriteLine(CheckTime(fs, l.day, ok), l)
    BY DEF HandleLine
  <1> HIDE DEF l
  <1>4. l.day \in Days /\ max \in Nat
    BY <1>2, LoggerAssumption DEF Line, IndInv, Shapes
  <1>5. CASE fs.time = l.day
    <2>1. fs' = WriteLine(fs, l)
      BY <1>3, <1>5 DEF CheckTime
    <2>2. fs' \in FileSystems
      BY <1>2, <2>1, WriteIs
    <2> QED
      BY <1>2, <1>5, <2>1, <2>2
  <1>6. CASE fs.time # l.day
    <2> DEFINE g == CheckExpireFiles(Renewed(fs, l.day), max)
               h == IF ok THEN OpenFile(g, l.day) ELSE g
    <2>1. fs' = WriteLine(h, l)
      BY <1>3, <1>6, Zenon DEF CheckTime, Renewed
    <2>2. g \in FileSystems
      BY <1>4, RenewedIs, ExpireIs
    <2> HIDE DEF g
    <2>3. h \in FileSystems
      BY <1>4, <2>2, OpenIs
    <2> HIDE DEF h
    <2>4. fs' \in FileSystems
      BY <1>2, <2>1, <2>3, WriteIs
    <2> QED
      BY <1>2, <1>6, <2>1, <2>2, <2>4 DEF g, h
  <1> QED
    BY <1>5, <1>6

(* Only three actions touch the files.                                       *)
LEMMA FilesFrame ==
    ASSUME IndInv, [Next]_vars
    PROVE  \/ HandleLine \/ Join \/ \E n \in StoreDays : SetMaxStoreDays(n)
           \/ \E t \in Threads : Push(t)
           \/ UNCHANGED <<fs, pushed, handled>>
  <1>1. CASE \E t \in Threads : LogCall(t)
    BY <1>1 DEF LogCall, BeginLog, GetLog, FormatLog, AppendText, PrintLine, files, lineq
  <1>2. CASE \E t \in All : FreeLog(t)
    BY <1>2 DEF FreeLog, FreeLogSize, FreeLogPut, FreeLogFree, files, lineq
  <1>3. CASE LoopTest \/ PopLine \/ HandleLine
    BY <1>3 DEF LoopTest, PopLine, files, lineq
  <1>4. CASE \/ \E o \in BOOLEAN : SetLevel(o)
             \/ \E n \in StoreDays : SetMaxStoreDays(n)
    BY <1>4 DEF SetLevel, files, lineq
  <1>5. CASE CacheTest \/ FillCache \/ DrainCache \/ LevelSet
    BY <1>5 DEF CacheTest, FillCache, DrainCache, LevelSet, files, lineq
  <1>6. CASE StopFlag \/ StopPush \/ Join \/ ClearQueue \/ Destroyed
    BY <1>6 DEF StopFlag, StopPush, ClearQueue, Destroyed, files, lineq
  <1>7. CASE Midnight
    BY <1>7 DEF Midnight, files
  <1>8. CASE UNCHANGED vars
    BY <1>8 DEF vars, files, lineq
  <1>9. Next => \/ \E t \in Threads : LogCall(t)
                \/ \E t \in All : FreeLog(t)
                \/ LoopTest \/ PopLine \/ HandleLine
                \/ \E o \in BOOLEAN : SetLevel(o)
                \/ \E n \in StoreDays : SetMaxStoreDays(n)
                \/ CacheTest \/ FillCache \/ DrainCache \/ LevelSet
                \/ StopFlag \/ StopPush \/ Join \/ ClearQueue \/ Destroyed
                \/ Midnight
    BY Basics DEF Next, LoggerStep, Levelling, Stopping
  <1> QED
    BY <1>1, <1>2, <1>3, <1>4, <1>5, <1>6, <1>7, <1>8, <1>9

(* ~FileLogger does not come back from Join.                                *)
LEMMA EndedStays ==
    ASSUME IndInv, [Next]_vars, Ended
    PROVE  Ended'
  <1>1. /\ at \in [All -> ThreadAt \cup LoggerAt \cup MainAt] /\ Main \in All /\ Main \notin Threads
        /\ Main # LogThread
    BY Basics
  <1>2. CASE \E t \in Threads : LogCall(t)
    BY <1>1, <1>2 DEF LogCall, BeginLog, GetLog, FormatLog, AppendText, Push, PrintLine,
                      Release, Goto, Ended
  <1>3. CASE \E t \in All : FreeLog(t)
    <2>1. PICK t \in All : FreeLog(t)
      BY <1>3
    <2>2. CASE t # Main
      BY <1>1, <2>1, <2>2 DEF FreeLog, FreeLogSize, FreeLogPut, FreeLogFree, Goto, Ended
    <2>3. CASE t = Main
      <3>1. Resume(Main) = "clear"
        BY <1>1, ResumeIs
      <3> QED
        BY <1>1, <2>1, <2>3, <3>1 DEF FreeLog, FreeLogSize, FreeLogPut, FreeLogFree, Goto, Ended
    <2> QED
      BY <2>2, <2>3
  <1>4. CASE LoopTest \/ PopLine \/ HandleLine
    BY <1>1, <1>4 DEF LoopTest, PopLine, HandleLine, Release, Goto, Ended
  <1>5. CASE \/ \E o \in BOOLEAN : SetLevel(o)
             \/ \E n \in StoreDays : SetMaxStoreDays(n)
    BY <1>5 DEF SetLevel, SetMaxStoreDays, calls, Ended
  <1>6. CASE CacheTest \/ FillCache \/ DrainCache \/ LevelSet
    BY <1>6 DEF CacheTest, FillCache, DrainCache, LevelSet, Ended
  <1>7. CASE StopFlag \/ StopPush \/ Join \/ ClearQueue \/ Destroyed
    BY <1>1, <1>7 DEF StopFlag, StopPush, Join, ClearQueue, Destroyed, Goto, Ended
  <1>8. CASE Midnight \/ UNCHANGED vars
    BY <1>8 DEF Midnight, vars, calls, Ended
  <1>9. Next => \/ \E t \in Threads : LogCall(t)
                \/ \E t \in All : FreeLog(t)
                \/ LoopTest \/ PopLine \/ HandleLine
                \/ \E o \in BOOLEAN : SetLevel(o)
                \/ \E n \in StoreDays : SetMaxStoreDays(n)
                \/ CacheTest \/ FillCache \/ DrainCache \/ LevelSet
                \/ StopFlag \/ StopPush \/ Join \/ ClearQueue \/ Destroyed
                \/ Midnight
    BY Basics DEF Next, LoggerStep, Levelling, Stopping
  <1> QED
    BY <1>2, <1>3, <1>4, <1>5, <1>6, <1>7, <1>8, <1>9

(* Join closes the stream.                                                  *)
LEMMA JoinFiles ==
    ASSUME fs \in FileSystems, Join
    PROVE  fs' = [time |-> fs.time, open |-> None, history |-> fs.history,
                  opened |-> fs.opened, disk |-> fs.disk] /\ fs' \in FileSystems
  <1>1. /\ fs = [time |-> fs.time, open |-> fs.open, history |-> fs.history,
                 opened |-> fs.opened, disk |-> fs.disk]
        /\ fs.time \in Days \cup {None} /\ fs.history \in Seq(Days) /\ fs.opened \in SUBSET Days
        /\ fs.disk \in [Days -> {None} \cup SUBSET Line]
    BY FsParts
  <1>2. fs' = [fs EXCEPT !.open = None]
    BY DEF Join
  <1>3. fs' = [time |-> fs.time, open |-> None, history |-> fs.history,
               opened |-> fs.opened, disk |-> fs.disk]
    BY <1>1, <1>2
  <1> QED
    BY <1>1, <1>3 DEF FileSystems

(* Every step makes a file system of a file system.                         *)
LEMMA FsNext ==
    ASSUME IndInv, [Next]_vars, fs \in FileSystems
    PROVE  fs' \in FileSystems
  <1>1. CASE HandleLine
    BY <1>1, HandledIs
  <1>2. CASE Join
    BY <1>2, JoinFiles
  <1>3. CASE \E n \in StoreDays : SetMaxStoreDays(n)
    <2>1. PICK n \in StoreDays : fs' = CheckExpireFiles(fs, n)
      BY <1>3 DEF SetMaxStoreDays
    <2>2. n \in Nat
      BY LoggerAssumption
    <2> QED
      BY <2>1, <2>2, ExpireIs
  <1>4. CASE \E t \in Threads : Push(t)
    BY <1>4 DEF Push, files
  <1> QED
    BY <1>1, <1>2, <1>3, <1>4, FilesFrame

(* Every allocated block is in the cache or held, never both; who fills or   *)
(* gives back a block has it alone; a block in the cache has its full length *)
(* (base_logger.cpp, GetLog, FreeLog and SetLevel on any number of threads). *)
THEOREM BlocksStayAccounted == Spec => []BlocksAccounted
  <1>1. Init => fs \in FileSystems
    BY InitHolds
  <1>2. fs \in FileSystems /\ IndInv /\ [Next]_vars => (fs \in FileSystems)'
    BY FsNext
  <1>3. IndInv /\ fs \in FileSystems => BlocksAccounted
    <2> SUFFICES ASSUME IndInv, fs \in FileSystems PROVE BlocksAccounted
      OBVIOUS
    <2>1. TypeOK
      <3>1. at \in [All -> {"idle", "get", "format", "text", "push", "print", "size", "put", "free",
                            "loop", "pop", "write", "done", "fill", "drain", "new", "del",
                            "null", "join", "clear", "end"}]
        BY DEF IndInv, Places, ThreadAt, LoggerAt, MainAt
      <3>2. level \in BOOLEAN /\ stop \in BOOLEAN
        BY DEF IndInv, Shapes
      <3> QED
        BY <3>1, <3>2 DEF TypeOK, IndInv, Shapes, Places, Owners, Accounts, Order, FileSystems
    <2>2. \A i \in 1 .. Len(cache) : mem[cache[i]].len = BlockLen
      <3>1. cache \in Seq(Blocks) /\ \A b \in Range(cache) : mem[b].len = BlockLen
        BY DEF IndInv, Accounts
      <3> QED
        BY <3>1, LenProperties DEF Range
    <2>3. \A t \in All : at[t] \in {"format", "text", "push", "size", "put", "free"} => LastHolder(t)
      BY DEF IndInv, Owners, Sole
    <2> QED
      BY <2>1, <2>2, <2>3 DEF BlocksAccounted, IndInv, Accounts
  <1> QED
    BY <1>1, <1>2, <1>3, Inductive, PTL DEF Spec

-----------------------------------------------------------------------------
(* The files have the lines of their dates.                                  *)

(* One more line is handled.                                                *)
LEMMA DoneNext ==
    ASSUME IndInv, at[LogThread] = "write", handled' = handled + 1, pushed' = pushed, NEW e
    PROVE  DoneOf(e)' = IF pushed[handled + 1].day = e
                        THEN DoneOf(e) \cup {pushed[handled + 1]} ELSE DoneOf(e)
  <1> DEFINE n == handled + 1
             A == {k \in 1 .. handled : pushed[k].day = e}
             B == {k \in 1 .. n : pushed[k].day = e}
  <1>1. handled \in Nat /\ n \in 1 .. Len(pushed)
    BY HandIsNext
  <1>2. B = IF pushed[n].day = e THEN A \cup {n} ELSE A
    <2>1. 1 .. n = (1 .. handled) \cup {n}
      BY <1>1
    <2> HIDE DEF n
    <2> QED
      BY <2>1
  <1>3. DoneOf(e) = {pushed[i] : i \in A} /\ DoneOf(e)' = {pushed[i] : i \in B}
    BY DEF DoneOf
  <1> HIDE DEF A, B
  <1> QED
    BY <1>2, <1>3

(* In the order of the dates, no line that is handled is of a later date.     *)
LEMMA DatesUpTo ==
    ASSUME IndInv, at[LogThread] = "write", DatesInOrder, fs \in FileSystems, Files
    PROVE  LET d == pushed[handled + 1].day
           IN  /\ d \in Days /\ d \in Nat
               /\ fs.time # None => fs.time \in Nat /\ fs.time <= d
               /\ fs.time # d =>
                     /\ DoneOf(d) = {}
                     /\ \A e \in Range(fs.history) \cup fs.opened : e \in Nat /\ e < d
                     /\ fs.disk[d] = None
  <1> DEFINE n == handled + 1
             d == pushed[n].day
  <1>1. handled \in Nat /\ n \in 1 .. Len(pushed) /\ pushed[n] \in Line /\ Len(pushed) \in Nat
        /\ pushed \in Seq(Line)
    BY HandIsNext, LenProperties DEF IndInv, Order
  <1>2. \A k \in 1 .. Len(pushed) : pushed[k].day \in Days
    <2>1. \A k \in 1 .. Len(pushed) : pushed[k] \in Line
      BY <1>1, LenProperties
    <2>2. \A l \in Line : l.day \in Days
      BY DEF Line
    <2> QED
      BY <2>1, <2>2
  <1>3. Days \subseteq Nat
    BY LoggerAssumption DEF Days
  <1>4. \A i, j \in 1 .. Len(pushed) : i < j => pushed[i].day <= pushed[j].day
    BY DEF DatesInOrder
  <1>5. d \in Days /\ d \in Nat
    BY <1>1, <1>2, <1>3
  <1>6. fs.time # None => /\ handled \in 1 .. Len(pushed) /\ handled < n
                          /\ fs.time = pushed[handled].day /\ fs.time \in Nat /\ fs.time <= d
    <2> SUFFICES ASSUME fs.time # None
                 PROVE  /\ handled \in 1 .. Len(pushed) /\ handled < n
                        /\ fs.time = pushed[handled].day /\ fs.time \in Nat /\ fs.time <= d
      OBVIOUS
    <2>1. handled # 0 /\ fs.time = pushed[handled].day
      BY DEF Files
    <2>2. handled \in 1 .. Len(pushed) /\ handled < n
      BY <1>1, <2>1
    <2> HIDE DEF n
    <2>3. pushed[handled].day <= d /\ pushed[handled].day \in Nat
      BY <1>1, <1>2, <1>3, <1>4, <2>2
    <2> QED
      BY <2>1, <2>2, <2>3
  <1> HIDE DEF n
  <1>7. ASSUME fs.time # d
        PROVE  /\ DoneOf(d) = {}
               /\ \A e \in Range(fs.history) \cup fs.opened : e \in Nat /\ e < d
               /\ fs.disk[d] = None
    <2>1. ASSUME NEW k \in 1 .. handled PROVE pushed[k].day # d
      <3>1. handled # 0 /\ k \in 1 .. Len(pushed) /\ (k < handled \/ k = handled)
        BY <1>1 DEF n
      <3>2. fs.time # None
        BY <3>1 DEF Files
      <3>3. pushed[k].day <= fs.time /\ pushed[k].day \in Nat
        <4>1. pushed[k].day \in Nat
          BY <1>2, <1>3, <3>1
        <4>2. CASE k < handled
          BY <1>4, <1>6, <3>1, <3>2, <4>1, <4>2
        <4>3. CASE k = handled
          BY <1>6, <3>2, <4>1, <4>3
        <4> QED
          BY <3>1, <4>1, <4>2, <4>3
      <3> HIDE DEF d
      <3> QED
        BY <1>5, <1>6, <1>7, <3>2, <3>3
    <2>2. DoneOf(d) = {}
      BY <2>1 DEF DoneOf
    <2>3. Range(fs.history) \cup fs.opened \subseteq Nat
      <3>1. fs.history \in Seq(Days) /\ fs.opened \subseteq Days
        BY FsParts
      <3> QED
        BY <1>3, <3>1, LenProperties DEF Range
    <2>4. ASSUME NEW e \in Range(fs.history) \cup fs.opened PROVE e \in Nat /\ e < d
      <3>1. fs.time # None /\ e <= fs.time /\ e \in Nat
        BY <2>3 DEF Files
      <3> HIDE DEF d
      <3> QED
        BY <1>5, <1>6, <1>7, <3>1
    <2>5. fs.disk[d] = None
      <3>1. fs.disk[d] # None => d \in Range(fs.history)
        BY <1>5 DEF Files
      <3> HIDE DEF d
      <3> QED
        BY <1>5, <2>4, <3>1
    <2> QED
      BY <2>2, <2>4, <2>5
  <1> QED
    BY <1>5, <1>6, <1>7 DEF n

(* Expiring keeps what Files says of the history and the disk.               *)
Told(f) ==
    /\ \A i, j \in 1 .. Len(f.history) : i < j => f.history[i] < f.history[j]
    /\ \A d \in Days : f.disk[d] # None => d \in Range(f.history)
    /\ \A d \in Days : d \in Range(f.history) \cap f.opened => f.disk[d] # None

(* CheckExpireFiles takes names and files away together, oldest first.      *)
LEMMA ExpireTells ==
    ASSUME NEW f \in FileSystems, NEW n \in Nat, Told(f)
    PROVE  LET g == CheckExpireFiles(f, n)
           IN  /\ Told(g) /\ Range(g.history) \subseteq Range(f.history)
               /\ \A d \in Days : g.disk[d] # None => g.disk[d] = f.disk[d]
               /\ n # 0 /\ Len(f.history) # 0 => f.history[Len(f.history)] \in Range(g.history)
  <1> DEFINE g == CheckExpireFiles(f, n)
             H == f.history
             G == g.history
             m == Len(H)
  <1>1. g \in FileSystems /\ g.opened = f.opened
    BY ExpireIs
  <1>2. PICK k \in 0 .. m :
            /\ Len(G) = m - k /\ \A i \in 1 .. m - k : G[i] = H[k + i]
            /\ \A d \in Days : g.disk[d] = IF \E i \in 1 .. k : H[i] = d THEN None ELSE f.disk[d]
            /\ n # 0 /\ m # 0 => k # m
    BY ExpireIs
  <1> HIDE DEF g
  <1>3. /\ m \in Nat /\ DOMAIN H = 1 .. m /\ DOMAIN G = 1 .. m - k
        /\ H \in [1 .. m -> Days]
    <2>1. H \in Seq(Days) /\ G \in Seq(Days)
      BY <1>1, FsParts
    <2> QED
      BY <1>2, <2>1, LenProperties
  <1> HIDE DEF H, G, m
  <1>4. \A i, j \in 1 .. m : i < j => H[i] < H[j]
    BY DEF Told, H, m
  <1>5. Range(G) = {H[i] : i \in k + 1 .. m}
    <2>1. ASSUME NEW x \in Range(G) PROVE \E i \in k + 1 .. m : x = H[i]
      <3>1. PICK i \in 1 .. m - k : x = G[i]
        BY <1>3 DEF Range
      <3>2. k + i \in k + 1 .. m /\ x = H[k + i]
        BY <1>2, <1>3, <3>1
      <3> QED
        BY <3>2
    <2>2. ASSUME NEW i \in k + 1 .. m PROVE H[i] \in Range(G)
      <3>1. i - k \in 1 .. m - k /\ k + (i - k) = i
        BY <1>3
      <3>2. G[i - k] = H[i]
        BY <1>2, <3>1
      <3> QED
        BY <1>3, <3>1, <3>2 DEF Range
    <2> QED
      BY <2>1, <2>2
  <1>6. Range(G) \subseteq Range(H)
    <2>1. \A i \in k + 1 .. m : i \in 1 .. m
      BY <1>3
    <2> QED
      BY <1>3, <1>5, <2>1 DEF Range
  <1>7. \A i, j \in 1 .. Len(G) : i < j => G[i] < G[j]
    <2> SUFFICES ASSUME NEW i \in 1 .. Len(G), NEW j \in 1 .. Len(G), i < j PROVE G[i] < G[j]
      OBVIOUS
    <2>1. /\ i \in 1 .. m - k /\ j \in 1 .. m - k
          /\ k + i \in 1 .. m /\ k + j \in 1 .. m /\ k + i < k + j
      BY <1>2, <1>3
    <2>2. G[i] = H[k + i] /\ G[j] = H[k + j]
      BY <1>2, <2>1
    <2> QED
      BY <1>4, <2>1, <2>2
  <1>8. ASSUME NEW d \in Days, g.disk[d] # None PROVE d \in Range(G) /\ g.disk[d] = f.disk[d]
    <2>1. (~\E i \in 1 .. k : H[i] = d) /\ g.disk[d] = f.disk[d]
      BY <1>2, <1>8
    <2>2. d \in Range(H)
      BY <1>8, <2>1 DEF Told, H
    <2>3. PICK i \in 1 .. m : d = H[i]
      BY <1>3, <2>2 DEF Range
    <2>4. i \in k + 1 .. m
      BY <1>3, <2>1, <2>3
    <2> QED
      BY <1>5, <2>1, <2>3, <2>4
  <1>9. ASSUME NEW d \in Days, d \in Range(G) \cap g.opened PROVE g.disk[d] # None
    <2>1. PICK i \in k + 1 .. m : d = H[i]
      BY <1>5, <1>9
    <2>2. ~\E j \in 1 .. k : H[j] = d
      <3> SUFFICES ASSUME NEW j \in 1 .. k PROVE H[j] # d
        OBVIOUS
      <3>1. j \in 1 .. m /\ i \in 1 .. m /\ j < i
        BY <1>3
      <3>2. H[j] < H[i] /\ H[j] \in Nat /\ H[i] \in Nat
        BY <1>3, <1>4, <3>1, LoggerAssumption DEF Days
      <3> QED
        BY <2>1, <3>2
    <2>3. f.disk[d] # None
      BY <1>1, <1>6, <1>9 DEF Told, H
    <2> QED
      BY <1>2, <2>2, <2>3
  <1>10. n # 0 /\ m # 0 => H[m] \in Range(G)
    <2> SUFFICES ASSUME n # 0, m # 0 PROVE H[m] \in Range(G)
      OBVIOUS
    <2>1. m \in k + 1 .. m
      BY <1>2, <1>3
    <2> QED
      BY <1>5, <2>1
  <1>11. Told(g)
    BY <1>7, <1>8, <1>9 DEF Told, G
  <1> QED
    BY <1>6, <1>8, <1>10, <1>11 DEF g, G, H, m

(* A line of the date of the line before: it goes to the open file.          *)
LEMMA SameDateFiles ==
    ASSUME IndInv, fs \in FileSystems, DatesInOrder, Files, HandleLine,
           fs.time = pushed[handled + 1].day
    PROVE  Files'
  <1> DEFINE l == pushed[handled + 1]
             d == l.day
  <1>1. at[LogThread] = "write" /\ handled' = handled + 1 /\ pushed' = pushed
    BY DEF HandleLine
  <1>2. handled \in Nat /\ ~Ended /\ l \in Line /\ d \in Days /\ d # None
    BY <1>1, HandIsNext, DatesUpTo, NoneAssumption
  <1>3. \A e \in Days : DoneOf(e)' = IF d = e THEN DoneOf(e) \cup {l} ELSE DoneOf(e)
    BY <1>1, DoneNext
  <1>4. fs' = WriteLine(fs, l)
    BY HandledIs
  <1> HIDE DEF l
  <1>5. /\ fs'.time = fs.time /\ fs'.open = fs.open /\ fs'.history = fs.history
        /\ fs'.opened = fs.opened
        /\ \A e \in Days : fs'.disk[e] = IF e = fs.open /\ fs.disk[e] # None
                                         THEN fs.disk[e] \cup {l} ELSE fs.disk[e]
    BY <1>2, <1>4, WriteIs
  <1>6. fs.time = d
    BY DEF l
  <1>7. handled' # 0 /\ pushed'[handled'].day = d
    BY <1>1, <1>2 DEF l
  <1> HIDE DEF d
  <1>8. (fs.open # None => fs.open = d) /\ (fs.disk[d] # None => fs.open = d)
    BY <1>2, <1>6 DEF Files
  <1>9. ASSUME NEW e \in Days
        PROVE  /\ fs'.disk[e] # None => e \in Range(fs'.history) /\ fs'.disk[e] = DoneOf(e)'
               /\ e \in Range(fs'.history) \cap fs'.opened => fs'.disk[e] # None
    <2>1. fs.disk[e] = None => fs'.disk[e] = None
      BY <1>5
    <2>2. fs.disk[e] # None => fs'.disk[e] # None
      <3>1. \A w \in SUBSET Line : w # None
        BY NoneAssumption
      <3>2. fs.disk[e] # None => fs.disk[e] \in SUBSET Line /\ fs.disk[e] \cup {l} \in SUBSET Line
        BY <1>2, FsParts
      <3> QED
        BY <1>5, <3>1, <3>2
    <2>3. fs.disk[e] # None => e \in Range(fs.history) /\ fs.disk[e] = DoneOf(e)
      BY DEF Files
    <2>4. e \in Range(fs.history) \cap fs.opened => fs.disk[e] # None
      BY DEF Files
    <2>5. ASSUME fs.disk[e] # None PROVE fs'.disk[e] = DoneOf(e)'
      <3>1. CASE e = d
        BY <1>3, <1>5, <1>8, <2>3, <2>5, <3>1
      <3>2. CASE e # d
        <4>1. e # fs.open
          BY <1>8, <3>2, NoneAssumption
        <4> QED
          BY <1>3, <1>5, <2>3, <2>5, <3>2, <4>1
      <3> QED
        BY <3>1, <3>2
    <2> QED
      BY <1>5, <2>1, <2>2, <2>3, <2>4, <2>5
  <1>10. /\ (handled' = 0 <=> fs'.time = None)
         /\ (handled' # 0 => fs'.time = pushed'[handled'].day)
    BY <1>2, <1>5, <1>6, <1>7
  <1>11. /\ \A i, j \in 1 .. Len(fs'.history) : i < j => fs'.history[i] < fs'.history[j]
         /\ \A e \in Range(fs'.history) \cup fs'.opened : fs'.time # None /\ e <= fs'.time
    BY <1>5 DEF Files
  <1>12. (fs'.open # None => fs'.open = fs'.time)
         /\ (fs'.time # None /\ ~Ended' /\ fs'.disk[fs'.time] # None => fs'.open = fs'.time)
    BY <1>2, <1>5, <1>6, <1>8
  <1> QED
    BY <1>9, <1>10, <1>11, <1>12, Zenon DEF Files

(* A line of a new date: the name goes to the end of the history, the oldest *)
(* names go from its head, and the file is opened, or is not.                *)
LEMMA NewDateFiles ==
    ASSUME IndInv, fs \in FileSystems, DatesInOrder, Files, HandleLine,
           fs.time # pushed[handled + 1].day, max # 0
    PROVE  Files'
  <1> DEFINE l == pushed[handled + 1]
             d == l.day
  <1>1. at[LogThread] = "write" /\ handled' = handled + 1 /\ pushed' = pushed
    BY DEF HandleLine
  <1>2. /\ handled \in Nat /\ l \in Line /\ d \in Days /\ d \in Nat /\ d # None /\ DoneOf(d) = {}
        /\ \A e \in Range(fs.history) \cup fs.opened : e \in Nat /\ e < d
        /\ fs.disk[d] = None
    BY <1>1, HandIsNext, DatesUpTo, NoneAssumption
  <1>3. \A e \in Days : DoneOf(e)' = IF d = e THEN DoneOf(e) \cup {l} ELSE DoneOf(e)
    BY <1>1, DoneNext
  <1>4. PICK ok \in Opens, g \in FileSystems :
            /\ g = CheckExpireFiles(Renewed(fs, d), max)
            /\ fs' = WriteLine(IF ok THEN OpenFile(g, d) ELSE g, l)
    BY HandledIs
  <1>5. handled' # 0 /\ pushed'[handled'].day = d
    BY <1>1, <1>2
  <1>6. max \in Nat
    BY LoggerAssumption DEF IndInv, Shapes
  <1> HIDE DEF l, d
  <1> DEFINE r == Renewed(fs, d)
             H == fs.history
  <1>7. /\ r \in FileSystems /\ r.time = d /\ r.open = None /\ r.history = Append(H, d)
        /\ r.opened = fs.opened /\ r.disk = fs.disk
    BY <1>2, RenewedIs
  <1> HIDE DEF r
  <1>8. /\ H \in Seq(Days) /\ Len(H) \in Nat /\ Len(r.history) = Len(H) + 1
        /\ r.history[Len(H) + 1] = d /\ \A i \in 1 .. Len(H) : r.history[i] = H[i]
        /\ DOMAIN H = 1 .. Len(H) /\ DOMAIN r.history = 1 .. Len(H) + 1
    <2>1. H \in Seq(Days)
      BY FsParts
    <2> HIDE DEF H
    <2> QED
      BY <1>2, <1>7, <2>1, AppendProperties, LenProperties
  <1>9. Range(r.history) = Range(H) \cup {d}
    <2> HIDE DEF H
    <2>1. 1 .. Len(H) + 1 = (1 .. Len(H)) \cup {Len(H) + 1}
      BY <1>8
    <2> QED
      BY <1>8, <2>1 DEF Range
  <1>10. Told(r)
    <2>1. \A i, j \in 1 .. Len(r.history) : i < j => r.history[i] < r.history[j]
      <3>1. \A i, j \in 1 .. Len(H) : i < j => H[i] < H[j]
        BY DEF Files
      <3>2. \A i \in 1 .. Len(H) : H[i] < d
        BY <1>2, <1>8 DEF Range
      <3> HIDE DEF H
      <3> SUFFICES ASSUME NEW i \in 1 .. Len(H) + 1, NEW j \in 1 .. Len(H) + 1, i < j
                   PROVE  r.history[i] < r.history[j]
        BY <1>8
      <3>3. i \in 1 .. Len(H) /\ (j \in 1 .. Len(H) \/ j = Len(H) + 1)
        BY <1>8
      <3> QED
        BY <1>8, <3>1, <3>2, <3>3
    <2>2. \A e \in Days : r.disk[e] # None => e \in Range(r.history)
      BY <1>7, <1>9 DEF Files
    <2>3. \A e \in Days : e \in Range(r.history) \cap r.opened => r.disk[e] # None
      <3>1. d \notin fs.opened
        BY <1>2
      <3> QED
        BY <1>7, <1>9, <3>1 DEF Files
    <2> QED
      BY <2>1, <2>2, <2>3 DEF Told
  <1>11. /\ g.time = d /\ g.open = None /\ g.opened = fs.opened
         /\ Told(g) /\ Range(g.history) \subseteq Range(H) \cup {d} /\ d \in Range(g.history)
         /\ \A e \in Days : g.disk[e] # None => g.disk[e] = fs.disk[e]
    <2>1. g = CheckExpireFiles(r, max)
      BY <1>4 DEF r
    <2>2. g.time = d /\ g.open = None /\ g.opened = fs.opened
      BY <1>6, <1>7, <2>1, ExpireIs
    <2>3. /\ Told(g) /\ Range(g.history) \subseteq Range(r.history)
          /\ \A e \in Days : g.disk[e] # None => g.disk[e] = r.disk[e]
          /\ max # 0 /\ Len(r.history) # 0 => r.history[Len(r.history)] \in Range(g.history)
      BY <1>6, <1>7, <1>10, <2>1, ExpireTells
    <2> HIDE DEF H
    <2>4. Len(r.history) # 0 /\ r.history[Len(r.history)] = d
      BY <1>8
    <2> QED
      BY <1>7, <1>9, <2>2, <2>3, <2>4
  <1>12. g.disk[d] = None
    BY <1>2, <1>11
  <1>13. /\ \A i, j \in 1 .. Len(g.history) : i < j => g.history[i] < g.history[j]
         /\ \A e \in Days : g.disk[e] # None => e \in Range(g.history)
         /\ \A e \in Days : e \in Range(g.history) \cap g.opened => g.disk[e] # None
    BY <1>11 DEF Told
  <1>14. \A e \in Range(g.history) \cup fs.opened \cup {d} : e <= d
    BY <1>2, <1>11
  <1>15. \A e \in Days : g.disk[e] # None => g.disk[e] = DoneOf(e) /\ e # d
    BY <1>11, <1>12 DEF Files
  <1>16. CASE ~ok
    <2>1. fs' = WriteLine(g, l)
      BY <1>4, <1>16
    <2>2. /\ fs'.time = d /\ fs'.open = None /\ fs'.history = g.history /\ fs'.opened = fs.opened
          /\ \A e \in Days : fs'.disk[e] = IF e = g.open /\ g.disk[e] # None
                                           THEN g.disk[e] \cup {l} ELSE g.disk[e]
      BY <1>2, <1>11, <2>1, WriteIs
    <2>3. \A e \in Days : fs'.disk[e] = g.disk[e]
      BY <1>11, <2>2, NoneAssumption
    <2>4. ASSUME NEW e \in Days
          PROVE  /\ fs'.disk[e] # None => e \in Range(fs'.history) /\ fs'.disk[e] = DoneOf(e)'
                 /\ e \in Range(fs'.history) \cap fs'.opened => fs'.disk[e] # None
      BY <1>3, <1>11, <1>13, <1>15, <2>2, <2>3
    <2>5. fs'.disk[fs'.time] = None
      BY <1>2, <1>12, <2>2, <2>3
    <2>6. /\ (handled' = 0 <=> fs'.time = None)
          /\ (handled' # 0 => fs'.time = pushed'[handled'].day)
      BY <1>2, <1>5, <2>2
    <2>7. \A i, j \in 1 .. Len(fs'.history) : i < j => fs'.history[i] < fs'.history[j]
      BY <1>13, <2>2
    <2>8. \A e \in Range(fs'.history) \cup fs'.opened : fs'.time # None /\ e <= fs'.time
      BY <1>2, <1>14, <2>2
    <2> QED
      BY <2>2, <2>4, <2>5, <2>6, <2>7, <2>8, Zenon DEF Files
  <1>17. CASE ok
    <2> DEFINE o == OpenFile(g, d)
    <2>1. fs' = WriteLine(o, l)
      BY <1>4, <1>17
    <2>2. /\ o \in FileSystems /\ o.time = d /\ o.open = d /\ o.history = g.history
          /\ o.opened = fs.opened \cup {d} /\ o.disk[d] = {}
          /\ \A e \in Days \ {d} : o.disk[e] = g.disk[e]
      BY <1>2, <1>11, <1>12, OpenIs
    <2> HIDE DEF o
    <2>3. /\ fs'.time = d /\ fs'.open = d /\ fs'.history = g.history
          /\ fs'.opened = fs.opened \cup {d}
          /\ \A e \in Days : fs'.disk[e] = IF e = o.open /\ o.disk[e] # None
                                           THEN o.disk[e] \cup {l} ELSE o.disk[e]
      BY <1>2, <2>1, <2>2, WriteIs
    <2>4. {} # None /\ {l} # None
      BY <1>2, NoneAssumption
    <2>5. fs'.disk[d] = {l} /\ \A e \in Days \ {d} : fs'.disk[e] = g.disk[e]
      BY <1>2, <2>2, <2>3, <2>4
    <2>6. ASSUME NEW e \in Days
          PROVE  /\ fs'.disk[e] # None => e \in Range(fs'.history) /\ fs'.disk[e] = DoneOf(e)'
                 /\ e \in Range(fs'.history) \cap fs'.opened => fs'.disk[e] # None
      <3>1. CASE e = d
        BY <1>2, <1>3, <1>11, <2>3, <2>4, <2>5, <3>1
      <3>2. CASE e # d
        BY <1>3, <1>11, <1>13, <1>15, <2>3, <2>5, <3>2
      <3> QED
        BY <3>1, <3>2
    <2>7. /\ (handled' = 0 <=> fs'.time = None)
          /\ (handled' # 0 => fs'.time = pushed'[handled'].day)
      BY <1>2, <1>5, <2>3
    <2>8. \A i, j \in 1 .. Len(fs'.history) : i < j => fs'.history[i] < fs'.history[j]
      BY <1>13, <2>3
    <2>9. \A e \in Range(fs'.history) \cup fs'.opened : fs'.time # None /\ e <= fs'.time
      BY <1>2, <1>14, <2>3
    <2> QED
      BY <2>3, <2>6, <2>7, <2>8, <2>9, Zenon DEF Files
  <1> QED
    BY <1>16, <1>17
(* SetMaxStoreDays: names go from the head of the history.                   *)
LEMMA SetMaxStoreDaysFiles ==
    ASSUME fs \in FileSystems, Files, NEW n \in StoreDays, SetMaxStoreDays(n)
    PROVE  Files'
  <1>1. fs' = CheckExpireFiles(fs, n) /\ n \in Nat
    BY LoggerAssumption DEF SetMaxStoreDays
  <1>2. handled' = handled /\ pushed' = pushed /\ Ended' = Ended /\ \A d \in Days : DoneOf(d)' = DoneOf(d)
    BY DEF SetMaxStoreDays, lineq, calls, Ended, DoneOf
  <1>3. fs'.time = fs.time /\ fs'.open = fs.open /\ fs'.opened = fs.opened
    BY <1>1, ExpireIs
  <1>4. Told(fs)
    BY DEF Files, Told
  <1>5. /\ Told(fs') /\ Range(fs'.history) \subseteq Range(fs.history)
        /\ \A d \in Days : fs'.disk[d] # None => fs'.disk[d] = fs.disk[d]
    BY <1>1, <1>4, ExpireTells
  <1>6. /\ \A i, j \in 1 .. Len(fs'.history) : i < j => fs'.history[i] < fs'.history[j]
        /\ \A d \in Days : fs'.disk[d] # None => d \in Range(fs'.history)
        /\ \A d \in Days : d \in Range(fs'.history) \cap fs'.opened => fs'.disk[d] # None
    BY <1>5 DEF Told
  <1>7. \A d \in Range(fs'.history) \cup fs'.opened : fs'.time # None /\ d <= fs'.time
    BY <1>3, <1>5 DEF Files
  <1>8. \A d \in Days : fs'.disk[d] # None => fs'.disk[d] = DoneOf(d)'
    BY <1>2, <1>5 DEF Files
  <1>9. fs'.time # None /\ ~Ended' /\ fs'.disk[fs'.time] # None => fs'.open = fs'.time
    <2>1. fs.time # None => fs.time \in Days
      BY FsParts
    <2> QED
      BY <1>2, <1>3, <1>5, <2>1 DEF Files
  <1>10. /\ (handled' = 0 <=> fs'.time = None)
         /\ (handled' # 0 => fs'.time = pushed'[handled'].day)
         /\ (fs'.open # None => fs'.open = fs'.time)
    BY <1>2, <1>3 DEF Files
  <1> QED
    BY <1>6, <1>7, <1>8, <1>9, <1>10, Zenon DEF Files

(* A step that leaves the files and the handled lines as they are, but for    *)
(* the stream that Join closes.                                              *)
LEMMA StillFiles ==
    ASSUME IndInv, [Next]_vars, fs \in FileSystems, Files, handled' = handled,
           \A k \in 1 .. handled : pushed'[k] = pushed[k],
           \/ fs' = fs
           \/ /\ Ended'
              /\ fs' = [time |-> fs.time, open |-> None, history |-> fs.history,
                        opened |-> fs.opened, disk |-> fs.disk]
    PROVE  Files'
  <1>1. \A d \in Days : DoneOf(d)' = DoneOf(d)
    <2> SUFFICES ASSUME NEW d \in Days PROVE DoneOf(d)' = DoneOf(d)
      OBVIOUS
    <2>1. {k \in 1 .. handled : pushed'[k].day = d} = {k \in 1 .. handled : pushed[k].day = d}
      OBVIOUS
    <2> QED
      BY <2>1 DEF DoneOf
  <1>2. handled # 0 => pushed'[handled'] = pushed[handled]
    BY DEF IndInv, Order
  <1>3. /\ fs'.time = fs.time /\ fs'.history = fs.history
        /\ fs'.opened = fs.opened /\ fs'.disk = fs.disk
        /\ fs'.open = fs.open \/ (Ended' /\ fs'.open = None)
    OBVIOUS
  <1>4. ~Ended' => ~Ended
    BY EndedStays
  <1>5. /\ (handled' = 0 <=> fs'.time = None)
        /\ (handled' # 0 => fs'.time = pushed'[handled'].day)
    BY <1>2, <1>3 DEF Files
  <1>6. /\ \A i, j \in 1 .. Len(fs'.history) : i < j => fs'.history[i] < fs'.history[j]
        /\ \A d \in Range(fs'.history) \cup fs'.opened : fs'.time # None /\ d <= fs'.time
    BY <1>3 DEF Files
  <1>7. \A d \in Days :
            /\ fs'.disk[d] # None => d \in Range(fs'.history) /\ fs'.disk[d] = DoneOf(d)'
            /\ d \in Range(fs'.history) \cap fs'.opened => fs'.disk[d] # None
    BY <1>1, <1>3 DEF Files
  <1>8. /\ (fs'.open # None => fs'.open = fs'.time)
        /\ (fs'.time # None /\ ~Ended' /\ fs'.disk[fs'.time] # None => fs'.open = fs'.time)
    BY <1>3, <1>4 DEF Files
  <1> QED
    BY <1>5, <1>6, <1>7, <1>8, Zenon DEF Files

(* What is pushed comes after the lines that are.                            *)
LEMMA PushKeeps ==
    ASSUME IndInv, NEW t \in Threads, Push(t)
    PROVE  /\ fs' = fs /\ handled' = handled /\ \A k \in 1 .. handled : pushed'[k] = pushed[k]
           /\ DatesInOrder' => DatesInOrder
  <1> DEFINE x == mem[blk[t]].line
  <1>1. fs' = fs /\ handled' = handled /\ pushed' = Append(pushed, x) /\ at[t] = "push"
    BY DEF Push, files
  <1>2. x \in Line
    BY <1>1 DEF IndInv, Texts, HasLine
  <1> HIDE DEF x
  <1>3. pushed \in Seq(Line) /\ handled \in 0 .. Len(pushed) /\ Len(pushed) \in Nat
    BY LenProperties DEF IndInv, Order
  <1>4. Len(pushed') = Len(pushed) + 1 /\ \A k \in 1 .. Len(pushed) : pushed'[k] = pushed[k]
    BY <1>1, <1>2, <1>3, AppendProperties
  <1>5. ASSUME DatesInOrder' PROVE DatesInOrder
    <2> SUFFICES ASSUME NEW i \in 1 .. Len(pushed), NEW j \in 1 .. Len(pushed), i < j
                 PROVE  pushed[i].day <= pushed[j].day
      BY DEF DatesInOrder
    <2>1. i \in 1 .. Len(pushed') /\ j \in 1 .. Len(pushed')
      BY <1>3, <1>4
    <2>2. pushed'[i].day <= pushed'[j].day
      BY <1>5, <2>1 DEF DatesInOrder
    <2> QED
      BY <1>4, <2>2
  <1>6. \A k \in 1 .. handled : pushed'[k] = pushed[k]
    BY <1>3, <1>4
  <1> QED
    BY <1>1, <1>5, <1>6

(* Every step keeps what is said of the files, one step per action that     *)
(* touches them.                                                            *)
LEMMA FilesNext ==
    ASSUME 0 \notin StoreDays \cup {MaxStore},
           IndInv, [Next]_vars, fs \in FileSystems, FilesInv
    PROVE  FilesInv'
  <1>1. CASE HandleLine
    <2>1. pushed' = pushed /\ max # 0
      BY <1>1 DEF HandleLine, IndInv, Shapes
    <2>2. DatesInOrder' => DatesInOrder
      BY <2>1 DEF DatesInOrder
    <2> QED
      BY <1>1, <2>1, <2>2, SameDateFiles, NewDateFiles DEF FilesInv
  <1>2. CASE Join
    <2>1. pushed' = pushed /\ handled' = handled
      BY <1>2 DEF Join, lineq
    <2>2. DatesInOrder' => DatesInOrder
      BY <2>1 DEF DatesInOrder
    <2>3. Ended'
      BY <1>2, Basics DEF Join, Goto, Ended
    <2> QED
      BY <1>2, <2>1, <2>2, <2>3, JoinFiles, StillFiles DEF FilesInv
  <1>3. CASE \E n \in StoreDays : SetMaxStoreDays(n)
    <2>1. DatesInOrder' => DatesInOrder
      BY <1>3 DEF SetMaxStoreDays, lineq, DatesInOrder
    <2> QED
      BY <1>3, <2>1, SetMaxStoreDaysFiles DEF FilesInv
  <1>4. CASE \E t \in Threads : Push(t)
    BY <1>4, PushKeeps, StillFiles DEF FilesInv
  <1>5. CASE UNCHANGED <<fs, pushed, handled>>
    <2>1. DatesInOrder' => DatesInOrder
      BY <1>5 DEF DatesInOrder
    <2> QED
      BY <1>5, <2>1, StillFiles DEF FilesInv
  <1> QED
    BY <1>1, <1>2, <1>3, <1>4, <1>5, FilesFrame

(* As long as the lines come in the order of their dates, a file on disk has *)
(* exactly the handled lines of its date and is one the logger will still    *)
(* expire, and none that was opened and not expired is missing               *)
(* (file_logger.cpp, CheckTime, CheckExpireFiles, SetMaxStoreDays).  At least *)
(* one file may stay: with 0 the new name expires before its file is made.   *)
THEOREM FilesStayTold ==
    ASSUME 0 \notin StoreDays \cup {MaxStore}
    PROVE  Spec => []FilesTell
  <1>1. Init => fs \in FileSystems /\ FilesInv
    BY InitHolds
  <1>2. fs \in FileSystems /\ FilesInv /\ IndInv /\ [Next]_vars => (fs \in FileSystems /\ FilesInv)'
    BY FsNext, FilesNext
  <1>3. FilesInv => FilesTell
    BY DEF FilesInv, Files, FilesTell, DoneOf
  <1> QED
    BY <1>1, <1>2, <1>3, Inductive, PTL DEF Spec
=============================================================================
