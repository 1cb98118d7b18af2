---------------------------- MODULE ReactorProofs ----------------------------
(***************************************************************************)
(* Proofs about Reactor, for any descriptors, clients and chunks: the epoll  *)
(* set, the lists and the entries that epoll_wait has reported agree, and    *)
(* the lists account for the chunks.                                        *)
(***************************************************************************)
EXTENDS Reactor, FiniteSetTheorems, SequenceTheorems, WellFoundedInduction, TLAPS

-----------------------------------------------------------------------------
(* The inductive invariant, from its parts.                                  *)

(* The list L of a descriptor with client c, of whose chunks g have been     *)
(* received and S sent back, where p tells the state of the connection.      *)
Listed(L, c, g, S, p) ==
    /\ L \in Seq(Events) /\ IsInjective(L)
    /\ L = <<>> <=> c = 0
    /\ c # 0 => /\ InEv(c) \in Range(L)
                /\ Range(L) \subseteq {InEv(c)} \cup {OutEv(c, k) : k \in 1 .. g}
                /\ \A k \in 1 .. g : k \in Range(S) => OutEv(c, k) \notin Range(L)
                /\ p # "gone" => \A k \in 1 .. g : k \in Range(S) \/ OutEv(c, k) \in Range(L)

(* The entry r of the epoll set for the list L.                             *)
Registered(r, L) ==
    /\ r = [ptr |-> r.ptr, mask |-> r.mask]
    /\ r.mask = Types(L)
    /\ L # <<>> => r.ptr \in Range(L)

(* An entry of ep_events.                                                   *)
Entry(e) ==
    /\ e = [fd |-> e.fd, ptr |-> e.ptr, mask |-> e.mask]
    /\ e.fd \in Fds \cup {Listen} /\ e.mask \subseteq {"in", "out"} /\ e.mask # {}
    /\ e.fd = Listen => e.mask = {"in"}

Peers == {"up", "fin", "rst", "brk", "gone"}

Shapes ==
    /\ on \in [Fds -> 0 .. MaxConns] /\ DOMAIN events = Fds /\ DOMAIN reg = Fds
    /\ events = [f \in Fds |-> events[f]] /\ reg = [f \in Fds |-> reg[f]]
    /\ cur \in Fds \cup {0} /\ again \in BOOLEAN /\ full \in [Fds -> BOOLEAN]
    /\ con \in 0 .. MaxConns /\ acc \in 0 .. con
    /\ peer \in [Conns -> Peers] /\ arr \in [Conns -> 0 .. MaxChunks] /\ got \in [Conns -> Nat]
    /\ sent \in [Conns -> Seq(Nat)] /\ alive \in BOOLEAN /\ sigpipe \in BOOLEAN

(* The chunks sent back are distinct ones of those received.                 *)
Chunks ==
    \A c \in Conns : /\ got[c] <= arr[c] /\ (c > acc => got[c] = 0)
                     /\ IsInjective(sent[c]) /\ Range(sent[c]) \subseteq 1 .. got[c]

(* A client that accept has taken is on one descriptor at most.              *)
OneEach ==
    \A f \in Fds : on[f] <= acc /\ \A g \in Fds : on[f] = on[g] /\ on[f] # 0 => f = g

Lists ==
    \A f \in Fds : /\ Listed(events[f], on[f], got[on[f]], sent[on[f]], peer[on[f]])
                   /\ Registered(reg[f], events[f])

(* The entries still to be handled are of different descriptors; only the    *)
(* one whose reading half is done may have lost its event.                  *)
Batch ==
    /\ \A e \in batch : Entry(e) /\ (e.fd = Listen => acc < con)
    /\ \A e, d \in batch : e.fd = d.fd => e = d
    /\ \A e \in batch : e.fd \in Fds /\ e.fd # cur => e.ptr \in Range(events[e.fd])

IndInv == Shapes /\ Chunks /\ OneEach /\ Lists /\ Batch

-----------------------------------------------------------------------------
(* Sequences without repetitions.                                            *)

(* A sequence with one more element in front.                                *)
LEMMA Pushed ==
    ASSUME NEW S, NEW L \in Seq(S), IsInjective(L), NEW x \in S, x \notin Range(L)
    PROVE  /\ AddList(L, x) \in Seq(S) /\ IsInjective(AddList(L, x)) /\ AddList(L, x) # <<>>
           /\ Range(AddList(L, x)) = Range(L) \cup {x}
  <1> DEFINE n == Len(L)
             M == AddList(L, x)
  <1>1. n \in Nat /\ DOMAIN L = 1 .. n
    BY LenProperties
  <1>2. /\ M \in Seq(S) /\ Len(M) = n + 1 /\ M[1] = x
        /\ \A i \in 1 .. n : M[i + 1] = L[i]
    <2>1. <<x>> \in Seq(S) /\ Len(<<x>>) = 1
      OBVIOUS
    <2>2. /\ M \in Seq(S) /\ Len(M) = 1 + n
          /\ \A i \in 1 .. 1 + n : M[i] = IF i <= 1 THEN <<x>>[i] ELSE L[i - 1]
      BY <2>1, ConcatProperties DEF AddList
    <2> HIDE DEF M
    <2>3. M[1] = x
      BY <1>1, <2>2
    <2>4. ASSUME NEW i \in 1 .. n PROVE M[i + 1] = L[i]
      <3>1. i + 1 \in 1 .. 1 + n /\ ~(i + 1 <= 1) /\ (i + 1) - 1 = i
        BY <1>1
      <3> QED
        BY <2>2, <3>1
    <2> QED
      BY <1>1, <2>2, <2>3, <2>4
  <1>3. DOMAIN M = 1 .. n + 1
    BY <1>2, LenProperties
  <1> HIDE DEF M
  <1>4. ASSUME NEW i \in 1 .. n + 1, i # 1
        PROVE  i - 1 \in 1 .. n /\ M[i] = L[i - 1] /\ L[i - 1] \in Range(L)
    <2>1. i - 1 \in 1 .. n /\ (i - 1) + 1 = i
      BY <1>1, <1>4
    <2>2. M[i] = L[i - 1]
      BY <1>2, <2>1
    <2> QED
      BY <1>1, <2>1, <2>2 DEF Range
  <1>5. IsInjective(M)
    <2>1. ASSUME NEW i \in 1 .. n + 1, NEW j \in 1 .. n + 1, M[i] = M[j] PROVE i = j
      <3>1. CASE i = 1 /\ j # 1
        BY <1>2, <1>4, <2>1, <3>1
      <3>2. CASE i # 1 /\ j = 1
        BY <1>2, <1>4, <2>1, <3>2
      <3>3. CASE i # 1 /\ j # 1
        <4>1. L[i - 1] = L[j - 1] /\ i - 1 \in 1 .. n /\ j - 1 \in 1 .. n
          BY <1>4, <2>1, <3>3
        <4>2. i - 1 = j - 1
          BY <1>1, <4>1 DEF IsInjective
        <4> QED
          BY <1>1, <4>2
      <3> QED
        BY <3>1, <3>2, <3>3
    <2> QED
      BY <1>3, <2>1 DEF IsInjective
  <1>6. Range(M) = Range(L) \cup {x}
    <2>1. ASSUME NEW y \in Range(M) PROVE y \in Range(L) \cup {x}
      BY <1>2, <1>3, <1>4 DEF Range
    <2>2. ASSUME NEW y \in Range(L) PROVE y \in Range(M)
      <3>1. PICK i \in 1 .. n : y = L[i]
        BY <1>1 DEF Range
      <3>2. i + 1 \in 1 .. n + 1 /\ M[i + 1] = y
        BY <1>1, <1>2, <3>1
      <3> QED
        BY <1>3, <3>2 DEF Range
    <2>3. x \in Range(M)
      BY <1>1, <1>2, <1>3 DEF Range
    <2> QED
      BY <2>1, <2>2, <2>3
  <1>7. M # <<>>
    BY <1>1, <1>2
  <1> QED
    BY <1>2, <1>5, <1>6, <1>7 DEF M

(* A sequence without its i-th element.                                      *)
LEMMA Removed ==
    ASSUME NEW S, NEW L \in Seq(S), IsInjective(L), NEW i \in DOMAIN L
    PROVE  /\ DelList(L, i) \in Seq(S) /\ IsInjective(DelList(L, i))
           /\ Range(DelList(L, i)) = Range(L) \ {L[i]}
  <1> DEFINE n == Len(L)
             A == SubSeq(L, 1, i - 1)
             B == SubSeq(L, i + 1, n)
             M == DelList(L, i)
             at(j) == IF j < i THEN j ELSE j + 1
  <1>1. n \in Nat /\ DOMAIN L = 1 .. n /\ i \in 1 .. n
    BY LenProperties
  <1>2. A \in Seq(S) /\ Len(A) = i - 1 /\ \A j \in 1 .. i - 1 : A[j] = L[j]
    <2>1. \A j \in 1 .. i - 1 : L[j] \in S
      BY <1>1, ElementOfSeq
    <2> QED
      BY <1>1, <2>1, SubSeqProperties
  <1>3. B \in Seq(S) /\ Len(B) = n - i /\ \A j \in 1 .. n - i : B[j] = L[i + j]
    <2>1. \A j \in (i + 1) .. n : L[j] \in S
      BY <1>1, ElementOfSeq
    <2>2. i + 1 \in Int /\ n \in Int
      BY <1>1
    <2>3. /\ B \in Seq(S) /\ Len(B) = IF i + 1 <= n THEN n - (i + 1) + 1 ELSE 0
          /\ \A j \in 1 .. n - (i + 1) + 1 : B[j] = L[(i + 1) + j - 1]
      BY <2>1, <2>2, SubSeqProperties
    <2> HIDE DEF B, n
    <2>4. n - (i + 1) + 1 = n - i /\ \A j \in 1 .. n - i : (i + 1) + j - 1 = i + j
      BY <1>1
    <2>5. Len(B) = n - i
      BY <1>1, <2>3
    <2> QED
      BY <2>3, <2>4, <2>5
  <1> HIDE DEF A, B, n
  <1>4. /\ M \in Seq(S) /\ Len(M) = n - 1
        /\ \A j \in 1 .. n - 1 : M[j] = L[at(j)] /\ at(j) \in 1 .. n /\ at(j) # i
    <2>1. M = A \o B
      BY DEF DelList, RemoveAt, A, B, n
    <2>2. /\ M \in Seq(S) /\ Len(M) = (i - 1) + (n - i)
          /\ \A j \in 1 .. (i - 1) + (n - i) : M[j] = IF j <= i - 1 THEN A[j] ELSE B[j - (i - 1)]
      BY <1>2, <1>3, <2>1, ConcatProperties
    <2> HIDE DEF M
    <2>3. (i - 1) + (n - i) = n - 1
      BY <1>1
    <2>4. ASSUME NEW j \in 1 .. n - 1 PROVE M[j] = L[at(j)] /\ at(j) \in 1 .. n /\ at(j) # i
      <3>1. CASE j < i
        <4>1. j <= i - 1 /\ j \in 1 .. i - 1 /\ at(j) = j
          BY <1>1, <3>1
        <4> QED
          BY <1>1, <1>2, <2>2, <2>3, <4>1
      <3>2. CASE ~(j < i)
        <4>1. /\ ~(j <= i - 1) /\ j - (i - 1) \in 1 .. n - i /\ i + (j - (i - 1)) = j + 1
              /\ at(j) = j + 1
          BY <1>1, <3>2
        <4>2. M[j] = L[j + 1]
          BY <1>3, <2>2, <2>3, <4>1
        <4> QED
          BY <1>1, <3>2, <4>1, <4>2
      <3> QED
        BY <3>1, <3>2
    <2> QED
      BY <2>2, <2>3, <2>4
  <1> HIDE DEF M
  <1>5. DOMAIN M = 1 .. n - 1
    BY <1>4, LenProperties
  <1>6. IsInjective(M)
    <2>1. ASSUME NEW j \in 1 .. n - 1, NEW k \in 1 .. n - 1, M[j] = M[k] PROVE j = k
      <3>1. at(j) = at(k)
        BY <1>1, <1>4, <2>1 DEF IsInjective
      <3> QED
        BY <1>1, <3>1
    <2> QED
      BY <1>5, <2>1 DEF IsInjective
  <1>7. Range(M) = Range(L) \ {L[i]}
    <2>1. ASSUME NEW y \in Range(M) PROVE y \in Range(L) /\ y # L[i]
      <3>1. PICK j \in 1 .. n - 1 : y = M[j]
        BY <1>5 DEF Range
      <3>2. y = L[at(j)] /\ at(j) \in 1 .. n /\ at(j) # i
        BY <1>4, <3>1
      <3> HIDE DEF at
      <3> QED
        BY <1>1, <3>2 DEF Range, IsInjective
    <2>2. ASSUME NEW y \in Range(L), y # L[i] PROVE y \in Range(M)
      <3>1. PICK k \in 1 .. n : y = L[k]
        BY <1>1 DEF Range
      <3> DEFINE j == IF k < i THEN k ELSE k - 1
      <3>2. k # i
        BY <2>2, <3>1
      <3>3. j \in 1 .. n - 1 /\ at(j) = k
        BY <1>1, <3>2
      <3> HIDE DEF j
      <3>4. M[j] = y
        BY <1>4, <3>1, <3>3
      <3> QED
        BY <1>5, <3>3, <3>4 DEF Range
    <2> QED
      BY <2>1, <2>2
  <1> QED
    BY <1>4, <1>6, <1>7 DEF M

(* A sequence with one more element at its end.                              *)
LEMMA Appended ==
    ASSUME NEW S, NEW L \in Seq(S), IsInjective(L), NEW x \in S, x \notin Range(L)
    PROVE  /\ Append(L, x) \in Seq(S) /\ IsInjective(Append(L, x))
           /\ Range(Append(L, x)) = Range(L) \cup {x}
  <1> DEFINE n == Len(L)
             M == Append(L, x)
  <1>1. n \in Nat /\ DOMAIN L = 1 .. n
    BY LenProperties
  <1>2. /\ M \in Seq(S) /\ Len(M) = n + 1 /\ DOMAIN M = 1 .. n + 1
        /\ M[n + 1] = x /\ \A i \in 1 .. n : M[i] = L[i]
    BY <1>1, AppendProperties, LenProperties
  <1> HIDE DEF M, n
  <1>3. ASSUME NEW i \in 1 .. n + 1, i # n + 1 PROVE i \in 1 .. n /\ M[i] = L[i] /\ M[i] # x
    <2>1. i \in 1 .. n
      BY <1>1, <1>3
    <2> QED
      BY <1>1, <1>2, <2>1 DEF Range
  <1>4. IsInjective(M)
    <2>1. ASSUME NEW i \in 1 .. n + 1, NEW j \in 1 .. n + 1, M[i] = M[j] PROVE i = j
      <3>1. CASE i = n + 1 \/ j = n + 1
        BY <1>2, <1>3, <2>1, <3>1
      <3>2. CASE i # n + 1 /\ j # n + 1
        BY <1>1, <1>3, <2>1, <3>2 DEF IsInjective
      <3> QED
        BY <3>1, <3>2
    <2> QED
      BY <1>2, <2>1 DEF IsInjective
  <1>5. Range(M) = Range(L) \cup {x}
    <2>1. ASSUME NEW y \in Range(M) PROVE y \in Range(L) \cup {x}
      <3>1. PICK i \in 1 .. n + 1 : y = M[i]
        BY <1>2 DEF Range
      <3> QED
        BY <1>1, <1>2, <1>3, <3>1 DEF Range
    <2>2. ASSUME NEW y \in Range(L) PROVE y \in Range(M)
      <3>1. PICK i \in 1 .. n : y = L[i]
        BY <1>1 DEF Range
      <3>2. i \in 1 .. n + 1 /\ M[i] = y
        BY <1>1, <1>2, <3>1
      <3> QED
        BY <1>2, <3>2 DEF Range
    <2>3. x \in Range(M)
      <3>1. n + 1 \in 1 .. n + 1
        BY <1>1
      <3> QED
        BY <1>2, <3>1 DEF Range
    <2> QED
      BY <2>1, <2>2, <2>3
  <1> QED
    BY <1>2, <1>4, <1>5 DEF M

(* A sequence without repetitions of numbers up to n is no longer than n.      *)
LEMMA Pigeonhole ==
    ASSUME NEW n \in Nat, NEW s \in Seq(Nat), IsInjective(s), Range(s) \subseteq 1 .. n
    PROVE  Len(s) <= n
  <1>1. Len(s) \in Nat /\ DOMAIN s = 1 .. Len(s) /\ s \in [1 .. Len(s) -> 1 .. n]
    BY LenProperties DEF Range
  <1> DEFINE D == 1 .. Len(s)
             E == 1 .. n
  <1>2. IsFiniteSet(D) /\ IsFiniteSet(E) /\ Cardinality(D) = Len(s) /\ Cardinality(E) = n
    <2>1. ASSUME NEW m \in Nat PROVE IsFiniteSet(1 .. m) /\ Cardinality(1 .. m) = m
      <3>1. /\ 1 \in Int /\ m \in Int
        OBVIOUS
      <3>2. IsFiniteSet(1 .. m) /\ Cardinality(1 .. m) = IF 1 > m THEN 0 ELSE m - 1 + 1
        BY <3>1, FS_Interval
      <3>3. (IF 1 > m THEN 0 ELSE m - 1 + 1) = m
        OBVIOUS
      <3> QED
        BY <3>2, <3>3
    <2> QED
      BY <1>1, <2>1
  <1>3. s \in Injection(D, E)
    BY <1>1 DEF Injection, IsInjective
  <1>4. Cardinality(D) <= Cardinality(E)
    BY <1>2, <1>3, FS_Injection
  <1> QED
    BY <1>2, <1>4

-----------------------------------------------------------------------------
(* What an operation does to one list and its entry in the epoll set.         *)

(* Events are told apart by type and by chunk.                               *)
LEMMA EventKinds ==
    ASSUME NEW c, NEW k
    PROVE  /\ InEv(c)[2] = "in" /\ OutEv(c, k)[2] = "out" /\ OutEv(c, k)[3] = k
           /\ InEv(c) # OutEv(c, k) /\ InEv(c)[1] = c /\ OutEv(c, k)[1] = c
           /\ \A m : OutEv(c, k) = OutEv(c, m) => k = m
  BY DEF InEv, OutEv

(* revent_add leaves the entry of the epoll set in step with the list.      *)
LEMMA AddRegisters ==
    ASSUME NEW L \in Seq(Events), IsInjective(L), NEW x \in Events, x \notin Range(L)
    PROVE  Registered(AddReg(L, x), AddList(L, x))
  <1>1. x \in Range(AddList(L, x))
    BY Pushed
  <1> QED
    BY <1>1 DEF Registered, AddReg

(* revent_del leaves the entry of the epoll set in step with the list,      *)
(* also when the list is empty.                                             *)
LEMMA DelRegisters ==
    ASSUME NEW L \in Seq(Events), IsInjective(L), NEW i \in DOMAIN L
    PROVE  Registered(DelReg(L, i), DelList(L, i))
  <1> DEFINE M == DelList(L, i)
  <1>1. M \in Seq(Events)
    BY Removed
  <1> HIDE DEF M
  <1>2. CASE M = <<>>
    <2>1. Types(M) = {} /\ DelReg(L, i) = NoReg
      BY <1>2 DEF Types, DelReg, M
    <2> QED
      BY <1>2, <2>1 DEF Registered, NoReg, M
  <1>3. CASE M # <<>>
    <2>1. DelReg(L, i) = [ptr |-> Head(M), mask |-> Types(M)]
      BY <1>3 DEF DelReg, M
    <2>2. Head(M) = M[1] /\ 1 \in DOMAIN M
      BY <1>1, <1>3
    <2>3. Head(M) \in Range(M)
      BY <2>2 DEF Range
    <2> QED
      BY <2>1, <2>3 DEF Registered, M
  <1> QED
    BY <1>2, <1>3

(* accept: the list of a new client.                                        *)
LEMMA NewList ==
    ASSUME NEW c \in Conns, c # 0, NEW S, NEW p
    PROVE  /\ Listed(AddList(<<>>, InEv(c)), c, 0, S, p)
           /\ Registered(AddReg(<<>>, InEv(c)), AddList(<<>>, InEv(c)))
  <1>1. InEv(c) \in Events
    BY DEF Events
  <1>2. <<>> \in Seq(Events) /\ IsInjective(<<>>) /\ Range(<<>>) = {}
    BY DEF IsInjective, Range
  <1>3. /\ AddList(<<>>, InEv(c)) \in Seq(Events) /\ IsInjective(AddList(<<>>, InEv(c)))
        /\ AddList(<<>>, InEv(c)) # <<>> /\ Range(AddList(<<>>, InEv(c))) = {InEv(c)}
    <2> DEFINE L == <<>>
    <2>1. L \in Seq(Events) /\ IsInjective(L) /\ Range(L) = {}
      BY <1>2
    <2> HIDE DEF L
    <2>2. /\ AddList(L, InEv(c)) \in Seq(Events) /\ IsInjective(AddList(L, InEv(c)))
          /\ AddList(L, InEv(c)) # <<>> /\ Range(AddList(L, InEv(c))) = Range(L) \cup {InEv(c)}
      BY <1>1, <2>1, Pushed
    <2> QED
      BY <2>1, <2>2 DEF L
  <1>4. 1 .. 0 = {}
    OBVIOUS
  <1> QED
    <2>1. Registered(AddReg(<<>>, InEv(c)), AddList(<<>>, InEv(c)))
      BY <1>1, <1>2, AddRegisters
    <2> DEFINE M == AddList(<<>>, InEv(c))
    <2> HIDE DEF M
    <2>2. Listed(M, c, 0, S, p)
      BY <1>3, <1>4 DEF Listed, M
    <2> QED
      BY <2>1, <2>2 DEF M

(* recv: the next chunk is to be sent back.                                  *)
LEMMA RecvList ==
    ASSUME NEW L, NEW c \in Conns, c # 0, NEW g \in Nat, g < MaxChunks, NEW S, Range(S) \subseteq 1 .. g,
           NEW p, Listed(L, c, g, S, p)
    PROVE  /\ Listed(AddList(L, OutEv(c, g + 1)), c, g + 1, S, p)
           /\ Registered(AddReg(L, OutEv(c, g + 1)), AddList(L, OutEv(c, g + 1)))
           /\ Range(L) \subseteq Range(AddList(L, OutEv(c, g + 1)))
  <1> DEFINE x == OutEv(c, g + 1)
             M == AddList(L, x)
  <1>1. x \in Events /\ \A k \in 1 .. g + 1 : k = g + 1 \/ k \in 1 .. g
    BY ReactorAssumption DEF Events
  <1>2. L \in Seq(Events) /\ IsInjective(L) /\ Range(L) \subseteq {InEv(c)} \cup {OutEv(c, k) : k \in 1 .. g}
    BY DEF Listed
  <1>3. x \notin Range(L)
    <2>1. x # InEv(c) /\ \A k \in 1 .. g : x # OutEv(c, k)
      BY EventKinds
    <2> QED
      BY <1>2, <2>1
  <1>4. M \in Seq(Events) /\ IsInjective(M) /\ M # <<>> /\ Range(M) = Range(L) \cup {x}
    BY <1>1, <1>2, <1>3, Pushed
  <1>5. Registered(AddReg(L, x), M)
    BY <1>1, <1>2, <1>3, AddRegisters
  <1> HIDE DEF M
  <1>6. Range(M) \subseteq {InEv(c)} \cup {OutEv(c, k) : k \in 1 .. g + 1}
    BY <1>2, <1>4
  <1>7. ASSUME NEW k \in 1 .. g + 1, k \in Range(S) PROVE OutEv(c, k) \notin Range(M)
    <2>1. k \in 1 .. g /\ k # g + 1
      BY <1>7
    <2>2. OutEv(c, k) \notin Range(L)
      BY <1>7, <2>1 DEF Listed
    <2>3. OutEv(c, k) # x
      BY <2>1, EventKinds
    <2> QED
      BY <1>4, <2>2, <2>3
  <1>8. ASSUME p # "gone", NEW k \in 1 .. g + 1 PROVE k \in Range(S) \/ OutEv(c, k) \in Range(M)
    BY <1>1, <1>4, <1>8 DEF Listed
  <1>9. InEv(c) \in Range(M)
    BY <1>4 DEF Listed
  <1> QED
    BY <1>4, <1>5, <1>6, <1>7, <1>8, <1>9 DEF Listed, M

(* send: the event of a chunk goes, and the chunk has been sent back if the   *)
(* socket took it.                                                          *)
LEMMA SendList ==
    ASSUME NEW L, NEW c, c # 0, NEW g \in Nat, NEW S \in Seq(Nat), IsInjective(S), NEW p,
           Listed(L, c, g, S, p), Range(S) \subseteq 1 .. g,
           NEW i \in DOMAIN L, L[i][2] = "out"
    PROVE  /\ Listed(DelList(L, i), c, g, Append(S, L[i][3]), p)
           /\ Listed(DelList(L, i), c, g, S, "gone")
           /\ Registered(DelReg(L, i), DelList(L, i))
           /\ Append(S, L[i][3]) \in Seq(Nat) /\ IsInjective(Append(S, L[i][3]))
           /\ Range(Append(S, L[i][3])) \subseteq 1 .. g
  <1>1. L \in Seq(Events) /\ IsInjective(L) /\ Range(L) \subseteq {InEv(c)} \cup {OutEv(c, k) : k \in 1 .. g}
    BY DEF Listed
  <1>2. L[i] \in Range(L)
    BY DEF Range
  <1>3. PICK k \in 1 .. g : L[i] = OutEv(c, k)
    BY <1>1, <1>2, EventKinds
  <1>4. L[i][3] = k
    BY <1>3, EventKinds
  <1>5. k \notin Range(S)
    BY <1>2, <1>3 DEF Listed
  <1> DEFINE M == DelList(L, i)
             T == Append(S, k)
  <1>6. M \in Seq(Events) /\ IsInjective(M) /\ Range(M) = Range(L) \ {OutEv(c, k)}
    BY <1>1, <1>3, Removed
  <1>7. T \in Seq(Nat) /\ IsInjective(T) /\ Range(T) = Range(S) \cup {k}
    BY <1>5, Appended
  <1>8. Registered(DelReg(L, i), M)
    BY <1>1, DelRegisters
  <1> HIDE DEF M, T
  <1>9. InEv(c) \in Range(M)
    BY <1>6, EventKinds DEF Listed
  <1>10. M # <<>>
    BY <1>9 DEF Range
  <1>11. ASSUME NEW m \in 1 .. g, m \in Range(T) PROVE OutEv(c, m) \notin Range(M)
    BY <1>6, <1>7, <1>11 DEF Listed
  <1>12. ASSUME p # "gone", NEW m \in 1 .. g PROVE m \in Range(T) \/ OutEv(c, m) \in Range(M)
    <2>1. m # k => OutEv(c, m) # OutEv(c, k)
      BY EventKinds
    <2> QED
      BY <1>6, <1>7, <1>12, <2>1 DEF Listed
  <1>13. Listed(M, c, g, T, p)
    BY <1>1, <1>6, <1>9, <1>10, <1>11, <1>12 DEF Listed
  <1>14. Listed(M, c, g, S, "gone")
    BY <1>1, <1>6, <1>9, <1>10 DEF Listed
  <1> QED
    BY <1>4, <1>7, <1>8, <1>13, <1>14 DEF M, T

(* A closed descriptor.                                                     *)
LEMMA NoList ==
    ASSUME NEW g, NEW S, NEW p
    PROVE  Listed(<<>>, 0, g, S, p) /\ Registered(NoReg, <<>>)
  BY DEF Listed, Registered, NoReg, Types, IsInjective

-----------------------------------------------------------------------------
(* What the steps share.                                                     *)

(* A non-empty set of numbers has a least element.                           *)
LEMMA Least ==
    ASSUME NEW T, T \subseteq Nat, T # {}
    PROVE  \E x \in T : \A y \in T : x <= y
  <1> DEFINE R == OpToRel(<, Nat)
  <1>1. PICK x \in T : \A y \in T : ~(<<y, x>> \in R)
    BY NatLessThanWellFounded, WFMin
  <1>2. R = {ss \in Nat \X Nat : ss[1] < ss[2]}
    BY DEF OpToRel
  <1> HIDE DEF R
  <1>3. ASSUME NEW y \in T PROVE x <= y
    <2>1. <<y, x>> \in Nat \X Nat
      OBVIOUS
    <2>2. ~(y < x)
      BY <1>1, <1>2, <2>1
    <2> QED
      BY <2>2
  <1> QED
    BY <1>3

(* A descriptor with a list has a client.                                    *)
LEMMA OnClient ==
    ASSUME IndInv, NEW f \in Fds, events[f] # <<>> \/ on[f] # 0
    PROVE  LET c == on[f]
           IN  /\ c \in Conns /\ c # 0 /\ c <= acc /\ got[c] \in Nat /\ arr[c] \in Nat
               /\ got[c] <= arr[c] /\ arr[c] <= MaxChunks /\ sent[c] \in Seq(Nat)
               /\ IsInjective(sent[c]) /\ Range(sent[c]) \subseteq 1 .. got[c]
               /\ Listed(events[f], c, got[c], sent[c], peer[c]) /\ events[f] # <<>>
  <1>1. Listed(events[f], on[f], got[on[f]], sent[on[f]], peer[on[f]])
    BY DEF IndInv, Lists
  <1>2. on[f] # 0 /\ events[f] # <<>>
    BY <1>1 DEF Listed
  <1>3. on[f] \in Conns /\ on[f] <= acc
    BY <1>2, ReactorAssumption DEF IndInv, Shapes, OneEach, Conns
  <1> QED
    BY <1>1, <1>2, <1>3, ReactorAssumption DEF IndInv, Shapes, Chunks

(* The first event that sends, if there is one.                              *)
LEMMA FirstIsOut ==
    ASSUME IndInv, NEW f \in Fds, Outs(f) # {}
    PROVE  /\ FirstOut(f) \in DOMAIN events[f] /\ events[f][FirstOut(f)][2] = "out"
           /\ events[f] # <<>>
  <1>1. events[f] \in Seq(Events)
    BY DEF IndInv, Lists, Listed
  <1>2. DOMAIN events[f] \subseteq Nat
    BY <1>1, LenProperties
  <1>3. \E x \in Outs(f) : \A y \in Outs(f) : x <= y
    BY <1>2, Least DEF Outs
  <1>4. FirstOut(f) \in Outs(f)
    BY <1>3 DEF FirstOut, Min
  <1>5. events[f] # <<>>
    BY <1>4 DEF Outs
  <1> QED
    BY <1>4, <1>5 DEF Outs

(* An entry that is taken up has its event.                                  *)
LEMMA TakenIsLive ==
    ASSUME IndInv, NEW e \in batch, e.fd \in Fds, cur = 0
    PROVE  events[e.fd] # <<>> /\ on[e.fd] # 0
  <1>1. e.fd # cur
    BY ReactorAssumption
  <1>2. e.ptr \in Range(events[e.fd])
    BY <1>1 DEF IndInv, Batch
  <1>3. events[e.fd] # <<>>
    BY <1>2 DEF Range
  <1> QED
    BY <1>3, OnClient

(* A list of no client does not depend on chunks.                            *)
LEMMA NoClient ==
    ASSUME NEW L, NEW g, NEW S, NEW p, Listed(L, 0, g, S, p), NEW h, NEW T, NEW q
    PROVE  Listed(L, 0, h, T, q)
  BY DEF Listed

(* A step on descriptor h and its client leaves the others alone.             *)
LEMMA OthersKeep ==
    ASSUME IndInv, NEW h \in Fds,
           \A f \in Fds \ {h} : events'[f] = events[f] /\ reg'[f] = reg[f] /\ on'[f] = on[f],
           \A d \in Conns \ {on[h]} : got'[d] = got[d] /\ sent'[d] = sent[d] /\ peer'[d] = peer[d],
           Listed(events'[h], on'[h], got'[on'[h]], sent'[on'[h]], peer'[on'[h]]),
           Registered(reg'[h], events'[h])
    PROVE  Lists'
  <1>1. ASSUME NEW f \in Fds, f # h
        PROVE  /\ Listed(events'[f], on'[f], got'[on'[f]], sent'[on'[f]], peer'[on'[f]])
               /\ Registered(reg'[f], events'[f])
    <2>1. /\ Listed(events[f], on[f], got[on[f]], sent[on[f]], peer[on[f]])
          /\ Registered(reg[f], events[f])
      BY DEF IndInv, Lists
    <2>2. events'[f] = events[f] /\ reg'[f] = reg[f] /\ on'[f] = on[f]
      BY <1>1
    <2>3. CASE on[f] = 0
      BY <2>1, <2>2, <2>3, NoClient
    <2>4. CASE on[f] # 0
      <3>1. on[f] \in Conns
        BY <2>4, OnClient
      <3>2. on[f] # on[h]
        BY <1>1, <2>4 DEF IndInv, OneEach
      <3>3. /\ got'[on[f]] = got[on[f]] /\ sent'[on[f]] = sent[on[f]]
            /\ peer'[on[f]] = peer[on[f]]
        BY <3>1, <3>2
      <3> QED
        BY <2>1, <2>2, <3>3
    <2> QED
      BY <2>3, <2>4
  <1>2. ASSUME NEW f \in Fds
        PROVE  /\ Listed(events'[f], on'[f], got'[on'[f]], sent'[on'[f]], peer'[on'[f]])
               /\ Registered(reg'[f], events'[f])
    <2>1. CASE f = h
      BY <2>1
    <2>2. CASE f # h
      BY <1>1, <2>2
    <2> QED
      BY <2>1, <2>2
  <1> QED
    BY <1>2 DEF Lists

(* The entries after a reading half.                                         *)
LEMMA ReadBatch ==
    ASSUME IndInv, NEW e \in batch, e.fd \in Fds, cur = 0, ReadHalfDone(e),
           \A f \in Fds \ {e.fd} : events'[f] = events[f], acc' = acc, con' = con
    PROVE  Batch' /\ cur' \in Fds \cup {0}
  <1> DEFINE o == [e EXCEPT !.mask = {"out"}]
  <1>1. /\ batch' = (batch \ {e}) \cup (IF "out" \in e.mask THEN {o} ELSE {})
        /\ cur' = IF "out" \in e.mask THEN e.fd ELSE 0
    BY DEF ReadHalfDone
  <1>2. /\ \A d \in batch : Entry(d) /\ (d.fd = Listen => acc < con)
        /\ \A d, m \in batch : d.fd = m.fd => d = m
        /\ \A d \in batch : d.fd \in Fds => d.ptr \in Range(events[d.fd])
        /\ e.fd # Listen
    BY ReactorAssumption DEF IndInv, Batch
  <1>3. o = [fd |-> e.fd, ptr |-> e.ptr, mask |-> {"out"}] /\ o.fd = e.fd
    <2>1. PICK a, b, c : e = [fd |-> a, ptr |-> b, mask |-> c]
      BY <1>2 DEF Entry
    <2>2. o = [fd |-> a, ptr |-> b, mask |-> {"out"}]
      BY <2>1
    <2> QED
      BY <2>1, <2>2
  <1>4. Entry(o)
    BY <1>2, <1>3 DEF Entry
  <1> HIDE DEF o
  <1>5. ASSUME NEW d \in batch' PROVE (d = o /\ cur' = e.fd) \/ (d \in batch /\ d # e /\ d.fd # e.fd)
    <2>1. CASE d \in batch /\ d # e
      BY <1>2, <2>1
    <2>2. CASE ~(d \in batch /\ d # e)
      BY <1>1, <1>5, <2>2
    <2> QED
      BY <2>1, <2>2
  <1>6. cur' \in Fds \cup {0}
    BY <1>1
  <1>7. \A d \in batch' : Entry(d) /\ (d.fd = Listen => acc' < con')
    BY <1>2, <1>3, <1>4, <1>5
  <1>8. \A d, m \in batch' : d.fd = m.fd => d = m
    BY <1>2, <1>3, <1>5
  <1>9. ASSUME NEW d \in batch', d.fd \in Fds, d.fd # cur' PROVE d.ptr \in Range(events'[d.fd])
    <2>1. d \in batch /\ d.fd # e.fd
      BY <1>3, <1>5, <1>9
    <2>2. events'[d.fd] = events[d.fd]
      BY <1>9, <2>1
    <2> QED
      BY <1>2, <1>9, <2>1, <2>2
  <1> QED
    BY <1>6, <1>7, <1>8, <1>9 DEF Batch

(* The entries after a writing half.                                         *)
LEMMA WriteBatch ==
    ASSUME IndInv, NEW e \in batch, cur \in {0, e.fd}, batch' = batch \ {e}, cur' = 0,
           \A f \in Fds \ {e.fd} : events'[f] = events[f], acc' = acc, con' = con
    PROVE  Batch'
  <1>1. /\ \A d \in batch' : Entry(d) /\ (d.fd = Listen => acc' < con')
        /\ \A d, m \in batch' : d.fd = m.fd => d = m
    BY DEF IndInv, Batch
  <1>2. ASSUME NEW d \in batch', d.fd \in Fds PROVE d.ptr \in Range(events'[d.fd])
    <2>1. d \in batch /\ d.fd # e.fd
      BY DEF IndInv, Batch
    <2>2. d.fd # cur
      BY <1>2, <2>1, ReactorAssumption
    <2>3. d.ptr \in Range(events[d.fd])
      BY <1>2, <2>1, <2>2 DEF IndInv, Batch
    <2> QED
      BY <1>2, <2>1, <2>3
  <1> QED
    BY <1>1, <1>2 DEF Batch

-----------------------------------------------------------------------------
(* The steps.                                                                *)

(* The invariant holds before the first client.                             *)
LEMMA InitHolds == Init => IndInv
  <1> SUFFICES ASSUME Init PROVE IndInv
    OBVIOUS
  <1>1. Shapes
    <2>1. [c \in Conns |-> <<>>] \in [Conns -> Seq(Nat)]
      OBVIOUS
    <2> QED
      <3>1. 0 \in 0 .. MaxConns /\ 0 \in 0 .. MaxChunks /\ "up" \in Peers
        BY ReactorAssumption DEF Peers
      <3>2. /\ on \in [Fds -> 0 .. MaxConns] /\ full \in [Fds -> BOOLEAN]
            /\ peer \in [Conns -> Peers] /\ arr \in [Conns -> 0 .. MaxChunks]
            /\ got \in [Conns -> Nat] /\ sent \in [Conns -> Seq(Nat)]
        BY <2>1, <3>1 DEF Init
      <3>3. /\ DOMAIN events = Fds /\ DOMAIN reg = Fds
            /\ events = [f \in Fds |-> events[f]] /\ reg = [f \in Fds |-> reg[f]]
        BY DEF Init
      <3>4. /\ cur \in Fds \cup {0}
            /\ con \in 0 .. MaxConns /\ acc \in 0 .. con
        BY <3>1 DEF Init
      <3>5. again \in BOOLEAN /\ alive \in BOOLEAN /\ sigpipe \in BOOLEAN
        BY Zenon DEF Init
      <3> QED
        BY <3>2, <3>3, <3>4, <3>5 DEF Shapes
  <1>2. Chunks
    <2>1. \A c \in Conns : got[c] = 0 /\ arr[c] = 0 /\ sent[c] = <<>>
      BY DEF Init
    <2> QED
      BY <2>1 DEF Chunks, IsInjective, Range
  <1>3. OneEach
    BY DEF Init, OneEach
  <1>4. Lists
    <2>1. \A f \in Fds : events[f] = <<>> /\ on[f] = 0 /\ reg[f] = NoReg
      BY DEF Init
    <2> QED
      BY <2>1, NoList DEF Lists
  <1>5. Batch
    BY DEF Init, Batch
  <1> QED
    BY <1>1, <1>2, <1>3, <1>4, <1>5 DEF IndInv

(* epoll_wait reports live events of different descriptors.                 *)
LEMMA WaitHolds == IndInv /\ Wait => IndInv'
  <1> SUFFICES ASSUME IndInv, Wait PROVE IndInv'
    OBVIOUS
  <1>1. UNCHANGED <<lists, cur, again, full, clients, acc, got, sent, alive, sigpipe>>
    BY DEF Wait
  <1>2. Shapes' /\ Chunks' /\ OneEach' /\ Lists'
    BY <1>1 DEF IndInv, Shapes, Chunks, OneEach, Lists, lists, clients
  <1>3. PICK spurious \in SUBSET {f \in Fds : on[f] # 0} :
           batch' = {e \in {[fd |-> f, ptr |-> reg[f].ptr, mask |-> Ready(f, spurious)] :
                              f \in {g \in Fds : on[g] # 0}} : e.mask # {}}
                    \cup (IF acc < con THEN {[fd |-> Listen, ptr |-> <<>>, mask |-> {"in"}]} ELSE {})
    BY DEF Wait
  <1>4. ASSUME NEW f \in Fds, on[f] # 0
        PROVE  reg[f].ptr \in Range(events[f]) /\ Ready(f, spurious) \subseteq {"in", "out"}
    <2>1. events[f] # <<>>
      BY <1>4, OnClient
    <2>2. Registered(reg[f], events[f])
      BY DEF IndInv, Lists
    <2> QED
      BY <2>1, <2>2 DEF Registered, Ready
  <1>5. ASSUME NEW e \in batch'
        PROVE  \/ /\ e.fd \in Fds /\ on[e.fd] # 0 /\ e.mask # {}
                  /\ e = [fd |-> e.fd, ptr |-> reg[e.fd].ptr, mask |-> Ready(e.fd, spurious)]
               \/ e = [fd |-> Listen, ptr |-> <<>>, mask |-> {"in"}] /\ acc < con
    <2>1. CASE \E f \in Fds : /\ on[f] # 0 /\ e.mask # {}
                              /\ e = [fd |-> f, ptr |-> reg[f].ptr, mask |-> Ready(f, spurious)]
      BY <2>1
    <2>2. CASE e = [fd |-> Listen, ptr |-> <<>>, mask |-> {"in"}] /\ acc < con
      BY <2>2
    <2> QED
      BY <1>3, <1>5, <2>1, <2>2
  <1>6. ASSUME NEW e \in batch'
        PROVE  /\ Entry(e) /\ (e.fd = Listen => acc < con)
               /\ e.fd \in Fds => e.ptr \in Range(events[e.fd])
    <2>1. CASE /\ e.fd \in Fds /\ on[e.fd] # 0 /\ e.mask # {}
               /\ e = [fd |-> e.fd, ptr |-> reg[e.fd].ptr, mask |-> Ready(e.fd, spurious)]
      <3>1. e.ptr = reg[e.fd].ptr /\ e.mask = Ready(e.fd, spurious) /\ e.fd # Listen
        BY <2>1, ReactorAssumption
      <3> QED
        BY <1>4, <2>1, <3>1 DEF Entry
    <2>2. CASE e = [fd |-> Listen, ptr |-> <<>>, mask |-> {"in"}] /\ acc < con
      <3>1. e.fd = Listen /\ e.ptr = <<>> /\ e.mask = {"in"} /\ Listen \notin Fds
        BY <2>2, ReactorAssumption
      <3> QED
        BY <2>2, <3>1 DEF Entry
    <2> QED
      BY <1>5, <2>1, <2>2
  <1>7. ASSUME NEW e \in batch', NEW d \in batch', e.fd = d.fd PROVE e = d
    <2>1. Listen \notin Fds
      BY ReactorAssumption
    <2>2. CASE e.fd \in Fds
      <3>1. /\ e = [fd |-> e.fd, ptr |-> reg[e.fd].ptr, mask |-> Ready(e.fd, spurious)]
            /\ d = [fd |-> d.fd, ptr |-> reg[d.fd].ptr, mask |-> Ready(d.fd, spurious)]
        BY <1>5, <1>7, <2>1, <2>2
      <3> QED
        BY <1>7, <3>1
    <2>3. CASE e.fd \notin Fds
      BY <1>5, <1>7, <2>3
    <2> QED
      BY <2>2, <2>3
  <1>8. Batch'
    BY <1>1, <1>6, <1>7 DEF Batch, lists, clients
  <1> QED
    BY <1>2, <1>8 DEF IndInv

(* What the reading halves of a client's descriptor have in common.          *)
LEMMA ReadsClient ==
    ASSUME IndInv, NEW e \in batch, e.fd # Listen, Reading(e)
    PROVE  /\ e.fd \in Fds /\ cur = 0 /\ ReadHalfDone(e) /\ on[e.fd] \in Conns /\ on[e.fd] # 0
           /\ UNCHANGED <<con, peer, arr, alive, sigpipe>>
  <1>1. e.fd \in Fds /\ cur = 0 /\ ReadHalfDone(e) /\ UNCHANGED <<con, peer, arr, alive, sigpipe>>
    BY DEF IndInv, Batch, Entry, Reading, clients
  <1> QED
    BY <1>1, TakenIsLive, OnClient

(* recv_callback with data: the chunk becomes an event that sends it back.  *)
LEMMA RecvDataHolds ==
    ASSUME IndInv, NEW e \in batch, RecvData(e)
    PROVE  IndInv'
  <1> DEFINE h == e.fd
             c == on[h]
             x == OutEv(c, got[c] + 1)
  <1>1. /\ h \in Fds /\ cur = 0 /\ ReadHalfDone(e) /\ c \in Conns /\ c # 0
        /\ UNCHANGED <<con, peer, arr, alive, sigpipe>>
    BY ReadsClient DEF RecvData
  <1>2. /\ got[c] < arr[c] /\ got' = [got EXCEPT ![c] = @ + 1]
        /\ events' = [events EXCEPT ![h] = AddList(@, x)]
        /\ reg' = [reg EXCEPT ![h] = AddReg(events[h], x)]
        /\ again' = FALSE /\ UNCHANGED <<on, full, acc, sent>>
    BY DEF RecvData, AddEvent
  <1>3. /\ got[c] \in Nat /\ arr[c] \in Nat /\ arr[c] <= MaxChunks /\ c <= acc
        /\ Range(sent[c]) \subseteq 1 .. got[c]
        /\ Listed(events[h], c, got[c], sent[c], peer[c])
    BY <1>1, OnClient
  <1> HIDE DEF c, h, x
  <1>4. /\ events'[h] = AddList(events[h], x) /\ reg'[h] = AddReg(events[h], x)
        /\ \A f \in Fds \ {h} : events'[f] = events[f] /\ reg'[f] = reg[f] /\ on'[f] = on[f]
        /\ on'[h] = c
    BY <1>1, <1>2 DEF IndInv, Shapes, c
  <1>5. /\ got' \in [Conns -> Nat] /\ got'[c] = got[c] + 1
        /\ \A d \in Conns \ {c} : got'[d] = got[d]
    BY <1>1, <1>2, <1>3 DEF IndInv, Shapes
  <1>6. /\ Listed(AddList(events[h], x), c, got[c] + 1, sent[c], peer[c])
        /\ Registered(AddReg(events[h], x), AddList(events[h], x))
    <2>1. got[c] < MaxChunks
      BY <1>2, <1>3, ReactorAssumption
    <2> QED
      BY <1>1, <1>3, <2>1, RecvList DEF x
  <1>7. Lists'
    <2>1. Listed(events'[h], on'[h], got'[on'[h]], sent'[on'[h]], peer'[on'[h]])
      BY <1>1, <1>2, <1>4, <1>5, <1>6
    <2>2. \A d \in Conns \ {on[h]} : got'[d] = got[d] /\ sent'[d] = sent[d] /\ peer'[d] = peer[d]
      BY <1>1, <1>2, <1>5 DEF c
    <2> QED
      BY <1>1, <1>4, <1>6, <2>1, <2>2, OthersKeep
  <1>8. Batch' /\ cur' \in Fds \cup {0}
    BY <1>1, <1>2, <1>4, ReadBatch DEF h
  <1>9. Shapes'
    <2>1. /\ DOMAIN events' = Fds /\ DOMAIN reg' = Fds
          /\ events' = [f \in Fds |-> events'[f]] /\ reg' = [f \in Fds |-> reg'[f]]
      BY <1>2 DEF IndInv, Shapes
    <2> QED
      BY <1>1, <1>2, <1>5, <1>8, <2>1 DEF IndInv, Shapes
  <1>10. Chunks'
    <2>1. ASSUME NEW d \in Conns
          PROVE  /\ got'[d] <= arr'[d] /\ (d > acc' => got'[d] = 0)
                 /\ IsInjective(sent'[d]) /\ Range(sent'[d]) \subseteq 1 .. got'[d]
      <3>1. /\ got[d] <= arr[d] /\ (d > acc => got[d] = 0)
            /\ IsInjective(sent[d]) /\ Range(sent[d]) \subseteq 1 .. got[d]
        BY DEF IndInv, Chunks
      <3>2. CASE d = c
        <4>1. got[c] + 1 <= arr[c] /\ ~(c > acc)
          BY <1>1, <1>2, <1>3, ReactorAssumption DEF IndInv, Shapes, Conns
        <4>2. 1 .. got[c] \subseteq 1 .. got[c] + 1
          BY <1>3
        <4> QED
          BY <1>1, <1>2, <1>5, <3>1, <3>2, <4>1, <4>2
      <3>3. CASE d # c
        BY <1>1, <1>2, <1>5, <3>1, <3>3
      <3> QED
        BY <3>2, <3>3
    <2> QED
      BY <2>1 DEF Chunks
  <1>11. OneEach'
    BY <1>2 DEF IndInv, OneEach
  <1> QED
    BY <1>7, <1>8, <1>9, <1>10, <1>11 DEF IndInv

(* The descriptor h is closed, all of its events freed, and nothing else      *)
(* changes but the entries.                                                 *)
LEMMA CloseHolds ==
    ASSUME IndInv, NEW h \in Fds, CloseAll(h), again' \in BOOLEAN, alive' = alive, cur' \in Fds \cup {0},
           Batch', UNCHANGED <<full, con, acc, peer, arr, got, sent, sigpipe>>
    PROVE  IndInv'
  <1>1. /\ on' = [on EXCEPT ![h] = 0] /\ events' = [events EXCEPT ![h] = <<>>]
        /\ reg' = [reg EXCEPT ![h] = NoReg]
    BY DEF CloseAll
  <1>2. /\ events'[h] = <<>> /\ reg'[h] = NoReg /\ on'[h] = 0 /\ on' \in [Fds -> 0 .. MaxConns]
        /\ \A f \in Fds \ {h} : events'[f] = events[f] /\ reg'[f] = reg[f] /\ on'[f] = on[f]
        /\ DOMAIN events' = Fds /\ DOMAIN reg' = Fds
        /\ events' = [f \in Fds |-> events'[f]] /\ reg' = [f \in Fds |-> reg'[f]]
    <2>1. 0 \in 0 .. MaxConns /\ on \in [Fds -> 0 .. MaxConns]
      BY ReactorAssumption DEF IndInv, Shapes
    <2>2. /\ on' \in [Fds -> 0 .. MaxConns] /\ on'[h] = 0 /\ \A f \in Fds \ {h} : on'[f] = on[f]
      BY <1>1, <2>1
    <2>3. /\ events'[h] = <<>> /\ DOMAIN events' = Fds /\ events' = [f \in Fds |-> events'[f]]
          /\ \A f \in Fds \ {h} : events'[f] = events[f]
      BY <1>1 DEF IndInv, Shapes
    <2>4. /\ reg'[h] = NoReg /\ DOMAIN reg' = Fds /\ reg' = [f \in Fds |-> reg'[f]]
          /\ \A f \in Fds \ {h} : reg'[f] = reg[f]
      BY <1>1 DEF IndInv, Shapes
    <2> QED
      BY <2>2, <2>3, <2>4
  <1>3. Lists'
    <2>1. Listed(events'[h], on'[h], got'[on'[h]], sent'[on'[h]], peer'[on'[h]])
      BY <1>2, NoList
    <2>2. Registered(reg'[h], events'[h])
      BY <1>2, NoList
    <2> QED
      BY <1>2, <2>1, <2>2, OthersKeep
  <1>4. Shapes'
    BY <1>2 DEF IndInv, Shapes
  <1>5. Chunks'
    BY DEF IndInv, Chunks
  <1>6. OneEach'
    <2>1. ASSUME NEW f \in Fds PROVE on'[f] = on[f] \/ on'[f] = 0
      BY <1>2
    <2>2. acc \in Nat
      BY ReactorAssumption DEF IndInv, Shapes
    <2>3. ASSUME NEW f \in Fds PROVE on'[f] <= acc'
      BY <2>1, <2>2 DEF IndInv, OneEach
    <2>4. ASSUME NEW f \in Fds, NEW g \in Fds, on'[f] = on'[g], on'[f] # 0 PROVE f = g
      <3>1. on'[f] = on[f] /\ on'[g] = on[g]
        BY <2>1, <2>4
      <3> QED
        BY <2>4, <3>1 DEF IndInv, OneEach
    <2> QED
      BY <2>3, <2>4 DEF OneEach
  <1> QED
    BY <1>3, <1>4, <1>5, <1>6 DEF IndInv

(* recv_callback without data: nothing changes, or the descriptor is        *)
(* closed.                                                                  *)
LEMMA RecvFailsHolds ==
    ASSUME IndInv, NEW e \in batch, RecvFails(e)
    PROVE  IndInv'
  <1>1. /\ e.fd \in Fds /\ cur = 0 /\ ReadHalfDone(e)
        /\ UNCHANGED <<con, peer, arr, alive, sigpipe, full, acc, got, sent>>
    BY ReadsClient DEF RecvFails
  <1>2. again' \in BOOLEAN
    <2>1. on[e.fd] \in Conns
      BY ReadsClient DEF RecvFails
    <2>2. again \in BOOLEAN /\ peer[on[e.fd]] \in Peers
      BY <2>1 DEF IndInv, Shapes
    <2>3. again' = CASE peer[on[e.fd]] = "up" -> TRUE
                     [] peer[on[e.fd]] = "rst" -> FALSE
                     [] OTHER -> again
      BY DEF RecvFails
    <2>4. CASE peer[on[e.fd]] = "up"
      BY <2>3, <2>4, Zenon
    <2>5. CASE peer[on[e.fd]] = "rst"
      BY <2>3, <2>5
    <2>6. CASE ~(peer[on[e.fd]] = "up") /\ ~(peer[on[e.fd]] = "rst")
      BY <2>2, <2>3, <2>6
    <2> QED
      BY <2>4, <2>5, <2>6
  <1>3. CASE UNCHANGED lists
    <2>1. UNCHANGED <<on, events, reg>>
      BY <1>3 DEF lists
    <2>2. Batch' /\ cur' \in Fds \cup {0}
      BY <1>1, <2>1, ReadBatch
    <2> QED
      BY <1>1, <1>2, <2>1, <2>2 DEF IndInv, Shapes, Chunks, OneEach, Lists
  <1>4. CASE CloseAll(e.fd)
    <2>1. \A f \in Fds \ {e.fd} : events'[f] = events[f]
      BY <1>4 DEF CloseAll, IndInv, Shapes
    <2>2. Batch' /\ cur' \in Fds \cup {0}
      BY <1>1, <2>1, ReadBatch
    <2> QED
      BY <1>1, <1>2, <1>4, <2>2, CloseHolds
  <1> QED
    BY <1>3, <1>4 DEF RecvFails

(* accept_callback.                                                          *)
LEMMA AcceptHolds ==
    ASSUME IndInv, NEW e \in batch, Accept(e)
    PROVE  IndInv'
  <1>1. /\ e.fd = Listen /\ cur = 0 /\ ReadHalfDone(e) /\ acc < con
        /\ UNCHANGED <<con, peer, arr, alive, sigpipe, got, sent>>
    BY DEF Accept, Reading, clients, IndInv, Batch
  <1>2. batch' = batch \ {e} /\ cur' = 0
    <2>1. e.mask = {"in"}
      BY <1>1 DEF IndInv, Batch, Entry
    <2> QED
      BY <1>1, <2>1 DEF ReadHalfDone
  <1>3. \A d \in batch' : d \in batch /\ d.fd # Listen
    BY <1>1, <1>2 DEF IndInv, Batch
  <1>4. con \in Nat /\ con <= MaxConns /\ acc \in Nat
    BY ReactorAssumption DEF IndInv, Shapes
  <1>5. ASSUME acc' \in {acc, acc + 1}, \A f \in Fds : Range(events[f]) \subseteq Range(events'[f])
        PROVE  Batch' /\ acc' \in 0 .. con' /\ acc' <= con /\ acc' \in Nat
    <2>1. acc' \in 0 .. con' /\ acc' <= con /\ acc' \in Nat
      BY <1>1, <1>4, <1>5
    <2>2. ASSUME NEW d \in batch', d.fd \in Fds PROVE d.ptr \in Range(events'[d.fd])
      <3>1. d \in batch /\ d.fd # cur
        BY <1>1, <1>3, <2>2, ReactorAssumption
      <3>2. d.ptr \in Range(events[d.fd])
        BY <2>2, <3>1 DEF IndInv, Batch
      <3> QED
        BY <1>5, <2>2, <3>2
    <2>3. Batch'
      BY <1>3, <2>2 DEF IndInv, Batch
    <2> QED
      BY <2>1, <2>3
  <1>6. ASSUME acc' \in {acc, acc + 1} PROVE Chunks'
    <2>1. ASSUME NEW d \in Conns PROVE d > acc' => d > acc
      BY <1>4, <1>6, ReactorAssumption DEF Conns
    <2> QED
      BY <1>1, <2>1 DEF IndInv, Chunks
  <1>7. CASE UNCHANGED <<lists, full>> /\ again' = FALSE /\ acc' \in {acc, acc + 1}
    <2>1. UNCHANGED <<on, events, reg>>
      BY <1>7 DEF lists
    <2>2. Batch' /\ acc' \in 0 .. con' /\ acc' \in Nat
      BY <1>5, <1>7, <2>1
    <2>3. OneEach'
      <3>1. ASSUME NEW f \in Fds PROVE on[f] <= acc'
        <4>1. on[f] \in Nat /\ on[f] <= acc
          BY ReactorAssumption DEF IndInv, Shapes, OneEach
        <4> QED
          BY <1>4, <1>7, <4>1
      <3> QED
        BY <2>1, <3>1 DEF IndInv, OneEach
    <2>4. Shapes'
      BY <1>1, <1>2, <1>7, <2>1, <2>2 DEF IndInv, Shapes
    <2>5. Lists'
      BY <1>1, <2>1 DEF IndInv, Lists
    <2> QED
      BY <1>6, <1>7, <2>2, <2>3, <2>4, <2>5 DEF IndInv
  <1>8. ASSUME NEW h \in Fds, on[h] = 0, acc' = acc + 1, on' = [on EXCEPT ![h] = acc'],
               AddEvent(h, InEv(acc')), full' = [full EXCEPT ![h] = FALSE], again' = again
        PROVE  IndInv'
    <2> DEFINE c == acc'
    <2>1. c \in Conns /\ c # 0 /\ c > acc /\ c \in 0 .. MaxConns
      BY <1>1, <1>4, <1>8, ReactorAssumption DEF Conns
    <2>2. events[h] = <<>>
      BY <1>8 DEF IndInv, Lists, Listed
    <2>3. got[c] = 0
      BY <2>1 DEF IndInv, Chunks
    <2>4. /\ events' = [events EXCEPT ![h] = AddList(<<>>, InEv(c))]
          /\ reg' = [reg EXCEPT ![h] = AddReg(<<>>, InEv(c))]
      BY <1>8, <2>2 DEF AddEvent
    <2> HIDE DEF c
    <2>5. /\ events'[h] = AddList(<<>>, InEv(c)) /\ DOMAIN events' = Fds
          /\ events' = [f \in Fds |-> events'[f]] /\ \A f \in Fds \ {h} : events'[f] = events[f]
      BY <2>4 DEF IndInv, Shapes
    <2>6. /\ reg'[h] = AddReg(<<>>, InEv(c)) /\ DOMAIN reg' = Fds
          /\ reg' = [f \in Fds |-> reg'[f]] /\ \A f \in Fds \ {h} : reg'[f] = reg[f]
      BY <2>4 DEF IndInv, Shapes
    <2>7. /\ on' \in [Fds -> 0 .. MaxConns] /\ on'[h] = c /\ \A f \in Fds \ {h} : on'[f] = on[f]
      BY <1>8, <2>1 DEF IndInv, Shapes, c
    <2>8. Lists'
      <3>1. Listed(events'[h], on'[h], got'[on'[h]], sent'[on'[h]], peer'[on'[h]])
        BY <1>1, <2>1, <2>3, <2>5, <2>7, NewList
      <3>2. Registered(reg'[h], events'[h])
        BY <2>1, <2>5, <2>6, NewList
      <3> QED
        BY <1>1, <2>5, <2>6, <2>7, <3>1, <3>2, OthersKeep
    <2>9. \A f \in Fds : Range(events[f]) \subseteq Range(events'[f])
      <3>1. Range(events[h]) = {}
        BY <2>2 DEF Range
      <3> QED
        BY <2>5, <3>1
    <2>10. Batch' /\ acc' \in 0 .. con'
      BY <1>5, <1>8, <2>9
    <2>11. OneEach'
      <3>1. ASSUME NEW f \in Fds, f # h PROVE on'[f] = on[f] /\ on[f] \in Nat /\ on[f] <= acc
        BY <2>7, <3>1, ReactorAssumption DEF IndInv, Shapes, OneEach
      <3>2. ASSUME NEW f \in Fds PROVE on'[f] <= acc'
        <4>1. CASE f = h
          BY <1>4, <1>8, <2>7, <4>1 DEF c
        <4>2. CASE f # h
          BY <1>4, <1>8, <3>1, <4>2
        <4> QED
          BY <4>1, <4>2
      <3>3. ASSUME NEW f \in Fds, NEW g \in Fds, on'[f] = on'[g], on'[f] # 0 PROVE f = g
        <4>1. CASE f # h /\ g # h
          BY <3>1, <3>3, <4>1 DEF IndInv, OneEach
        <4>2. ASSUME NEW k \in Fds, k # h PROVE on'[k] # on'[h]
          BY <1>4, <2>1, <2>7, <3>1, <4>2
        <4> QED
          BY <3>3, <4>1, <4>2
      <3> QED
        BY <3>2, <3>3 DEF OneEach
    <2>12. Shapes'
      <3>1. full' \in [Fds -> BOOLEAN]
        BY <1>8 DEF IndInv, Shapes
      <3> QED
        BY <1>1, <1>2, <1>8, <2>5, <2>6, <2>7, <2>10, <3>1 DEF IndInv, Shapes
    <2> QED
      BY <1>6, <1>8, <2>8, <2>10, <2>11, <2>12 DEF IndInv
  <1>9. CASE LET free == {f \in Fds : on[f] = 0}
                 f    == CHOOSE x \in free : \A y \in free : x <= y
             IN  /\ free # {} /\ acc' = acc + 1
                 /\ on' = [on EXCEPT ![f] = acc'] /\ AddEvent(f, InEv(acc'))
                 /\ full' = [full EXCEPT ![f] = FALSE]
                 /\ UNCHANGED again
    <2> DEFINE free == {f \in Fds : on[f] = 0}
               h == CHOOSE x \in free : \A y \in free : x <= y
    <2>1. /\ free # {} /\ acc' = acc + 1 /\ on' = [on EXCEPT ![h] = acc']
          /\ AddEvent(h, InEv(acc')) /\ full' = [full EXCEPT ![h] = FALSE] /\ again' = again
      BY <1>9
    <2>2. free \subseteq Nat
      BY ReactorAssumption
    <2>3. \E x \in free : \A y \in free : x <= y
      BY <2>1, <2>2, Least
    <2>4. h \in free
      BY <2>3
    <2>5. h \in Fds /\ on[h] = 0
      BY <2>4
    <2> HIDE DEF h, free
    <2> QED
      BY <1>8, <2>1, <2>5
  <1> QED
    BY <1>7, <1>9 DEF Accept

(* What the writing halves have in common: an event that sends is of a client.  *)
LEMMA WritesClient ==
    ASSUME IndInv, NEW e \in batch, Writing(e)
    PROVE  /\ e.fd \in Fds /\ cur \in {0, e.fd} /\ batch' = batch \ {e} /\ cur' = 0
           /\ UNCHANGED <<con, arr, acc, got, sigpipe>>
  <1>1. e.mask = {"out"} /\ Entry(e)
    BY DEF Writing, IndInv, Batch
  <1>2. e.fd \in Fds
    <2>1. {"out"} # {"in"}
      OBVIOUS
    <2> QED
      BY <1>1, <2>1 DEF Entry
  <1> QED
    BY <1>2 DEF Writing

(* The writing half of an entry whose events have gone.                     *)
LEMMA NothingHolds ==
    ASSUME IndInv, NEW e \in batch, NothingToSend(e)
    PROVE  IndInv'
  <1>1. /\ e.fd \in Fds /\ cur \in {0, e.fd} /\ batch' = batch \ {e} /\ cur' = 0
        /\ UNCHANGED <<con, arr, acc, got, sigpipe>>
    BY WritesClient DEF NothingToSend
  <1>2. UNCHANGED <<on, events, reg, again, full, peer, sent, alive>>
    BY DEF NothingToSend, lists
  <1>3. Batch'
    BY <1>1, <1>2, WriteBatch
  <1> QED
    BY <1>1, <1>2, <1>3 DEF IndInv, Shapes, Chunks, OneEach, Lists

(* A step that deletes the first event that sends, with what it tells of the  *)
(* chunk and of the connection.                                             *)
LEMMA DelHolds ==
    ASSUME IndInv, NEW e \in batch, Writing(e), Outs(e.fd) # {}, DelEvent(e.fd, FirstOut(e.fd)),
           on' = on, alive' = alive, again' \in BOOLEAN, full' \in [Fds -> BOOLEAN],
           \/ /\ sent' = [sent EXCEPT ![on[e.fd]] = Append(@, events[e.fd][FirstOut(e.fd)][3])]
              /\ peer' = peer
           \/ peer' = [peer EXCEPT ![on[e.fd]] = "gone"] /\ sent' = sent
    PROVE  IndInv'
  <1> DEFINE h == e.fd
             c == on[h]
             i == FirstOut(h)
             L == events[h]
             T == Append(sent[c], L[i][3])
  <1>1. /\ h \in Fds /\ cur \in {0, h} /\ batch' = batch \ {e} /\ cur' = 0
        /\ UNCHANGED <<con, arr, acc, got, sigpipe>>
    BY WritesClient
  <1>2. i \in DOMAIN L /\ L[i][2] = "out" /\ L # <<>>
    BY <1>1, FirstIsOut
  <1>3. /\ c \in Conns /\ c # 0 /\ got[c] \in Nat /\ sent[c] \in Seq(Nat) /\ IsInjective(sent[c])
        /\ Range(sent[c]) \subseteq 1 .. got[c] /\ Listed(L, c, got[c], sent[c], peer[c])
    BY <1>1, <1>2, OnClient
  <1>4. /\ Listed(DelList(L, i), c, got[c], T, peer[c])
        /\ Listed(DelList(L, i), c, got[c], sent[c], "gone")
        /\ Registered(DelReg(L, i), DelList(L, i))
        /\ T \in Seq(Nat) /\ IsInjective(T) /\ Range(T) \subseteq 1 .. got[c]
    BY <1>2, <1>3, SendList
  <1>5. /\ events' = [events EXCEPT ![h] = DelList(L, i)] /\ reg' = [reg EXCEPT ![h] = DelReg(L, i)]
        /\ \/ sent' = [sent EXCEPT ![c] = T] /\ peer' = peer
           \/ peer' = [peer EXCEPT ![c] = "gone"] /\ sent' = sent
    BY DEF DelEvent
  <1>6. on'[h] = c
    OBVIOUS
  <1> HIDE DEF T, L, i, c, h
  <1>7. /\ events'[h] = DelList(L, i) /\ DOMAIN events' = Fds /\ events' = [f \in Fds |-> events'[f]]
        /\ \A f \in Fds \ {h} : events'[f] = events[f]
    BY <1>1, <1>5 DEF IndInv, Shapes
  <1>8. /\ reg'[h] = DelReg(L, i) /\ DOMAIN reg' = Fds /\ reg' = [f \in Fds |-> reg'[f]]
        /\ \A f \in Fds \ {h} : reg'[f] = reg[f]
    BY <1>1, <1>5 DEF IndInv, Shapes
  <1>9. /\ sent' \in [Conns -> Seq(Nat)] /\ peer' \in [Conns -> Peers]
        /\ (sent'[c] = T /\ peer'[c] = peer[c]) \/ (sent'[c] = sent[c] /\ peer'[c] = "gone")
        /\ \A d \in Conns \ {c} : sent'[d] = sent[d] /\ peer'[d] = peer[d]
    <2>1. sent \in [Conns -> Seq(Nat)] /\ peer \in [Conns -> Peers] /\ "gone" \in Peers
      BY DEF IndInv, Shapes, Peers
    <2>2. CASE sent' = [sent EXCEPT ![c] = T] /\ peer' = peer
      BY <1>3, <1>4, <2>1, <2>2
    <2>3. CASE peer' = [peer EXCEPT ![c] = "gone"] /\ sent' = sent
      BY <1>3, <2>1, <2>3
    <2> QED
      BY <1>5, <2>2, <2>3
  <1>10. Lists'
    <2>1. Listed(events'[h], on'[h], got'[on'[h]], sent'[on'[h]], peer'[on'[h]])
      BY <1>1, <1>4, <1>6, <1>7, <1>9
    <2>2. \A d \in Conns \ {on[h]} : got'[d] = got[d] /\ sent'[d] = sent[d] /\ peer'[d] = peer[d]
      BY <1>1, <1>9 DEF c
    <2>3. Registered(reg'[h], events'[h])
      BY <1>4, <1>7, <1>8
    <2> QED
      BY <1>1, <1>7, <1>8, <2>1, <2>2, <2>3, OthersKeep
  <1>11. Batch'
    BY <1>1, <1>7, WriteBatch DEF h
  <1>12. Shapes'
    BY <1>1, <1>7, <1>8, <1>9 DEF IndInv, Shapes
  <1>13. Chunks'
    <2>1. ASSUME NEW d \in Conns
          PROVE  IsInjective(sent'[d]) /\ Range(sent'[d]) \subseteq 1 .. got[d]
      <3>1. CASE d = c
        BY <1>3, <1>4, <1>9, <3>1
      <3>2. CASE d # c
        BY <1>9, <3>2 DEF IndInv, Chunks
      <3> QED
        BY <3>1, <3>2
    <2> QED
      BY <1>1, <2>1 DEF IndInv, Chunks
  <1>14. OneEach'
    BY <1>1 DEF IndInv, OneEach
  <1> QED
    BY <1>10, <1>11, <1>12, <1>13, <1>14 DEF IndInv

(* send_callback: the event goes, or the descriptor, or the process.        *)
LEMMA SendHolds ==
    ASSUME IndInv, NEW e \in batch, SendOk(e) \/ SendReset(e) \/ SendPipe(e)
    PROVE  IndInv'
  <1>1. CASE SendOk(e)
    <2>1. full' \in [Fds -> BOOLEAN]
      BY <1>1 DEF SendOk, IndInv, Shapes
    <2>2. again' \in BOOLEAN
      BY <1>1 DEF SendOk, IndInv, Shapes
    <2> QED
      BY <1>1, <2>1, <2>2, DelHolds DEF SendOk
  <1>2. CASE SendReset(e)
    <2>1. full' \in [Fds -> BOOLEAN] /\ again' \in BOOLEAN
      BY <1>2 DEF SendReset, IndInv, Shapes
    <2> QED
      BY <1>2, <2>1, DelHolds DEF SendReset
  <1>3. CASE SendPipe(e)
    <2>1. /\ e.fd \in Fds /\ cur \in {0, e.fd} /\ batch' = batch \ {e} /\ cur' = 0
          /\ UNCHANGED <<con, arr, acc, got, sigpipe, full, peer, sent>>
      BY <1>3, WritesClient DEF SendPipe
    <2>2. CASE sigpipe
      <3>1. UNCHANGED <<on, events, reg, again>> /\ alive' = FALSE
        BY <1>3, <2>2 DEF SendPipe, lists
      <3>2. Batch'
        BY <2>1, <3>1, WriteBatch
      <3> QED
        BY <2>1, <3>1, <3>2 DEF IndInv, Shapes, Chunks, OneEach, Lists
    <2>3. CASE ~sigpipe
      <3>1. again' = FALSE /\ CloseAll(e.fd) /\ alive' = alive
        BY <1>3, <2>3 DEF SendPipe
      <3>2. \A f \in Fds \ {e.fd} : events'[f] = events[f]
        BY <3>1 DEF CloseAll, IndInv, Shapes
      <3>3. Batch'
        BY <2>1, <3>2, WriteBatch
      <3> QED
        BY <2>1, <3>1, <3>3, CloseHolds
    <2> QED
      BY <2>2, <2>3
  <1> QED
    BY <1>1, <1>2, <1>3

(* The clients: a connection that breaks does not become one of which a send   *)
(* has told.                                                                *)
LEMMA ClientsHold ==
    ASSUME IndInv,
           \/ Connect \/ \E c \in Conns : SendChunk(c) \/ Finish(c) \/ Reset(c)
           \/ \E f \in Fds : PeerReads(f)
    PROVE  IndInv'
  <1>1. CASE Connect
    <2>1. con' = con + 1 /\ con < MaxConns
      BY <1>1 DEF Connect
    <2>2. UNCHANGED <<on, events, reg, batch, cur, again, acc, got, sent, alive, sigpipe, full, peer, arr>>
      BY <1>1 DEF Connect, Server, lists
    <2>3. con' \in 0 .. MaxConns /\ acc' \in 0 .. con' /\ (acc < con => acc' < con')
      BY <2>1, <2>2, ReactorAssumption DEF IndInv, Shapes
    <2>4. Shapes'
      BY <2>2, <2>3 DEF IndInv, Shapes
    <2>5. Batch'
      BY <2>2, <2>3 DEF IndInv, Batch
    <2> QED
      BY <2>2, <2>4, <2>5 DEF IndInv, Chunks, OneEach, Lists
  <1>2. ASSUME NEW c \in Conns, SendChunk(c) PROVE IndInv'
    <2>1. arr' = [arr EXCEPT ![c] = @ + 1] /\ arr[c] < MaxChunks
      BY <1>2 DEF SendChunk
    <2>2. UNCHANGED <<on, events, reg, batch, cur, again, acc, got, sent, alive, sigpipe, full, con, peer>>
      BY <1>2 DEF SendChunk, Server, lists
    <2>3. /\ arr' \in [Conns -> 0 .. MaxChunks]
          /\ \A d \in Conns : arr[d] \in Nat /\ got[d] \in Nat /\ arr'[d] \in Nat /\ arr[d] <= arr'[d]
      <3>1. arr \in [Conns -> 0 .. MaxChunks] /\ got \in [Conns -> Nat] /\ arr[c] + 1 \in 0 .. MaxChunks
        BY <2>1, ReactorAssumption DEF IndInv, Shapes
      <3>2. /\ arr' \in [Conns -> 0 .. MaxChunks] /\ arr'[c] = arr[c] + 1
            /\ \A d \in Conns \ {c} : arr'[d] = arr[d]
        BY <2>1, <3>1
      <3>3. \A d \in Conns : arr[d] \in Nat /\ got[d] \in Nat
        BY <3>1, ReactorAssumption
      <3> QED
        BY <3>2, <3>3
    <2>4. Chunks'
      <3>1. \A d \in Conns : got[d] <= arr'[d]
        BY <2>3 DEF IndInv, Chunks
      <3> QED
        BY <2>2, <3>1 DEF IndInv, Chunks
    <2>5. Shapes'
      BY <2>2, <2>3 DEF IndInv, Shapes
    <2> QED
      BY <2>2, <2>4, <2>5 DEF IndInv, OneEach, Lists, Batch
  <1>3. ASSUME NEW c \in Conns, Finish(c) \/ Reset(c) PROVE IndInv'
    <2>1. PICK q \in {"fin", "rst", "brk"} :
             peer[c] \in {"up", "fin"} /\ peer' = [peer EXCEPT ![c] = q]
      BY <1>3 DEF Finish, Reset
    <2>2. UNCHANGED <<on, events, reg, batch, cur, again, acc, got, sent, alive, sigpipe, full, con, arr>>
      BY <1>3 DEF Finish, Reset, Server, lists
    <2>3. /\ peer' \in [Conns -> Peers]
          /\ \A d \in Conns : peer'[d] # "gone" => peer[d] # "gone"
      <3>1. q \in Peers /\ peer \in [Conns -> Peers]
        BY DEF IndInv, Shapes, Peers
      <3>2. peer[c] # "gone"
        BY <2>1
      <3> QED
        BY <2>1, <3>1, <3>2
    <2>4. Lists'
      <3>1. ASSUME NEW f \in Fds
            PROVE  Listed(events[f], on[f], got[on[f]], sent[on[f]], peer'[on[f]])
        <4>1. Listed(events[f], on[f], got[on[f]], sent[on[f]], peer[on[f]])
          BY DEF IndInv, Lists
        <4>2. CASE on[f] = 0
          BY <4>1, <4>2, NoClient
        <4>3. CASE on[f] # 0
          <5>1. on[f] \in Conns
            BY <4>3, OnClient
          <5> QED
            BY <2>3, <4>1, <5>1 DEF Listed
        <4> QED
          BY <4>2, <4>3
      <3> QED
        BY <2>2, <3>1 DEF IndInv, Lists
    <2>5. Shapes'
      BY <2>2, <2>3 DEF IndInv, Shapes
    <2> QED
      BY <2>2, <2>4, <2>5 DEF IndInv, Chunks, OneEach, Batch
  <1>4. ASSUME NEW f \in Fds, PeerReads(f) PROVE IndInv'
    <2>1. UNCHANGED <<on, events, reg, batch, cur, again, acc, got, sent, alive, sigpipe, con, peer, arr>>
      BY <1>4 DEF PeerReads, Server, clients, lists
    <2>2. full' \in [Fds -> BOOLEAN]
      BY <1>4 DEF PeerReads, IndInv, Shapes
    <2>3. Shapes'
      BY <2>1, <2>2 DEF IndInv, Shapes
    <2> QED
      BY <2>1, <2>3 DEF IndInv, Chunks, OneEach, Lists, Batch
  <1> QED
    BY <1>1, <1>2, <1>3, <1>4

(* Every step keeps the invariant.                                           *)
LEMMA NextHolds == IndInv /\ [Next]_vars => IndInv'
  <1> SUFFICES ASSUME IndInv, [Next]_vars PROVE IndInv'
    OBVIOUS
  <1>1. CASE UNCHANGED vars
    BY <1>1 DEF vars, lists, clients, IndInv, Shapes, Chunks, OneEach, Lists, Batch
  <1>2. CASE Wait
    BY <1>2, WaitHolds
  <1>3. ASSUME NEW e \in batch,
               \/ Accept(e) \/ RecvData(e) \/ RecvFails(e)
               \/ NothingToSend(e) \/ SendOk(e) \/ SendReset(e) \/ SendPipe(e)
        PROVE  IndInv'
    BY <1>3, AcceptHolds, RecvDataHolds, RecvFailsHolds, NothingHolds, SendHolds
  <1>4. CASE Interrupted
    BY <1>4 DEF Interrupted, lists, clients, IndInv, Shapes, Chunks, OneEach, Lists, Batch
  <1> QED
    BY <1>1, <1>2, <1>3, <1>4, ClientsHold DEF Next, Loop

(* The invariant holds of every behaviour of the reactor: the lists, the    *)
(* epoll set, the entries that are left of the last epoll_wait and the      *)
(* chunks of each client agree.                                             *)
THEOREM Inductive == Spec => []IndInv
  BY InitHolds, NextHolds, PTL DEF Spec

-----------------------------------------------------------------------------
(* The properties.                                                           *)

(* The two ways to say that a sequence has an element.                      *)
LEMMA ContainsRange ==
    ASSUME NEW S, NEW L \in Seq(S), NEW x
    PROVE  Contains(L, x) <=> x \in Range(L)
  BY LenProperties DEF Contains, Range

(* The types of a list's events.                                             *)
LEMMA TypesOfList ==
    ASSUME NEW L \in Seq(Events)
    PROVE  Types(L) \subseteq {"in", "out"}
  <1>1. ASSUME NEW i \in DOMAIN L PROVE L[i][2] \in {"in", "out"}
    <2>1. L[i] \in Events
      BY LenProperties, ElementOfSeq
    <2> QED
      BY <2>1 DEF Events, InEv, OutEv
  <1> QED
    BY <1>1 DEF Types

(* The type invariant follows; that no more is sent than was received is    *)
(* the pigeonhole principle.                                                *)
LEMMA TypesHold == IndInv => TypeOK
  <1> SUFFICES ASSUME IndInv PROVE TypeOK
    OBVIOUS
  <1>1. \A f \in Fds : events[f] \in Seq(Events) /\ reg[f].mask \subseteq {"in", "out"}
    <2>1. ASSUME NEW f \in Fds
          PROVE  events[f] \in Seq(Events) /\ reg[f].mask = Types(events[f])
      BY DEF IndInv, Lists, Listed, Registered
    <2> QED
      BY <2>1, TypesOfList
  <1>2. ASSUME NEW c \in Conns
        PROVE  got[c] \in 0 .. arr[c] /\ arr[c] <= MaxChunks /\ Len(sent[c]) <= got[c]
    <2>1. /\ got[c] \in Nat /\ arr[c] \in 0 .. MaxChunks /\ sent[c] \in Seq(Nat) /\ got[c] <= arr[c]
          /\ IsInjective(sent[c]) /\ Range(sent[c]) \subseteq 1 .. got[c]
      BY DEF IndInv, Shapes, Chunks
    <2>2. Len(sent[c]) <= got[c]
      BY <2>1, Pigeonhole
    <2> QED
      BY <2>1, <2>2, ReactorAssumption
  <1>3. \A e \in batch : e.fd \in Fds \cup {Listen} /\ e.mask \subseteq {"in", "out"} /\ e.mask # {}
    BY DEF IndInv, Batch, Entry
  <1> QED
    BY <1>1, <1>2, <1>3 DEF IndInv, Shapes, TypeOK, Peers

(* The epoll set always asks for the types of a descriptor's events and       *)
(* points to one of them, and the event of an entry that reactor_run takes    *)
(* up has not been freed.                                                   *)
THEOREM EventsStayLive == Spec => []EventsAreLive
  <1>1. IndInv => EventsAreLive
    <2> SUFFICES ASSUME IndInv PROVE EventsAreLive
      OBVIOUS
    <2>1. ASSUME NEW f \in Fds
          PROVE  /\ reg[f].mask = Types(events[f])
                 /\ events[f] = <<>> <=> on[f] = 0
                 /\ on[f] # 0 => Contains(events[f], reg[f].ptr)
      <3>1. events[f] \in Seq(Events) /\ (events[f] = <<>> <=> on[f] = 0) /\ Registered(reg[f], events[f])
        BY DEF IndInv, Lists, Listed
      <3> QED
        BY <3>1, ContainsRange DEF Registered
    <2>2. ASSUME NEW e \in batch, e.fd \in Fds, e.fd # cur PROVE Contains(events[e.fd], e.ptr)
      <3>1. events[e.fd] \in Seq(Events) /\ e.ptr \in Range(events[e.fd])
        BY <2>2 DEF IndInv, Lists, Listed, Batch
      <3> QED
        BY <3>1, ContainsRange
    <2> QED
      BY <2>1, <2>2, TypesHold DEF EventsAreLive
  <1> QED
    BY <1>1, Inductive, PTL

(* The list of a descriptor has one event that reads and one for each chunk    *)
(* received and not sent back, of the client on it now.                     *)
THEOREM ChunksAreAccounted == Spec => []ChunksAccounted
  <1>1. IndInv => ChunksAccounted
    <2> SUFFICES ASSUME IndInv, NEW f \in Fds, on[f] # 0
                 PROVE  LET c == on[f] IN
                          /\ {i \in DOMAIN events[f] : events[f][i] = InEv(c)} # {}
                          /\ \A i \in DOMAIN events[f] :
                               events[f][i] \in {InEv(c)} \cup {OutEv(c, k) : k \in 1 .. got[c]}
                          /\ IsInjective(sent[c]) /\ IsInjective(events[f])
                          /\ \A k \in 1 .. got[c] : Contains(sent[c], k) => ~Contains(events[f], OutEv(c, k))
                          /\ peer[c] # "gone" =>
                               \A k \in 1 .. got[c] : Contains(sent[c], k) \/ Contains(events[f], OutEv(c, k))
      BY DEF ChunksAccounted
    <2> DEFINE c == on[f]
               L == events[f]
    <2>1. Listed(L, c, got[c], sent[c], peer[c]) /\ sent[c] \in Seq(Nat) /\ IsInjective(sent[c])
      BY OnClient
    <2>2. \A x : (Contains(L, x) <=> x \in Range(L)) /\ (Contains(sent[c], x) <=> x \in Range(sent[c]))
      BY <2>1, ContainsRange DEF Listed
    <2> HIDE DEF c, L
    <2>3. /\ InEv(c) \in Range(L) /\ Range(L) \subseteq {InEv(c)} \cup {OutEv(c, k) : k \in 1 .. got[c]}
          /\ IsInjective(L)
      BY <2>1 DEF Listed, c
    <2>4. \E i \in DOMAIN L : L[i] = InEv(c)
      BY <2>3 DEF Range
    <2>5. \A i \in DOMAIN L : L[i] \in {InEv(c)} \cup {OutEv(c, k) : k \in 1 .. got[c]}
      BY <2>3 DEF Range
    <2>6. \A k \in 1 .. got[c] : Contains(sent[c], k) => ~Contains(L, OutEv(c, k))
      BY <2>1, <2>2 DEF Listed, c
    <2>7. peer[c] # "gone" => \A k \in 1 .. got[c] : Contains(sent[c], k) \/ Contains(L, OutEv(c, k))
      BY <2>1, <2>2 DEF Listed, c
    <2> QED
      BY <2>1, <2>3, <2>4, <2>5, <2>6, <2>7 DEF c, L
  <1> QED
    BY <1>1, Inductive, PTL
=============================================================================
