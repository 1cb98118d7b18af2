----------------------------- MODULE TimerProofs ------------------------------
(***************************************************************************)
(* Proofs about the timer of a Dispatcher.  For its Bitmap, with any word    *)
(* size and any number of bits: the summary names only words in use, and     *)
(* GetMinAfter never goes back.  For its two wheels, of any size, with any   *)
(* finite set of timers and any times between two calls of TimerRun: a timer *)
(* that is set is on one list, which its own members name while the bucket   *)
(* is below the type bits, and only such a timer is called back.            *)
(***************************************************************************)
EXTENDS Bitmap, TimerWheel, FiniteSetTheorems, WellFoundedInduction, TLAPS

-----------------------------------------------------------------------------
(* Numbers, words and least elements.                                       *)

(* A nonempty set of naturals has a least element, and it is Min.            *)
LEMMA MinOf ==
    ASSUME NEW T, T \subseteq Nat, T # {}
    PROVE  Min(T) \in T /\ \A y \in T : Min(T) <= y
  <1> DEFINE R == OpToRel(<, Nat)
  <1>1. PICK x \in T : \A y \in T : ~(<<y, x>> \in R)
    BY NatLessThanWellFounded, WFMin
  <1>2. R = {ss \in Nat \X Nat : ss[1] < ss[2]}
    BY DEF OpToRel
  <1> HIDE DEF R
  <1>3. ASSUME NEW y \in T PROVE x <= y
    <2>1. <<y, x>> \in Nat \X Nat
      OBVIOUS
    <2>2. ~(y < x)
      BY <1>1, <1>2, <2>1
    <2> QED
      BY <2>2
  <1> QED
    BY <1>3 DEF Min

(* An index lies in its word: from FirstBit to TopBit.                       *)
LEMMA InItsWord ==
    ASSUME NEW i \in Nat
    PROVE  /\ WordOf(i) \in Nat /\ FirstBit(WordOf(i)) \in Nat
           /\ FirstBit(WordOf(i)) <= i /\ i <= TopBit(WordOf(i))
  <1>1. StepSize \in Nat \ {0}
    BY StepSizeAssumption
  <1> QED
    BY <1>1, Z3 DEF WordOf, FirstBit, TopBit

(* A later word begins later, by a word at least.                            *)
LEMMA LaterWord ==
    ASSUME NEW v \in Nat, NEW w \in Nat, v < w
    PROVE  FirstBit(v) + StepSize <= FirstBit(w)
  <1>1. PICK k \in Nat : w = v + 1 + k
    <2>1. w - v - 1 \in Nat /\ w = v + 1 + (w - v - 1)
      OBVIOUS
    <2> QED
      BY <2>1
  <1>2. StepSize \in Nat \ {0}
    BY StepSizeAssumption
  <1>3. w * StepSize = v * StepSize + StepSize + k * StepSize /\ k * StepSize \in Nat
    BY <1>1, <1>2
  <1>4. v * StepSize \in Nat
    BY <1>2
  <1> QED
    BY <1>2, <1>3, <1>4 DEF FirstBit

(* The word of an index below the words of the bitmap is one of them.        *)
LEMMA WordBelow ==
    ASSUME NEW i \in Nat, NEW n \in Nat, i < n * StepSize
    PROVE  WordOf(i) \in 0 .. n - 1
  <1>1. StepSize \in Nat \ {0} /\ n * StepSize \in Nat
    BY StepSizeAssumption
  <1>2. WordOf(i) \in Nat /\ FirstBit(WordOf(i)) \in Nat /\ FirstBit(WordOf(i)) <= i
    BY InItsWord
  <1>3. CASE n < WordOf(i)
    BY <1>1, <1>2, <1>3, LaterWord DEF FirstBit
  <1>4. CASE n = WordOf(i)
    BY <1>1, <1>2, <1>4 DEF FirstBit
  <1> QED
    BY <1>2, <1>3, <1>4

-----------------------------------------------------------------------------
(* The inductive invariant: bm is a record of these fields, the bits and the *)
(* summary lie within the words of Init, and a word the summary names is in  *)
(* use.                                                                     *)
Whole == /\ bm = [words |-> bm.words, bits |-> bm.bits, vec |-> bm.vec, slack |-> bm.slack]
         /\ bm.words \in Nat

BitmapInv == Whole /\ SummaryIsUsed

(* Init of the bitmap: no bit, no word in the summary.                      *)
LEMMA InitInv ==
    ASSUME BitmapInit
    PROVE  BitmapInv
  <1>1. PICK slack \in 0 .. StepSize - 1 : bm = NewBitmap(Size, slack)
    BY DEF BitmapInit
  <1> DEFINE n == (Size + StepSize - 1) \div StepSize
  <1>2. bm.words = n /\ bm.bits = {} /\ bm.vec = {} /\ bm.slack = slack
    BY <1>1 DEF NewBitmap
  <1>3. bm = [words |-> bm.words, bits |-> bm.bits, vec |-> bm.vec, slack |-> bm.slack]
    BY <1>1, <1>2 DEF NewBitmap
  <1>4. StepSize \in Nat \ {0} /\ Size \in Nat \ {0}
    BY StepSizeAssumption, SizeAssumption
  <1>5. n \in Nat /\ n * StepSize \in Size .. Size + StepSize - 1
    BY <1>4, Z3
  <1> HIDE DEF n
  <1> QED
    BY <1>2, <1>3, <1>5 DEF BitmapInv, Whole, SummaryIsUsed, BitmapTypeOK

(* Insert sets the bit and the word's bit in the summary.                   *)
LEMMA InsertInv ==
    ASSUME BitmapInv, NEW index \in Index, InsertBit(index)
    PROVE  BitmapInv'
  <1>1. /\ index \in Nat /\ bm.words \in Nat /\ index < bm.words * StepSize
        /\ bm.words * StepSize \in Nat
    BY StepSizeAssumption, SizeAssumption DEF BitmapInv, Whole, SummaryIsUsed, BitmapTypeOK, Index
  <1>2. WordOf(index) \in 0 .. bm.words - 1
    BY <1>1, WordBelow
  <1> DEFINE B == bm.bits \cup {index}
             V == bm.vec \cup {WordOf(index)}
  <1>3. bm' = [bm EXCEPT !.bits = B, !.vec = V]
    <2>1. InsertOK(bm, index)
      BY <1>1 DEF InsertOK
    <2> QED
      BY <2>1, Zenon DEF InsertBit, Insert
  <1>4. bm' = [words |-> bm.words, bits |-> B, vec |-> V, slack |-> bm.slack]
    BY <1>3 DEF BitmapInv, Whole
  <1>5. bm'.words = bm.words /\ bm'.bits = B /\ bm'.vec = V /\ bm'.slack = bm.slack
    BY <1>4
  <1>6. B \subseteq Index /\ V \subseteq 0 .. bm.words - 1
    BY <1>2 DEF BitmapInv, SummaryIsUsed, BitmapTypeOK
  <1>7. \A w \in V : InWord(B, w) # {}
    BY DEF BitmapInv, SummaryIsUsed, InWord
  <1> HIDE DEF B, V
  <1>8. Whole'
    BY <1>1, <1>4, <1>5 DEF Whole
  <1>9. BitmapTypeOK'
    BY <1>5, <1>6 DEF BitmapInv, SummaryIsUsed, BitmapTypeOK, Index
  <1> QED
    BY <1>5, <1>7, <1>8, <1>9 DEF BitmapInv, SummaryIsUsed

(* Remove takes the word out of the summary with its last bit.              *)
LEMMA RemoveInv ==
    ASSUME BitmapInv, NEW index \in Index, RemoveBit(index)
    PROVE  BitmapInv'
  <1>1. /\ index \in Nat /\ bm.words \in Nat /\ index < bm.words * StepSize
        /\ bm.words * StepSize \in Nat
    BY StepSizeAssumption, SizeAssumption DEF BitmapInv, Whole, SummaryIsUsed, BitmapTypeOK, Index
  <1> DEFINE B == bm.bits \ {index}
             V == IF InWord(B, WordOf(index)) = {} THEN bm.vec \ {WordOf(index)} ELSE bm.vec
  <1>2. ~(index > bm.words * StepSize)
    BY <1>1
  <1>3. bm' = [bm EXCEPT !.bits = B, !.vec = V]
    BY <1>2, Zenon DEF RemoveBit, Remove
  <1>4. bm' = [words |-> bm.words, bits |-> B, vec |-> V, slack |-> bm.slack]
    <2> HIDE DEF B, V
    <2> QED
      BY <1>3 DEF BitmapInv, Whole
  <1>5. B \subseteq Index /\ V \subseteq 0 .. bm.words - 1
    BY DEF BitmapInv, SummaryIsUsed, BitmapTypeOK
  <1>6. \A w \in V : InWord(B, w) # {}
    <2> SUFFICES ASSUME NEW w \in V PROVE InWord(B, w) # {}
      OBVIOUS
    <2>1. w \in bm.vec /\ InWord(bm.bits, w) # {}
      BY DEF BitmapInv, SummaryIsUsed
    <2>2. CASE w = WordOf(index)
      BY <2>2
    <2>3. CASE w # WordOf(index)
      BY <2>1, <2>3 DEF InWord
    <2> QED
      BY <2>2, <2>3
  <1> HIDE DEF B, V
  <1>7. bm'.words = bm.words /\ bm'.bits = B /\ bm'.vec = V /\ bm'.slack = bm.slack
    BY <1>4
  <1>8. Whole'
    BY <1>1, <1>4, <1>7 DEF Whole
  <1>9. BitmapTypeOK'
    BY <1>5, <1>7 DEF BitmapInv, SummaryIsUsed, BitmapTypeOK, Index
  <1> QED
    BY <1>6, <1>7, <1>8, <1>9 DEF BitmapInv, SummaryIsUsed

(* Clear, whichever word it computes, leaves no more in the summary than    *)
(* bits are set.                                                            *)
LEMMA ClearInv ==
    ASSUME BitmapInv, ClearAll
    PROVE  BitmapInv'
  <1> DEFINE zeroed == {IF w = 0 THEN 1 ELSE w : w \in bm.vec}
             B == {i \in bm.bits : WordOf(i) \notin zeroed}
             s == IF bm.words \in zeroed THEN 0 ELSE bm.slack
  <1>1. bm' = [bm EXCEPT !.bits = B, !.vec = {}, !.slack = s]
    BY Zenon DEF ClearAll, Clear
  <1>2. B \subseteq bm.bits /\ s \in {0, bm.slack}
    OBVIOUS
  <1> HIDE DEF zeroed, B, s
  <1>3. bm' = [words |-> bm.words, bits |-> B, vec |-> {}, slack |-> s]
    BY <1>1 DEF BitmapInv, Whole
  <1>4. bm'.words = bm.words /\ bm'.bits = B /\ bm'.vec = {} /\ bm'.slack = s
    BY <1>3
  <1>5. Whole'
    BY <1>3, <1>4 DEF BitmapInv, Whole
  <1>6. BitmapTypeOK'
    BY <1>2, <1>4, StepSizeAssumption DEF BitmapInv, SummaryIsUsed, BitmapTypeOK, Index
  <1> QED
    BY <1>4, <1>5, <1>6 DEF BitmapInv, SummaryIsUsed

(* BitmapInv holds in every state that Insert, Remove and Clear reach.          *)
THEOREM BitmapInductive == BitmapSpec => []BitmapInv
  <1>1. BitmapInit => BitmapInv
    BY InitInv
  <1>2. BitmapInv /\ [BitmapNext]_bitmapVars => BitmapInv'
    <2> SUFFICES ASSUME BitmapInv, [BitmapNext]_bitmapVars PROVE BitmapInv'
      OBVIOUS
    <2>1. CASE \E index \in Index : InsertBit(index) \/ RemoveBit(index)
      BY <2>1, InsertInv, RemoveInv
    <2>2. CASE ClearAll
      BY <2>2, ClearInv
    <2>3. CASE UNCHANGED bitmapVars
      BY <2>3 DEF bitmapVars, BitmapInv, Whole, SummaryIsUsed, BitmapTypeOK, Index
    <2> QED
      BY <2>1, <2>2, <2>3 DEF BitmapNext
  <1> QED
    BY <1>1, <1>2, PTL DEF BitmapSpec

(* No summary bit stands for an empty word, after any sequence of calls: an  *)
(* empty bitmap is Empty() (bitmap.cpp, Insert, Remove and Clear).           *)
THEOREM SummaryStaysUsed == BitmapSpec => []SummaryIsUsed
  <1>1. BitmapInv => SummaryIsUsed
    BY DEF BitmapInv
  <1> QED
    BY <1>1, BitmapInductive, PTL

-----------------------------------------------------------------------------
(* GetMinAfter.                                                             *)

(* The first case of the search: the word of the index has a later bit.      *)
LEMMA SearchInWord ==
    ASSUME BitmapInv, NEW i \in Index,
           NEW later, later = {j \in InWord(bm.bits, WordOf(i)) : j >= i}, later # {}
    PROVE  /\ Log2Lowest(later, i) \in Nat
           /\ i \in bm.bits => Log2Lowest(later, i) = 0
  <1>1. i \in Nat /\ later \subseteq Nat /\ \A j \in later : j >= i
    BY SizeAssumption DEF BitmapInv, SummaryIsUsed, BitmapTypeOK, Index, InWord
  <1>2. Min(later) \in later /\ \A j \in later : Min(later) <= j
    BY <1>1, MinOf
  <1>3. Log2Lowest(later, i) \in {0, Min(later) - i}
    BY DEF Log2Lowest
  <1>4. i \in bm.bits => Min(later) = i
    BY <1>1, <1>2 DEF InWord
  <1> QED
    BY <1>1, <1>2, <1>3, <1>4

(* The second case: what is added to the first bit of the next word.         *)
LEMMA SearchPlusOne ==
    ASSUME BitmapInv, NEW w \in Nat
    PROVE  Log2LowestPlusOne(bm, w) \in Nat
  <1> DEFINE bits == InWord(bm.bits, w)
  <1>1. bm.words \in Nat /\ bm.slack \in Nat
    BY StepSizeAssumption DEF BitmapInv, Whole, SummaryIsUsed, BitmapTypeOK
  <1>2. CASE w >= bm.words
    BY <1>1, <1>2 DEF Log2LowestPlusOne
  <1>3. CASE w < bm.words /\ bits = {}
    <2>1. ~(w >= bm.words)
      BY <1>1, <1>3
    <2> QED
      BY <1>3, <2>1 DEF Log2LowestPlusOne
  <1>4. CASE w < bm.words /\ bits # {}
    <2>1. ~(w >= bm.words)
      BY <1>1, <1>4
    <2>2. bits \subseteq Nat /\ \A j \in bits : WordOf(j) = w
      BY SizeAssumption DEF BitmapInv, SummaryIsUsed, BitmapTypeOK, Index, InWord
    <2>3. Min(bits) \in Nat /\ WordOf(Min(bits)) = w
      BY <1>4, <2>2, MinOf
    <2>4. FirstBit(w) \in Nat /\ FirstBit(w) <= Min(bits)
      BY <2>3, InItsWord
    <2>5. Log2LowestPlusOne(bm, w) \in {0, 1, Min(bits) - FirstBit(w)}
      BY <1>4, <2>1 DEF Log2LowestPlusOne
    <2> QED
      BY <2>3, <2>4, <2>5
  <1> QED
    BY <1>1, <1>2, <1>3, <1>4

(* A search that goes on in a later word ends behind the index.             *)
LEMMA SearchNextWord ==
    ASSUME BitmapInv, NEW i \in Index, {u \in bm.vec : u >= WordOf(i)} # {}
    PROVE  /\ NextWord(bm, WordOf(i)) \in Nat
           /\ FirstBit(NextWord(bm, WordOf(i))) \in Nat
           /\ i < FirstBit(NextWord(bm, WordOf(i)))
  <1> DEFINE w == WordOf(i)
             U == {u \in bm.vec : u >= w}
             x == NextWord(bm, w)
  <1>1. i \in Nat /\ bm.words \in Nat /\ bm.vec \subseteq Nat
    BY SizeAssumption DEF BitmapInv, Whole, SummaryIsUsed, BitmapTypeOK, Index
  <1>2. w \in Nat /\ FirstBit(w) \in Nat /\ i <= TopBit(w)
    BY <1>1, InItsWord
  <1>3. Min(U) \in Nat /\ Min(U) >= w
    <2>1. U \subseteq Nat /\ U # {}
      BY <1>1
    <2> HIDE DEF w
    <2>2. Min(U) \in U
      BY <2>1, MinOf
    <2> QED
      BY <2>1, <2>2
  <1>4. x = IF Min(U) = w THEN w + 1 ELSE Min(U)
    BY DEF NextWord
  <1> HIDE DEF w, U, x
  <1>5. x \in Nat /\ w < x
    BY <1>2, <1>3, <1>4
  <1>6. FirstBit(w) + StepSize <= FirstBit(x)
    BY <1>2, <1>5, LaterWord
  <1>7. FirstBit(x) \in Nat /\ StepSize \in Nat
    BY <1>5, StepSizeAssumption DEF FirstBit
  <1>8. i < FirstBit(x)
    BY <1>1, <1>2, <1>6, <1>7 DEF TopBit
  <1> QED
    BY <1>5, <1>7, <1>8 DEF w, x

(* A bit whose word the summary knows is found by a search that starts at    *)
(* it, and no search goes back, so that TimerRun's loops over a bitmap end   *)
(* (bitmap.cpp, GetMinAfter).                                               *)
THEOREM SearchesAdvance == BitmapSpec => []SearchAdvances
  <1>1. BitmapInv => SearchAdvances
    <2> SUFFICES ASSUME BitmapInv PROVE SearchAdvances
      OBVIOUS
    <2> DEFINE after(i) == {j \in InWord(bm.bits, WordOf(i)) : j >= i}
               ahead(i) == {u \in bm.vec : u >= WordOf(i)}
    <2>1. /\ bm.words \in Nat /\ bm.words * StepSize \in Nat
          /\ bm.bits \subseteq Index /\ Index \subseteq Nat
          /\ \A i \in Index : i < bm.words * StepSize
      BY StepSizeAssumption, SizeAssumption
         DEF BitmapInv, Whole, SummaryIsUsed, BitmapTypeOK, Index
    <2>2. ASSUME NEW i \in bm.bits, WordOf(i) \in bm.vec PROVE GetMinAfter(bm, i) = i
      <3>1. /\ ~(i >= bm.words * StepSize) /\ i < bm.words * StepSize
            /\ ~IsEmpty(bm) /\ i \in Nat /\ i >= i
        <4>1. i \in Index /\ i \in Nat /\ i < bm.words * StepSize
          BY <2>1
        <4>2. bm.vec # {}
          BY <2>2
        <4> QED
          BY <2>1, <4>1, <4>2 DEF IsEmpty
      <3>2. after(i) # {}
        BY <3>1 DEF InWord
      <3>3. Log2Lowest(after(i), i) = 0
        BY <2>1, <3>2, SearchInWord
      <3>4. GetMinAfter(bm, i) = i + Log2Lowest(after(i), i)
        BY <3>1, <3>2 DEF GetMinAfter
      <3> QED
        BY <3>1, <3>3, <3>4
    <2>3. ASSUME NEW i \in Index PROVE GetMinAfter(bm, i) = -1 \/ GetMinAfter(bm, i) >= i
      <3>1. ~(i >= bm.words * StepSize) /\ i < bm.words * StepSize /\ i \in Nat
        BY <2>1
      <3>2. CASE IsEmpty(bm)
        BY <3>2 DEF GetMinAfter
      <3>3. CASE ~IsEmpty(bm) /\ after(i) # {}
        <4>1. Log2Lowest(after(i), i) \in Nat
          BY <3>3, SearchInWord
        <4>2. GetMinAfter(bm, i) = i + Log2Lowest(after(i), i)
          BY <3>1, <3>3 DEF GetMinAfter
        <4> QED
          BY <3>1, <4>1, <4>2
      <3>4. CASE ~IsEmpty(bm) /\ after(i) = {} /\ ahead(i) = {}
        BY <3>1, <3>4 DEF GetMinAfter
      <3>5. CASE ~IsEmpty(bm) /\ after(i) = {} /\ ahead(i) # {}
        <4> DEFINE x == NextWord(bm, WordOf(i))
        <4>1. GetMinAfter(bm, i) = FirstBit(x) + Log2LowestPlusOne(bm, x)
          BY <3>1, <3>5 DEF GetMinAfter
        <4>2. x \in Nat /\ FirstBit(x) \in Nat /\ i < FirstBit(x)
          BY <3>5, SearchNextWord
        <4>3. Log2LowestPlusOne(bm, x) \in Nat
          BY <4>2, SearchPlusOne
        <4> QED
          BY <3>1, <4>1, <4>2, <4>3
      <3> QED
        BY <3>2, <3>3, <3>4, <3>5
    <2> QED
      BY <2>2, <2>3 DEF SearchAdvances
  <1> QED
    BY <1>1, BitmapInductive, PTL

-----------------------------------------------------------------------------
(* The timer wheels.                                                        *)

Slots == [total : Nat, left : Int, always : BOOLEAN, in : BOOLEAN, index : Nat]

(* The parts of the state of the wheels.                                    *)
Parts(s) ==
    /\ s = [cur |-> s.cur, bm |-> s.bm, list |-> s.list, key |-> s.key, slot |-> s.slot]
    /\ s.cur \in [Wheels -> Nat] /\ s.bm = [w \in Wheels |-> s.bm[w]]
    /\ s.list = [w \in Wheels |-> s.list[w]] /\ s.key = [w \in Wheels |-> s.key[w]]
    /\ s.slot \in [Timers -> Slots]

(* The members x of a timer fit its entry e on wheel w: _cur_index is what     *)
(* SetCurIndex made of the bucket.                                           *)
Fits(x, w, e) ==
    /\ e = <<e[1], e[2], e[3]>> /\ e[1] \in 0 .. 64 * IndexSpan - 1
    /\ e[2] = x.left /\ x.index = SetCurIndex(e[1], w)
    /\ w = "sub" => e[1] < Unit /\ e[2] = 0

(* The invariant, also in the middle of TimerRun: the timers of H have been   *)
(* taken off the lists, and every other one that is set has one entry, which  *)
(* its members fit.  Only timers of O are set.                               *)
Filed(s, H, O) ==
    /\ Parts(s)
    /\ \A t \in Timers : s.slot[t].in => t \in O /\ s.slot[t].left \in 0 .. Unit - 1
    /\ \A t \in H : t \in Timers /\ s.slot[t].in
    /\ \A t \in Timers : s.slot[t].in /\ t \notin H => \E w \in Wheels : \E e \in s.list[w] : e[3] = t
    /\ \A w \in Wheels : \A e \in s.list[w] :
          /\ e[3] \in Timers /\ e[3] \notin H /\ s.slot[e[3]].in
          /\ Fits(s.slot[e[3]], w, e) /\ <<e[1], e[2]>> \in s.key[w]
    /\ \A v, w \in Wheels : \A e \in s.list[v], f \in s.list[w] : e[3] = f[3] => v = w /\ e = f

(* r is s with the entry e of timer t on wheel w.                           *)
Entered(s, r, t, w, e) ==
    /\ w \in Wheels /\ e[3] = t /\ Fits(r.slot[t], w, e) /\ <<e[1], e[2]>> \in r.key[w]
    /\ \A v \in Wheels : r.list[v] = IF v = w THEN s.list[v] \cup {e} ELSE s.list[v]

(* r is s after timer t was handled: it has an entry that its new members     *)
(* fit, or is not set.                                                      *)
Refiled(s, r, t) ==
    /\ Parts(r) /\ r.cur = s.cur
    /\ \A u \in Timers : u # t => r.slot[u] = s.slot[u]
    /\ r.slot[t].in => r.slot[t].left \in 0 .. Unit - 1
    /\ r.slot[t].in => \E w, e : Entered(s, r, t, w, e)
    /\ ~r.slot[t].in => \A v \in Wheels : r.list[v] = s.list[v]
    /\ \A v \in Wheels : s.key[v] \subseteq r.key[v]

(* A timer that is off the lists is handled.                                *)
LEMMA RefiledKeeps ==
    ASSUME NEW s, NEW r, NEW H, NEW O, NEW t \in Timers, Filed(s, H, O), Refiled(s, r, t),
           t \in O, t \in H \/ ~s.slot[t].in
    PROVE  Filed(r, H \ {t}, O)
  <1>1. /\ Parts(s) /\ \A u \in Timers : s.slot[u].in => u \in O /\ s.slot[u].left \in 0 .. Unit - 1
        /\ \A u \in H : u \in Timers /\ s.slot[u].in
    BY DEF Filed
  <1>2. \A u \in Timers : s.slot[u].in /\ u \notin H => \E w \in Wheels : \E e \in s.list[w] : e[3] = u
    BY DEF Filed
  <1>3. \A w \in Wheels : \A e \in s.list[w] :
          /\ e[3] \in Timers /\ e[3] \notin H /\ s.slot[e[3]].in
          /\ Fits(s.slot[e[3]], w, e) /\ <<e[1], e[2]>> \in s.key[w]
    BY DEF Filed
  <1>4. \A v, w \in Wheels : \A e \in s.list[v], f \in s.list[w] : e[3] = f[3] => v = w /\ e = f
    BY DEF Filed
  <1>5. /\ Parts(r) /\ r.cur = s.cur /\ \A u \in Timers : u # t => r.slot[u] = s.slot[u]
        /\ r.slot[t].in => r.slot[t].left \in 0 .. Unit - 1
        /\ \A v \in Wheels : s.key[v] \subseteq r.key[v]
    BY DEF Refiled
  <1>6. \A u \in Timers : r.slot[u].in => u \in O /\ r.slot[u].left \in 0 .. Unit - 1
    BY <1>1, <1>5
  <1>7. \A u \in H \ {t} : u \in Timers /\ r.slot[u].in
    BY <1>1, <1>5
  <1>8. ASSUME NEW w \in Wheels, NEW e \in s.list[w]
        PROVE  /\ e[3] \in Timers /\ e[3] \notin H /\ e[3] # t /\ r.slot[e[3]].in
               /\ Fits(r.slot[e[3]], w, e) /\ <<e[1], e[2]>> \in r.key[w]
    <2>1. /\ e[3] \in Timers /\ e[3] \notin H /\ s.slot[e[3]].in
          /\ Fits(s.slot[e[3]], w, e) /\ <<e[1], e[2]>> \in s.key[w]
      BY <1>3
    <2>2. e[3] # t
      BY <2>1
    <2>3. r.slot[e[3]] = s.slot[e[3]]
      BY <1>5, <2>1, <2>2
    <2> QED
      BY <1>5, <2>1, <2>2, <2>3
  <1>9. CASE ~r.slot[t].in
    <2>1. \A v \in Wheels : r.list[v] = s.list[v]
      BY <1>9 DEF Refiled
    <2>2. ASSUME NEW u \in Timers, r.slot[u].in, u \notin H \ {t}
          PROVE  \E w \in Wheels : \E e \in r.list[w] : e[3] = u
      <3>1. u # t /\ s.slot[u].in /\ u \notin H
        BY <1>5, <1>9, <2>2
      <3> QED
        BY <1>2, <2>1, <3>1
    <2>3. ASSUME NEW w \in Wheels, NEW e \in r.list[w]
          PROVE  /\ e[3] \in Timers /\ e[3] \notin H \ {t} /\ r.slot[e[3]].in
                 /\ Fits(r.slot[e[3]], w, e) /\ <<e[1], e[2]>> \in r.key[w]
      BY <1>8, <2>1
    <2>4. \A v, w \in Wheels : \A e \in r.list[v], f \in r.list[w] : e[3] = f[3] => v = w /\ e = f
      BY <1>4, <2>1
    <2> QED
      BY <1>5, <1>6, <1>7, <2>2, <2>3, <2>4 DEF Filed
  <1>10. CASE r.slot[t].in
    <2>1. PICK x, y : Entered(s, r, t, x, y)
      BY <1>10 DEF Refiled
    <2>2. /\ x \in Wheels /\ y[3] = t /\ Fits(r.slot[t], x, y) /\ <<y[1], y[2]>> \in r.key[x]
          /\ \A v \in Wheels : r.list[v] = IF v = x THEN s.list[v] \cup {y} ELSE s.list[v]
      BY <2>1 DEF Entered
    <2>3. \A v \in Wheels : \A e \in r.list[v] : e \in s.list[v] \/ (v = x /\ e = y)
      BY <2>2
    <2>4. (\A v \in Wheels : \A e \in s.list[v] : e \in r.list[v]) /\ y \in r.list[x]
      BY <2>2
    <2>5. ASSUME NEW u \in Timers, r.slot[u].in, u \notin H \ {t}
          PROVE  \E w \in Wheels : \E e \in r.list[w] : e[3] = u
      <3>1. CASE u = t
        BY <2>2, <2>4, <3>1
      <3>2. CASE u # t
        <4>1. s.slot[u].in /\ u \notin H
          BY <1>5, <2>5, <3>2
        <4> QED
          BY <1>2, <2>4, <4>1
      <3> QED
        BY <3>1, <3>2
    <2>6. ASSUME NEW w \in Wheels, NEW e \in r.list[w]
          PROVE  /\ e[3] \in Timers /\ e[3] \notin H \ {t} /\ r.slot[e[3]].in
                 /\ Fits(r.slot[e[3]], w, e) /\ <<e[1], e[2]>> \in r.key[w]
      <3>1. CASE e \in s.list[w]
        BY <1>8, <3>1
      <3>2. CASE w = x /\ e = y
        BY <1>10, <2>2, <3>2
      <3> QED
        BY <2>3, <3>1, <3>2
    <2>7. ASSUME NEW v \in Wheels, NEW w \in Wheels, NEW e \in r.list[v], NEW f \in r.list[w],
                 e[3] = f[3]
          PROVE  v = w /\ e = f
      <3>1. e[3] = t => v = x /\ e = y
        BY <1>8, <2>3
      <3>2. f[3] = t => w = x /\ f = y
        BY <1>8, <2>3
      <3>3. e[3] # t => e \in s.list[v] /\ f \in s.list[w]
        BY <2>2, <2>3, <2>7
      <3> QED
        BY <1>4, <2>7, <3>1, <3>2, <3>3
    <2> QED
      BY <1>5, <1>6, <1>7, <2>5, <2>6, <2>7 DEF Filed
  <1> QED
    BY <1>9, <1>10

(* A bucket fits in 16 bits, and one of the sub wheel lies on that wheel.    *)
LEMMA BucketOn ==
    ASSUME NEW s, NEW w \in Wheels, NEW time \in Nat, s.cur[w] \in Nat,
           w = "sub" => s.cur[w] < Unit /\ time < Unit
    PROVE  /\ Bucket(s, w, time) \in 0 .. 64 * IndexSpan - 1
           /\ w = "sub" => Bucket(s, w, time) < Unit
  <1> DEFINE M == 64 * IndexSpan
             j == time \div UnitOf(w) + s.cur[w]
             i == j % M
             n == SizeOf(w)
  <1>1. UnitOf(w) \in Nat \ {0} /\ n \in Nat \ {0} /\ M \in Nat \ {0} /\ Unit \in Nat /\ 2 * Unit <= M
    BY UnitAssumption, SpanAssumption DEF UnitOf, SizeOf
  <1>2. time \div UnitOf(w) \in Nat
    BY <1>1, Z3
  <1>3. j \in Nat
    BY <1>2
  <1>4. w = "sub" => j = time + s.cur[w] /\ n = Unit
    BY DEF UnitOf, SizeOf
  <1>5. Bucket(s, w, time) = IF i >= n THEN i - n ELSE i
    BY DEF Bucket
  <1> HIDE DEF j, n, M
  <1>6. i \in 0 .. M - 1 /\ (j < M => i = j)
    BY <1>1, <1>3, Z3
  <1> HIDE DEF i
  <1>7. (IF i >= n THEN i - n ELSE i) \in 0 .. M - 1
    BY <1>1, <1>6
  <1>8. w = "sub" => (IF i >= n THEN i - n ELSE i) < Unit
    BY <1>1, <1>4, <1>6
  <1>9. Bucket(s, w, time) \in 0 .. M - 1 /\ (w = "sub" => Bucket(s, w, time) < Unit)
    BY <1>5, <1>7, <1>8
  <1> QED
    BY <1>9 DEF M

(* InnerAddTimer enters a timer where its members now say.                   *)
LEMMA InnerAddFiles ==
    ASSUME NEW s, NEW w \in Wheels, NEW t \in Timers, NEW time \in Nat, Parts(s),
           w = "sub" => s.cur[w] < Unit /\ time < Unit,
           s.slot[t].in, s.slot[t].left = time
    PROVE  Refiled(s, InnerAddTimer(s, w, t, time), t)
  <1> DEFINE i == Bucket(s, w, time)
             l == IF w = "root" THEN time % Unit ELSE 0
             n == SetCurIndex(i, w)
             x == s.slot[t]
             y == [total |-> x.total, left |-> l, always |-> x.always, in |-> x.in, index |-> n]
             e == <<i, l, t>>
             B == [s.bm EXCEPT ![w] = Insert(@, i)]
             L == [s.list EXCEPT ![w] = @ \cup {e}]
             K == [s.key EXCEPT ![w] = @ \cup {<<i, l>>}]
             Z == [s.slot EXCEPT ![t] = y]
             r == InnerAddTimer(s, w, t, time)
  <1>1. i \in 0 .. 64 * IndexSpan - 1 /\ (w = "sub" => i < Unit) /\ i \in Nat
    <2>1. s.cur[w] \in Nat
      BY DEF Parts
    <2>2. i \in 0 .. 64 * IndexSpan - 1 /\ (w = "sub" => i < Unit)
      BY <2>1, BucketOn
    <2> HIDE DEF i
    <2> QED
      BY <2>2, SpanAssumption
  <1>2. l \in 0 .. Unit - 1 /\ l \in Nat /\ (w = "sub" => l = 0)
    BY UnitAssumption DEF Wheels
  <1>3. /\ s = [cur |-> s.cur, bm |-> s.bm, list |-> s.list, key |-> s.key, slot |-> s.slot]
        /\ s.cur \in [Wheels -> Nat] /\ s.bm = [v \in Wheels |-> s.bm[v]]
        /\ s.list = [v \in Wheels |-> s.list[v]] /\ s.key = [v \in Wheels |-> s.key[v]]
        /\ s.slot \in [Timers -> Slots]
    BY DEF Parts
  <1>4. /\ x \in Slots /\ x.total \in Nat /\ x.always \in BOOLEAN /\ x.in \in BOOLEAN
        /\ x = [total |-> x.total, left |-> x.left, always |-> x.always, in |-> x.in,
                index |-> x.index]
    BY <1>3 DEF Slots
  <1>5. n \in Nat
    <2> HIDE DEF i
    <2> QED
      BY <1>1, SpanAssumption DEF SetCurIndex, TypeBit
  <1>6. [x EXCEPT !.index = n, !.left = x.left - (time - l)] = y
    <2>1. x.left - (time - l) = l
      BY <1>2
    <2> HIDE DEF x, n, l
    <2> DEFINE z == [x EXCEPT !.index = n, !.left = l]
    <2>2. z = [x EXCEPT !.index = n, !.left = l]
      OBVIOUS
    <2> HIDE DEF z
    <2>3. z = y
      BY <1>4, <2>2
    <2> QED
      BY <2>1, <2>3 DEF z
  <1>7. r = [cur |-> s.cur, bm |-> B, list |-> L, key |-> K, slot |-> Z]
    <2>1. r = [s EXCEPT !.slot[t] = [x EXCEPT !.index = n, !.left = x.left - (time - l)],
                        !.list[w] = @ \cup {e}, !.key[w] = @ \cup {<<i, l>>},
                        !.bm[w] = Insert(@, i)]
      BY DEF InnerAddTimer
    <2>2. r = [s EXCEPT !.slot[t] = y, !.list[w] = @ \cup {e},
                        !.key[w] = @ \cup {<<i, l>>}, !.bm[w] = Insert(@, i)]
      BY <1>6, <2>1
    <2> HIDE DEF r, i, l, y, e
    <2> QED
      BY <1>3, <2>2
  <1>8. e[1] = i /\ e[2] = l /\ e[3] = t /\ e = <<e[1], e[2], e[3]>>
    OBVIOUS
  <1>9. y.in /\ y.index = n /\ y.left = l
    OBVIOUS
  <1> HIDE DEF i, l, n
  <1>10. y \in Slots
    BY <1>2, <1>4, <1>5 DEF Slots
  <1> HIDE DEF y, e
  <1>11. /\ Z \in [Timers -> Slots] /\ Z[t] = y /\ \A u \in Timers : u # t => Z[u] = s.slot[u]
    BY <1>3, <1>10
  <1>12. /\ L = [v \in Wheels |-> L[v]] /\ K = [v \in Wheels |-> K[v]] /\ B = [v \in Wheels |-> B[v]]
         /\ \A v \in Wheels : /\ L[v] = IF v = w THEN s.list[v] \cup {e} ELSE s.list[v]
                              /\ K[v] = IF v = w THEN s.key[v] \cup {<<i, l>>} ELSE s.key[v]
    BY <1>3
  <1> HIDE DEF r, L, K, B, Z, x
  <1>13. /\ r.cur = s.cur /\ r.bm = B /\ r.list = L /\ r.key = K /\ r.slot = Z
         /\ r = [cur |-> r.cur, bm |-> r.bm, list |-> r.list, key |-> r.key, slot |-> r.slot]
    BY <1>7
  <1>14. Parts(r)
    BY <1>3, <1>11, <1>12, <1>13 DEF Parts
  <1>15. r.slot[t] = y /\ r.slot[t].in /\ r.slot[t].left \in 0 .. Unit - 1
    BY <1>2, <1>9, <1>11, <1>13
  <1>16. Fits(y, w, e)
    BY <1>1, <1>2, <1>8, <1>9 DEF Fits, n
  <1>17. Entered(s, r, t, w, e)
    <2>1. <<e[1], e[2]>> \in r.key[w]
      BY <1>8, <1>12, <1>13
    <2> QED
      BY <1>8, <1>12, <1>13, <1>15, <1>16, <2>1 DEF Entered
  <1>18. \A v \in Wheels : s.key[v] \subseteq r.key[v]
    BY <1>12, <1>13
  <1>19. Refiled(s, r, t)
    BY <1>11, <1>13, <1>14, <1>15, <1>17, <1>18 DEF Refiled
  <1> QED
    BY <1>19 DEF r

(* The sub wheel turns within its size.                                     *)
CurIn(s) == s.cur["sub"] < Unit

(* x is s with the members y of t.                                          *)
Members(s, x, t, y) ==
    /\ Parts(x) /\ x.cur = s.cur /\ x.bm = s.bm /\ x.list = s.list /\ x.key = s.key
    /\ x.slot[t] = y /\ \A u \in Timers : u # t => x.slot[u] = s.slot[u]

(* The members of one timer change.                                         *)
LEMMA SlotPut ==
    ASSUME NEW s, NEW t \in Timers, NEW y \in Slots, NEW x, Parts(s), x = [s EXCEPT !.slot[t] = y]
    PROVE  Members(s, x, t, y)
  <1>1. /\ s = [cur |-> s.cur, bm |-> s.bm, list |-> s.list, key |-> s.key, slot |-> s.slot]
        /\ s.slot \in [Timers -> Slots]
    BY DEF Parts
  <1> DEFINE Z == [s.slot EXCEPT ![t] = y]
  <1>2. /\ Z \in [Timers -> Slots] /\ Z[t] = y /\ \A u \in Timers : u # t => Z[u] = s.slot[u]
    BY <1>1
  <1> HIDE DEF Z
  <1>3. x = [cur |-> s.cur, bm |-> s.bm, list |-> s.list, key |-> s.key, slot |-> Z]
    BY <1>1 DEF Z
  <1>4. /\ x.cur = s.cur /\ x.bm = s.bm /\ x.list = s.list /\ x.key = s.key /\ x.slot = Z
        /\ x = [cur |-> x.cur, bm |-> x.bm, list |-> x.list, key |-> x.key, slot |-> x.slot]
    BY ONLY <1>3
  <1> QED
    BY <1>2, <1>4 DEF Parts, Members

(* Handling a timer also hides a change of its members before.               *)
LEMMA RefiledOver ==
    ASSUME NEW s, NEW x, NEW r, NEW t \in Timers, NEW y, Members(s, x, t, y), Refiled(x, r, t)
    PROVE  Refiled(s, r, t)
  <1>1. /\ x.cur = s.cur /\ x.list = s.list /\ x.key = s.key
        /\ \A u \in Timers : u # t => x.slot[u] = s.slot[u]
    BY DEF Members
  <1>2. /\ Parts(r) /\ r.cur = x.cur /\ \A u \in Timers : u # t => r.slot[u] = x.slot[u]
        /\ r.slot[t].in => r.slot[t].left \in 0 .. Unit - 1
        /\ ~r.slot[t].in => \A v \in Wheels : r.list[v] = x.list[v]
        /\ \A v \in Wheels : x.key[v] \subseteq r.key[v]
    BY DEF Refiled
  <1>3. ASSUME r.slot[t].in PROVE \E w, e : Entered(s, r, t, w, e)
    <2>1. PICK w, e : Entered(x, r, t, w, e)
      BY <1>3 DEF Refiled
    <2>2. Entered(s, r, t, w, e)
      BY <1>1, <2>1 DEF Entered
    <2> QED
      BY <2>2
  <1> QED
    BY <1>1, <1>2, <1>3 DEF Refiled

(* AddTimer lists a timer that was not set, or leaves it.                    *)
LEMMA AddFiles ==
    ASSUME NEW s, NEW t \in Timers, NEW time \in Nat, NEW always \in BOOLEAN,
           Parts(s), CurIn(s), ~s.slot[t].in
    PROVE  Refiled(s, AddTimer(s, t, time, always), t)
  <1>1. CASE time >= Unit * RootSize
    <2>1. AddTimer(s, t, time, always) = s
      BY <1>1 DEF AddTimer
    <2> QED
      BY <2>1 DEF Refiled
  <1>2. CASE ~(time >= Unit * RootSize)
    <2> DEFINE o == s.slot[t]
               y == [o EXCEPT !.total = time, !.left = time, !.in = TRUE, !.always = always]
               x == [s EXCEPT !.slot[t] = y]
               w == IF time < Unit THEN "sub" ELSE "root"
               r == InnerAddTimer(x, w, t, time)
    <2>1. AddTimer(s, t, time, always) = r
      BY <1>2 DEF AddTimer
    <2>2. o \in Slots
      BY DEF Parts
    <2>3. y = [o EXCEPT !.total = time, !.left = time, !.in = TRUE, !.always = always]
      OBVIOUS
    <2>4. x = [s EXCEPT !.slot[t] = y]
      OBVIOUS
    <2> HIDE DEF x, y, o
    <2>5. y \in Slots /\ y.in /\ y.left = time
      <3>1. /\ o = [total |-> o.total, left |-> o.left, always |-> o.always, in |-> o.in,
                    index |-> o.index]
            /\ o.index \in Nat
        BY <2>2 DEF Slots
      <3>2. y = [total |-> time, left |-> time, always |-> always, in |-> TRUE,
                 index |-> o.index]
        BY <2>3, <3>1
      <3>3. y \in Slots
        BY <3>1, <3>2 DEF Slots
      <3> QED
        BY <3>2, <3>3
    <2>6. /\ Parts(x) /\ x.cur = s.cur /\ x.bm = s.bm /\ x.list = s.list /\ x.key = s.key
          /\ x.slot[t] = y /\ \A u \in Timers : u # t => x.slot[u] = s.slot[u]
      <3>1. Members(s, x, t, y)
        BY <2>4, <2>5, SlotPut
      <3> QED
        BY <3>1 DEF Members
    <2> HIDE DEF r
    <2>7. w \in Wheels /\ (w = "sub" => x.cur[w] < Unit /\ time < Unit)
      BY <2>6 DEF Wheels, CurIn
    <2>8. Refiled(x, r, t)
      <3>1. r = InnerAddTimer(x, w, t, time)
        BY DEF r
      <3> HIDE DEF w
      <3> QED
        BY <2>5, <2>6, <2>7, <3>1, InnerAddFiles
    <2>9. Refiled(s, r, t)
      BY <2>4, <2>5, <2>8, SlotPut, RefiledOver
    <2> QED
      BY <2>1, <2>9
  <1> QED
    BY <1>1, <1>2

(* So does a timer that ran.                                                *)
LEMMA AgainFiles ==
    ASSUME NEW s, NEW t \in Timers, Parts(s), CurIn(s)
    PROVE  Refiled(s, Again(s, t), t)
  <1> DEFINE o == s.slot[t]
             y == [o EXCEPT !.in = FALSE]
             z == [y EXCEPT !.always = FALSE]
             x == [s EXCEPT !.slot[t] = y]
             v == [x EXCEPT !.slot[t] = z]
             r == AddTimer(v, t, o.total, ~LeftToRight)
  <1>1. /\ o \in Slots /\ s.slot \in [Timers -> Slots]
        /\ s = [cur |-> s.cur, bm |-> s.bm, list |-> s.list, key |-> s.key, slot |-> s.slot]
    BY DEF Parts
  <1>2. [s EXCEPT !.slot[t].in = FALSE] = x
    OBVIOUS
  <1>3. x.slot[t] = y
    BY <1>1
  <1>4. [x EXCEPT !.slot[t].always = FALSE] = v
    BY <1>3
  <1>5. Again(s, t) = IF ~o.always THEN x ELSE r
    BY <1>2, <1>4 DEF Again
  <1>6. y = [o EXCEPT !.in = FALSE] /\ z = [y EXCEPT !.always = FALSE]
        /\ x = [s EXCEPT !.slot[t] = y] /\ v = [x EXCEPT !.slot[t] = z]
    OBVIOUS
  <1> HIDE DEF o, x, y, z, v
  <1>7. y \in Slots /\ ~y.in /\ z \in Slots /\ ~z.in /\ o.total \in Nat
    BY <1>1, <1>6 DEF Slots
  <1>8. /\ Parts(x) /\ x.cur = s.cur /\ x.bm = s.bm /\ x.list = s.list /\ x.key = s.key
        /\ x.slot[t] = y /\ \A u \in Timers : u # t => x.slot[u] = s.slot[u]
    <2>1. Members(s, x, t, y)
      BY <1>6, <1>7, SlotPut
    <2> QED
      BY <2>1 DEF Members
  <1>9. /\ Parts(v) /\ v.cur = x.cur /\ v.bm = x.bm /\ v.list = x.list /\ v.key = x.key
        /\ v.slot[t] = z /\ \A u \in Timers : u # t => v.slot[u] = x.slot[u]
    <2>1. Members(x, v, t, z)
      BY <1>6, <1>7, <1>8, SlotPut
    <2> QED
      BY <2>1 DEF Members
  <1>10. Refiled(s, x, t)
    BY <1>7, <1>8 DEF Refiled
  <1>11. Refiled(s, r, t)
    <2>1. CurIn(v) /\ ~v.slot[t].in
      BY <1>7, <1>8, <1>9 DEF CurIn
    <2>2. (~LeftToRight) \in BOOLEAN
      OBVIOUS
    <2>3. Refiled(v, r, t)
      BY <1>7, <1>9, <2>1, <2>2, AddFiles
    <2> HIDE DEF r
    <2>4. Refiled(x, r, t)
      BY <1>6, <1>7, <1>8, <2>3, SlotPut, RefiledOver
    <2> QED
      BY <1>6, <1>7, <2>4, SlotPut, RefiledOver
  <1> HIDE DEF r
  <1> QED
    BY <1>5, <1>10, <1>11

-----------------------------------------------------------------------------
(* TimerRun takes timers off the lists and handles them.                    *)

(* The wheels and the two lists that TimerRun of w collects.                *)
Caught(c, w, O) ==
    /\ c = [s |-> c.s, run |-> c.run, sub |-> c.sub]
    /\ Filed(c.s, c.run \cup c.sub, O)
    /\ c.run \cap c.sub = {} /\ (w = "sub" => c.sub = {})

(* GetIndexTimer moves the timers of a bucket to the lists.                  *)
LEMMA GrabKeeps ==
    ASSUME NEW c, NEW w \in Wheels, NEW O, NEW i, NEW pass \in Nat, Caught(c, w, O)
    PROVE  /\ Caught(GetIndexTimer(c, w, i, pass), w, O)
           /\ GetIndexTimer(c, w, i, pass).s.cur = c.s.cur
  <1> DEFINE s == c.s
             H == c.run \cup c.sub
             taken == {e \in s.list[w] : e[1] = i}
             runs == {e \in taken : e[2] <= pass}
             B == [s.bm EXCEPT ![w] = Remove(@, s.cur[w])]
             L == [s.list EXCEPT ![w] = @ \ taken]
             K == [s.key EXCEPT ![w] = {k \in @ : k[1] # i}]
             x == [s EXCEPT !.bm[w] = Remove(@, s.cur[w]), !.list[w] = @ \ taken,
                            !.key[w] = {k \in @ : k[1] # i}]
             R == c.run \cup {e[3] : e \in runs}
             U == c.sub \cup {e[3] : e \in taken \ runs}
             g == GetIndexTimer(c, w, i, pass)
  <1>1. CASE ~\E k \in s.key[w] : k[1] = i
    <2>1. g = c
      BY <1>1 DEF GetIndexTimer
    <2> QED
      BY <2>1
  <1>2. CASE \E k \in s.key[w] : k[1] = i
    <2>1. g = [s |-> x, run |-> R, sub |-> U]
      BY <1>2 DEF GetIndexTimer
    <2>2. /\ Filed(s, H, O) /\ c.run \cap c.sub = {} /\ (w = "sub" => c.sub = {})
      BY DEF Caught
    <2>3. /\ s = [cur |-> s.cur, bm |-> s.bm, list |-> s.list, key |-> s.key, slot |-> s.slot]
          /\ s.cur \in [Wheels -> Nat] /\ s.bm = [v \in Wheels |-> s.bm[v]]
          /\ s.list = [v \in Wheels |-> s.list[v]] /\ s.key = [v \in Wheels |-> s.key[v]]
          /\ s.slot \in [Timers -> Slots]
      BY <2>2 DEF Filed, Parts
    <2>4. /\ \A t \in Timers : s.slot[t].in => t \in O /\ s.slot[t].left \in 0 .. Unit - 1
          /\ \A t \in H : t \in Timers /\ s.slot[t].in
          /\ \A u, v \in Wheels : \A e \in s.list[u], f \in s.list[v] : e[3] = f[3] => u = v /\ e = f
      BY <2>2 DEF Filed
    <2>5. \A t \in Timers : s.slot[t].in /\ t \notin H => \E v \in Wheels : \E e \in s.list[v] : e[3] = t
      BY <2>2 DEF Filed
    <2>6. \A v \in Wheels : \A e \in s.list[v] :
            /\ e[3] \in Timers /\ e[3] \notin H /\ s.slot[e[3]].in
            /\ Fits(s.slot[e[3]], v, e) /\ <<e[1], e[2]>> \in s.key[v]
      BY <2>2 DEF Filed
    <2>7. x = [cur |-> s.cur, bm |-> B, list |-> L, key |-> K, slot |-> s.slot]
      <3>1. x = [s EXCEPT !.bm[w] = Remove(@, s.cur[w]), !.list[w] = @ \ taken,
                          !.key[w] = {k \in @ : k[1] # i}]
        OBVIOUS
      <3> HIDE DEF x, s, taken
      <3> QED
        BY <2>3, <3>1
    <2>8. /\ L = [v \in Wheels |-> L[v]] /\ K = [v \in Wheels |-> K[v]] /\ B = [v \in Wheels |-> B[v]]
          /\ \A v \in Wheels : /\ L[v] = IF v = w THEN s.list[v] \ taken ELSE s.list[v]
                               /\ K[v] = IF v = w THEN {k \in s.key[v] : k[1] # i} ELSE s.key[v]
      <3> HIDE DEF s, taken
      <3> QED
        BY <2>3
    <2>9. \A e \in taken : e \in s.list[w] /\ e[1] = i
      OBVIOUS
    <2>10. \A e \in s.list[w] : e[1] = i => e \in taken
      OBVIOUS
    <2>11. runs \subseteq taken /\ \A e \in taken \ runs : ~(e[2] <= pass)
      OBVIOUS
    <2> HIDE DEF s, x, L, K, B, taken, runs
    <2>12. /\ x.cur = s.cur /\ x.bm = B /\ x.list = L /\ x.key = K /\ x.slot = s.slot
           /\ x = [cur |-> x.cur, bm |-> x.bm, list |-> x.list, key |-> x.key, slot |-> x.slot]
      BY <2>7
    <2>13. Parts(x)
      BY <2>3, <2>8, <2>12 DEF Parts
    <2> DEFINE G == {e[3] : e \in taken}
    <2>14. R \cup U = H \cup G
      BY <2>11
    <2>15. \A t \in G : t \in Timers /\ t \notin H /\ s.slot[t].in /\ \E e \in taken : e[3] = t
      BY <2>6, <2>9
    <2>16. \A e \in taken : e[3] \in G
      OBVIOUS
    <2> HIDE DEF G, H
    <2>17. Filed(x, H \cup G, O)
      <3>1. \A t \in H \cup G : t \in Timers /\ x.slot[t].in
        BY <2>4, <2>12, <2>15
      <3>2. ASSUME NEW t \in Timers, s.slot[t].in, t \notin H \cup G
            PROVE  \E v \in Wheels : \E e \in x.list[v] : e[3] = t
        <4>1. PICK v \in Wheels : \E e \in s.list[v] : e[3] = t
          BY <2>5, <3>2
        <4>2. PICK e \in s.list[v] : e[3] = t
          BY <4>1
        <4>3. e \notin taken
          BY <2>16, <3>2, <4>2
        <4> QED
          BY <2>8, <2>12, <4>2, <4>3
      <3>3. \A v \in Wheels : \A e \in x.list[v] : e \in s.list[v] /\ (v = w => e \notin taken)
        BY <2>8, <2>12
      <3>4. ASSUME NEW v \in Wheels, NEW e \in x.list[v]
            PROVE  /\ e[3] \in Timers /\ e[3] \notin H \cup G /\ x.slot[e[3]].in
                   /\ Fits(x.slot[e[3]], v, e) /\ <<e[1], e[2]>> \in x.key[v]
        <4>1. e \in s.list[v] /\ (v = w => e \notin taken)
          BY <3>3
        <4>2. /\ e[3] \in Timers /\ e[3] \notin H /\ s.slot[e[3]].in
              /\ Fits(s.slot[e[3]], v, e) /\ <<e[1], e[2]>> \in s.key[v]
          BY <2>6, <4>1
        <4>3. e[3] \notin G
          <5> SUFFICES ASSUME e[3] \in G PROVE FALSE
            OBVIOUS
          <5>1. PICK f \in taken : f[3] = e[3]
            BY <2>15
          <5>2. f \in s.list[w]
            BY <2>9
          <5>3. v = w /\ e = f
            BY <2>4, <4>1, <5>1, <5>2
          <5> QED
            BY <4>1, <5>3
        <4> DEFINE k == <<e[1], e[2]>>
        <4>4. k[1] = e[1]
          OBVIOUS
        <4>5. v = w => e[1] # i
          BY <2>10, <4>1
        <4> HIDE DEF k
        <4>6. k \in x.key[v]
          <5>1. k \in s.key[v]
            BY <4>2 DEF k
          <5> QED
            BY <2>8, <2>12, <4>4, <4>5, <5>1
        <4> QED
          BY <2>12, <4>2, <4>3, <4>6 DEF k
      <3>5. \A u, v \in Wheels : \A e \in x.list[u], f \in x.list[v] : e[3] = f[3] => u = v /\ e = f
        BY <2>4, <3>3
      <3> QED
        BY <2>4, <2>12, <2>13, <3>1, <3>2, <3>4, <3>5 DEF Filed
    <2>18. R \cap U = {}
      <3>1. \A t \in G : t \notin c.run /\ t \notin c.sub
        BY <2>15 DEF H
      <3>2. \A e, f \in taken : e[3] = f[3] => e = f
        BY <2>4, <2>9
      <3> QED
        BY <2>2, <2>11, <2>16, <3>1, <3>2
    <2>19. w = "sub" => U = {}
      <3> SUFFICES ASSUME w = "sub" PROVE U = {}
        OBVIOUS
      <3>1. \A e \in taken : e[2] = 0
        BY <2>6, <2>9 DEF Fits
      <3>2. taken \ runs = {}
        BY <2>11, <3>1
      <3> QED
        BY <2>2, <3>2
    <2> HIDE DEF R, U, g
    <2>20. g.s = x /\ g.run = R /\ g.sub = U /\ g = [s |-> g.s, run |-> g.run, sub |-> g.sub]
      BY <2>1
    <2>21. Caught(g, w, O) /\ g.s.cur = c.s.cur
      <3>1. Filed(g.s, g.run \cup g.sub, O)
        BY <2>14, <2>17, <2>20
      <3>2. g.s.cur = c.s.cur
        BY <2>12, <2>20 DEF s
      <3> QED
        BY <2>18, <2>19, <2>20, <3>1, <3>2 DEF Caught
    <2> QED
      BY <2>21 DEF g
  <1> QED
    BY <1>1, <1>2

(* A round of the loop in TimerRun.                                         *)
Round(l, w, end, pass) ==
    LET next == GetMinAfter(l.c.s.bm[w], l.prev)
    IN  IF next < 0 \/ next > end THEN l
        ELSE [c |-> GetIndexTimer(l.c, w, next, pass), prev |-> next + 1]

(* f has what the loop holds after 0, 1, ... m rounds.                      *)
IsLoop(f, c, w, prev, end, pass, m) ==
    f = [k \in 0 .. m |-> IF k = 0 THEN [c |-> c, prev |-> prev] ELSE Round(f[k - 1], w, end, pass)]

(* It exists.                                                               *)
LEMMA LoopExists ==
    ASSUME NEW c, NEW w, NEW prev, NEW end, NEW pass, NEW i \in Nat
    PROVE  \E f : IsLoop(f, c, w, prev, end, pass, i)
  <1> DEFINE T == {m \in Nat : ~\E f : IsLoop(f, c, w, prev, end, pass, m)}
             More(l) == Round(l, w, end, pass)
             l0 == [c |-> c, prev |-> prev]
  <1> HIDE DEF More, l0
  <1>1. ASSUME NEW f, NEW m
        PROVE  IsLoop(f, c, w, prev, end, pass, m)
                 <=> f = [k \in 0 .. m |-> IF k = 0 THEN l0 ELSE More(f[k - 1])]
    BY DEF IsLoop, More, l0
  <1>2. ASSUME T # {} PROVE FALSE
    <2>1. PICK m \in T : \A y \in T : m <= y
      <3>1. T \subseteq Nat
        OBVIOUS
      <3> QED
        BY <1>2, <3>1, MinOf
    <2>2. CASE m = 0
      <3> DEFINE f == [k \in 0 .. 0 |-> l0]
      <3>1. f = [k \in 0 .. 0 |-> IF k = 0 THEN l0 ELSE More(f[k - 1])]
        OBVIOUS
      <3> QED
        BY <2>1, <2>2, <3>1, <1>1
    <2>3. CASE m # 0
      <3>1. m \in Nat /\ m - 1 \in Nat /\ m - 1 \notin T
        BY <2>1, <2>3
      <3>2. PICK g : g = [k \in 0 .. m - 1 |-> IF k = 0 THEN l0 ELSE More(g[k - 1])]
        BY <3>1, <1>1
      <3> DEFINE f == [k \in 0 .. m |-> IF k = m THEN More(g[m - 1]) ELSE g[k]]
      <3>3. ASSUME NEW k \in 0 .. m
            PROVE  f[k] = IF k = 0 THEN l0 ELSE More(f[k - 1])
        <4>1. CASE k = m
          <5>1. f[k] = More(g[m - 1]) /\ f[k - 1] = g[m - 1]
            BY <3>1, <4>1
          <5> QED
            BY <5>1, <4>1, <2>3
        <4>2. CASE k # m
          <5>1. k \in 0 .. m - 1 /\ f[k] = g[k]
            BY <3>1, <4>2
          <5>2. g[k] = IF k = 0 THEN l0 ELSE More(g[k - 1])
            BY <3>2, <5>1
          <5>3. k # 0 => f[k - 1] = g[k - 1]
            BY <3>1, <5>1
          <5> QED
            BY <5>1, <5>2, <5>3
        <4> QED
          BY <4>1, <4>2
      <3>4. f = [k \in 0 .. m |-> f[k]]
        OBVIOUS
      <3> HIDE DEF f
      <3>5. f = [k \in 0 .. m |-> IF k = 0 THEN l0 ELSE More(f[k - 1])]
        BY <3>3, <3>4
      <3> QED
        BY <3>5, <2>1, <1>1
    <2> QED
      BY <2>2, <2>3
  <1> QED
    BY <1>2

(* r is c with more timers on the lists.                                    *)
Fuller(c, r, w, O) == Caught(r, w, O) /\ r.s.cur = c.s.cur

(* The loop of TimerRun only moves timers to the lists.                     *)
LEMMA CollectKeeps ==
    ASSUME NEW c, NEW w \in Wheels, NEW O, NEW prev, NEW pass \in Nat, Caught(c, w, O)
    PROVE  Fuller(c, Collect(c, w, prev, pass), w, O)
  <1> DEFINE end == c.s.cur[w]
             f == CHOOSE g : IsLoop(g, c, w, prev, end, pass, end + 1)
             Fine(l) == Caught(l.c, w, O) /\ l.c.s.cur = c.s.cur
             T == {k \in 0 .. end + 1 : ~Fine(f[k])}
  <1>1. end \in Nat
    BY DEF Caught, Filed, Parts
  <1>2. IsLoop(f, c, w, prev, end, pass, end + 1)
    <2>1. end + 1 \in Nat
      BY <1>1
    <2> QED
      BY <2>1, LoopExists
  <1>3. Collect(c, w, prev, pass) = f[end + 1].c
    BY DEF Collect, IsLoop, Round
  <1> HIDE DEF f, end
  <1>4. \A k \in 0 .. end + 1 : f[k] = IF k = 0 THEN [c |-> c, prev |-> prev]
                                       ELSE Round(f[k - 1], w, end, pass)
    BY <1>2 DEF IsLoop
  <1>5. ASSUME NEW l, Fine(l) PROVE Fine(Round(l, w, end, pass))
    <2> DEFINE next == GetMinAfter(l.c.s.bm[w], l.prev)
               g == GetIndexTimer(l.c, w, next, pass)
    <2>1. CASE next < 0 \/ next > end
      <3>1. Round(l, w, end, pass) = l
        BY <2>1 DEF Round
      <3> QED
        BY <1>5, <3>1
    <2>2. CASE ~(next < 0 \/ next > end)
      <3>1. Round(l, w, end, pass) = [c |-> g, prev |-> next + 1]
        BY <2>2 DEF Round
      <3> HIDE DEF next
      <3>2. Caught(g, w, O) /\ g.s.cur = l.c.s.cur
        <4>1. Caught(l.c, w, O)
          BY <1>5
        <4> HIDE DEF Fine
        <4> QED
          BY <4>1, GrabKeeps
      <3> HIDE DEF g
      <3>3. Round(l, w, end, pass).c = g
        BY <3>1
      <3> QED
        BY <1>5, <3>2, <3>3
    <2> QED
      BY <2>1, <2>2
  <1> HIDE DEF Fine
  <1>6. ASSUME T # {} PROVE FALSE
    <2>1. T \subseteq Nat
      BY <1>1
    <2>2. PICK k \in T : \A y \in T : k <= y
      BY <1>6, <2>1, MinOf
    <2>3. k \in 0 .. end + 1 /\ ~Fine(f[k])
      BY <2>2
    <2>4. CASE k = 0
      <3>1. f[k] = [c |-> c, prev |-> prev]
        BY <1>4, <2>3, <2>4
      <3>2. f[k].c = c
        BY <3>1
      <3> QED
        BY <2>3, <3>2 DEF Fine
    <2>5. CASE k # 0
      <3>1. k - 1 \in 0 .. end + 1 /\ k - 1 < k
        BY <1>1, <2>3, <2>5
      <3>2. Fine(f[k - 1])
        BY <2>2, <3>1
      <3>3. f[k] = Round(f[k - 1], w, end, pass)
        BY <1>4, <2>3, <2>5
      <3> QED
        BY <1>5, <2>3, <3>2, <3>3
    <2> QED
      BY <2>4, <2>5
  <1>7. Fine(f[end + 1])
    BY <1>1, <1>6
  <1> QED
    BY <1>3, <1>7 DEF Fine, Fuller

-----------------------------------------------------------------------------
(* DoTimer.                                                                 *)

(* The last of the timers S to be handled, and what handling t does.        *)
LastOf(S, subs) == CHOOSE t \in S : t \in subs \/ S \cap subs = {}
Handle(s, t, subs) ==
    IF t \in subs THEN InnerAddTimer(s, "sub", t, s.slot[t].left) ELSE Again(s, t)

(* f has the wheels after each set of up to m of the timers T was handled.   *)
IsAfter(f, s, T, subs, m) ==
    f = [S \in {X \in SUBSET T : Cardinality(X) <= m} |->
           IF S = {} THEN s ELSE Handle(f[S \ {LastOf(S, subs)}], LastOf(S, subs), subs)]

(* The last one is one of them.                                             *)
LEMMA LastIn ==
    ASSUME NEW S, NEW subs, S # {}
    PROVE  LastOf(S, subs) \in S
  <1>1. \E t \in S : t \in subs \/ S \cap subs = {}
    OBVIOUS
  <1> QED
    BY <1>1 DEF LastOf

(* Without the last, the set is smaller.                                    *)
LEMMA WithoutLast ==
    ASSUME NEW T, IsFiniteSet(T), NEW S \in SUBSET T, NEW subs, S # {}
    PROVE  /\ S \ {LastOf(S, subs)} \in SUBSET T
           /\ Cardinality(S) \in Nat /\ Cardinality(S) > 0
           /\ Cardinality(S \ {LastOf(S, subs)}) = Cardinality(S) - 1
  <1>1. IsFiniteSet(S)
    BY FS_Subset
  <1>2. LastOf(S, subs) \in S
    BY LastIn
  <1>3. Cardinality(S) \in Nat
    BY <1>1, FS_CardinalityType
  <1>4. Cardinality(S \ {LastOf(S, subs)}) = Cardinality(S) - 1
    BY <1>1, <1>2, FS_RemoveElement
  <1>5. Cardinality(S) # 0
    BY <1>1, FS_EmptySet
  <1> QED
    BY <1>3, <1>4, <1>5

(* It exists.                                                               *)
LEMMA AfterExists ==
    ASSUME NEW s, NEW T, IsFiniteSet(T), NEW subs, NEW i \in Nat
    PROVE  \E f : IsAfter(f, s, T, subs, i)
  <1> DEFINE Upto(m) == {X \in SUBSET T : Cardinality(X) <= m}
             N == {m \in Nat : ~\E f : IsAfter(f, s, T, subs, m)}
             Rest(S) == S \ {LastOf(S, subs)}
             Step(x, S) == Handle(x, LastOf(S, subs), subs)
  <1>1. ASSUME NEW S \in SUBSET T, S # {}
        PROVE  /\ Rest(S) \in SUBSET T /\ Cardinality(S) \in Nat /\ Cardinality(S) > 0
               /\ Cardinality(Rest(S)) = Cardinality(S) - 1
    BY <1>1, WithoutLast
  <1>2. ASSUME NEW f, NEW m
        PROVE  IsAfter(f, s, T, subs, m)
                 <=> f = [S \in Upto(m) |-> IF S = {} THEN s ELSE Step(f[Rest(S)], S)]
    BY DEF IsAfter
  <1>3. ASSUME NEW m \in Nat, NEW S \in SUBSET T
        PROVE  S \in Upto(m) <=> Cardinality(S) <= m
    OBVIOUS
  <1>4. \A m : \A S \in Upto(m) : S \in SUBSET T
    OBVIOUS
  <1> HIDE DEF Upto, Rest, Step
  <1>5. ASSUME N # {} PROVE FALSE
    <2>1. PICK m \in N : \A y \in N : m <= y
      <3>1. N \subseteq Nat
        OBVIOUS
      <3> QED
        BY <1>5, <3>1, MinOf
    <2>2. CASE m = 0
      <3> DEFINE f == [S \in Upto(0) |-> s]
      <3>1. ASSUME NEW S \in Upto(0) PROVE S = {}
        <4>1. S \in SUBSET T /\ Cardinality(S) <= 0
          BY <1>3, <1>4
        <4> QED
          BY <1>1, <4>1
      <3>2. f = [S \in Upto(0) |-> IF S = {} THEN s ELSE Step(f[Rest(S)], S)]
        BY <3>1
      <3> HIDE DEF f
      <3> QED
        BY <2>1, <2>2, <3>2, <1>2
    <2>3. CASE m # 0
      <3>1. m \in Nat /\ m - 1 \in Nat /\ m - 1 \notin N
        BY <2>1, <2>3
      <3>2. PICK g : g = [S \in Upto(m - 1) |-> IF S = {} THEN s ELSE Step(g[Rest(S)], S)]
        BY <3>1, <1>2
      <3> DEFINE f == [S \in Upto(m) |-> IF Cardinality(S) = m THEN Step(g[Rest(S)], S) ELSE g[S]]
      <3>3. ASSUME NEW S \in Upto(m)
            PROVE  f[S] = IF S = {} THEN s ELSE Step(f[Rest(S)], S)
        <4>1. S \in SUBSET T /\ Cardinality(S) <= m
          BY <1>3, <1>4, <3>1
        <4>2. ASSUME S # {}
              PROVE  /\ Rest(S) \in Upto(m) /\ Rest(S) \in Upto(m - 1)
                     /\ f[Rest(S)] = g[Rest(S)]
          <5>1. /\ Rest(S) \in SUBSET T /\ Cardinality(S) \in Nat
                /\ Cardinality(Rest(S)) = Cardinality(S) - 1
            BY <1>1, <4>1, <4>2
          <5>2. Rest(S) \in Upto(m) /\ Rest(S) \in Upto(m - 1)
            BY <1>3, <3>1, <4>1, <5>1
          <5>3. Cardinality(Rest(S)) # m
            BY <3>1, <4>1, <5>1
          <5> QED
            BY <5>2, <5>3
        <4>3. CASE Cardinality(S) = m
          <5>1. S # {}
            <6>1. Cardinality({}) = 0
              BY FS_EmptySet
            <6> QED
              BY <4>3, <2>3, <6>1
          <5>2. f[S] = Step(g[Rest(S)], S)
            BY <4>3
          <5> QED
            BY <4>2, <5>1, <5>2
        <4>4. CASE Cardinality(S) # m
          <5>1. S \in Upto(m - 1)
            <6>1. Cardinality(S) \in Nat
              BY <4>1, FS_Subset, FS_CardinalityType
            <6> QED
              BY <1>3, <3>1, <4>1, <4>4, <6>1
          <5>2. f[S] = g[S]
            BY <4>4
          <5>3. g[S] = IF S = {} THEN s ELSE Step(g[Rest(S)], S)
            BY <3>2, <5>1
          <5> QED
            BY <4>2, <5>2, <5>3
        <4> QED
          BY <4>3, <4>4
      <3>4. f = [S \in Upto(m) |-> f[S]]
        OBVIOUS
      <3> HIDE DEF f
      <3>5. f = [S \in Upto(m) |-> IF S = {} THEN s ELSE Step(f[Rest(S)], S)]
        BY <3>3, <3>4
      <3> QED
        BY <3>5, <2>1, <1>2
    <2> QED
      BY <2>2, <2>3
  <1> QED
    BY <1>5

(* r is s after some timers were handled, all but those of H.               *)
Handled(s, r, H, O) == Filed(r, H, O) /\ r.cur = s.cur

(* One more is handled.                                                     *)
LEMMA HandleKeeps ==
    ASSUME NEW s, NEW H, NEW O, NEW t \in H, NEW subs, Filed(s, H, O), CurIn(s)
    PROVE  Handled(s, Handle(s, t, subs), H \ {t}, O)
  <1> DEFINE r == Handle(s, t, subs)
             left == s.slot[t].left
  <1>1. Parts(s) /\ t \in Timers /\ s.slot[t].in /\ left \in 0 .. Unit - 1 /\ t \in O
    BY DEF Filed
  <1>2. Refiled(s, r, t)
    <2>1. CASE t \in subs
      <3>1. left \in Nat /\ left < Unit
        BY <1>1, UnitAssumption
      <3>2. "sub" \in Wheels /\ s.cur["sub"] < Unit
        BY DEF CurIn, Wheels
      <3>3. r = InnerAddTimer(s, "sub", t, left)
        BY <2>1 DEF Handle
      <3>4. left = s.slot[t].left
        OBVIOUS
      <3> HIDE DEF r, left
      <3>5. Refiled(s, InnerAddTimer(s, "sub", t, left), t)
        BY <1>1, <3>1, <3>2, <3>4, InnerAddFiles
      <3> QED
        BY <3>3, <3>5
    <2>2. CASE t \notin subs
      <3>1. r = Again(s, t)
        BY <2>2 DEF Handle
      <3> HIDE DEF r
      <3> QED
        BY <1>1, <3>1, AgainFiles
    <2> QED
      BY <2>1, <2>2
  <1> HIDE DEF r
  <1>3. Filed(r, H \ {t}, O)
    BY <1>1, <1>2, RefiledKeeps
  <1>4. Handled(s, r, H \ {t}, O)
    BY <1>2, <1>3 DEF Handled, Refiled
  <1> QED
    BY <1>4 DEF r

(* DoTimer handles all timers that were collected.                          *)
LEMMA DoTimerKeeps ==
    ASSUME NEW c, NEW w \in Wheels, NEW O, Caught(c, w, O), CurIn(c.s)
    PROVE  Handled(c.s, DoTimer(c, w), {}, O)
  <1> DEFINE subs == IF w = "sub" THEN {} ELSE c.sub
             H == c.run \cup subs
             m == Cardinality(H)
             f == CHOOSE g : IsAfter(g, c.s, H, subs, m)
             N == {n \in Nat : \E S \in SUBSET H : Cardinality(S) = n /\ ~Handled(c.s, f[S], H \ S, O)}
  <1>1. H = c.run \cup c.sub /\ Filed(c.s, H, O)
    BY DEF Caught
  <1>2. H \subseteq Timers
    BY <1>1 DEF Filed
  <1>3. IsFiniteSet(H)
    BY <1>2, TimersAssumption, FS_Subset
  <1>4. m \in Nat
    BY <1>3, FS_CardinalityType
  <1>5. {X \in SUBSET H : Cardinality(X) <= m} = SUBSET H
    <2>1. \A X \in SUBSET H : Cardinality(X) <= m
      BY <1>3, FS_Subset
    <2> QED
      BY <2>1
  <1>6. DoTimer(c, w) = f[H]
    <2>1. f = CHOOSE g : g = [S \in SUBSET H |->
                 IF S = {} THEN c.s ELSE Handle(g[S \ {LastOf(S, subs)}], LastOf(S, subs), subs)]
      BY <1>5 DEF IsAfter
    <2> QED
      BY <2>1 DEF DoTimer, Handle, LastOf
  <1>7. \A S \in SUBSET H :
          f[S] = IF S = {} THEN c.s ELSE Handle(f[S \ {LastOf(S, subs)}], LastOf(S, subs), subs)
    <2>1. IsAfter(f, c.s, H, subs, m)
      BY <1>3, <1>4, AfterExists
    <2> HIDE DEF f, m, H, subs
    <2> QED
      BY <1>5, <2>1 DEF IsAfter
  <1> HIDE DEF f, m, H, subs
  <1>8. ASSUME N # {} PROVE FALSE
    <2>1. PICK n \in N : \A y \in N : n <= y
      <3>1. N \subseteq Nat
        OBVIOUS
      <3> QED
        BY <1>8, <3>1, MinOf
    <2>2. PICK S \in SUBSET H : Cardinality(S) = n /\ ~Handled(c.s, f[S], H \ S, O)
      BY <2>1
    <2>3. CASE S = {}
      <3>1. f[S] = c.s /\ H \ S = H
        BY <1>7, <2>3
      <3> QED
        BY <1>1, <2>2, <3>1 DEF Handled
    <2>4. CASE S # {}
      <3> DEFINE t == LastOf(S, subs)
                 r == f[S \ {t}]
                 G == H \ (S \ {t})
      <3>1. t \in S
        BY <2>4, LastIn
      <3>2. S \ {t} \in SUBSET H /\ Cardinality(S) \in Nat /\ Cardinality(S) > 0
            /\ Cardinality(S \ {t}) = Cardinality(S) - 1
        BY <1>3, <2>4, WithoutLast
      <3>3. f[S] = Handle(r, t, subs)
        BY <1>7, <2>4
      <3> HIDE DEF t
      <3>4. Handled(c.s, r, G, O)
        <4>1. n - 1 \notin N /\ n - 1 \in Nat
          <5>1. n \in Nat /\ n > 0
            BY <2>2, <3>2
          <5> HIDE DEF N
          <5> QED
            BY <2>1, <5>1
        <4> QED
          BY <2>2, <3>2, <4>1
      <3>5. t \in G /\ G \ {t} = H \ S
        BY <3>1
      <3> HIDE DEF r, G
      <3>6. CurIn(r) /\ Filed(r, G, O) /\ r.cur = c.s.cur
        BY <3>4 DEF Handled, CurIn
      <3>7. Handled(r, Handle(r, t, subs), G \ {t}, O)
        BY <3>5, <3>6, HandleKeeps
      <3>8. Handled(c.s, f[S], H \ S, O)
        BY <3>3, <3>5, <3>6, <3>7 DEF Handled
      <3> QED
        BY <2>2, <3>8
    <2> QED
      BY <2>3, <2>4
  <1>9. Handled(c.s, f[H], H \ H, O)
    <2>1. m \notin N /\ H \in SUBSET H
      BY <1>8
    <2> QED
      BY <1>4, <2>1 DEF m
  <1> QED
    BY <1>6, <1>9

-----------------------------------------------------------------------------
(* TimerRun.                                                                *)

(* x is s with _cur_time n on wheel w.                                      *)
Turned(s, x, w, n) ==
    /\ x.cur[w] = n /\ (\A v \in Wheels : v # w => x.cur[v] = s.cur[v])
    /\ \A H, O : Filed(s, H, O) => Filed(x, H, O)

(* The invariant does not depend on the time.                               *)
LEMMA CurPut ==
    ASSUME NEW s, NEW x, NEW w \in Wheels, NEW n \in Nat, Parts(s), x = [s EXCEPT !.cur[w] = n]
    PROVE  Turned(s, x, w, n)
  <1>1. /\ s = [cur |-> s.cur, bm |-> s.bm, list |-> s.list, key |-> s.key, slot |-> s.slot]
        /\ s.cur \in [Wheels -> Nat]
    BY DEF Parts
  <1> DEFINE C == [s.cur EXCEPT ![w] = n]
  <1>2. C \in [Wheels -> Nat] /\ C[w] = n /\ \A v \in Wheels : v # w => C[v] = s.cur[v]
    BY <1>1
  <1> HIDE DEF C
  <1>3. x = [cur |-> C, bm |-> s.bm, list |-> s.list, key |-> s.key, slot |-> s.slot]
    BY <1>1 DEF C
  <1>4. /\ x.cur = C /\ x.bm = s.bm /\ x.list = s.list /\ x.key = s.key /\ x.slot = s.slot
        /\ x = [cur |-> x.cur, bm |-> x.bm, list |-> x.list, key |-> x.key, slot |-> x.slot]
    BY ONLY <1>3
  <1>5. Parts(x)
    BY <1>2, <1>4 DEF Parts
  <1>6. ASSUME NEW H, NEW O, Filed(s, H, O) PROVE Filed(x, H, O)
    BY <1>4, <1>5, <1>6 DEF Filed
  <1> QED
    BY <1>2, <1>4, <1>6 DEF Turned

(* What TimerRun returns: no timer is in hand, and those called back were     *)
(* set.                                                                     *)
Ran(q, O) == Filed(q.s, {}, O) /\ CurIn(q.s) /\ q.run \subseteq O

(* TimerRun of a wheel by any number of steps, of the sub wheel by less than  *)
(* a whole turn.                                                            *)
LEMMA RunWheelKeeps ==
    ASSUME NEW s, NEW w \in Wheels, NEW steps \in Nat, NEW left \in Nat, NEW O, Filed(s, {}, O),
           w = "sub" => steps < Unit, CurIn(s)
    PROVE  Ran(RunWheel(s, w, steps, left), O)
  <1> DEFINE prev == s.cur[w]
             x == [s EXCEPT !.cur[w] = s.cur[w] + steps]
             c == [s |-> x, run |-> {}, sub |-> {}]
             p == Collect(c, w, prev, left)
             y == Wrap(p.s, w)
             d == [p EXCEPT !.s = Wrap(@, w)]
             a == IF Carry(p.s, w) THEN Collect(d, w, 0, left) ELSE d
             q == RunWheel(s, w, steps, left)
  <1>1. q.s = DoTimer(a, w) /\ q.run = a.run
    BY DEF RunWheel
  <1>2. Parts(s) /\ s.cur \in [Wheels -> Nat] /\ SizeOf(w) \in Nat \ {0}
    BY UnitAssumption DEF Filed, Parts, SizeOf
  <1>3. Turned(s, x, w, s.cur[w] + steps)
    <2>1. s.cur[w] + steps \in Nat /\ x = [s EXCEPT !.cur[w] = s.cur[w] + steps]
      BY <1>2
    <2> HIDE DEF x
    <2> QED
      BY <1>2, <2>1, CurPut
  <1> HIDE DEF x, q
  <1>4. Caught(c, w, O)
    <2>1. Filed(x, {}, O) /\ {} \cup {} = {}
      BY <1>3 DEF Turned
    <2>2. c.s = x /\ c.run = {} /\ c.sub = {} /\ c = [s |-> c.s, run |-> c.run, sub |-> c.sub]
      OBVIOUS
    <2> HIDE DEF c
    <2> QED
      BY <2>1, <2>2 DEF Caught
  <1>5. c.s = x
    OBVIOUS
  <1> HIDE DEF c
  <1>6. Caught(p, w, O) /\ p.s.cur = x.cur
    <2>1. Fuller(c, p, w, O)
      BY <1>4, CollectKeeps
    <2> HIDE DEF p
    <2> QED
      BY <1>5, <2>1 DEF Fuller
  <1> HIDE DEF p
  <1>7. Parts(p.s) /\ p.s.cur[w] \in Nat /\ p.s.cur[w] = s.cur[w] + steps
    BY <1>2, <1>3, <1>6 DEF Caught, Filed, Turned
  <1>8. Filed(y, p.run \cup p.sub, O) /\ CurIn(y)
    <2>1. /\ "sub" \in Wheels /\ s.cur["sub"] < Unit /\ s.cur["sub"] \in Nat /\ Unit \in Nat
          /\ w # "sub" => p.s.cur["sub"] = s.cur["sub"]
          /\ w = "sub" => SizeOf(w) = Unit
      BY <1>2, <1>3, <1>6, UnitAssumption DEF Turned, CurIn, Wheels, SizeOf
    <2>2. CASE Carry(p.s, w)
      <3> DEFINE n == p.s.cur[w] - SizeOf(w)
      <3>1. n \in Nat /\ (w = "sub" => n < Unit)
        BY <1>2, <1>7, <2>1, <2>2 DEF Carry
      <3>2. y = [p.s EXCEPT !.cur[w] = n]
        BY <2>2 DEF Wrap
      <3> HIDE DEF n, y
      <3>3. Turned(p.s, y, w, n)
        BY <1>7, <3>1, <3>2, CurPut
      <3>4. Filed(y, p.run \cup p.sub, O)
        BY <1>6, <3>3 DEF Turned, Caught
      <3>5. y.cur[w] = n /\ \A v \in Wheels : v # w => y.cur[v] = p.s.cur[v]
        BY <3>3 DEF Turned
      <3> QED
        BY <2>1, <3>1, <3>4, <3>5 DEF CurIn
    <2>3. CASE ~Carry(p.s, w)
      <3>1. y = p.s
        BY <2>3 DEF Wrap
      <3>2. w = "sub" => p.s.cur[w] < Unit
        BY <1>2, <1>7, <2>1, <2>3 DEF Carry
      <3> HIDE DEF y
      <3> QED
        BY <1>6, <2>1, <3>1, <3>2 DEF CurIn, Caught
    <2> QED
      BY <2>2, <2>3
  <1>9. Caught(d, w, O) /\ d.s = y
    <2>1. p = [s |-> p.s, run |-> p.run, sub |-> p.sub]
      BY <1>6 DEF Caught
    <2>2. d = [p EXCEPT !.s = y]
      BY <2>1
    <2> HIDE DEF d, y
    <2>3. d = [s |-> y, run |-> p.run, sub |-> p.sub]
      BY <2>1, <2>2
    <2>4. d.s = y /\ d.run = p.run /\ d.sub = p.sub /\ d = [s |-> d.s, run |-> d.run, sub |-> d.sub]
      BY ONLY <2>3
    <2> QED
      BY <1>6, <1>8, <2>4 DEF Caught
  <1> HIDE DEF d, y
  <1>10. Caught(a, w, O) /\ a.s.cur = y.cur
    <2>1. Fuller(d, Collect(d, w, 0, left), w, O)
      BY <1>9, CollectKeeps
    <2> QED
      BY <1>9, <2>1 DEF Fuller
  <1> HIDE DEF a
  <1>11. CurIn(a.s)
    BY <1>8, <1>10 DEF CurIn
  <1>12. Handled(a.s, DoTimer(a, w), {}, O)
    BY <1>10, <1>11, DoTimerKeeps
  <1>13. a.run \subseteq O
    BY <1>10 DEF Caught, Filed
  <1>14. Ran(q, O)
    BY <1>1, <1>11, <1>12, <1>13 DEF Handled, CurIn, Ran
  <1> QED
    BY <1>14 DEF q

(* A call of TimerRun after any time keeps the invariant, and calls back      *)
(* only timers that are set.                                                *)
LEMMA TimerRunKeeps ==
    ASSUME NEW s, NEW time \in Nat, NEW O, Filed(s, {}, O), CurIn(s)
    PROVE  Ran(TimerRun(s, time), O)
  <1> DEFINE steps == time \div Unit
             left == time % Unit
             sub == IF left > 0 THEN RunWheel(s, "sub", left, 0)
                    ELSE [s |-> s, carry |-> FALSE, run |-> {}]
             start == IF sub.carry THEN [sub.s EXCEPT !.cur["root"] = @ + 1] ELSE sub.s
             root == RunWheel(start, "root", steps, left)
             q == TimerRun(s, time)
  <1>1. q = IF steps > 0 \/ sub.carry THEN [s |-> root.s, run |-> sub.run \cup root.run]
            ELSE [s |-> Wrap(start, "root"), run |-> sub.run]
    BY DEF TimerRun
  <1>2. steps \in Nat /\ left \in Nat /\ left < Unit
    <2>1. Unit \in Nat \ {0}
      BY UnitAssumption
    <2>2. steps \in Nat
      BY <2>1, Z3
    <2>3. left \in Nat /\ left < Unit
      BY <2>1, Z3
    <2> QED
      BY <2>2, <2>3
  <1>3. "root" \in Wheels /\ "sub" \in Wheels /\ "root" # "sub"
    BY DEF Wheels
  <1> SUFFICES Ran(q, O)
    OBVIOUS
  <1> HIDE DEF steps, left, q
  <1>4. Ran(sub, O)
    <2>1. CASE left > 0
      <3>1. Ran(RunWheel(s, "sub", left, 0), O)
        BY <1>2, <1>3, RunWheelKeeps
      <3> QED
        BY <2>1, <3>1
    <2>2. CASE ~(left > 0)
      BY <2>2 DEF Ran
    <2> QED
      BY <2>1, <2>2
  <1> HIDE DEF sub
  <1>5. Filed(sub.s, {}, O) /\ CurIn(sub.s) /\ sub.run \subseteq O
    BY <1>4 DEF Ran
  <1>6. Filed(start, {}, O) /\ CurIn(start)
    <2>1. CASE sub.carry
      <3> DEFINE n == sub.s.cur["root"] + 1
      <3>1. start = [sub.s EXCEPT !.cur["root"] = n]
        BY <2>1
      <3>2. Parts(sub.s)
        BY <1>5 DEF Filed
      <3>3. n \in Nat
        BY <1>3, <3>2 DEF Parts
      <3> HIDE DEF n, start
      <3>4. Turned(sub.s, start, "root", n)
        BY <1>3, <3>1, <3>2, <3>3, CurPut
      <3> QED
        BY <1>3, <1>5, <3>4 DEF Turned, CurIn
    <2>2. CASE ~sub.carry
      BY <1>5, <2>2
    <2> QED
      BY <2>1, <2>2
  <1> HIDE DEF start
  <1>7. CASE ~sub.carry /\ ~(steps > 0)
    <2> DEFINE y == Wrap(start, "root")
    <2>1. q = [s |-> y, run |-> sub.run]
      BY <1>1, <1>7
    <2>2. Filed(y, {}, O) /\ CurIn(y)
      <3>1. CASE Carry(start, "root")
        <4> DEFINE n == start.cur["root"] - SizeOf("root")
        <4>1. y = [start EXCEPT !.cur["root"] = n]
          BY <3>1 DEF Wrap
        <4>2. Parts(start) /\ start.cur["root"] \in Nat /\ SizeOf("root") \in Nat
          BY <1>3, <1>6, UnitAssumption DEF Filed, Parts, SizeOf
        <4>3. n \in Nat
          BY <3>1, <4>2 DEF Carry
        <4> HIDE DEF n, y
        <4>4. Turned(start, y, "root", n)
          BY <1>3, <4>1, <4>2, <4>3, CurPut
        <4> QED
          BY <1>3, <1>6, <4>4 DEF Turned, CurIn
      <3>2. CASE ~Carry(start, "root")
        <4>1. y = start
          BY <3>2 DEF Wrap
        <4> QED
          BY <1>6, <4>1
      <3> QED
        BY <3>1, <3>2
    <2> HIDE DEF y
    <2>3. q.s = y /\ q.run = sub.run
      BY <2>1
    <2> QED
      BY <1>5, <2>2, <2>3 DEF Ran
  <1>8. CASE sub.carry \/ steps > 0
    <2>1. q = [s |-> root.s, run |-> sub.run \cup root.run]
      BY <1>1, <1>8
    <2>2. Ran(root, O)
      BY <1>2, <1>3, <1>6, RunWheelKeeps
    <2> HIDE DEF root
    <2>3. q.s = root.s /\ q.run = sub.run \cup root.run
      BY <2>1
    <2> QED
      BY <1>5, <2>2, <2>3 DEF Ran
  <1> QED
    BY <1>7, <1>8

-----------------------------------------------------------------------------
(* The calls of the dispatcher.                                             *)

(* Between two calls no timer is in hand.                                   *)
WheelInv ==
    /\ Filed(tw, {}, owned) /\ CurIn(tw)
    /\ owned \subseteq Timers /\ fired \subseteq Timers

(* A new slot, whatever is in its _cur_index.                               *)
LEMMA NewIsSlot ==
    ASSUME NEW g \in Nat
    PROVE  NewSlot(g) \in Slots /\ ~NewSlot(g).in
  BY DEF NewSlot, Slots

(* The wheels start empty.                                                  *)
LEMMA WheelInit ==
    ASSUME Init
    PROVE  WheelInv
  <1>1. PICK slack : tw = NewWheels(slack)
    BY DEF Init
  <1> DEFINE B == [w \in Wheels |-> NewBitmap(SizeOf(w), slack)]
  <1>2. /\ tw = [cur |-> tw.cur, bm |-> tw.bm, list |-> tw.list, key |-> tw.key, slot |-> tw.slot]
        /\ tw.cur = [w \in Wheels |-> 0] /\ tw.bm = B /\ tw.list = [w \in Wheels |-> {}]
        /\ tw.key = [w \in Wheels |-> {}] /\ tw.slot = [t \in Timers |-> NoSlot]
    <2>1. tw = [cur |-> [w \in Wheels |-> 0], bm |-> B, list |-> [w \in Wheels |-> {}],
                key |-> [w \in Wheels |-> {}], slot |-> [t \in Timers |-> NoSlot]]
      BY <1>1 DEF NewWheels
    <2> HIDE DEF B
    <2> QED
      BY <2>1
  <1>3. B = [w \in Wheels |-> B[w]]
    OBVIOUS
  <1> HIDE DEF B
  <1>4. NoSlot \in Slots /\ ~NoSlot.in
    BY NewIsSlot DEF NoSlot
  <1>5. Parts(tw)
    BY <1>2, <1>3, <1>4 DEF Parts
  <1>6. Filed(tw, {}, owned)
    BY <1>2, <1>4, <1>5 DEF Filed
  <1>7. CurIn(tw)
    BY <1>2, UnitAssumption DEF CurIn, Wheels
  <1> QED
    BY <1>6, <1>7 DEF WheelInv, Init

(* More timers may be owned than before.                                    *)
LEMMA FiledMore ==
    ASSUME NEW s, NEW H, NEW O, NEW P, Filed(s, H, O), \A t \in O : t \in P
    PROVE  Filed(s, H, P)
  BY DEF Filed

(* Dispatcher::AddTimer keeps it, whatever the new slot is born with.         *)
LEMMA AddKeeps ==
    ASSUME WheelInv, NEW t \in Timers, NEW i \in Intervals, NEW always \in BOOLEAN, Add(t, i, always)
    PROVE  WheelInv'
  <1>1. /\ Filed(tw, {}, owned) /\ CurIn(tw) /\ owned \subseteq Timers
        /\ t \notin owned /\ owned' = owned \cup {t} /\ fired' = {}
    BY DEF WheelInv, Add
  <1>2. PICK g \in Garbage : tw' = AddTimer(Made(tw, t, g), t, i, always)
    BY DEF Add
  <1> DEFINE x == Made(tw, t, g)
  <1>3. Parts(tw) /\ ~tw.slot[t].in
    BY <1>1 DEF Filed
  <1>4. i \in Nat /\ g \in Nat
    BY IntervalsAssumption, UnitAssumption, GarbageAssumption, SpanAssumption
  <1>5. Members(tw, x, t, NewSlot(g))
    BY <1>3, <1>4, NewIsSlot, SlotPut DEF Made
  <1> HIDE DEF x
  <1>6. Parts(x) /\ CurIn(x) /\ ~x.slot[t].in
    BY <1>1, <1>4, <1>5, NewIsSlot DEF Members, CurIn
  <1>7. Refiled(x, tw', t)
    BY <1>2, <1>4, <1>6, AddFiles DEF x
  <1>8. Refiled(tw, tw', t)
    BY <1>5, <1>7, RefiledOver
  <1>9. Filed(tw, {}, owned')
    BY <1>1, FiledMore
  <1>10. Filed(tw', {} \ {t}, owned')
    BY <1>1, <1>3, <1>8, <1>9, RefiledKeeps
  <1>11. CurIn(tw')
    BY <1>1, <1>8 DEF CurIn, Refiled
  <1>12. Filed(tw', {}, owned') /\ owned' \subseteq Timers /\ fired' \subseteq Timers
    BY <1>1, <1>10
  <1> QED
    BY <1>11, <1>12 DEF WheelInv

(* TimerRun keeps it after any time.                                        *)
LEMMA RunKeeps ==
    ASSUME WheelInv, NEW time \in Nat, Run(time)
    PROVE  WheelInv'
  <1>1. Ran(TimerRun(tw, time), owned)
    BY TimerRunKeeps DEF WheelInv
  <1>2. /\ tw' = TimerRun(tw, time).s /\ fired' = TimerRun(tw, time).run /\ owned' = owned
        /\ owned \subseteq Timers
    BY DEF Run, WheelInv
  <1>3. Filed(tw', {}, owned) /\ CurIn(tw') /\ fired' \subseteq owned
    BY <1>1, <1>2 DEF Ran
  <1> QED
    BY <1>2, <1>3 DEF WheelInv

(* r is s without timer t.                                                  *)
Without(s, r, t) ==
    /\ Parts(r) /\ r.cur = s.cur /\ r.key = s.key /\ r.slot[t] = NoSlot
    /\ \A u \in Timers : u # t => r.slot[u] = s.slot[u]
    /\ \A w \in Wheels : r.list[w] = {e \in s.list[w] : e[3] # t}

(* An event that is destroyed leaves the slots and the lists.                *)
LEMMA DestroyedIsGone ==
    ASSUME NEW s, NEW t \in Timers, Parts(s)
    PROVE  Without(s, Destroyed(s, t), t)
  <1> DEFINE r == Destroyed(s, t)
             Z == [s.slot EXCEPT ![t] = NoSlot]
             L == [w \in Wheels |-> {e \in s.list[w] : e[3] # t}]
  <1>1. /\ s = [cur |-> s.cur, bm |-> s.bm, list |-> s.list, key |-> s.key, slot |-> s.slot]
        /\ s.cur \in [Wheels -> Nat] /\ s.bm = [v \in Wheels |-> s.bm[v]]
        /\ s.key = [v \in Wheels |-> s.key[v]] /\ s.slot \in [Timers -> Slots]
    BY DEF Parts
  <1>2. NoSlot \in Slots
    BY NewIsSlot DEF NoSlot
  <1>3. /\ Z \in [Timers -> Slots] /\ Z[t] = NoSlot /\ \A u \in Timers : u # t => Z[u] = s.slot[u]
    BY <1>1, <1>2
  <1>4. L = [w \in Wheels |-> L[w]] /\ \A w \in Wheels : L[w] = {e \in s.list[w] : e[3] # t}
    OBVIOUS
  <1>5. r = [s EXCEPT !.slot[t] = NoSlot, !.list = L]
    BY <1>1 DEF Destroyed
  <1> HIDE DEF r, L
  <1>6. r = [cur |-> s.cur, bm |-> s.bm, list |-> L, key |-> s.key, slot |-> Z]
    BY <1>1, <1>5
  <1> HIDE DEF Z
  <1>7. /\ r.cur = s.cur /\ r.bm = s.bm /\ r.list = L /\ r.key = s.key /\ r.slot = Z
        /\ r = [cur |-> r.cur, bm |-> r.bm, list |-> r.list, key |-> r.key, slot |-> r.slot]
    BY ONLY <1>6
  <1>8. Without(s, r, t)
    BY <1>1, <1>3, <1>4, <1>7 DEF Without, Parts
  <1> QED
    BY <1>8 DEF r

(* r is s after RmTimer of t: an entry of t may be gone.                     *)
Removed(s, r, t) ==
    /\ Parts(r) /\ r.cur = s.cur /\ r.key = s.key
    /\ \A u \in Timers : u # t => r.slot[u] = s.slot[u]
    /\ \A w \in Wheels : {e \in r.list[w] : e[3] # t} = {e \in s.list[w] : e[3] # t}

(* RmTimer touches no other timer's entry and members.                       *)
LEMMA RmRemoves ==
    ASSUME NEW s, NEW t \in Timers, Parts(s)
    PROVE  Removed(s, RmTimer(s, t), t)
  <1> DEFINE o == s.slot[t]
             w == GetCurIndex(o.index).type
             i == GetCurIndex(o.index).index
             left == IF w = "root" THEN o.left ELSE 0
             g == <<i, left, t>>
             y == [o EXCEPT !.in = FALSE]
             B == [s.bm EXCEPT ![w] = Remove(@, i)]
             L == [s.list EXCEPT ![w] = @ \ {g}]
             Z == [s.slot EXCEPT ![t] = y]
             x == RmTimer(s, t)
  <1>1. /\ s = [cur |-> s.cur, bm |-> s.bm, list |-> s.list, key |-> s.key, slot |-> s.slot]
        /\ s.cur \in [Wheels -> Nat] /\ s.bm = [v \in Wheels |-> s.bm[v]]
        /\ s.list = [v \in Wheels |-> s.list[v]] /\ s.key = [v \in Wheels |-> s.key[v]]
        /\ s.slot \in [Timers -> Slots]
    BY DEF Parts
  <1>2. o \in Slots
    BY <1>1
  <1>3. w \in Wheels \cup {"none"}
    BY DEF GetCurIndex
  <1>4. g[3] = t
    OBVIOUS
  <1>5. x = IF w = "none" THEN s
            ELSE [s EXCEPT !.slot[t].in = FALSE, !.bm[w] = Remove(@, i), !.list[w] = @ \ {g}]
    BY DEF RmTimer
  <1>6. y \in Slots
    <2> HIDE DEF o
    <2> QED
      BY <1>2 DEF Slots
  <1>7. CASE w = "none"
    BY <1>5, <1>7 DEF Removed
  <1>8. CASE w # "none"
    <2>1. w \in Wheels
      BY <1>3, <1>8
    <2>2. x = [s EXCEPT !.slot[t] = y, !.bm[w] = Remove(@, i), !.list[w] = @ \ {g}]
      BY <1>5, <1>8
    <2> HIDE DEF x, y, i, g, w, o
    <2>3. x = [cur |-> s.cur, bm |-> B, list |-> L, key |-> s.key, slot |-> Z]
      BY <1>1, <2>2
    <2>4. Z \in [Timers -> Slots] /\ \A u \in Timers : u # t => Z[u] = s.slot[u]
      BY <1>1, <1>6
    <2>5. /\ L = [v \in Wheels |-> L[v]] /\ B = [v \in Wheels |-> B[v]]
          /\ \A v \in Wheels : L[v] = IF v = w THEN s.list[v] \ {g} ELSE s.list[v]
      BY <1>1, <2>1
    <2> HIDE DEF L, B, Z
    <2>6. /\ x.cur = s.cur /\ x.bm = B /\ x.list = L /\ x.key = s.key /\ x.slot = Z
          /\ x = [cur |-> x.cur, bm |-> x.bm, list |-> x.list, key |-> x.key, slot |-> x.slot]
      BY ONLY <2>3
    <2>7. Parts(x)
      BY <1>1, <2>4, <2>5, <2>6 DEF Parts
    <2>8. \A v \in Wheels : {e \in x.list[v] : e[3] # t} = {e \in s.list[v] : e[3] # t}
      BY <1>4, <2>5, <2>6
    <2>9. Removed(s, x, t)
      BY <2>4, <2>6, <2>7, <2>8 DEF Removed
    <2> QED
      BY <2>9 DEF x
  <1> QED
    BY <1>7, <1>8

(* Dispatcher::StopTimer keeps the invariant.                               *)
LEMMA StopKeeps ==
    ASSUME WheelInv, NEW t \in Timers, Stop(t)
    PROVE  WheelInv'
  <1> DEFINE x == RmTimer(tw, t)
             r == tw'
             P == owned'
  <1>1. /\ Filed(tw, {}, owned) /\ CurIn(tw) /\ owned \subseteq Timers
        /\ owned' = owned \ {t} /\ fired' = {} /\ r = Destroyed(x, t)
    BY DEF WheelInv, Stop
  <1>2. Parts(tw)
    BY <1>1 DEF Filed
  <1>3. Removed(tw, x, t)
    BY <1>2, RmRemoves
  <1> HIDE DEF x
  <1>4. Without(x, r, t)
    BY <1>1, <1>3, DestroyedIsGone DEF Removed
  <1> HIDE DEF r, P
  <1>5. /\ Parts(r) /\ r.cur = tw.cur /\ r.key = tw.key /\ ~r.slot[t].in
        /\ \A u \in Timers : u # t => r.slot[u] = tw.slot[u]
        /\ \A w \in Wheels : \A e : e \in r.list[w] <=> e \in tw.list[w] /\ e[3] # t
    <2>1. ~NoSlot.in
      BY NewIsSlot DEF NoSlot
    <2>2. \A w \in Wheels : r.list[w] = {e \in tw.list[w] : e[3] # t}
      BY <1>3, <1>4 DEF Removed, Without
    <2> QED
      BY <1>3, <1>4, <2>1, <2>2 DEF Removed, Without
  <1>6. \A u \in Timers : r.slot[u].in => u \in P /\ r.slot[u].left \in 0 .. Unit - 1
    BY <1>1, <1>5 DEF Filed, P
  <1>7. ASSUME NEW u \in Timers, r.slot[u].in
        PROVE  \E w \in Wheels : \E e \in r.list[w] : e[3] = u
    <2>1. u # t /\ tw.slot[u].in
      BY <1>5, <1>7
    <2>2. \E w \in Wheels : \E e \in tw.list[w] : e[3] = u
      BY <1>1, <2>1 DEF Filed
    <2> QED
      BY <1>5, <2>1, <2>2
  <1>8. ASSUME NEW w \in Wheels, NEW e \in r.list[w]
        PROVE  /\ e[3] \in Timers /\ r.slot[e[3]].in
               /\ Fits(r.slot[e[3]], w, e) /\ <<e[1], e[2]>> \in r.key[w]
    <2>1. e \in tw.list[w] /\ e[3] # t
      BY <1>5
    <2>2. /\ e[3] \in Timers /\ tw.slot[e[3]].in
          /\ Fits(tw.slot[e[3]], w, e) /\ <<e[1], e[2]>> \in tw.key[w]
      BY <1>1, <2>1 DEF Filed
    <2> QED
      BY <1>5, <2>1, <2>2
  <1>9. \A v, w \in Wheels : \A e \in r.list[v], f \in r.list[w] : e[3] = f[3] => v = w /\ e = f
    BY <1>1, <1>5 DEF Filed
  <1>10. Filed(r, {}, P)
    BY <1>5, <1>6, <1>7, <1>8, <1>9 DEF Filed
  <1>11. CurIn(r)
    BY <1>1, <1>5 DEF CurIn
  <1> QED
    BY <1>1, <1>10, <1>11 DEF WheelInv, r, P

(* The invariant holds whenever Dispatcher::Run comes around.                 *)
THEOREM WheelInductive == Spec => []WheelInv
  <1>1. Init => WheelInv
    BY WheelInit
  <1>2. WheelInv /\ [Next]_vars => WheelInv'
    <2> SUFFICES ASSUME WheelInv, [Next]_vars PROVE WheelInv'
      OBVIOUS
    <2>1. CASE UNCHANGED vars
      BY <2>1 DEF WheelInv, vars, Filed, Parts, CurIn
    <2>2. ASSUME NEW t \in Timers, NEW i \in Intervals, NEW always \in BOOLEAN, Add(t, i, always)
          PROVE  WheelInv'
      BY <2>2, AddKeeps
    <2>3. ASSUME NEW t \in Timers, Stop(t) PROVE WheelInv'
      BY <2>3, StopKeeps
    <2>4. ASSUME NEW time \in 0 .. MaxLag, Run(time) PROVE WheelInv'
      BY <2>4, RunKeeps, MaxLagAssumption
    <2> QED
      BY <2>1, <2>2, <2>3, <2>4 DEF Next
  <1> QED
    BY <1>1, <1>2, PTL DEF Spec

(* Quotient and remainder are the only ones.                                *)
LEMMA DivUnique ==
    ASSUME NEW a \in Nat \ {0}, NEW q \in Nat, NEW r \in Nat, r < a, NEW n \in Nat, n = a * q + r
    PROVE  n \div a = q /\ n % a = r
  <1> DEFINE d == n \div a
             m == n % a
  <1>1. d \in Nat /\ m \in Nat /\ m < a /\ n = a * d + m
    <2>1. d \in Int /\ m \in Int /\ 0 <= m /\ m < a /\ n = a * d + m
      BY Z3
    <2>2. d \in Nat
      BY Z3
    <2> QED
      BY <2>1, <2>2
  <1> HIDE DEF d, m
  <1>2. ASSUME NEW x \in Nat, NEW y \in Nat, NEW u \in Nat, NEW v \in Nat, u < a,
               a * x + u = a * y + v
        PROVE  ~(x < y)
    <2> SUFFICES ASSUME x < y PROVE FALSE
      OBVIOUS
    <2>1. PICK k \in Nat : y = x + 1 + k
      <3>1. y - x - 1 \in Nat /\ y = x + 1 + (y - x - 1)
        OBVIOUS
      <3> QED
        BY <3>1
    <2>2. a * y = a * x + a + a * k /\ a * k \in Nat /\ a * x \in Nat
      BY <2>1
    <2> QED
      BY <1>2, <2>2
  <1>3. ~(d < q) /\ ~(q < d)
    BY <1>1, <1>2
  <1>4. d = q
    BY <1>1, <1>3
  <1>5. a * q \in Nat
    OBVIOUS
  <1>6. m = r
    BY <1>1, <1>4, <1>5
  <1> QED
    BY <1>4, <1>6 DEF d, m

(* A bucket below the type bits and its wheel come back from _cur_index.     *)
LEMMA IndexComesBack ==
    ASSUME NEW i \in Nat, i < IndexSpan, NEW w \in Wheels
    PROVE  GetCurIndex(SetCurIndex(i, w)) = [index |-> i, type |-> w]
  <1> DEFINE b == TypeBit(w)
             n == SetCurIndex(i, w)
             c == b * IndexSpan
             z == 8 * IndexSpan
             type == (n \div IndexSpan) % 8
  <1>1. IndexSpan \in Nat \ {0} /\ b \in {1, 2} /\ c \in Nat \ {0} /\ i < c /\ z \in Nat \ {0} /\ i + c < z
    BY SpanAssumption DEF TypeBit
  <1>2. n = i + c
    <2>1. i \div c = 0
      BY <1>1, DivUnique
    <2>2. n = IF (i \div c) % 2 = 1 THEN i ELSE i + c
      BY DEF SetCurIndex
    <2> HIDE DEF n, c
    <2>3. 0 % 2 # 1
      OBVIOUS
    <2> QED
      BY <2>1, <2>2, <2>3
  <1>3. n \div IndexSpan = b /\ n % IndexSpan = i
    <2>1. n = IndexSpan * b + i /\ b \in Nat /\ n \in Nat
      BY <1>1, <1>2
    <2> HIDE DEF n, b
    <2> QED
      BY <1>1, <2>1, DivUnique
  <1>4. n \div z = 0
    <2>1. n \in Nat /\ n < z /\ z \in Nat \ {0}
      BY <1>1, <1>2
    <2> HIDE DEF n, z
    <2>2. n = z * 0 + n /\ 0 \in Nat
      BY <2>1
    <2> QED
      BY ONLY <2>1, <2>2, DivUnique
  <1>5. type = b
    <2>1. b % 8 = b
      BY <1>1
    <2>2. type = b % 8
      BY <1>3
    <2> QED
      BY ONLY <2>1, <2>2
  <1>6. \A v \in Wheels : type = TypeBit(v) <=> v = w
    BY <1>5 DEF TypeBit, Wheels
  <1>7. GetCurIndex(n) = [index |-> (n % IndexSpan) + (n \div z) * z,
                          type |-> IF \E v \in Wheels : type = TypeBit(v)
                                   THEN CHOOSE v \in Wheels : type = TypeBit(v) ELSE "none"]
    BY DEF GetCurIndex
  <1>8. (n % IndexSpan) + (n \div z) * z = i
    <2>1. 0 * z = 0 /\ i + 0 = i
      BY <1>1
    <2> QED
      BY <1>3, <1>4, <2>1
  <1>9. (IF \E v \in Wheels : type = TypeBit(v)
         THEN CHOOSE v \in Wheels : type = TypeBit(v) ELSE "none") = w
    <2> HIDE DEF type
    <2> QED
      BY <1>6
  <1> QED
    BY <1>7, <1>8, <1>9

(* FlagTells: TSF_IN_TIMER tells whether and where a timer is listed, after   *)
(* any cascade, re-arm and stop and whatever the times of TimerRun.          *)
THEOREM FlagStaysTelling == Spec => []FlagTells
  <1>1. WheelInv => FlagTells
    <2> SUFFICES ASSUME WheelInv PROVE FlagTells
      OBVIOUS
    <2>1. /\ Filed(tw, {}, owned) /\ CurIn(tw) /\ owned \subseteq Timers /\ fired \subseteq Timers
      BY DEF WheelInv
    <2>2. \A t \in Timers : tw.slot[t].in => t \in owned /\ tw.slot[t].left \in 0 .. Unit - 1
      BY <2>1 DEF Filed
    <2>3. \A t \in Timers : tw.slot[t].in => \E w \in Wheels : \E e \in tw.list[w] : e[3] = t
      BY <2>1 DEF Filed
    <2>4. \A w \in Wheels : \A e \in tw.list[w] :
            /\ e[3] \in Timers /\ tw.slot[e[3]].in
            /\ Fits(tw.slot[e[3]], w, e) /\ <<e[1], e[2]>> \in tw.key[w]
      BY <2>1 DEF Filed
    <2>5. \A v, w \in Wheels : \A e \in tw.list[v], f \in tw.list[w] : e[3] = f[3] => v = w /\ e = f
      BY <2>1 DEF Filed
    <2>6. TypeOK
      <3>1. tw.cur \in [Wheels -> Nat] /\ tw.cur["sub"] < Unit
        BY <2>1 DEF Filed, Parts, CurIn
      <3>2. ASSUME NEW w \in Wheels, NEW e \in tw.list[w]
            PROVE  /\ e[1] < 64 * IndexSpan /\ e[2] < Unit /\ <<e[1], e[2]>> \in tw.key[w]
                   /\ w = "sub" => e[1] < Unit /\ e[2] = 0
        <4> DEFINE t == e[3]
        <4>1. t \in Timers /\ tw.slot[t].in /\ Fits(tw.slot[t], w, e) /\ <<e[1], e[2]>> \in tw.key[w]
          BY <2>4
        <4>2. tw.slot[t].left \in 0 .. Unit - 1
          BY <2>2, <4>1
        <4> QED
          BY <4>1, <4>2, UnitAssumption, SpanAssumption DEF Fits
      <3> QED
        BY <2>1, <3>1, <3>2 DEF TypeOK
    <2>7. ASSUME NEW t \in Timers, NEW p \in Listed(t)
          PROVE  \E w \in Wheels : \E e \in tw.list[w] : e[3] = t /\ p = <<w, e>>
      <3> DEFINE In(w) == {<<w, e>> : e \in {f \in tw.list[w] : f[3] = t}}
      <3>1. PICK w \in Wheels : p \in In(w)
        BY <2>7 DEF Listed
      <3> QED
        BY <3>1
    <2>8. ASSUME NEW t \in Timers, ~tw.slot[t].in PROVE Listed(t) = {}
      BY <2>4, <2>7, <2>8
    <2>9. ASSUME NEW t \in Timers, tw.slot[t].in
          PROVE  \E at \in Listed(t) : Listed(t) = {at} /\ (at[2][1] < IndexSpan => Names(t, at))
      <3>1. PICK w \in Wheels : \E e \in tw.list[w] : e[3] = t
        BY <2>3, <2>9
      <3>2. PICK e \in tw.list[w] : e[3] = t
        BY <3>1
      <3> DEFINE at == <<w, e>>
                 x == tw.slot[t]
      <3>3. at \in Listed(t)
        <4>1. at \in {<<w, f>> : f \in {g \in tw.list[w] : g[3] = t}}
          BY <3>2
        <4> QED
          BY <4>1 DEF Listed
      <3>4. Listed(t) = {at}
        <4>1. ASSUME NEW p \in Listed(t) PROVE p = at
          <5>1. PICK v \in Wheels : \E f \in tw.list[v] : f[3] = t /\ p = <<v, f>>
            BY <2>7
          <5>2. PICK f \in tw.list[v] : f[3] = t /\ p = <<v, f>>
            BY <5>1
          <5> QED
            BY <2>5, <3>2, <5>2
        <4> QED
          BY <3>3, <4>1
      <3>5. at[2][1] < IndexSpan => Names(t, at)
        <4> SUFFICES ASSUME e[1] < IndexSpan PROVE Names(t, at)
          OBVIOUS
        <4>1. Fits(x, w, e)
          BY <2>4, <3>2
        <4>2. e[1] \in Nat /\ e[2] = x.left /\ x.index = SetCurIndex(e[1], w)
          BY <4>1, SpanAssumption DEF Fits
        <4>3. GetCurIndex(x.index) = [index |-> e[1], type |-> w]
          BY <4>2, IndexComesBack
        <4>4. e = <<e[1], e[2], e[3]>>
          BY <4>1 DEF Fits
        <4> QED
          BY <3>2, <4>2, <4>3, <4>4 DEF Names
      <3> QED
        BY <3>3, <3>4, <3>5
    <2>10. ASSUME NEW t \in Timers
           PROVE  IF t \in owned /\ tw.slot[t].in
                  THEN \E at \in Listed(t) :
                         Listed(t) = {at} /\ (at[2][1] < IndexSpan => Names(t, at))
                  ELSE Listed(t) = {}
      <3>1. CASE tw.slot[t].in
        BY <2>2, <2>9, <3>1
      <3>2. CASE ~tw.slot[t].in
        BY <2>8, <3>2
      <3> QED
        BY <3>1, <3>2
    <2> QED
      BY <2>6, <2>10 DEF FlagTells
  <1> QED
    BY <1>1, WheelInductive, PTL

(* OnlySetTimersFire: TimerRun calls back only timers that were set when it   *)
(* was called.                                                              *)
THEOREM FiresOnlySet == Spec => OnlySetTimersFire
  <1> DEFINE A == \A t \in fired' : t \in owned /\ tw.slot[t].in
  <1>1. ASSUME WheelInv, [Next]_vars PROVE [A]_vars
    <2>1. CASE UNCHANGED vars
      BY <2>1
    <2>2. ASSUME NEW t \in Timers, NEW i \in Intervals, NEW always \in BOOLEAN, Add(t, i, always)
          PROVE  A
      BY <2>2 DEF Add
    <2>3. ASSUME NEW t \in Timers, Stop(t) PROVE A
      BY <2>3 DEF Stop
    <2>4. ASSUME NEW time \in 0 .. MaxLag, Run(time) PROVE A
      <3> DEFINE O == {t \in Timers : tw.slot[t].in}
      <3>1. Filed(tw, {}, owned) /\ CurIn(tw)
        BY <1>1 DEF WheelInv
      <3>2. \A t \in O : t \in owned /\ tw.slot[t].in
        BY <3>1 DEF Filed
      <3>3. Filed(tw, {}, O)
        BY <3>1 DEF Filed
      <3> HIDE DEF O
      <3>4. time \in Nat
        BY MaxLagAssumption
      <3>5. Ran(TimerRun(tw, time), O)
        BY <3>1, <3>3, <3>4, TimerRunKeeps
      <3>6. fired' \subseteq O
        BY <2>4, <3>5 DEF Ran, Run
      <3> QED
        BY <3>2, <3>6
    <2> QED
      BY <1>1, <2>1, <2>2, <2>3, <2>4 DEF Next
  <1>2. WheelInv /\ [Next]_vars => [A]_vars
    BY <1>1
  <1> QED
    BY <1>2, WheelInductive, PTL DEF Spec, OnlySetTimersFire

=============================================================================
