------------------------------ MODULE BitmapOps ------------------------------
(***************************************************************************)
(* Bitmap (common/util/bitmap.cpp), a bit set with a summary word, as        *)
(* operators on a record:                                                   *)
(*   words  _bitmap.size(), the number of 64-bit words                      *)
(*   bits   the set bits of _bitmap                                         *)
(*   vec    the set bits of _vec_bitmap, one for each word in use           *)
(*   slack  what log2f makes of the memory behind the last word             *)
(* GetMinAfter can read one word behind the vector.  That word lies in the   *)
(* slack of the allocation, which nobody writes: its value is arbitrary but  *)
(* does not change.                                                         *)
(***************************************************************************)
EXTENDS Integers, FiniteSets, FiniteSetsExt

CONSTANT StepSize  \* __step_size, the bits of a word

ASSUME StepSizeAssumption == StepSize \in Nat \ {0, 1}

WordOf(index) == index \div StepSize
FirstBit(w) == w * StepSize
TopBit(w) == FirstBit(w) + StepSize - 1
InWord(bits, w) == {i \in bits : WordOf(i) = w}

(* Init(size)                                                               *)
NewBitmap(size, slack) ==
    [words |-> (size + StepSize - 1) \div StepSize,
     bits |-> {}, vec |-> {}, slack |-> slack]

(* Insert(index), false and no change when the index is beyond the words.   *)
InsertOK(bm, index) == index <= bm.words * StepSize

Insert(bm, index) ==
    IF InsertOK(bm, index)
    THEN [bm EXCEPT !.bits = @ \cup {index}, !.vec = @ \cup {WordOf(index)}]
    ELSE bm

RemoveKeepVec(bm, index) ==
    IF index > bm.words * StepSize THEN bm ELSE [bm EXCEPT !.bits = @ \ {index}]

Remove(bm, index) ==
    LET left == bm.bits \ {index}
    IN  IF index > bm.words * StepSize THEN bm
        ELSE [bm EXCEPT !.bits = left,
                        !.vec = IF InWord(left, WordOf(index)) = {}
                                THEN @ \ {WordOf(index)} ELSE @]

IsEmpty(bm) == bm.vec = {}

(* log2f of the lowest set bit of a shifted word.  The word is signed: its   *)
(* top bit alone is negative, log2f gives a NaN and the cast makes it 0.    *)
Log2LowestNoMinus(later, from) ==
    IF Min(later) = from THEN 1 ELSE Min(later) - from

Log2Lowest(later, from) ==
    IF later = {TopBit(WordOf(from))} /\ from = FirstBit(WordOf(from))
    THEN 0 ELSE Min(later) - from

(* log2f of the lowest set bit plus one: one too many for bit 0, and again   *)
(* 0 for a NaN; an empty word gives log2f(1), which is 0.                   *)
Log2LowestPlusOne(bm, w) ==
    LET bits == InWord(bm.bits, w)
    IN  CASE w >= bm.words -> bm.slack
          [] w < bm.words /\ bits = {} -> 0
          [] w < bm.words /\ bits # {} ->
                IF Min(bits) = FirstBit(w) THEN 1
                ELSE IF Min(bits) = TopBit(w) THEN 0
                ELSE Min(bits) - FirstBit(w)

(* The word to go on with when the word of the index has no later bit: the   *)
(* summary is shifted to the current word, and a set bit 0, which says that  *)
(* the current word itself is in use, makes log2f return 1.                 *)
NextWord(bm, w) ==
    LET v == Min({u \in bm.vec : u >= w})
    IN  IF v = w THEN w + 1 ELSE v

GetMinAfter(bm, index) ==
    LET w     == WordOf(index)
        later == {i \in InWord(bm.bits, w) : i >= index}
    IN  CASE index >= bm.words * StepSize \/ IsEmpty(bm) -> -1
          [] index < bm.words * StepSize /\ ~IsEmpty(bm) /\ later # {} ->
                index + Log2Lowest(later, index)
          [] index < bm.words * StepSize /\ ~IsEmpty(bm) /\ later = {} ->
                IF {u \in bm.vec : u >= w} = {} THEN -1
                ELSE FirstBit(NextWord(bm, w))
                       + Log2LowestPlusOne(bm, NextWord(bm, w))

(* Clear() walks the summary, again one word too far when its bit 0 is set:  *)
(* with a single word it zeroes the word behind it.                         *)
Clear(bm) ==
    LET zeroed == {IF w = 0 THEN 1 ELSE w : w \in bm.vec}
    IN  [bm EXCEPT !.bits = {i \in @ : WordOf(i) \notin zeroed},
                   !.vec = {},
                   !.slack = IF bm.words \in zeroed THEN 0 ELSE @]

=============================================================================
