------------------------------- MODULE Bitmap --------------------------------
(***************************************************************************)
(* A Bitmap under every sequence of Insert, Remove and Clear.               *)
(***************************************************************************)
EXTENDS BitmapOps

CONSTANT Size      \* the size given to Init

ASSUME SizeAssumption == Size \in Nat \ {0}

VARIABLE bm        \* the bitmap

bitmapVars == <<bm>>

Index == 0 .. Size - 1

BitmapInit == \E slack \in 0 .. StepSize - 1 : bm = NewBitmap(Size, slack)

InsertBit(index) == bm' = Insert(bm, index)

RemoveBit(index) == bm' = Remove(bm, index)

ClearAll == bm' = Clear(bm)

BitmapNext == \/ \E index \in Index : InsertBit(index) \/ RemoveBit(index)
              \/ ClearAll

BitmapSpec == BitmapInit /\ [][BitmapNext]_bitmapVars

-----------------------------------------------------------------------------
(* Type correctness: no bit and no summary bit outside the words of Init.    *)
BitmapTypeOK ==
    /\ bm.bits \subseteq Index
    /\ bm.vec \subseteq 0 .. bm.words - 1
    /\ bm.words * StepSize \in Size .. Size + StepSize - 1
    /\ bm.slack \in 0 .. StepSize - 1

(* A bit whose word the summary knows is found when the search starts at it, *)
(* at every place of a word and after any history of calls; and a search     *)
(* never goes back, though it may name a bit that is not set: the loops of   *)
(* TimerContainer::TimerRun, which continue behind the bit found, end        *)
(* because of this.                                                         *)
SearchAdvances ==
    /\ \A i \in bm.bits : WordOf(i) \in bm.vec => GetMinAfter(bm, i) = i
    /\ \A i \in Index : GetMinAfter(bm, i) = -1 \/ GetMinAfter(bm, i) >= i

(* The summary has no bit for an empty word, so Empty() is never false for   *)
(* an empty bitmap.                                                         *)
SummaryIsUsed == BitmapTypeOK /\ \A w \in bm.vec : InWord(bm.bits, w) # {}

(* bitmap.h on GetMinAfter: "get min index after input param".  It is the    *)
(* least set bit from the index on, or -1.                                  *)
MinAfterIsLeast ==
    \A i \in Index :
        LET later == {j \in bm.bits : j >= i}
        IN  GetMinAfter(bm, i) = IF later = {} THEN -1 ELSE Min(later)

(* bitmap.h on Empty: "bitmap is empty".                                    *)
EmptyIsEmpty == IsEmpty(bm) => bm.bits = {}

=============================================================================
