----------------------------- MODULE BlockProofs -----------------------------
(***************************************************************************)
(* Proofs about BufferBlock and BufferQueue, for every block length, every   *)
(* set of bytes and every bound.                                            *)
(***************************************************************************)
EXTENDS BufferBlock, BufferQueue, SequenceTheorems, WellFoundedInduction, TLAPS

-----------------------------------------------------------------------------
(* What the block operations preserve.                                      *)

(* The two lengths of a well-formed block add up to the block length.       *)
LEMMA LengthsAddUp ==
    ASSUME NEW b \in Block
    PROVE  /\ GetCanReadLength(b) \in 0 .. BlockLen
           /\ GetCanWriteLength(b) \in 0 .. BlockLen
           /\ GetCanReadLength(b) + GetCanWriteLength(b) = BlockLen
  BY BlockLenAssumption DEF Block, GetCanReadLength, GetCanWriteLength

(* A cleared block is well-formed.                                          *)
LEMMA ClearOK ==
    ASSUME NEW b \in Block
    PROVE  Clear(b) \in Block /\ PointersAgree(Clear(b))
  BY BlockLenAssumption DEF Block, At, Clear, PointersAgree

(* Moving the read pointer either way keeps a block well-formed.            *)
LEMMA MoveReadPtOK ==
    ASSUME NEW b \in Block, PointersAgree(b), NEW len \in Int
    PROVE  MoveReadPt(b, len) \in Block /\ PointersAgree(MoveReadPt(b, len))
  <1>1. CASE len > 0
    BY <1>1, BlockLenAssumption, ClearOK
       DEF MoveReadPt, At, Block, PointersAgree, GetCanReadLength, Forward
  <1>2. CASE ~(len > 0)
    BY <1>2, BlockLenAssumption
       DEF MoveReadPt, At, Block, PointersAgree, GetCanWriteLength, Backward
  <1> QED BY <1>1, <1>2

(* Moving the write pointer either way keeps a block well-formed.           *)
LEMMA MoveWritePtOK ==
    ASSUME NEW b \in Block, PointersAgree(b), NEW len \in Int
    PROVE  MoveWritePt(b, len) \in Block /\ PointersAgree(MoveWritePt(b, len))
  <1>1. CASE len > 0
    BY <1>1, BlockLenAssumption
       DEF MoveWritePt, At, Block, PointersAgree, GetCanWriteLength, Forward
  <1>2. CASE ~(len > 0)
    BY <1>2, BlockLenAssumption, ClearOK
       DEF MoveWritePt, At, Block, PointersAgree, GetCanReadLength, Backward
  <1> QED BY <1>1, <1>2

-----------------------------------------------------------------------------
(* Writing.                                                                 *)

(* A Write takes all it is given or all there is room for.                  *)
LEMMA WriteLenRange ==
    ASSUME NEW b \in Block, NEW data \in Seq(Byte)
    PROVE  /\ WriteLen(b, data) \in 0 .. GetCanWriteLength(b)
           /\ WriteLen(b, data) <= Len(data)
           /\ WriteLen(b, data) = Len(data) \/ WriteLen(b, data) = GetCanWriteLength(b)
  BY LengthsAddUp, BlockLenAssumption DEF WriteLen, Least

(* The memory after a copy of n bytes is still a memory of bytes.           *)
LEMMA StoreOK ==
    ASSUME NEW b \in Block, NEW data \in Seq(Byte), NEW n \in 0 .. Len(data)
    PROVE  Store(b, data, n) \in [Cells -> Byte]
  <1>1. \A c \in Cells : Behind(b.write, c) \in Nat
    BY BlockLenAssumption DEF Behind, Cells, Block
  <1>2. \A c \in Cells : Behind(b.write, c) < n => data[Behind(b.write, c) + 1] \in Byte
    BY <1>1
  <1> QED BY <1>2 DEF Store, Block

(* Writing keeps a block well-formed.                                       *)
LEMMA WriteOK ==
    ASSUME NEW b \in Block, PointersAgree(b), NEW data \in Seq(Byte)
    PROVE  Write(b, data) \in Block /\ PointersAgree(Write(b, data))
  <1> DEFINE n == WriteLen(b, data)
  <1>1. n \in 0 .. GetCanWriteLength(b) /\ n \in 0 .. Len(data)
    BY WriteLenRange, LengthsAddUp
  <1>2. Store(b, data, n) \in [Cells -> Byte]
    BY <1>1, StoreOK
  <1>3. CASE n = GetCanWriteLength(b)
    BY <1>2, <1>3, BlockLenAssumption DEF Write, Block, PointersAgree
  <1>4. CASE n # GetCanWriteLength(b)
    <2> DEFINE m == Store(b, data, n)
               w == Forward(b.write, n)
    <2>1. Write(b, data) = [read |-> b.read, write |-> w, can_read |-> b.can_read, mem |-> m]
      BY <1>4 DEF Write
    <2> HIDE DEF m, n
    <2>2. /\ w \in 0 .. BlockLen /\ ~(b.read = 0 /\ w = BlockLen)
          /\ ~(b.read = BlockLen /\ w = 0) /\ (b.read = w /\ ~b.can_read => b.read = 0)
      BY <1>1, <1>4, BlockLenAssumption DEF Block, PointersAgree, GetCanWriteLength, Forward
    <2> HIDE DEF w
    <2> QED
      BY <1>2, <2>1, <2>2 DEF Block, PointersAgree, m
  <1> QED BY <1>3, <1>4

-----------------------------------------------------------------------------
(* What the operations do to the readable bytes.                            *)

(* The cell i places behind a point is in the memory, and i is its          *)
(* distance.                                                                *)
LEMMA CellAtRange ==
    ASSUME NEW p \in 0 .. BlockLen, NEW i \in 0 .. BlockLen - 1
    PROVE  CellAt(p, i) \in Cells /\ Behind(p, CellAt(p, i)) = i
  BY BlockLenAssumption DEF CellAt, Cells, Behind

(* The content has the readable length; its i-th byte is in the i-th cell   *)
(* behind the read point.                                                   *)
LEMMA ContentType ==
    ASSUME NEW b \in Block
    PROVE  /\ Content(b) \in Seq(Byte)
           /\ Len(Content(b)) = GetCanReadLength(b)
           /\ \A i \in 1 .. GetCanReadLength(b) :
                 Content(b)[i] = b.mem[CellAt(b.read, i - 1)]
  <1>1. GetCanReadLength(b) \in 0 .. BlockLen
    BY LengthsAddUp
  <1>2. \A i \in 1 .. GetCanReadLength(b) : b.mem[CellAt(b.read, i - 1)] \in Byte
    <2> TAKE i \in 1 .. GetCanReadLength(b)
    <2>1. i - 1 \in 0 .. BlockLen - 1 /\ b.read \in 0 .. BlockLen
      BY <1>1, BlockLenAssumption DEF Block
    <2>2. CellAt(b.read, i - 1) \in Cells
      BY <2>1, CellAtRange
    <2> QED BY <2>2 DEF Block
  <1> QED BY <1>1, <1>2 DEF Content

(* Seen from the write pointer, the readable cells lie behind the free ones. *)
LEMMA CellOrder ==
    ASSUME NEW b \in Block, PointersAgree(b), NEW i \in 0 .. BlockLen - 1
    PROVE  Behind(b.write, CellAt(b.read, i))
             = IF i < GetCanReadLength(b) THEN GetCanWriteLength(b) + i
                                          ELSE i - GetCanReadLength(b)
  <1> USE BlockLenAssumption
  <1> b.read \in 0 .. BlockLen /\ b.write \in 0 .. BlockLen
    BY DEF Block
  <1>1. CASE b.write > b.read
    BY <1>1 DEF Behind, CellAt, GetCanReadLength, GetCanWriteLength, PointersAgree
  <1>2. CASE b.write < b.read
    BY <1>2 DEF Behind, CellAt, GetCanReadLength, GetCanWriteLength, PointersAgree
  <1>3. CASE b.write = b.read /\ b.can_read
    BY <1>3 DEF Behind, CellAt, GetCanReadLength, GetCanWriteLength, PointersAgree
  <1>4. CASE b.write = b.read /\ ~b.can_read
    BY <1>4 DEF Behind, CellAt, GetCanReadLength, GetCanWriteLength, PointersAgree
  <1> QED BY <1>1, <1>2, <1>3, <1>4

(* A write pointer moved forward by less than the free length.              *)
LEMMA ForwardWriteLength ==
    ASSUME NEW b \in Block, PointersAgree(b), NEW w \in Block,
           NEW n \in Nat, n < GetCanWriteLength(b),
           w.read = b.read, w.can_read = b.can_read, w.write = Forward(b.write, n)
    PROVE  GetCanReadLength(w) = GetCanReadLength(b) + n
  <1> USE BlockLenAssumption
  <1> b.read \in 0 .. BlockLen /\ b.write \in 0 .. BlockLen
    BY DEF Block
  <1>1. CASE b.write > b.read
    BY <1>1 DEF Forward, GetCanReadLength, GetCanWriteLength
  <1>2. CASE b.write < b.read
    BY <1>2 DEF Forward, GetCanReadLength, GetCanWriteLength
  <1>3. CASE b.write = b.read
    BY <1>3 DEF Forward, GetCanReadLength, GetCanWriteLength, PointersAgree
  <1> QED BY <1>1, <1>2, <1>3

(* Write appends the bytes it accepts.                                      *)
LEMMA ContentWrite ==
    ASSUME NEW b \in Block, PointersAgree(b), NEW data \in Seq(Byte)
    PROVE  Content(Write(b, data))
             = Content(b) \o SubSeq(data, 1, WriteLen(b, data))
  <1> DEFINE n == WriteLen(b, data)
             L == GetCanReadLength(b)
             w == Write(b, data)
  <1>1. /\ n \in 0 .. GetCanWriteLength(b) /\ n \in 0 .. Len(data)
        /\ L \in 0 .. BlockLen /\ L + GetCanWriteLength(b) = BlockLen
        /\ GetCanWriteLength(b) \in 0 .. BlockLen
    BY WriteLenRange, LengthsAddUp
  <1>2. w \in Block
    BY WriteOK
  <1>3. GetCanReadLength(w) = L + n
    <2>1. CASE n = GetCanWriteLength(b)
      BY <1>1, <2>1, BlockLenAssumption DEF Write, Block, GetCanReadLength
    <2>2. CASE n # GetCanWriteLength(b)
      <3>1. /\ w.read = b.read /\ w.can_read = b.can_read
            /\ w.write = Forward(b.write, n)
        BY <2>2 DEF Write
      <3>2. n \in Nat /\ n < GetCanWriteLength(b)
        BY <1>1, <2>2
      <3> HIDE DEF w, n
      <3> QED BY <1>2, <3>1, <3>2, ForwardWriteLength
    <2> QED BY <2>1, <2>2
  <1>4. \A i \in 1 .. L + n : Content(w)[i] = (Content(b) \o SubSeq(data, 1, n))[i]
    <2> TAKE i \in 1 .. L + n
    <2> DEFINE c == CellAt(b.read, i - 1)
    <2>1. i - 1 \in 0 .. BlockLen - 1 /\ b.read \in 0 .. BlockLen /\ b.write \in 0 .. BlockLen
      BY <1>1, BlockLenAssumption DEF Block
    <2>2. c \in Cells
      BY <2>1, CellAtRange
    <2>3. Content(w)[i] = Store(b, data, n)[c]
      BY <1>2, <1>3, ContentType DEF Write
    <2>4. Store(b, data, n)[c] = IF Behind(b.write, c) < n
                                 THEN data[Behind(b.write, c) + 1] ELSE b.mem[c]
      BY <2>2 DEF Store
    <2>5. CASE i <= L
      <3>1. Behind(b.write, c) = GetCanWriteLength(b) + (i - 1)
        BY <1>1, <2>1, <2>5, CellOrder
      <3> ~(Behind(b.write, c) < n)
        BY <1>1, <3>1
      <3>2. (Content(b) \o SubSeq(data, 1, n))[i] = b.mem[c]
        BY <1>1, <2>5, ContentType
      <3> QED BY <2>3, <2>4, <3>1, <3>2
    <2>6. CASE i > L
      <3>1. Behind(b.write, c) = i - 1 - L
        BY <1>1, <2>1, <2>6, CellOrder
      <3>2. (Content(b) \o SubSeq(data, 1, n))[i] = data[i - L]
        BY <1>1, <2>6, ContentType
      <3>3. Behind(b.write, c) < n /\ Behind(b.write, c) + 1 = i - L
        BY <1>1, <2>1, <2>6, <3>1, BlockLenAssumption
      <3> QED BY <2>3, <2>4, <3>2, <3>3
    <2>7. i <= L \/ i > L
      BY <1>1, BlockLenAssumption
    <2> QED BY <2>5, <2>6, <2>7
  <1>5. /\ Content(w) \in Seq(Byte) /\ Len(Content(w)) = L + n
        /\ Content(b) \o SubSeq(data, 1, n) \in Seq(Byte)
        /\ Len(Content(b) \o SubSeq(data, 1, n)) = L + n
    BY <1>1, <1>2, <1>3, ContentType
  <1> QED BY <1>1, <1>4, <1>5, SeqEqual

(* Two views of the same memory: when the cells of w are those of b from the *)
(* d-th on, the bytes of w are a contiguous part of the bytes of b.          *)
LEMMA SameMemory ==
    ASSUME NEW b \in Block, NEW w \in Block, w.mem = b.mem, NEW d \in Nat,
           d + GetCanReadLength(w) <= GetCanReadLength(b),
           \A i \in 0 .. GetCanReadLength(w) - 1 :
               CellAt(w.read, i) = CellAt(b.read, i + d)
    PROVE  Content(w) = SubSeq(Content(b), d + 1, d + GetCanReadLength(w))
  <1> DEFINE L == GetCanReadLength(b)
             M == GetCanReadLength(w)
             part == SubSeq(Content(b), d + 1, d + M)
  <1>1. L \in Nat /\ M \in Nat
    BY LengthsAddUp, BlockLenAssumption
  <1>2. Content(b) \in Seq(Byte) /\ Len(Content(b)) = L
    BY ContentType
  <1>3. Content(w) \in Seq(Byte) /\ Len(Content(w)) = M
    BY ContentType
  <1>4. part \in Seq(Byte) /\ Len(part) = M /\ \A i \in 1 .. M : part[i] = Content(b)[i + d]
    BY <1>1, <1>2
  <1>5. \A i \in 1 .. M : Content(w)[i] = part[i]
    <2> TAKE i \in 1 .. M
    <2>1. i - 1 \in 0 .. M - 1 /\ i + d \in 1 .. L /\ i - 1 + d = i + d - 1
      BY <1>1
    <2>2. Content(w)[i] = w.mem[CellAt(w.read, i - 1)]
      BY ContentType
    <2>3. Content(b)[i + d] = b.mem[CellAt(b.read, i + d - 1)]
      BY <2>1, ContentType, SMTT(30)
    <2>4. CellAt(w.read, i - 1) = CellAt(b.read, i + d - 1)
      BY <2>1
    <2> QED BY <1>4, <2>2, <2>3, <2>4
  <1> HIDE DEF part, M, L
  <1> QED BY <1>1, <1>3, <1>4, <1>5, SeqEqual DEF part, M

(* Moving the read pointer forward drops the oldest bytes.                  *)
LEMMA ForwardRead ==
    ASSUME NEW b \in Block, PointersAgree(b), NEW w \in Block,
           NEW n \in Nat, n < GetCanReadLength(b),
           w = At(b, Forward(b.read, n), b.write, b.can_read)
    PROVE  /\ GetCanReadLength(w) = GetCanReadLength(b) - n
           /\ \A i \in 0 .. GetCanReadLength(w) - 1 :
                 CellAt(w.read, i) = CellAt(b.read, i + n)
  <1> USE BlockLenAssumption
  <1> b.read \in 0 .. BlockLen /\ b.write \in 0 .. BlockLen
    BY DEF Block
  <1>0. w.read = Forward(b.read, n) /\ w.write = b.write /\ w.can_read = b.can_read
    BY DEF At
  <1>1. CASE b.write > b.read
    BY <1>0, <1>1 DEF Forward, CellAt, GetCanReadLength
  <1>2. CASE b.write < b.read
    BY <1>0, <1>2 DEF Forward, CellAt, GetCanReadLength
  <1>3. CASE b.write = b.read
    BY <1>0, <1>3 DEF Forward, CellAt, GetCanReadLength, PointersAgree
  <1> QED BY <1>1, <1>2, <1>3

(* Moving the read point forward takes bytes from the front of the          *)
(* content.                                                                 *)
LEMMA ContentRead ==
    ASSUME NEW b \in Block, PointersAgree(b), NEW len \in Nat
    PROVE  Content(MoveReadPt(b, len))
             = SubSeq(Content(b), Least(len, GetCanReadLength(b)) + 1, Len(Content(b)))
  <1> DEFINE L == GetCanReadLength(b)
             w == MoveReadPt(b, len)
  <1>1. L \in Nat /\ w \in Block /\ Content(b) \in Seq(Byte) /\ Len(Content(b)) = L
    BY LengthsAddUp, MoveReadPtOK, ContentType, BlockLenAssumption
  <1>2. CASE len = 0
    <2>1. w.read = b.read /\ w.write = b.write /\ w.can_read = b.can_read /\ w.mem = b.mem
      <3>1. GetCanWriteLength(b) \in Nat /\ b.read \in Nat
        BY LengthsAddUp, BlockLenAssumption DEF Block
      <3>2. CASE GetCanWriteLength(b) = 0
        BY <1>2, <3>2 DEF MoveReadPt
      <3>3. CASE GetCanWriteLength(b) # 0
        <4>1. w = At(b, Backward(b.read, 0), b.write, b.can_read)
          <5>1. len <= 0 /\ ~(len > 0)
            BY <1>2
          <5>2. -len = 0
            BY <5>1
          <5>3. ~(GetCanWriteLength(b) <= -len)
            BY <3>1, <3>3, <5>2
          <5> QED BY <3>3, <5>1, <5>2, <5>3 DEF MoveReadPt
        <4>2. Backward(b.read, 0) = b.read
          BY <3>1 DEF Backward
        <4> QED BY <4>1, <4>2 DEF At
      <3> QED BY <3>2, <3>3
    <2>2. Content(w) = Content(b)
      BY <2>1 DEF Content, GetCanReadLength
    <2>3. Least(len, L) = 0
      BY <1>1, <1>2 DEF Least
    <2> QED BY <1>1, <2>2, <2>3, SubSeqFull
  <1>3. CASE len > 0 /\ L <= len
    <2>1. Content(w) = <<>>
      <3>1. GetCanReadLength(w) = 0
        BY <1>1, <1>3, BlockLenAssumption DEF MoveReadPt, Clear, At, GetCanReadLength
      <3> QED BY <3>1, <1>1, ContentType, EmptySeq
    <2>2. Least(len, L) = L
      BY <1>1, <1>3 DEF Least
    <2> QED BY <1>1, <2>1, <2>2, SubSeqEmpty
  <1>4. CASE len > 0 /\ len < L
    <2>1. w = At(b, Forward(b.read, len), b.write, b.can_read) /\ w.mem = b.mem
      BY <1>1, <1>4 DEF MoveReadPt, At
    <2>2. Least(len, L) = len
      BY <1>1, <1>4 DEF Least
    <2>3. /\ GetCanReadLength(w) = L - len
          /\ \A i \in 0 .. GetCanReadLength(w) - 1 :
                 CellAt(w.read, i) = CellAt(b.read, i + len)
      BY <1>1, <1>4, <2>1, ForwardRead
    <2>4. len + GetCanReadLength(w) = L /\ len + GetCanReadLength(w) <= GetCanReadLength(b)
      BY <1>1, <2>3
    <2> HIDE DEF w
    <2>5. Content(w) = SubSeq(Content(b), len + 1, len + GetCanReadLength(w))
      BY <1>1, <2>1, <2>3, <2>4, SameMemory
    <2>6. Least(len, GetCanReadLength(b)) = len /\ Len(Content(b)) = len + GetCanReadLength(w)
      BY <1>1, <2>2, <2>4
    <2> QED BY <2>5, <2>6 DEF w
  <1> QED BY <1>1, <1>2, <1>3, <1>4

(* Moving the read pointer backward puts bytes in front.                    *)
LEMMA BackwardRead ==
    ASSUME NEW b \in Block, PointersAgree(b), NEW w \in Block,
           NEW n \in Nat, n < GetCanWriteLength(b),
           w = At(b, Backward(b.read, n), b.write, b.can_read)
    PROVE  /\ GetCanReadLength(w) = GetCanReadLength(b) + n
           /\ \A i \in 0 .. GetCanReadLength(b) - 1 :
                 CellAt(b.read, i) = CellAt(w.read, i + n)
  <1> USE BlockLenAssumption
  <1> b.read \in 0 .. BlockLen /\ b.write \in 0 .. BlockLen
    BY DEF Block
  <1>0. w.read = Backward(b.read, n) /\ w.write = b.write /\ w.can_read = b.can_read
    BY DEF At
  <1>1. CASE b.write > b.read
    BY <1>0, <1>1 DEF Backward, CellAt, GetCanReadLength, GetCanWriteLength
  <1>2. CASE b.write < b.read
    BY <1>0, <1>2 DEF Backward, CellAt, GetCanReadLength, GetCanWriteLength
  <1>3. CASE b.write = b.read
    BY <1>0, <1>3
       DEF Backward, CellAt, GetCanReadLength, GetCanWriteLength, PointersAgree
  <1> QED BY <1>1, <1>2, <1>3

(* The read point goes back all the way: the block is full, and what was    *)
(* readable stands at the end.                                              *)
LEMMA FullBackward ==
    ASSUME NEW b \in Block, PointersAgree(b), NEW w \in Block,
           GetCanWriteLength(b) > 0, w = At(b, b.write, b.write, TRUE)
    PROVE  /\ GetCanReadLength(w) = BlockLen
           /\ \A i \in 0 .. GetCanReadLength(b) - 1 :
                 CellAt(b.read, i) = CellAt(w.read, i + GetCanWriteLength(b))
  <1> USE BlockLenAssumption
  <1> b.read \in 0 .. BlockLen /\ b.write \in 0 .. BlockLen
    BY DEF Block
  <1>0. w.read = b.write
    BY DEF At
  <1>1. GetCanReadLength(w) = BlockLen
    BY DEF At, GetCanReadLength
  <1>2. ASSUME NEW i \in 0 .. GetCanReadLength(b) - 1
        PROVE  CellAt(b.read, i) = CellAt(b.write, i + GetCanWriteLength(b))
    <2>1. CASE b.write > b.read
      BY <2>1 DEF CellAt, GetCanReadLength, GetCanWriteLength
    <2>2. CASE b.write < b.read
      BY <2>2 DEF CellAt, GetCanReadLength, GetCanWriteLength
    <2>3. CASE b.write = b.read /\ ~b.can_read
      BY <2>3 DEF GetCanReadLength
    <2>4. CASE b.write = b.read /\ b.can_read
      BY <2>4 DEF GetCanWriteLength
    <2> QED BY <2>1, <2>2, <2>3, <2>4
  <1> QED BY <1>0, <1>1, <1>2

(* Moving the read point back puts bytes before the content.                *)
LEMMA ContentUnread ==
    ASSUME NEW b \in Block, PointersAgree(b), NEW len \in Int, len <= 0
    PROVE  LET w == MoveReadPt(b, len)
               n == Least(-len, GetCanWriteLength(b))
           IN  Content(w) = SubSeq(Content(w), 1, n) \o Content(b)
  <1> DEFINE L == GetCanReadLength(b)
             F == GetCanWriteLength(b)
             w == MoveReadPt(b, len)
             n == Least(-len, F)
  <1>1. /\ L \in Nat /\ F \in Nat /\ n \in Nat /\ L + F = BlockLen /\ n <= F
        /\ n = -len \/ n = F
    BY LengthsAddUp, BlockLenAssumption DEF Least
  <1>2. w \in Block
    BY MoveReadPtOK
  <1>3. /\ w.mem = b.mem
        /\ GetCanReadLength(w) = n + L
        /\ \A i \in 0 .. L - 1 : CellAt(b.read, i) = CellAt(w.read, i + n)
    <2>1. CASE F = 0
      <3>1. w = b /\ n = 0
        BY <1>1, <2>1 DEF MoveReadPt
      <3> HIDE DEF w, n
      <3> QED BY <1>1, <3>1
    <2>2. CASE F > 0 /\ F <= -len
      <3>1. w = At(b, b.write, b.write, TRUE) /\ w.mem = b.mem
        BY <1>1, <2>2 DEF MoveReadPt, At
      <3>2. n = F
        BY <1>1, <2>2 DEF Least
      <3> HIDE DEF w, n
      <3>3. /\ GetCanReadLength(w) = BlockLen
            /\ \A i \in 0 .. L - 1 : CellAt(b.read, i) = CellAt(w.read, i + F)
        BY <1>2, <2>2, <3>1, FullBackward
      <3> HIDE DEF F, L
      <3>4. GetCanReadLength(w) = n + L
        BY <1>1, <3>2, <3>3
      <3>5. \A i \in 0 .. L - 1 : CellAt(b.read, i) = CellAt(w.read, i + n)
        BY <3>2, <3>3
      <3> QED BY <3>1, <3>4, <3>5
    <2>3. CASE F > 0 /\ ~(F <= -len)
      <3>1. w = At(b, Backward(b.read, -len), b.write, b.can_read) /\ w.mem = b.mem
        BY <1>1, <2>3 DEF MoveReadPt, At
      <3>2. n = -len /\ n < F
        BY <1>1, <2>3 DEF Least
      <3>3. w = At(b, Backward(b.read, n), b.write, b.can_read)
        BY <3>1, <3>2
      <3> HIDE DEF w, n
      <3>4. /\ GetCanReadLength(w) = L + n
            /\ \A i \in 0 .. L - 1 : CellAt(b.read, i) = CellAt(w.read, i + n)
        BY <1>1, <1>2, <3>2, <3>3, BackwardRead
      <3> QED BY <1>1, <3>1, <3>4
    <2> QED BY <1>1, <2>1, <2>2, <2>3
  <1>4. Content(b) = SubSeq(Content(w), n + 1, n + L)
    <2> HIDE DEF w, n
    <2>1. n + GetCanReadLength(b) <= GetCanReadLength(w)
      BY <1>1, <1>3
    <2> QED BY <1>1, <1>2, <1>3, <2>1, SameMemory
  <1>5. Content(w) \in Seq(Byte) /\ Len(Content(w)) = n + L
    BY <1>2, <1>3, ContentType
  <1>6. Content(w) = SubSeq(Content(w), 1, n) \o SubSeq(Content(w), n + 1, n + L)
    <2> HIDE DEF w, n, L
    <2>1. SubSeq(Content(w), 1, n + L) = Content(w)
      BY <1>5, SubSeqFull
    <2>2. /\ 1 \in 1 .. Len(Content(w)) + 1
          /\ n \in 1 - 1 .. Len(Content(w))
          /\ n + L \in n .. Len(Content(w))
      BY <1>1, <1>5
    <2> QED BY <1>5, <2>1, <2>2, ConcatAdjacentSubSeq
  <1> QED BY <1>4, <1>6

(* Moving the write pointer backward drops the newest bytes.                *)
LEMMA BackwardWrite ==
    ASSUME NEW b \in Block, PointersAgree(b), NEW w \in Block,
           NEW n \in Nat, n < GetCanReadLength(b),
           w = At(b, b.read, Backward(b.write, n), b.can_read)
    PROVE  GetCanReadLength(w) = GetCanReadLength(b) - n /\ w.read = b.read
  <1> USE BlockLenAssumption
  <1> b.read \in 0 .. BlockLen /\ b.write \in 0 .. BlockLen
    BY DEF Block
  <1>0. w.read = b.read /\ w.write = Backward(b.write, n) /\ w.can_read = b.can_read
    BY DEF At
  <1>1. CASE b.write > b.read
    BY <1>0, <1>1 DEF Backward, GetCanReadLength
  <1>2. CASE b.write < b.read
    BY <1>0, <1>2 DEF Backward, GetCanReadLength
  <1>3. CASE b.write = b.read
    BY <1>0, <1>3 DEF Backward, GetCanReadLength, PointersAgree
  <1> QED BY <1>1, <1>2, <1>3

(* Moving the write point back takes bytes from the end of the content.     *)
LEMMA ContentRetract ==
    ASSUME NEW b \in Block, PointersAgree(b), NEW len \in Nat
    PROVE  Content(MoveWritePt(b, -len))
             = SubSeq(Content(b), 1,
                      Len(Content(b)) - Least(len, GetCanReadLength(b)))
  <1> DEFINE L == GetCanReadLength(b)
             w == MoveWritePt(b, -len)
             n == Least(len, L)
  <1>1. /\ L \in Nat /\ n \in Nat /\ n <= L /\ -len \in Int
        /\ Content(b) \in Seq(Byte) /\ Len(Content(b)) = L
    BY LengthsAddUp, ContentType, BlockLenAssumption DEF Least
  <1>2. w \in Block
    BY <1>1, MoveWritePtOK
  <1>3. ~(-len > 0) /\ -(-len) = len
    OBVIOUS
  <1>4. CASE L = 0
    <2>1. w = b
      BY <1>3, <1>4 DEF MoveWritePt
    <2>2. n = 0
      BY <1>1, <1>4
    <2> HIDE DEF w, n, L
    <2>3. Len(Content(b)) - n = Len(Content(b))
      BY <1>1, <2>2
    <2>4. Content(w) = SubSeq(Content(b), 1, Len(Content(b)) - n)
      BY <1>1, <2>1, <2>3, SubSeqFull
    <2> QED BY <2>4 DEF n, w, L
  <1>5. CASE L > 0 /\ L <= len
    <2>1. w = Clear(b)
      BY <1>1, <1>3, <1>5 DEF MoveWritePt
    <2>2. GetCanReadLength(w) = 0
      BY <2>1 DEF Clear, At, GetCanReadLength
    <2>3. Content(w) = <<>>
      BY <1>2, <2>2, ContentType, EmptySeq
    <2>4. Len(Content(b)) - n = 0
      BY <1>1, <1>5 DEF Least
    <2> HIDE DEF w, n, L
    <2>5. Content(w) = SubSeq(Content(b), 1, Len(Content(b)) - n)
      BY <1>1, <2>3, <2>4
    <2> QED BY <2>5 DEF n, w, L
  <1>6. CASE L > 0 /\ len < L
    <2>1. w = At(b, b.read, Backward(b.write, len), b.can_read)
      BY <1>1, <1>3, <1>6 DEF MoveWritePt
    <2>2. n = len
      BY <1>1, <1>6 DEF Least
    <2> HIDE DEF w
    <2>3. GetCanReadLength(w) = L - len /\ w.read = b.read /\ w.mem = b.mem
      BY <1>2, <1>6, <2>1, BackwardWrite DEF At
    <2>4. 0 + GetCanReadLength(w) <= GetCanReadLength(b) /\ GetCanReadLength(w) \in Nat
      BY <1>1, <1>6, <2>3
    <2>5. \A i \in 0 .. GetCanReadLength(w) - 1 : CellAt(w.read, i) = CellAt(b.read, i + 0)
      BY <2>3, <2>4
    <2>6. Content(w) = SubSeq(Content(b), 0 + 1, 0 + GetCanReadLength(w))
      BY <1>2, <2>3, <2>4, <2>5, SameMemory
    <2>7. 0 + GetCanReadLength(w) = Len(Content(b)) - n
      BY <1>1, <2>2, <2>3, <2>4
    <2> QED BY <2>6, <2>7 DEF w
  <1> QED BY <1>1, <1>4, <1>5, <1>6

-----------------------------------------------------------------------------
(* readv into the free segments, then MoveWritePt: the same as one Write.   *)

(* The cells of one segment.                                                *)
LEMMA SegmentOK ==
    ASSUME NEW from \in 0 .. BlockLen, NEW len \in 0 .. BlockLen - from
    PROVE  /\ Segment(from, len) \in Seq(Cells) /\ Len(Segment(from, len)) = len
           /\ \A i \in 1 .. len : Segment(from, len)[i] = from + i - 1
  BY BlockLenAssumption DEF Segment, Cells

(* The elements of two sequences put together.                              *)
LEMMA ConcatIndex ==
    ASSUME NEW S, NEW s \in Seq(S), NEW t \in Seq(S)
    PROVE  /\ s \o t \in Seq(S) /\ Len(s \o t) = Len(s) + Len(t)
           /\ \A i \in 1 .. Len(s) + Len(t) :
                 (s \o t)[i] = IF i <= Len(s) THEN s[i] ELSE t[i - Len(s)]
  OBVIOUS

(* The free segments are the cells behind the write point, in their order.  *)
LEMMA FreeSegments ==
    ASSUME NEW b \in Block, PointersAgree(b)
    PROVE  /\ FreeCells(b) \in Seq(Cells)
           /\ Len(FreeCells(b)) = GetCanWriteLength(b)
           /\ \A i \in 1 .. Len(FreeCells(b)) :
                 FreeCells(b)[i] = CellAt(b.write, i - 1)
  <1> DEFINE free == GetFreeMemoryBlock(b)
  <1> USE BlockLenAssumption
  <1> b.read \in 0 .. BlockLen /\ b.write \in 0 .. BlockLen
    BY DEF Block
  <1>1. CASE b.write > b.read \/ (b.write = b.read /\ ~b.can_read)
    <2> DEFINE s1 == Segment(b.write, BlockLen - b.write)
               s2 == Segment(0, b.read)
    <2>1. free[1] = s1 /\ free[2] = s2
      BY <1>1 DEF GetFreeMemoryBlock
    <2>2. /\ s1 \in Seq(Cells) /\ Len(s1) = BlockLen - b.write
          /\ \A i \in 1 .. Len(s1) : s1[i] = b.write + i - 1
      <3>1. BlockLen - b.write \in 0 .. BlockLen - b.write
        OBVIOUS
      <3> QED BY <3>1, SegmentOK
    <2>3. /\ s2 \in Seq(Cells) /\ Len(s2) = b.read
          /\ \A i \in 1 .. Len(s2) : s2[i] = 0 + i - 1
      <3>1. b.read \in 0 .. BlockLen - 0 /\ 0 \in 0 .. BlockLen
        OBVIOUS
      <3> QED BY <3>1, SegmentOK
    <2>4. GetCanWriteLength(b) = BlockLen - b.write + b.read
      BY <1>1 DEF GetCanWriteLength, PointersAgree
    <2> HIDE DEF s1, s2
    <2>5. /\ s1 \o s2 \in Seq(Cells) /\ Len(s1 \o s2) = Len(s1) + Len(s2)
          /\ \A i \in 1 .. Len(s1) + Len(s2) :
               (s1 \o s2)[i] = IF i <= Len(s1) THEN s1[i] ELSE s2[i - Len(s1)]
      BY <2>2, <2>3, ConcatIndex
    <2>6. \A i \in 1 .. Len(s1) + Len(s2) : (s1 \o s2)[i] = CellAt(b.write, i - 1)
      <3> TAKE i \in 1 .. Len(s1) + Len(s2)
      <3>1. CASE i <= Len(s1)
        BY <2>2, <2>5, <3>1 DEF CellAt
      <3>2. CASE i > Len(s1)
        <4>1. i - Len(s1) \in 1 .. Len(s2) /\ i \in 1 .. Len(s1) + Len(s2)
          BY <2>2, <2>3, <3>2
        <4>2. (s1 \o s2)[i] = s2[i - Len(s1)]
          BY <2>2, <2>5, <3>2, <4>1
        <4>3. s2[i - Len(s1)] = 0 + (i - Len(s1)) - 1
          BY <2>3, <4>1
        <4>4. CellAt(b.write, i - 1) = 0 + (i - Len(s1)) - 1
          <5>1. Len(s1) = BlockLen - b.write /\ i \in Int
            BY <2>2, <2>3
          <5> QED BY <3>2, <5>1 DEF CellAt
        <4> QED BY <4>2, <4>3, <4>4
      <3> QED BY <2>2, <2>3, <3>1, <3>2
    <2> QED BY <2>1, <2>2, <2>3, <2>4, <2>5, <2>6 DEF FreeCells
  <1>2. CASE b.write < b.read
    <2> DEFINE s1 == Segment(b.write, b.read - b.write)
    <2>1. free[1] = s1 /\ free[2] = <<>>
      BY <1>2 DEF GetFreeMemoryBlock
    <2>2. /\ s1 \in Seq(Cells) /\ Len(s1) = b.read - b.write
          /\ \A i \in 1 .. Len(s1) : s1[i] = b.write + i - 1
      <3>1. b.read - b.write \in 0 .. BlockLen - b.write
        BY <1>2
      <3> QED BY <3>1, SegmentOK
    <2>3. GetCanWriteLength(b) = b.read - b.write
      BY <1>2 DEF GetCanWriteLength
    <2> HIDE DEF s1
    <2>4. s1 \o <<>> = s1
      BY <2>2, ConcatEmptySeq
    <2>5. \A i \in 1 .. Len(s1) : s1[i] = CellAt(b.write, i - 1)
      BY <1>2, <2>2 DEF CellAt
    <2> QED BY <2>1, <2>2, <2>3, <2>4, <2>5 DEF FreeCells
  <1>3. CASE b.write = b.read /\ b.can_read
    <2>1. free[1] = <<>> /\ free[2] = <<>>
      BY <1>3 DEF GetFreeMemoryBlock
    <2>2. GetCanWriteLength(b) = 0
      BY <1>3 DEF GetCanWriteLength
    <2> QED BY <2>1, <2>2 DEF FreeCells
  <1>4. b.write > b.read \/ b.write < b.read \/ b.write = b.read
    OBVIOUS
  <1>5. b.can_read \/ ~b.can_read
    OBVIOUS
  <1> QED BY <1>1, <1>2, <1>3, <1>4, <1>5, Zenon

(* Filling the free segments is writing.                                    *)
LEMMA FillIsWrite ==
    ASSUME NEW b \in Block, PointersAgree(b), NEW data \in Seq(Byte),
           Len(data) > 0, Len(data) <= Len(FreeCells(b))
    PROVE  Fill(b, data) = Write(b, data) /\ WriteLen(b, data) = Len(data)
  <1> DEFINE cells == FreeCells(b)
             F == GetCanWriteLength(b)
             m == Scatter(b.mem, cells, data)
             n == Len(data)
  <1>1. /\ n \in Nat /\ n > 0 /\ F \in 0 .. BlockLen /\ n <= F
        /\ Len(cells) = F /\ b.write \in 0 .. BlockLen
        /\ \A i \in 1 .. n : cells[i] = CellAt(b.write, i - 1)
    BY FreeSegments, LengthsAddUp, BlockLenAssumption DEF Block
  <1>2. WriteLen(b, data) = n
    BY <1>1 DEF WriteLen, Least
  <1>3. m = Store(b, data, n)
    <2>1. ASSUME NEW c \in Cells
          PROVE  m[c] = Store(b, data, n)[c]
      <3> HIDE DEF cells, n
      <3>1. \A i \in 1 .. n : cells[i] = c => Behind(b.write, c) = i - 1
        <4> TAKE i \in 1 .. n
        <4>1. i - 1 \in 0 .. BlockLen - 1
          BY <1>1, BlockLenAssumption
        <4> QED BY <1>1, <4>1, CellAtRange
      <3>2. Behind(b.write, c) \in Nat
        BY <1>1, <2>1, BlockLenAssumption DEF Behind, Cells
      <3>3. CASE Behind(b.write, c) < n
        <4> DEFINE k == Behind(b.write, c) + 1
        <4>1. k \in 1 .. n
          BY <1>1, <3>2, <3>3
        <4>2. cells[k] = c
          <5>1. cells[k] = CellAt(b.write, k - 1)
            BY <1>1, <4>1
          <5>2. CellAt(b.write, Behind(b.write, c)) = c
            BY <1>1, <2>1, BlockLenAssumption DEF CellAt, Behind, Cells
          <5>3. k - 1 = Behind(b.write, c)
            BY <3>2
          <5> QED BY <5>1, <5>2, <5>3
        <4>3. \A i \in 1 .. n : cells[i] = c => i = k
          BY <1>1, <3>1, <3>2
        <4>4. m[c] = data[CHOOSE i \in 1 .. n : cells[i] = c]
          BY <2>1, <4>1, <4>2 DEF Scatter, n
        <4>5. (CHOOSE i \in 1 .. n : cells[i] = c) = k
          BY <4>1, <4>2, <4>3
        <4> QED BY <2>1, <3>3, <4>4, <4>5 DEF Store
      <3>4. CASE ~(Behind(b.write, c) < n)
        <4>1. ~\E i \in 1 .. n : cells[i] = c
          BY <1>1, <3>1, <3>2, <3>4
        <4> QED BY <2>1, <3>4, <4>1 DEF Scatter, Store, n
      <3> QED BY <3>3, <3>4
    <2> QED BY <2>1 DEF Scatter, Store
  <1> DEFINE f == [read |-> b.read, write |-> b.write, can_read |-> b.can_read, mem |-> m]
  <1>4. GetCanWriteLength(f) = F
    BY DEF GetCanWriteLength
  <1>5. Fill(b, data) = MoveWritePt(f, n)
    BY DEF Fill
  <1>8. f.read = b.read /\ f.write = b.write /\ f.can_read = b.can_read /\ f.mem = m
    OBVIOUS
  <1> HIDE DEF f, m, n, F
  <1>6. CASE F <= n
    <2>0. n = F /\ 0 < F /\ n > 0
      BY <1>1, <1>6, BlockLenAssumption
    <2>1. MoveWritePt(f, n) = At(f, f.read, f.read, TRUE)
      <3>1. 0 < GetCanWriteLength(f) /\ GetCanWriteLength(f) <= n /\ n > 0
        BY <1>4, <1>6, <2>0
      <3>2. GetCanWriteLength(f) # 0
        BY <1>1, <1>4, <2>0, BlockLenAssumption
      <3> QED BY <3>1, <3>2 DEF MoveWritePt
    <2>2. WriteLen(b, data) = GetCanWriteLength(b)
      BY <1>2, <2>0 DEF F
    <2>3. Write(b, data) = [read |-> b.read, write |-> b.read, can_read |-> TRUE,
                            mem |-> Store(b, data, n)]
      BY <1>2, <2>2 DEF Write
    <2> QED BY <1>2, <1>3, <1>5, <1>8, <2>1, <2>3 DEF At, n
  <1>7. CASE ~(F <= n)
    <2>1. MoveWritePt(f, n) = At(f, f.read, Forward(f.write, n), f.can_read)
      BY <1>1, <1>4, <1>7 DEF MoveWritePt
    <2>2. WriteLen(b, data) # GetCanWriteLength(b)
      BY <1>1, <1>2, <1>7 DEF F
    <2>3. Write(b, data) = [read |-> b.read, write |-> Forward(b.write, n),
                            can_read |-> b.can_read, mem |-> Store(b, data, n)]
      BY <1>2, <2>2 DEF Write
    <2> QED BY <1>2, <1>3, <1>5, <1>8, <2>1, <2>3 DEF At, n
  <1> QED BY <1>2, <1>6, <1>7 DEF n

-----------------------------------------------------------------------------
(* Moving bytes from one block to another.                                  *)

(* The used segments are the cells behind the read point, in their order.   *)
LEMMA UseSegments ==
    ASSUME NEW b \in Block, PointersAgree(b)
    PROVE  LET use == GetUseMemoryBlock(b)
           IN  /\ use[1] \in Seq(Cells) /\ use[2] \in Seq(Cells)
               /\ Len(use[1]) \in Nat /\ Len(use[2]) \in Nat
               /\ Len(use[1]) + Len(use[2]) = GetCanReadLength(b)
               /\ \A i \in 1 .. Len(use[1]) : use[1][i] = CellAt(b.read, i - 1)
               /\ \A i \in 1 .. Len(use[2]) :
                     use[2][i] = CellAt(b.read, Len(use[1]) + i - 1)
  <1> DEFINE use == GetUseMemoryBlock(b)
  <1> USE BlockLenAssumption
  <1> b.read \in 0 .. BlockLen /\ b.write \in 0 .. BlockLen
    BY DEF Block
  <1>1. CASE b.read > b.write \/ (b.write = b.read /\ b.can_read)
    <2> DEFINE s1 == Segment(b.read, BlockLen - b.read)
               s2 == Segment(0, b.write)
    <2>1. use[1] = s1 /\ use[2] = s2
      BY <1>1 DEF GetUseMemoryBlock
    <2>2. /\ s1 \in Seq(Cells) /\ Len(s1) = BlockLen - b.read
          /\ \A i \in 1 .. Len(s1) : s1[i] = b.read + i - 1
      <3>1. BlockLen - b.read \in 0 .. BlockLen - b.read
        OBVIOUS
      <3> QED BY <3>1, SegmentOK
    <2>3. /\ s2 \in Seq(Cells) /\ Len(s2) = b.write
          /\ \A i \in 1 .. Len(s2) : s2[i] = 0 + i - 1
      <3>1. b.write \in 0 .. BlockLen - 0 /\ 0 \in 0 .. BlockLen
        OBVIOUS
      <3> QED BY <3>1, SegmentOK
    <2>4. GetCanReadLength(b) = BlockLen - b.read + b.write
      BY <1>1 DEF GetCanReadLength, PointersAgree
    <2> HIDE DEF s1, s2, use
    <2>5. \A i \in 1 .. Len(s1) : s1[i] = CellAt(b.read, i - 1)
      BY <2>2 DEF CellAt
    <2>6. \A i \in 1 .. Len(s2) : s2[i] = CellAt(b.read, Len(s1) + i - 1)
      BY <2>2, <2>3 DEF CellAt
    <2>7. Len(s1) + Len(s2) = GetCanReadLength(b) /\ Len(s1) \in Nat /\ Len(s2) \in Nat
      BY <2>2, <2>3, <2>4
    <2> QED BY <2>1, <2>2, <2>3, <2>5, <2>6, <2>7 DEF use
  <1>2. CASE b.read < b.write
    <2> DEFINE s1 == Segment(b.read, b.write - b.read)
    <2>1. use[1] = s1 /\ use[2] = <<>>
      BY <1>2 DEF GetUseMemoryBlock
    <2>2. /\ s1 \in Seq(Cells) /\ Len(s1) = b.write - b.read
          /\ \A i \in 1 .. Len(s1) : s1[i] = b.read + i - 1
      <3>1. b.write - b.read \in 0 .. BlockLen - b.read
        BY <1>2
      <3> QED BY <3>1, SegmentOK
    <2>3. GetCanReadLength(b) = b.write - b.read
      BY <1>2 DEF GetCanReadLength
    <2> HIDE DEF s1, use
    <2>5. \A i \in 1 .. Len(s1) : s1[i] = CellAt(b.read, i - 1)
      BY <1>2, <2>2 DEF CellAt
    <2>6. Len(s1) + Len(<<>>) = GetCanReadLength(b) /\ Len(s1) \in Nat
      BY <1>2, <2>2, <2>3
    <2> QED BY <2>1, <2>2, <2>5, <2>6 DEF use
  <1>3. CASE b.write = b.read /\ ~b.can_read
    <2>1. use[1] = <<>> /\ use[2] = <<>>
      BY <1>3 DEF GetUseMemoryBlock
    <2>2. GetCanReadLength(b) = 0
      BY <1>3 DEF GetCanReadLength
    <2> QED BY <2>1, <2>2
  <1>4. b.read > b.write \/ b.read < b.write \/ b.write = b.read
    OBVIOUS
  <1>5. b.can_read \/ ~b.can_read
    OBVIOUS
  <1> QED BY <1>1, <1>2, <1>3, <1>4, <1>5, Zenon

(* The two parts of a transfer are consecutive pieces of the bytes of src.  *)
LEMMA TransferParts ==
    ASSUME NEW b \in Block, PointersAgree(b), NEW len \in Nat
    PROVE  LET want == TransferWant(b, len)
               k    == Least(want, Len(GetUseMemoryBlock(b)[1]))
           IN  /\ want \in 0 .. GetCanReadLength(b) /\ k \in 0 .. want
               /\ len > 0 => want <= len
               /\ want = len \/ want = GetCanReadLength(b)
               /\ FirstPart(b, len) = SubSeq(Content(b), 1, k)
               /\ SecondPart(b, len) = SubSeq(Content(b), k + 1, want)
  <1> DEFINE use  == GetUseMemoryBlock(b)
             s1   == use[1]
             s2   == use[2]
             L    == GetCanReadLength(b)
             want == TransferWant(b, len)
             k    == Least(want, Len(s1))
             C    == Content(b)
  <1>1. /\ s1 \in Seq(Cells) /\ s2 \in Seq(Cells)
        /\ Len(s1) \in Nat /\ Len(s2) \in Nat /\ Len(s1) + Len(s2) = L
        /\ \A i \in 1 .. Len(s1) : s1[i] = CellAt(b.read, i - 1)
        /\ \A i \in 1 .. Len(s2) : s2[i] = CellAt(b.read, Len(s1) + i - 1)
    BY UseSegments
  <1>2. /\ L \in Nat /\ C \in Seq(Byte) /\ Len(C) = L
        /\ \A i \in 1 .. L : C[i] = b.mem[CellAt(b.read, i - 1)]
    BY LengthsAddUp, ContentType, BlockLenAssumption
  <1>3. /\ want \in 0 .. L /\ (len > 0 => want <= len)
        /\ want = len \/ want = L
    BY <1>2 DEF TransferWant, Least
  <1>4. k \in 0 .. want /\ k <= Len(s1) /\ (want >= Len(s1) => k = Len(s1))
        /\ (~(want >= Len(s1)) => k = want)
    BY <1>1, <1>2, <1>3 DEF Least
  <1>5. FirstPart(b, len) = SubSeq(C, 1, k)
    <2>1. FirstPart(b, len) = Gather(b, SubSeq(s1, 1, k))
      BY DEF FirstPart
    <2> HIDE DEF s1, s2, use, L, want, k, C
    <2>2. /\ Len(SubSeq(s1, 1, k)) = k
          /\ \A i \in 1 .. k : SubSeq(s1, 1, k)[i] = s1[i]
      BY <1>1, <1>2, <1>3, <1>4
    <2>3. /\ Len(SubSeq(C, 1, k)) = k /\ SubSeq(C, 1, k) \in Seq(Byte)
          /\ \A i \in 1 .. k : SubSeq(C, 1, k)[i] = C[i]
      BY <1>1, <1>2, <1>3, <1>4
    <2>4. Gather(b, SubSeq(s1, 1, k)) = [i \in 1 .. k |-> b.mem[SubSeq(s1, 1, k)[i]]]
      BY <2>2 DEF Gather
    <2>5. ASSUME NEW i \in 1 .. k
          PROVE  b.mem[SubSeq(s1, 1, k)[i]] = SubSeq(C, 1, k)[i]
      <3>1. i \in 1 .. Len(s1) /\ i \in 1 .. L
        BY <1>1, <1>2, <1>3, <1>4, <2>5
      <3>2. s1[i] = CellAt(b.read, i - 1) /\ C[i] = b.mem[CellAt(b.read, i - 1)]
        BY <1>1, <1>2, <3>1
      <3> QED BY <2>2, <2>3, <2>5, <3>2
    <2>6. SubSeq(C, 1, k) = [i \in 1 .. k |-> SubSeq(C, 1, k)[i]]
      BY <2>3
    <2> QED BY <2>1, <2>4, <2>5, <2>6
  <1>6. SecondPart(b, len) = SubSeq(C, k + 1, want)
    <2>1. CASE want >= Len(s1)
      <3> DEFINE j == want - Len(s1)
      <3>1. SecondPart(b, len) = Gather(b, SubSeq(s2, 1, j))
        BY <2>1 DEF SecondPart
      <3> HIDE DEF s1, s2, use, L, want, k, C
      <3>2. j \in 0 .. Len(s2) /\ k = Len(s1)
        BY <1>1, <1>2, <1>3, <1>4, <2>1
      <3> HIDE DEF j
      <3>3. /\ Len(SubSeq(s2, 1, j)) = j
            /\ \A i \in 1 .. j : SubSeq(s2, 1, j)[i] = s2[i]
        BY <1>1, <3>2
      <3>4. want = k + j /\ want \in Nat /\ k \in Nat /\ j \in Nat
        BY <1>1, <1>2, <1>3, <3>2 DEF j
      <3>5. /\ Len(SubSeq(C, k + 1, want)) = j /\ SubSeq(C, k + 1, want) \in Seq(Byte)
            /\ \A i \in 1 .. j : SubSeq(C, k + 1, want)[i] = C[k + i]
        BY <1>2, <1>3, <3>2, <3>4
      <3>6. Gather(b, SubSeq(s2, 1, j)) = [i \in 1 .. j |-> b.mem[SubSeq(s2, 1, j)[i]]]
        BY <3>3 DEF Gather
      <3>7. ASSUME NEW i \in 1 .. j
            PROVE  b.mem[SubSeq(s2, 1, j)[i]] = SubSeq(C, k + 1, want)[i]
        <4>1. k + i \in 1 .. L /\ i \in 1 .. Len(s2)
          BY <1>1, <1>3, <3>2, <3>4, <3>7
        <4>2. C[k + i] = b.mem[CellAt(b.read, k + i - 1)]
          <5> DEFINE q == k + i
          <5>1. q \in 1 .. L
            BY <4>1
          <5>0. q - 1 = k + i - 1
            BY <3>4, <3>7
          <5> HIDE DEF q
          <5>2. C[q] = b.mem[CellAt(b.read, q - 1)]
            BY <1>2, <5>1
          <5> QED BY <5>0, <5>2 DEF q
        <4>3. s2[i] = CellAt(b.read, k + i - 1)
          BY <1>1, <3>2, <4>1
        <4> QED BY <3>3, <3>5, <3>7, <4>2, <4>3
      <3>8. SubSeq(C, k + 1, want) = [i \in 1 .. j |-> SubSeq(C, k + 1, want)[i]]
        <4> DEFINE part == SubSeq(C, k + 1, want)
        <4>1. part \in Seq(Byte) /\ Len(part) = j
          BY <3>5
        <4> HIDE DEF part
        <4>2. part = [i \in 1 .. j |-> part[i]]
          BY <4>1
        <4> QED BY <4>2 DEF part
      <3> QED BY <3>1, <3>6, <3>7, <3>8
    <2>2. CASE ~(want >= Len(s1))
      <3>1. SecondPart(b, len) = <<>>
        BY <2>2 DEF SecondPart
      <3>2. k = want
        BY <1>4, <2>2
      <3> HIDE DEF s1, s2, use, L, want, k, C
      <3>3. SubSeq(C, k + 1, want) = <<>>
        BY <1>2, <1>3, <3>2
      <3> QED BY <3>1, <3>3
    <2> QED BY <2>1, <2>2
  <1> QED BY <1>3, <1>4, <1>5, <1>6

(* The first n elements of a part of a sequence.                            *)
LEMMA PrefixOfPart ==
    ASSUME NEW S, NEW C \in Seq(S), NEW a \in 1 .. Len(C) + 1,
           NEW m \in a - 1 .. Len(C), NEW n \in 0 .. m - a + 1
    PROVE  SubSeq(SubSeq(C, a, m), 1, n) = SubSeq(C, a, a + n - 1)
  <1> DEFINE p == SubSeq(C, a, m)
             l == SubSeq(p, 1, n)
             r == SubSeq(C, a, a + n - 1)
  <1>1. p \in Seq(S) /\ Len(p) = m - a + 1 /\ \A i \in 1 .. Len(p) : p[i] = C[a + i - 1]
    OBVIOUS
  <1>2. r \in Seq(S) /\ Len(r) = n /\ \A i \in 1 .. n : r[i] = C[a + i - 1]
    OBVIOUS
  <1> HIDE DEF p
  <1>3. l \in Seq(S) /\ Len(l) = n /\ \A i \in 1 .. n : l[i] = p[i]
    BY <1>1
  <1>4. \A i \in 1 .. n : l[i] = r[i]
    BY <1>1, <1>2, <1>3
  <1> HIDE DEF l, r
  <1>5. l = r
    BY <1>2, <1>3, <1>4, SeqEqual
  <1> QED BY <1>5 DEF l, r, p

(* A transfer appends the oldest bytes of src to dst and takes them from src; *)
(* it stops early only when dst is full.                                     *)
LEMMA TransferOK ==
    ASSUME NEW src \in Block, PointersAgree(src), NEW dst \in Block, PointersAgree(dst),
           NEW len \in Nat
    PROVE  LET t == TransferLen(src, dst, len)
           IN  /\ TransferDst(src, dst, len) \in Block
               /\ PointersAgree(TransferDst(src, dst, len))
               /\ TransferSrc(src, dst, len) \in Block
               /\ PointersAgree(TransferSrc(src, dst, len))
               /\ t \in 0 .. GetCanReadLength(src)
               /\ t + GetCanReadLength(dst) <= BlockLen
               /\ \/ t = len \/ t = GetCanReadLength(src)
                  \/ t + GetCanReadLength(dst) = BlockLen
               /\ Content(TransferDst(src, dst, len))
                    = Content(dst) \o SubSeq(Content(src), 1, t)
               /\ Content(TransferSrc(src, dst, len))
                    = SubSeq(Content(src), t + 1, Len(Content(src)))
  <1> DEFINE C    == Content(src)
             D    == Content(dst)
             L    == GetCanReadLength(src)
             want == TransferWant(src, len)
             k    == Least(want, Len(GetUseMemoryBlock(src)[1]))
             d1   == FirstPart(src, len)
             d2   == SecondPart(src, len)
             e    == Write(dst, d1)
             n1   == WriteLen(dst, d1)
             n2   == WriteLen(e, d2)
             t    == n1 + n2
  <1>1. /\ C \in Seq(Byte) /\ Len(C) = L /\ L \in Nat
        /\ D \in Seq(Byte) /\ Len(D) = GetCanReadLength(dst) /\ GetCanReadLength(dst) \in Nat
        /\ GetCanWriteLength(dst) \in Nat
        /\ GetCanReadLength(dst) + GetCanWriteLength(dst) = BlockLen
    BY ContentType, LengthsAddUp, BlockLenAssumption
  <1>2. /\ want \in 0 .. L /\ k \in 0 .. want /\ (want = len \/ want = L)
        /\ d1 = SubSeq(C, 1, k) /\ d2 = SubSeq(C, k + 1, want)
    BY TransferParts
  <1>3. d1 \in Seq(Byte) /\ Len(d1) = k /\ d2 \in Seq(Byte) /\ Len(d2) = want - k
    <2> HIDE DEF want, k, d1, d2, C, L
    <2> QED BY <1>1, <1>2
  <1>4. e \in Block /\ PointersAgree(e) /\ Content(e) = D \o SubSeq(d1, 1, n1)
    BY <1>3, WriteOK, ContentWrite
  <1>5. /\ n1 \in Nat /\ n1 <= k /\ n1 <= GetCanWriteLength(dst)
        /\ n1 = k \/ n1 = GetCanWriteLength(dst)
    <2>1. /\ n1 \in 0 .. GetCanWriteLength(dst) /\ n1 <= Len(d1)
          /\ n1 = Len(d1) \/ n1 = GetCanWriteLength(dst)
      <3> HIDE DEF d1
      <3> QED BY <1>3, WriteLenRange
    <2> HIDE DEF d1, n1, k
    <2> QED BY <1>1, <1>3, <2>1
  <1>6. /\ n2 \in Nat /\ n2 <= want - k /\ n2 <= GetCanWriteLength(e)
        /\ n2 = want - k \/ n2 = GetCanWriteLength(e)
        /\ GetCanWriteLength(e) \in Nat
        /\ GetCanReadLength(e) + GetCanWriteLength(e) = BlockLen
        /\ GetCanReadLength(e) \in Nat
    <2>1. /\ n2 \in 0 .. GetCanWriteLength(e) /\ n2 <= Len(d2)
          /\ n2 = Len(d2) \/ n2 = GetCanWriteLength(e)
      <3> HIDE DEF d2, e
      <3> QED BY <1>3, <1>4, WriteLenRange
    <2>2. /\ GetCanWriteLength(e) \in Nat /\ GetCanReadLength(e) \in Nat
          /\ GetCanReadLength(e) + GetCanWriteLength(e) = BlockLen
      <3> HIDE DEF e
      <3> QED BY <1>4, LengthsAddUp, BlockLenAssumption
    <2> HIDE DEF d2, e, n2, k, want
    <2> QED BY <1>3, <2>1, <2>2
  <1>7. /\ TransferDst(src, dst, len) = Write(e, d2) /\ TransferLen(src, dst, len) = t
        /\ TransferSrc(src, dst, len) = MoveReadPt(src, t)
    BY DEF TransferDst, TransferSrc, TransferLen
  <1>8. /\ Write(e, d2) \in Block /\ PointersAgree(Write(e, d2))
        /\ Content(Write(e, d2)) = Content(e) \o SubSeq(d2, 1, n2)
    BY <1>3, <1>4, WriteOK, ContentWrite
  <1> HIDE DEF C, D, L, want, k, d1, d2, e, n1, n2
  <1>9. GetCanReadLength(e) = GetCanReadLength(dst) + n1
    <2>1. Len(Content(e)) = GetCanReadLength(e)
      BY <1>4, ContentType
    <2>2. SubSeq(d1, 1, n1) \in Seq(Byte) /\ Len(SubSeq(d1, 1, n1)) = n1
      BY <1>2, <1>3, <1>5
    <2> QED BY <1>1, <1>4, <2>1, <2>2
  <1>10. /\ t \in 0 .. L /\ t + GetCanReadLength(dst) <= BlockLen
         /\ t = want \/ t + GetCanReadLength(dst) = BlockLen
         /\ n1 = k \/ (n1 < k /\ n2 = 0)
    BY <1>1, <1>2, <1>5, <1>6, <1>9, BlockLenAssumption
  <1>11. SubSeq(d1, 1, n1) \o SubSeq(d2, 1, n2) = SubSeq(C, 1, t)
    <2>1. SubSeq(d1, 1, n1) = SubSeq(C, 1, n1)
      <3>1. n1 \in 0 .. k - 1 + 1 /\ k \in 1 - 1 .. Len(C) /\ 1 \in 1 .. Len(C) + 1
        BY <1>1, <1>2, <1>5
      <3>2. SubSeq(SubSeq(C, 1, k), 1, n1) = SubSeq(C, 1, 1 + n1 - 1)
        BY <1>1, <3>1, PrefixOfPart
      <3>3. 1 + n1 - 1 = n1
        BY <1>5
      <3> QED BY <1>2, <3>2, <3>3
    <2>2. SubSeq(d2, 1, n2) = SubSeq(C, k + 1, k + n2)
      <3>1. /\ n2 \in 0 .. want - (k + 1) + 1 /\ want \in (k + 1) - 1 .. Len(C)
            /\ k + 1 \in 1 .. Len(C) + 1
        BY <1>1, <1>2, <1>6
      <3>2. SubSeq(SubSeq(C, k + 1, want), 1, n2) = SubSeq(C, k + 1, (k + 1) + n2 - 1)
        BY <1>1, <3>1, PrefixOfPart
      <3>3. (k + 1) + n2 - 1 = k + n2
        BY <1>2, <1>6
      <3> QED BY <1>2, <3>2, <3>3
    <2>3. CASE n1 = k
      <3>1. 1 \in 1 .. Len(C) + 1 /\ k \in 1 - 1 .. Len(C) /\ k + n2 \in k .. Len(C)
        BY <1>1, <1>2, <1>6
      <3>2. SubSeq(C, 1, k) \o SubSeq(C, k + 1, k + n2) = SubSeq(C, 1, k + n2)
        BY <1>1, <3>1, ConcatAdjacentSubSeq
      <3> QED BY <2>1, <2>2, <2>3, <3>2
    <2>4. CASE n1 < k /\ n2 = 0
      <3>1. SubSeq(C, k + 1, k + n2) = <<>>
        BY <1>1, <1>2, <2>4
      <3>2. SubSeq(C, 1, n1) \in Seq(Byte) /\ t = n1
        BY <1>1, <1>2, <1>5, <2>4
      <3> QED BY <2>1, <2>2, <3>1, <3>2, ConcatEmptySeq
    <2> QED BY <1>10, <2>3, <2>4
  <1>12. Content(Write(e, d2)) = D \o SubSeq(C, 1, t)
    <2>1. /\ SubSeq(d1, 1, n1) \in Seq(Byte) /\ SubSeq(d2, 1, n2) \in Seq(Byte)
      BY <1>2, <1>3, <1>5, <1>6
    <2>2. (D \o SubSeq(d1, 1, n1)) \o SubSeq(d2, 1, n2)
            = D \o (SubSeq(d1, 1, n1) \o SubSeq(d2, 1, n2))
      <3> DEFINE x == SubSeq(d1, 1, n1)
                 y == SubSeq(d2, 1, n2)
      <3>1. D \in Seq(Byte) /\ x \in Seq(Byte) /\ y \in Seq(Byte)
        BY <1>1, <2>1
      <3> HIDE DEF x, y
      <3>2. (D \o x) \o y = D \o (x \o y)
        BY <3>1, ConcatAssociative
      <3> QED BY <3>2 DEF x, y
    <2> HIDE DEF t
    <2> QED BY <1>4, <1>8, <1>11, <2>2
  <1>13. /\ MoveReadPt(src, t) \in Block /\ PointersAgree(MoveReadPt(src, t))
         /\ Content(MoveReadPt(src, t)) = SubSeq(C, t + 1, Len(C))
    <2>1. t \in Nat /\ t \in Int /\ Least(t, GetCanReadLength(src)) = t
      BY <1>1, <1>10 DEF Least, L
    <2> HIDE DEF t
    <2> QED BY <2>1, MoveReadPtOK, ContentRead DEF C
  <1> HIDE DEF t
  <1> QED BY <1>1, <1>2, <1>7, <1>8, <1>10, <1>12, <1>13 DEF C, D, L

-----------------------------------------------------------------------------
(* The specification.                                                       *)

(* The data of a call is a string of bytes.                                 *)
LEMMA StringsAreSeqs ==
    ASSUME NEW data \in Strings
    PROVE  data \in Seq(Byte) /\ Len(data) \in 0 .. MaxArg
  <1>1. PICK n \in 0 .. MaxArg : data \in [1 .. n -> Byte]
    BY DEF Strings
  <1>2. n \in Nat
    BY MaxArgAssumption
  <1>3. data \in Seq(Byte)
    BY <1>1, <1>2, SeqDef
  <1>4. Len(data) = n
    BY <1>1, <1>2, <1>3, LenProperties
  <1> QED BY <1>3, <1>4

(* The bytes a read delivers are a prefix of the contents.                  *)
LEMMA ReadBytesType ==
    ASSUME NEW b \in Block, NEW len \in Nat
    PROVE  ReadBytes(b, len) \in Seq(Byte)
  <1> DEFINE n == Least(len, GetCanReadLength(b))
             C == Content(b)
  <1>1. C \in Seq(Byte) /\ n \in 0 .. Len(C)
    BY ContentType, LengthsAddUp, BlockLenAssumption DEF Least
  <1> HIDE DEF n, C
  <1>2. SubSeq(C, 1, n) \in Seq(Byte)
    BY <1>1
  <1> QED BY <1>2 DEF ReadBytes, n, C

(* A block that is well-formed and empty is already at its start.           *)
LEMMA ResetIfEmptyIsNoChange ==
    ASSUME NEW b \in Block, PointersAgree(b)
    PROVE  ResetIfEmpty(b) = b
  BY BlockLenAssumption DEF ResetIfEmpty, At, Block, PointersAgree

(* The inductive invariant: every call sees well-formed blocks.             *)
Inv == TypeOK /\ PointersOK

(* The invariant holds at first: no block has a readable byte.              *)
LEMMA InitInv == Init => Inv
  <1> SUFFICES ASSUME Init PROVE Inv
    OBVIOUS
  <1>1. PICK m \in [Blocks -> [Cells -> Byte]] :
            blk = [x \in Blocks |-> NewBlock(m[x])]
    BY DEF Init
  <1>2. \A x \in Blocks : NewBlock(m[x]) \in Block /\ PointersAgree(NewBlock(m[x]))
    BY BlockLenAssumption DEF NewBlock, Block, PointersAgree
  <1>3. io \in Seq(Byte)
    BY DEF Init
  <1> QED BY <1>1, <1>2, <1>3 DEF Inv, TypeOK, PointersOK

(* One block changes to a well-formed one.                                  *)
LEMMA OneBlock ==
    ASSUME Inv, NEW x \in Blocks, NEW b \in Block, PointersAgree(b),
           blk' = [blk EXCEPT ![x] = b], io' \in Seq(Byte)
    PROVE  Inv'
  BY DEF Inv, TypeOK, PointersOK

(* Two blocks change to well-formed ones.                                   *)
LEMMA TwoBlocks ==
    ASSUME Inv, NEW x \in Blocks, NEW y \in Blocks,
           NEW a \in Block, PointersAgree(a), NEW b \in Block, PointersAgree(b),
           blk' = [blk EXCEPT ![x] = a, ![y] = b], io' = <<>>
    PROVE  Inv'
  BY DEF Inv, TypeOK, PointersOK

(* Every call keeps the invariant, one step per action.                     *)
LEMMA NextInv == Inv /\ [Next]_vars => Inv'
  <1> SUFFICES ASSUME Inv, [Next]_vars PROVE Inv'
    OBVIOUS
  <1> DEFINE Well(b) == b \in Block /\ PointersAgree(b)
  <1>0. (\A x \in Blocks : Well(blk[x])) /\ io \in Seq(Byte)
    BY DEF Inv, TypeOK, PointersOK
  <1>1. ASSUME NEW x \in Blocks, NEW data \in Strings, WriteData(x, data)
        PROVE  Inv'
    <2>1. Well(Write(blk[x], data))
      BY <1>0, StringsAreSeqs, WriteOK
    <2>2. io' \in Seq(Byte)
      BY <1>1, StringsAreSeqs DEF WriteData
    <2> QED BY <1>1, <2>1, <2>2, OneBlock DEF WriteData
  <1>2. ASSUME NEW x \in Blocks, NEW data \in Strings, FillFree(x, data)
        PROVE  Inv'
    <2>1. Len(data) > 0 /\ Len(data) <= Len(FreeCells(blk[x]))
      BY <1>2 DEF FillFree
    <2>2. Fill(blk[x], data) = Write(blk[x], data)
      BY <1>0, <2>1, StringsAreSeqs, FillIsWrite
    <2>3. Well(Fill(blk[x], data))
      BY <1>0, <2>2, StringsAreSeqs, WriteOK
    <2>4. io' \in Seq(Byte)
      BY <1>2, StringsAreSeqs DEF FillFree
    <2> QED BY <1>2, <2>3, <2>4, OneBlock DEF FillFree
  <1>3. ASSUME NEW x \in Blocks, NEW len \in 0 .. MaxArg, ReadData(x, len)
        PROVE  Inv'
    <2>1. len \in Nat /\ len \in Int
      BY MaxArgAssumption
    <2>2. Well(MoveReadPt(blk[x], len)) /\ ReadBytes(blk[x], len) \in Seq(Byte)
      BY <1>0, <2>1, MoveReadPtOK, ReadBytesType
    <2> QED BY <1>3, <2>2, OneBlock DEF ReadData
  <1>4. ASSUME NEW x \in Blocks, NEW len \in 0 .. MaxArg, MoveWriteBack(x, len)
        PROVE  Inv'
    <2>1. -len \in Int
      BY MaxArgAssumption
    <2>2. Well(MoveWritePt(blk[x], -len))
      BY <1>0, <2>1, MoveWritePtOK
    <2>3. io' \in Seq(Byte)
      BY <1>4 DEF MoveWriteBack
    <2> QED BY <1>4, <2>2, <2>3, OneBlock DEF MoveWriteBack
  <1>5. ASSUME NEW x \in Blocks, NEW len \in -MaxArg .. MaxArg, MoveRead(x, len)
        PROVE  Inv'
    <2>1. len \in Int /\ (len > 0 => len \in Nat)
      BY MaxArgAssumption
    <2>2. Well(MoveReadPt(blk[x], len))
      BY <1>0, <2>1, MoveReadPtOK
    <2>3. io' \in Seq(Byte)
      BY <1>0, <1>5, <2>1, ReadBytesType DEF MoveRead
    <2> QED BY <1>5, <2>2, <2>3, OneBlock DEF MoveRead
  <1>6. ASSUME NEW x \in Blocks, NEW y \in Blocks \ {x}, NEW len \in 0 .. MaxArg
        PROVE  /\ Well(TransferSrc(blk[x], blk[y], len))
               /\ Well(TransferDst(blk[x], blk[y], len))
    <2>1. len \in Nat
      BY MaxArgAssumption
    <2> QED BY <1>0, <2>1, TransferOK
  <1>7. ASSUME NEW x \in Blocks, NEW y \in Blocks \ {x}, NEW len \in 0 .. MaxArg,
               ReadInto(x, y, len)
        PROVE  Inv'
    BY <1>6, <1>7, TwoBlocks DEF ReadInto
  <1>8. ASSUME NEW x \in Blocks, NEW y \in Blocks \ {x}, NEW len \in 0 .. MaxArg,
               WriteFrom(x, y, len)
        PROVE  Inv'
    <2>1. ResetIfEmpty(blk[y]) = blk[y]
      BY <1>0, ResetIfEmptyIsNoChange
    <2> QED BY <1>6, <1>8, <2>1, TwoBlocks DEF WriteFrom
  <1>9. ASSUME NEW x \in Blocks, ClearBlock(x)
        PROVE  Inv'
    <2>1. Well(Clear(blk[x]))
      BY <1>0, ClearOK
    <2>2. io' \in Seq(Byte)
      BY <1>9 DEF ClearBlock
    <2> QED BY <1>9, <2>1, <2>2, OneBlock DEF ClearBlock
  <1>10. CASE UNCHANGED vars
    BY <1>10 DEF vars, Inv, TypeOK, PointersOK
  <1>11. CASE Next
    BY <1>11, <1>1, <1>2, <1>3, <1>4, <1>5, <1>7, <1>8, <1>9
       DEF Next, ReadUntilLen, ReadUntilStr
  <1> QED BY <1>10, <1>11

(* Every call keeps the pointers of every block inside its memory and the    *)
(* bytes delivered are bytes.                                               *)
THEOREM TypeCorrect == Spec => []TypeOK
  <1>1. Inv => TypeOK
    BY DEF Inv
  <1> QED BY <1>1, InitInv, NextInv, PTL DEF Spec

(* No sequence of calls brings a block into a state in which full and empty  *)
(* are confused: the reset of an empty block to its start, which MoveReadPt, *)
(* MoveWritePt and _Read all make, is what keeps offset 0 and _buffer_end    *)
(* apart.                                                                   *)
THEOREM PointersCorrect == Spec => []PointersOK
  <1>1. Inv => PointersOK
    BY DEF Inv
  <1> QED BY <1>1, InitInv, NextInv, PTL DEF Spec

-----------------------------------------------------------------------------
(* The segments and the search.                                             *)

(* The bytes in the used segments, one after the other, are the content.     *)
LEMMA SegmentsAreContent ==
    ASSUME NEW b \in Block, PointersAgree(b)
    PROVE  LET use == GetUseMemoryBlock(b)
           IN  /\ Gather(b, use[1]) \in Seq(Byte) /\ Len(Gather(b, use[1])) = Len(use[1])
               /\ Gather(b, use[2]) \in Seq(Byte) /\ Len(Gather(b, use[2])) = Len(use[2])
               /\ Gather(b, use[1]) \o Gather(b, use[2]) = Content(b)
  <1> DEFINE use == GetUseMemoryBlock(b)
             u == use[1]
             v == use[2]
             g == Gather(b, u)
             h == Gather(b, v)
             L == GetCanReadLength(b)
  <1>1. /\ u \in Seq(Cells) /\ v \in Seq(Cells) /\ Len(u) \in Nat /\ Len(v) \in Nat
        /\ Len(u) + Len(v) = L
        /\ \A i \in 1 .. Len(u) : u[i] = CellAt(b.read, i - 1)
        /\ \A i \in 1 .. Len(v) : v[i] = CellAt(b.read, Len(u) + i - 1)
    BY UseSegments
  <1>2. /\ Content(b) \in Seq(Byte) /\ Len(Content(b)) = L
        /\ \A i \in 1 .. L : Content(b)[i] = b.mem[CellAt(b.read, i - 1)]
    BY ContentType DEF Content
  <1>3. b.mem \in [Cells -> Byte]
    BY DEF Block
  <1> HIDE DEF u, v
  <1>4. g \in Seq(Byte) /\ Len(g) = Len(u) /\ \A i \in 1 .. Len(u) : g[i] = b.mem[u[i]]
    BY <1>1, <1>3 DEF Gather
  <1>5. h \in Seq(Byte) /\ Len(h) = Len(v) /\ \A i \in 1 .. Len(v) : h[i] = b.mem[v[i]]
    BY <1>1, <1>3 DEF Gather
  <1> HIDE DEF g, h, L
  <1>6. /\ g \o h \in Seq(Byte) /\ Len(g \o h) = L
        /\ \A i \in 1 .. L : (g \o h)[i] = IF i <= Len(u) THEN g[i] ELSE h[i - Len(u)]
    <2>1. /\ g \o h \in Seq(Byte) /\ Len(g \o h) = Len(g) + Len(h)
          /\ \A i \in 1 .. Len(g) + Len(h) :
                (g \o h)[i] = IF i <= Len(g) THEN g[i] ELSE h[i - Len(g)]
      BY <1>4, <1>5, ConcatIndex, ZenonT(40)
    <2>2. Len(g) + Len(h) = L /\ Len(g) = Len(u)
      BY <1>1, <1>4, <1>5
    <2> QED
      BY <2>1, <2>2
  <1>7. ASSUME NEW i \in 1 .. L PROVE (g \o h)[i] = Content(b)[i]
    <2>1. CASE i <= Len(u)
      <3>1. i \in 1 .. Len(u)
        BY <1>1, <2>1
      <3> QED
        BY <1>1, <1>2, <1>4, <1>6, <2>1, <3>1
    <2>2. CASE ~(i <= Len(u))
      <3>1. i - Len(u) \in 1 .. Len(v) /\ Len(u) + (i - Len(u)) - 1 = i - 1
        BY <1>1, <2>2
      <3>2. v[i - Len(u)] = CellAt(b.read, i - 1)
        BY <1>1, <3>1
      <3>3. h[i - Len(u)] = b.mem[CellAt(b.read, i - 1)]
        BY <1>5, <3>1, <3>2
      <3> QED
        BY <1>2, <1>6, <2>2, <3>3
    <2> QED
      BY <2>1, <2>2
  <1>8. g \o h = Content(b)
    BY <1>2, <1>6, <1>7, SeqEqual
  <1> QED
    BY <1>4, <1>5, <1>8 DEF g, h, u, v

(* No cell lies both before and behind the write point.                      *)
LEMMA UsedIsNotFree ==
    ASSUME NEW b \in Block, PointersAgree(b),
           NEW i \in 0 .. GetCanReadLength(b) - 1, NEW j \in 0 .. GetCanWriteLength(b) - 1
    PROVE  CellAt(b.read, i) # CellAt(b.write, j)
  BY BlockLenAssumption
     DEF Block, PointersAgree, GetCanReadLength, GetCanWriteLength, CellAt

(* What writev is handed are the readable bytes in order, and what readv may *)
(* fill are exactly the other cells, after any calls and for blocks of any   *)
(* length (buffer_block.cpp, GetUseMemoryBlock and GetFreeMemoryBlock).      *)
THEOREM SegmentsCorrect == Spec => []SegmentsOK
  <1>1. ASSUME Inv PROVE SegmentsOK
    <2> SUFFICES ASSUME NEW x \in Blocks
                 PROVE  LET b    == blk[x]
                            use  == GetUseMemoryBlock(b)
                            free == GetFreeMemoryBlock(b)
                        IN  /\ Gather(b, use[1]) \o Gather(b, use[2]) = Content(b)
                            /\ Len(free[1] \o free[2]) = GetCanWriteLength(b)
                            /\ {(use[1] \o use[2])[i] : i \in 1 .. GetCanReadLength(b)}
                                 \cap {(free[1] \o free[2])[i] : i \in 1 .. GetCanWriteLength(b)}
                                 = {}
      BY DEF SegmentsOK
    <2> DEFINE b == blk[x]
               u == GetUseMemoryBlock(b)[1]
               v == GetUseMemoryBlock(b)[2]
               f == GetFreeMemoryBlock(b)[1] \o GetFreeMemoryBlock(b)[2]
               L == GetCanReadLength(b)
               F == GetCanWriteLength(b)
    <2>1. b \in Block /\ PointersAgree(b)
      BY <1>1 DEF Inv, TypeOK, PointersOK
    <2> HIDE DEF b
    <2>2. Gather(b, u) \o Gather(b, v) = Content(b)
      BY <2>1, SegmentsAreContent
    <2>3. L \in Nat /\ F \in Nat
      BY <2>1, LengthsAddUp, BlockLenAssumption
    <2>4. Len(f) = F /\ \A j \in 1 .. F : f[j] = CellAt(b.write, j - 1)
      BY <2>1, FreeSegments DEF FreeCells
    <2>5. \A i \in 1 .. L : (u \o v)[i] = CellAt(b.read, i - 1)
      <3>1. /\ u \in Seq(Cells) /\ v \in Seq(Cells) /\ Len(u) \in Nat /\ Len(v) \in Nat
            /\ Len(u) + Len(v) = L
            /\ \A i \in 1 .. Len(u) : u[i] = CellAt(b.read, i - 1)
            /\ \A i \in 1 .. Len(v) : v[i] = CellAt(b.read, Len(u) + i - 1)
        BY <2>1, UseSegments
      <3> HIDE DEF u, v, L
      <3> SUFFICES ASSUME NEW i \in 1 .. L PROVE (u \o v)[i] = CellAt(b.read, i - 1)
        OBVIOUS
      <3>2. (u \o v)[i] = IF i <= Len(u) THEN u[i] ELSE v[i - Len(u)]
        BY <3>1, ConcatIndex
      <3>3. CASE i <= Len(u)
        BY <3>1, <3>2, <3>3
      <3>4. CASE ~(i <= Len(u))
        <4>1. i - Len(u) \in 1 .. Len(v) /\ Len(u) + (i - Len(u)) - 1 = i - 1
          BY <2>3, <3>1, <3>4
        <4> QED
          BY <3>1, <3>2, <3>4, <4>1
      <3> QED
        BY <3>3, <3>4
    <2> HIDE DEF f, u, v
    <2>6. ASSUME NEW i \in 1 .. L, NEW j \in 1 .. F PROVE (u \o v)[i] # f[j]
      <3>1. i - 1 \in 0 .. L - 1 /\ j - 1 \in 0 .. F - 1
        BY <2>3
      <3> QED
        BY <2>1, <2>4, <2>5, <3>1, UsedIsNotFree
    <2>7. {(u \o v)[i] : i \in 1 .. L} \cap {f[j] : j \in 1 .. F} = {}
      <3> HIDE DEF L, F
      <3> QED
        BY <2>6
    <2> QED
      BY <2>2, <2>4, <2>7 DEF b, u, v, f
  <1> QED BY <1>1, InitInv, NextInv, PTL DEF Spec

(* _FindStrInMem: the first place where the string is, or -1.                *)
LEMMA FindInMemLeast ==
    ASSUME NEW bytes \in Seq(Byte), NEW s \in Seq(Byte)
    PROVE  LET T == {i \in 0 .. Len(bytes) - Len(s) : SubSeq(bytes, i + 1, i + Len(s)) = s}
               k == FindInMem(bytes, s)
           IN  IF T = {} THEN k = -1 ELSE k \in T /\ \A i \in T : k <= i
  <1> DEFINE T == {i \in 0 .. Len(bytes) - Len(s) : SubSeq(bytes, i + 1, i + Len(s)) = s}
             R == OpToRel(<, Nat)
             k == FindInMem(bytes, s)
  <1>1. CASE T = {}
    BY <1>1 DEF FindInMem
  <1>2. CASE T # {}
    <2>1. T \subseteq Nat
      BY LenProperties
    <2>2. PICK x \in T : \A y \in T : ~(<<y, x>> \in R)
      BY <1>2, <2>1, NatLessThanWellFounded, WFMin
    <2>3. R = {ss \in Nat \X Nat : ss[1] < ss[2]}
      BY DEF OpToRel
    <2>4. k = CHOOSE i \in T : \A j \in T : i <= j
      BY <1>2 DEF FindInMem
    <2> HIDE DEF R, T
    <2>5. ASSUME NEW y \in T PROVE x <= y
      <3>1. <<y, x>> \in Nat \X Nat
        BY <2>1
      <3>2. ~(y < x)
        BY <2>2, <2>3, <3>1
      <3> QED
        BY <2>1, <3>2
    <2> HIDE DEF k
    <2>6. k \in T /\ \A i \in T : k <= i
      BY <2>4, <2>5
    <2> QED
      BY <1>2, <2>6 DEF T, k
  <1> QED
    BY <1>1, <1>2

(* In particular, the string is there.                                      *)
LEMMA FindInMemIs ==
    ASSUME NEW bytes \in Seq(Byte), NEW s \in Seq(Byte)
    PROVE  LET k == FindInMem(bytes, s)
           IN  k = -1 \/ /\ k \in 0 .. Len(bytes) - Len(s)
                         /\ SubSeq(bytes, k + 1, k + Len(s)) = s
  <1> DEFINE T == {i \in 0 .. Len(bytes) - Len(s) : SubSeq(bytes, i + 1, i + Len(s)) = s}
             k == FindInMem(bytes, s)
  <1>1. k = -1 \/ k \in T
    BY FindInMemLeast
  <1> HIDE DEF k
  <1> QED
    BY <1>1 DEF k

(* A part of the first of two sequences, or of the second, is a part of the  *)
(* two in a row.                                                            *)
LEMMA PartOfConcat ==
    ASSUME NEW g \in Seq(Byte), NEW h \in Seq(Byte), NEW n \in Nat, n # 0, NEW k \in Nat
    PROVE  /\ k + n <= Len(g) => SubSeq(g \o h, k + 1, k + n) = SubSeq(g, k + 1, k + n)
           /\ k + n <= Len(h) => SubSeq(g \o h, (Len(g) + k) + 1, (Len(g) + k) + n)
                                   = SubSeq(h, k + 1, k + n)
  <1> DEFINE c == g \o h
             G == Len(g)
             H == Len(h)
  <1>1. /\ c \in Seq(Byte) /\ Len(c) = G + H /\ G \in Nat /\ H \in Nat
        /\ \A i \in 1 .. G + H : c[i] = IF i <= G THEN g[i] ELSE h[i - G]
    BY ConcatIndex, LenProperties
  <1>2. g \in [1 .. G -> Byte] /\ h \in [1 .. H -> Byte] /\ c \in [1 .. G + H -> Byte]
    BY <1>1, LenProperties
  <1> HIDE DEF c, G, H
  <1>3. ASSUME NEW a \in Nat, NEW t \in Seq(Byte), a + n <= Len(t)
        PROVE  /\ SubSeq(t, a + 1, a + n) \in Seq(Byte) /\ Len(SubSeq(t, a + 1, a + n)) = n
               /\ \A i \in 1 .. n : SubSeq(t, a + 1, a + n)[i] = t[a + i]
    <2> DEFINE p == SubSeq(t, a + 1, a + n)
    <2>1. \A i \in a + 1 .. a + n : t[i] \in Byte
      BY <1>3, LenProperties
    <2>2. a + 1 \in Int /\ a + n \in Int /\ a + 1 <= a + n
      OBVIOUS
    <2>3. /\ p \in Seq(Byte) /\ Len(p) = (a + n) - (a + 1) + 1
          /\ \A i \in 1 .. (a + n) - (a + 1) + 1 : p[i] = t[(a + 1) + i - 1]
      <3> DEFINE x == a + 1
                 y == a + n
      <3> x \in Int /\ y \in Int /\ x <= y /\ \A i \in x .. y : t[i] \in Byte
        BY <2>1, <2>2
      <3> HIDE DEF x, y
      <3>1. /\ SubSeq(t, x, y) \in Seq(Byte) /\ Len(SubSeq(t, x, y)) = y - x + 1
            /\ \A i \in 1 .. y - x + 1 : SubSeq(t, x, y)[i] = t[x + i - 1]
        BY SubSeqProperties
      <3> QED
        BY <3>1 DEF x, y
    <2>4. (a + n) - (a + 1) + 1 = n /\ \A i \in 1 .. n : (a + 1) + i - 1 = a + i
      OBVIOUS
    <2> HIDE DEF p
    <2> QED
      BY <2>3, <2>4 DEF p
  <1>4. ASSUME k + n <= G PROVE SubSeq(c, k + 1, k + n) = SubSeq(g, k + 1, k + n)
    <2> DEFINE p == SubSeq(c, k + 1, k + n)
               q == SubSeq(g, k + 1, k + n)
    <2>1. /\ p \in Seq(Byte) /\ Len(p) = n /\ \A i \in 1 .. n : p[i] = c[k + i]
          /\ q \in Seq(Byte) /\ Len(q) = n /\ \A i \in 1 .. n : q[i] = g[k + i]
      <3>1. k + n <= Len(c) /\ k + n <= Len(g)
        BY <1>1, <1>4 DEF G
      <3>2. p \in Seq(Byte) /\ Len(p) = n /\ \A i \in 1 .. n : p[i] = c[k + i]
        BY <1>1, <1>3, <3>1
      <3>3. q \in Seq(Byte) /\ Len(q) = n /\ \A i \in 1 .. n : q[i] = g[k + i]
        BY <1>3, <3>1
      <3> QED
        BY <3>2, <3>3
    <2> HIDE DEF p, q
    <2>2. \A i \in 1 .. n : c[k + i] = g[k + i]
      BY <1>1, <1>4
    <2>3. p = q
      BY <2>1, <2>2, SeqEqual
    <2> QED
      BY <2>3 DEF p, q
  <1>5. ASSUME k + n <= H PROVE SubSeq(c, G + k + 1, G + k + n) = SubSeq(h, k + 1, k + n)
    <2> DEFINE a == G + k
               p == SubSeq(c, a + 1, a + n)
               q == SubSeq(h, k + 1, k + n)
    <2>1. a \in Nat /\ a + n <= Len(c)
      BY <1>1, <1>5
    <2>2. \A i \in 1 .. n : c[a + i] = h[k + i]
      <3> SUFFICES ASSUME NEW i \in 1 .. n PROVE c[a + i] = h[k + i]
        OBVIOUS
      <3> DEFINE m == a + i
      <3>1. m \in 1 .. G + H /\ ~(m <= G) /\ m - G = k + i
        BY <1>1, <1>5
      <3> HIDE DEF m
      <3>2. c[m] = h[m - G]
        BY <1>1, <3>1
      <3> QED
        BY <3>1, <3>2 DEF m
    <2> HIDE DEF a
    <2>3. /\ p \in Seq(Byte) /\ Len(p) = n /\ \A i \in 1 .. n : p[i] = c[a + i]
          /\ q \in Seq(Byte) /\ Len(q) = n /\ \A i \in 1 .. n : q[i] = h[k + i]
      BY <1>1, <1>3, <1>5, <2>1 DEF H
    <2> HIDE DEF p, q
    <2>4. p = q
      BY <2>2, <2>3, SeqEqual
    <2> QED
      BY <2>4 DEF p, q, a
  <1> QED
    BY <1>4, <1>5 DEF c, G, H

(* FindStr reports the end of the first occurrence that does not lie across   *)
(* the wrap, and nothing else: it searches each segment by itself and adds    *)
(* the length of the first to what it finds in the second (buffer_block.cpp,  *)
(* FindStr).                                                                *)
THEOREM FoundStaysThere == Spec => []FoundIsThere
  <1>1. ASSUME Inv PROVE FoundIsThere
    <2> SUFFICES ASSUME NEW x \in Blocks, NEW s \in Strings \ {<<>>}
                 PROVE  IF Ends(blk[x], s) = {} THEN FindStr(blk[x], s) = 0
                        ELSE /\ FindStr(blk[x], s) \in Ends(blk[x], s)
                             /\ \A e \in Ends(blk[x], s) : FindStr(blk[x], s) <= e
      BY DEF FoundIsThere
    <2> DEFINE b == blk[x]
               g == Gather(b, GetUseMemoryBlock(b)[1])
               h == Gather(b, GetUseMemoryBlock(b)[2])
               G == Len(g)
               H == Len(h)
               n == Len(s)
               k == FindStr(b, s)
               i == FindInMem(g, s)
               j == FindInMem(h, s)
               T == {t \in 0 .. G - n : SubSeq(g, t + 1, t + n) = s}
               U == {t \in 0 .. H - n : SubSeq(h, t + 1, t + n) = s}
               C == Content(b)
               E == {e \in n .. G + H :
                        SubSeq(C, e - n + 1, e) = s /\ (e <= G \/ G <= e - n)}
    <2>1. b \in Block /\ PointersAgree(b)
      BY <1>1 DEF Inv, TypeOK, PointersOK
    <2>2. s \in Seq(Byte) /\ n \in Nat \ {0}
      BY MaxArgAssumption DEF Strings
    <2> HIDE DEF b
    <2>3. /\ g \in Seq(Byte) /\ h \in Seq(Byte) /\ G = Len(GetUseMemoryBlock(b)[1]) /\ g \o h = C
          /\ G \in Nat /\ H \in Nat /\ G + H = GetCanReadLength(b)
      <3>1. /\ g \in Seq(Byte) /\ h \in Seq(Byte) /\ G = Len(GetUseMemoryBlock(b)[1]) /\ g \o h = C
        BY <2>1, SegmentsAreContent
      <3>2. Len(C) = GetCanReadLength(b)
        BY <2>1, ContentType
      <3> HIDE DEF g, h, C
      <3>3. Len(g) \in Nat /\ Len(h) \in Nat /\ Len(g \o h) = Len(g) + Len(h)
        BY <3>1, LenProperties, ConcatIndex
      <3> QED
        BY <3>1, <3>2, <3>3
    <2>4. k = CASE i >= 0 -> i + n [] i < 0 /\ j >= 0 -> j + n + G [] OTHER -> 0
      BY <2>3 DEF FindStr
    <2>5. Ends(b, s) = E
      <3> DEFINE cut == Len(GetUseMemoryBlock(b)[1])
                 R   == GetCanReadLength(b)
                 F   == {e \in n .. R :
                            SubSeq(C, e - n + 1, e) = s /\ (e <= cut \/ cut <= e - n)}
      <3>1. Ends(b, s) = F
        BY DEF Ends
      <3>2. cut = G /\ R = G + H
        BY <2>3
      <3> HIDE DEF cut, R, G, H, C, n
      <3>3. F = E
        BY <3>2
      <3> QED
        BY <3>1, <3>3
    <2>6. /\ IF T = {} THEN i = -1 ELSE i \in T /\ \A t \in T : i <= t
          /\ IF U = {} THEN j = -1 ELSE j \in U /\ \A t \in U : j <= t
      <3> HIDE DEF g, h
      <3>1. IF T = {} THEN i = -1 ELSE i \in T /\ \A t \in T : i <= t
        BY <2>2, <2>3, FindInMemLeast
      <3>2. IF U = {} THEN j = -1 ELSE j \in U /\ \A t \in U : j <= t
        BY <2>2, <2>3, FindInMemLeast
      <3> QED
        BY <3>1, <3>2
    <2> HIDE DEF g, h, k, i, j, C, n
    <2>7. ASSUME NEW t \in Nat
          PROVE  /\ t + n <= G => SubSeq(C, t + 1, t + n) = SubSeq(g, t + 1, t + n)
                 /\ t + n <= H => SubSeq(C, (G + t) + 1, (G + t) + n) = SubSeq(h, t + 1, t + n)
      <3>1. g \in Seq(Byte) /\ h \in Seq(Byte) /\ n \in Nat /\ n # 0 /\ C = g \o h
        BY <2>2, <2>3
      <3> QED
        BY <3>1, PartOfConcat
    <2> HIDE DEF G, H
    <2>8. ASSUME NEW t \in T PROVE t + n \in E /\ t \in Nat /\ t + n <= G
      <3>1. t \in Nat /\ t + n <= G /\ SubSeq(g, t + 1, t + n) = s
        BY <2>2, <2>3
      <3>2. SubSeq(C, t + 1, t + n) = s
        BY <2>7, <3>1
      <3>3. t + n \in n .. G + H /\ (t + n) - n + 1 = t + 1
        BY <2>2, <2>3, <3>1
      <3> QED
        BY <3>1, <3>2, <3>3
    <2>9. ASSUME NEW t \in U PROVE t + n + G \in E /\ t \in Nat
      <3>1. t \in Nat /\ t + n <= H /\ SubSeq(h, t + 1, t + n) = s
        BY <2>2, <2>3
      <3>2. SubSeq(C, (G + t) + 1, (G + t) + n) = s
        BY <2>7, <3>1
      <3>3. /\ t + n + G \in n .. G + H /\ (t + n + G) - n + 1 = (G + t) + 1
            /\ t + n + G = (G + t) + n /\ G <= (t + n + G) - n
        <4>1. n \in Nat /\ G \in Nat /\ H \in Nat /\ t \in Nat /\ t + n <= H
          BY <2>2, <2>3, <3>1
        <4> HIDE DEF T, U, E
        <4>2. t + n + G \in n .. G + H
          BY <4>1
        <4>3. (t + n + G) - n + 1 = (G + t) + 1
          BY <4>1
        <4>4. t + n + G = (G + t) + n /\ G <= (t + n + G) - n
          BY <4>1
        <4> QED
          BY <4>2, <4>3, <4>4
      <3> QED
        BY <3>2, <3>3
    <2>10. ASSUME NEW e \in E PROVE e - n \in T \/ (e - n) - G \in U
      <3>0. e \in n .. G + H /\ SubSeq(C, e - n + 1, e) = s /\ (e <= G \/ G <= e - n)
        OBVIOUS
      <3>1. e \in Nat /\ e - n \in Nat /\ e <= G + H
        <4> HIDE DEF T, U, E
        <4> QED
          BY <2>2, <2>3, <3>0
      <3> DEFINE t == e - n
      <3>2. t \in Nat /\ t + n = e /\ SubSeq(C, t + 1, t + n) = s
        BY <2>2, <3>0, <3>1
      <3>3. CASE e <= G
        <4>1. t \in 0 .. G - n
          BY <2>2, <2>3, <3>1, <3>3
        <4> HIDE DEF t
        <4>2. SubSeq(g, t + 1, t + n) = s
          BY <2>7, <3>2, <3>3
        <4> QED
          BY <4>1, <4>2 DEF t
      <3>4. CASE ~(e <= G)
        <4> DEFINE r == t - G
        <4>1. r \in 0 .. H - n /\ r \in Nat /\ r + n <= H /\ G + r = t
          <5> HIDE DEF T, U, E
          <5> QED
            BY <2>2, <2>3, <3>0, <3>1, <3>4
        <4> HIDE DEF r, t
        <4>2. SubSeq(h, r + 1, r + n) = s
          BY <2>7, <3>2, <4>1
        <4> QED
          BY <4>1, <4>2 DEF r, t
      <3> QED
        BY <3>3, <3>4
    <2>11. ASSUME NEW e \in E PROVE e \in Nat
      BY <2>2, <2>3
    <2>12. ASSUME NEW t \in U PROVE t \in Nat
      BY <2>9
    <2> HIDE DEF T, U, E
    <2>13. IF E = {} THEN k = 0 ELSE k \in E /\ \A e \in E : k <= e
      <3>1. CASE T # {}
        <4>1. i \in T /\ (\A t \in T : i <= t) /\ i \in Nat /\ i + n <= G /\ i + n \in E
          BY <2>6, <2>8, <3>1
        <4>2. k = i + n
          BY <2>4, <4>1
        <4>3. ASSUME NEW e \in E PROVE k <= e
          <5>1. CASE e - n \in T
            BY <2>2, <2>11, <4>1, <4>2, <5>1
          <5>2. CASE (e - n) - G \in U
            <6>1. (e - n) - G \in Nat
              BY <2>12, <5>2
            <6> QED
              BY <2>2, <2>3, <2>11, <4>1, <4>2, <6>1
          <5> QED
            BY <2>10, <5>1, <5>2
        <4> QED
          BY <4>1, <4>2, <4>3
      <3>2. CASE T = {} /\ U # {}
        <4>1. i = -1 /\ j \in U /\ (\A t \in U : j <= t) /\ j \in Nat /\ j + n + G \in E
          BY <2>6, <2>9, <3>2
        <4>2. k = j + n + G
          BY <2>4, <4>1
        <4>3. ASSUME NEW e \in E PROVE k <= e
          <5>1. (e - n) - G \in U
            BY <2>10, <3>2
          <5>2. j <= (e - n) - G
            BY <4>1, <5>1
          <5>3. j \in Nat /\ n \in Nat /\ G \in Nat /\ e \in Nat /\ k = j + n + G
            BY <2>2, <2>3, <2>11, <4>1, <4>2
          <5> QED
            BY <5>2, <5>3
        <4> QED
          BY <4>1, <4>2, <4>3
      <3>3. CASE T = {} /\ U = {}
        <4>1. i = -1 /\ j = -1
          BY <2>6, <3>3
        <4>2. k = 0
          BY <2>4, <4>1
        <4>3. E = {}
          BY <2>10, <3>3
        <4> QED
          BY <4>2, <4>3
      <3> QED
        BY <3>1, <3>2, <3>3
    <2> QED
      BY <2>5, <2>13 DEF k, b
  <1> QED BY <1>1, InitInv, NextInv, PTL DEF Spec

-----------------------------------------------------------------------------
(* The refinement.                                                          *)

(* The queue each block stands for.                                         *)
Queue == [x \in Blocks |-> Content(blk[x])]

(* When one block changes, its queue changes and no other.                  *)
LEMMA OneQueue ==
    ASSUME Inv, NEW x \in Blocks, NEW b, blk' = [blk EXCEPT ![x] = b]
    PROVE  Queue' = [Queue EXCEPT ![x] = Content(b)]
  BY DEF Inv, TypeOK, Queue

(* Blocks start as empty queues.                                            *)
LEMMA InitRefines == Init => Fifo!Init
  <1> SUFFICES ASSUME Init PROVE Fifo!Init
    OBVIOUS
  <1>1. PICK m \in [Blocks -> [Cells -> Byte]] :
            blk = [x \in Blocks |-> NewBlock(m[x])]
    BY DEF Init
  <1>2. ASSUME NEW x \in Blocks PROVE Content(NewBlock(m[x])) = <<>>
    <2>1. GetCanReadLength(NewBlock(m[x])) = 0
      BY DEF GetCanReadLength, NewBlock
    <2> QED BY <2>1 DEF Content
  <1>3. [x \in Blocks |-> Content(blk[x])] = [x \in Blocks |-> <<>>]
    BY <1>1, <1>2
  <1>4. io = <<>>
    BY DEF Init
  <1> QED BY <1>3, <1>4 DEF Fifo!Init

(* A write, and a receive into the free memory, append to the queue.        *)
LEMMA WriteRefines ==
    ASSUME Inv, NEW x \in Blocks, NEW data \in Strings,
           blk' = [blk EXCEPT ![x] = Write(blk[x], data)], io' = data
    PROVE  Fifo!Put(x, data)
  <1> DEFINE n == WriteLen(blk[x], data)
  <1>1. blk[x] \in Block /\ PointersAgree(blk[x]) /\ data \in Seq(Byte)
    BY StringsAreSeqs DEF Inv, TypeOK, PointersOK
  <1>2. /\ n \in 0 .. GetCanWriteLength(blk[x]) /\ n <= Len(data)
        /\ n = Len(data) \/ n = GetCanWriteLength(blk[x])
    BY <1>1, WriteLenRange
  <1>3. /\ GetCanReadLength(blk[x]) \in Nat /\ GetCanWriteLength(blk[x]) \in Nat
        /\ GetCanReadLength(blk[x]) + GetCanWriteLength(blk[x]) = BlockLen
        /\ Len(Content(blk[x])) = GetCanReadLength(blk[x])
        /\ Len(data) \in Nat
    BY <1>1, LengthsAddUp, ContentType, BlockLenAssumption
  <1>4. Content(Write(blk[x], data)) = Content(blk[x]) \o SubSeq(data, 1, n)
    BY <1>1, ContentWrite
  <1>5. Queue' = [Queue EXCEPT ![x] = Content(blk[x]) \o SubSeq(data, 1, n)]
    BY <1>4, OneQueue
  <1>6. Queue[x] = Content(blk[x])
    BY DEF Queue
  <1> HIDE DEF n
  <1>7. /\ n \in 0 .. Len(data)
        /\ n = Len(data) \/ Len(Queue[x]) + n = BlockLen
        /\ Len(Queue[x]) + n <= BlockLen
    BY <1>2, <1>3, <1>6, BlockLenAssumption
  <1>8. Queue' = [Queue EXCEPT ![x] = Queue[x] \o SubSeq(data, 1, n)]
    BY <1>5, <1>6
  <1> QED BY <1>7, <1>8 DEF Fifo!Put, Queue

(* Moving the read pointer forward takes the oldest bytes.                  *)
LEMMA ReadRefines ==
    ASSUME Inv, NEW x \in Blocks, NEW len \in Nat,
           blk' = [blk EXCEPT ![x] = MoveReadPt(blk[x], len)],
           io' = ReadBytes(blk[x], len)
    PROVE  Fifo!Take(x, len)
  <1> DEFINE n == Least(len, GetCanReadLength(blk[x]))
  <1>1. blk[x] \in Block /\ PointersAgree(blk[x])
    BY DEF Inv, TypeOK, PointersOK
  <1>2. Len(Content(blk[x])) = GetCanReadLength(blk[x]) /\ Len(Content(blk[x])) \in Nat
    BY <1>1, LengthsAddUp, ContentType, BlockLenAssumption
  <1>3. /\ n \in 0 .. Len(Content(blk[x]))
        /\ n = len \/ (n < len /\ n = Len(Content(blk[x])))
    BY <1>2 DEF Least
  <1>4. Content(MoveReadPt(blk[x], len))
          = SubSeq(Content(blk[x]), n + 1, Len(Content(blk[x])))
    BY <1>1, ContentRead
  <1>5. io' = SubSeq(Content(blk[x]), 1, n)
    BY DEF ReadBytes
  <1>6. Queue[x] = Content(blk[x])
    BY DEF Queue
  <1> HIDE DEF n
  <1>7. Queue' = [Queue EXCEPT ![x] = SubSeq(Queue[x], n + 1, Len(Queue[x]))]
    BY <1>4, <1>6, OneQueue
  <1>8. /\ n \in 0 .. Len(Queue[x])
        /\ n = len \/ (n < len /\ n = Len(Queue[x]))
        /\ io' = SubSeq(Queue[x], 1, n)
    BY <1>3, <1>5, <1>6
  <1>9. \E k \in 0 .. Len(Queue[x]) :
            /\ k = len \/ (k < len /\ k = Len(Queue[x]))
            /\ io' = SubSeq(Queue[x], 1, k)
            /\ Queue' = [Queue EXCEPT ![x] = SubSeq(Queue[x], k + 1, Len(Queue[x]))]
    BY <1>7, <1>8
  <1> QED BY <1>9, Zenon DEF Fifo!Take, Queue

(* Moving the write pointer back drops the newest bytes.                    *)
LEMMA RetractRefines ==
    ASSUME Inv, NEW x \in Blocks, NEW len \in 0 .. MaxArg, MoveWriteBack(x, len)
    PROVE  Fifo!Retract(x, len)
  <1> DEFINE n == Least(len, GetCanReadLength(blk[x]))
  <1>1. blk[x] \in Block /\ PointersAgree(blk[x]) /\ len \in Nat
    BY MaxArgAssumption DEF Inv, TypeOK, PointersOK
  <1>2. Len(Content(blk[x])) = GetCanReadLength(blk[x]) /\ Len(Content(blk[x])) \in Nat
    BY <1>1, LengthsAddUp, ContentType, BlockLenAssumption
  <1>3. /\ n \in 0 .. Len(Content(blk[x]))
        /\ n = len \/ (n < len /\ n = Len(Content(blk[x])))
    BY <1>1, <1>2 DEF Least
  <1>4. Content(MoveWritePt(blk[x], -len))
          = SubSeq(Content(blk[x]), 1, Len(Content(blk[x])) - n)
    BY <1>1, ContentRetract
  <1>5. Queue[x] = Content(blk[x])
    BY DEF Queue
  <1> HIDE DEF n
  <1>6. Queue' = [Queue EXCEPT ![x] = SubSeq(Queue[x], 1, Len(Queue[x]) - n)]
    <2> DEFINE b == MoveWritePt(blk[x], -len)
    <2>1. blk' = [blk EXCEPT ![x] = b]
      BY DEF MoveWriteBack
    <2> HIDE DEF b
    <2>2. Queue' = [Queue EXCEPT ![x] = Content(b)]
      BY <2>1, OneQueue
    <2> QED BY <1>4, <1>5, <2>2 DEF b
  <1>7. /\ n \in 0 .. Len(Queue[x])
        /\ n = len \/ (n < len /\ n = Len(Queue[x]))
        /\ io' = <<>>
    BY <1>3, <1>5 DEF MoveWriteBack
  <1>8. \E k \in 0 .. Len(Queue[x]) :
            /\ k = len \/ (k < len /\ k = Len(Queue[x]))
            /\ Queue' = [Queue EXCEPT ![x] = SubSeq(Queue[x], 1, Len(Queue[x]) - k)]
            /\ io' = <<>>
    BY <1>6, <1>7
  <1> QED BY <1>8, Zenon DEF Fifo!Retract, Queue

(* Moving the read pointer back puts bytes in front of the queue.           *)
LEMMA UnreadRefines ==
    ASSUME Inv, NEW x \in Blocks, NEW len \in -MaxArg .. 0, MoveRead(x, len)
    PROVE  \E data \in Strings : Fifo!Restore(x, data)
  <1> DEFINE n    == Least(-len, GetCanWriteLength(blk[x]))
             W    == Content(MoveReadPt(blk[x], len))
             data == SubSeq(W, 1, n)
  <1>1. blk[x] \in Block /\ PointersAgree(blk[x]) /\ len \in Int /\ len <= 0
    BY MaxArgAssumption DEF Inv, TypeOK, PointersOK
  <1>2. MoveReadPt(blk[x], len) \in Block
    BY <1>1, MoveReadPtOK
  <1>3. W \in Seq(Byte) /\ Len(W) = GetCanReadLength(MoveReadPt(blk[x], len))
        /\ Len(W) \in 0 .. BlockLen
    BY <1>2, ContentType, LengthsAddUp
  <1>4. W = data \o Content(blk[x])
    BY <1>1, ContentUnread
  <1>5. /\ GetCanWriteLength(blk[x]) \in Nat /\ GetCanReadLength(blk[x]) \in Nat
        /\ Content(blk[x]) \in Seq(Byte) /\ Len(Content(blk[x])) \in Nat
    BY <1>1, LengthsAddUp, ContentType, BlockLenAssumption
  <1>6. n \in 0 .. MaxArg
    BY <1>1, <1>5, MaxArgAssumption DEF Least
  <1>7. Len(data) = n /\ Len(W) = n + Len(Content(blk[x]))
    <2>1. Len(data) = n
      <3> HIDE DEF n, W
      <3> QED BY <1>3, <1>6
    <2> HIDE DEF data, n
    <2>2. Len(data \o Content(blk[x])) = Len(data) + Len(Content(blk[x]))
      BY <1>5, <1>6, <2>1
    <2> QED BY <1>4, <2>1, <2>2
  <1>8. data \in Seq(Byte)
    <2> HIDE DEF n, W
    <2> QED BY <1>3, <1>5, <1>6, <1>7
  <1>9. data \in Strings
    <2> HIDE DEF data
    <2>1. data \in [1 .. n -> Byte]
      BY <1>7, <1>8, LenProperties
    <2> QED BY <1>6, <2>1 DEF Strings
  <1>10. Queue[x] = Content(blk[x])
    BY DEF Queue
  <1>11. Queue' = [Queue EXCEPT ![x] = W]
    BY OneQueue DEF MoveRead
  <1>12. io' = <<>>
    BY <1>1 DEF MoveRead
  <1> HIDE DEF data, W
  <1>13. /\ Len(data) + Len(Queue[x]) <= BlockLen
         /\ Queue' = [Queue EXCEPT ![x] = data \o Queue[x]]
    BY <1>3, <1>4, <1>5, <1>6, <1>7, <1>10, <1>11
  <1>14. Fifo!Restore(x, data)
    BY <1>12, <1>13 DEF Fifo!Restore, Queue
  <1> QED BY <1>9, <1>14

(* A transfer between two blocks moves bytes from the front of one queue to  *)
(* the back of the other.                                                   *)
LEMMA TransferRefines ==
    ASSUME Inv, NEW x \in Blocks, NEW y \in Blocks \ {x}, NEW len \in 0 .. MaxArg,
           blk' = [blk EXCEPT ![x] = TransferSrc(blk[x], blk[y], len),
                              ![y] = TransferDst(blk[x], blk[y], len)],
           io' = <<>>
    PROVE  Fifo!Move(x, y, len)
  <1> DEFINE n == TransferLen(blk[x], blk[y], len)
             a == TransferSrc(blk[x], blk[y], len)
             b == TransferDst(blk[x], blk[y], len)
  <1>1. /\ blk[x] \in Block /\ PointersAgree(blk[x])
        /\ blk[y] \in Block /\ PointersAgree(blk[y]) /\ len \in Nat
    BY MaxArgAssumption DEF Inv, TypeOK, PointersOK
  <1>2. /\ n \in 0 .. GetCanReadLength(blk[x])
        /\ n + GetCanReadLength(blk[y]) <= BlockLen
        /\ \/ n = len \/ n = GetCanReadLength(blk[x])
           \/ n + GetCanReadLength(blk[y]) = BlockLen
        /\ Content(b) = Content(blk[y]) \o SubSeq(Content(blk[x]), 1, n)
        /\ Content(a) = SubSeq(Content(blk[x]), n + 1, Len(Content(blk[x])))
    BY <1>1, TransferOK
  <1>3. /\ Len(Content(blk[x])) = GetCanReadLength(blk[x])
        /\ Len(Content(blk[y])) = GetCanReadLength(blk[y])
        /\ Len(Content(blk[x])) \in Nat /\ Len(Content(blk[y])) \in Nat
    BY <1>1, LengthsAddUp, ContentType, BlockLenAssumption
  <1>4. Queue[x] = Content(blk[x]) /\ Queue[y] = Content(blk[y])
    BY DEF Queue
  <1> HIDE DEF n, a, b
  <1>5. blk' = [blk EXCEPT ![x] = a, ![y] = b]
    BY DEF a, b
  <1>6. Queue' = [Queue EXCEPT ![x] = Content(a), ![y] = Content(b)]
    BY <1>5 DEF Inv, TypeOK, Queue
  <1>7. Queue' = [Queue EXCEPT ![x] = SubSeq(Queue[x], n + 1, Len(Queue[x])),
                               ![y] = Queue[y] \o SubSeq(Queue[x], 1, n)]
    BY <1>2, <1>4, <1>6
  <1>8. /\ n \in 0 .. Len(Queue[x])
        /\ n \in {len, Len(Queue[x])} \/ Len(Queue[y]) + n = BlockLen
        /\ Len(Queue[y]) + n <= BlockLen
    <2>1. n \in 0 .. Len(Queue[x]) /\ Len(Queue[y]) \in Nat
      BY <1>2, <1>3, <1>4
    <2>2. n = len \/ n = Len(Queue[x]) \/ n + Len(Queue[y]) = BlockLen
      BY <1>2, <1>3, <1>4
    <2>3. n + Len(Queue[y]) <= BlockLen
      BY <1>2, <1>3, <1>4
    <2>4. n + Len(Queue[y]) = Len(Queue[y]) + n
      BY <2>1
    <2> QED BY <2>1, <2>2, <2>3, <2>4
  <1>9. \E k \in 0 .. Len(Queue[x]) :
            /\ k \in {len, Len(Queue[x])} \/ Len(Queue[y]) + k = BlockLen
            /\ Len(Queue[y]) + k <= BlockLen
            /\ Queue' = [Queue EXCEPT ![x] = SubSeq(Queue[x], k + 1, Len(Queue[x])),
                                      ![y] = Queue[y] \o SubSeq(Queue[x], 1, k)]
            /\ io' = <<>>
    BY <1>7, <1>8
  <1> QED BY <1>9, Zenon DEF Fifo!Move, Queue

(* Every call is a step of the queues.                                      *)
LEMMA NextRefines == Inv /\ [Next]_vars => [Fifo!Next]_(Fifo!vars)
  <1> SUFFICES ASSUME Inv, [Next]_vars PROVE [Fifo!Next]_(Fifo!vars)
    OBVIOUS
  <1>0. Strings = Fifo!Strings
    BY DEF Strings, Fifo!Strings
  <1>1. ASSUME NEW x \in Blocks, NEW data \in Strings,
               WriteData(x, data) \/ FillFree(x, data)
        PROVE  Fifo!Next
    <2>1. blk[x] \in Block /\ PointersAgree(blk[x]) /\ data \in Seq(Byte)
      BY StringsAreSeqs DEF Inv, TypeOK, PointersOK
    <2>2. FillFree(x, data) => Fill(blk[x], data) = Write(blk[x], data)
      BY <2>1, FillIsWrite DEF FillFree
    <2>3. blk' = [blk EXCEPT ![x] = Write(blk[x], data)] /\ io' = data
      BY <1>1, <2>2 DEF WriteData, FillFree
    <2>4. Fifo!Put(x, data)
      BY <2>3, WriteRefines
    <2> QED BY <1>0, <2>4 DEF Fifo!Next
  <1>2. ASSUME NEW x \in Blocks, NEW len \in 0 .. MaxArg, ReadData(x, len)
        PROVE  Fifo!Next
    <2>1. len \in Nat
      BY MaxArgAssumption
    <2>2. Fifo!Take(x, len)
      BY <1>2, <2>1, ReadRefines DEF ReadData
    <2> QED BY <2>2 DEF Fifo!Next
  <1>3. ASSUME NEW x \in Blocks, NEW len \in 0 .. MaxArg, MoveWriteBack(x, len)
        PROVE  Fifo!Next
    <2>1. Fifo!Retract(x, len)
      BY <1>3, RetractRefines
    <2> QED BY <2>1 DEF Fifo!Next
  <1>4. ASSUME NEW x \in Blocks, NEW len \in -MaxArg .. MaxArg, MoveRead(x, len)
        PROVE  Fifo!Next
    <2>1. CASE len > 0
      <3>1. len \in Nat /\ len \in 0 .. MaxArg
        BY <2>1, MaxArgAssumption
      <3>2. Fifo!Take(x, len)
        BY <1>4, <2>1, <3>1, ReadRefines DEF MoveRead
      <3> QED BY <3>1, <3>2 DEF Fifo!Next
    <2>2. CASE ~(len > 0)
      <3>1. len \in -MaxArg .. 0
        BY <2>2, MaxArgAssumption
      <3>2. \E data \in Strings : Fifo!Restore(x, data)
        BY <1>4, <3>1, UnreadRefines
      <3> QED BY <1>0, <3>2 DEF Fifo!Next
    <2> QED BY <2>1, <2>2
  <1>5. ASSUME NEW x \in Blocks, NEW y \in Blocks \ {x}, NEW len \in 0 .. MaxArg,
               ReadInto(x, y, len) \/ WriteFrom(x, y, len)
        PROVE  Fifo!Next
    <2>1. ResetIfEmpty(blk[y]) = blk[y]
      BY ResetIfEmptyIsNoChange DEF Inv, TypeOK, PointersOK
    <2>2. /\ blk' = [blk EXCEPT ![x] = TransferSrc(blk[x], blk[y], len),
                                ![y] = TransferDst(blk[x], blk[y], len)]
          /\ io' = <<>>
      BY <1>5, <2>1 DEF ReadInto, WriteFrom
    <2>3. Fifo!Move(x, y, len)
      BY <2>2, TransferRefines
    <2> QED BY <2>3 DEF Fifo!Next
  <1>6. ASSUME NEW x \in Blocks, ClearBlock(x)
        PROVE  Fifo!Next
    <2>1. Content(Clear(blk[x])) = <<>>
      BY DEF Content, GetCanReadLength, Clear, At
    <2>2. Queue' = [Queue EXCEPT ![x] = <<>>] /\ io' = <<>>
      BY <1>6, <2>1, OneQueue DEF ClearBlock
    <2>3. Fifo!Discard(x)
      BY <2>2 DEF Fifo!Discard, Queue
    <2> QED BY <2>3 DEF Fifo!Next
  <1>7. CASE UNCHANGED vars
    BY <1>7 DEF vars, Fifo!vars
  <1>8. CASE Next
    <2>1. Fifo!Next
      BY <1>8, <1>1, <1>2, <1>3, <1>4, <1>5, <1>6
         DEF Next, ReadUntilLen, ReadUntilStr
    <2> QED BY <2>1
  <1> QED BY <1>7, <1>8

(* Whatever the size of a block and however many there are, blocks behave as *)
(* bounded first-in first-out queues under every sequence of calls: no call  *)
(* of buffer_block.cpp loses, repeats, reorders or invents a byte.          *)
THEOREM BlocksAreFifos == Spec => IsFifo
  <1> QED BY InitInv, NextInv, InitRefines, NextRefines, PTL
          DEF Spec, IsFifo, Fifo!Spec

-----------------------------------------------------------------------------
(* Loops over the blocks of a queue.                                        *)

(* A set of rounds that holds 0 and, with each round, the next is all of them. *)
LEMMA AllRounds ==
    ASSUME NEW n \in Nat, NEW P, 0 \in P,
           \A k \in 1 .. n : k - 1 \in P => k \in P
    PROVE  \A k \in 0 .. n : k \in P
  <1> DEFINE R == OpToRel(<, Nat)
             T == {k \in 0 .. n : k \notin P}
  <1> SUFFICES ASSUME T # {} PROVE FALSE
    OBVIOUS
  <1>1. PICK x \in T : \A y \in T : ~(<<y, x>> \in R)
    <2>1. T \subseteq Nat
      OBVIOUS
    <2> QED
      BY <2>1, NatLessThanWellFounded, WFMin
  <1>2. R = {ss \in Nat \X Nat : ss[1] < ss[2]}
    BY DEF OpToRel
  <1> HIDE DEF R
  <1>3. x # 0 /\ x - 1 \in 0 .. n /\ x \in 1 .. n
    OBVIOUS
  <1>4. x - 1 \notin P
    BY <1>1, <1>3
  <1>5. <<x - 1, x>> \in Nat \X Nat
    BY <1>3
  <1> QED
    BY <1>1, <1>2, <1>3, <1>4, <1>5

(* Round k of a loop is step[k], which takes a state of X[k - 1] to one of      *)
(* X[k].  f is what the loop computes from x.                               *)
Steps(n, X, step) == \A k \in 1 .. n : \A y \in X[k - 1] : step[k][y] \in X[k]

Runs(f, n, x, step) ==
    f = [k \in 0 .. n |-> IF k = 0 THEN x ELSE step[k][f[k - 1]]]

Through(f, n, X) == \A k \in 0 .. n : f[k] \in X[k]

(* Every loop computes something.                                           *)
LEMMA LoopRuns ==
    ASSUME NEW n \in Nat, NEW X, NEW x, x \in X[0], NEW step, Steps(n, X, step)
    PROVE  \E f : Runs(f, n, x, step) /\ Through(f, n, X)
  <1> USE DEF Steps
  <1> DEFINE Y == UNION {X[k] : k \in 0 .. n}
             Run(f, m) == /\ f \in [0 .. m -> Y]
                          /\ f[0] = x
                          /\ \A k \in 1 .. m : f[k] = step[k][f[k - 1]]
                          /\ \A k \in 0 .. m : f[k] \in X[k]
             P == {m \in 0 .. n : \E f : Run(f, m)}
  <1>1. 0 \in P
    <2> DEFINE g == [k \in 0 .. 0 |-> x]
    <2>1. g \in [0 .. 0 -> Y] /\ g[0] = x
      OBVIOUS
    <2> HIDE DEF g
    <2>2. Run(g, 0)
      BY <2>1
    <2> QED
      BY <2>2
  <1>2. ASSUME NEW k \in 1 .. n, k - 1 \in P PROVE k \in P
    <2>1. PICK f : Run(f, k - 1)
      BY <1>2
    <2> DEFINE g == [j \in 0 .. k |-> IF j = k THEN step[k][f[k - 1]] ELSE f[j]]
    <2>2. g[k] = step[k][f[k - 1]] /\ \A j \in 0 .. k - 1 : g[j] = f[j]
      OBVIOUS
    <2>3. \A j \in 0 .. k : g[j] \in X[j]
      BY <2>1, <2>2
    <2>9. g \in [0 .. k -> Y]
      BY <2>3
    <2> HIDE DEF g
    <2>4. g[0] = x
      BY <2>1, <2>2
    <2>5. ASSUME NEW j \in 1 .. k PROVE g[j] = step[j][g[j - 1]]
      <3>1. CASE j = k
        BY <2>2, <3>1
      <3>2. CASE j # k
        <4>1. j \in 1 .. k - 1 /\ j - 1 \in 0 .. k - 1
          BY <3>2
        <4> QED
          BY <2>1, <2>2, <4>1
      <3> QED
        BY <3>1, <3>2
    <2>7. Run(g, k)
      BY <2>3, <2>4, <2>5, <2>9
    <2> QED
      BY <2>7
  <1>3. n \in P
    <2> HIDE DEF P
    <2> QED
      BY <1>1, <1>2, AllRounds
  <1>4. PICK f : Run(f, n)
    BY <1>3
  <1>5. f = [k \in 0 .. n |-> IF k = 0 THEN x ELSE step[k][f[k - 1]]]
    <2>1. f \in [0 .. n -> Y]
      BY <1>4
    <2>2. ASSUME NEW k \in 0 .. n PROVE f[k] = IF k = 0 THEN x ELSE step[k][f[k - 1]]
      <3>1. f[0] = x /\ \A j \in 1 .. n : f[j] = step[j][f[j - 1]]
        BY <1>4
      <3>2. k = 0 \/ k \in 1 .. n
        OBVIOUS
      <3> QED
        BY <3>1, <3>2
    <2> DEFINE h == [k \in 0 .. n |-> IF k = 0 THEN x ELSE step[k][f[k - 1]]]
    <2>3. \A k \in 0 .. n : h[k] = f[k]
      BY <2>2
    <2>4. h \in [0 .. n -> Y]
      BY <2>1, <2>2
    <2> HIDE DEF h, Y
    <2>5. f = h
      BY <2>1, <2>3, <2>4
    <2> QED
      BY <2>5 DEF h
  <1> QED
    BY <1>4, <1>5 DEF Runs, Through

-----------------------------------------------------------------------------
(* The bytes of a list of blocks.                                           *)

(* The blocks whose pointers and flag agree.                                *)
GoodBlock == {b \in Block : PointersAgree(b)}

(* The contents of blocks are sequences of bytes.                           *)
LEMMA ContentIsSeq ==
    ASSUME NEW b \in GoodBlock
    PROVE  b \in Block /\ PointersAgree(b) /\ Content(b) \in Seq(Byte)
  BY ContentType DEF GoodBlock

(* Concatenation of bytes is associative.                                   *)
LEMMA BytesAssociate ==
    \A a, b, c \in Seq(Byte) : (a \o b) \o c = a \o (b \o c)
  BY ConcatAssociative

(* A concatenation falls apart into its parts.                              *)
LEMMA SplitConcat ==
    ASSUME NEW g \in Seq(Byte), NEW u \in Seq(Byte)
    PROVE  /\ SubSeq(g \o u, 1, Len(g)) = g
           /\ SubSeq(g \o u, Len(g) + 1, Len(g \o u)) = u
  <1>1. /\ Len(g) \in Nat /\ Len(u) \in Nat /\ g \o u \in Seq(Byte)
        /\ Len(g \o u) = Len(g) + Len(u)
        /\ \A i \in 1 .. Len(g) + Len(u) :
              (g \o u)[i] = IF i <= Len(g) THEN g[i] ELSE u[i - Len(g)]
    BY ConcatIndex
  <1> DEFINE a == g \o u
             n == Len(g)
             m == Len(u)
             s == SubSeq(a, 1, n)
             t == SubSeq(a, n + 1, Len(a))
  <1>2. /\ a \in Seq(Byte) /\ n \in Nat /\ m \in Nat /\ Len(a) = n + m
        /\ \A i \in 1 .. n + m : a[i] = IF i <= n THEN g[i] ELSE u[i - n]
    BY <1>1
  <1> HIDE DEF a, n, m
  <1>3. s \in Seq(Byte) /\ Len(s) = n /\ \A i \in 1 .. n : s[i] = a[i]
    BY <1>2
  <1>4. t \in Seq(Byte) /\ Len(t) = m /\ \A i \in 1 .. m : t[i] = a[n + i]
    BY <1>2
  <1> HIDE DEF s, t
  <1>5. s = g
    <2>1. \A i \in 1 .. Len(s) : s[i] = g[i]
      BY <1>2, <1>3
    <2> QED
      BY <1>3, <2>1, SeqEqual DEF n
  <1>6. t = u
    <2>1. \A i \in 1 .. Len(t) : t[i] = u[i]
      BY <1>2, <1>4
    <2> QED
      BY <1>4, <2>1, SeqEqual DEF m
  <1> QED
    BY <1>5, <1>6 DEF s, t, a, n

(* A sequence is its first n bytes and the others.                          *)
LEMMA SplitAt ==
    ASSUME NEW s \in Seq(Byte), NEW n \in 0 .. Len(s)
    PROVE  SubSeq(s, 1, n) \o SubSeq(s, n + 1, Len(s)) = s
  <1>1. /\ Len(s) \in Nat /\ 1 \in 1 .. Len(s) + 1 /\ n \in 1 - 1 .. Len(s)
        /\ Len(s) \in n .. Len(s)
    BY LenProperties
  <1>2. SubSeq(s, 1, n) \o SubSeq(s, n + 1, Len(s)) = SubSeq(s, 1, Len(s))
    BY <1>1, ConcatAdjacentSubSeq
  <1> QED
    BY <1>2, SubSeqFull

(* The concatenation of the contents, block by block.                       *)
Joined(list) ==
    /\ Bytes(list, 0) = <<>>
    /\ \A i \in 1 .. Len(list) : Bytes(list, i) = Bytes(list, i - 1) \o Content(list[i])
    /\ \A i \in 0 .. Len(list) : Bytes(list, i) \in Seq(Byte)

(* Bytes of every list of blocks is that.                                   *)
LEMMA BytesJoin ==
    ASSUME NEW list \in Seq(GoodBlock)
    PROVE  Joined(list)
  <1> DEFINE n == Len(list)
             S == Seq(Byte)
  <1>1. n \in Nat
    OBVIOUS
  <1>2. \A k \in 1 .. n : Content(list[k]) \in S
    BY ContentIsSeq
  <1>3. <<>> \in S /\ \A s, t \in S : s \o t \in S
    BY ConcatProperties
  <1> HIDE DEF n, S
  <1> DEFINE X == [k \in 0 .. n |-> S]
             step == [k \in 1 .. n |-> [y \in S |-> y \o Content(list[k])]]
             Upto[i \in 0 .. n] ==
                IF i = 0 THEN <<>> ELSE Upto[i - 1] \o Content(list[i])
             Is(f) == f = [i \in 0 .. n |-> IF i = 0 THEN <<>> ELSE f[i - 1] \o Content(list[i])]
  <1>4. /\ \A k \in 1 .. n : \A y \in S : step[k][y] = y \o Content(list[k])
        /\ \A k \in 0 .. n : X[k] = S
    OBVIOUS
  <1> HIDE DEF X, step
  <1>5. PICK f : Runs(f, n, <<>>, step) /\ Through(f, n, X)
    <2>1. <<>> \in X[0]
      BY <1>1, <1>3, <1>4
    <2>2. ASSUME NEW k \in 1 .. n, NEW y \in X[k - 1] PROVE step[k][y] \in X[k]
      <3>1. y \in S /\ X[k] = S /\ step[k][y] = y \o Content(list[k])
        BY <1>1, <1>4
      <3> QED
        BY <1>2, <1>3, <3>1
    <2>3. Steps(n, X, step)
      BY <2>2 DEF Steps
    <2> QED
      BY <1>1, <2>1, <2>3, LoopRuns
  <1>6. Is(f)
    <2>1. ASSUME NEW k \in 0 .. n, k # 0 PROVE step[k][f[k - 1]] = f[k - 1] \o Content(list[k])
      <3>1. k \in 1 .. n /\ k - 1 \in 0 .. n
        BY <1>1, <2>1
      <3>2. f[k - 1] \in S
        BY <1>4, <1>5, <3>1, SMTT(30) DEF Through
      <3> QED
        BY <1>4, <3>1, <3>2
    <2> QED
      BY <1>5, <2>1 DEF Runs
  <1>7. Is(Upto)
    BY <1>6, Zenon
  <1>8. \A i \in 0 .. n : Bytes(list, i) = Upto[i]
    BY DEF Bytes, n
  <1> HIDE DEF Upto
  <1>9. Upto[0] = <<>> /\ \A i \in 1 .. n : Upto[i] = Upto[i - 1] \o Content(list[i])
    BY <1>1, <1>7
  <1> DEFINE P == {i \in 0 .. n : Upto[i] \in S}
  <1>10. 0 \in P /\ \A k \in 1 .. n : k - 1 \in P => k \in P
    <2>1. 0 \in P
      BY <1>1, <1>3, <1>9
    <2>2. ASSUME NEW k \in 1 .. n, k - 1 \in P PROVE k \in P
      <3>1. k \in 0 .. n /\ k - 1 \in 0 .. n
        BY <1>1
      <3>2. Upto[k] = Upto[k - 1] \o Content(list[k]) /\ Content(list[k]) \in S
        BY <1>2, <1>9
      <3> QED
        BY <1>3, <2>2, <3>1, <3>2
    <2> QED
      BY <2>1, <2>2
  <1>11. \A i \in 0 .. n : i \in P
    <2> HIDE DEF P
    <2> QED
      BY <1>1, <1>10, AllRounds
  <1> QED
    <2>1. \A i \in 1 .. n : i \in 0 .. n /\ i - 1 \in 0 .. n
      BY <1>1
    <2>2. 0 \in 0 .. n
      BY <1>1
    <2>3. \A i \in 0 .. n : Bytes(list, i) \in S
      BY <1>8, <1>11
    <2>4. Bytes(list, 0) = <<>> /\ \A i \in 1 .. n : Bytes(list, i) = Bytes(list, i - 1) \o Content(list[i])
      BY <1>8, <1>9, <2>1, <2>2
    <2> QED
      BY <2>3, <2>4 DEF Joined, n, S

(* Lists whose first n blocks hold the same have the same first bytes.       *)
LEMMA SameBytes ==
    ASSUME NEW l \in Seq(GoodBlock), NEW m \in Seq(GoodBlock),
           NEW n \in 0 .. Len(l), n <= Len(m),
           \A i \in 1 .. n : Content(l[i]) = Content(m[i])
    PROVE  Bytes(l, n) = Bytes(m, n)
  <1> DEFINE P == {i \in 0 .. n : Bytes(l, i) = Bytes(m, i)}
  <1>1. Joined(l) /\ Joined(m) /\ n \in Nat /\ Len(l) \in Nat /\ Len(m) \in Nat
    BY BytesJoin
  <1>2. 0 \in P
    BY <1>1 DEF Joined
  <1>3. ASSUME NEW k \in 1 .. n, k - 1 \in P PROVE k \in P
    <2>1. k \in 1 .. Len(l) /\ k \in 1 .. Len(m) /\ k \in 0 .. n
      BY <1>1
    <2>2. Bytes(l, k) = Bytes(l, k - 1) \o Content(l[k])
      BY <1>1, <2>1 DEF Joined
    <2>3. Bytes(m, k) = Bytes(m, k - 1) \o Content(m[k])
      BY <1>1, <2>1 DEF Joined
    <2> QED
      BY <1>3, <2>1, <2>2, <2>3
  <1>4. n \in P
    <2> HIDE DEF P
    <2>1. \A k \in 0 .. n : k \in P
      BY <1>1, <1>2, <1>3, AllRounds
    <2> QED
      BY <1>1, <2>1
  <1> QED
    BY <1>4

(* Blocks that hold nothing add nothing.                                    *)
LEMMA NoBytes ==
    ASSUME NEW l \in Seq(GoodBlock), NEW k \in 0 .. Len(l), NEW n \in k .. Len(l),
           \A i \in k + 1 .. n : Content(l[i]) = <<>>
    PROVE  Bytes(l, n) = Bytes(l, k)
  <1> DEFINE P == {i \in 0 .. n : k <= i => Bytes(l, i) = Bytes(l, k)}
  <1>1. Joined(l) /\ n \in Nat /\ k \in Nat /\ Len(l) \in Nat /\ k <= n
    BY BytesJoin
  <1>2. 0 \in P
    BY <1>1
  <1>3. ASSUME NEW i \in 1 .. n, i - 1 \in P PROVE i \in P
    <2>1. i \in 1 .. Len(l) /\ i - 1 \in 0 .. Len(l) /\ i \in 0 .. n
      BY <1>1
    <2> SUFFICES ASSUME k < i PROVE Bytes(l, i) = Bytes(l, k)
      BY <1>1, <2>1
    <2>2. i \in k + 1 .. n
      BY <1>1
    <2>3. Bytes(l, i) = Bytes(l, i - 1) \o <<>> /\ Bytes(l, i - 1) \in Seq(Byte)
      BY <1>1, <2>1, <2>2 DEF Joined
    <2>4. Bytes(l, i - 1) = Bytes(l, k)
      BY <1>1, <1>3
    <2> QED
      BY <2>3, <2>4, ConcatEmptySeq
  <1>4. n \in P
    <2> HIDE DEF P
    <2>1. \A i \in 0 .. n : i \in P
      BY <1>1, <1>2, <1>3, AllRounds
    <2> QED
      BY <1>1, <2>1
  <1> QED
    BY <1>1, <1>4

(* Without the head, the bytes are those behind its contents.               *)
LEMMA TailBytes ==
    ASSUME NEW l \in Seq(GoodBlock), l # <<>>
    PROVE  Bytes(l, Len(l)) = Content(l[1]) \o Bytes(Tail(l), Len(Tail(l)))
  <1> DEFINE t == Tail(l)
             n == Len(t)
             P == {i \in 0 .. n : Bytes(l, i + 1) = Content(l[1]) \o Bytes(t, i)}
  <1>1. /\ t \in Seq(GoodBlock) /\ n = Len(l) - 1 /\ n \in Nat /\ Len(l) = n + 1
        /\ \A i \in 1 .. n : t[i] = l[i + 1]
    BY HeadTailProperties, LenProperties, EmptySeq
  <1>2. Joined(l) /\ Joined(t)
    BY <1>1, BytesJoin
  <1>3. \A i \in 1 .. Len(l) : Content(l[i]) \in Seq(Byte)
    BY ContentIsSeq
  <1> HIDE DEF t
  <1>4. 0 \in P
    <2>0. 1 \in 1 .. Len(l) /\ 1 - 1 = 0
      BY <1>1
    <2>1. Bytes(l, 1) = Bytes(l, 0) \o Content(l[1]) /\ Bytes(l, 0) = <<>> /\ Bytes(t, 0) = <<>>
      BY <1>2, <2>0 DEF Joined
    <2>2. Bytes(l, 1) = Content(l[1]) \o Bytes(t, 0)
      BY <1>1, <1>3, <2>1, ConcatEmptySeq
    <2>3. 0 \in 0 .. n /\ 0 + 1 = 1
      BY <1>1
    <2> QED
      BY <2>2, <2>3
  <1>5. ASSUME NEW i \in 1 .. n, i - 1 \in P PROVE i \in P
    <2>1. i \in 0 .. n /\ i + 1 \in 1 .. Len(l) /\ (i + 1) - 1 = i /\ (i - 1) + 1 = i /\ i - 1 \in 0 .. n
      BY <1>1
    <2>2. Bytes(l, i + 1) = Bytes(l, i) \o Content(l[i + 1])
      BY <1>2, <2>1 DEF Joined
    <2>3. Bytes(t, i) = Bytes(t, i - 1) \o Content(l[i + 1]) /\ Bytes(t, i - 1) \in Seq(Byte)
      BY <1>1, <1>2, <2>1 DEF Joined
    <2>4. Bytes(l, i) = Content(l[1]) \o Bytes(t, i - 1)
      BY <1>5, <2>1
    <2>5. Content(l[1]) \in Seq(Byte) /\ Content(l[i + 1]) \in Seq(Byte)
      BY <1>1, <1>3, <2>1
    <2>6. Bytes(l, i + 1) = Content(l[1]) \o Bytes(t, i)
      <3>1. (Content(l[1]) \o Bytes(t, i - 1)) \o Content(l[i + 1])
               = Content(l[1]) \o (Bytes(t, i - 1) \o Content(l[i + 1]))
        BY <2>3, <2>5, BytesAssociate
      <3> QED
        BY <2>2, <2>3, <2>4, <3>1, Zenon
    <2> QED
      BY <2>1, <2>6
  <1>6. n \in P
    <2> HIDE DEF P, n
    <2>1. \A i \in 0 .. n : i \in P
      BY <1>1, <1>4, <1>5, AllRounds
    <2> QED
      BY <1>1, <2>1
  <1>7. Bytes(l, n + 1) = Content(l[1]) \o Bytes(t, n)
    BY <1>6
  <1> QED
    BY <1>1, <1>7 DEF t

(* What the _buffer_write block takes on is behind all other bytes.          *)
LEMMA PutBytes ==
    ASSUME NEW l \in Seq(GoodBlock), NEW w \in 1 .. Len(l), NEW b \in GoodBlock,
           NEW p \in Seq(Byte), Content(b) = Content(l[w]) \o p,
           \A i \in w + 1 .. Len(l) : Content(l[i]) = <<>>
    PROVE  Bytes([l EXCEPT ![w] = b], Len(l)) = Bytes(l, Len(l)) \o p
  <1> DEFINE m == [l EXCEPT ![w] = b]
  <1>1. /\ m \in Seq(GoodBlock) /\ Len(m) = Len(l) /\ Len(l) \in Nat
        /\ \A i \in 1 .. Len(l) : m[i] = IF i = w THEN b ELSE l[i]
    BY ExceptSeq, LenProperties
  <1> HIDE DEF m
  <1>2. Joined(l) /\ Joined(m)
    BY <1>1, BytesJoin
  <1>3. w \in 1 .. Len(m) /\ w - 1 \in 0 .. Len(l) /\ w \in 0 .. Len(l) /\ Len(l) \in w .. Len(l)
    BY <1>1
  <1>4. Bytes(m, w - 1) = Bytes(l, w - 1)
    <2>1. \A i \in 1 .. w - 1 : Content(m[i]) = Content(l[i])
      BY <1>1
    <2>2. w - 1 \in 0 .. Len(m) /\ w - 1 <= Len(l)
      BY <1>1
    <2> QED
      BY <1>1, <2>1, <2>2, SameBytes
  <1>5. Bytes(m, w) = Bytes(l, w) \o p
    <2>1. Bytes(m, w) = Bytes(m, w - 1) \o Content(b)
      BY <1>1, <1>2, <1>3 DEF Joined
    <2>2. Bytes(l, w) = Bytes(l, w - 1) \o Content(l[w]) /\ Bytes(l, w - 1) \in Seq(Byte)
      BY <1>2, <1>3 DEF Joined
    <2>3. Content(l[w]) \in Seq(Byte)
      BY ContentIsSeq
    <2>4. (Bytes(l, w - 1) \o Content(l[w])) \o p = Bytes(l, w - 1) \o (Content(l[w]) \o p)
      BY <2>2, <2>3, BytesAssociate
    <2> QED
      BY <1>4, <2>1, <2>2, <2>4
  <1>6. Bytes(l, Len(l)) = Bytes(l, w)
    BY <1>1, <1>3, NoBytes
  <1>7. Bytes(m, Len(l)) = Bytes(m, w)
    <2>1. \A i \in w + 1 .. Len(m) : Content(m[i]) = <<>>
      BY <1>1
    <2> QED
      BY <1>1, <1>3, <2>1, NoBytes
  <1> QED
    BY <1>5, <1>6, <1>7 DEF m

(* The head's contents come first.                                          *)
LEMMA HeadBytes ==
    ASSUME NEW l \in Seq(GoodBlock), l # <<>>, NEW b \in GoodBlock
    PROVE  Bytes([l EXCEPT ![1] = b], Len(l)) = Content(b) \o Bytes(Tail(l), Len(Tail(l)))
  <1> DEFINE m == [l EXCEPT ![1] = b]
  <1>1. Len(l) \in Nat /\ 1 \in 1 .. Len(l)
    BY EmptySeq, LenProperties
  <1>2. /\ m \in Seq(GoodBlock) /\ Len(m) = Len(l)
        /\ \A i \in 1 .. Len(l) : m[i] = IF i = 1 THEN b ELSE l[i]
    BY <1>1, ExceptSeq
  <1> HIDE DEF m
  <1>3. m # <<>> /\ m[1] = b
    BY <1>1, <1>2
  <1>4. Tail(m) = Tail(l)
    <2>1. /\ Tail(m) \in Seq(GoodBlock) /\ Len(Tail(m)) = Len(l) - 1
          /\ \A i \in 1 .. Len(Tail(m)) : Tail(m)[i] = m[i + 1]
      BY <1>2, <1>3, HeadTailProperties
    <2>2. /\ Tail(l) \in Seq(GoodBlock) /\ Len(Tail(l)) = Len(l) - 1
          /\ \A i \in 1 .. Len(Tail(l)) : Tail(l)[i] = l[i + 1]
      BY HeadTailProperties
    <2>3. \A i \in 1 .. Len(l) - 1 : m[i + 1] = l[i + 1]
      BY <1>1, <1>2
    <2> QED
      BY <2>1, <2>2, <2>3, SeqEqual
  <1>5. Bytes(m, Len(m)) = Content(m[1]) \o Bytes(Tail(m), Len(Tail(m)))
    BY <1>2, <1>3, TailBytes
  <1> QED
    BY <1>2, <1>3, <1>4, <1>5 DEF m

(* A block that holds nothing can be appended.                              *)
LEMMA AppendBytes ==
    ASSUME NEW l \in Seq(GoodBlock), NEW b \in GoodBlock, Content(b) = <<>>
    PROVE  Bytes(Append(l, b), Len(l) + 1) = Bytes(l, Len(l))
  <1> DEFINE m == Append(l, b)
  <1>1. /\ m \in Seq(GoodBlock) /\ Len(m) = Len(l) + 1 /\ Len(l) \in Nat
        /\ \A i \in 1 .. Len(l) : m[i] = l[i]
        /\ m[Len(l) + 1] = b
    BY AppendProperties, LenProperties
  <1> HIDE DEF m
  <1>2. Bytes(m, Len(l)) = Bytes(l, Len(l))
    <2>1. Len(l) \in 0 .. Len(m) /\ \A i \in 1 .. Len(l) : Content(m[i]) = Content(l[i])
      BY <1>1
    <2> QED
      BY <1>1, <2>1, SameBytes
  <1>3. Bytes(m, Len(l) + 1) = Bytes(m, Len(l))
    <2>1. /\ Len(l) \in 0 .. Len(m) /\ Len(l) + 1 \in Len(l) .. Len(m)
          /\ \A i \in Len(l) + 1 .. Len(l) + 1 : Content(m[i]) = <<>>
      BY <1>1
    <2> QED
      BY <1>1, <2>1, NoBytes
  <1> QED
    BY <1>2, <1>3 DEF m

(* The bytes of fewer blocks are a prefix.                                  *)
LEMMA PrefixBytes ==
    ASSUME NEW l \in Seq(GoodBlock), NEW j \in 0 .. Len(l), NEW n \in j .. Len(l)
    PROVE  \E s \in Seq(Byte) : Bytes(l, n) = Bytes(l, j) \o s
  <1> DEFINE P == {i \in 0 .. n : j <= i => \E s \in Seq(Byte) : Bytes(l, i) = Bytes(l, j) \o s}
  <1>1. Joined(l) /\ n \in Nat /\ j \in Nat /\ Len(l) \in Nat /\ j <= n
    BY BytesJoin
  <1>2. ASSUME NEW i \in 0 .. n, i = j PROVE i \in P
    <2>1. Bytes(l, j) \in Seq(Byte)
      BY <1>1 DEF Joined
    <2>2. Bytes(l, j) = Bytes(l, j) \o <<>> /\ <<>> \in Seq(Byte)
      BY <2>1, ConcatEmptySeq
    <2> HIDE DEF P
    <2>3. \E s \in Seq(Byte) : Bytes(l, i) = Bytes(l, j) \o s
      BY <1>2, <2>2, Zenon
    <2> QED
      BY <2>3 DEF P
  <1>3. 0 \in P
    BY <1>1, <1>2
  <1>4. ASSUME NEW i \in 1 .. n, i - 1 \in P PROVE i \in P
    <2>1. i \in 1 .. Len(l) /\ i - 1 \in 0 .. Len(l) /\ i \in 0 .. n
      BY <1>1
    <2>2. CASE i <= j
      BY <1>1, <1>2, <2>1, <2>2, SMTT(30)
    <2>3. CASE i > j
      <3>1. PICK s \in Seq(Byte) : Bytes(l, i - 1) = Bytes(l, j) \o s
        <4>1. j <= i - 1
          BY <1>1, <2>3
        <4> QED
          BY <1>4, <4>1, Zenon
      <3>2. Bytes(l, i) = Bytes(l, i - 1) \o Content(l[i]) /\ Bytes(l, j) \in Seq(Byte)
        BY <1>1, <2>1 DEF Joined
      <3>3. Content(l[i]) \in Seq(Byte)
        BY <2>1, ContentIsSeq
      <3>4. s \o Content(l[i]) \in Seq(Byte)
        BY <3>3, ConcatProperties
      <3>5. Bytes(l, i) = Bytes(l, j) \o (s \o Content(l[i]))
        <4>1. (Bytes(l, j) \o s) \o Content(l[i]) = Bytes(l, j) \o (s \o Content(l[i]))
          BY <3>2, <3>3, BytesAssociate
        <4> QED
          BY <3>1, <3>2, <4>1
      <3>6. \E u \in Seq(Byte) : Bytes(l, i) = Bytes(l, j) \o u
        BY <3>4, <3>5, Zenon
      <3> QED
        BY <2>1, <3>6, Zenon
    <2> QED
      BY <1>1, <2>1, <2>2, <2>3
  <1>5. n \in P
    <2> HIDE DEF P
    <2>1. \A i \in 0 .. n : i \in P
      BY <1>1, <1>3, <1>4, AllRounds
    <2> QED
      BY <1>1, <2>1
  <1> QED
    BY <1>1, <1>5

-----------------------------------------------------------------------------
(* Queues.                                                                  *)

QueueState == [list : Seq(GoodBlock), write : Nat, len : Int]

(* _buffer_write is null for the empty list only.  The blocks behind it hold  *)
(* nothing, and the ones before it hold something, but for the head: it may   *)
(* have been read to its end.  The block it points to may hold nothing, when  *)
(* it is new or when MoveWritePt(-1) has taken its bytes back.               *)
Placed(q) ==
    /\ q \in QueueState
    /\ q.write \in 0 .. Len(q.list)
    /\ q.write = 0 <=> q.list = <<>>
    /\ \A i \in 2 .. q.write - 1 : Content(q.list[i]) # <<>>
    /\ \A i \in q.write + 1 .. Len(q.list) : Content(q.list[i]) = <<>>

(* The bytes of a queue are a sequence.                                     *)
LEMMA QueueContentType ==
    ASSUME NEW q \in QueueState
    PROVE  /\ q.list \in Seq(GoodBlock) /\ Len(q.list) \in Nat /\ q.write \in Nat /\ q.len \in Int
           /\ q = [list |-> q.list, write |-> q.write, len |-> q.len]
           /\ QueueContent(q) \in Seq(Byte) /\ QueueContent(q) = Bytes(q.list, Len(q.list))
           /\ Joined(q.list)
  <1>1. q.list \in Seq(GoodBlock) /\ q.write \in Nat /\ q.len \in Int
    BY DEF QueueState
  <1>2. q = [list |-> q.list, write |-> q.write, len |-> q.len]
    BY DEF QueueState
  <1>3. Joined(q.list)
    BY <1>1, BytesJoin
  <1>4. Len(q.list) \in Nat
    BY <1>1, LenProperties
  <1> QED
    BY <1>1, <1>2, <1>3, <1>4 DEF Joined, QueueContent

(* A new block is empty.                                                    *)
LEMMA FreshIsEmpty ==
    /\ FreshBlock \in GoodBlock /\ Content(FreshBlock) = <<>>
    /\ GetCanWriteLength(FreshBlock) = BlockLen
  <1> DEFINE m == [c \in Cells |-> CHOOSE b \in Byte : TRUE]
  <1>1. m \in [Cells -> Byte]
    BY ByteAssumption
  <1>2. FreshBlock = [read |-> 0, write |-> 0, can_read |-> FALSE, mem |-> m]
    BY DEF FreshBlock, NewBlock
  <1> HIDE DEF m
  <1>3. FreshBlock \in Block /\ PointersAgree(FreshBlock)
    BY <1>1, <1>2, BlockLenAssumption DEF Block, PointersAgree
  <1>4. GetCanReadLength(FreshBlock) = 0 /\ GetCanWriteLength(FreshBlock) = BlockLen
    BY <1>2 DEF GetCanReadLength, GetCanWriteLength
  <1>5. Content(FreshBlock) = <<>>
    BY <1>3, <1>4, ContentType, EmptySeq
  <1> QED
    BY <1>3, <1>4, <1>5 DEF GoodBlock

(* Append: a block more, and no byte.                                       *)
Appended(q, r) ==
    /\ Placed(r) /\ QueueContent(r) = QueueContent(q) /\ r.len = q.len /\ r.write # 0

(* Append keeps the places and adds no byte.                                *)
LEMMA AppendPlaced ==
    ASSUME NEW q, Placed(q)
    PROVE  Appended(q, AppendBlock(q))
  <1> DEFINE m == Append(q.list, FreshBlock)
             w == IF q.write = 0 THEN Len(q.list) + 1 ELSE q.write
             r == AppendBlock(q)
  <1>1. /\ q.list \in Seq(GoodBlock) /\ Len(q.list) \in Nat /\ q.write \in Nat /\ q.len \in Int
        /\ QueueContent(q) = Bytes(q.list, Len(q.list))
    BY QueueContentType DEF Placed
  <1>2. /\ m \in Seq(GoodBlock) /\ Len(m) = Len(q.list) + 1
        /\ \A i \in 1 .. Len(q.list) : m[i] = q.list[i]
        /\ m[Len(q.list) + 1] = FreshBlock
    BY <1>1, FreshIsEmpty, AppendProperties
  <1>3. Bytes(m, Len(m)) = Bytes(q.list, Len(q.list))
    BY <1>1, <1>2, FreshIsEmpty, AppendBytes
  <1>4. w \in 1 .. Len(m) /\ w \in Nat
    <2>1. q.write \in 0 .. Len(q.list)
      BY DEF Placed
    <2> HIDE DEF m
    <2> QED
      BY <1>1, <1>2, <2>1
  <1>5. r = [list |-> m, write |-> w, len |-> q.len]
    BY DEF AppendBlock
  <1>6. m # <<>>
    BY <1>1, FreshIsEmpty, AppendProperties
  <1>7. \A i \in 2 .. w - 1 : Content(m[i]) # <<>>
    <2>1. CASE q.write = 0
      <3>1. w = 1
        BY <1>1, <2>1, EmptySeq DEF Placed
      <3> QED
        BY <3>1
    <2>2. CASE q.write # 0
      <3>1. w = q.write /\ \A i \in 2 .. w - 1 : i \in 1 .. Len(q.list)
        BY <1>1, <2>2 DEF Placed
      <3> QED
        BY <1>2, <3>1 DEF Placed
    <2> QED
      BY <2>1, <2>2
  <1>8. \A i \in w + 1 .. Len(m) : Content(m[i]) = <<>>
    <2> SUFFICES ASSUME NEW i \in w + 1 .. Len(m) PROVE Content(m[i]) = <<>>
      OBVIOUS
    <2>1. CASE i = Len(q.list) + 1
      BY <1>2, <2>1, FreshIsEmpty
    <2>2. CASE i # Len(q.list) + 1
      <3>1. i \in 1 .. Len(q.list) /\ i \in q.write + 1 .. Len(q.list)
        BY <1>1, <1>2, <1>4, <2>2
      <3> QED
        BY <1>2, <3>1 DEF Placed
    <2> QED
      BY <2>1, <2>2
  <1> HIDE DEF m, w
  <1>9. r \in QueueState
    BY <1>1, <1>2, <1>4, <1>5 DEF QueueState
  <1>10. r.list = m /\ r.write = w /\ r.len = q.len
    BY <1>5
  <1> HIDE DEF r
  <1>11. w # 0 /\ w \in 0 .. Len(m)
    BY <1>2, <1>4
  <1>12. Placed(r)
    BY <1>6, <1>7, <1>8, <1>9, <1>10, <1>11 DEF Placed
  <1>13. QueueContent(r) = QueueContent(q)
    BY <1>1, <1>3, <1>10 DEF QueueContent
  <1> QED
    BY <1>10, <1>11, <1>12, <1>13 DEF Appended, r

-----------------------------------------------------------------------------
(* Reading.                                                                 *)

(* MoveReadPt(left) on the head block: its first bytes are gone, and all of   *)
(* them if there are fewer than left.                                       *)
HeadRead(q, left, got, r) ==
    /\ Placed(r) /\ r.len = q.len /\ Len(r.list) = Len(q.list)
    /\ got \in Seq(Byte) /\ got \o QueueContent(r) = QueueContent(q)
    /\ Len(got) <= left
    /\ Len(got) < left => Content(r.list[1]) = <<>>

(* What a round of reading does to the head block.                          *)
LEMMA ReadHead ==
    ASSUME NEW q, Placed(q), q.list # <<>>, NEW left \in Nat
    PROVE  HeadRead(q, left, ReadBytes(q.list[1], left),
                    [q EXCEPT !.list[1] = MoveReadPt(q.list[1], left)])
  <1> DEFINE b == q.list[1]
             d == MoveReadPt(b, left)
             got == ReadBytes(b, left)
             n == Least(left, GetCanReadLength(b))
             m == [q.list EXCEPT ![1] = d]
             r == [q EXCEPT !.list[1] = d]
  <1>1. /\ q.list \in Seq(GoodBlock) /\ Len(q.list) \in Nat /\ q.write \in Nat /\ q.len \in Int
        /\ QueueContent(q) = Bytes(q.list, Len(q.list))
        /\ q = [list |-> q.list, write |-> q.write, len |-> q.len]
    BY QueueContentType DEF Placed
  <1>2. 1 \in 1 .. Len(q.list)
    BY <1>1, EmptySeq
  <1>3. b \in GoodBlock /\ b \in Block /\ PointersAgree(b) /\ Content(b) \in Seq(Byte)
    BY <1>1, <1>2, ContentIsSeq, ElementOfSeq
  <1>4. d \in GoodBlock
    BY <1>3, MoveReadPtOK DEF GoodBlock
  <1>5. /\ Len(Content(b)) = GetCanReadLength(b) /\ GetCanReadLength(b) \in Nat
        /\ n \in 0 .. Len(Content(b)) /\ n <= left /\ (n < left => n = Len(Content(b)))
    BY <1>3, ContentType, LengthsAddUp, BlockLenAssumption DEF Least
  <1>6. Content(d) = SubSeq(Content(b), n + 1, Len(Content(b)))
    BY <1>3, ContentRead
  <1>7. got = SubSeq(Content(b), 1, n)
    BY DEF ReadBytes
  <1>8. r = [list |-> m, write |-> q.write, len |-> q.len]
    BY <1>1
  <1>9. /\ m \in Seq(GoodBlock) /\ Len(m) = Len(q.list)
        /\ \A i \in 1 .. Len(q.list) : m[i] = IF i = 1 THEN d ELSE q.list[i]
    BY <1>1, <1>2, <1>4, ExceptSeq
  <1>10. Bytes(m, Len(m)) = Content(d) \o Bytes(Tail(q.list), Len(Tail(q.list)))
    BY <1>1, <1>4, <1>9, HeadBytes
  <1>11. Bytes(q.list, Len(q.list)) = Content(b) \o Bytes(Tail(q.list), Len(Tail(q.list)))
    BY <1>1, TailBytes
  <1>12. Bytes(Tail(q.list), Len(Tail(q.list))) \in Seq(Byte)
    <2>1. Tail(q.list) \in Seq(GoodBlock)
      BY <1>1, HeadTailProperties
    <2>2. Joined(Tail(q.list)) /\ Len(Tail(q.list)) \in Nat
      BY <2>1, BytesJoin, LenProperties
    <2> QED
      BY <2>2 DEF Joined
  <1> HIDE DEF m, r, n, b, d, got
  <1>13. got \in Seq(Byte) /\ Len(got) = n /\ Content(d) \in Seq(Byte) /\ got \o Content(d) = Content(b)
    <2> DEFINE C == Content(b)
    <2>1. C \in Seq(Byte) /\ Len(C) \in Nat /\ n \in 0 .. Len(C) /\ n \in Nat
      BY <1>3, <1>5, LenProperties
    <2>2. got = SubSeq(C, 1, n) /\ Content(d) = SubSeq(C, n + 1, Len(C))
      BY <1>6, <1>7
    <2> HIDE DEF C
    <2>3. got \in Seq(Byte) /\ Len(got) = n
      BY <2>1, <2>2
    <2>4. Content(d) \in Seq(Byte)
      BY <2>1, <2>2
    <2>5. SubSeq(C, 1, n) \o SubSeq(C, n + 1, Len(C)) = C
      BY <2>1, SplitAt
    <2> QED
      BY <2>2, <2>3, <2>4, <2>5 DEF C
  <1>14. got \o (Content(d) \o Bytes(Tail(q.list), Len(Tail(q.list))))
           = Content(b) \o Bytes(Tail(q.list), Len(Tail(q.list)))
    <2>1. (got \o Content(d)) \o Bytes(Tail(q.list), Len(Tail(q.list)))
             = got \o (Content(d) \o Bytes(Tail(q.list), Len(Tail(q.list))))
      BY <1>12, <1>13, BytesAssociate
    <2> QED
      BY <1>13, <2>1
  <1>15. r.list = m /\ r.write = q.write /\ r.len = q.len
    BY <1>8
  <1>16. got \o QueueContent(r) = QueueContent(q)
    BY <1>1, <1>10, <1>11, <1>14, <1>15 DEF QueueContent
  <1>17. Placed(r)
    <2>1. r \in QueueState
      BY <1>1, <1>8, <1>9 DEF QueueState
    <2>2. m # <<>>
      BY <1>2, <1>9, EmptySeq
    <2>3. \A i \in 2 .. q.write - 1 : Content(m[i]) # <<>>
      BY <1>1, <1>9, SMTT(30) DEF Placed
    <2>4. \A i \in q.write + 1 .. Len(m) : Content(m[i]) = <<>>
      <3>1. q.write # 0
        BY DEF Placed
      <3> QED
        BY <1>1, <1>9, <3>1 DEF Placed
    <2> QED
      BY <1>9, <1>15, <2>1, <2>2, <2>3, <2>4 DEF Placed
  <1>18. ASSUME Len(got) < left PROVE Content(r.list[1]) = <<>>
    <2>1. Content(d) = SubSeq(Content(b), Len(Content(b)) + 1, Len(Content(b)))
      BY <1>5, <1>6, <1>13, <1>18
    <2>2. Content(d) = <<>>
      BY <1>3, <2>1, SubSeqEmpty, LenProperties
    <2> QED
      BY <1>2, <1>9, <1>15, <2>2
  <1>19. HeadRead(q, left, got, r)
    BY <1>5, <1>9, <1>13, <1>15, <1>16, <1>17, <1>18 DEF HeadRead
  <1> QED
    BY <1>19 DEF r, got, d, b

(* A head that holds nothing is popped: no byte goes with it, and when the    *)
(* next block holds nothing either, there are no bytes.                     *)
Popped(q, r) ==
    /\ Placed(r) /\ r.len = q.len /\ Len(r.list) = Len(q.list) - 1
    /\ QueueContent(r) = QueueContent(q)
    /\ r.list # <<>> /\ Content(r.list[1]) = <<>> => QueueContent(r) = <<>>

(* A queue without blocks is in place and holds nothing.                    *)
LEMMA EmptyQueue ==
    ASSUME NEW len \in Int
    PROVE  LET r == [list |-> <<>>, write |-> 0, len |-> len]
           IN  Placed(r) /\ QueueContent(r) = <<>>
  <1> DEFINE r == [list |-> <<>>, write |-> 0, len |-> len]
  <1>1. <<>> \in Seq(GoodBlock) /\ Len(<<>>) = 0
    BY EmptySeq
  <1>2. Joined(<<>>)
    BY <1>1, BytesJoin
  <1>3. r \in QueueState /\ r.list = <<>> /\ r.write = 0
    BY <1>1 DEF QueueState
  <1> HIDE DEF r
  <1>4. QueueContent(r) = <<>>
    BY <1>1, <1>2, <1>3 DEF QueueContent, Joined
  <1>5. Placed(r)
    BY <1>1, <1>3 DEF Placed
  <1> QED
    BY <1>4, <1>5 DEF r

(* PopHead pops such a head.                                                *)
LEMMA PopPlaced ==
    ASSUME NEW q, Placed(q), q.list # <<>>, Content(q.list[1]) = <<>>
    PROVE  Popped(q, PopHead(q))
  <1> DEFINE t == Tail(q.list)
             w == IF q.write = 1 THEN 1 ELSE q.write - 1
             r == PopHead(q)
  <1>1. /\ q.list \in Seq(GoodBlock) /\ Len(q.list) \in Nat /\ q.write \in Nat /\ q.len \in Int
        /\ QueueContent(q) = Bytes(q.list, Len(q.list)) /\ Joined(q.list)
    BY QueueContentType DEF Placed
  <1>2. 1 \in 1 .. Len(q.list) /\ q.write \in 1 .. Len(q.list)
    BY <1>1, EmptySeq DEF Placed
  <1>3. /\ t \in Seq(GoodBlock) /\ Len(t) = Len(q.list) - 1 /\ Len(t) \in Nat
        /\ \A i \in 1 .. Len(t) : t[i] = q.list[i + 1]
    BY <1>1, <1>2, HeadTailProperties
  <1>4. Bytes(t, Len(t)) \in Seq(Byte) /\ Joined(t)
    <2> HIDE DEF t
    <2>1. Joined(t) /\ Len(t) \in 0 .. Len(t)
      BY <1>3, BytesJoin
    <2> QED
      BY <2>1 DEF Joined
  <1>5. Bytes(q.list, Len(q.list)) = Bytes(t, Len(t))
    <2>1. Bytes(q.list, Len(q.list)) = Content(q.list[1]) \o Bytes(t, Len(t))
      BY <1>1, TailBytes
    <2> QED
      BY <1>4, <2>1, ConcatEmptySeq
  <1> HIDE DEF t
  <1>6. CASE Len(q.list) = 1
    <2>1. r = [list |-> <<>>, write |-> 0, len |-> q.len]
      BY <1>6 DEF PopHead, Reset
    <2>2. Placed(r) /\ QueueContent(r) = <<>>
      BY <1>1, <2>1, EmptyQueue
    <2>3. r.list = <<>> /\ r.len = q.len /\ Len(r.list) = Len(q.list) - 1
      BY <1>6, <2>1, EmptySeq
    <2>4. QueueContent(q) = <<>>
      BY <1>1, <1>3, <1>4, <1>5, <1>6 DEF Joined
    <2> HIDE DEF r
    <2>5. Popped(q, r)
      BY <2>2, <2>3, <2>4 DEF Popped
    <2> QED
      BY <2>5 DEF r
  <1>7. CASE Len(q.list) # 1
    <2>1. r = [list |-> t, write |-> w, len |-> q.len]
      BY <1>7 DEF PopHead, t
    <2>0. Len(q.list) >= 2 /\ Len(t) >= 1
      <3> DEFINE n == Len(q.list)
      <3>1. n \in Nat /\ n # 1 /\ 1 \in 1 .. n
        BY <1>1, <1>2, <1>7
      <3>2. n >= 2
        <4> HIDE DEF n
        <4> QED
          BY <3>1
      <3> QED
        BY <1>3, <3>2
    <2>2. w \in 1 .. Len(t)
      BY <1>1, <1>2, <1>3, <2>0
    <2>3. r \in QueueState /\ r.list = t /\ r.write = w /\ r.len = q.len
      BY <1>1, <1>3, <2>1, <2>2 DEF QueueState
    <2> HIDE DEF r
    <2>4. \A i \in 2 .. w - 1 : Content(t[i]) # <<>>
      <3> SUFFICES ASSUME NEW i \in 2 .. w - 1 PROVE Content(t[i]) # <<>>
        OBVIOUS
      <3>1. i + 1 \in 2 .. q.write - 1 /\ i \in 1 .. Len(t)
        BY <1>1, <1>2, <1>3, <2>2
      <3> QED
        BY <1>3, <3>1 DEF Placed
    <2>5. \A i \in w + 1 .. Len(t) : Content(t[i]) = <<>>
      <3> SUFFICES ASSUME NEW i \in w + 1 .. Len(t) PROVE Content(t[i]) = <<>>
        OBVIOUS
      <3>1. i + 1 \in q.write + 1 .. Len(q.list) /\ i \in 1 .. Len(t)
        BY <1>1, <1>2, <1>3, <2>2
      <3> QED
        BY <1>3, <3>1 DEF Placed
    <2>6. Placed(r)
      <3>1. t # <<>> /\ w # 0 /\ w \in 0 .. Len(t)
        BY <1>3, <2>2, EmptySeq
      <3> HIDE DEF w
      <3> QED
        BY <2>3, <2>4, <2>5, <3>1 DEF Placed
    <2>7. QueueContent(r) = Bytes(t, Len(t))
      BY <2>3 DEF QueueContent
    <2>8. ASSUME Content(t[1]) = <<>> PROVE Bytes(t, Len(t)) = <<>>
      <3>1. Len(q.list) >= 2 /\ 1 \in 1 .. Len(t) /\ 1 + 1 = 2
        BY <1>3, <2>0
      <3>2. t[1] = q.list[2]
        BY <1>3, <3>1
      <3>3. ~(2 \in 2 .. q.write - 1)
        BY <2>8, <3>2 DEF Placed
      <3>4. w = 1
        BY <1>1, <1>2, <3>3
      <3>5. \A i \in 0 + 1 .. Len(t) : Content(t[i]) = <<>>
        BY <2>5, <2>8, <3>4
      <3>6. 0 \in 0 .. Len(t) /\ Len(t) \in 0 .. Len(t)
        BY <1>3
      <3>7. Bytes(t, Len(t)) = Bytes(t, 0)
        BY <1>3, <3>5, <3>6, NoBytes
      <3> QED
        BY <1>4, <3>7 DEF Joined
    <2>9. Popped(q, r)
      BY <1>1, <1>3, <1>5, <2>3, <2>6, <2>7, <2>8 DEF Popped
    <2> QED
      BY <2>9 DEF r
  <1> QED
    BY <1>6, <1>7

(* The states of Read and MoveReadPt after k rounds: what was got and what is *)
(* left are the bytes from the start on; the loop goes on with a block less,  *)
(* and stops with enough or with nothing left.                              *)
Draining(q0, len, k) ==
    {c \in [q : QueueState, got : Seq(Byte), more : BOOLEAN] :
        /\ Placed(c.q) /\ c.q.len = q0.len
        /\ c.got \o QueueContent(c.q) = QueueContent(q0)
        /\ Len(c.got) <= len
        /\ c.more => c.q.list # <<>> /\ Len(c.q.list) = Len(q0.list) - k
        /\ ~c.more => Len(c.got) = len \/ QueueContent(c.q) = <<>>}

(* Each round leads from one of these states to the next.                   *)
LEMMA DrainRound ==
    ASSUME NEW q0 \in QueueState, NEW len \in Nat, NEW stop \in BOOLEAN, NEW k \in Nat \ {0},
           NEW c \in Draining(q0, len, k - 1)
    PROVE  DrainHead(c, len, stop) \in Draining(q0, len, k)
  <1> DEFINE left == len - Len(c.got)
             b    == c.q.list[1]
             q    == [c.q EXCEPT !.list[1] = MoveReadPt(b, left)]
             more == ReadBytes(b, left)
             got  == c.got \o more
             rest == PopHead(q)
             d    == DrainHead(c, len, stop)
  <1>1. /\ c \in [q : QueueState, got : Seq(Byte), more : BOOLEAN]
        /\ c.q \in QueueState /\ c.got \in Seq(Byte) /\ Len(c.got) \in Nat /\ c.more \in BOOLEAN
    BY DEF Draining
  <1>2. /\ Placed(c.q) /\ c.q.len = q0.len
        /\ c.got \o QueueContent(c.q) = QueueContent(q0)
        /\ Len(c.got) <= len
        /\ c.more => c.q.list # <<>> /\ Len(c.q.list) = Len(q0.list) - (k - 1)
        /\ ~c.more => Len(c.got) = len \/ QueueContent(c.q) = <<>>
    BY DEF Draining
  <1>3. CASE ~c.more
    <2>1. d = c
      BY <1>3 DEF DrainHead
    <2> QED
      BY <1>1, <1>2, <1>3, <2>1 DEF Draining
  <1>4. CASE c.more
    <2>1. left \in Nat
      BY <1>1, <1>2
    <2>2. HeadRead(c.q, left, more, q)
      BY <1>2, <1>4, <2>1, ReadHead
    <2>3. /\ d = IF Len(got) >= len THEN [q |-> q, got |-> got, more |-> FALSE]
                 ELSE [q |-> rest, got |-> got,
                       more |-> /\ rest.list # <<>>
                                /\ stop => GetCanReadLength(rest.list[1]) > 0]
      BY <1>4 DEF DrainHead
    <2> HIDE DEF q, more, d, rest
    <2>4. /\ Placed(q) /\ q.len = q0.len /\ Len(q.list) = Len(c.q.list)
          /\ more \in Seq(Byte) /\ more \o QueueContent(q) = QueueContent(c.q)
          /\ Len(more) <= left /\ Len(more) \in Nat
          /\ Len(more) < left => Content(q.list[1]) = <<>>
      BY <1>2, <2>2 DEF HeadRead
    <2>5. q \in QueueState /\ QueueContent(q) \in Seq(Byte) /\ Len(q.list) \in Nat
          /\ q.list \in Seq(GoodBlock)
      BY <2>4, QueueContentType DEF Placed
    <2>6. got \in Seq(Byte) /\ Len(got) = Len(c.got) + Len(more)
      BY <1>1, <2>4, ConcatProperties
    <2>7. got \o QueueContent(q) = QueueContent(q0)
      <3>1. (c.got \o more) \o QueueContent(q) = c.got \o (more \o QueueContent(q))
        BY <1>1, <2>4, <2>5, BytesAssociate
      <3> QED
        BY <1>2, <2>4, <3>1
    <2> HIDE DEF got
    <2>8. Len(got) <= len /\ Len(got) \in Nat
      BY <1>1, <1>2, <2>4, <2>6
    <2>9. CASE Len(got) >= len
      <3>1. d = [q |-> q, got |-> got, more |-> FALSE] /\ Len(got) = len
        BY <2>3, <2>8, <2>9
      <3>2. d.q = q /\ d.got = got /\ d.more = FALSE
        BY <3>1
      <3>3. d \in [q : QueueState, got : Seq(Byte), more : BOOLEAN]
        BY <2>5, <2>6, <3>1
      <3>4. d \in Draining(q0, len, k)
        BY <2>4, <2>7, <2>8, <3>1, <3>2, <3>3 DEF Draining
      <3> QED
        BY <3>4 DEF d
    <2>10. CASE ~(Len(got) >= len)
      <3> DEFINE on == rest.list # <<>> /\ (stop => GetCanReadLength(rest.list[1]) > 0)
      <3>1. d = [q |-> rest, got |-> got, more |-> on]
        BY <2>3, <2>10
      <3>2. Content(q.list[1]) = <<>>
        BY <1>1, <2>1, <2>4, <2>6, <2>10
      <3>3. q.list # <<>>
        BY <1>2, <1>4, <1>1, <2>4, <2>5, EmptySeq DEF Placed
      <3>4. Popped(q, rest)
        BY <2>4, <3>2, <3>3, PopPlaced DEF rest
      <3>5. /\ Placed(rest) /\ rest.len = q0.len /\ Len(rest.list) = Len(q.list) - 1
            /\ QueueContent(rest) = QueueContent(q)
            /\ rest.list # <<>> /\ Content(rest.list[1]) = <<>> => QueueContent(rest) = <<>>
        BY <2>4, <3>4 DEF Popped
      <3>6. /\ rest \in QueueState /\ rest.list \in Seq(GoodBlock)
            /\ QueueContent(rest) = Bytes(rest.list, Len(rest.list)) /\ Joined(rest.list)
        BY <3>5, QueueContentType DEF Placed
      <3>7. ASSUME ~on PROVE QueueContent(rest) = <<>>
        <4>1. CASE rest.list = <<>>
          BY <3>6, <4>1, EmptySeq DEF Joined
        <4>2. CASE rest.list # <<>>
          <5>1. GetCanReadLength(rest.list[1]) <= 0 /\ rest.list[1] \in GoodBlock
            <6>1. rest.list[1] \in GoodBlock
              BY <3>6, <4>2, EmptySeq, ElementOfSeq
            <6>2. GetCanReadLength(rest.list[1]) \in Nat
              BY <6>1, LengthsAddUp, BlockLenAssumption DEF GoodBlock
            <6> QED
              BY <3>7, <4>2, <6>1, <6>2
          <5>2. Len(Content(rest.list[1])) <= 0 /\ Content(rest.list[1]) \in Seq(Byte)
            BY <5>1, ContentType DEF GoodBlock
          <5>3. Content(rest.list[1]) = <<>>
            BY <5>2, EmptySeq
          <5> QED
            BY <3>5, <4>2, <5>3
        <4> QED
          BY <4>1, <4>2
      <3>8. on => rest.list # <<>> /\ Len(rest.list) = Len(q0.list) - k
        <4>1. Len(q.list) = Len(q0.list) - (k - 1) /\ Len(q0.list) \in Nat
          BY <1>2, <1>4, <2>4, QueueContentType
        <4>2. Len(rest.list) = (Len(q0.list) - (k - 1)) - 1
          BY <3>5, <4>1
        <4>3. (Len(q0.list) - (k - 1)) - 1 = Len(q0.list) - k
          BY <4>1
        <4> QED
          BY <4>2, <4>3
      <3>9. on \in BOOLEAN
        OBVIOUS
      <3> HIDE DEF on
      <3>10. d.q = rest /\ d.got = got /\ d.more = on
        BY <3>1
      <3>11. d \in [q : QueueState, got : Seq(Byte), more : BOOLEAN]
        BY <2>6, <3>1, <3>6, <3>9
      <3>12. d \in Draining(q0, len, k)
        BY <2>7, <2>8, <3>5, <3>7, <3>8, <3>10, <3>11 DEF Draining
      <3> QED
        BY <3>12 DEF d
    <2> QED
      BY <2>9, <2>10
  <1> QED
    BY <1>1, <1>3, <1>4

(* Read(res, len) and MoveReadPt(len) take the first len bytes, or all.      *)
Taken(q, len, r) ==
    LET all == QueueContent(q)
        n   == Least(len, Len(all))
    IN  /\ Placed(r.q) /\ r.q.len = q.len - n
        /\ r.got = SubSeq(all, 1, n)
        /\ QueueContent(r.q) = SubSeq(all, n + 1, Len(all))

(* The loop of both takes as many, whether or not it stops at an empty      *)
(* block.                                                                   *)
LEMMA DrainedTakes ==
    ASSUME NEW q, Placed(q), NEW len \in Nat, NEW stop \in BOOLEAN
    PROVE  Taken(q, len, Drained(q, len, stop))
  <1> DEFINE n == Len(q.list)
             all == QueueContent(q)
             x == [q |-> q, got |-> <<>>, more |-> q.list # <<>>]
             X == [k \in 0 .. n |-> Draining(q, len, k)]
             Loop[k \in 0 .. n] == IF k = 0 THEN x ELSE DrainHead(Loop[k - 1], len, stop)
             Is(f) == f = [k \in 0 .. n |-> IF k = 0 THEN x ELSE DrainHead(f[k - 1], len, stop)]
             c == Loop[n]
  <1>1. /\ q \in QueueState /\ q.list \in Seq(GoodBlock) /\ n \in Nat /\ q.len \in Int
        /\ all \in Seq(Byte) /\ all = Bytes(q.list, n) /\ Joined(q.list)
    BY QueueContentType DEF Placed
  <1>2. x \in Draining(q, len, 0)
    <2>1. x \in [q : QueueState, got : Seq(Byte), more : BOOLEAN]
      <3> DEFINE on == q.list # <<>>
      <3>1. on \in BOOLEAN /\ <<>> \in Seq(Byte)
        BY EmptySeq
      <3>2. x = [q |-> q, got |-> <<>>, more |-> on]
        OBVIOUS
      <3> HIDE DEF on, x
      <3> QED
        BY <1>1, <3>1, <3>2
    <2>2. x.q = q /\ x.got = <<>> /\ x.more = (q.list # <<>>)
      OBVIOUS
    <2> HIDE DEF x
    <2>3. x.got \o QueueContent(x.q) = all /\ Len(x.got) <= len
      BY <1>1, <2>2, ConcatEmptySeq, EmptySeq
    <2>4. ASSUME x.more PROVE x.q.list # <<>> /\ Len(x.q.list) = n - 0
      <3>1. n - 0 = n
        <4> HIDE DEF n
        <4> QED
          BY <1>1
      <3> QED
        BY <2>2, <2>4, <3>1
    <2>5. ASSUME ~x.more PROVE QueueContent(x.q) = <<>>
      BY <1>1, <2>2, <2>5, EmptySeq DEF Joined
    <2> QED
      BY <2>1, <2>2, <2>3, <2>4, <2>5 DEF Draining
  <1>3. \A k \in 1 .. n : \A y \in Draining(q, len, k - 1) :
            DrainHead(y, len, stop) \in Draining(q, len, k)
    BY <1>1, DrainRound
  <1>4. Drained(q, len, stop) = [q |-> [c.q EXCEPT !.len = @ - Len(c.got)], got |-> c.got]
    BY DEF Drained
  <1> HIDE DEF n, x, all
  <1> DEFINE step == [k \in 1 .. n |-> [y \in Draining(q, len, k - 1) |-> DrainHead(y, len, stop)]]
  <1>5. /\ \A k \in 1 .. n : \A y \in Draining(q, len, k - 1) : step[k][y] = DrainHead(y, len, stop)
        /\ \A k \in 0 .. n : X[k] = Draining(q, len, k)
    OBVIOUS
  <1> HIDE DEF X, step
  <1>6. PICK f : Runs(f, n, x, step) /\ Through(f, n, X)
    <2>1. x \in X[0]
      BY <1>1, <1>2, <1>5
    <2>2. ASSUME NEW k \in 1 .. n, NEW y \in X[k - 1] PROVE step[k][y] \in X[k]
      <3>1. k - 1 \in 0 .. n /\ k \in 0 .. n
        BY <1>1
      <3>2. y \in Draining(q, len, k - 1) /\ X[k] = Draining(q, len, k)
        BY <1>5, <3>1
      <3> QED
        BY <1>3, <1>5, <3>2
    <2>3. Steps(n, X, step)
      BY <2>2 DEF Steps
    <2> QED
      BY <1>1, <2>1, <2>3, LoopRuns
  <1>7. Is(f)
    <2>1. ASSUME NEW k \in 0 .. n, k # 0 PROVE step[k][f[k - 1]] = DrainHead(f[k - 1], len, stop)
      <3>1. k \in 1 .. n /\ k - 1 \in 0 .. n
        BY <1>1, <2>1
      <3>2. f[k - 1] \in Draining(q, len, k - 1)
        BY <1>5, <1>6, <3>1 DEF Through
      <3> QED
        BY <1>5, <3>1, <3>2
    <2> QED
      BY <1>6, <2>1 DEF Runs
  <1>8. Is(Loop)
    BY <1>7
  <1> HIDE DEF Loop
  <1>9. Loop[0] = x /\ \A k \in 1 .. n : Loop[k] = DrainHead(Loop[k - 1], len, stop)
    BY <1>1, <1>8
  <1> DEFINE P == {k \in 0 .. n : Loop[k] \in Draining(q, len, k)}
  <1>10. 0 \in P /\ \A k \in 1 .. n : k - 1 \in P => k \in P
    <2>1. 0 \in P
      BY <1>1, <1>2, <1>9
    <2>2. ASSUME NEW k \in 1 .. n, k - 1 \in P PROVE k \in P
      <3>1. k \in 0 .. n
        BY <1>1
      <3> QED
        BY <1>3, <1>9, <2>2, <3>1
    <2> QED
      BY <2>1, <2>2
  <1>11. n \in P
    <2> HIDE DEF P
    <2>1. \A k \in 0 .. n : k \in P
      BY <1>1, <1>10, AllRounds
    <2> QED
      BY <1>1, <2>1
  <1>12. c \in Draining(q, len, n)
    BY <1>11
  <1> HIDE DEF c
  <1>13. /\ c.q \in QueueState /\ c.got \in Seq(Byte) /\ Placed(c.q) /\ c.q.len = q.len
         /\ c.got \o QueueContent(c.q) = all /\ Len(c.got) <= len
         /\ c.more => c.q.list # <<>> /\ Len(c.q.list) = Len(q.list) - n
         /\ ~c.more => Len(c.got) = len \/ QueueContent(c.q) = <<>>
    BY <1>12 DEF Draining, all
  <1>14. /\ QueueContent(c.q) \in Seq(Byte) /\ c.q.list \in Seq(GoodBlock)
         /\ c.q = [list |-> c.q.list, write |-> c.q.write, len |-> c.q.len] /\ c.q.write \in Nat
    BY <1>13, QueueContentType
  <1>15. Len(c.got) = len \/ QueueContent(c.q) = <<>>
    <2>1. Len(q.list) - n = 0
      BY <1>1 DEF n
    <2> QED
      BY <1>13, <1>14, <2>1, EmptySeq
  <1> DEFINE g == c.got
             u == QueueContent(c.q)
             m == Least(len, Len(all))
  <1>16. g \in Seq(Byte) /\ u \in Seq(Byte) /\ all = g \o u /\ Len(all) = Len(g) + Len(u)
         /\ Len(g) \in Nat /\ Len(u) \in Nat /\ (Len(g) = len \/ Len(u) = 0) /\ Len(g) <= len
    BY <1>13, <1>14, <1>15, ConcatProperties, LenProperties, EmptySeq
  <1> DEFINE s == [c.q EXCEPT !.len = @ - Len(g)]
  <1>17. s = [list |-> c.q.list, write |-> c.q.write, len |-> q.len - Len(g)]
    BY <1>13, <1>14
  <1>18. s \in QueueState /\ s.list = c.q.list /\ s.write = c.q.write /\ s.len = q.len - Len(g)
    BY <1>1, <1>14, <1>16, <1>17 DEF QueueState
  <1> HIDE DEF s
  <1>19. Placed(s) /\ QueueContent(s) = u
    BY <1>13, <1>18 DEF Placed, QueueContent
  <1> HIDE DEF g, u
  <1>20. m = Len(g)
    BY <1>16 DEF Least
  <1>21. SubSeq(all, 1, Len(g)) = g /\ SubSeq(all, Len(g) + 1, Len(all)) = u
    BY <1>16, SplitConcat
  <1>22. Drained(q, len, stop) = [q |-> s, got |-> g]
    BY <1>4 DEF s, g
  <1> DEFINE r == Drained(q, len, stop)
  <1>23. r.q = s /\ r.got = g
    BY <1>22
  <1> HIDE DEF r
  <1> QED
    BY <1>18, <1>19, <1>20, <1>21, <1>23 DEF Taken, r, all

(* GetUseMemoryBlock(vec, max) shows whole blocks up to _buffer_write, or up   *)
(* to the one that reaches max.                                             *)
Shows(q, max, use) ==
    \E j \in 0 .. q.write :
        use = Bytes(q.list, j) /\ (j = q.write \/ (max > 0 /\ Len(use) >= max))

(* GetUseMemoryBlock shows these.                                           *)
LEMMA UseShows ==
    ASSUME NEW q, Placed(q), NEW max \in Nat
    PROVE  Shows(q, max, QueueGetUseMemoryBlock(q, max))
  <1> DEFINE n == q.write
             More(y, i) == IF max > 0 /\ Len(y) >= max THEN y ELSE y \o Content(q.list[i])
             St(k) == {y \in Seq(Byte) :
                          \E j \in 0 .. k : y = Bytes(q.list, j)
                                            /\ (j = k \/ (max > 0 /\ Len(y) >= max))}
             Upto[i \in 0 .. n] == IF i = 0 THEN <<>> ELSE More(Upto[i - 1], i)
             Is(f) == f = [i \in 0 .. n |-> IF i = 0 THEN <<>> ELSE More(f[i - 1], i)]
  <1>1. /\ q.list \in Seq(GoodBlock) /\ Len(q.list) \in Nat /\ n \in Nat /\ n <= Len(q.list)
        /\ Joined(q.list)
    BY QueueContentType DEF Placed
  <1>2. <<>> \in St(0)
    BY <1>1, EmptySeq DEF Joined
  <1>3. ASSUME NEW k \in 1 .. n, NEW y \in St(k - 1) PROVE More(y, k) \in St(k)
    <2>1. PICK j \in 0 .. k - 1 : y = Bytes(q.list, j) /\ (j = k - 1 \/ (max > 0 /\ Len(y) >= max))
      OBVIOUS
    <2>2. k \in 1 .. Len(q.list) /\ j \in 0 .. k /\ k \in 0 .. k /\ k \in 0 .. Len(q.list)
      BY <1>1
    <2>3. CASE max > 0 /\ Len(y) >= max
      BY <2>1, <2>2, <2>3
    <2>4. CASE ~(max > 0 /\ Len(y) >= max)
      <3>1. More(y, k) = Bytes(q.list, k - 1) \o Content(q.list[k])
        BY <2>1, <2>4
      <3>2. More(y, k) = Bytes(q.list, k) /\ Bytes(q.list, k) \in Seq(Byte)
        BY <1>1, <2>2, <3>1 DEF Joined
      <3> HIDE DEF More
      <3> QED
        BY <2>2, <3>2
    <2> QED
      BY <2>3, <2>4
  <1>4. QueueGetUseMemoryBlock(q, max) = Upto[n]
    BY DEF QueueGetUseMemoryBlock
  <1> HIDE DEF St, More, n
  <1> DEFINE X == [k \in 0 .. n |-> St(k)]
             step == [k \in 1 .. n |-> [y \in St(k - 1) |-> More(y, k)]]
  <1>5. /\ \A k \in 1 .. n : \A y \in St(k - 1) : step[k][y] = More(y, k)
        /\ \A k \in 0 .. n : X[k] = St(k)
    OBVIOUS
  <1> HIDE DEF X, step
  <1>6. PICK f : Runs(f, n, <<>>, step) /\ Through(f, n, X)
    <2>1. <<>> \in X[0]
      BY <1>1, <1>2, <1>5
    <2>2. ASSUME NEW k \in 1 .. n, NEW y \in X[k - 1] PROVE step[k][y] \in X[k]
      <3>1. k - 1 \in 0 .. n /\ k \in 0 .. n
        BY <1>1
      <3>2. y \in St(k - 1) /\ X[k] = St(k)
        BY <1>5, <3>1
      <3> QED
        BY <1>3, <1>5, <3>2
    <2>3. Steps(n, X, step)
      BY <2>2 DEF Steps
    <2> QED
      BY <1>1, <2>1, <2>3, LoopRuns
  <1>7. Is(f)
    <2>1. ASSUME NEW k \in 0 .. n, k # 0 PROVE step[k][f[k - 1]] = More(f[k - 1], k)
      <3>1. k \in 1 .. n /\ k - 1 \in 0 .. n
        BY <1>1, <2>1
      <3>2. f[k - 1] \in St(k - 1)
        BY <1>5, <1>6, <3>1 DEF Through
      <3> QED
        BY <1>5, <3>1, <3>2
    <2> QED
      BY <1>6, <2>1 DEF Runs
  <1>8. Is(Upto)
    BY <1>7
  <1> HIDE DEF Upto
  <1>9. Upto[0] = <<>> /\ \A k \in 1 .. n : Upto[k] = More(Upto[k - 1], k)
    BY <1>1, <1>8
  <1> DEFINE P == {k \in 0 .. n : Upto[k] \in St(k)}
  <1>10. 0 \in P /\ \A k \in 1 .. n : k - 1 \in P => k \in P
    <2>1. 0 \in P
      BY <1>1, <1>2, <1>9
    <2>2. ASSUME NEW k \in 1 .. n, k - 1 \in P PROVE k \in P
      <3>1. k \in 0 .. n
        BY <1>1
      <3> QED
        BY <1>3, <1>9, <2>2, <3>1
    <2> QED
      BY <2>1, <2>2
  <1>11. n \in P
    <2> HIDE DEF P
    <2>1. \A k \in 0 .. n : k \in P
      BY <1>1, <1>10, AllRounds
    <2> QED
      BY <1>1, <2>1
  <1> QED
    BY <1>4, <1>11 DEF St, Shows, n

-----------------------------------------------------------------------------
(* Writing.                                                                 *)

(* A queue that has a block to write to.                                    *)
Open(q) ==
    /\ q \in QueueState
    /\ q.write \in 1 .. Len(q.list)
    /\ \A i \in 2 .. q.write - 1 : Content(q.list[i]) # <<>>
    /\ \A i \in q.write + 1 .. Len(q.list) : Content(q.list[i]) = <<>>

(* The _buffer_write block holds something: _buffer_write may move on.       *)
Closed(q) == Content(q.list[q.write]) # <<>>

(* It is a queue in place whose _buffer_write is not null.                  *)
LEMMA OpenPlaced ==
    ASSUME NEW q
    PROVE  Open(q) <=> (Placed(q) /\ q.write # 0)
  <1>1. ASSUME Open(q) PROVE Placed(q) /\ q.write # 0
    <2>1. q.list \in Seq(GoodBlock) /\ Len(q.list) \in Nat /\ q.write \in Nat
      BY <1>1, QueueContentType DEF Open
    <2>2. q.write \in 0 .. Len(q.list) /\ q.write # 0 /\ q.list # <<>>
      <3>1. q.write \in 1 .. Len(q.list)
        BY <1>1 DEF Open
      <3>2. Len(q.list) # 0
        BY <2>1, <3>1
      <3> QED
        BY <2>1, <3>1, <3>2, EmptySeq
    <2> QED
      BY <1>1, <2>2 DEF Open, Placed
  <1>2. ASSUME Placed(q), q.write # 0 PROVE Open(q)
    <2>1. Len(q.list) \in Nat /\ q.write \in Nat
      BY <1>2, QueueContentType DEF Placed
    <2>2. q.write \in 1 .. Len(q.list)
      BY <1>2, <2>1 DEF Placed
    <2> QED
      BY <1>2, <2>2 DEF Open, Placed
  <1> QED
    BY <1>1, <1>2

(* A block that has been filled to its end holds something.                 *)
LEMMA FilledHolds ==
    ASSUME NEW b \in GoodBlock, NEW p \in Seq(Byte), Len(p) = GetCanWriteLength(b)
    PROVE  Content(b) \o p # <<>>
  <1> DEFINE C == Content(b)
             u == Len(C)
             v == Len(p)
  <1>1. C \in Seq(Byte) /\ b \in Block /\ u = GetCanReadLength(b) /\ u \in Nat /\ v \in Nat
    BY ContentIsSeq, ContentType, LenProperties
  <1>2. u + v = BlockLen
    BY <1>1, LengthsAddUp
  <1>3. Len(C \o p) = u + v
    BY <1>1, ConcatProperties
  <1>4. u + v # 0
    <2> HIDE DEF u, v
    <2> QED
      BY <1>2, BlockLenAssumption
  <1> QED
    BY <1>3, <1>4, EmptySeq

(* The _buffer_write block takes on the bytes p.                            *)
Grown(q, p, r) ==
    /\ Open(r) /\ r.write = q.write /\ r.len = q.len /\ Len(r.list) = Len(q.list)
    /\ QueueContent(r) = QueueContent(q) \o p
    /\ \A i \in 1 .. Len(q.list) : i # q.write => r.list[i] = q.list[i]

(* r is q with the block d in the place of _buffer_write.                   *)
IsPut(q, d, r) ==
    r = [list |-> [q.list EXCEPT ![q.write] = d], write |-> q.write, len |-> q.len]

(* A block that holds p more replaces the _buffer_write block.              *)
LEMMA PutInBlock ==
    ASSUME NEW q, Open(q), NEW d \in GoodBlock, NEW p \in Seq(Byte),
           Content(d) = Content(q.list[q.write]) \o p,
           NEW r, IsPut(q, d, r)
    PROVE  Grown(q, p, r) /\ r.list[r.write] = d
  <1> DEFINE m == [q.list EXCEPT ![q.write] = d]
  <1>1. /\ q.list \in Seq(GoodBlock) /\ Len(q.list) \in Nat /\ q.write \in Nat /\ q.len \in Int
        /\ QueueContent(q) = Bytes(q.list, Len(q.list)) /\ q.write \in 1 .. Len(q.list)
    BY QueueContentType DEF Open
  <1>2. /\ m \in Seq(GoodBlock) /\ Len(m) = Len(q.list)
        /\ \A i \in 1 .. Len(q.list) : m[i] = IF i = q.write THEN d ELSE q.list[i]
    BY <1>1, ExceptSeq
  <1>3. Bytes(m, Len(q.list)) = Bytes(q.list, Len(q.list)) \o p
    BY <1>1, PutBytes DEF Open
  <1> HIDE DEF m
  <1>4. r = [list |-> m, write |-> q.write, len |-> q.len]
    BY DEF m, IsPut
  <1>5. r \in QueueState /\ r.list = m /\ r.write = q.write /\ r.len = q.len
    BY <1>1, <1>2, <1>4 DEF QueueState
  <1>6. QueueContent(r) = QueueContent(q) \o p
    BY <1>1, <1>2, <1>3, <1>5 DEF QueueContent
  <1>7. Open(r)
    <2>1. ASSUME NEW i \in 2 .. q.write - 1 PROVE Content(m[i]) # <<>>
      <3>1. i \in 1 .. Len(q.list) /\ i # q.write
        BY <1>1
      <3>2. m[i] = q.list[i]
        BY <1>2, <3>1
      <3> QED
        BY <3>2 DEF Open
    <2>2. \A i \in q.write + 1 .. Len(m) : Content(m[i]) = <<>>
      BY <1>1, <1>2 DEF Open
    <2> QED
      BY <1>1, <1>2, <1>5, <2>1, <2>2 DEF Open
  <1>8. r.list[r.write] = d
    BY <1>1, <1>2, <1>5
  <1>9. \A i \in 1 .. Len(q.list) : i # q.write => r.list[i] = q.list[i]
    BY <1>2, <1>5
  <1> QED
    BY <1>2, <1>5, <1>6, <1>7, <1>8, <1>9 DEF Grown

(* The block behind _buffer_write becomes it: it is empty.                   *)
Moved(q, r) ==
    /\ Open(r) /\ Content(r.list[r.write]) = <<>> /\ r.len = q.len
    /\ QueueContent(r) = QueueContent(q)

(* The move to the next block, or to a new one, is such a move.             *)
LEMMA NextMoves ==
    ASSUME NEW q, Open(q), Closed(q)
    PROVE  Moved(q, NextBlock(q))
  <1> DEFINE r == NextBlock(q)
             n == Len(q.list)
  <1>1. /\ q.list \in Seq(GoodBlock) /\ n \in Nat /\ q.write \in Nat /\ q.len \in Int
        /\ QueueContent(q) = Bytes(q.list, n) /\ q.write \in 1 .. n
        /\ q = [list |-> q.list, write |-> q.write, len |-> q.len]
    BY QueueContentType DEF Open
  <1>2. \A i \in 2 .. q.write : Content(q.list[i]) # <<>>
    <2>1. \A i \in 2 .. q.write : i = q.write \/ i \in 2 .. q.write - 1
      BY <1>1
    <2> QED
      BY <2>1 DEF Open, Closed
  <1>3. CASE q.write = n
    <2> DEFINE m == Append(q.list, FreshBlock)
    <2>1. r = [list |-> m, write |-> n + 1, len |-> q.len]
      <3>1. [q EXCEPT !.write = 0] = [list |-> q.list, write |-> 0, len |-> q.len]
        BY <1>1
      <3> QED
        BY <1>3, <3>1 DEF NextBlock, AppendBlock
    <2>2. /\ m \in Seq(GoodBlock) /\ Len(m) = n + 1
          /\ \A i \in 1 .. n : m[i] = q.list[i]
          /\ m[n + 1] = FreshBlock
      BY <1>1, FreshIsEmpty, AppendProperties
    <2>3. Bytes(m, n + 1) = Bytes(q.list, n)
      BY <1>1, FreshIsEmpty, AppendBytes
    <2> HIDE DEF m, n, r
    <2>4. r \in QueueState /\ r.list = m /\ r.write = n + 1 /\ r.len = q.len
      BY <1>1, <2>1, <2>2 DEF QueueState
    <2>5. \A i \in 2 .. (n + 1) - 1 : Content(m[i]) # <<>>
      <3>1. \A i \in 2 .. (n + 1) - 1 : i \in 2 .. q.write /\ i \in 1 .. n
        BY <1>1, <1>3
      <3> QED
        BY <1>2, <2>2, <3>1
    <2>6. Open(r)
      <3>1. n + 1 \in 1 .. Len(m) /\ \A i \in (n + 1) + 1 .. Len(m) : FALSE
        BY <1>1, <2>2
      <3> QED
        BY <2>4, <2>5, <3>1 DEF Open
    <2>7. Content(r.list[r.write]) = <<>>
      BY <2>2, <2>4, FreshIsEmpty
    <2>8. QueueContent(r) = QueueContent(q)
      BY <1>1, <2>2, <2>3, <2>4 DEF QueueContent
    <2>9. Moved(q, r)
      BY <2>4, <2>6, <2>7, <2>8 DEF Moved
    <2> QED
      BY <2>9 DEF r
  <1>4. CASE q.write # n
    <2>1. r = [list |-> q.list, write |-> q.write + 1, len |-> q.len]
      <3>1. r = [q EXCEPT !.write = q.write + 1]
        BY <1>4 DEF NextBlock
      <3> QED
        BY <1>1, <3>1
    <2> HIDE DEF n, r
    <2>2. q.write + 1 \in 1 .. n /\ q.write + 1 \in q.write + 1 .. n
      BY <1>1, <1>4
    <2>3. r \in QueueState /\ r.list = q.list /\ r.write = q.write + 1 /\ r.len = q.len
      BY <1>1, <2>1 DEF QueueState
    <2>4. Content(q.list[q.write + 1]) = <<>>
      BY <2>2 DEF Open, n
    <2>5. Open(r)
      <3>1. \A i \in 2 .. (q.write + 1) - 1 : Content(q.list[i]) # <<>>
        <4>1. (q.write + 1) - 1 = q.write
          BY <1>1
        <4> QED
          BY <1>2, <4>1
      <3>2. \A i \in (q.write + 1) + 1 .. n : Content(q.list[i]) = <<>>
        <4>1. \A i \in (q.write + 1) + 1 .. n : i \in q.write + 1 .. n
          BY <1>1
        <4> QED
          BY <4>1 DEF Open, n
      <3> QED
        BY <2>2, <2>3, <3>1, <3>2 DEF Open, n
    <2>6. QueueContent(r) = QueueContent(q)
      BY <2>3 DEF QueueContent
    <2>7. Moved(q, r)
      BY <2>3, <2>4, <2>5, <2>6 DEF Moved
    <2> QED
      BY <2>7 DEF r
  <1> QED
    BY <1>3, <1>4

(* The states of Write(str, len) after k rounds.  From the second round on    *)
(* the block is empty, so that each round writes a byte at least.           *)
Writing(q0, data, k) ==
    {c \in [q : QueueState, rest : Seq(Byte)] :
        /\ Open(c.q) /\ c.q.len = q0.len
        /\ QueueContent(c.q) \o c.rest = QueueContent(q0) \o data
        /\ Len(c.rest) <= Len(data)
        /\ IF k = 0 \/ c.rest = <<>> THEN TRUE
           ELSE Content(c.q.list[c.q.write]) = <<>> /\ Len(c.rest) <= Len(data) - k + 1}

(* Each round of Write leads from one of these states to the next.          *)
LEMMA WriteRound ==
    ASSUME NEW q0 \in QueueState, NEW data \in Seq(Byte), NEW k \in Nat \ {0},
           NEW c \in Writing(q0, data, k - 1)
    PROVE  WriteBlock(c) \in Writing(q0, data, k)
  <1> DEFINE w   == c.q.write
             b   == c.q.list[w]
             n   == WriteLen(b, c.rest)
             d   == Write(b, c.rest)
             p   == SubSeq(c.rest, 1, n)
             t   == SubSeq(c.rest, n + 1, Len(c.rest))
             out == [c.q EXCEPT !.list[w] = d]
             r   == WriteBlock(c)
  <1>1. /\ c = [q |-> c.q, rest |-> c.rest] /\ c.q \in QueueState /\ c.rest \in Seq(Byte)
        /\ Len(c.rest) \in Nat /\ Len(data) \in Nat
    BY LenProperties DEF Writing
  <1>2. /\ Open(c.q) /\ c.q.len = q0.len
        /\ QueueContent(c.q) \o c.rest = QueueContent(q0) \o data
        /\ Len(c.rest) <= Len(data)
        /\ IF k - 1 = 0 \/ c.rest = <<>> THEN TRUE
           ELSE Content(b) = <<>> /\ Len(c.rest) <= Len(data) - (k - 1) + 1
    BY DEF Writing
  <1>3. CASE c.rest = <<>>
    <2>1. r = c
      BY <1>3 DEF WriteBlock
    <2> QED
      BY <1>2, <1>3, <2>1 DEF Writing
  <1>4. CASE c.rest # <<>>
    <2>1. /\ c.q.list \in Seq(GoodBlock) /\ w \in 1 .. Len(c.q.list) /\ w \in Nat
          /\ Len(c.q.list) \in Nat /\ QueueContent(c.q) \in Seq(Byte) /\ c.q.len \in Int
          /\ c.q = [list |-> c.q.list, write |-> w, len |-> c.q.len]
      BY <1>1, <1>2, QueueContentType DEF Open
    <2>2. b \in GoodBlock /\ b \in Block /\ PointersAgree(b) /\ Content(b) \in Seq(Byte)
      BY <2>1, ContentIsSeq, ElementOfSeq
    <2>3. /\ n \in 0 .. GetCanWriteLength(b) /\ n <= Len(c.rest)
          /\ n = Len(c.rest) \/ n = GetCanWriteLength(b)
          /\ n \in Nat /\ GetCanWriteLength(b) \in Nat
      BY <1>1, <2>2, WriteLenRange, LengthsAddUp, BlockLenAssumption
    <2>4. d \in GoodBlock
      BY <1>1, <2>2, WriteOK DEF GoodBlock
    <2>5. Content(d) = Content(b) \o p
      BY <1>1, <2>2, ContentWrite
    <2>6. /\ p \in Seq(Byte) /\ t \in Seq(Byte) /\ Len(p) = n /\ Len(t) = Len(c.rest) - n
          /\ p \o t = c.rest
      <3> HIDE DEF n
      <3> DEFINE s == c.rest
      <3>1. s \in Seq(Byte) /\ Len(s) \in Nat /\ n \in Nat /\ n <= Len(s) /\ n \in 0 .. Len(s)
        BY <1>1, <2>3
      <3> HIDE DEF s
      <3>2. SubSeq(s, 1, n) \in Seq(Byte) /\ Len(SubSeq(s, 1, n)) = n
        BY <3>1
      <3>3. SubSeq(s, n + 1, Len(s)) \in Seq(Byte) /\ Len(SubSeq(s, n + 1, Len(s))) = Len(s) - n
        BY <3>1
      <3>4. SubSeq(s, 1, n) \o SubSeq(s, n + 1, Len(s)) = s
        BY <3>1, SplitAt
      <3> QED
        BY <3>2, <3>3, <3>4 DEF s
    <2>7. out = [list |-> [c.q.list EXCEPT ![w] = d], write |-> w, len |-> c.q.len]
      <3> DEFINE Q == c.q
                 v == w
      <3>1. Q = [list |-> Q.list, write |-> v, len |-> Q.len]
        BY <2>1
      <3> HIDE DEF d, Q, v
      <3>2. [Q EXCEPT !.list[v] = d] = [list |-> [Q.list EXCEPT ![v] = d], write |-> v, len |-> Q.len]
        BY <3>1
      <3> QED
        BY <3>2 DEF Q, v
    <2>8. r = [q |-> IF n < Len(c.rest) THEN NextBlock(out) ELSE out, rest |-> t]
      BY <1>4 DEF WriteBlock
    <2> HIDE DEF d, p, t, out, r, n
    <2>9. Grown(c.q, p, out) /\ out.list[out.write] = d
      <3>1. IsPut(c.q, d, out)
        BY <2>7 DEF IsPut
      <3>2. Open(c.q) /\ p \in Seq(Byte)
        BY <1>2, <2>6
      <3> DEFINE Q == c.q
      <3>3. Content(d) = Content(Q.list[Q.write]) \o p
        BY <2>5
      <3> HIDE DEF Q
      <3>4. Open(Q) /\ IsPut(Q, d, out)
        BY <3>1, <3>2 DEF Q
      <3>5. Grown(Q, p, out) /\ out.list[out.write] = d
        BY <2>4, <3>2, <3>3, <3>4, PutInBlock
      <3> QED
        BY <3>5 DEF Q
    <2>10. /\ Open(out) /\ out.write = w /\ out.len = q0.len
           /\ QueueContent(out) = QueueContent(c.q) \o p
      BY <1>2, <2>9 DEF Grown
    <2>11. QueueContent(out) \o t = QueueContent(q0) \o data
      <3>1. (QueueContent(c.q) \o p) \o t = QueueContent(c.q) \o (p \o t)
        BY <2>1, <2>6, BytesAssociate
      <3> QED
        BY <1>2, <2>6, <2>10, <3>1
    <2>12. k - 1 # 0 => n >= 1
      <3> SUFFICES ASSUME k - 1 # 0 PROVE n >= 1
        OBVIOUS
      <3>1. Content(b) = <<>>
        BY <1>2, <1>4
      <3>2. GetCanReadLength(b) = 0
        BY <2>2, <3>1, ContentType, EmptySeq
      <3>3. GetCanWriteLength(b) = BlockLen
        BY <2>2, <2>3, <3>2, LengthsAddUp, BlockLenAssumption
      <3>4. Len(c.rest) # 0
        BY <1>1, <1>4, EmptySeq
      <3> QED
        BY <1>1, <2>3, <3>3, <3>4, BlockLenAssumption
    <2>13. ASSUME n < Len(c.rest) PROVE Closed(out)
      <3>1. n = GetCanWriteLength(b)
        BY <1>1, <2>3, <2>13
      <3>2. Content(d) # <<>>
        BY <2>2, <2>5, <2>6, <3>1, FilledHolds
      <3> QED
        BY <2>9, <3>2 DEF Closed
    <2>14. Len(t) \in Nat /\ Len(t) <= Len(data)
      BY <1>1, <1>2, <2>3, <2>6
    <2>15. CASE n < Len(c.rest)
      <3> DEFINE s == NextBlock(out)
      <3>1. r = [q |-> s, rest |-> t]
        BY <2>8, <2>15
      <3>2. Moved(out, s)
        BY <2>10, <2>13, <2>15, NextMoves
      <3> HIDE DEF s
      <3>3. /\ Open(s) /\ Content(s.list[s.write]) = <<>> /\ s.len = q0.len
            /\ QueueContent(s) = QueueContent(out)
        BY <2>10, <3>2 DEF Moved
      <3>4. r.q = s /\ r.rest = t /\ r \in [q : QueueState, rest : Seq(Byte)]
        BY <2>6, <3>1, <3>3 DEF Open
      <3>5. t # <<>>
        BY <1>1, <2>3, <2>6, <2>15, EmptySeq
      <3>6. Len(t) <= Len(data) - k + 1
        <4>1. CASE k - 1 = 0
          BY <1>1, <2>14, <4>1
        <4>2. CASE k - 1 # 0
          <5>1. Len(c.rest) <= Len(data) - (k - 1) + 1
            BY <1>2, <1>4, <4>2
          <5> QED
            BY <1>1, <2>3, <2>6, <2>12, <4>2, <5>1
        <4> QED
          BY <4>1, <4>2
      <3>7. r \in Writing(q0, data, k)
        BY <2>11, <2>14, <3>3, <3>4, <3>5, <3>6 DEF Writing
      <3> QED
        BY <3>7 DEF r
    <2>16. CASE ~(n < Len(c.rest))
      <3>1. r = [q |-> out, rest |-> t]
        BY <2>8, <2>16
      <3>2. t = <<>>
        BY <1>1, <2>3, <2>6, <2>16, EmptySeq
      <3>3. r.q = out /\ r.rest = t /\ r \in [q : QueueState, rest : Seq(Byte)]
        BY <2>6, <2>10, <3>1 DEF Open
      <3>4. r \in Writing(q0, data, k)
        BY <2>10, <2>11, <2>14, <3>2, <3>3 DEF Writing
      <3> QED
        BY <3>4 DEF r
    <2> QED
      BY <2>15, <2>16
  <1> QED
    BY <1>3, <1>4

(* Write(str, len): all bytes are taken on, behind the others.               *)
Put(q, data, r) ==
    /\ Placed(r) /\ r.len = q.len + Len(data)
    /\ QueueContent(r) = QueueContent(q) \o data

(* Write(str, len) adds all its bytes.                                      *)
LEMMA QueueWrites ==
    ASSUME NEW q, Placed(q), NEW data \in Seq(Byte)
    PROVE  Put(q, data, QueueWrite(q, data))
  <1> DEFINE n == Len(data) + 1
             start == IF q.write = 0 THEN AppendBlock(q) ELSE q
             x == [q |-> start, rest |-> data]
             Loop[k \in 0 .. n] == IF k = 0 THEN x ELSE WriteBlock(Loop[k - 1])
             Is(f) == f = [k \in 0 .. n |-> IF k = 0 THEN x ELSE WriteBlock(f[k - 1])]
             c == Loop[n]
             St(k) == Writing(q, data, k)
  <1>1. /\ q \in QueueState /\ QueueContent(q) \in Seq(Byte) /\ q.len \in Int
        /\ n \in Nat \ {0} /\ Len(data) \in Nat
    BY QueueContentType, LenProperties DEF Placed
  <1>2. CASE data = <<>>
    <2>1. QueueWrite(q, data) = q /\ Len(data) = 0
      BY <1>2, EmptySeq DEF QueueWrite
    <2> QED
      BY <1>1, <1>2, <2>1, ConcatEmptySeq DEF Put
  <1>3. CASE data # <<>>
    <2>1. QueueWrite(q, data) = [c.q EXCEPT !.len = @ + Len(data)]
      BY <1>3 DEF QueueWrite
    <2>2. Placed(start) /\ start.write # 0 /\ start.len = q.len /\ QueueContent(start) = QueueContent(q)
      BY AppendPlaced DEF Appended
    <2> HIDE DEF start
    <2>3. x \in St(0)
      <3>1. x.q = start /\ x.rest = data /\ x \in [q : QueueState, rest : Seq(Byte)]
        BY <2>2 DEF Placed
      <3>2. Open(start)
        BY <2>2, OpenPlaced
      <3> HIDE DEF x
      <3> QED
        BY <1>1, <2>2, <3>1, <3>2, SMTT(30) DEF Writing
    <2>4. ASSUME NEW k \in 1 .. n, NEW y \in St(k - 1) PROVE WriteBlock(y) \in St(k)
      BY <1>1, WriteRound
    <2> HIDE DEF n, x, St
    <2> DEFINE X == [k \in 0 .. n |-> St(k)]
               step == [k \in 1 .. n |-> [y \in St(k - 1) |-> WriteBlock(y)]]
    <2>5. /\ \A k \in 1 .. n : \A y \in St(k - 1) : step[k][y] = WriteBlock(y)
          /\ \A k \in 0 .. n : X[k] = St(k)
      OBVIOUS
    <2> HIDE DEF X, step
    <2>6. PICK f : Runs(f, n, x, step) /\ Through(f, n, X)
      <3>1. x \in X[0]
        BY <1>1, <2>3, <2>5
      <3>2. ASSUME NEW k \in 1 .. n, NEW y \in X[k - 1] PROVE step[k][y] \in X[k]
        <4>1. k - 1 \in 0 .. n /\ k \in 0 .. n
          BY <1>1
        <4>2. y \in St(k - 1) /\ X[k] = St(k)
          BY <2>5, <4>1
        <4> QED
          BY <2>4, <2>5, <4>2
      <3>3. Steps(n, X, step)
        BY <3>2 DEF Steps
      <3> QED
        BY <1>1, <3>1, <3>3, LoopRuns
    <2>7. Is(f)
      <3>1. ASSUME NEW k \in 0 .. n, k # 0 PROVE step[k][f[k - 1]] = WriteBlock(f[k - 1])
        <4>1. k \in 1 .. n /\ k - 1 \in 0 .. n
          BY <1>1, <3>1
        <4>2. f[k - 1] \in St(k - 1)
          BY <2>5, <2>6, <4>1 DEF Through
        <4> QED
          BY <2>5, <4>1, <4>2
      <3> QED
        BY <2>6, <3>1 DEF Runs
    <2>8. Is(Loop)
      BY <2>7
    <2> HIDE DEF Loop
    <2>9. Loop[0] = x /\ \A k \in 1 .. n : Loop[k] = WriteBlock(Loop[k - 1])
      BY <1>1, <2>8
    <2> DEFINE P == {k \in 0 .. n : Loop[k] \in St(k)}
    <2>10. 0 \in P
      BY <1>1, <2>3, <2>9
    <2>11. ASSUME NEW k \in 1 .. n, k - 1 \in P PROVE k \in P
      <3>1. k \in 0 .. n
        BY <1>1
      <3> QED
        BY <2>4, <2>9, <2>11, <3>1
    <2>12. n \in P
      <3> HIDE DEF P
      <3>1. \A k \in 0 .. n : k \in P
        BY <1>1, <2>10, <2>11, AllRounds
      <3> QED
        BY <1>1, <3>1
    <2>13. c \in Writing(q, data, n)
      BY <2>12 DEF St
    <2> HIDE DEF c
    <2>14. /\ c.rest \in Seq(Byte) /\ Open(c.q) /\ c.q.len = q.len /\ c.q \in QueueState
           /\ QueueContent(c.q) \o c.rest = QueueContent(q) \o data
           /\ IF c.rest = <<>> THEN TRUE ELSE Len(c.rest) <= Len(data) - n + 1
      BY <1>1, <2>13 DEF Writing
    <2>15. c.rest = <<>>
      <3>1. Len(data) - n + 1 = 0
        BY <1>1 DEF n
      <3> QED
        BY <2>14, <3>1, EmptySeq
    <2>16. Placed(c.q) /\ QueueContent(c.q) = QueueContent(q) \o data
      <3>1. QueueContent(c.q) \in Seq(Byte)
        BY <2>14, QueueContentType
      <3> QED
        BY <2>14, <2>15, <3>1, OpenPlaced, ConcatEmptySeq
    <2> DEFINE r == [c.q EXCEPT !.len = @ + Len(data)]
    <2>17. /\ c.q = [list |-> c.q.list, write |-> c.q.write, len |-> q.len]
           /\ c.q.list \in Seq(GoodBlock) /\ c.q.write \in Nat
      BY <2>14, QueueContentType
    <2>18. r = [list |-> c.q.list, write |-> c.q.write, len |-> q.len + Len(data)]
      BY <2>17
    <2>19. /\ r \in QueueState /\ r.list = c.q.list /\ r.write = c.q.write
           /\ r.len = q.len + Len(data)
      BY <1>1, <2>17, <2>18 DEF QueueState
    <2> HIDE DEF r
    <2>20. Put(q, data, r)
      BY <2>16, <2>19 DEF Put, Placed, QueueContent
    <2> QED
      BY <2>1, <2>20 DEF r
  <1> QED
    BY <1>2, <1>3

-----------------------------------------------------------------------------
(* Filling.                                                                 *)

(* GetFreeMemoryBlock appends blocks only, and leaves a block to fill.       *)
LEMMA FreeAppends ==
    ASSUME NEW q, Placed(q), NEW size \in Nat
    PROVE  Appended(q, QueueGetFreeMemoryBlock(q, size))
  <1> DEFINE n == size + 1
             More(y) == IF y.write = 0 \/ FreeUpto(y, Len(y.list)) < size THEN AppendBlock(y) ELSE y
             St(k) == {y \in QueueState : /\ Placed(y) /\ QueueContent(y) = QueueContent(q)
                                          /\ y.len = q.len /\ (k = 0 \/ y.write # 0)}
             Loop[k \in 0 .. n] == IF k = 0 THEN q ELSE More(Loop[k - 1])
             Is(f) == f = [k \in 0 .. n |-> IF k = 0 THEN q ELSE More(f[k - 1])]
  <1>1. n \in Nat \ {0}
    OBVIOUS
  <1>2. q \in St(0)
    BY DEF Placed
  <1>3. ASSUME NEW k \in 1 .. n, NEW y \in St(k - 1) PROVE More(y) \in St(k)
    <2>1. Placed(y) /\ QueueContent(y) = QueueContent(q) /\ y.len = q.len /\ k # 0
      OBVIOUS
    <2>2. CASE y.write = 0 \/ FreeUpto(y, Len(y.list)) < size
      <3> DEFINE r == AppendBlock(y)
      <3>1. Appended(y, r)
        BY <2>1, AppendPlaced
      <3> HIDE DEF r
      <3>2. r \in St(k)
        BY <2>1, <3>1 DEF Appended, Placed
      <3> QED
        BY <2>2, <3>2 DEF r
    <2>3. CASE ~(y.write = 0 \/ FreeUpto(y, Len(y.list)) < size)
      <3>1. More(y) = y /\ y.write # 0
        BY <2>3
      <3> QED
        BY <2>1, <3>1
    <2> QED
      BY <2>2, <2>3
  <1>4. QueueGetFreeMemoryBlock(q, size) = Loop[n]
    BY DEF QueueGetFreeMemoryBlock
  <1> HIDE DEF St, More, n
  <1> DEFINE X == [k \in 0 .. n |-> St(k)]
             step == [k \in 1 .. n |-> [y \in St(k - 1) |-> More(y)]]
  <1>5. /\ \A k \in 1 .. n : \A y \in St(k - 1) : step[k][y] = More(y)
        /\ \A k \in 0 .. n : X[k] = St(k)
    OBVIOUS
  <1> HIDE DEF X, step
  <1>6. PICK f : Runs(f, n, q, step) /\ Through(f, n, X)
    <2>1. q \in X[0]
      BY <1>1, <1>2, <1>5
    <2>2. ASSUME NEW k \in 1 .. n, NEW y \in X[k - 1] PROVE step[k][y] \in X[k]
      <3>1. k - 1 \in 0 .. n /\ k \in 0 .. n
        BY <1>1
      <3>2. y \in St(k - 1) /\ X[k] = St(k)
        BY <1>5, <3>1
      <3> QED
        BY <1>3, <1>5, <3>2
    <2>3. Steps(n, X, step)
      BY <2>2 DEF Steps
    <2> QED
      BY <1>1, <2>1, <2>3, LoopRuns
  <1>7. Is(f)
    <2>1. ASSUME NEW k \in 0 .. n, k # 0 PROVE step[k][f[k - 1]] = More(f[k - 1])
      <3>1. k \in 1 .. n /\ k - 1 \in 0 .. n
        BY <1>1, <2>1
      <3>2. f[k - 1] \in St(k - 1)
        BY <1>5, <1>6, <3>1 DEF Through
      <3> QED
        BY <1>5, <3>1, <3>2
    <2> QED
      BY <1>6, <2>1 DEF Runs
  <1>8. Is(Loop)
    BY <1>7
  <1> HIDE DEF Loop
  <1>9. Loop[0] = q /\ \A k \in 1 .. n : Loop[k] = More(Loop[k - 1])
    BY <1>1, <1>8
  <1> DEFINE P == {k \in 0 .. n : Loop[k] \in St(k)}
  <1>10. 0 \in P
    BY <1>1, <1>2, <1>9
  <1>11. ASSUME NEW k \in 1 .. n, k - 1 \in P PROVE k \in P
    <2>1. k \in 0 .. n
      BY <1>1
    <2> QED
      BY <1>3, <1>9, <1>11, <2>1
  <1>12. n \in P
    <2> HIDE DEF P
    <2>1. \A k \in 0 .. n : k \in P
      BY <1>1, <1>10, <1>11, AllRounds
    <2> QED
      BY <1>1, <2>1
  <1> DEFINE r == Loop[n]
  <1>13. r \in St(n) /\ n # 0
    BY <1>1, <1>12
  <1> HIDE DEF r
  <1>14. Appended(q, r)
    BY <1>13 DEF St, Appended
  <1> QED
    BY <1>4, <1>14 DEF r

(* The free bytes of the blocks, counted from _buffer_write on.              *)
Summed(q) ==
    /\ FreeUpto(q, 0) = 0
    /\ \A i \in 0 .. Len(q.list) : FreeUpto(q, i) \in Nat
    /\ \A i \in 1 .. Len(q.list) :
          FreeUpto(q, i) = IF i < q.write THEN 0 ELSE FreeUpto(q, i - 1) + GetCanWriteLength(q.list[i])

(* FreeUpto is that sum.                                                    *)
LEMMA FreeSums ==
    ASSUME NEW q \in QueueState
    PROVE  Summed(q)
  <1> DEFINE n == Len(q.list)
             More(s, i) == IF i < q.write THEN 0 ELSE s + GetCanWriteLength(q.list[i])
             Sum[i \in 0 .. n] ==
                IF i = 0 \/ i < q.write THEN 0 ELSE Sum[i - 1] + GetCanWriteLength(q.list[i])
             Is(f) == f = [i \in 0 .. n |->
                IF i = 0 \/ i < q.write THEN 0 ELSE f[i - 1] + GetCanWriteLength(q.list[i])]
  <1>1. q.list \in Seq(GoodBlock) /\ n \in Nat /\ q.write \in Nat
    BY QueueContentType
  <1>2. \A i \in 1 .. n : GetCanWriteLength(q.list[i]) \in Nat
    <2> SUFFICES ASSUME NEW i \in 1 .. n PROVE GetCanWriteLength(q.list[i]) \in Nat
      OBVIOUS
    <2>1. q.list[i] \in Block
      BY <1>1, ElementOfSeq DEF GoodBlock
    <2> QED
      BY <2>1, LengthsAddUp, BlockLenAssumption
  <1>3. \A i \in 1 .. n : \A s \in Nat : More(s, i) \in Nat
    BY <1>2
  <1>4. \A i \in 0 .. n : FreeUpto(q, i) = Sum[i]
    BY DEF FreeUpto
  <1> HIDE DEF n
  <1> DEFINE X == [k \in 0 .. n |-> Nat]
             step == [k \in 1 .. n |-> [y \in Nat |-> More(y, k)]]
  <1>5. /\ \A k \in 1 .. n : \A y \in Nat : step[k][y] = More(y, k)
        /\ \A k \in 0 .. n : X[k] = Nat
    OBVIOUS
  <1> HIDE DEF X, step
  <1>6. PICK f : Runs(f, n, 0, step) /\ Through(f, n, X)
    <2>1. 0 \in X[0]
      BY <1>1, <1>5
    <2>2. ASSUME NEW k \in 1 .. n, NEW y \in X[k - 1] PROVE step[k][y] \in X[k]
      <3>1. k - 1 \in 0 .. n /\ k \in 0 .. n
        BY <1>1
      <3>2. y \in Nat /\ X[k] = Nat
        BY <1>5, <3>1
      <3> HIDE DEF More
      <3> QED
        BY <1>3, <1>5, <3>2
    <2>3. Steps(n, X, step)
      BY <2>2 DEF Steps
    <2> QED
      BY <1>1, <2>1, <2>3, LoopRuns
  <1>7. Is(f)
    <2>1. ASSUME NEW k \in 0 .. n
          PROVE  (IF k = 0 THEN 0 ELSE step[k][f[k - 1]])
                   = IF k = 0 \/ k < q.write THEN 0 ELSE f[k - 1] + GetCanWriteLength(q.list[k])
      <3>1. CASE k # 0
        <4>1. k \in 1 .. n /\ k - 1 \in 0 .. n
          BY <1>1, <3>1
        <4>2. f[k - 1] \in Nat
          BY <1>5, <1>6, <4>1 DEF Through
        <4>3. step[k][f[k - 1]] = More(f[k - 1], k)
          BY <1>5, <4>1, <4>2
        <4> QED
          BY <3>1, <4>3
      <3> QED
        BY <3>1
    <2> QED
      BY <1>6, <2>1 DEF Runs
  <1>8. Is(Sum)
    BY <1>7
  <1> HIDE DEF Sum
  <1>9. Sum[0] = 0 /\ \A k \in 1 .. n : Sum[k] = More(Sum[k - 1], k)
    BY <1>1, <1>8
  <1> DEFINE P == {k \in 0 .. n : Sum[k] \in Nat}
  <1>10. 0 \in P
    BY <1>1, <1>9
  <1>11. ASSUME NEW k \in 1 .. n, k - 1 \in P PROVE k \in P
    <2>1. k \in 0 .. n
      BY <1>1
    <2> HIDE DEF More
    <2> QED
      BY <1>3, <1>9, <1>11, <2>1
  <1>12. \A k \in 0 .. n : k \in P
    <2> HIDE DEF P
    <2> QED
      BY <1>1, <1>10, <1>11, AllRounds
  <1>13. \A k \in 1 .. n : k \in 0 .. n /\ k - 1 \in 0 .. n
    BY <1>1
  <1>14. FreeUpto(q, 0) = 0 /\ \A k \in 0 .. n : FreeUpto(q, k) \in Nat
    BY <1>1, <1>4, <1>9, <1>12
  <1>15. \A k \in 1 .. n : FreeUpto(q, k) = More(FreeUpto(q, k - 1), k)
    <2> HIDE DEF More
    <2> QED
      BY <1>4, <1>9, <1>13
  <1> QED
    BY <1>14, <1>15 DEF Summed, n

(* The length GetFreeMemoryBlock returns is free.                           *)
LEMMA BuffLenIsFree ==
    ASSUME NEW q \in QueueState, NEW size \in Nat
    PROVE  BuffLen(q, size) \in 0 .. FreeUpto(q, Len(q.list))
  <1> DEFINE n == Len(q.list)
             More(s, i) == IF i < q.write THEN 0
                           ELSE IF size > 0 /\ s >= size THEN s
                           ELSE s + GetCanWriteLength(q.list[i])
             St(k) == 0 .. FreeUpto(q, k)
             Sum[i \in 0 .. n] ==
                IF i = 0 \/ i < q.write THEN 0
                ELSE IF size > 0 /\ Sum[i - 1] >= size THEN Sum[i - 1]
                ELSE Sum[i - 1] + GetCanWriteLength(q.list[i])
             Is(f) == f = [i \in 0 .. n |->
                IF i = 0 \/ i < q.write THEN 0
                ELSE IF size > 0 /\ f[i - 1] >= size THEN f[i - 1]
                ELSE f[i - 1] + GetCanWriteLength(q.list[i])]
  <1>1. q.list \in Seq(GoodBlock) /\ n \in Nat /\ q.write \in Nat /\ Summed(q)
    BY QueueContentType, FreeSums
  <1>2. \A i \in 1 .. n : GetCanWriteLength(q.list[i]) \in Nat
    <2> SUFFICES ASSUME NEW i \in 1 .. n PROVE GetCanWriteLength(q.list[i]) \in Nat
      OBVIOUS
    <2>1. q.list[i] \in Block
      BY <1>1, ElementOfSeq DEF GoodBlock
    <2> QED
      BY <2>1, LengthsAddUp, BlockLenAssumption
  <1>3. ASSUME NEW k \in 1 .. n, NEW s \in St(k - 1) PROVE More(s, k) \in St(k)
    <2>1. /\ FreeUpto(q, k - 1) \in Nat /\ FreeUpto(q, k) \in Nat
          /\ FreeUpto(q, k) = IF k < q.write THEN 0
                              ELSE FreeUpto(q, k - 1) + GetCanWriteLength(q.list[k])
      <3>1. k - 1 \in 0 .. n /\ k \in 0 .. n
        BY <1>1
      <3> QED
        BY <1>1, <3>1 DEF Summed
    <2>2. s \in Nat /\ s <= FreeUpto(q, k - 1) /\ GetCanWriteLength(q.list[k]) \in Nat
      BY <1>2, <2>1
    <2>3. More(s, k) \in Nat /\ More(s, k) <= FreeUpto(q, k)
      <3>1. CASE k < q.write
        BY <2>1, <3>1
      <3>2. CASE ~(k < q.write)
        BY <2>1, <2>2, <3>2
      <3> QED
        BY <3>1, <3>2
    <2> QED
      BY <2>1, <2>3
  <1>4. 0 \in St(0)
    BY <1>1 DEF Summed
  <1>5. BuffLen(q, size) = Sum[n]
    BY DEF BuffLen
  <1> HIDE DEF n, St
  <1> DEFINE X == [k \in 0 .. n |-> St(k)]
             step == [k \in 1 .. n |-> [y \in St(k - 1) |-> More(y, k)]]
  <1>6. /\ \A k \in 1 .. n : \A y \in St(k - 1) : step[k][y] = More(y, k)
        /\ \A k \in 0 .. n : X[k] = St(k)
    OBVIOUS
  <1> HIDE DEF X, step
  <1>7. PICK f : Runs(f, n, 0, step) /\ Through(f, n, X)
    <2>1. 0 \in X[0]
      BY <1>1, <1>4, <1>6
    <2>2. ASSUME NEW k \in 1 .. n, NEW y \in X[k - 1] PROVE step[k][y] \in X[k]
      <3>1. k - 1 \in 0 .. n /\ k \in 0 .. n
        BY <1>1
      <3>2. y \in St(k - 1) /\ X[k] = St(k)
        BY <1>6, <3>1
      <3> HIDE DEF More
      <3> QED
        BY <1>3, <1>6, <3>2
    <2>3. Steps(n, X, step)
      BY <2>2 DEF Steps
    <2> QED
      BY <1>1, <2>1, <2>3, LoopRuns
  <1>8. Is(f)
    <2>1. ASSUME NEW k \in 0 .. n
          PROVE  (IF k = 0 THEN 0 ELSE step[k][f[k - 1]])
                   = IF k = 0 \/ k < q.write THEN 0
                     ELSE IF size > 0 /\ f[k - 1] >= size THEN f[k - 1]
                     ELSE f[k - 1] + GetCanWriteLength(q.list[k])
      <3>1. CASE k # 0
        <4>1. k \in 1 .. n /\ k - 1 \in 0 .. n
          BY <1>1, <3>1
        <4>2. f[k - 1] \in St(k - 1)
          BY <1>6, <1>7, <4>1 DEF Through
        <4>3. step[k][f[k - 1]] = More(f[k - 1], k)
          BY <1>6, <4>1, <4>2
        <4> QED
          BY <3>1, <4>3
      <3> QED
        BY <3>1
    <2> QED
      BY <1>7, <2>1 DEF Runs
  <1>9. Is(Sum)
    BY <1>8
  <1> HIDE DEF Sum
  <1>10. Sum[0] = 0 /\ \A k \in 1 .. n : Sum[k] = More(Sum[k - 1], k)
    BY <1>1, <1>9
  <1> DEFINE P == {k \in 0 .. n : Sum[k] \in St(k)}
  <1>11. 0 \in P
    BY <1>1, <1>4, <1>10
  <1>12. ASSUME NEW k \in 1 .. n, k - 1 \in P PROVE k \in P
    <2>1. k \in 0 .. n
      BY <1>1
    <2> HIDE DEF More
    <2> QED
      BY <1>3, <1>10, <1>12, <2>1
  <1>13. n \in P
    <2> HIDE DEF P
    <2>1. \A k \in 0 .. n : k \in P
      BY <1>1, <1>11, <1>12, AllRounds
    <2> QED
      BY <1>1, <2>1
  <1> QED
    BY <1>5, <1>13 DEF St, n

(* readv puts the bytes p into the free cells of the block b: nothing that    *)
(* can be read changes until MoveWritePt, which makes p readable.           *)
Loaded(b, p, f) ==
    /\ f \in GoodBlock /\ Content(f) = Content(b)
    /\ GetCanWriteLength(f) = GetCanWriteLength(b)
    /\ \A left \in Nat \ {0} :
          Len(p) = Least(left, GetCanWriteLength(b)) =>
             /\ MoveWritePt(f, left) \in GoodBlock
             /\ Content(MoveWritePt(f, left)) = Content(b) \o p
             /\ MoveWritePtLen(f, left) = Len(p)

(* Scatter over the free cells loads a block.                               *)
LEMMA ReadvLoads ==
    ASSUME NEW b \in GoodBlock, NEW p \in Seq(Byte), Len(p) <= GetCanWriteLength(b)
    PROVE  Loaded(b, p, [b EXCEPT !.mem = Scatter(b.mem, FreeCells(b), p)])
  <1> DEFINE cells == FreeCells(b)
             F == GetCanWriteLength(b)
             n == Len(p)
             m == Scatter(b.mem, cells, p)
             f == [b EXCEPT !.mem = m]
  <1>1. /\ b \in Block /\ PointersAgree(b) /\ n \in Nat /\ F \in 0 .. BlockLen /\ n <= F
        /\ b.mem \in [Cells -> Byte] /\ Content(b) \in Seq(Byte)
        /\ b = [read |-> b.read, write |-> b.write, can_read |-> b.can_read, mem |-> b.mem]
    BY ContentIsSeq, LengthsAddUp, LenProperties, BlockLenAssumption DEF Block
  <1>2. Len(cells) = F /\ \A i \in 1 .. n : cells[i] = CellAt(b.write, i - 1)
    BY <1>1, FreeSegments, BlockLenAssumption
  <1>3. m \in [Cells -> Byte]
    <2> HIDE DEF cells
    <2>1. ASSUME NEW c \in Cells, \E i \in 1 .. n : cells[i] = c
          PROVE  p[CHOOSE i \in 1 .. n : cells[i] = c] \in Byte
      <3>1. (CHOOSE i \in 1 .. n : cells[i] = c) \in 1 .. n
        BY <2>1
      <3> QED
        BY <3>1, ElementOfSeq
    <2>2. \A c \in Cells : b.mem[c] \in Byte
      BY <1>1
    <2> QED
      BY <2>1, <2>2 DEF Scatter
  <1>4. f = [read |-> b.read, write |-> b.write, can_read |-> b.can_read, mem |-> m]
    <2> HIDE DEF m
    <2> QED
      BY <1>1
  <1> HIDE DEF m, f
  <1>5. f.read = b.read /\ f.write = b.write /\ f.can_read = b.can_read /\ f.mem = m
    BY <1>4
  <1>6. f \in Block /\ PointersAgree(f)
    BY <1>1, <1>3, <1>4, <1>5 DEF Block, PointersAgree
  <1>7. GetCanReadLength(f) = GetCanReadLength(b) /\ GetCanWriteLength(f) = F
    BY <1>5 DEF GetCanReadLength, GetCanWriteLength
  <1>8. Content(f) = Content(b)
    <2>1. ASSUME NEW i \in 1 .. GetCanReadLength(b)
          PROVE  m[CellAt(b.read, i - 1)] = b.mem[CellAt(b.read, i - 1)]
      <3> DEFINE a == CellAt(b.read, i - 1)
      <3>1. GetCanReadLength(b) \in 0 .. BlockLen /\ b.read \in 0 .. BlockLen
        BY <1>1, LengthsAddUp DEF Block
      <3>2. i - 1 \in 0 .. GetCanReadLength(b) - 1 /\ i - 1 \in 0 .. BlockLen - 1
        BY <3>1, BlockLenAssumption
      <3>3. a \in Cells
        BY <3>1, <3>2, CellAtRange
      <3>4. ASSUME NEW j \in 1 .. n PROVE cells[j] # a
        <4>1. j - 1 \in 0 .. GetCanWriteLength(b) - 1
          BY <1>1, BlockLenAssumption
        <4>2. CellAt(b.read, i - 1) # CellAt(b.write, j - 1)
          BY <1>1, <3>2, <4>1, UsedIsNotFree
        <4> QED
          BY <1>2, <4>2
      <3> HIDE DEF a, cells
      <3>5. m[a] = b.mem[a]
        BY <3>3, <3>4 DEF m, Scatter
      <3> QED
        BY <3>5 DEF a
    <2>2. \A i \in 1 .. GetCanReadLength(b) :
             f.mem[CellAt(f.read, i - 1)] = b.mem[CellAt(b.read, i - 1)]
      BY <1>5, <2>1
    <2> QED
      BY <1>7, <2>2 DEF Content
  <1>9. ASSUME NEW left \in Nat \ {0}, n = Least(left, F)
        PROVE  /\ MoveWritePt(f, left) \in GoodBlock
               /\ Content(MoveWritePt(f, left)) = Content(b) \o p
               /\ MoveWritePtLen(f, left) = n
    <2> HIDE DEF F
    <2>1. MoveWritePtLen(f, left) = n
      BY <1>7, <1>9 DEF MoveWritePtLen
    <2>2. MoveWritePt(f, left) \in GoodBlock
      BY <1>6, MoveWritePtOK DEF GoodBlock
    <2>3. CASE F = 0
      <3>1. n = 0 /\ p = <<>>
        BY <1>1, <1>9, <2>3, EmptySeq DEF Least
      <3>2. MoveWritePt(f, left) = f
        BY <1>7, <2>3 DEF MoveWritePt
      <3> QED
        BY <1>1, <1>8, <2>1, <2>2, <3>1, <3>2, ConcatEmptySeq
    <2>4. CASE F # 0
      <3>1. n \in Nat \ {0} /\ n > 0 /\ F > 0 /\ (F <= n \/ n = left) /\ (F <= left <=> F <= n)
        BY <1>1, <1>9, <2>4, BlockLenAssumption DEF Least
      <3>2. MoveWritePt(f, left) = MoveWritePt(f, n)
        <4>1. CASE n = left
          BY <4>1
        <4>2. CASE F <= n
          <5>1. ASSUME NEW k \in Nat, k > 0, F <= k
                PROVE  MoveWritePt(f, k) = At(f, f.read, f.read, TRUE)
            <6>1. 0 < GetCanWriteLength(f) /\ GetCanWriteLength(f) <= k /\ GetCanWriteLength(f) # 0
              BY <1>7, <2>4, <3>1, <5>1
            <6> QED
              BY <5>1, <6>1 DEF MoveWritePt
          <5>2. n \in Nat /\ n > 0 /\ F <= n /\ left \in Nat /\ left > 0 /\ F <= left
            BY <3>1, <4>2
          <5> HIDE DEF n
          <5>3. MoveWritePt(f, n) = At(f, f.read, f.read, TRUE)
            BY <5>1, <5>2
          <5>4. MoveWritePt(f, left) = At(f, f.read, f.read, TRUE)
            BY <5>1, <5>2
          <5> QED
            BY <5>3, <5>4
        <4> QED
          BY <3>1, <4>1, <4>2
      <3>3. MoveWritePt(f, n) = Fill(b, p)
        BY <1>4 DEF Fill, m
      <3>4. Fill(b, p) = Write(b, p) /\ WriteLen(b, p) = n
        BY <1>1, <1>2, <3>1, FillIsWrite
      <3>5. Content(Write(b, p)) = Content(b) \o SubSeq(p, 1, n)
        BY <1>1, <3>4, ContentWrite
      <3>6. SubSeq(p, 1, n) = p
        BY SubSeqFull
      <3> QED
        BY <2>1, <2>2, <3>2, <3>3, <3>4, <3>5, <3>6
    <2> QED
      BY <2>3, <2>4
  <1>10. f \in GoodBlock
    BY <1>6 DEF GoodBlock
  <1>11. Loaded(b, p, f)
    BY <1>7, <1>8, <1>9, <1>10 DEF Loaded
  <1> QED
    BY <1>11 DEF f, m

(* The part of the data that readv puts into block i.                       *)
LEMMA PartFits ==
    ASSUME NEW q \in QueueState, NEW data \in Seq(Byte), NEW i \in 1 .. Len(q.list), i >= q.write
    PROVE  /\ PartOf(q, data, i) \in Seq(Byte)
           /\ FreeUpto(q, i) = FreeUpto(q, i - 1) + GetCanWriteLength(q.list[i])
           /\ FreeUpto(q, i - 1) \in Nat /\ FreeUpto(q, i) \in Nat
           /\ Len(PartOf(q, data, i)) <= GetCanWriteLength(q.list[i])
           /\ FreeUpto(q, i - 1) <= Len(data) =>
                 Len(PartOf(q, data, i)) = Least(Len(data) - FreeUpto(q, i - 1),
                                                 GetCanWriteLength(q.list[i]))
  <1> DEFINE a == FreeUpto(q, i - 1)
             z == FreeUpto(q, i)
             F == GetCanWriteLength(q.list[i])
             N == Len(data)
             p == SubSeq(data, a + 1, Least(N, z))
  <1>1. /\ q.list \in Seq(GoodBlock) /\ Len(q.list) \in Nat /\ q.write \in Nat /\ Summed(q)
        /\ N \in Nat
    BY QueueContentType, FreeSums, LenProperties
  <1>2. i - 1 \in 0 .. Len(q.list) /\ i \in 0 .. Len(q.list) /\ ~(i < q.write)
    BY <1>1
  <1>3. a \in Nat /\ z \in Nat /\ z = a + F
    BY <1>1, <1>2 DEF Summed
  <1>4. F \in Nat
    <2>1. q.list[i] \in Block
      BY <1>1, ElementOfSeq DEF GoodBlock
    <2> QED
      BY <2>1, LengthsAddUp, BlockLenAssumption
  <1>5. PartOf(q, data, i) = p
    BY DEF PartOf
  <1> HIDE DEF a, z, F
  <1>6. Least(N, z) \in Nat /\ Least(N, z) <= N /\ Least(N, z) <= z
    BY <1>1, <1>3 DEF Least
  <1> DEFINE y == Least(N, z)
  <1> HIDE DEF y, N
  <1>7. p \in Seq(Byte) /\ Len(p) = IF a + 1 <= y THEN y - a ELSE 0
    <2>1. \A j \in a + 1 .. y : data[j] \in Byte
      BY <1>1, <1>3, <1>6, ElementOfSeq DEF y, N
    <2>2. a + 1 \in Int /\ y \in Int
      BY <1>3, <1>6 DEF y
    <2>3. /\ SubSeq(data, a + 1, y) \in Seq(Byte)
          /\ Len(SubSeq(data, a + 1, y)) = IF a + 1 <= y THEN y - (a + 1) + 1 ELSE 0
      BY <2>1, <2>2, SubSeqProperties
    <2>4. y - (a + 1) + 1 = y - a
      BY <1>3, <2>2
    <2> QED
      BY <2>3, <2>4 DEF y
  <1>8. Len(p) <= F /\ (a <= N => Len(p) = Least(N - a, F))
    BY <1>1, <1>3, <1>4, <1>6, <1>7 DEF y, Least
  <1> QED
    BY <1>3, <1>5, <1>7, <1>8 DEF a, z, F, N

(* readv loads every block from _buffer_write on and changes no other.       *)
Ready(q, data, r) ==
    /\ r \in QueueState /\ r.write = q.write /\ r.len = q.len /\ Len(r.list) = Len(q.list)
    /\ \A i \in 1 .. Len(q.list) : Content(r.list[i]) = Content(q.list[i])
    /\ \A i \in 1 .. Len(q.list) : i >= q.write => Loaded(q.list[i], PartOf(q, data, i), r.list[i])

(* Readv gives each block its part of the data.                             *)
LEMMA ReadvReady ==
    ASSUME NEW q \in QueueState, NEW data \in Seq(Byte)
    PROVE  Ready(q, data, Readv(q, data))
  <1> DEFINE n == Len(q.list)
             Full(i) == [q.list[i] EXCEPT
                            !.mem = Scatter(q.list[i].mem, FreeCells(q.list[i]), PartOf(q, data, i))]
             m == [i \in 1 .. n |-> IF i < q.write THEN q.list[i] ELSE Full(i)]
             r == Readv(q, data)
  <1>1. /\ q.list \in Seq(GoodBlock) /\ n \in Nat /\ q.write \in Nat /\ q.len \in Int
        /\ q = [list |-> q.list, write |-> q.write, len |-> q.len]
    BY QueueContentType
  <1>2. ASSUME NEW i \in 1 .. n, i >= q.write
        PROVE  Loaded(q.list[i], PartOf(q, data, i), Full(i))
    <2> DEFINE b == q.list[i]
               p == PartOf(q, data, i)
    <2>1. b \in GoodBlock
      BY <1>1, ElementOfSeq
    <2>2. p \in Seq(Byte) /\ Len(p) <= GetCanWriteLength(b)
      BY <1>2, PartFits
    <2> HIDE DEF b, p
    <2>3. Loaded(b, p, [b EXCEPT !.mem = Scatter(b.mem, FreeCells(b), p)])
      BY <2>1, <2>2, ReadvLoads
    <2> QED
      BY <2>3 DEF b, p
  <1>3. r = [q EXCEPT !.list = m]
    BY DEF Readv
  <1>4. r = [list |-> m, write |-> q.write, len |-> q.len]
    <2> HIDE DEF m, r
    <2> QED
      BY <1>1, <1>3
  <1> HIDE DEF Full, r
  <1>5. \A i \in 1 .. n : (i < q.write => m[i] = q.list[i]) /\ (i >= q.write => m[i] = Full(i))
    BY <1>1
  <1>6. \A i \in 1 .. n : m[i] \in GoodBlock /\ Content(m[i]) = Content(q.list[i])
    <2> SUFFICES ASSUME NEW i \in 1 .. n
                 PROVE  m[i] \in GoodBlock /\ Content(m[i]) = Content(q.list[i])
      OBVIOUS
    <2> HIDE DEF m
    <2>1. CASE i < q.write
      BY <1>1, <1>5, <2>1, ElementOfSeq
    <2>2. CASE i >= q.write
      BY <1>2, <1>5, <2>2 DEF Loaded
    <2> QED
      BY <1>1, <2>1, <2>2
  <1>7. m \in Seq(GoodBlock) /\ Len(m) = n
    <2>1. m \in [1 .. n -> GoodBlock]
      BY <1>6
    <2> HIDE DEF m, n
    <2> QED
      BY <1>1, <2>1
  <1> HIDE DEF m
  <1>8. r.list = m /\ r.write = q.write /\ r.len = q.len /\ r \in QueueState
    BY <1>1, <1>4, <1>7 DEF QueueState
  <1>9. \A i \in 1 .. n : i >= q.write => Loaded(q.list[i], PartOf(q, data, i), r.list[i])
    BY <1>2, <1>5, <1>8
  <1>10. Ready(q, data, r)
    BY <1>6, <1>7, <1>8, <1>9 DEF Ready
  <1> QED
    BY <1>10 DEF r

(* The counted length is not part of what Open says.                        *)
LEMMA OtherLen ==
    ASSUME NEW q, Open(q), NEW r \in QueueState, r.list = q.list, r.write = q.write
    PROVE  Open(r) /\ QueueContent(r) = QueueContent(q)
  BY DEF Open, QueueContent

(* The states of MoveWritePt(len) after k rounds, when readv has put data     *)
(* into the queue q0 and has made it r.                                     *)
Forwarding(q0, data, r, k) ==
    {c \in [q : QueueState, left : Nat, more : BOOLEAN] :
        /\ Open(c.q) /\ Len(c.q.list) = Len(q0.list) /\ c.left <= Len(data)
        /\ QueueContent(c.q) = QueueContent(q0) \o SubSeq(data, 1, Len(data) - c.left)
        /\ c.q.len = q0.len + (Len(data) - c.left)
        /\ IF c.more
           THEN /\ c.left > 0 /\ c.q.write = q0.write + k
                /\ c.left = Len(data) - FreeUpto(q0, c.q.write - 1)
                /\ \A i \in c.q.write .. Len(q0.list) : c.q.list[i] = r.list[i]
           ELSE c.left = 0}

(* Each round of MoveWritePt leads from one of these states to the next.    *)
LEMMA ForwardRound ==
    ASSUME NEW q0, Placed(q0), q0.write # 0, NEW data \in Seq(Byte),
           Len(data) <= FreeUpto(q0, Len(q0.list)),
           NEW r, Ready(q0, data, r), NEW k \in Nat \ {0},
           NEW c \in Forwarding(q0, data, r, k - 1)
    PROVE  ForwardBlock(c) \in Forwarding(q0, data, r, k)
  <1> DEFINE i    == c.q.write
             L    == Len(q0.list)
             N    == Len(data)
             b    == c.q.list[i]
             F    == GetCanWriteLength(q0.list[i])
             p    == PartOf(q0, data, i)
             d    == MoveWritePt(b, c.left)
             n    == MoveWritePtLen(b, c.left)
             last == i = Len(c.q.list) \/ c.left <= n
             mid  == [list |-> [c.q.list EXCEPT ![i] = d], write |-> i, len |-> c.q.len]
             out  == [list |-> [c.q.list EXCEPT ![i] = d],
                      write |-> IF last THEN i ELSE i + 1, len |-> c.q.len + n]
             e    == ForwardBlock(c)
  <1>1. /\ c \in [q : QueueState, left : Nat, more : BOOLEAN]
        /\ c.q \in QueueState /\ c.left \in Nat /\ c.more \in BOOLEAN
        /\ Open(c.q) /\ Len(c.q.list) = L /\ c.left <= N
        /\ QueueContent(c.q) = QueueContent(q0) \o SubSeq(data, 1, N - c.left)
        /\ c.q.len = q0.len + (N - c.left)
    BY DEF Forwarding
  <1>2. IF c.more
        THEN /\ c.left > 0 /\ i = q0.write + (k - 1)
             /\ c.left = N - FreeUpto(q0, i - 1)
             /\ \A j \in i .. L : c.q.list[j] = r.list[j]
        ELSE c.left = 0
    BY DEF Forwarding
  <1>3. CASE ~c.more
    <2>1. e = c
      BY <1>3 DEF ForwardBlock
    <2> QED
      BY <1>1, <1>2, <1>3, <2>1 DEF Forwarding
  <1>4. CASE c.more
    <2>1. /\ q0 \in QueueState /\ q0.list \in Seq(GoodBlock) /\ L \in Nat /\ q0.write \in Nat
          /\ q0.len \in Int /\ QueueContent(q0) \in Seq(Byte) /\ q0.write \in 1 .. L
          /\ c.q.list \in Seq(GoodBlock) /\ i \in Nat /\ i \in 1 .. L /\ c.q.len \in Int
          /\ N \in Nat
      BY <1>1, QueueContentType, LenProperties DEF Placed, Open
    <2>2. /\ c.left > 0 /\ i = q0.write + (k - 1) /\ c.left = N - FreeUpto(q0, i - 1)
          /\ i >= q0.write
      BY <1>2, <1>4, <2>1
    <2>3. b = r.list[i]
      <3>1. \A j \in i .. L : c.q.list[j] = r.list[j]
        BY <1>2, <1>4
      <3>2. i \in i .. L
        <4> HIDE DEF i, L
        <4> QED
          BY <2>1
      <3> QED
        BY <3>1, <3>2
    <2>4. Loaded(q0.list[i], p, b) /\ Content(b) = Content(q0.list[i])
      BY <2>1, <2>2, <2>3 DEF Ready
    <2>5. /\ p \in Seq(Byte) /\ FreeUpto(q0, i) = FreeUpto(q0, i - 1) + F
          /\ FreeUpto(q0, i - 1) \in Nat /\ FreeUpto(q0, i) \in Nat
          /\ Len(p) = Least(c.left, F)
      <3>1. FreeUpto(q0, i - 1) \in Nat
        BY <2>1, <2>2, PartFits
      <3>2. FreeUpto(q0, i - 1) <= N /\ N - FreeUpto(q0, i - 1) = c.left
        BY <1>1, <2>1, <2>2, <3>1
      <3> QED
        BY <2>1, <2>2, <3>2, PartFits
    <2>6. F \in Nat
      <3>1. q0.list[i] \in Block
        BY <2>1, ElementOfSeq DEF GoodBlock
      <3> QED
        BY <3>1, LengthsAddUp, BlockLenAssumption
    <2>7. d \in GoodBlock /\ Content(d) = Content(b) \o p /\ n = Len(p) /\ n = Least(c.left, F)
      <3>1. c.left \in Nat \ {0} /\ Len(p) = Least(c.left, F)
        BY <1>1, <2>2, <2>5
      <3> DEFINE o == q0.list[i]
                 v == c.left
      <3>2. Loaded(o, p, b) /\ Content(b) = Content(o) /\ v \in Nat \ {0}
            /\ Len(p) = Least(v, GetCanWriteLength(o))
        BY <2>4, <3>1
      <3> HIDE DEF o, b, p, v
      <3>3. /\ MoveWritePt(b, v) \in GoodBlock /\ Content(MoveWritePt(b, v)) = Content(o) \o p
            /\ MoveWritePtLen(b, v) = Len(p)
        BY <3>2 DEF Loaded
      <3> QED
        BY <3>1, <3>2, <3>3 DEF v
    <2>8. n \in Nat /\ n <= c.left /\ n <= F /\ (n = c.left \/ n = F)
      <3> DEFINE v == c.left
      <3>1. v \in Nat /\ n = Least(v, F)
        BY <1>1, <2>7
      <3> HIDE DEF v, n, F
      <3>2. n \in Nat /\ n <= v /\ n <= F /\ (n = v \/ n = F)
        BY <2>6, <3>1 DEF Least
      <3> QED
        BY <3>2 DEF v
    <2>9. e = [q |-> out, left |-> c.left - n, more |-> ~last]
      BY <1>4 DEF ForwardBlock
    <2>10. Grown(c.q, p, mid) /\ mid.list[mid.write] = d
      <3> DEFINE Q == c.q
      <3>1. IsPut(Q, d, mid)
        BY DEF IsPut
      <3>2. Content(d) = Content(Q.list[Q.write]) \o p
        BY <2>7
      <3>3. Open(Q)
        BY <1>1
      <3> HIDE DEF Q, d, mid, p
      <3> QED
        BY <2>5, <2>7, <3>1, <3>2, <3>3, PutInBlock, Zenon DEF Q
    <2> HIDE DEF d, n, p, F
    <2>11. /\ mid.list = [c.q.list EXCEPT ![i] = d] /\ mid.write = i /\ mid.len = c.q.len
           /\ out = [list |-> mid.list, write |-> IF last THEN i ELSE i + 1, len |-> c.q.len + n]
      OBVIOUS
    <2> HIDE DEF mid, out, e
    <2>12. /\ Open(mid) /\ Len(mid.list) = L
           /\ QueueContent(mid) = QueueContent(c.q) \o p
           /\ \A j \in 1 .. L : j # i => mid.list[j] = c.q.list[j]
      BY <1>1, <2>10 DEF Grown
    <2>13. QueueContent(mid) = QueueContent(q0) \o SubSeq(data, 1, N - (c.left - n))
      <3> DEFINE a == N - c.left
                 s == SubSeq(data, 1, a)
                 t == SubSeq(data, a + 1, a + n)
      <3>1. a \in Nat /\ a <= N /\ a + n <= N /\ a + n \in Nat /\ N - (c.left - n) = a + n
        <4> DEFINE v == c.left
        <4>1. v \in Nat /\ v <= N /\ N \in Nat
          BY <1>1, <2>1
        <4>2. n \in Nat /\ n <= v
          BY <2>8
        <4> HIDE DEF N, v
        <4>3. /\ N - v \in Nat /\ N - v <= N /\ (N - v) + n <= N /\ (N - v) + n \in Nat
              /\ N - (v - n) = (N - v) + n
          BY <4>1, <4>2
        <4> QED
          BY <4>3 DEF v
      <3>2. p = t
        <4>1. a = FreeUpto(q0, i - 1)
          BY <2>1, <2>2, <2>5
        <4>2. Least(N, FreeUpto(q0, i)) = a + n
          BY <2>1, <2>2, <2>5, <2>6, <2>8, <4>1 DEF Least
        <4> QED
          BY <4>1, <4>2 DEF PartOf, p
      <3> HIDE DEF a
      <3>3. s \in Seq(Byte) /\ t \in Seq(Byte)
        BY <2>1, <3>1
      <3>4. s \o t = SubSeq(data, 1, a + n)
        <4>1. 1 \in 1 .. Len(data) + 1 /\ a \in 1 - 1 .. Len(data) /\ a + n \in a .. Len(data)
          BY <2>1, <2>8, <3>1
        <4> QED
          BY <4>1, ConcatAdjacentSubSeq
      <3>5. QueueContent(mid) = (QueueContent(q0) \o s) \o t
        BY <1>1, <2>12, <3>2 DEF a
      <3> HIDE DEF s, t
      <3>6. (QueueContent(q0) \o s) \o t = QueueContent(q0) \o (s \o t)
        BY <2>1, <3>3, BytesAssociate
      <3> QED
        BY <3>1, <3>4, <3>5, <3>6
    <2>14. ASSUME c.left > n PROVE Closed(mid)
      <3>1. Len(p) = GetCanWriteLength(q0.list[i]) /\ q0.list[i] \in GoodBlock
        BY <1>1, <2>1, <2>7, <2>8, <2>14, ElementOfSeq DEF F
      <3>2. Content(q0.list[i]) \o p # <<>>
        BY <2>5, <3>1, FilledHolds
      <3>3. Content(d) # <<>>
        BY <2>4, <2>7, <3>2
      <3> QED
        BY <2>10, <3>3 DEF Closed
    <2>15. /\ c.left - n \in Nat /\ c.left - n <= N
           /\ c.q.len + n = q0.len + (N - (c.left - n)) /\ c.q.len + n \in Int
      <3>1. c.left \in Nat /\ c.left <= N /\ c.q.len = q0.len + (N - c.left)
        BY <1>1
      <3>2. q0.len \in Int /\ c.q.len \in Int /\ N \in Nat /\ n \in Nat /\ n <= c.left
        BY <2>1, <2>8
      <3> DEFINE v == c.left
                 u == q0.len
                 z == c.q.len
      <3> HIDE DEF N, v, u, z
      <3>3. /\ v \in Nat /\ v <= N /\ z = u + (N - v) /\ u \in Int /\ z \in Int /\ N \in Nat
            /\ n \in Nat /\ n <= v
        BY <3>1, <3>2 DEF v, u, z
      <3>4. v - n \in Nat /\ v - n <= N /\ z + n = u + (N - (v - n)) /\ z + n \in Int
        BY <3>3
      <3> QED
        BY <3>4 DEF v, u, z
    <2>16. mid.list \in Seq(GoodBlock)
      BY <2>12, QueueContentType DEF Open
    <2>17. CASE last
      <3>1. c.left - n = 0
        <4>1. CASE i = Len(c.q.list)
          <5>1. N <= FreeUpto(q0, i)
            BY <1>1, <4>1
          <5> QED
            BY <1>1, <2>1, <2>2, <2>5, <2>6, <2>8, <5>1, SMTT(30)
        <4>2. CASE c.left <= n
          BY <1>1, <2>8, <4>2
        <4> QED
          BY <2>17, <4>1, <4>2
      <3>2. out = [list |-> mid.list, write |-> i, len |-> c.q.len + n]
        BY <2>11, <2>17
      <3>3. /\ out \in QueueState /\ out.list = mid.list /\ out.write = mid.write
            /\ out.len = c.q.len + n
        BY <2>1, <2>11, <2>15, <2>16, <3>2 DEF QueueState
      <3>4. Open(out) /\ QueueContent(out) = QueueContent(mid)
        BY <2>12, <3>3, OtherLen
      <3>5. e = [q |-> out, left |-> c.left - n, more |-> FALSE]
        BY <2>9, <2>17
      <3>6. e.q = out /\ e.left = c.left - n /\ e.more = FALSE
        BY <3>5
      <3>7. e \in [q : QueueState, left : Nat, more : BOOLEAN]
        BY <2>15, <3>3, <3>5
      <3>8. e \in Forwarding(q0, data, r, k)
        BY <2>12, <2>13, <2>15, <3>1, <3>3, <3>4, <3>6, <3>7 DEF Forwarding
      <3> QED
        BY <3>8 DEF e
    <2>18. CASE ~last
      <3>1. i # L /\ c.left > n
        BY <1>1, <2>8, <2>18
      <3>2. out = [list |-> mid.list, write |-> i + 1, len |-> c.q.len + n]
        BY <2>11, <2>18
      <3>3. /\ out \in QueueState /\ out.list = mid.list /\ out.write = i + 1
            /\ out.len = c.q.len + n
        <4>1. i + 1 \in Nat
          BY <2>1
        <4> HIDE DEF i
        <4> QED
          BY <2>15, <2>16, <3>2, <4>1 DEF QueueState
      <3> DEFINE s == NextBlock(mid)
      <3>4. s.list = mid.list /\ s.write = i + 1
        <4>1. mid = [list |-> mid.list, write |-> mid.write, len |-> mid.len]
          BY <2>12, QueueContentType DEF Open
        <4>2. s = [mid EXCEPT !.write = mid.write + 1]
          BY <2>11, <2>12, <3>1 DEF NextBlock
        <4> HIDE DEF s
        <4> QED
          BY <2>11, <4>1, <4>2
      <3>5. Moved(mid, s)
        BY <2>12, <2>14, <3>1, NextMoves
      <3> HIDE DEF s
      <3>6. Open(s) /\ QueueContent(s) = QueueContent(mid)
        BY <3>5 DEF Moved
      <3>7. Open(out) /\ QueueContent(out) = QueueContent(mid)
        BY <3>3, <3>4, <3>6, OtherLen
      <3>8. c.left - n = N - FreeUpto(q0, (i + 1) - 1) /\ c.left - n > 0 /\ i + 1 = q0.write + k
        <4>1. (i + 1) - 1 = i /\ n = F
          BY <2>1, <2>8, <3>1, <1>1
        <4>2. c.left \in Nat /\ c.left <= N /\ k \in Nat
          BY <1>1
        <4> HIDE DEF N, i, L
        <4>3. c.left - n = N - FreeUpto(q0, i)
          BY <2>1, <2>2, <2>5, <2>6, <4>1, <4>2
        <4>4. c.left - n > 0
          BY <2>8, <3>1, <4>2
        <4>5. i + 1 = q0.write + k
          <5>1. i = q0.write + (k - 1) /\ q0.write \in Nat
            BY <2>1, <2>2
          <5> QED
            BY <5>1
        <4> QED
          BY <4>1, <4>3, <4>4, <4>5
      <3>9. \A j \in i + 1 .. L : out.list[j] = r.list[j]
        <4>1. \A j \in i + 1 .. L : j \in 1 .. L /\ j # i /\ j \in i .. L
          BY <2>1
        <4>2. \A j \in i .. L : c.q.list[j] = r.list[j]
          BY <1>2, <1>4
        <4> QED
          BY <2>12, <3>3, <4>1, <4>2
      <3>10. e = [q |-> out, left |-> c.left - n, more |-> TRUE]
        BY <2>9, <2>18
      <3>11. e.q = out /\ e.left = c.left - n /\ e.more = TRUE
        BY <3>10
      <3>12. e \in [q : QueueState, left : Nat, more : BOOLEAN]
        BY <2>15, <3>3, <3>10
      <3>13. e \in Forwarding(q0, data, r, k)
        BY <2>12, <2>13, <2>15, <3>3, <3>7, <3>8, <3>9, <3>11, <3>12 DEF Forwarding
      <3> QED
        BY <3>13 DEF e
    <2> QED
      BY <2>17, <2>18
  <1> QED
    BY <1>1, <1>3, <1>4

(* readv and MoveWritePt: the bytes of data become the last bytes.           *)
LEMMA FillPuts ==
    ASSUME NEW q, Placed(q), q.write # 0, NEW data \in Seq(Byte), data # <<>>,
           Len(data) <= FreeUpto(q, Len(q.list))
    PROVE  Put(q, data, QueueMoveWritePt(Readv(q, data), Len(data)))
  <1> DEFINE r == Readv(q, data)
             n == Len(r.list)
             x == [q |-> r, left |-> IF Len(data) >= 0 THEN Len(data) ELSE -Len(data),
                   more |-> r.write > 0]
             Loop[k \in 0 .. n] ==
                IF k = 0 THEN x
                ELSE IF Len(data) >= 0 THEN ForwardBlock(Loop[k - 1]) ELSE BackBlock(Loop[k - 1])
             Is(f) == f = [k \in 0 .. n |->
                IF k = 0 THEN x
                ELSE IF Len(data) >= 0 THEN ForwardBlock(f[k - 1]) ELSE BackBlock(f[k - 1])]
             St(k) == Forwarding(q, data, r, k)
  <1>1. /\ q \in QueueState /\ QueueContent(q) \in Seq(Byte) /\ q.len \in Int
        /\ q.list \in Seq(GoodBlock) /\ Len(q.list) \in Nat /\ q.write \in Nat
        /\ q.write \in 1 .. Len(q.list)
    BY QueueContentType DEF Placed
  <1>2. Len(data) \in Nat \ {0} /\ Len(data) >= 0
    BY EmptySeq, LenProperties
  <1>3. Ready(q, data, r)
    BY <1>1, ReadvReady
  <1>4. QueueMoveWritePt(r, Len(data)) = Loop[n].q
    BY DEF QueueMoveWritePt
  <1> HIDE DEF r
  <1>5. /\ r \in QueueState /\ r.list \in Seq(GoodBlock) /\ r.write = q.write /\ r.len = q.len
        /\ n = Len(q.list) /\ n \in Nat
        /\ \A i \in 1 .. n : Content(r.list[i]) = Content(q.list[i])
    BY <1>1, <1>3, QueueContentType DEF Ready
  <1>6. Open(r) /\ QueueContent(r) = QueueContent(q)
    <2>1. Open(q)
      BY OpenPlaced
    <2>2. \A i \in 2 .. q.write - 1 : i \in 1 .. n
      BY <1>1, <1>5
    <2>3. \A i \in q.write + 1 .. n : i \in 1 .. n
      BY <1>1, <1>5
    <2>4. Open(r)
      BY <1>1, <1>5, <2>1, <2>2, <2>3 DEF Open
    <2>6. Bytes(r.list, n) = Bytes(q.list, n)
      <3>1. n \in 0 .. Len(r.list) /\ n <= Len(q.list)
        BY <1>1, <1>5
      <3> QED
        BY <1>1, <1>5, <3>1, SameBytes
    <2>7. QueueContent(r) = QueueContent(q)
      BY <1>5, <2>6 DEF QueueContent
    <2> QED
      BY <2>4, <2>7
  <1>7. x \in St(0)
    <2> DEFINE N == Len(data)
    <2>1. x = [q |-> r, left |-> N, more |-> TRUE]
      <3>1. (IF Len(data) >= 0 THEN Len(data) ELSE -Len(data)) = N
        BY <1>2
      <3>2. (r.write > 0) = TRUE
        BY <1>1, <1>5
      <3> QED
        BY <3>1, <3>2
    <2>2. x.q = r /\ x.left = N /\ x.more = TRUE
      BY <2>1
    <2>3. x \in [q : QueueState, left : Nat, more : BOOLEAN]
      BY <1>2, <1>5, <2>1
    <2>4. N - N = 0 /\ N > 0 /\ q.write + 0 = q.write /\ q.len + 0 = q.len /\ N <= N
      BY <1>1, <1>2
    <2>5. QueueContent(q) \o SubSeq(data, 1, 0) = QueueContent(q)
      <3>1. SubSeq(data, 1, 0) = <<>>
        BY SubSeqEmpty
      <3> QED
        BY <1>1, <3>1, ConcatEmptySeq
    <2>6. N = N - FreeUpto(q, q.write - 1)
      <3>1. FreeUpto(q, q.write - 1) = 0
        <4>1. Summed(q)
          BY <1>1, FreeSums
        <4>2. q.write - 1 = 0 \/ (q.write - 1 \in 1 .. Len(q.list) /\ q.write - 1 < q.write)
          BY <1>1
        <4> QED
          BY <4>1, <4>2 DEF Summed
      <3> QED
        BY <1>2, <3>1
    <2> HIDE DEF x, N, n
    <2> QED
      BY <1>5, <1>6, <2>2, <2>3, <2>4, <2>5, <2>6 DEF Forwarding, N, n
  <1>8. ASSUME NEW k \in 1 .. n, NEW y \in St(k - 1) PROVE ForwardBlock(y) \in St(k)
    <2>1. k \in Nat \ {0}
      BY <1>5
    <2> HIDE DEF n
    <2> QED
      BY <1>3, <2>1, ForwardRound
  <1> HIDE DEF n, x, St
  <1> DEFINE X == [k \in 0 .. n |-> St(k)]
             step == [k \in 1 .. n |-> [y \in St(k - 1) |-> ForwardBlock(y)]]
  <1>9. /\ \A k \in 1 .. n : \A y \in St(k - 1) : step[k][y] = ForwardBlock(y)
        /\ \A k \in 0 .. n : X[k] = St(k)
    OBVIOUS
  <1> HIDE DEF X, step
  <1>10. PICK f : Runs(f, n, x, step) /\ Through(f, n, X)
    <2>1. x \in X[0]
      BY <1>5, <1>7, <1>9
    <2>2. ASSUME NEW k \in 1 .. n, NEW y \in X[k - 1] PROVE step[k][y] \in X[k]
      <3>1. k - 1 \in 0 .. n /\ k \in 0 .. n
        BY <1>5
      <3>2. y \in St(k - 1) /\ X[k] = St(k)
        BY <1>9, <3>1
      <3> QED
        BY <1>8, <1>9, <3>2
    <2>3. Steps(n, X, step)
      BY <2>2 DEF Steps
    <2> QED
      BY <1>5, <2>1, <2>3, LoopRuns
  <1>11. Is(f)
    <2>1. ASSUME NEW k \in 0 .. n
          PROVE  (IF k = 0 THEN x ELSE step[k][f[k - 1]])
                   = IF k = 0 THEN x
                     ELSE IF Len(data) >= 0 THEN ForwardBlock(f[k - 1]) ELSE BackBlock(f[k - 1])
      <3>1. CASE k # 0
        <4>1. k \in 1 .. n /\ k - 1 \in 0 .. n
          BY <1>5, <3>1
        <4>2. f[k - 1] \in St(k - 1)
          BY <1>9, <1>10, <4>1 DEF Through
        <4>3. step[k][f[k - 1]] = ForwardBlock(f[k - 1])
          BY <1>9, <4>1, <4>2
        <4> QED
          BY <1>2, <3>1, <4>3
      <3> QED
        BY <3>1
    <2> QED
      BY <1>10, <2>1 DEF Runs
  <1>12. Is(Loop)
    BY <1>11
  <1> HIDE DEF Loop
  <1>13. Loop[0] = x /\ \A k \in 1 .. n : Loop[k] = ForwardBlock(Loop[k - 1])
    <2>1. ASSUME NEW k \in 0 .. n
          PROVE  Loop[k] = IF k = 0 THEN x
                           ELSE IF Len(data) >= 0 THEN ForwardBlock(Loop[k - 1])
                           ELSE BackBlock(Loop[k - 1])
      BY <1>12
    <2>2. 0 \in 0 .. n /\ \A k \in 1 .. n : k \in 0 .. n /\ k # 0
      BY <1>5
    <2> QED
      BY <1>2, <2>1, <2>2
  <1> DEFINE P == {k \in 0 .. n : Loop[k] \in St(k)}
  <1>14. 0 \in P
    BY <1>5, <1>7, <1>13
  <1>15. ASSUME NEW k \in 1 .. n, k - 1 \in P PROVE k \in P
    <2>1. k \in 0 .. n
      BY <1>5
    <2> QED
      BY <1>8, <1>13, <1>15, <2>1
  <1>16. n \in P
    <2> HIDE DEF P
    <2>1. \A k \in 0 .. n : k \in P
      BY <1>5, <1>14, <1>15, AllRounds
    <2> QED
      BY <1>5, <2>1
  <1> DEFINE c == Loop[n]
  <1>17. c \in Forwarding(q, data, r, n)
    BY <1>16 DEF St
  <1> HIDE DEF c
  <1>18. /\ c.q \in QueueState /\ c.left \in Nat /\ Open(c.q) /\ Len(c.q.list) = n
         /\ QueueContent(c.q) = QueueContent(q) \o SubSeq(data, 1, Len(data) - c.left)
         /\ c.q.len = q.len + (Len(data) - c.left)
         /\ IF c.more THEN c.q.write = q.write + n ELSE c.left = 0
    BY <1>5, <1>17 DEF Forwarding
  <1>19. ~c.more
    <2>1. c.q.write <= n /\ c.q.write \in Nat
      BY <1>5, <1>18 DEF Open
    <2> QED
      BY <1>1, <1>5, <1>18, <2>1, SMTT(30)
  <1>20. Len(data) - c.left = Len(data)
    BY <1>2, <1>18, <1>19
  <1>21. SubSeq(data, 1, Len(data)) = data
    BY SubSeqFull
  <1>22. Placed(c.q)
    BY <1>18, OpenPlaced
  <1>23. Put(q, data, c.q)
    BY <1>18, <1>20, <1>21, <1>22 DEF Put
  <1> QED
    BY <1>4, <1>23 DEF c, r

-----------------------------------------------------------------------------
(* Taking back: MoveWritePt(-1).                                            *)

(* The last byte of the queue is gone if there is one, and is counted.       *)
TakenBack(q, r) ==
    LET all == QueueContent(q)
        n   == Least(1, Len(all))
    IN  /\ Placed(r) /\ r.len = q.len + n
        /\ QueueContent(r) = SubSeq(all, 1, Len(all) - n)

(* The _buffer_write block has lost its last byte.                          *)
LEMMA BackPut ==
    ASSUME NEW q, Open(q), Content(q.list[q.write]) # <<>>, NEW r \in QueueState,
           r.list = [q.list EXCEPT ![q.write] = MoveWritePt(q.list[q.write], -1)],
           r.write = q.write
    PROVE  /\ Open(r) /\ QueueContent(q) \in Seq(Byte) /\ Len(QueueContent(q)) >= 1
           /\ QueueContent(r) = SubSeq(QueueContent(q), 1, Len(QueueContent(q)) - 1)
  <1> DEFINE w == q.write
             b == q.list[w]
             d == MoveWritePt(b, -1)
             m == [q.list EXCEPT ![w] = d]
             B == Content(b)
             L == Len(B)
             D == SubSeq(B, 1, L - 1)
             p == SubSeq(B, (L - 1) + 1, L)
             C == QueueContent(q)
  <1>1. /\ q.list \in Seq(GoodBlock) /\ Len(q.list) \in Nat /\ w \in Nat /\ w \in 1 .. Len(q.list)
        /\ C = Bytes(q.list, Len(q.list)) /\ C \in Seq(Byte) /\ Len(C) \in Nat
    BY QueueContentType, LenProperties DEF Open
  <1>2. b \in GoodBlock /\ b \in Block /\ PointersAgree(b) /\ B \in Seq(Byte)
    BY <1>1, ElementOfSeq, ContentIsSeq
  <1>3. L \in Nat /\ L # 0 /\ L = GetCanReadLength(b) /\ Least(1, L) = 1
    <2>1. L \in Nat /\ L # 0 /\ L = GetCanReadLength(b)
      BY <1>2, ContentType, EmptySeq, LenProperties
    <2> HIDE DEF L
    <2> QED
      BY <2>1 DEF Least
  <1>4. d \in GoodBlock
    BY <1>2, MoveWritePtOK DEF GoodBlock
  <1>5. Content(d) = D
    <2>1. Content(MoveWritePt(b, -1)) = SubSeq(B, 1, L - Least(1, GetCanReadLength(b)))
      BY <1>2, ContentRetract
    <2> QED
      BY <1>3, <2>1
  <1> HIDE DEF d, b, B
  <1>6. D \in Seq(Byte) /\ p \in Seq(Byte) /\ Len(p) = 1 /\ D \o p = B
    <2>1. L - 1 \in 0 .. L /\ L - 1 \in Nat
      <3> HIDE DEF L
      <3> QED
        BY <1>3
    <2>2. D \o p = B
      BY <1>2, <2>1, SplitAt
    <2>3. D \in Seq(Byte) /\ p \in Seq(Byte) /\ Len(p) = 1
      <3>1. B \in Seq(Byte) /\ Len(B) = L /\ L \in Nat /\ L # 0
        BY <1>2, <1>3
      <3> HIDE DEF B, L
      <3> QED
        BY <3>1
    <2> QED
      BY <2>2, <2>3
  <1>7. /\ m \in Seq(GoodBlock) /\ Len(m) = Len(q.list)
        /\ \A i \in 1 .. Len(q.list) : m[i] = IF i = w THEN d ELSE q.list[i]
    BY <1>1, <1>4, ExceptSeq
  <1>8. /\ m[w] = d /\ [m EXCEPT ![w] = b] = q.list
        /\ \A i \in w + 1 .. Len(m) : Content(m[i]) = <<>>
    <2>1. m[w] = d
      BY <1>1, <1>7
    <2>2. [m EXCEPT ![w] = b] = q.list
      BY <1>1 DEF b
    <2>3. ASSUME NEW i \in w + 1 .. Len(m) PROVE Content(m[i]) = <<>>
      <3>1. i \in 1 .. Len(q.list) /\ i # w /\ i \in w + 1 .. Len(q.list)
        BY <1>1, <1>7
      <3> QED
        BY <1>7, <3>1 DEF Open
    <2> QED
      BY <2>1, <2>2, <2>3
  <1> HIDE DEF m
  <1> DEFINE M == Bytes(m, Len(m))
  <1>9. C = M \o p
    <2>1. Content(b) = Content(m[w]) \o p /\ w \in 1 .. Len(m)
      BY <1>1, <1>5, <1>6, <1>7, <1>8 DEF B
    <2> HIDE DEF p, w
    <2>3. m \in Seq(GoodBlock) /\ b \in GoodBlock /\ p \in Seq(Byte)
      BY <1>2, <1>6, <1>7
    <2>4. \A i \in w + 1 .. Len(m) : Content(m[i]) = <<>>
      BY <1>8
    <2>2. Bytes([m EXCEPT ![w] = b], Len(m)) = Bytes(m, Len(m)) \o p
      <3> HIDE DEF L, D, C, M
      <3> QED
        BY <2>1, <2>3, <2>4, PutBytes
    <2> QED
      BY <1>1, <1>7, <1>8, <2>2
  <1>10. M \in Seq(Byte) /\ Len(M) \in Nat
    <2>1. Joined(m) /\ Len(m) \in Nat
      BY <1>7, BytesJoin, LenProperties
    <2> QED
      BY <2>1, LenProperties DEF Joined
  <1> HIDE DEF M, p, C
  <1>11. Len(C) = Len(M) + 1 /\ SubSeq(C, 1, Len(M)) = M
    <2>1. Len(M \o p) = Len(M) + Len(p)
      BY <1>6, <1>10, ConcatProperties
    <2>2. SubSeq(M \o p, 1, Len(M)) = M
      BY <1>6, <1>10, SplitConcat
    <2> QED
      BY <1>6, <1>9, <2>1, <2>2
  <1>12. M = SubSeq(C, 1, Len(C) - 1) /\ Len(C) >= 1
    <2>1. Len(C) - 1 = Len(M) /\ Len(C) >= 1
      BY <1>10, <1>11
    <2> QED
      BY <1>11, <2>1
  <1>13. r.list = m /\ r.write = w
    BY DEF m, d, b
  <1>14. Open(r)
    <2>1. ASSUME NEW i \in 2 .. w - 1 PROVE Content(m[i]) # <<>>
      <3>1. i \in 1 .. Len(q.list) /\ i # w
        BY <1>1
      <3>2. m[i] = q.list[i]
        BY <1>7, <3>1
      <3> QED
        BY <3>2 DEF Open
    <2> QED
      BY <1>1, <1>7, <1>8, <1>13, <2>1 DEF Open
  <1>15. QueueContent(r) = M
    BY <1>13 DEF QueueContent, M
  <1> QED
    BY <1>1, <1>12, <1>14, <1>15 DEF C

(* _buffer_write goes back over a block that holds nothing.                 *)
LEMMA BackMove ==
    ASSUME NEW q, Open(q), Content(q.list[q.write]) = <<>>, q.write # 1,
           NEW r \in QueueState, r.list = q.list, r.write = q.write - 1
    PROVE  Open(r) /\ QueueContent(r) = QueueContent(q)
  <1>1. Len(q.list) \in Nat /\ q.write \in Nat /\ q.write \in 1 .. Len(q.list)
    BY QueueContentType DEF Open
  <1>2. r.write \in 1 .. Len(r.list)
    BY <1>1
  <1>3. ASSUME NEW i \in 2 .. r.write - 1 PROVE Content(r.list[i]) # <<>>
    <2>1. i \in 2 .. q.write - 1
      BY <1>1
    <2> QED
      BY <2>1 DEF Open
  <1>4. ASSUME NEW i \in r.write + 1 .. Len(r.list) PROVE Content(r.list[i]) = <<>>
    <2>1. i = q.write \/ i \in q.write + 1 .. Len(q.list)
      BY <1>1
    <2> QED
      BY <2>1 DEF Open
  <1>5. QueueContent(r) = QueueContent(q)
    BY DEF QueueContent
  <1> QED
    BY <1>2, <1>3, <1>4, <1>5 DEF Open

(* When the head is the _buffer_write block and holds nothing, nothing does. *)
LEMMA NothingHeld ==
    ASSUME NEW q, Open(q), Content(q.list[q.write]) = <<>>, q.write = 1
    PROVE  QueueContent(q) = <<>>
  <1>1. /\ q.list \in Seq(GoodBlock) /\ Len(q.list) \in Nat /\ 1 \in 1 .. Len(q.list)
        /\ QueueContent(q) = Bytes(q.list, Len(q.list)) /\ Joined(q.list)
    BY QueueContentType DEF Open
  <1>2. ASSUME NEW i \in 0 + 1 .. Len(q.list) PROVE Content(q.list[i]) = <<>>
    <2>1. i = 1 \/ i \in q.write + 1 .. Len(q.list)
      BY <1>1
    <2> QED
      BY <2>1 DEF Open
  <1>3. 0 \in 0 .. Len(q.list) /\ Len(q.list) \in 0 .. Len(q.list)
    BY <1>1
  <1>4. Bytes(q.list, Len(q.list)) = Bytes(q.list, 0)
    BY <1>1, <1>2, <1>3, NoBytes
  <1> QED
    BY <1>1, <1>4 DEF Joined

(* The states of MoveWritePt(-1) after k rounds: the byte has been taken, or  *)
(* the search goes on one block further towards the head, or there is none.  *)
Backing(q0, k) ==
    {c \in [q : QueueState, left : {0, 1}, more : BOOLEAN] :
        /\ Open(c.q)
        /\ c.left = 0 =>
              /\ ~c.more /\ Len(QueueContent(q0)) >= 1 /\ c.q.len = q0.len + 1
              /\ QueueContent(c.q) = SubSeq(QueueContent(q0), 1, Len(QueueContent(q0)) - 1)
        /\ c.left = 1 => c.q.len = q0.len /\ QueueContent(c.q) = QueueContent(q0)
        /\ c.more => c.q.write = q0.write - k
        /\ c.left = 1 /\ ~c.more => QueueContent(q0) = <<>>}

(* Each round of it leads from one of these states to the next.             *)
LEMMA BackRound ==
    ASSUME NEW q0 \in QueueState, NEW k \in Nat \ {0}, NEW c \in Backing(q0, k - 1)
    PROVE  BackBlock(c) \in Backing(q0, k)
  <1> DEFINE Q    == c.q
             w    == Q.write
             b    == Q.list[w]
             n    == MoveWritePtLen(b, -c.left)
             last == w = 1 \/ c.left <= n
             out  == [list |-> [Q.list EXCEPT ![w] = MoveWritePt(b, -c.left)],
                      write |-> IF last THEN w ELSE w - 1, len |-> Q.len + n]
             e    == BackBlock(c)
  <1>1. /\ c \in [q : QueueState, left : {0, 1}, more : BOOLEAN]
        /\ Q \in QueueState /\ c.left \in {0, 1} /\ c.more \in BOOLEAN /\ Open(Q)
        /\ c.left = 0 =>
              /\ ~c.more /\ Len(QueueContent(q0)) >= 1 /\ Q.len = q0.len + 1
              /\ QueueContent(Q) = SubSeq(QueueContent(q0), 1, Len(QueueContent(q0)) - 1)
        /\ c.left = 1 => Q.len = q0.len /\ QueueContent(Q) = QueueContent(q0)
        /\ c.more => w = q0.write - (k - 1)
        /\ c.left = 1 /\ ~c.more => QueueContent(q0) = <<>>
    BY DEF Backing
  <1>2. CASE ~c.more
    <2>1. e = c
      BY <1>2 DEF BackBlock
    <2> QED
      BY <1>1, <1>2, <2>1 DEF Backing
  <1>3. CASE c.more
    <2>1. c.left = 1 /\ w = q0.write - (k - 1)
      BY <1>1, <1>3
    <2>2. /\ Q.list \in Seq(GoodBlock) /\ Len(Q.list) \in Nat /\ w \in Nat /\ w \in 1 .. Len(Q.list)
          /\ Q.len \in Int /\ q0.len \in Int /\ q0.write \in Nat
      BY <1>1, QueueContentType DEF Open
    <2>3. b \in GoodBlock /\ b \in Block /\ PointersAgree(b)
      BY <2>2, ElementOfSeq, ContentIsSeq
    <2>4. e = [q |-> out, left |-> c.left - n, more |-> ~last]
      BY <1>3 DEF BackBlock
    <2>5. n = Least(1, GetCanReadLength(b))
      BY <2>1 DEF MoveWritePtLen
    <2>6. GetCanReadLength(b) \in Nat /\ Len(Content(b)) = GetCanReadLength(b)
      BY <2>3, ContentType, LengthsAddUp, BlockLenAssumption
    <2> HIDE DEF e
    <2>7. CASE Content(b) # <<>>
      <3>1. n = 1 /\ last
        <4>1. GetCanReadLength(b) # 0
          BY <2>3, <2>6, <2>7, ContentType, EmptySeq
        <4> QED
          BY <2>1, <2>5, <2>6, <4>1 DEF Least
      <3> DEFINE m == [Q.list EXCEPT ![w] = MoveWritePt(b, -1)]
      <3>2. m \in Seq(GoodBlock)
        <4>1. MoveWritePt(b, -1) \in GoodBlock
          BY <2>3, MoveWritePtOK DEF GoodBlock
        <4> QED
          BY <2>2, <4>1, ExceptSeq
      <3>3. out = [list |-> m, write |-> w, len |-> Q.len + 1]
        BY <2>1, <3>1
      <3>3a. e = [q |-> out, left |-> 0, more |-> FALSE]
        <4>1. c.left - n = 0 /\ (~last) = FALSE
          BY <2>1, <3>1
        <4> HIDE DEF n, last, out
        <4> QED
          BY <2>4, <4>1
      <3> HIDE DEF n, last, out, m
      <3>4. out \in QueueState /\ out.list = m /\ out.write = w /\ out.len = q0.len + 1
        BY <1>1, <2>1, <2>2, <3>2, <3>3 DEF QueueState
      <3>5. /\ Open(out) /\ Len(QueueContent(Q)) >= 1
            /\ QueueContent(out) = SubSeq(QueueContent(Q), 1, Len(QueueContent(Q)) - 1)
        BY <1>1, <2>7, <3>4, BackPut DEF m
      <3>6. e \in [q : QueueState, left : {0, 1}, more : BOOLEAN]
            /\ e.q = out /\ e.left = 0 /\ e.more = FALSE
        BY <3>3a, <3>4
      <3> QED
        BY <1>1, <2>1, <3>4, <3>5, <3>6 DEF Backing, e
    <2>8. CASE Content(b) = <<>>
      <3>1. n = 0 /\ GetCanReadLength(b) = 0
        <4>1. GetCanReadLength(b) = 0
          BY <2>6, <2>8, EmptySeq
        <4> QED
          BY <2>5, <4>1 DEF Least
      <3>2. MoveWritePt(b, -c.left) = b
        BY <2>1, <3>1 DEF MoveWritePt
      <3>3. [Q.list EXCEPT ![w] = MoveWritePt(b, -c.left)] = Q.list
        BY <2>2, <3>2
      <3>4. c.left - n = 1 /\ Q.len + n = Q.len /\ (last <=> w = 1)
        BY <2>1, <2>2, <3>1
      <3>5. e = [q |-> out, left |-> 1, more |-> ~last]
        BY <2>4, <3>4
      <3>6. out = [list |-> Q.list, write |-> IF w = 1 THEN w ELSE w - 1, len |-> Q.len]
        BY <3>3, <3>4
      <3> HIDE DEF n, out
      <3>7. CASE w = 1
        <4>1. out = Q
          <5>1. Q = [list |-> Q.list, write |-> w, len |-> Q.len]
            BY <1>1, QueueContentType
          <5> HIDE DEF Q
          <5> QED
            BY <3>6, <3>7, <5>1
        <4>2. e = [q |-> Q, left |-> 1, more |-> FALSE]
          BY <3>4, <3>5, <3>7, <4>1
        <4>3. QueueContent(Q) = <<>>
          BY <1>1, <2>8, <3>7, NothingHeld
        <4>4. e \in [q : QueueState, left : {0, 1}, more : BOOLEAN]
              /\ e.q = Q /\ e.left = 1 /\ e.more = FALSE
          BY <1>1, <4>2
        <4> QED
          BY <1>1, <2>1, <4>3, <4>4 DEF Backing, e
      <3>8. CASE w # 1
        <4>1. out = [list |-> Q.list, write |-> w - 1, len |-> Q.len]
          BY <3>6, <3>8
        <4>2. e = [q |-> out, left |-> 1, more |-> TRUE]
          BY <3>4, <3>5, <3>8
        <4>3. w - 1 \in Nat /\ w - 1 = q0.write - k
          <5> DEFINE u == Len(Q.list)
          <5>1. w \in Nat /\ w \in 1 .. u /\ w = q0.write - (k - 1) /\ q0.write \in Nat /\ u \in Nat
            BY <2>1, <2>2
          <5> HIDE DEF w, u
          <5> QED
            BY <3>8, <5>1
        <4>4. out \in QueueState /\ out.list = Q.list /\ out.write = w - 1 /\ out.len = Q.len
          BY <2>2, <4>1, <4>3 DEF QueueState
        <4>5. Open(out) /\ QueueContent(out) = QueueContent(Q)
          BY <1>1, <2>8, <3>8, <4>4, BackMove
        <4>6. e \in [q : QueueState, left : {0, 1}, more : BOOLEAN]
              /\ e.q = out /\ e.left = 1 /\ e.more = TRUE
          BY <4>2, <4>4
        <4> QED
          BY <1>1, <2>1, <4>3, <4>4, <4>5, <4>6 DEF Backing, e
      <3> QED
        BY <3>7, <3>8
    <2> QED
      BY <2>7, <2>8
  <1> QED
    BY <1>1, <1>2, <1>3

(* MoveWritePt(-1) takes the last byte back.                                *)
LEMMA BackTakes ==
    ASSUME NEW q, Placed(q), q.write # 0
    PROVE  TakenBack(q, QueueMoveWritePt(q, -1))
  <1> DEFINE n == Len(q.list)
             x == [q |-> q, left |-> IF -1 >= 0 THEN -1 ELSE -(-1), more |-> q.write > 0]
             Loop[k \in 0 .. n] ==
                IF k = 0 THEN x
                ELSE IF -1 >= 0 THEN ForwardBlock(Loop[k - 1]) ELSE BackBlock(Loop[k - 1])
             Is(f) == f = [k \in 0 .. n |->
                IF k = 0 THEN x
                ELSE IF -1 >= 0 THEN ForwardBlock(f[k - 1]) ELSE BackBlock(f[k - 1])]
             St(k) == Backing(q, k)
  <1>1. /\ q \in QueueState /\ QueueContent(q) \in Seq(Byte) /\ q.len \in Int
        /\ n \in Nat /\ q.write \in Nat /\ q.write \in 1 .. n /\ Open(q)
    BY QueueContentType, OpenPlaced DEF Placed
  <1>2. QueueMoveWritePt(q, -1) = Loop[n].q
    BY DEF QueueMoveWritePt
  <1>3. x \in St(0)
    <2>1. x = [q |-> q, left |-> 1, more |-> TRUE]
      <3>1. (q.write > 0) = TRUE
        BY <1>1
      <3>2. (IF -1 >= 0 THEN -1 ELSE -(-1)) = 1
        <4>1. ~(-1 >= 0) /\ -1 \in Int /\ -1 + 1 = 0
          OBVIOUS
        <4>2. \A i \in Int : i + 1 = 0 => -i = 1
          OBVIOUS
        <4>3. -(-1) = 1
          BY <4>1, <4>2, Zenon
        <4> QED
          BY <4>1, <4>3, Zenon
      <3> QED
        BY <3>1, <3>2
    <2>2. /\ x \in [q : QueueState, left : {0, 1}, more : BOOLEAN]
          /\ x.q = q /\ x.left = 1 /\ x.more = TRUE
      BY <1>1, <2>1
    <2>3. q.write - 0 = q.write
      BY <1>1
    <2> HIDE DEF x
    <2> QED
      BY <1>1, <2>2, <2>3 DEF Backing
  <1>4. ASSUME NEW k \in 1 .. n, NEW y \in St(k - 1) PROVE BackBlock(y) \in St(k)
    <2>1. k \in Nat \ {0}
      BY <1>1
    <2> QED
      BY <1>1, <2>1, BackRound
  <1> HIDE DEF n, x, St
  <1> DEFINE X == [k \in 0 .. n |-> St(k)]
             step == [k \in 1 .. n |-> [y \in St(k - 1) |-> BackBlock(y)]]
  <1>5. /\ \A k \in 1 .. n : \A y \in St(k - 1) : step[k][y] = BackBlock(y)
        /\ \A k \in 0 .. n : X[k] = St(k)
    OBVIOUS
  <1> HIDE DEF X, step
  <1>6. PICK f : Runs(f, n, x, step) /\ Through(f, n, X)
    <2>1. x \in X[0]
      BY <1>1, <1>3, <1>5
    <2>2. ASSUME NEW k \in 1 .. n, NEW y \in X[k - 1] PROVE step[k][y] \in X[k]
      <3>1. k - 1 \in 0 .. n /\ k \in 0 .. n
        BY <1>1
      <3>2. y \in St(k - 1) /\ X[k] = St(k)
        BY <1>5, <3>1
      <3> QED
        BY <1>4, <1>5, <3>2
    <2>3. Steps(n, X, step)
      BY <2>2 DEF Steps
    <2> QED
      BY <1>1, <2>1, <2>3, LoopRuns
  <1>7. Is(f)
    <2>1. ASSUME NEW k \in 0 .. n, k # 0
          PROVE  step[k][f[k - 1]]
                   = IF -1 >= 0 THEN ForwardBlock(f[k - 1]) ELSE BackBlock(f[k - 1])
      <3>1. k \in 1 .. n /\ k - 1 \in 0 .. n
        BY <1>1, <2>1
      <3>2. f[k - 1] \in St(k - 1)
        BY <1>5, <1>6, <3>1 DEF Through
      <3> QED
        BY <1>5, <3>1, <3>2
    <2> QED
      BY <1>6, <2>1 DEF Runs
  <1>8. Is(Loop)
    BY <1>7
  <1> HIDE DEF Loop
  <1>9. Loop[0] = x /\ \A k \in 1 .. n : Loop[k] = BackBlock(Loop[k - 1])
    BY <1>1, <1>8
  <1> DEFINE P == {k \in 0 .. n : Loop[k] \in St(k)}
  <1>10. 0 \in P
    BY <1>1, <1>3, <1>9
  <1>11. ASSUME NEW k \in 1 .. n, k - 1 \in P PROVE k \in P
    <2>1. k \in 0 .. n
      BY <1>1
    <2> QED
      BY <1>4, <1>9, <1>11, <2>1
  <1>12. n \in P
    <2> HIDE DEF P
    <2>1. \A k \in 0 .. n : k \in P
      BY <1>1, <1>10, <1>11, AllRounds
    <2> QED
      BY <1>1, <2>1
  <1> DEFINE c == Loop[n]
             C == QueueContent(q)
             a == Len(C)
  <1>13. c \in Backing(q, n)
    BY <1>12 DEF St
  <1> HIDE DEF c
  <1>14. /\ c.left \in {0, 1} /\ Open(c.q)
         /\ c.left = 0 => /\ ~c.more /\ a >= 1 /\ c.q.len = q.len + 1
                          /\ QueueContent(c.q) = SubSeq(C, 1, a - 1)
         /\ c.left = 1 => c.q.len = q.len /\ QueueContent(c.q) = C
         /\ c.more => c.q.write = q.write - n
         /\ c.left = 1 /\ ~c.more => C = <<>>
    BY <1>13 DEF Backing
  <1>15. ~c.more
    <2>1. c.q.write >= 1 /\ c.q.write \in Nat
      <3>1. Len(c.q.list) \in Nat /\ c.q.write \in Nat /\ c.q.write \in 1 .. Len(c.q.list)
        BY <1>14, QueueContentType DEF Open
      <3> QED
        BY <3>1
    <2>2. q.write - n <= 0
      BY <1>1
    <2> QED
      BY <1>1, <1>14, <2>1, <2>2
  <1>16. Placed(c.q) /\ a \in Nat
    BY <1>1, <1>14, OpenPlaced, LenProperties
  <1>17. CASE c.left = 0
    <2>1. Least(1, a) = 1
      <3> HIDE DEF a
      <3> QED
        BY <1>14, <1>16, <1>17 DEF Least
    <2>2. TakenBack(q, c.q)
      BY <1>14, <1>16, <1>17, <2>1 DEF TakenBack
    <2> QED
      BY <1>2, <2>2 DEF c
  <1>18. CASE c.left = 1
    <2>1. C = <<>> /\ a = 0 /\ Least(1, 0) = 0
      BY <1>14, <1>15, <1>18, EmptySeq DEF Least
    <2>2. SubSeq(C, 1, a - 0) = C
      BY <1>1, <2>1, SubSeqFull
    <2>3. c.q.len = q.len + 0
      BY <1>1, <1>14, <1>18
    <2> HIDE DEF C
    <2>4. TakenBack(q, c.q)
      BY <1>14, <1>16, <1>18, <2>1, <2>2, <2>3 DEF TakenBack, C
    <2> QED
      BY <1>2, <2>4 DEF c
  <1> QED
    BY <1>14, <1>17, <1>18

-----------------------------------------------------------------------------
(* A queue under every sequence of calls.                                   *)

(* The inductive invariant: the place of _buffer_write, and _can_read_length, *)
(* the number of unread bytes and twice the bytes taken back, in its bound.  *)
QueueInv ==
    /\ Placed(que)
    /\ back \in Nat
    /\ que.len = Len(QueueContent(que)) + 2 * back
    /\ que.len <= MaxBytes

(* A new queue satisfies it and is an empty first-in first-out queue.       *)
LEMMA QueueInitInv == QueueInit => QueueInv /\ QueueFifo!Init
  <1> SUFFICES ASSUME QueueInit PROVE QueueInv /\ QueueFifo!Init
    OBVIOUS
  <1>1. que = [list |-> <<>>, write |-> 0, len |-> 0] /\ passed = <<>> /\ back = 0
    BY DEF QueueInit, NewQueue
  <1>2. Placed(que) /\ QueueContent(que) = <<>> /\ que.len = 0
    BY <1>1, EmptyQueue
  <1>3. QueueInv
    BY <1>1, <1>2, QueueAssumption, EmptySeq DEF QueueInv
  <1>4. <<QueueContent(que)>> = [y \in {1} |-> <<>>]
    BY <1>2
  <1> QED
    BY <1>1, <1>3, <1>4 DEF QueueFifo!Init

(* A step that adds data.                                                   *)
LEMMA QueuePuts ==
    ASSUME QueueInv, NEW data \in Strings, que.len + Len(data) <= MaxBytes,
           Put(que, data, que'), passed' = data, back' = back
    PROVE  QueueInv' /\ QueueFifo!Put(1, data)
  <1> DEFINE C == QueueContent(que)
             D == QueueContent(que')
  <1>1. data \in Seq(Byte) /\ Len(data) \in Nat
    BY StringsAreSeqs, LenProperties
  <1>2. /\ C \in Seq(Byte) /\ que.len = Len(C) + 2 * back /\ Len(C) \in Nat
        /\ back \in Nat /\ que.len \in Int
    BY QueueContentType DEF QueueInv, Placed
  <1>3. Placed(que') /\ que'.len = que.len + Len(data) /\ D = C \o data
    BY DEF Put
  <1>4. Len(D) = Len(C) + Len(data)
    BY <1>1, <1>2, <1>3, ConcatProperties
  <1>5. QueueInv' /\ Len(C) + Len(data) <= MaxBytes
    <2> DEFINE u == Len(C)
               v == Len(data)
               z == que.len
    <2>1. /\ u \in Nat /\ v \in Nat /\ z \in Int /\ back \in Nat /\ z = u + 2 * back
          /\ z + v <= MaxBytes
      BY <1>1, <1>2
    <2> HIDE DEF u, v, z
    <2>2. z + v = (u + v) + 2 * back /\ u + v <= MaxBytes
      BY <2>1, QueueAssumption
    <2>3. que'.len = Len(D) + 2 * back' /\ que'.len <= MaxBytes
      BY <1>3, <1>4, <2>1, <2>2 DEF u, v, z
    <2> QED
      BY <1>2, <1>3, <2>2, <2>3 DEF QueueInv, u, v
  <1>6. SubSeq(data, 1, Len(data)) = data
    BY <1>1, SubSeqFull
  <1> HIDE DEF C, D
  <1>7. <<D>> = [<<C>> EXCEPT ![1] = <<C>>[1] \o SubSeq(data, 1, Len(data))] /\ <<C>>[1] = C
    <2>1. <<C>>[1] = C
      OBVIOUS
    <2>2. D = <<C>>[1] \o SubSeq(data, 1, Len(data))
      BY <1>3, <1>6, <2>1
    <2>3. <<D>> = [<<C>> EXCEPT ![1] = D]
      OBVIOUS
    <2> QED
      BY <2>1, <2>2, <2>3
  <1>8. Len(data) \in 0 .. Len(data)
    BY <1>1
  <1> QED
    BY <1>5, <1>7, <1>8 DEF QueueFifo!Put, C, D

(* A step that reads.                                                       *)
LEMMA QueueTakes ==
    ASSUME QueueInv, NEW len \in Nat, NEW r, Taken(que, len, r), que' = r.q, passed' = r.got,
           back' = back
    PROVE  QueueInv' /\ QueueFifo!Take(1, len)
  <1> DEFINE C == QueueContent(que)
             D == QueueContent(que')
             n == Least(len, Len(C))
  <1>1. /\ C \in Seq(Byte) /\ que.len = Len(C) + 2 * back /\ Len(C) \in Nat
        /\ back \in Nat /\ que.len \in Int /\ que.len <= MaxBytes
    BY QueueContentType DEF QueueInv, Placed
  <1>2. /\ Placed(que') /\ que'.len = que.len - n /\ passed' = SubSeq(C, 1, n)
        /\ D = SubSeq(C, n + 1, Len(C))
    BY DEF Taken
  <1>3. n \in 0 .. Len(C) /\ n \in Nat /\ (n = len \/ (n < len /\ n = Len(C)))
    BY <1>1 DEF Least
  <1> HIDE DEF C, D, n
  <1>4. Len(D) = Len(C) - n
    BY <1>1, <1>2, <1>3
  <1>5. QueueInv'
    <2> DEFINE u == Len(C)
               z == que.len
    <2>1. /\ u \in Nat /\ n \in Nat /\ z \in Int /\ back \in Nat /\ z = u + 2 * back
          /\ z <= MaxBytes
      BY <1>1, <1>3
    <2> HIDE DEF u, z
    <2>2. z - n = (u - n) + 2 * back /\ z - n <= MaxBytes
      BY <2>1, QueueAssumption
    <2>3. que'.len = Len(D) + 2 * back' /\ que'.len <= MaxBytes
      BY <1>2, <1>4, <2>2 DEF u, z
    <2> QED
      BY <1>1, <1>2, <2>3 DEF QueueInv, D
  <1>6. <<C>>[1] = C /\ <<D>> = [<<C>> EXCEPT ![1] = SubSeq(<<C>>[1], n + 1, Len(<<C>>[1]))]
    BY <1>2
  <1> QED
    BY <1>2, <1>3, <1>5, <1>6 DEF QueueFifo!Take, C, D

(* A step of Recv that reads nothing: the last byte is taken back.           *)
LEMMA QueueRetracts ==
    ASSUME QueueInv, NEW size \in Expand, FillNothing(size)
    PROVE  QueueInv' /\ QueueFifo!Retract(1, 1)
  <1> DEFINE free == QueueGetFreeMemoryBlock(que, size)
             C == QueueContent(que)
             D == QueueContent(que')
             n == Least(1, Len(C))
  <1>1. /\ C \in Seq(Byte) /\ que.len = Len(C) + 2 * back /\ Len(C) \in Nat
        /\ back \in Nat /\ que.len \in Int
    BY QueueContentType DEF QueueInv, Placed
  <1>2. que.len + 1 <= MaxBytes /\ que' = QueueMoveWritePt(free, -1) /\ passed' = <<>>
        /\ back' = back + n
    BY DEF FillNothing
  <1>3. Appended(que, free)
    BY QueueAssumption, FreeAppends DEF QueueInv
  <1> HIDE DEF free
  <1>4. Placed(free) /\ free.write # 0 /\ QueueContent(free) = C /\ free.len = que.len
    BY <1>3 DEF Appended
  <1>5. TakenBack(free, que')
    BY <1>2, <1>4, BackTakes
  <1>6. Placed(que') /\ que'.len = que.len + n /\ D = SubSeq(C, 1, Len(C) - n)
    BY <1>4, <1>5 DEF TakenBack
  <1>7. /\ n \in 0 .. Len(C) /\ n \in Nat /\ n <= 1 /\ (n = 1 \/ (n < 1 /\ n = Len(C)))
        /\ Len(C) - n \in Nat
    BY <1>1 DEF Least
  <1> HIDE DEF C, D, n
  <1>8. Len(D) = Len(C) - n
    BY <1>1, <1>6, <1>7
  <1>9. QueueInv'
    <2> DEFINE u == Len(C)
               z == que.len
    <2>1. /\ u \in Nat /\ n \in Nat /\ z \in Int /\ back \in Nat /\ z = u + 2 * back
          /\ z + 1 <= MaxBytes /\ n <= 1
      BY <1>1, <1>2, <1>7
    <2> HIDE DEF u, z
    <2>2. z + n = (u - n) + 2 * (back + n) /\ z + n <= MaxBytes /\ back + n \in Nat
      BY <2>1, QueueAssumption
    <2>3. que'.len = Len(D) + 2 * back' /\ que'.len <= MaxBytes /\ back' \in Nat
      BY <1>2, <1>6, <1>8, <2>2 DEF u, z
    <2> QED
      BY <1>6, <2>3 DEF QueueInv, D
  <1>10. <<C>>[1] = C /\ <<D>> = [<<C>> EXCEPT ![1] = SubSeq(<<C>>[1], 1, Len(<<C>>[1]) - n)]
    BY <1>6
  <1> QED
    BY <1>2, <1>7, <1>9, <1>10 DEF QueueFifo!Retract, C, D

(* A step of Recv that fails: blocks are appended, and no byte moves.        *)
LEMMA QueueStays ==
    ASSUME QueueInv, NEW size \in Expand, FillFails(size)
    PROVE  QueueInv' /\ QueueFifo!Retract(1, 0)
  <1> DEFINE C == QueueContent(que)
             D == QueueContent(que')
  <1>1. Appended(que, que') /\ passed' = <<>> /\ back' = back
    BY QueueAssumption, FreeAppends DEF QueueInv, FillFails
  <1>2. Placed(que') /\ D = C /\ que'.len = que.len
    BY <1>1 DEF Appended
  <1>3. QueueInv'
    BY <1>1, <1>2 DEF QueueInv
  <1>4. C \in Seq(Byte) /\ Len(C) \in Nat
    BY QueueContentType, LenProperties DEF QueueInv, Placed
  <1>5. 0 \in 0 .. Len(C) /\ SubSeq(C, 1, Len(C) - 0) = C
    <2>1. Len(C) - 0 = Len(C)
      BY <1>4
    <2> QED
      BY <1>4, <2>1, SubSeqFull
  <1> HIDE DEF C, D
  <1>6. <<C>>[1] = C /\ <<D>> = [<<C>> EXCEPT ![1] = SubSeq(<<C>>[1], 1, Len(<<C>>[1]) - 0)]
    BY <1>2, <1>5
  <1> QED
    BY <1>1, <1>3, <1>5, <1>6 DEF QueueFifo!Retract, C, D

(* Clear.                                                                   *)
LEMMA QueueClears ==
    ASSUME QueueInv, ClearQueue
    PROVE  QueueInv' /\ QueueFifo!Discard(1)
  <1>1. que' = [list |-> <<>>, write |-> 0, len |-> 0] /\ passed' = <<>> /\ back' = 0
    BY DEF ClearQueue, QueueClear, Reset
  <1>2. Placed(que') /\ QueueContent(que') = <<>> /\ que'.len = 0
    BY <1>1, EmptyQueue
  <1>3. QueueInv'
    BY <1>1, <1>2, QueueAssumption, EmptySeq DEF QueueInv
  <1> DEFINE C == QueueContent(que)
  <1>4. <<QueueContent(que')>> = [<<C>> EXCEPT ![1] = <<>>]
    BY <1>2
  <1> QED
    BY <1>1, <1>3, <1>4 DEF QueueFifo!Discard

(* The length FindStr reports is a number.                                  *)
LEMMA FindStrType ==
    ASSUME NEW b \in GoodBlock, NEW s \in Seq(Byte)
    PROVE  FindStr(b, s) \in Nat
  <1> DEFINE use == GetUseMemoryBlock(b)
             g1 == Gather(b, use[1])
             g2 == Gather(b, use[2])
             k1 == FindInMem(g1, s)
             k2 == FindInMem(g2, s)
  <1>1. /\ g1 \in Seq(Byte) /\ Len(g1) = Len(use[1]) /\ g2 \in Seq(Byte)
    BY SegmentsAreContent DEF GoodBlock
  <1>2. Len(g1) \in Nat /\ Len(g2) \in Nat /\ Len(s) \in Nat
    BY <1>1, LenProperties
  <1>3. FindStr(b, s) = CASE k1 >= 0 -> k1 + Len(s)
                          [] k1 < 0 /\ k2 >= 0 -> k2 + Len(s) + Len(use[1])
                          [] OTHER -> 0
    BY DEF FindStr
  <1>4. k1 = -1 \/ k1 \in Nat
    <2>1. k1 = -1 \/ k1 \in 0 .. Len(g1) - Len(s)
      BY <1>1, FindInMemIs
    <2> HIDE DEF k1
    <2> QED
      BY <1>2, <2>1
  <1>5. k2 = -1 \/ k2 \in Nat
    <2>1. k2 = -1 \/ k2 \in 0 .. Len(g2) - Len(s)
      BY <1>1, FindInMemIs
    <2> HIDE DEF k2
    <2> QED
      BY <1>2, <2>1
  <1> HIDE DEF k1, k2
  <1>6. Len(use[1]) \in Nat
    BY <1>1, <1>2
  <1>7. CASE k1 >= 0
    BY <1>2, <1>3, <1>4, <1>7
  <1>8. CASE k1 < 0 /\ k2 >= 0
    <2>1. FindStr(b, s) = k2 + Len(s) + Len(use[1])
      BY <1>3, <1>4, <1>8
    <2> HIDE DEF use
    <2> QED
      BY <1>2, <1>5, <1>6, <1>8, <2>1
  <1>9. CASE ~(k1 >= 0) /\ ~(k1 < 0 /\ k2 >= 0)
    BY <1>3, <1>9
  <1> QED
    BY <1>7, <1>8, <1>9, <1>4

(* ... and so is the one FindStr of the queue reports.                      *)
LEMMA QueueFindStrType ==
    ASSUME NEW q, Placed(q), NEW s \in Seq(Byte)
    PROVE  QueueFindStr(q, s) \in Nat
  <1> DEFINE at == {i \in 1 .. q.write : FindStr(q.list[i], s) > 0}
             stop == IF at = {} THEN q.write ELSE CHOOSE i \in at : \A j \in at : i <= j
             R == OpToRel(<, Nat)
  <1>1. /\ q \in QueueState /\ q.write \in 0 .. Len(q.list) /\ Len(q.list) \in Nat
        /\ q.write = 0 <=> q.list = <<>>
    BY QueueContentType DEF Placed
  <1>2. QueueFindStr(q, s) = IF q.list = <<>> THEN 0
                             ELSE Len(Bytes(q.list, stop - 1)) + FindStr(q.list[stop], s)
    BY DEF QueueFindStr
  <1>3. CASE q.list = <<>>
    BY <1>2, <1>3
  <1>4. CASE q.list # <<>>
    <2>1. stop \in 1 .. q.write
      <3>1. CASE at = {}
        BY <1>1, <1>4, <3>1
      <3>2. CASE at # {}
        <4>1. at \subseteq Nat
          BY <1>1
        <4>2. PICK x \in at : \A y \in at : ~(<<y, x>> \in R)
          BY <3>2, <4>1, NatLessThanWellFounded, WFMin
        <4>3. \E i \in at : \A j \in at : i <= j
          <5>1. R = {ss \in Nat \X Nat : ss[1] < ss[2]}
            BY DEF OpToRel
          <5> HIDE DEF at, R
          <5>2. ASSUME NEW y \in at PROVE x <= y
            <6>1. x \in Nat /\ y \in Nat
              BY <4>1, <4>2
            <6>2. ~(<<y, x>> \in R)
              BY <4>2
            <6> QED
              BY <5>1, <6>1, <6>2
          <5> QED
            BY <4>2, <5>2
        <4>4. stop \in at
          BY <3>2, <4>3
        <4> QED
          BY <4>4
      <3> QED
        BY <3>1, <3>2
    <2> HIDE DEF stop
    <2>2. stop \in 1 .. Len(q.list) /\ stop - 1 \in 0 .. Len(q.list)
      BY <1>1, <2>1
    <2>3. q.list[stop] \in GoodBlock
      BY <1>1, <2>2, QueueContentType, ElementOfSeq
    <2>4. FindStr(q.list[stop], s) \in Nat
      BY <2>3, FindStrType
    <2>5. Len(Bytes(q.list, stop - 1)) \in Nat
      BY <1>1, <2>2, QueueContentType, LenProperties DEF Joined
    <2>6. QueueFindStr(q, s) = Len(Bytes(q.list, stop - 1)) + FindStr(q.list[stop], s)
      BY <1>2, <1>4
    <2> QED
      BY <2>4, <2>5, <2>6
  <1> QED
    BY <1>3, <1>4

(* FillQueue puts the bytes that it publishes.                              *)
LEMMA QueueFills ==
    ASSUME QueueInv, NEW size \in Expand, NEW data \in Strings, FillQueue(size, data)
    PROVE  Put(que, data, que')
  <1> DEFINE free == QueueGetFreeMemoryBlock(que, size)
  <1>1. size \in Nat /\ Placed(que)
    BY QueueAssumption DEF QueueInv
  <1>2. data \in Seq(Byte) /\ Len(data) \in 1 .. BuffLen(free, size)
        /\ que' = QueueMoveWritePt(Readv(free, data), Len(data))
    BY StringsAreSeqs DEF FillQueue
  <1>3. Appended(que, free)
    BY <1>1, FreeAppends
  <1> HIDE DEF free
  <1>4. Placed(free) /\ free.write # 0 /\ free \in QueueState
        /\ QueueContent(free) = QueueContent(que) /\ free.len = que.len
    BY <1>3 DEF Appended, Placed
  <1> DEFINE n == Len(data)
             B == BuffLen(free, size)
             F == FreeUpto(free, Len(free.list))
  <1>5. B \in 0 .. F
    BY <1>1, <1>4, BuffLenIsFree
  <1>6. n \in Nat /\ n \in 1 .. B
    BY <1>2, LenProperties
  <1>7. B \in Nat /\ B <= F
    <2> HIDE DEF B, F
    <2> QED
      BY <1>5
  <1>8. F \in Int
    BY <1>4, FreeSums DEF Summed
  <1>9. n <= F /\ n # 0
    <2> HIDE DEF B, F, n
    <2> QED
      BY <1>6, <1>7, <1>8
  <1>10. data # <<>>
    BY <1>9, EmptySeq
  <1>11. Put(free, data, que')
    BY <1>2, <1>4, <1>9, <1>10, FillPuts
  <1> QED
    BY <1>4, <1>11 DEF Put

(* Every step keeps the invariant and is a step of the first-in first-out    *)
(* queue, or leaves it alone.                                               *)
LEMMA QueueNextInv ==
    QueueInv /\ [QueueNext]_queueVars => QueueInv' /\ [QueueFifo!Next]_(QueueFifo!vars)
  <1> SUFFICES ASSUME QueueInv, [QueueNext]_queueVars
               PROVE  QueueInv' /\ [QueueFifo!Next]_(QueueFifo!vars)
    OBVIOUS
  <1>1. Placed(que)
    BY DEF QueueInv
  <1>2. Strings = QueueFifo!Strings
    BY DEF Strings, QueueFifo!Strings
  <1>3. ASSUME NEW data \in Strings, que.len + Len(data) <= MaxBytes,
               Put(que, data, que'), passed' = data, back' = back
        PROVE  QueueInv' /\ QueueFifo!Next
    <2>1. QueueInv' /\ QueueFifo!Put(1, data)
      BY <1>3, QueuePuts
    <2> QED
      BY <1>2, <2>1 DEF QueueFifo!Next
  <1>4. ASSUME NEW len \in 0 .. MaxArg, NEW stop \in BOOLEAN,
               que' = Drained(que, len, stop).q, passed' = Drained(que, len, stop).got,
               back' = back
        PROVE  QueueInv' /\ QueueFifo!Next
    <2>1. len \in Nat
      OBVIOUS
    <2>2. Taken(que, len, Drained(que, len, stop))
      BY <1>1, <2>1, DrainedTakes
    <2>3. QueueInv' /\ QueueFifo!Take(1, len)
      BY <1>4, <2>1, <2>2, QueueTakes
    <2> QED
      BY <2>3 DEF QueueFifo!Next
  <1>5. ASSUME NEW data \in Strings, WriteQueue(data)
        PROVE  QueueInv' /\ QueueFifo!Next
    BY <1>1, <1>3, <1>5, QueueWrites, StringsAreSeqs DEF WriteQueue
  <1>6. ASSUME NEW data \in Strings, NEW size \in Expand, FillQueue(size, data)
        PROVE  QueueInv' /\ QueueFifo!Next
    <2>1. Put(que, data, que')
      BY <1>6, QueueFills
    <2>2. que.len + Len(data) <= MaxBytes /\ passed' = data /\ back' = back
      BY <1>6 DEF FillQueue
    <2> QED
      BY <1>3, <2>1, <2>2
  <1>7. ASSUME NEW len \in 0 .. MaxArg, ReadQueue(len)
        PROVE  QueueInv' /\ QueueFifo!Next
    BY <1>4, <1>7 DEF ReadQueue, QueueRead
  <1>8. ASSUME NEW len \in 0 .. MaxArg, ReadQueueUntil(len)
        PROVE  QueueInv' /\ QueueFifo!Next
    BY <1>7, <1>8 DEF ReadQueueUntil
  <1>9. ASSUME NEW len \in 0 .. MaxArg, MoveReadQueue(len)
        PROVE  QueueInv' /\ QueueFifo!Next
    BY <1>4, <1>9 DEF MoveReadQueue, QueueMoveReadPt
  <1>10. ASSUME NEW len \in 0 .. MaxArg, NEW find \in Strings, ReadQueueUntilStr(len, find)
         PROVE  QueueInv' /\ QueueFifo!Next
    <2> DEFINE k == QueueFindStr(que, find)
    <2>1. k \in Nat
      BY <1>1, QueueFindStrType, StringsAreSeqs
    <2>2. k <= len /\ ReadQueue(k)
      BY <1>10 DEF ReadQueueUntilStr
    <2> HIDE DEF k
    <2>3. k \in 0 .. MaxArg
      BY <2>1, <2>2, MaxArgAssumption
    <2> QED
      BY <1>7, <2>2, <2>3
  <1>11. ASSUME ClearQueue PROVE QueueInv' /\ QueueFifo!Next
    BY <1>11, QueueClears DEF QueueFifo!Next
  <1>12. ASSUME NEW size \in Expand, FillNothing(size) PROVE QueueInv' /\ QueueFifo!Next
    <2>1. QueueInv' /\ QueueFifo!Retract(1, 1)
      BY <1>12, QueueRetracts
    <2>2. 1 \in 0 .. MaxArg
      BY MaxArgAssumption
    <2> QED
      BY <2>1, <2>2 DEF QueueFifo!Next
  <1>13. ASSUME NEW size \in Expand, FillFails(size) PROVE QueueInv' /\ QueueFifo!Next
    <2>1. QueueInv' /\ QueueFifo!Retract(1, 0)
      BY <1>13, QueueStays
    <2>2. 0 \in 0 .. MaxArg
      BY MaxArgAssumption
    <2> QED
      BY <2>1, <2>2 DEF QueueFifo!Next
  <1>14. ASSUME UNCHANGED queueVars PROVE QueueInv' /\ UNCHANGED QueueFifo!vars
    <2>1. que' = que /\ passed' = passed /\ back' = back
      BY <1>14 DEF queueVars
    <2>2. QueueContent(que') = QueueContent(que)
      BY <2>1
    <2> QED
      BY <2>1, <2>2 DEF QueueInv, QueueFifo!vars
  <1> QED
    BY <1>5, <1>6, <1>7, <1>8, <1>9, <1>10, <1>11, <1>12, <1>13, <1>14 DEF QueueNext

(* What GetUseMemoryBlock shows is a prefix, and long enough.               *)
LEMMA UseIsPrefix ==
    ASSUME NEW q, Placed(q), NEW max \in Nat
    PROVE  LET all == QueueContent(q)
               use == QueueGetUseMemoryBlock(q, max)
           IN  /\ Bytes(q.list, q.write) = all
               /\ use = SubSeq(all, 1, Len(use))
               /\ max = 0 => use = all
               /\ max > 0 => Len(use) >= Least(max, Len(all))
  <1> DEFINE all == QueueContent(q)
             use == QueueGetUseMemoryBlock(q, max)
             n == Len(q.list)
  <1>1. /\ q.list \in Seq(GoodBlock) /\ n \in Nat /\ all \in Seq(Byte) /\ all = Bytes(q.list, n)
        /\ q.write \in 0 .. n /\ Joined(q.list)
    BY QueueContentType DEF Placed
  <1>2. Bytes(q.list, q.write) = all
    <2>1. n \in q.write .. n
      BY <1>1
    <2>2. \A i \in q.write + 1 .. n : Content(q.list[i]) = <<>>
      BY DEF Placed
    <2>3. Bytes(q.list, n) = Bytes(q.list, q.write)
      BY <1>1, <2>1, <2>2, NoBytes
    <2> QED
      BY <1>1, <2>3
  <1>3. Shows(q, max, use)
    BY UseShows
  <1> HIDE DEF use, all
  <1>4. PICK j \in 0 .. q.write :
            use = Bytes(q.list, j) /\ (j = q.write \/ (max > 0 /\ Len(use) >= max))
    BY <1>3 DEF Shows
  <1>5. j \in 0 .. n /\ q.write \in j .. n
    BY <1>1, <1>4
  <1>6. PICK s \in Seq(Byte) : Bytes(q.list, q.write) = Bytes(q.list, j) \o s
    BY <1>1, <1>5, PrefixBytes
  <1>7. use \in Seq(Byte) /\ all = use \o s
    BY <1>1, <1>2, <1>4, <1>5, <1>6 DEF Joined
  <1>8. use = SubSeq(all, 1, Len(use))
    BY <1>7, SplitConcat
  <1>9. max = 0 => use = all
    BY <1>2, <1>4
  <1>10. max > 0 => Len(use) >= Least(max, Len(all))
    <2> DEFINE u == Len(use)
               a == Len(all)
    <2>1. u \in Nat /\ a \in Nat
      BY <1>1, <1>7, LenProperties
    <2>2. u = a \/ u >= max
      BY <1>2, <1>4
    <2> HIDE DEF u, a
    <2>3. u >= Least(max, a)
      BY <2>1, <2>2 DEF Least
    <2> QED
      BY <2>3 DEF u, a
  <1> QED
    BY <1>2, <1>8, <1>9, <1>10 DEF use, all

(* The invariant implies that the views agree.                              *)
LEMMA QueueInvViews == QueueInv => ViewsAgree
  <1> SUFFICES ASSUME QueueInv PROVE ViewsAgree
    OBVIOUS
  <1> DEFINE all == QueueContent(que)
  <1>1. Placed(que) /\ que.len = Len(all) + 2 * back /\ que.len <= MaxBytes /\ back \in Nat
    BY DEF QueueInv
  <1>2. /\ que.list \in Seq(GoodBlock) /\ all \in Seq(Byte) /\ Len(all) \in Nat
        /\ que.write \in 0 .. Len(que.list)
    BY <1>1, QueueContentType, LenProperties DEF Placed
  <1>3. QueueTypeOK
    <2>1. GoodBlock \subseteq Block
      BY DEF GoodBlock
    <2>2. que.list \in Seq(Block)
      BY <1>2, <2>1, SeqMonotonic
    <2>3. que.len \in 0 .. MaxBytes
      <3> DEFINE a == Len(all)
      <3>1. a \in Nat /\ que.len = a + 2 * back /\ que.len <= MaxBytes /\ back \in Nat
        BY <1>1, <1>2
      <3> HIDE DEF a
      <3> QED
        BY <3>1, QueueAssumption
    <2> QED
      BY <1>1, <1>2, <2>2, <2>3 DEF QueueTypeOK
  <1>4. QueueGetUseMemoryBlock(que, 0) = all
    BY <1>1, UseIsPrefix
  <1>5. ASSUME NEW len \in 0 .. MaxArg
        PROVE  LET use == QueueGetUseMemoryBlock(que, len)
               IN  /\ ReadNotMovePt(que, len) = SubSeq(all, 1, Least(len, Len(all)))
                   /\ use = SubSeq(all, 1, Len(use))
                   /\ len > 0 => Len(use) >= Least(len, Len(all))
    <2>1. len \in Nat
      OBVIOUS
    <2>2. Bytes(que.list, que.write) = all
      BY <1>1, <2>1, UseIsPrefix
    <2>3. ReadNotMovePt(que, len) = SubSeq(all, 1, Least(len, Len(all)))
      BY <2>2 DEF ReadNotMovePt
    <2> QED
      BY <1>1, <2>1, <2>3, UseIsPrefix
  <1> QED
    BY <1>1, <1>3, <1>4, <1>5 DEF ViewsAgree

(* Every way to look at the unread bytes of a BufferQueue shows the same     *)
(* ones, and the counted _can_read_length is their number and two for every   *)
(* byte that MoveWritePt(-1) took back, for blocks, bytes and arguments of    *)
(* every size.                                                              *)
THEOREM QueueViewsAgree == QueueSpec => []ViewsAgree
  <1>1. QueueInit => QueueInv
    BY QueueInitInv
  <1>2. QueueInv /\ [QueueNext]_queueVars => QueueInv'
    BY QueueNextInv
  <1>3. QueueInv => ViewsAgree
    BY QueueInvViews
  <1> QED
    BY <1>1, <1>2, <1>3, PTL DEF QueueSpec

(* A BufferQueue is one first-in first-out queue of bytes, whatever blocks   *)
(* the calls of Write, Read, MoveReadPt, Recv and Clear meet: Recv without    *)
(* data drops the newest byte, Clear drops all, and no other byte is lost.   *)
THEOREM QueuesAreFifos == QueueSpec => QueueIsFifo
  <1>1. QueueInit => QueueInv /\ QueueFifo!Init
    BY QueueInitInv
  <1>2. QueueInv /\ [QueueNext]_queueVars => QueueInv' /\ [QueueFifo!Next]_(QueueFifo!vars)
    BY QueueNextInv
  <1> QED
    BY <1>1, <1>2, PTL DEF QueueSpec, QueueIsFifo, QueueFifo!Spec

=============================================================================
