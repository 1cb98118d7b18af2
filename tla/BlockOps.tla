------------------------------- MODULE BlockOps -------------------------------
(***************************************************************************)
(* The operations of BufferBlock (common/buffer/buffer_block.cpp), one      *)
(* fixed-size memory block used as a ring, as operators on a record.        *)
(*                                                                          *)
(* The pointers _read and _write are offsets from _buffer_start; both may   *)
(* stand at _buffer_end, which is the offset BlockLen and not the same      *)
(* position as offset 0.  can_read tells a full block from an empty one     *)
(* when the two pointers are equal.  A byte is a member of Byte.            *)
(***************************************************************************)
EXTENDS Integers, Sequences

CONSTANTS
    BlockLen,  \* _total_size, the block length of the BlockMemoryPool
    Byte,      \* the values of one memory cell
    MaxArg     \* bound on the length of an argument of a call

ASSUME BlockLenAssumption == BlockLen \in Nat \ {0}
ASSUME ByteAssumption == Byte # {}
ASSUME MaxArgAssumption == MaxArg \in Nat \ {0}

Cells == 0 .. BlockLen - 1

(* The strings of bytes that a call is given.                               *)
Strings == UNION {[1 .. n -> Byte] : n \in 0 .. MaxArg}

(* The smaller of two lengths.                                              *)
Least(a, b) == IF a <= b THEN a ELSE b

(* Every value of the members of a BufferBlock.                             *)
Block == [read : 0 .. BlockLen, write : 0 .. BlockLen, can_read : BOOLEAN,
          mem : [Cells -> Byte]]

(* The constructor: PoolLargeMalloc returns memory with any contents.       *)
NewBlock(m) == [read |-> 0, write |-> 0, can_read |-> FALSE, mem |-> m]

-----------------------------------------------------------------------------
(* GetCanReadLength and GetCanWriteLength.                                  *)

GetCanReadLength(b) ==
    IF b.write > b.read THEN b.write - b.read
    ELSE IF b.write < b.read THEN (BlockLen - b.read) + b.write
    ELSE IF b.can_read THEN BlockLen ELSE 0

GetCanWriteLength(b) ==
    IF b.write > b.read THEN (BlockLen - b.write) + b.read
    ELSE IF b.write < b.read THEN b.read - b.write
    ELSE IF b.can_read THEN 0 ELSE BlockLen

(* Steps of a pointer over the end of the memory.  The code writes the      *)
(* unwrapped and the wrapped case of each pointer move separately; in the   *)
(* unwrapped case the move never reaches the end, so both are one formula.  *)
Forward(p, n) == IF n <= BlockLen - p THEN p + n ELSE n - (BlockLen - p)
Backward(p, n) == IF n <= p THEN p - n ELSE BlockLen - (n - p)

(* The block b with its pointers at r and w and _can_read set to c.         *)
At(b, r, w, c) == [read |-> r, write |-> w, can_read |-> c, mem |-> b.mem]

ClearInPlace(b) == At(b, b.write, b.write, FALSE)
Clear(b) == At(b, 0, 0, FALSE)

-----------------------------------------------------------------------------
(* MoveReadPt(len): forward drops unread bytes, backward makes bytes before *)
(* the read pointer readable again.  The length returned is never negative. *)

MoveReadPtLen(b, len) ==
    IF len > 0 THEN Least(len, GetCanReadLength(b))
               ELSE Least(-len, GetCanWriteLength(b))

MoveReadPt(b, len) ==
    IF len > 0
    THEN CASE GetCanReadLength(b) = 0 -> b
           [] 0 < GetCanReadLength(b) /\ GetCanReadLength(b) <= len -> Clear(b)
           [] OTHER -> At(b, Forward(b.read, len), b.write, b.can_read)
    ELSE CASE GetCanWriteLength(b) = 0 -> b
           [] 0 < GetCanWriteLength(b) /\ GetCanWriteLength(b) <= -len ->
                At(b, b.write, b.write, TRUE)
           [] OTHER -> At(b, Backward(b.read, -len), b.write, b.can_read)

(* MoveWritePt(len): forward publishes bytes already placed in the free     *)
(* memory, backward takes back the bytes written last.                      *)

MoveWritePtLen(b, len) ==
    IF len > 0 THEN Least(len, GetCanWriteLength(b))
               ELSE Least(-len, GetCanReadLength(b))

MoveWritePt(b, len) ==
    IF len > 0
    THEN CASE GetCanWriteLength(b) = 0 -> b
           [] 0 < GetCanWriteLength(b) /\ GetCanWriteLength(b) <= len ->
                At(b, b.read, b.read, TRUE)
           [] OTHER -> At(b, b.read, Forward(b.write, len), b.can_read)
    ELSE CASE GetCanReadLength(b) = 0 -> b
           [] 0 < GetCanReadLength(b) /\ GetCanReadLength(b) <= -len -> Clear(b)
           [] OTHER -> At(b, b.read, Backward(b.write, -len), b.can_read)

-----------------------------------------------------------------------------
(* Data.                                                                    *)

(* GetUseMemoryBlock: the one or two memory segments that hold the unread   *)
(* bytes, as sequences of cells in the order they are handed to writev.     *)
Segment(from, len) == [i \in 1 .. len |-> from + i - 1]

GetUseMemoryBlock(b) ==
    IF b.read >= b.write
    THEN IF ~b.can_read /\ b.write = b.read
         THEN << <<>>, <<>> >>
         ELSE << Segment(b.read, BlockLen - b.read), Segment(0, b.write) >>
    ELSE << Segment(b.read, b.write - b.read), <<>> >>

(* GetFreeMemoryBlock: the segments that readv may fill, in that order.     *)
FreeMemoryOfAny(b) ==
    IF b.write >= b.read
    THEN << Segment(b.write, BlockLen - b.write), Segment(0, b.read) >>
    ELSE << Segment(b.write, b.read - b.write), <<>> >>

GetFreeMemoryBlock(b) ==
    IF b.write >= b.read
    THEN IF b.can_read /\ b.write = b.read
         THEN << <<>>, <<>> >>
         ELSE << Segment(b.write, BlockLen - b.write), Segment(0, b.read) >>
    ELSE << Segment(b.write, b.read - b.write), <<>> >>

(* The kernel's readv: bytes fill the given cells in order.  External.      *)
Scatter(m, cells, data) ==
    [c \in Cells |->
        IF \E i \in 1 .. Len(data) : cells[i] = c
        THEN data[CHOOSE i \in 1 .. Len(data) : cells[i] = c]
        ELSE m[c]]

(* GetFreeMemoryBlock, readv, MoveWritePt: how RWSocket::Recv fills a block. *)
FreeCells(b) == GetFreeMemoryBlock(b)[1] \o GetFreeMemoryBlock(b)[2]

Fill(b, data) ==
    MoveWritePt([read |-> b.read, write |-> b.write, can_read |-> b.can_read,
                 mem |-> Scatter(b.mem, FreeCells(b), data)], Len(data))

(* _Write: copies as much of data as there is room for, from the write      *)
(* pointer on and around the end, and moves the write pointer behind it.    *)
WriteLen(b, data) == Least(Len(data), GetCanWriteLength(b))

(* The cell that is i cells behind the pointer p.                           *)
CellAt(p, i) == IF p + i < BlockLen THEN p + i ELSE p + i - BlockLen

(* The distance from the pointer p forward to the cell c.                   *)
Behind(p, c) == IF c >= p THEN c - p ELSE c - p + BlockLen

Store(b, data, n) ==
    [c \in Cells |-> IF Behind(b.write, c) < n
                     THEN data[Behind(b.write, c) + 1] ELSE b.mem[c]]

Write(b, data) ==
    [read     |-> b.read,
     write    |-> IF WriteLen(b, data) = GetCanWriteLength(b)
                  THEN b.read ELSE Forward(b.write, WriteLen(b, data)),
     can_read |-> IF WriteLen(b, data) = GetCanWriteLength(b)
                  THEN TRUE ELSE b.can_read,
     mem      |-> Store(b, data, WriteLen(b, data))]

(* The readable bytes in order: what _Read(res, len, false) copies.         *)
Content(b) == [i \in 1 .. GetCanReadLength(b) |-> b.mem[CellAt(b.read, i - 1)]]

(* _Read(res, len, true): the bytes copied out; the pointer then moves as   *)
(* MoveReadPt(len) moves it.                                                *)
ReadBytes(b, len) == SubSeq(Content(b), 1, Least(len, GetCanReadLength(b)))

(* The bytes that lie in a segment of the memory.                           *)
Gather(b, cells) == [i \in 1 .. Len(cells) |-> b.mem[cells[i]]]

-----------------------------------------------------------------------------
(* Read(buffer, len) and Write(buffer, len) of two blocks: the unread       *)
(* segments of src go into dst by one write each, then src gives up as many *)
(* bytes as dst took.  len = 0 asks for everything.                         *)

TransferWant(src, len) ==
    IF len = 0 THEN GetCanReadLength(src) ELSE Least(len, GetCanReadLength(src))

FirstPart(src, len) ==
    LET seg == GetUseMemoryBlock(src)[1]
    IN  Gather(src, SubSeq(seg, 1, Least(TransferWant(src, len), Len(seg))))

SecondPart(src, len) ==
    LET seg == GetUseMemoryBlock(src)
    IN  IF TransferWant(src, len) >= Len(seg[1])
        THEN Gather(src, SubSeq(seg[2], 1, TransferWant(src, len) - Len(seg[1])))
        ELSE <<>>

(* Write(buffer, len) first returns an empty block to its start.            *)
ResetIfEmpty(b) ==
    IF ~b.can_read /\ b.read = b.write THEN At(b, 0, 0, b.can_read) ELSE b

TransferLen(src, dst, len) ==
    WriteLen(dst, FirstPart(src, len))
      + WriteLen(Write(dst, FirstPart(src, len)), SecondPart(src, len))

TransferDst(src, dst, len) ==
    Write(Write(dst, FirstPart(src, len)), SecondPart(src, len))

TransferSrcAll(src, dst, len) == MoveReadPt(src, TransferWant(src, len))

TransferSrc(src, dst, len) == MoveReadPt(src, TransferLen(src, dst, len))

-----------------------------------------------------------------------------
(* _FindStrInMem: the offset of the first occurrence of s in a sequence of  *)
(* bytes, counted from 0, or -1.                                            *)
FindInMem(bytes, s) ==
    LET at == {i \in 0 .. Len(bytes) - Len(s) :
                  SubSeq(bytes, i + 1, i + Len(s)) = s}
    IN  IF at = {} THEN -1 ELSE CHOOSE i \in at : \A j \in at : i <= j

(* FindStr: the number of bytes up to and including the string, 0 if it is  *)
(* not found.  Each memory segment is searched by itself.                   *)
FindStrInPart(b, s) ==
    LET seg == GetUseMemoryBlock(b)
        in1 == FindInMem(Gather(b, seg[1]), s)
        in2 == FindInMem(Gather(b, seg[2]), s)
    IN  CASE in1 >= 0 -> in1 + Len(s)
          [] in1 < 0 /\ in2 >= 0 -> in2 + Len(s)
          [] OTHER -> 0

FindStr(b, s) ==
    LET seg == GetUseMemoryBlock(b)
        in1 == FindInMem(Gather(b, seg[1]), s)
        in2 == FindInMem(Gather(b, seg[2]), s)
    IN  CASE in1 >= 0 -> in1 + Len(s)
          [] in1 < 0 /\ in2 >= 0 -> in2 + Len(s) + Len(seg[1])
          [] OTHER -> 0

=============================================================================
