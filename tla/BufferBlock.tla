----------------------------- MODULE BufferBlock -----------------------------
(***************************************************************************)
(* Buffer blocks under every sequence of the calls of InnerBuffer that       *)
(* BufferBlock implements (common/buffer/buffer_block.cpp).  A block belongs *)
(* to one socket and is used by one thread, so each call is one step.        *)
(***************************************************************************)
EXTENDS BlockOps

CONSTANT Blocks    \* the blocks in use

VARIABLES
    blk,       \* blk[x]: the members of block x
    io         \* the bytes given to the last Write or readv, or copied out by
               \* the last Read; none after any other call

vars == <<blk, io>>

Init == /\ \E m \in [Blocks -> [Cells -> Byte]] :
               blk = [x \in Blocks |-> NewBlock(m[x])]
        /\ io = <<>>

(* Write(data, len)                                                         *)
WriteData(x, data) ==
    /\ blk' = [blk EXCEPT ![x] = Write(@, data)]
    /\ io' = data

(* Read(res, len)                                                           *)
ReadData(x, len) ==
    /\ io' = ReadBytes(blk[x], len)
    /\ blk' = [blk EXCEPT ![x] = MoveReadPt(@, len)]

(* ReadUntil(res, len): reads only when len bytes are there.                *)
ReadUntilLen(x, len) ==
    /\ GetCanReadLength(blk[x]) >= len
    /\ ReadData(x, len)

(* ReadUntil(res, len, find, ...): reads when the string is there and its   *)
(* end lies within len bytes.                                               *)
ReadUntilStr(x, len, find) ==
    /\ FindStr(blk[x], find) > 0
    /\ FindStr(blk[x], find) <= len
    /\ ReadData(x, len)

(* MoveReadPt(len), forward and backward.                                   *)
MoveRead(x, len) ==
    /\ blk' = [blk EXCEPT ![x] = MoveReadPt(@, len)]
    /\ io' = IF len > 0 THEN ReadBytes(blk[x], len) ELSE <<>>

(* MoveWritePt(len), backward.                                              *)
MoveWriteBack(x, len) ==
    /\ blk' = [blk EXCEPT ![x] = MoveWritePt(@, -len)]
    /\ io' = <<>>

(* What RWSocket::Recv does to a block: readv fills the free segments in    *)
(* order with the bytes that arrived, MoveWritePt publishes them.           *)
FillFree(x, data) ==
    /\ Len(data) > 0
    /\ Len(data) <= Len(FreeCells(blk[x]))
    /\ blk' = [blk EXCEPT ![x] = Fill(@, data)]
    /\ io' = data

(* x->Read(y, len): returns at once when x is empty.                        *)
ReadInto(x, y, len) ==
    /\ blk[x].can_read \/ blk[x].read # blk[x].write
    /\ blk' = [blk EXCEPT ![x] = TransferSrc(blk[x], blk[y], len),
                          ![y] = TransferDst(blk[x], blk[y], len)]
    /\ io' = <<>>

(* y->Write(x, len)                                                         *)
WriteFrom(x, y, len) ==
    /\ blk' = [blk EXCEPT
                  ![x] = TransferSrc(blk[x], ResetIfEmpty(blk[y]), len),
                  ![y] = TransferDst(blk[x], ResetIfEmpty(blk[y]), len)]
    /\ io' = <<>>

ClearBlock(x) ==
    /\ blk' = [blk EXCEPT ![x] = Clear(@)]
    /\ io' = <<>>

Next ==
    \E x \in Blocks :
        \/ \E data \in Strings : WriteData(x, data) \/ FillFree(x, data)
        \/ \E len \in 0 .. MaxArg :
              \/ ReadData(x, len)
              \/ ReadUntilLen(x, len)
              \/ MoveWriteBack(x, len)
              \/ \E find \in Strings \ {<<>>} : ReadUntilStr(x, len, find)
        \/ \E len \in -MaxArg .. MaxArg : MoveRead(x, len)
        \/ \E y \in Blocks \ {x}, len \in 0 .. MaxArg :
              ReadInto(x, y, len) \/ WriteFrom(x, y, len)
        \/ ClearBlock(x)

Spec == Init /\ [][Next]_vars

-----------------------------------------------------------------------------
(* Type correctness: both pointers stay inside [_buffer_start, _buffer_end]. *)
TypeOK == /\ blk \in [Blocks -> Block]
          /\ io \in Seq(Byte)

(* An empty block is always back at its start, and the two positions that    *)
(* denote the same cell, offset 0 and _buffer_end, are never held by the two *)
(* pointers at once: otherwise GetCanReadLength would take a full block for  *)
(* an empty one or the reverse.                                             *)
PointersAgree(b) ==
    /\ ~(b.read = 0 /\ b.write = BlockLen)
    /\ ~(b.read = BlockLen /\ b.write = 0)
    /\ b.read = b.write /\ ~b.can_read => b.read = 0

PointersOK == \A x \in Blocks : PointersAgree(blk[x])

(* The bytes GetUseMemoryBlock hands to writev are the readable bytes in     *)
(* order, and the segments of GetFreeMemoryBlock are exactly the other cells. *)
SegmentsOK ==
    \A x \in Blocks :
        LET b    == blk[x]
            use  == GetUseMemoryBlock(b)
            free == GetFreeMemoryBlock(b)
        IN  /\ Gather(b, use[1]) \o Gather(b, use[2]) = Content(b)
            /\ Len(free[1] \o free[2]) = GetCanWriteLength(b)
            /\ {(use[1] \o use[2])[i] : i \in 1 .. GetCanReadLength(b)}
                 \cap {(free[1] \o free[2])[i] : i \in 1 .. GetCanWriteLength(b)}
                 = {}

(* Where s ends in the unread bytes, if it does not lie across the wrap.     *)
Ends(b, s) ==
    LET cut == Len(GetUseMemoryBlock(b)[1])
    IN  {e \in Len(s) .. GetCanReadLength(b) :
            /\ SubSeq(Content(b), e - Len(s) + 1, e) = s
            /\ e <= cut \/ cut <= e - Len(s)}

(* What FindStr reports wherever the block wraps: the end of the first        *)
(* occurrence that does not lie across the wrap, and 0 exactly if there is   *)
(* none.  It is the length that ReadUntil has to read.                      *)
FoundIsThere ==
    \A x \in Blocks : \A s \in Strings \ {<<>>} :
        LET k    == FindStr(blk[x], s)
            ends == Ends(blk[x], s)
        IN  IF ends = {} THEN k = 0 ELSE k \in ends /\ \A e \in ends : k <= e

(* What the code does not do: report the index of the beginning of the        *)
(* string, as api.md and api_cn.md say of FindStr, and find a string that     *)
(* lies across the wrap.                                                    *)
FoundIsBeginning ==
    \A x \in Blocks : \A s \in Strings \ {<<>>} :
        LET k == FindStr(blk[x], s)
        IN  k > 0 => /\ k + Len(s) <= GetCanReadLength(blk[x])
                     /\ SubSeq(Content(blk[x]), k + 1, k + Len(s)) = s

FoundIfThere ==
    \A x \in Blocks : \A s \in Strings \ {<<>>} :
        (\E e \in Len(s) .. GetCanReadLength(blk[x]) :
            SubSeq(Content(blk[x]), e - Len(s) + 1, e) = s)
        => FindStr(blk[x], s) > 0

(* Blocks are bounded first-in first-out queues: no call loses, repeats,     *)
(* reorders or invents a byte.                                              *)
Fifo == INSTANCE BoundedFifo
            WITH fifo <- [x \in Blocks |-> Content(blk[x])],
                 Capacity <- BlockLen

IsFifo == Fifo!Spec

=============================================================================
