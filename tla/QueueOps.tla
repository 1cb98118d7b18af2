------------------------------- MODULE QueueOps -------------------------------
(***************************************************************************)
(* The operations of BufferQueue (common/buffer/buffer_queue.cpp), the read   *)
(* or write buffer of a socket, as operators on a record:                   *)
(*   list   _buffer_list, the blocks from head to tail (structure/list.h)    *)
(*   write  the place of _buffer_write in the list, 0 when it is null        *)
(*   len    _can_read_length                                                *)
(* A block is a record of BlockOps.  An operation that blocks have too is     *)
(* named with the prefix Queue.  A loop over the blocks is a recursive        *)
(* function of the number of rounds.                                        *)
(***************************************************************************)
EXTENDS BlockOps

NewQueue == [list |-> <<>>, write |-> 0, len |-> 0]

(* The memory of a new block has any contents.  What a block delivers does    *)
(* not depend on them (BlocksAreFifos), so one is enough.                   *)
FreshBlock == NewBlock([c \in Cells |-> CHOOSE b \in Byte : TRUE])

Reset(q) == [list |-> <<>>, write |-> 0, len |-> q.len]

AppendBlock(q) ==
    [list |-> Append(q.list, FreshBlock),
     write |-> IF q.write = 0 THEN Len(q.list) + 1 ELSE q.write, len |-> q.len]

ClearKeepLen(q) == Reset(q)

QueueClear(q) == [Reset(q) EXCEPT !.len = 0]

(* The unread bytes of the first n blocks, and of all.                      *)
Bytes(list, n) ==
    LET Upto[i \in 0 .. Len(list)] ==
            IF i = 0 THEN <<>> ELSE Upto[i - 1] \o Content(list[i])
    IN  Upto[n]

QueueContent(q) == Bytes(q.list, Len(q.list))

-----------------------------------------------------------------------------
(* Reading.                                                                 *)

(* The head block is done with: it is popped, _buffer_write moves on when it  *)
(* was there, and a list of one block is reset.                             *)
PopHead(q) ==
    IF Len(q.list) = 1 THEN Reset(q)
    ELSE [list |-> Tail(q.list), write |-> IF q.write = 1 THEN 1 ELSE q.write - 1,
          len |-> q.len]

(* A round of the loops of Read(res, len) and MoveReadPt(len) with len >= 0.   *)
(* Only Read stops at a block that holds nothing.  c collects the queue and   *)
(* the bytes, and knows whether the loop goes on.                           *)
DrainHead(c, len, stop) ==
    LET left == len - Len(c.got)
        b    == c.q.list[1]
        q    == [c.q EXCEPT !.list[1] = MoveReadPt(b, left)]
        got  == c.got \o ReadBytes(b, left)
        rest == PopHead(q)
    IN  IF ~c.more THEN c
        ELSE IF Len(got) >= len THEN [q |-> q, got |-> got, more |-> FALSE]
        ELSE [q |-> rest, got |-> got,
              more |-> /\ rest.list # <<>>
                       /\ stop => GetCanReadLength(rest.list[1]) > 0]

Drained(q, len, stop) ==
    LET Loop[k \in 0 .. Len(q.list)] ==
            IF k = 0 THEN [q |-> q, got |-> <<>>, more |-> q.list # <<>>]
            ELSE DrainHead(Loop[k - 1], len, stop)
        c == Loop[Len(q.list)]
    IN  [q |-> [c.q EXCEPT !.len = @ - Len(c.got)], got |-> c.got]

QueueRead(q, len) == Drained(q, len, TRUE)

QueueMoveReadPt(q, len) == Drained(q, len, FALSE)

(* ReadNotMovePt(res, len) and GetUseMemoryBlock(vec, max): the bytes of the   *)
(* blocks up to _buffer_write, at most len, or block by block until max is   *)
(* reached (0 is no limit).                                                 *)
ReadNotMovePt(q, len) ==
    LET all == Bytes(q.list, q.write)
    IN  SubSeq(all, 1, Least(len, Len(all)))

QueueGetUseMemoryBlock(q, max) ==
    LET Upto[i \in 0 .. q.write] ==
            IF i = 0 THEN <<>>
            ELSE IF max > 0 /\ Len(Upto[i - 1]) >= max THEN Upto[i - 1]
            ELSE Upto[i - 1] \o Content(q.list[i])
    IN  Upto[q.write]

(* FindStr(s): the length found in the first block that has the string, on    *)
(* top of the lengths of the blocks before it.                              *)
QueueFindStr(q, s) ==
    LET at   == {i \in 1 .. q.write : FindStr(q.list[i], s) > 0}
        stop == IF at = {} THEN q.write ELSE CHOOSE i \in at : \A j \in at : i <= j
    IN  IF q.list = <<>> THEN 0
        ELSE Len(Bytes(q.list, stop - 1)) + FindStr(q.list[stop], s)

-----------------------------------------------------------------------------
(* Writing.                                                                 *)

(* The block behind _buffer_write, a new one at the end.                    *)
NextBlock(q) ==
    IF q.write = Len(q.list) THEN AppendBlock([q EXCEPT !.write = 0])
    ELSE [q EXCEPT !.write = @ + 1]

(* A round of Write(str, len), which goes from block to block.              *)
WriteBlock(c) ==
    LET b   == c.q.list[c.q.write]
        n   == WriteLen(b, c.rest)
        out == [c.q EXCEPT !.list[c.q.write] = Write(b, c.rest)]
    IN  IF c.rest = <<>> THEN c
        ELSE [q |-> IF n < Len(c.rest) THEN NextBlock(out) ELSE out,
              rest |-> SubSeq(c.rest, n + 1, Len(c.rest))]

(* Only the block at _buffer_write can be full, the ones behind it are empty,  *)
(* so that a round for each byte and one more are enough.                   *)
QueueWrite(q, data) ==
    LET start == IF q.write = 0 THEN AppendBlock(q) ELSE q
        Loop[k \in 0 .. Len(data) + 1] ==
            IF k = 0 THEN [q |-> start, rest |-> data] ELSE WriteBlock(Loop[k - 1])
    IN  IF data = <<>> THEN q
        ELSE [Loop[Len(data) + 1].q EXCEPT !.len = @ + Len(data)]

(* The free bytes of the first n blocks, counted from _buffer_write on.       *)
FreeUpto(q, n) ==
    LET Sum[i \in 0 .. Len(q.list)] ==
            IF i = 0 \/ i < q.write THEN 0 ELSE Sum[i - 1] + GetCanWriteLength(q.list[i])
    IN  Sum[n]

(* GetFreeMemoryBlock(vec, size): blocks are appended until size bytes are    *)
(* free from _buffer_write on; for size 0 there is at least a block.         *)
QueueGetFreeMemoryBlock(q, size) ==
    LET Short(r) == r.write = 0 \/ FreeUpto(r, Len(r.list)) < size
        Loop[k \in 0 .. size + 1] ==
            IF k = 0 THEN q
            ELSE IF Short(Loop[k - 1]) THEN AppendBlock(Loop[k - 1]) ELSE Loop[k - 1]
    IN  Loop[size + 1]

(* The length it returns: for a size, whole blocks until it is reached; all   *)
(* blocks for size 0.                                                       *)
BuffLen(q, size) ==
    LET Sum[i \in 0 .. Len(q.list)] ==
            IF i = 0 \/ i < q.write THEN 0
            ELSE IF size > 0 /\ Sum[i - 1] >= size THEN Sum[i - 1]
            ELSE Sum[i - 1] + GetCanWriteLength(q.list[i])
    IN  Sum[Len(q.list)]

(* readv fills the free cells in order.  External.                          *)
PartOf(q, data, i) ==
    SubSeq(data, FreeUpto(q, i - 1) + 1, Least(Len(data), FreeUpto(q, i)))

Readv(q, data) ==
    [q EXCEPT !.list =
        [i \in 1 .. Len(q.list) |->
            IF i < q.write THEN q.list[i]
            ELSE [q.list[i] EXCEPT
                     !.mem = Scatter(@, FreeCells(q.list[i]), PartOf(q, data, i))]]]

(* A round of MoveWritePt(len), forward over the blocks and backward over     *)
(* them.  The length moved is added to _can_read_length in both directions.  *)
ForwardBlock(c) ==
    LET b    == c.q.list[c.q.write]
        n    == MoveWritePtLen(b, c.left)
        last == c.q.write = Len(c.q.list) \/ c.left <= n
        out  == [list |-> [c.q.list EXCEPT ![c.q.write] = MoveWritePt(b, c.left)],
                 write |-> IF last THEN c.q.write ELSE c.q.write + 1, len |-> c.q.len + n]
    IN  IF ~c.more THEN c ELSE [q |-> out, left |-> c.left - n, more |-> ~last]

BackBlock(c) ==
    LET b    == c.q.list[c.q.write]
        n    == MoveWritePtLen(b, -c.left)
        last == c.q.write = 1 \/ c.left <= n
        out  == [list |-> [c.q.list EXCEPT ![c.q.write] = MoveWritePt(b, -c.left)],
                 write |-> IF last THEN c.q.write ELSE c.q.write - 1, len |-> c.q.len + n]
    IN  IF ~c.more THEN c ELSE [q |-> out, left |-> c.left - n, more |-> ~last]

MoveWriteOne(q, len) ==
    LET b == q.list[q.write]
    IN  [q EXCEPT !.list[q.write] = MoveWritePt(b, len), !.len = @ + MoveWritePtLen(b, len)]

QueueMoveWritePt(q, len) ==
    LET Loop[k \in 0 .. Len(q.list)] ==
            IF k = 0 THEN [q |-> q, left |-> IF len >= 0 THEN len ELSE -len, more |-> q.write > 0]
            ELSE IF len >= 0 THEN ForwardBlock(Loop[k - 1]) ELSE BackBlock(Loop[k - 1])
    IN  Loop[Len(q.list)].q

=============================================================================
