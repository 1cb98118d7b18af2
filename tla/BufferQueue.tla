----------------------------- MODULE BufferQueue -----------------------------
(***************************************************************************)
(* A BufferQueue under every sequence of the calls that a socket and the     *)
(* callbacks of the program make on it.  It is used by one thread, so each   *)
(* call is one step.                                                        *)
(***************************************************************************)
EXTENDS QueueOps

CONSTANTS
    MaxBytes,  \* bound on the bytes in the queue
    Expand     \* the sizes GetFreeMemoryBlock is called with

ASSUME QueueAssumption == MaxBytes \in Nat /\ Expand \subseteq Nat

VARIABLES
    que,       \* the queue
    passed,    \* the bytes given to or delivered by the last call
    back       \* the bytes that Recv has taken back since the last Clear

queueVars == <<que, passed, back>>

QueueInit == que = NewQueue /\ passed = <<>> /\ back = 0

(* Write(str, len)                                                          *)
WriteQueue(data) ==
    /\ que.len + Len(data) <= MaxBytes
    /\ que' = QueueWrite(que, data)
    /\ passed' = data
    /\ UNCHANGED back

(* Read(res, len): nothing is read for len 0.                               *)
ReadQueue(len) ==
    /\ len > 0
    /\ que' = QueueRead(que, len).q
    /\ passed' = QueueRead(que, len).got
    /\ UNCHANGED back

(* ReadUntil(res, len)                                                      *)
ReadQueueUntil(len) ==
    /\ que.len >= len
    /\ ReadQueue(len)

(* ReadUntil(res, len, find, ...)                                           *)
ReadQueueUntilStr(len, find) ==
    /\ QueueFindStr(que, find) > 0
    /\ QueueFindStr(que, find) <= len
    /\ ReadQueue(QueueFindStr(que, find))

(* MoveReadPt(len), forward: also what RWSocket::Send does after writev.     *)
MoveReadQueue(len) ==
    /\ que' = QueueMoveReadPt(que, len).q
    /\ passed' = QueueMoveReadPt(que, len).got
    /\ UNCHANGED back

(* GetFreeMemoryBlock, readv and MoveWritePt in RWSocket::Recv.             *)
FillQueue(size, data) ==
    LET free == QueueGetFreeMemoryBlock(que, size)
    IN  /\ que.len + Len(data) <= MaxBytes
        /\ Len(data) \in 1 .. BuffLen(free, size)
        /\ que' = QueueMoveWritePt(Readv(free, data), Len(data))
        /\ passed' = data
        /\ UNCHANGED back

(* readv finds nothing (EAGAIN, EINTR) and returns -1, which Recv hands to    *)
(* MoveWritePt as the length: a byte that was read before is taken back.     *)
FillNothing(size) ==
    /\ que.len + 1 <= MaxBytes
    /\ que' = QueueMoveWritePt(QueueGetFreeMemoryBlock(que, size), -1)
    /\ passed' = <<>>
    /\ back' = back + Least(1, Len(QueueContent(que)))

(* readv fails otherwise, or the peer has closed: Recv gives up, and only the *)
(* blocks that GetFreeMemoryBlock appended stay.                            *)
FillFails(size) ==
    /\ que' = QueueGetFreeMemoryBlock(que, size)
    /\ passed' = <<>>
    /\ UNCHANGED back

ClearQueue == que' = QueueClear(que) /\ passed' = <<>> /\ back' = 0

QueueNext ==
    \/ \E data \in Strings :
          WriteQueue(data) \/ \E size \in Expand : FillQueue(size, data)
    \/ \E len \in 0 .. MaxArg :
          \/ ReadQueue(len) \/ ReadQueueUntil(len) \/ MoveReadQueue(len)
          \/ \E find \in Strings \ {<<>>} : ReadQueueUntilStr(len, find)
    \/ \E size \in Expand : FillNothing(size) \/ FillFails(size)
    \/ ClearQueue

QueueSpec == QueueInit /\ [][QueueNext]_queueVars

-----------------------------------------------------------------------------
(* Type correctness: _buffer_write is null or a block of the list, and the    *)
(* counted length stays in its bounds.                                      *)
QueueTypeOK ==
    /\ que.list \in Seq(Block)
    /\ que.write \in 0 .. Len(que.list)
    /\ que.len \in 0 .. MaxBytes
    /\ back \in Nat

(* Every way to look at the unread bytes shows the same ones: none hides in a *)
(* block behind _buffer_write, where GetUseMemoryBlock and ReadNotMovePt do   *)
(* not look.  _can_read_length is counted and not computed; it is their       *)
(* number until Recv finds nothing to read: each byte that MoveWritePt(-1)    *)
(* takes back is added to it, so that it is too large by two.               *)
ViewsAgree ==
    LET all == QueueContent(que)
    IN  /\ QueueTypeOK
        /\ que.len = Len(all) + 2 * back
        /\ QueueGetUseMemoryBlock(que, 0) = all
        /\ \A len \in 0 .. MaxArg :
              LET use == QueueGetUseMemoryBlock(que, len)
              IN  /\ ReadNotMovePt(que, len) = SubSeq(all, 1, Least(len, Len(all)))
                  /\ use = SubSeq(all, 1, Len(use))
                  /\ len > 0 => Len(use) >= Least(len, Len(all))

(* The queue is a first-in first-out queue of bytes over all its blocks: no   *)
(* call repeats or reorders a byte where one block ends and the next begins,  *)
(* and bytes are lost only as BoundedFifo says: Clear drops them all, and a  *)
(* Recv that finds nothing drops the newest, Retract(1, 1).                  *)
QueueFifo == INSTANCE BoundedFifo
                 WITH Blocks <- {1}, fifo <- <<QueueContent(que)>>, io <- passed,
                      Capacity <- MaxBytes

QueueIsFifo == QueueFifo!Spec

(* What the code does not promise: that the counted length is the number of   *)
(* unread bytes, and that a Recv without data leaves them alone.             *)
LengthIsCounted == que.len = Len(QueueContent(que))

NothingReadNothingLost ==
    [][\A size \in Expand :
           FillNothing(size) => QueueContent(que') = QueueContent(que)]_queueVars

(* api.md on ReadUntil: "No reads are made when the specified string is not   *)
(* found".  A length reported by FindStr is the end of the string.          *)
FoundInQueue ==
    \A s \in Strings \ {<<>>} :
        LET k == QueueFindStr(que, s)
        IN  k > 0 => SubSeq(QueueContent(que), k - Len(s) + 1, k) = s

=============================================================================
