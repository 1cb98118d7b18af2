----------------------------- MODULE BoundedFifo -----------------------------
(***************************************************************************)
(* What a set of buffer blocks promises: each is a first-in first-out queue *)
(* of at most Capacity bytes.  io holds the bytes the last call was given   *)
(* by its caller or handed out to it.                                       *)
(***************************************************************************)
EXTENDS Integers, Sequences

CONSTANTS
    Blocks,    \* the queues
    Capacity,  \* the most bytes a queue holds
    Byte,      \* the values of a byte
    MaxArg     \* bound on the length of an argument

VARIABLES fifo, io

vars == <<fifo, io>>

Init == /\ fifo = [x \in Blocks |-> <<>>]
        /\ io = <<>>

(* A prefix of data is accepted; it is all of data unless the queue is full. *)
Put(x, data) ==
    \E n \in 0 .. Len(data) :
        /\ n = Len(data) \/ Len(fifo[x]) + n = Capacity
        /\ Len(fifo[x]) + n <= Capacity
        /\ fifo' = [fifo EXCEPT ![x] = @ \o SubSeq(data, 1, n)]
        /\ io' = data

(* The oldest bytes are delivered, len of them or all there are.            *)
Take(x, len) ==
    \E n \in 0 .. Len(fifo[x]) :
        /\ n = len \/ (n < len /\ n = Len(fifo[x]))
        /\ io' = SubSeq(fifo[x], 1, n)
        /\ fifo' = [fifo EXCEPT ![x] = SubSeq(@, n + 1, Len(@))]

(* The newest bytes are dropped, len of them or all there are.              *)
Retract(x, len) ==
    \E n \in 0 .. Len(fifo[x]) :
        /\ n = len \/ (n < len /\ n = Len(fifo[x]))
        /\ fifo' = [fifo EXCEPT ![x] = SubSeq(@, 1, Len(@) - n)]
        /\ io' = <<>>

(* Bytes appear in front of the oldest one.                                 *)
Restore(x, data) ==
    /\ Len(data) + Len(fifo[x]) <= Capacity
    /\ fifo' = [fifo EXCEPT ![x] = data \o @]
    /\ io' = <<>>

(* The oldest bytes of x become the newest bytes of y.                      *)
Move(x, y, len) ==
    \E n \in 0 .. Len(fifo[x]) :
        /\ n \in {len, Len(fifo[x])} \/ Len(fifo[y]) + n = Capacity
        /\ Len(fifo[y]) + n <= Capacity
        /\ fifo' = [fifo EXCEPT ![x] = SubSeq(@, n + 1, Len(@)),
                                ![y] = @ \o SubSeq(fifo[x], 1, n)]
        /\ io' = <<>>

(* All bytes are dropped.                                                   *)
Discard(x) == /\ fifo' = [fifo EXCEPT ![x] = <<>>]
              /\ io' = <<>>

Strings == UNION {[1 .. n -> Byte] : n \in 0 .. MaxArg}

Next == \E x \in Blocks :
            \/ \E data \in Strings : Put(x, data) \/ Restore(x, data)
            \/ \E len \in 0 .. MaxArg : Take(x, len) \/ Retract(x, len)
            \/ \E y \in Blocks \ {x}, len \in 0 .. MaxArg : Move(x, y, len)
            \/ Discard(x)

Spec == Init /\ [][Next]_vars

=============================================================================
