----------------------------- MODULE MCConnection -----------------------------
(***************************************************************************)
(* Connection with a few sockets that the number of a closed descriptor may  *)
(* be given to: one with bytes to read and room to write, one with neither   *)
(* that the epoll set does not know, and one whose peer has closed.         *)
(***************************************************************************)
EXTENDS Connection

Socket(rcv, fin, room, listed) ==
    [rcv |-> rcv, fin |-> fin, rst |-> FALSE, room |-> room, listed |-> listed]

MCFiles == {Socket(1, FALSE, MaxCache + 1, TRUE), Socket(0, FALSE, 0, FALSE), Socket(0, TRUE, 1, TRUE)}
=============================================================================
