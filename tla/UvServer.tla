------------------------------- MODULE UvServer -------------------------------
(***************************************************************************)
(* The TCP server of libuv-lua (libuv-lua/src/tcpserver.c): connections that *)
(* libuv's loop reports events on, and a timer that shuts the connections    *)
(* down that have been idle for too long, found by a minimum heap of the     *)
(* times of their last data.                                                *)
(*                                                                          *)
(* libuv is modelled by what the server sees of it: uv_shutdown takes effect *)
(* when no write is queued, reading and writing go on until then, and a      *)
(* closed handle's callback comes in a later step.  Every callback is one    *)
(* action, the Lua functions it calls included: they may echo.              *)
(***************************************************************************)
EXTENDS HeapOps, FiniteSets

CONSTANTS
    Conns,       \* the connections
    InitTimeout, \* idle_timeout when the loop starts: 0, or what set_timeout gave it
    Timeouts,    \* the values set_timeout is given
    MaxTime,     \* bound on the clock
    MaxWrites    \* bound on the writes queued on a connection

ASSUME UvAssumption == /\ IsFiniteSet(Conns) /\ InitTimeout \in Nat /\ Timeouts \subseteq Int
                       /\ MaxTime \in Nat /\ MaxWrites \in Nat \ {0}

VARIABLES
    st,       \* st[c]: none, open, shutting (uv_shutdown called), closing, closed
    reading,  \* reading[c]: libuv reports what arrives on c
    writes,   \* writes[c]: the writes libuv has queued
    heap,     \* server->minheap, its nodes are the connections
    idle,     \* server->idle_timeout
    timer,    \* the timer is running
    clock,    \* time()
    last,     \* history: when c was accepted or last sent data
    closes    \* history: how often uv_close was called on c

conn == <<st, reading, writes, closes>>
vars == <<conn, heap, idle, timer, clock, last>>

Init == /\ st = [c \in Conns |-> "none"] /\ reading = [c \in Conns |-> FALSE]
        /\ writes = [c \in Conns |-> 0] /\ heap = minheap_init(Conns)
        /\ idle = InitTimeout /\ timer = (InitTimeout > 0) /\ clock = 0
        /\ last = [c \in Conns |-> 0] /\ closes = [c \in Conns |-> 0]

(* The heap with the time of c set to now.                                  *)
Touched(c) == [heap EXCEPT !.key[c] = clock]

(* uv_close: reading stops, the callback comes later.                       *)
UvClose(c) == /\ st' = [st EXCEPT ![c] = "closing"]
              /\ closes' = [closes EXCEPT ![c] = @ + 1]
              /\ reading' = [reading EXCEPT ![c] = FALSE]

(* What uv_shutdown makes of the states of the connections in S: it fails on *)
(* a handle that is shutting down or closing already.                       *)
UvShutdown(S) == [c \in Conns |-> IF c \in S /\ st[c] = "open" THEN "shutting" ELSE st[c]]

(* lua_tcpserver_onconnection: uv_accept, the onconn function and            *)
(* uv_read_start succeed, or the connection is closed at once.              *)
OnConnection(c) ==
    /\ st[c] = "none"
    /\ \/ /\ st' = [st EXCEPT ![c] = "open"] /\ reading' = [reading EXCEPT ![c] = TRUE]
          /\ heap' = minheap_push(Touched(c), c)
          /\ last' = [last EXCEPT ![c] = clock]
          /\ UNCHANGED closes
       \/ UvClose(c) /\ UNCHANGED <<heap, last>>
    /\ UNCHANGED <<writes, idle, timer, clock>>

(* conn:echo: only for a connection in the heap.  What uv_write cannot send  *)
(* at once, and what comes behind that, it queues; on a closed handle it     *)
(* fails.                                                                   *)
Echo(c, h) ==
    IF minheap_elm_inheap(h, c) /\ st[c] \in {"open", "shutting"}
      THEN /\ writes[c] < MaxWrites
           /\ \E k \in IF writes[c] = 0 THEN {0, 1} ELSE {1} :
                writes' = [writes EXCEPT ![c] = @ + k]
      ELSE UNCHANGED writes

(* Mutant: the time of the last data is not kept.                           *)
OnDataKeepsTime(c) ==
    /\ reading[c]
    /\ last' = [last EXCEPT ![c] = clock]
    /\ Echo(c, heap) \/ UNCHANGED writes
    /\ UNCHANGED <<st, reading, closes, heap, idle, timer, clock>>

(* uv_tcpserver_onread with data: the time is set and the node moved, or put *)
(* back into the heap; the ondata function may answer.                      *)
OnData(c) ==
    /\ reading[c]
    /\ heap' = IF idle > 0 THEN minheap_adjust(Touched(c), c) ELSE heap
    /\ last' = [last EXCEPT ![c] = clock]
    /\ Echo(c, heap') \/ UNCHANGED writes
    /\ UNCHANGED <<st, reading, closes, idle, timer, clock>>

(* ... at the end of the data or with an error: libuv stops reading.         *)
OnEnd(c) ==
    /\ reading[c]
    /\ reading' = [reading EXCEPT ![c] = FALSE]
    /\ st' = UvShutdown({c})
    /\ UNCHANGED <<writes, closes, heap, idle, timer, clock, last>>

(* ... with nread = 0: libuv found nothing to read (EAGAIN), which it does   *)
(* after it has filled a buffer to the last byte.                           *)
OnEmptyRead(c) ==
    /\ reading[c]
    /\ st' = UvShutdown({c})
    /\ UNCHANGED <<reading, writes, closes, heap, idle, timer, clock, last>>

(* Lua code that answers in some other callback.                            *)
EchoLater(c) ==
    /\ st[c] \in {"open", "shutting", "closing"} /\ Echo(c, heap)
    /\ UNCHANGED <<st, reading, closes, heap, idle, timer, clock, last>>

(* What uv__write leaves of the queue of c when the socket takes a write: one *)
(* of them goes in a pass of the loop.                                      *)
UvWrite(c) == [writes EXCEPT ![c] = IF @ = 0 THEN 0 ELSE @ - 1]

(* Mutant: uv_shutdown is given no callback.                                *)
OnWritableNoCallback(c) ==
    /\ st[c] \in {"open", "shutting"} /\ writes[c] > 0
    /\ writes' = UvWrite(c)
    /\ UNCHANGED <<st, closes, reading, heap, idle, timer, clock, last>>

(* The socket takes a write.  When none is left a shutdown is carried out    *)
(* and uv_conn_shutdown_cb closes the handle.                               *)
OnWritable(c) ==
    /\ st[c] \in {"open", "shutting"} /\ (writes[c] > 0 \/ st[c] = "shutting")
    /\ writes' = UvWrite(c)
    /\ IF writes'[c] = 0 /\ st[c] = "shutting" THEN UvClose(c) ELSE UNCHANGED <<st, closes, reading>>
    /\ UNCHANGED <<heap, idle, timer, clock, last>>

(* Mutant: the node stays in the heap.                                      *)
OnConnCloseKeeps(c) ==
    /\ st[c] = "closing"
    /\ st' = [st EXCEPT ![c] = "closed"]
    /\ writes' = [writes EXCEPT ![c] = 0]
    /\ UNCHANGED <<reading, closes, heap, idle, timer, clock, last>>

(* uv_tcpserver_onconnclose: the onclose function, then the node leaves the  *)
(* heap and the connection is freed.                                        *)
OnConnClose(c) ==
    /\ st[c] = "closing"
    /\ st' = [st EXCEPT ![c] = "closed"]
    /\ heap' = minheap_erase(heap, c)
    /\ writes' = [writes EXCEPT ![c] = 0]
    /\ UNCHANGED <<reading, closes, idle, timer, clock, last>>

(* The heap after k pops, and how many pops ontimer makes.                  *)
Expired(h) == h.n > 0 /\ clock - idle > h.key[h.p[0]]
AfterPops == LET After[k \in 0 .. Cardinality(Conns)] ==
                     IF k = 0 THEN heap
                     ELSE IF Expired(After[k - 1]) THEN minheap_pop(After[k - 1]) ELSE After[k - 1]
             IN  After[Cardinality(Conns)]

(* Mutant: one that uv_shutdown fails on is closed at once.                 *)
OnTimerCloses ==
    /\ timer /\ idle > 0 /\ Expired(heap)
    /\ heap' = AfterPops
    /\ LET S == {c \in Conns : minheap_elm_inheap(heap, c) /\ ~minheap_elm_inheap(heap', c)}
           T == {c \in S : st[c] # "open"}
       IN  /\ st' = [c \in Conns |-> IF c \in T THEN "closing" ELSE UvShutdown(S)[c]]
           /\ closes' = [c \in Conns |-> IF c \in T THEN closes[c] + 1 ELSE closes[c]]
           /\ reading' = [c \in Conns |-> reading[c] /\ c \notin T]
    /\ UNCHANGED <<writes, idle, timer, clock, last>>

(* uv_tcpserver_ontimer: the idle ones leave the heap and are shut down.     *)
OnTimer ==
    /\ timer /\ idle > 0 /\ Expired(heap)
    /\ heap' = AfterPops
    /\ st' = UvShutdown({c \in Conns : minheap_elm_inheap(heap, c) /\ ~minheap_elm_inheap(heap', c)})
    /\ UNCHANGED <<reading, writes, closes, idle, timer, clock, last>>

(* set_timeout: without a positive value it stops the timer but leaves       *)
(* idle_timeout.                                                            *)
SetTimeout(n) ==
    /\ idle' = IF n > 0 THEN n ELSE idle
    /\ timer' = IF n > 0 THEN TRUE ELSE IF idle # 0 THEN FALSE ELSE timer
    /\ UNCHANGED <<conn, heap, clock, last>>

Tick ==
    /\ clock < MaxTime
    /\ clock' = clock + 1
    /\ UNCHANGED <<conn, heap, idle, timer, last>>

Next == \/ \E c \in Conns : \/ OnConnection(c) \/ OnData(c) \/ OnEnd(c) \/ OnEmptyRead(c)
                            \/ EchoLater(c) \/ OnWritable(c) \/ OnConnClose(c)
        \/ OnTimer
        \/ \E n \in Timeouts : SetTimeout(n)
        \/ Tick

(* The loop runs the callbacks that are due, and a peer takes what it is     *)
(* sent.                                                                    *)
Fairness == \A c \in Conns : WF_vars(OnConnClose(c)) /\ WF_vars(OnWritable(c))

Spec == Init /\ [][Next]_vars /\ Fairness

-----------------------------------------------------------------------------
TypeOK ==
    /\ st \in [Conns -> {"none", "open", "shutting", "closing", "closed"}]
    /\ reading \in [Conns -> BOOLEAN] /\ writes \in [Conns -> 0 .. MaxWrites]
    /\ heap.n \in 0 .. Cardinality(Conns) /\ heap.p \in [0 .. heap.n - 1 -> Conns]
    /\ heap.idx \in [Conns -> -1 .. Cardinality(Conns)] /\ heap.key \in [Conns -> 0 .. MaxTime]
    /\ idle \in Nat /\ timer \in BOOLEAN /\ clock \in 0 .. MaxTime
    /\ last \in [Conns -> 0 .. MaxTime] /\ closes \in [Conns -> Nat]

(* The heap is one, and every node knows its place, whatever sequence of     *)
(* pushes, pops, erasures and new times it went through.  A node belongs to  *)
(* a connection that has not been freed, also when data arrived after the    *)
(* timer had taken it out; and an open connection has its node there.       *)
NodesAreLive ==
    /\ TypeOK /\ IsHeap(heap)
    /\ \A c \in Conns : /\ minheap_elm_inheap(heap, c) => st[c] \notin {"none", "closed"}
                        /\ st[c] = "open" => minheap_elm_inheap(heap, c)

(* uv_close is called once on a connection, although the timer, the end of   *)
(* the data and an empty read may each shut it down: libuv asserts it.      *)
ClosedOnce == \A c \in Conns : closes[c] = IF st[c] \in {"closing", "closed"} THEN 1 ELSE 0

(* The timer shuts down exactly the open connections that have been idle for  *)
(* longer than idle_timeout.                                                *)
TimerIsExact ==
    [][OnTimer => \A c \in Conns :
          st[c] = "open" => (st'[c] = "shutting" <=> clock - last[c] > idle)]_vars

(* A connection that is shut down is closed and freed in the end, if the     *)
(* answers to what it sends stop being queued one day: libuv carries out the *)
(* shutdown when the queue is empty, and goes on reading until then.         *)
ShutIsClosed == \A c \in Conns :
    <>[][writes'[c] <= writes[c]]_vars => (st[c] = "shutting" ~> st[c] = "closed")

(* What does not hold (README, known deviations): it is closed whatever its  *)
(* peer goes on sending.                                                    *)
ShutIsClosedAnyway == \A c \in Conns : st[c] = "shutting" ~> st[c] = "closed"

(* What does not hold (README, known deviations): a read that brings nothing *)
(* leaves the connection as it is.                                          *)
EmptyReadKeeps == [][\A c \in Conns : OnEmptyRead(c) => UNCHANGED st]_vars
=============================================================================
