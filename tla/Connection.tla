------------------------------ MODULE Connection ------------------------------
(***************************************************************************)
(* The life of one connection: an RWSocket (cppnet/socket/rw_socket.cpp), its *)
(* Event in EpollEventActions (cppnet/event/epoll/epoll_action.cpp), the      *)
(* socket of the kernel, and the callbacks of the program.  All of it runs   *)
(* on the I/O thread of the connection's dispatcher, except the kernel.      *)
(* The record c holds                                                       *)
(*   of the kernel (external)                                               *)
(*     open      the descriptor is open                                     *)
(*     file      once it is closed: what its number stands for now          *)
(*     syn       connect() is still in progress                             *)
(*     rcv, fin  bytes in the receive queue; the peer closed behind them     *)
(*     rst       the connection is reset or was refused                     *)
(*     snd       bytes in the send queue                                    *)
(*     nospace   a writer waits for space in it                             *)
(*     inep      the descriptor is registered in epoll                      *)
(*     ready     ... and on the ready list, once for each edge              *)
(*   of the RWSocket                                                        *)
(*     wbuf      bytes in _write_buffer                                     *)
(*     unread    bytes in _read_buffer; len is its _can_read_length         *)
(*     type, ep  Event::_event_type and epoll_event::events of its _event   *)
(*     shutdown, connecting, timerId    _shutdown, _connecting, _timer_id # 0 *)
(*               (a connecting one is in __connecting_socket_map)           *)
(*     mapped    it is in __all_socket_map                                  *)
(*     armed     its timer in the dispatcher, "no", "once" or "always"      *)
(*   of the program                                                         *)
(*     held      the program keeps the handle                               *)
(*     asked     it called Close while the connection was open              *)
(*     wanted    it called AddTimer and waits for the callback              *)
(*     ret       what its last Write returned                               *)
(*     pend      the running disconnect callbacks, the innermost first      *)
(*     discs     the errors of all disconnect callbacks                     *)
(*     calls     the callbacks of the last step, <<name, argument>>         *)
(***************************************************************************)
EXTENDS Integers, Sequences, FiniteSets

CONSTANTS
    SndCap,            \* bytes the send queue of the kernel holds
    MaxCache,          \* __max_write_cache
    MaxIn,             \* bound on the bytes received and not read
    Files,             \* what a number can stand for when it is given out again
    EndsInDisconnect   \* the program calls Write or Close in a disconnect callback

ASSUME CapAssumption == {SndCap, MaxCache, MaxIn} \subseteq Nat /\ SndCap > 0
ASSUME FlagAssumption == EndsInDisconnect \in BOOLEAN

(* A number that nobody has, where every call fails (EBADF), and the sockets  *)
(* of others: bytes to read, their end, a reset, room for bytes to write,    *)
(* and whether the epoll set has an entry of its owner for it.              *)
NoFile == [rcv |-> 0, fin |-> FALSE, rst |-> TRUE, room |-> 0, listed |-> FALSE]

ASSUME FilesAssumption ==
    /\ \A f \in Files : /\ f.rcv \in Nat /\ f.room \in Nat
                        /\ {f.fin, f.rst, f.listed} \subseteq BOOLEAN
    /\ NoFile \notin Files

VARIABLES
    c,         \* the connection
    pc,        \* what the thread does
    evs        \* the events of the connection still to be handled

vars == <<c, pc, evs>>

Errors == {"success", "closed", "break"}

Fresh == [open |-> TRUE, file |-> NoFile, syn |-> FALSE, rcv |-> 0, fin |-> FALSE, rst |-> FALSE,
          snd |-> 0, nospace |-> FALSE, inep |-> FALSE, ready |-> FALSE,
          wbuf |-> 0, unread |-> 0, len |-> 0, type |-> {}, ep |-> {},
          shutdown |-> FALSE, connecting |-> FALSE, timerId |-> FALSE,
          mapped |-> FALSE, armed |-> "no",
          held |-> FALSE, asked |-> FALSE, wanted |-> FALSE, ret |-> TRUE,
          pend |-> <<>>, discs |-> <<>>, calls |-> <<>>]

-----------------------------------------------------------------------------
(* The kernel.                                                              *)

(* What a call with the number of the descriptor meets: the socket of the    *)
(* connection, or what the number stands for after it.                      *)
Behind(s) ==
    IF s.open THEN [rcv |-> s.rcv, fin |-> s.fin, rst |-> s.rst,
                    room |-> IF s.syn THEN 0 ELSE SndCap - s.snd, listed |-> s.inep]
    ELSE s.file

(* What a poll of the descriptor reports for the events asked for.  A reset  *)
(* is reported in any case.                                                 *)
Poll(s) ==
    LET f == Behind(s)
    IN  (s.ep \cap ((IF f.rcv > 0 \/ f.fin \/ f.rst THEN {"in"} ELSE {})
                    \cup (IF f.rst \/ f.room > 0 THEN {"out"} ELSE {})))
        \cup (IF f.rst THEN {"hup"} ELSE {})

(* A poll that finds no space leaves a wish for it.                         *)
Polled(s) == [s EXCEPT !.nospace = @ \/ s.snd = SndCap]

(* An edge puts a registered descriptor on the ready list.                  *)
Edge(s) == [s EXCEPT !.ready = s.inep]

CloseFd(s) ==
    [s EXCEPT !.open = FALSE, !.file = NoFile, !.inep = FALSE, !.ready = FALSE, !.syn = FALSE,
              !.rcv = 0, !.fin = FALSE, !.rst = FALSE, !.snd = 0, !.nospace = FALSE]

(* The epoll set has an entry for the number.                               *)
InSet(s) == s.inep \/ Behind(s).listed

-----------------------------------------------------------------------------
(* EpollEventActions.                                                       *)

(* AddEvent: EPOLL_CTL_MOD or EPOLL_CTL_ADD.  Once the descriptor is closed   *)
(* it fails, unless the number has been given out again and the epoll set    *)
(* has an entry for it, or none.  The mask is changed in any case.          *)
AddEvent(s, flag) ==
    LET m == [s EXCEPT !.ep = @ \cup {flag}]
    IN  IF ~s.open /\ (s.file = NoFile \/ ("inactions" \in s.type) # InSet(s))
        THEN [m EXCEPT !.ret = FALSE]
        ELSE Polled([m EXCEPT !.inep = TRUE, !.ready = @ \/ Poll(m) # {},
                              !.type = @ \cup {"inactions"}, !.ret = TRUE])

AddSendTypeOnly(s) == [s EXCEPT !.type = @ \cup {"write"}, !.ret = TRUE]

AddSendEvent(s) ==
    LET t == [s EXCEPT !.type = @ \cup {"write"}]
    IN  IF "write" \in s.type THEN [s EXCEPT !.ret = FALSE]
        ELSE IF "out" \in s.ep THEN [t EXCEPT !.ret = TRUE]
        ELSE AddEvent(t, "out")

AddRecvTypeOnly(s) == [s EXCEPT !.type = @ \cup {"read"}]

AddRecvEvent(s) ==
    LET t == [s EXCEPT !.type = @ \cup {"read"}]
    IN  IF "read" \in s.type THEN s
        ELSE IF "in" \in s.ep THEN t
        ELSE AddEvent(t, "in")

(* DelEvent fails when the number is not registered.                        *)
DelEvent(s) ==
    IF InSet(s) THEN [s EXCEPT !.inep = FALSE, !.ready = FALSE, !.type = {}] ELSE s

-----------------------------------------------------------------------------
(* RWSocket.                                                                *)

Told(s, name, arg) == [s EXCEPT !.calls = Append(@, <<name, arg>>)]

(* OnDisConnect up to the callback; FinishDisconnect is what follows it.    *)
FinishNotShut(s, err) == IF err = "success" THEN s ELSE CloseFd(DelEvent(s))

FinishKeepFd(s, err) ==
    LET d == [s EXCEPT !.shutdown = TRUE]
    IN  IF err = "success" THEN d ELSE DelEvent(d)

FinishDisconnect(s, err) ==
    LET d == [s EXCEPT !.shutdown = TRUE]
    IN  IF err = "success" THEN d ELSE CloseFd(DelEvent(d))

OnDisConnect(s, err) ==
    LET d == [s EXCEPT !.mapped = FALSE]
    IN  IF s.shutdown THEN FinishDisconnect(d, err)
        ELSE Told([d EXCEPT !.pend = <<err>> \o @, !.discs = Append(@, err)],
                  "disconnect", err)

StopTimer(s) ==
    IF s.timerId THEN [s EXCEPT !.armed = "no", !.timerId = FALSE] ELSE s

(* Close: AddDisconnection, then the timer.  When there is a callback, the    *)
(* timer is stopped after it (EndDisconnect).                               *)
Close(s) ==
    LET t == [s EXCEPT !.type = @ \cup {"disconnect"}]
    IN  IF "disconnect" \in s.type \/ ~InSet(s) THEN StopTimer(t)
        ELSE LET d == OnDisConnect(CloseFd(DelEvent(t)), "success")
             IN  IF d.pend = s.pend THEN StopTimer(d) ELSE d

(* Send: writev until the buffer is empty or the kernel takes no more.       *)
SendOnce(s) ==
    LET n    == IF s.wbuf <= SndCap - s.snd THEN s.wbuf ELSE SndCap - s.snd
        sent == [s EXCEPT !.wbuf = @ - n, !.snd = @ + n, !.ret = TRUE]
    IN  IF s.wbuf = 0 \/ n > 0 THEN Told(sent, "write", n)
        ELSE IF ~s.open \/ s.rst THEN OnDisConnect([s EXCEPT !.ret = FALSE], "closed")
        ELSE [s EXCEPT !.ret = FALSE]

Send(s) ==
    LET f    == Behind(s)
        n    == IF s.wbuf <= f.room THEN s.wbuf ELSE f.room
        sent == [s EXCEPT !.wbuf = @ - n, !.snd = IF s.open THEN @ + n ELSE @]
    IN  IF s.wbuf = 0 THEN Told([s EXCEPT !.ret = TRUE], "write", 0)
        ELSE IF f.rst THEN OnDisConnect([s EXCEPT !.ret = FALSE], "closed")
        ELSE IF n = s.wbuf THEN Told([sent EXCEPT !.ret = TRUE], "write", n)
        ELSE AddSendEvent([sent EXCEPT !.nospace = s.open /\ ~s.syn])

WriteByte(s) == [s EXCEPT !.wbuf = @ + 1]

Write(s) ==
    IF s.wbuf = 0 THEN Send(WriteByte(s))
    ELSE IF s.wbuf > MaxCache THEN [s EXCEPT !.ret = FALSE]
    ELSE AddSendEvent(WriteByte(s))

(* Recv: readv until it returns less than the buffer has room for.  Whether   *)
(* the bytes just fill the buffer ("exact") depends on what is left unread   *)
(* in it.  Then there is another readv, and the -1 of its EAGAIN moves the   *)
(* write point back by a byte, if there is one, is added to the length told  *)
(* (an unsigned number), and is taken off twice the wrong way:              *)
(* BufferQueue::MoveWritePt adds 1 to its length.                           *)
RecvNoReturn(s, exact) ==
    LET got == [s EXCEPT !.rcv = 0, !.unread = @ + s.rcv, !.len = @ + s.rcv]
    IN  Told(IF ~s.open \/ s.rst THEN OnDisConnect(got, "break")
             ELSE IF s.fin THEN OnDisConnect(got, "closed") ELSE got,
             "read", s.rcv)

Recv(s, exact) ==
    LET f   == Behind(s)
        n   == f.rcv
        got == [s EXCEPT !.rcv = 0, !.unread = @ + n, !.len = @ + n]
    IN  IF n > 0 /\ ~exact THEN Told(got, "read", n)
        ELSE IF f.rst THEN OnDisConnect(got, "break")
        ELSE IF f.fin THEN OnDisConnect(got, "closed")
        ELSE Told([got EXCEPT !.unread = IF @ = 0 THEN 0 ELSE @ - 1, !.len = @ + 1], "read", n - 1)

(* ~RWSocket runs when nobody refers to it any more: it stops the timer.     *)
Referred(s) == s.mapped \/ s.connecting \/ s.held

Unref(s) == IF Referred(s) THEN s ELSE StopTimer(s)

(* OnConnect up to the callback.                                            *)
OnConnect(s, err) ==
    Told([s EXCEPT !.connecting = FALSE, !.mapped = err = "success"], "connect", err)

-----------------------------------------------------------------------------
(* The steps of the thread.  Every step forgets the callbacks of the last.    *)

Now == [c EXCEPT !.calls = <<>>]

Init == c = Fresh /\ pc = "start" /\ evs = {}

(* ConnectSocket::OnAccept up to the accept callback.                       *)
Accept ==
    /\ pc = "start"
    /\ c' = Told([Now EXCEPT !.mapped = TRUE], "accept", "success")
    /\ pc' = "opened"
    /\ UNCHANGED evs

(* RWSocket::Connect and AddConnection: connect() is done, goes on, or fails. *)
Connect(result) ==
    /\ pc = "start"
    /\ c' = CASE result = "done" -> OnConnect(Now, "success")
              [] result = "fails" -> OnConnect([Now EXCEPT !.rst = TRUE], "refuse")
              [] result = "goes on" ->
                    [Now EXCEPT !.syn = TRUE, !.connecting = TRUE,
                                !.timerId = TRUE, !.armed = "once"]
    /\ pc' = CASE result = "done" -> "opened"
               [] result = "fails" -> "refused"
               [] result = "goes on" -> "wait"
    /\ UNCHANGED evs

(* The accept or connect callback is over: Read().                          *)
StartRead ==
    /\ pc = "opened" /\ c.pend = <<>>
    /\ c' = Unref(AddRecvEvent(Now))
    /\ pc' = "wait"
    /\ UNCHANGED evs

EndRefused ==
    /\ pc = "refused" /\ c.pend = <<>>
    /\ c' = Unref(Now)
    /\ pc' = "wait"
    /\ UNCHANGED evs

(* TimerRun calls RWSocket::OnTimer.  CheckConnect reads SO_ERROR, which is   *)
(* 0 as long as connect() goes on.                                          *)
OnTimer ==
    /\ pc = "wait" /\ c.pend = <<>> /\ c.armed # "no"
    /\ LET t == [Now EXCEPT !.armed = IF @ = "once" THEN "no" ELSE @]
       IN  IF c.connecting
           THEN /\ c' = OnConnect(t, IF c.rst THEN "refuse" ELSE "success")
                /\ pc' = IF c.rst THEN "refused" ELSE "opened"
           ELSE /\ c' = Told([t EXCEPT !.wanted = t.armed # "no"], "timer", 0)
                /\ pc' = "user"
    /\ UNCHANGED evs

(* epoll_wait with edges: the ready list is emptied and every descriptor on   *)
(* it polled.  Callbacks of other connections may run before the event.     *)
Wait ==
    /\ pc = "wait" /\ c.pend = <<>> /\ c.ready
    /\ c' = Polled([Now EXCEPT !.ready = FALSE])
    /\ evs' = Poll(c)
    /\ pc' = IF Poll(c) = {} THEN "wait" ELSE "batch"

(* OnEvent reads the Event, which is deleted with its socket.               *)
OnEvent ==
    /\ pc = "batch" /\ c.pend = <<>> /\ Referred(c)
    /\ pc' = "events"
    /\ c' = Now
    /\ UNCHANGED evs

Handle(event, after, callback) ==
    /\ pc = "events" /\ c.pend = <<>>
    /\ event \in evs
    /\ evs' = evs \ {event}
    /\ c' = after
    /\ pc' = IF \E i \in DOMAIN after.calls : after.calls[i][1] = callback
             THEN "user" ELSE "events"

OnRead(exact) == Handle("in", Recv(Now, exact), "read")

OnWrite == "in" \notin evs /\ Handle("out", Send(Now), "write")

OnHup == evs = {"hup"} /\ Handle("hup", OnDisConnect(Now, "closed"), "none")

EndEvent ==
    /\ pc = "events" /\ c.pend = <<>> /\ evs = {}
    /\ c' = Unref(Now)
    /\ pc' = "wait"
    /\ UNCHANGED evs

(* A read, write or timer callback is over.                                 *)
Return ==
    /\ pc = "user" /\ c.pend = <<>>
    /\ pc' = "events"
    /\ c' = Now
    /\ UNCHANGED evs

(* A disconnect callback is over.  The one for "success" was made by Close.  *)
EndDisconnect ==
    /\ c.pend # <<>>
    /\ LET err  == Head(c.pend)
           done == FinishDisconnect([Now EXCEPT !.pend = Tail(@)], err)
       IN  c' = IF err = "success" THEN StopTimer(done) ELSE done
    /\ UNCHANGED <<pc, evs>>

-----------------------------------------------------------------------------
(* The program, in its callbacks: those of the connection, and with a handle  *)
(* it kept those of others.                                                 *)

InUser ==
    \/ c.pend # <<>>
    \/ pc \in {"opened", "refused", "user"}
    \/ pc \in {"wait", "batch"} /\ c.held

Calls(after) == InUser /\ c' = after /\ UNCHANGED <<pc, evs>>

MayEnd == c.pend = <<>> \/ EndsInDisconnect

CallWrite == MayEnd /\ Calls(Write(Now))

CallClose ==
    MayEnd /\
    Calls(LET d == Close(Now)
          IN  [d EXCEPT !.asked = @ \/ (c.open /\ pc # "refused"), !.wanted = FALSE])

CallAddTimer(kind) ==
    Calls([Now EXCEPT !.armed = IF c.timerId THEN @ ELSE kind,
                      !.timerId = TRUE, !.wanted = TRUE])

CallStopTimer == Calls([StopTimer(Now) EXCEPT !.wanted = FALSE])

(* Read() of all that is there.                                             *)
CallRead == c.unread > 0 /\ Calls([Now EXCEPT !.unread = 0, !.len = @ - c.unread])

Keep == c.pend = <<>> /\ ~c.held /\ Calls([Now EXCEPT !.held = TRUE])

Release ==
    /\ c.pend = <<>> /\ c.held
    /\ Calls(IF pc \in {"wait", "batch"} THEN Unref([Now EXCEPT !.held = FALSE])
             ELSE [Now EXCEPT !.held = FALSE])

-----------------------------------------------------------------------------
(* The peer and the network.                                                *)

Net(guard, after) == c.open /\ guard /\ c' = after /\ UNCHANGED <<pc, evs>>

Up == pc # "start" /\ ~c.syn /\ ~c.rst

Established == Net(c.syn /\ ~c.rst, Edge([Now EXCEPT !.syn = FALSE]))

Arrive == Net(Up /\ ~c.fin /\ c.rcv + c.len < MaxIn, Edge([Now EXCEPT !.rcv = @ + 1]))

(* The number of the closed descriptor is given out, to a connection that is  *)
(* accepted, say, or something happens to the one that has it; and that one  *)
(* closes it.  It matters as long as somebody has the RWSocket.             *)
Other(after) ==
    /\ ~c.open /\ (Referred(c) \/ pc # "wait") /\ c.len < MaxIn
    /\ c' = after /\ UNCHANGED <<pc, evs>>

GiveOut(f) == f \in Files /\ Other(Edge([Now EXCEPT !.file = f]))

TakeBack == c.file # NoFile /\ Other(CloseFd(Now))

PeerClose == Net(Up /\ ~c.fin, Edge([Now EXCEPT !.fin = TRUE]))

PeerReset == Net(pc # "start" /\ ~c.rst, Edge([Now EXCEPT !.rst = TRUE, !.syn = FALSE]))

PeerDrain ==
    Net(Up /\ c.snd > 0,
        LET d == [Now EXCEPT !.snd = @ - 1, !.nospace = FALSE]
        IN  IF c.nospace /\ "out" \in c.ep THEN Edge(d) ELSE d)

-----------------------------------------------------------------------------
Thread ==
    \/ StartRead \/ EndRefused \/ Wait \/ OnEvent
    \/ (\E exact \in BOOLEAN : OnRead(exact))
    \/ OnWrite \/ OnHup \/ EndEvent \/ Return \/ EndDisconnect

Program ==
    \/ CallWrite \/ CallClose \/ CallStopTimer \/ CallRead \/ Keep \/ Release
    \/ \E kind \in {"once", "always"} : CallAddTimer(kind)

Network == \/ Established \/ Arrive \/ PeerClose \/ PeerReset \/ PeerDrain
           \/ TakeBack \/ \E f \in Files : GiveOut(f)

Next ==
    \/ Accept
    \/ \E result \in {"done", "goes on", "fails"} : Connect(result)
    \/ Thread \/ OnTimer \/ Program \/ Network

Spec == Init /\ [][Next]_vars

(* The thread goes on and callbacks return, every turn of Dispatcher::Run    *)
(* comes to epoll_wait, whatever timers ran in it, connect() comes to an end, *)
(* and the peer takes what is sent.  A timer need not fire: RmTimer can make *)
(* the wheel forget one (TimerClock).                                       *)
ConnectEnds == Established \/ (c.syn /\ PeerReset)

FairSpec == /\ Spec
            /\ WF_vars(Thread) /\ SF_vars(Wait)
            /\ WF_vars(ConnectEnds) /\ WF_vars(PeerDrain)

-----------------------------------------------------------------------------
(* Every field has its type, and the send cache stays within its limit.     *)
TypeOK ==
    /\ DOMAIN c = DOMAIN Fresh
    /\ c.rcv \in 0 .. MaxIn /\ c.snd \in 0 .. SndCap /\ c.wbuf \in 0 .. MaxCache + 1
    /\ c.unread \in Nat /\ c.len \in Nat
    /\ c.type \subseteq {"read", "write", "disconnect", "inactions"}
    /\ c.ep \subseteq {"in", "out"} /\ evs \subseteq {"in", "out", "hup"}
    /\ c.armed \in {"no", "once", "always"}
    /\ c.pend \in Seq(Errors) /\ c.discs \in Seq(Errors)
    /\ c.file \in Files \cup {NoFile} /\ (c.inep => c.open \/ c.file # NoFile)
    /\ pc \in {"start", "opened", "refused", "wait", "batch", "events", "user"}

(* The program hears once that a connection is gone, although Recv, Send, the *)
(* EPOLLHUP of the same event and a Close can all find out.                 *)
DisconnectOnce == Len(c.discs) <= 1

(* The disconnect callback, the descriptor and the map of sockets agree as    *)
(* soon as the callback is over: a connection is closed exactly if the       *)
(* program was told, and then the map does not keep its memory.             *)
NotifiedIffClosed ==
    /\ TypeOK
    /\ c.pend = <<>> => /\ c.shutdown <=> ~c.open
                        /\ c.shutdown <=> c.discs # <<>>
                        /\ c.shutdown => ~c.mapped

(* With edges a missed one is never repeated.  When the thread comes to       *)
(* epoll_wait, bytes in the receive queue have their edge still to be        *)
(* reported, and bytes in the send cache have one to be reported or one to   *)
(* come when the peer makes room.                                           *)
NoLostEdge ==
    pc = "wait" /\ c.pend = <<>> /\ c.open /\ c.mapped /\ ~c.connecting =>
        /\ c.inep
        /\ c.rcv > 0 => c.ready
        /\ c.wbuf > 0 => "out" \in c.ep /\ (c.ready \/ c.syn \/ (c.nospace /\ c.snd > 0))

(* quick_start.md lets the disconnect callback destroy what the read callback *)
(* uses: no read callback comes after it in the same event, and none in a    *)
(* later or stale one, unless the number of the closed descriptor has been   *)
(* given out again in between.  Then Recv reads what has arrived for another *)
(* (README, known deviations).                                              *)
ReadsComeFirst ==
    [][\A i \in DOMAIN c'.calls :
          c'.calls[i][1] = "read" =>
              /\ c.discs = <<>> \/ (~c.open /\ c.file # NoFile)
              /\ \A j \in 1 .. i : c'.calls[j][1] # "disconnect"]_vars

(* Bytes that arrive are taken from the kernel, unless the connection ends:   *)
(* also those that arrive in the accept or connect callback or in any other. *)
(* Before the connect callback they wait for a timer that may not fire       *)
(* (README, known deviations).                                              *)
ArrivedIsRead == c.rcv > 0 /\ ~c.connecting ~> c.rcv = 0 \/ ~c.open \/ c.rst

(* A send cache above its limit, where Write fails, drains below it again.   *)
FullCacheDrains == c.wbuf > MaxCache ~> c.wbuf <= MaxCache \/ ~c.open

-----------------------------------------------------------------------------
(* What the documents say and the code does not do.                         *)

(* quick_start.md on the disconnect callback: what the read callback uses may *)
(* be destroyed in it.                                                      *)
NoReadAfterDisconnect ==
    [][\A i \in DOMAIN c'.calls : c'.calls[i][1] = "read" => c.discs = <<>>]_vars

(* Bytes are read also if they arrive before the connect callback.          *)
EarlyIsRead == c.rcv > 0 ~> c.rcv = 0 \/ ~c.open \/ c.rst

(* api.md on the disconnect callback: "If the opposite end actively           *)
(* disconnects, will get CEC_CLOSED".                                       *)
PeerCloseNotified == c.fin /\ c.inep ~> c.discs # <<>>

(* api.md on the write callback: "the len value in the callback must be       *)
(* greater than 0".                                                         *)
WriteLenPositive ==
    \A i \in DOMAIN c.calls : c.calls[i][1] = "write" => c.calls[i][2] > 0

(* cppnet_buffer.h on GetCanReadLength: "return size of data that can be      *)
(* read".                                                                   *)
LengthTells == c.len = c.unread

(* api.md on Write: "When the network is busy and the send cache is full, the *)
(* call to this interface may fail".  Otherwise it fails only when the       *)
(* connection is gone.                                                      *)
WriteFailsWhenFull ==
    [][CallWrite /\ ~c'.ret => c.wbuf > MaxCache \/ ~c.open \/ c.rst]_vars

(* api.md on Close: "If the connection is closed actively, the result will be *)
(* notified".                                                               *)
CloseIsNotified == c.asked => c.discs # <<>>

(* api.md on the connect callback: "If the connection is successful, will get *)
(* CEC_SUCCESS".                                                            *)
SuccessIsConnected ==
    \A i \in DOMAIN c.calls : c.calls[i] = <<"connect", "success">> => ~c.syn

(* api.md on AddTimer: "Add a timer, and the timer will be notified to the     *)
(* callback function".                                                      *)
WantedIsArmed == c.wanted => c.armed # "no"

(* OnEvent looks for the case "EPOLL weak up but socket already destroy" in    *)
(* the Event of the socket: the Event is still there.                       *)
EventIsLive == pc = "batch" => Referred(c)

=============================================================================
