------------------------------- MODULE Reactor -------------------------------
(***************************************************************************)
(* The echo server of reactor_thread2.c: one thread, a level-triggered epoll *)
(* set, and for each descriptor a list of events (struct Revent): one that   *)
(* reads, and one for each chunk that is still to be sent back.  Every       *)
(* callback is one action; the peers act between any two of them, so what    *)
(* epoll_wait has reported may have changed when it is handled.             *)
(*                                                                          *)
(* A chunk is what one recv returns, numbered in the order of arrival.       *)
(***************************************************************************)
EXTENDS Integers, Sequences, SequencesExt

CONSTANTS
    Listen,    \* the listening descriptor
    Fds,       \* the descriptors accept has for clients
    MaxConns,  \* bound on the clients that connect
    MaxChunks  \* bound on the chunks a client sends

ASSUME ReactorAssumption == /\ Fds \subseteq Nat \ {0} /\ Listen \in Nat \ Fds
                            /\ MaxConns \in Nat /\ MaxChunks \in Nat

VARIABLES
    on,      \* on[fd]: the client on the descriptor, 0 if it is closed
    events,  \* reactor->events[fd], from the head
    reg,     \* reg[fd]: the epoll set's entry, data.ptr and events
    batch,   \* ep_events that are left to handle
    cur,     \* the descriptor of the entry whose reading half is done, or 0
    again,   \* errno is EAGAIN
    full,    \* full[fd]: the socket's send buffer is full
    con,     \* how many clients have connected,
    acc,     \* and how many of them accept has taken
    peer,    \* peer[c]: up, fin, or reset: rst after up, brk after fin, gone
             \* once a send has reported it
    arr,     \* arr[c]: the chunks that have arrived,
    got,     \* got[c]: and how many of them have been received
    sent,    \* sent[c]: the chunks sent back
    alive,   \* the process is running, and reactor_run has not returned
    sigpipe  \* SIGPIPE has its default action: whoever starts the server may have it ignored

lists   == <<on, events, reg>>
clients == <<con, peer, arr>>
vars    == <<lists, batch, cur, again, full, clients, acc, got, sent, alive, sigpipe>>

Conns == 1 .. MaxConns
NoReg == [ptr |-> <<>>, mask |-> {}]
InEv(c)     == <<c, "in", 0>>
OutEv(c, k) == <<c, "out", k>>
Types(L)    == {L[i][2] : i \in DOMAIN L}

Init == /\ on = [f \in Fds |-> 0] /\ events = [f \in Fds |-> <<>>] /\ reg = [f \in Fds |-> NoReg]
        /\ batch = {} /\ cur = 0 /\ again = FALSE /\ full = [f \in Fds |-> FALSE]
        /\ con = 0 /\ acc = 0 /\ peer = [c \in Conns |-> "up"]
        /\ arr = [c \in Conns |-> 0] /\ got = [c \in Conns |-> 0]
        /\ sent = [c \in Conns |-> <<>>] /\ alive = TRUE /\ sigpipe \in BOOLEAN

-----------------------------------------------------------------------------
(* revent_add's list, and the entry it leaves in the epoll set: EPOLL_CTL_ADD *)
(* for the first event, EPOLL_CTL_MOD with the types of all of them if the   *)
(* descriptor is there.                                                     *)
AddList(L, ev) == <<ev>> \o L

AddReg(L, ev) == [ptr |-> ev, mask |-> Types(AddList(L, ev))]

(* revent_del's list, without its i-th event, and entry: EPOLL_CTL_DEL after *)
(* the last event.                                                          *)
DelList(L, i) == RemoveAt(L, i)

DelReg(L, i) ==
    IF DelList(L, i) = <<>> THEN NoReg
    ELSE [ptr |-> Head(DelList(L, i)), mask |-> Types(DelList(L, i))]

AddEvent(f, ev) == /\ events' = [events EXCEPT ![f] = AddList(@, ev)]
                   /\ reg' = [reg EXCEPT ![f] = AddReg(events[f], ev)]
DelEvent(f, i) == /\ events' = [events EXCEPT ![f] = DelList(@, i)]
                  /\ reg' = [reg EXCEPT ![f] = DelReg(events[f], i)]

(* Every event of f is deleted and freed, and f closed.                     *)
CloseAll(f) == /\ on' = [on EXCEPT ![f] = 0]
               /\ events' = [events EXCEPT ![f] = <<>>]
               /\ reg' = [reg EXCEPT ![f] = NoReg]

-----------------------------------------------------------------------------
(* The kernel's view of a client's descriptor.                              *)
Readable(f) == got[on[f]] < arr[on[f]] \/ peer[on[f]] # "up"
Writable(f) == ~full[f] \/ peer[on[f]] \in {"rst", "brk", "gone"}

(* epoll_wait: every descriptor that is ready for something it is registered *)
(* for.  It may report a socket where recv then finds nothing.              *)
Ready(f, spurious) == reg[f].mask \cap ((IF Readable(f) \/ f \in spurious THEN {"in"} ELSE {})
                                         \cup (IF Writable(f) THEN {"out"} ELSE {}))

Wait ==
    /\ alive /\ batch = {}
    /\ \E spurious \in SUBSET {f \in Fds : on[f] # 0} :
         batch' = {e \in {[fd |-> f, ptr |-> reg[f].ptr, mask |-> Ready(f, spurious)] :
                            f \in {g \in Fds : on[g] # 0}} : e.mask # {}}
                  \cup (IF acc < con THEN {[fd |-> Listen, ptr |-> <<>>, mask |-> {"in"}]} ELSE {})
    /\ batch' # {}
    /\ UNCHANGED <<lists, cur, again, full, clients, acc, got, sent, alive, sigpipe>>

(* A signal ends the waiting: epoll_wait fails with EINTR, reactor_run tests *)
(* for EAGAIN and returns.                                                  *)
Interrupted ==
    /\ alive /\ batch = {} /\ alive' = FALSE
    /\ UNCHANGED <<lists, batch, cur, again, full, clients, acc, got, sent, sigpipe>>

(* Mutant: the descriptor is read from the event again for the writing half. *)
ReadHalfForgets(e) ==
    /\ batch' = (batch \ {e}) \cup (IF "out" \in e.mask THEN {[e EXCEPT !.mask = {"out"}]} ELSE {})
    /\ UNCHANGED cur

(* Mutant: an entry is read or written, not both.                           *)
ReadHalfOnly(e) == batch' = batch \ {e} /\ UNCHANGED cur

(* The loop goes on after the reading half of entry e: to its writing half,  *)
(* if there is one.                                                         *)
ReadHalfDone(e) ==
    /\ batch' = (batch \ {e}) \cup (IF "out" \in e.mask THEN {[e EXCEPT !.mask = {"out"}]} ELSE {})
    /\ cur' = IF "out" \in e.mask THEN e.fd ELSE 0

Reading(e) == /\ alive /\ cur = 0 /\ "in" \in e.mask /\ ReadHalfDone(e)
              /\ UNCHANGED <<clients, alive, sigpipe>>

(* accept_callback.  accept fails if no descriptor is free (EMFILE), or for   *)
(* want of something else, and otherwise takes the lowest one, which may not *)
(* go into the epoll set and is closed again then.                          *)
Accept(e) ==
    /\ e.fd = Listen /\ Reading(e)
    /\ \/ again' = FALSE /\ UNCHANGED <<lists, full, acc>>
       \/ LET free == {f \in Fds : on[f] = 0}
              f    == CHOOSE x \in free : \A y \in free : x <= y
          IN  /\ free # {} /\ acc' = acc + 1
              /\ on' = [on EXCEPT ![f] = acc'] /\ AddEvent(f, InEv(acc'))
              /\ full' = [full EXCEPT ![f] = FALSE]
              /\ UNCHANGED again
       \/ /\ \E f \in Fds : on[f] = 0
          /\ acc' = acc + 1 /\ again' = FALSE
          /\ UNCHANGED <<lists, full>>
    /\ UNCHANGED <<got, sent>>

(* recv_callback with data: an event that sends them back is added.          *)
RecvData(e) ==
    /\ e.fd # Listen /\ Reading(e)
    /\ LET c == on[e.fd] IN
         /\ got[c] < arr[c]
         /\ got' = [got EXCEPT ![c] = @ + 1]
         /\ AddEvent(e.fd, OutEv(c, got[c] + 1))
    /\ again' = FALSE  \* EEXIST
    /\ UNCHANGED <<on, full, acc, sent>>

(* Mutant: the end of the data is taken for nothing there.                  *)
RecvFailsKeep(e) ==
    /\ e.fd # Listen /\ Reading(e)
    /\ LET c == on[e.fd] IN
         /\ got[c] = arr[c]
         /\ IF peer[c] = "rst" THEN again' = FALSE /\ CloseAll(e.fd)
            ELSE again' = (again \/ peer[c] = "up") /\ UNCHANGED lists
    /\ UNCHANGED <<full, acc, got, sent>>

(* recv_callback without: nothing there (EAGAIN), the end of the data (recv   *)
(* leaves errno as it was, also if a reset has followed the end or has been  *)
(* reported before), or an error.                                           *)
RecvFails(e) ==
    /\ e.fd # Listen /\ Reading(e)
    /\ LET c == on[e.fd] IN
         /\ got[c] = arr[c]
         /\ again' = CASE peer[c] = "up" -> TRUE
                       [] peer[c] = "rst" -> FALSE
                       [] OTHER -> again
    /\ IF again' THEN UNCHANGED lists ELSE CloseAll(e.fd)
    /\ UNCHANGED <<full, acc, got, sent>>

(* The event reactor_run finds for the writing half: the first that sends.   *)
Outs(f) == {i \in DOMAIN events[f] : events[f][i][2] = "out"}
FirstOut(f) == Min(Outs(f))

Writing(e) == /\ alive /\ cur \in {0, e.fd} /\ e.mask = {"out"}
              /\ batch' = batch \ {e} /\ cur' = 0
              /\ UNCHANGED <<con, arr, acc, got, sigpipe>>

(* The events of the descriptor have gone with its reading half.             *)
NothingToSend(e) ==
    /\ Writing(e) /\ Outs(e.fd) = {}
    /\ UNCHANGED <<lists, again, full, peer, sent, alive>>

(* Mutant: the event stays.                                                 *)
SendOkKeeps(e) ==
    /\ Writing(e) /\ Outs(e.fd) # {}
    /\ LET c == on[e.fd] ev == events[e.fd][FirstOut(e.fd)] IN
         /\ peer[c] \in {"up", "fin"}
         /\ sent' = [sent EXCEPT ![c] = Append(@, ev[3])]
    /\ \E b \in BOOLEAN : full' = [full EXCEPT ![e.fd] = b]
    /\ UNCHANGED <<lists, again, peer, alive>>

(* send_callback, and the socket takes the chunk; or as much of it as fits:  *)
(* the event is freed all the same and the rest lost (README, known         *)
(* deviations).                                                             *)
SendOk(e) ==
    /\ Writing(e) /\ Outs(e.fd) # {}
    /\ LET c == on[e.fd] ev == events[e.fd][FirstOut(e.fd)] IN
         /\ peer[c] \in {"up", "fin"}
         /\ sent' = [sent EXCEPT ![c] = Append(@, ev[3])]
         /\ DelEvent(e.fd, FirstOut(e.fd))
    /\ \E b \in BOOLEAN : full' = [full EXCEPT ![e.fd] = b]
    /\ UNCHANGED <<on, again, peer, alive>>

(* ... and the connection has been reset (ECONNRESET).                       *)
SendReset(e) ==
    /\ Writing(e) /\ Outs(e.fd) # {}
    /\ LET c == on[e.fd] IN
         /\ peer[c] = "rst"
         /\ peer' = [peer EXCEPT ![c] = "gone"]
         /\ DelEvent(e.fd, FirstOut(e.fd))
    /\ again' = FALSE
    /\ UNCHANGED <<on, full, sent, alive>>

(* ... and it had been before (EPIPE): the signal ends the process, or every *)
(* event is deleted and the descriptor closed.                              *)
SendPipe(e) ==
    /\ Writing(e) /\ Outs(e.fd) # {}
    /\ peer[on[e.fd]] \in {"brk", "gone"}
    /\ IF sigpipe THEN alive' = FALSE /\ UNCHANGED <<lists, again>>
                  ELSE again' = FALSE /\ CloseAll(e.fd) /\ UNCHANGED alive
    /\ UNCHANGED <<full, peer, sent>>

-----------------------------------------------------------------------------
(* The clients.  One that has been closed here has nothing more to do, and    *)
(* the end of the server closes all of them.                                *)
Present(c) == alive /\ c <= con /\ (c > acc \/ \E f \in Fds : on[f] = c)
Server == <<lists, batch, cur, again, acc, got, sent, alive, sigpipe>>

Connect == /\ alive /\ con < MaxConns /\ con' = con + 1
           /\ UNCHANGED <<Server, full, peer, arr>>

SendChunk(c) == /\ Present(c) /\ peer[c] = "up" /\ arr[c] < MaxChunks
                /\ arr' = [arr EXCEPT ![c] = @ + 1]
                /\ UNCHANGED <<Server, full, con, peer>>

Finish(c) == /\ Present(c) /\ peer[c] = "up"
             /\ peer' = [peer EXCEPT ![c] = "fin"]
             /\ UNCHANGED <<Server, full, con, arr>>

Reset(c) == /\ Present(c) /\ peer[c] \in {"up", "fin"}
            /\ peer' = [peer EXCEPT ![c] = IF @ = "up" THEN "rst" ELSE "brk"]
            /\ UNCHANGED <<Server, full, con, arr>>

PeerReads(f) == /\ alive /\ on[f] # 0 /\ full[f] /\ peer[on[f]] \in {"up", "fin"}
                /\ full' = [full EXCEPT ![f] = FALSE]
                /\ UNCHANGED <<Server, clients>>

Loop == \/ Wait
        \/ \E e \in batch : \/ Accept(e) \/ RecvData(e) \/ RecvFails(e)
                            \/ NothingToSend(e) \/ SendOk(e) \/ SendReset(e) \/ SendPipe(e)

Next == \/ Loop \/ Interrupted \/ Connect
        \/ \E c \in Conns : SendChunk(c) \/ Finish(c) \/ Reset(c)
        \/ \E f \in Fds : PeerReads(f)

(* The loop goes on as long as something is ready, and a client reads what   *)
(* it is sent.                                                              *)
Spec == Init /\ [][Next]_vars /\ WF_vars(Loop) /\ \A f \in Fds : WF_vars(PeerReads(f))

-----------------------------------------------------------------------------
Events == {InEv(c) : c \in Conns} \cup {OutEv(c, k) : c \in Conns, k \in 1 .. MaxChunks}

TypeOK ==
    /\ on \in [Fds -> 0 .. MaxConns]
    /\ \A f \in Fds : events[f] \in Seq(Events) /\ reg[f].mask \subseteq {"in", "out"}
    /\ \A e \in batch : e.fd \in Fds \cup {Listen} /\ e.mask \subseteq {"in", "out"} /\ e.mask # {}
    /\ cur \in Fds \cup {0} /\ again \in BOOLEAN /\ full \in [Fds -> BOOLEAN]
    /\ con \in 0 .. MaxConns /\ acc \in 0 .. con
    /\ peer \in [Conns -> {"up", "fin", "rst", "brk", "gone"}]
    /\ \A c \in Conns : got[c] \in 0 .. arr[c] /\ arr[c] <= MaxChunks /\ Len(sent[c]) <= got[c]
    /\ alive \in BOOLEAN /\ sigpipe \in BOOLEAN

(* The epoll set asks for exactly the types that the list of a descriptor    *)
(* has events for, and points to an event of that list; a closed descriptor  *)
(* has no list.  When an entry of epoll_wait is taken up its event has not    *)
(* been freed, although other descriptors' callbacks have run since:          *)
(* reactor_run reads the descriptor from it.                                *)
EventsAreLive ==
    /\ TypeOK
    /\ \A f \in Fds : /\ reg[f].mask = Types(events[f])
                      /\ events[f] = <<>> <=> on[f] = 0
                      /\ on[f] # 0 => Contains(events[f], reg[f].ptr)
    /\ \A e \in batch : e.fd \in Fds /\ e.fd # cur => Contains(events[e.fd], e.ptr)

(* The events of a descriptor are those of the client that is on it now,     *)
(* also when the number has been used before: one that reads, and one for    *)
(* each chunk received and not sent back, so no chunk is sent twice, to      *)
(* another client, or forgotten before the connection breaks.               *)
ChunksAccounted == \A f \in Fds : LET c == on[f] IN c # 0 =>
    /\ {i \in DOMAIN events[f] : events[f][i] = InEv(c)} # {}
    /\ \A i \in DOMAIN events[f] : events[f][i] \in {InEv(c)} \cup {OutEv(c, k) : k \in 1 .. got[c]}
    /\ IsInjective(sent[c]) /\ IsInjective(events[f])
    /\ \A k \in 1 .. got[c] : Contains(sent[c], k) => ~Contains(events[f], OutEv(c, k))
    /\ peer[c] # "gone" =>
         \A k \in 1 .. got[c] : Contains(sent[c], k) \/ Contains(events[f], OutEv(c, k))

(* A client that has finished or reset the connection loses its descriptor   *)
(* in the end, if from some time on no call leaves EAGAIN in errno: recv's 0  *)
(* leaves errno alone, and an idle client's EAGAIN before it is taken for its *)
(* own (README, known deviations).                                          *)
GoneIsClosed ==
    <>[]~again => \A f \in Fds, c \in Conns :
        (on[f] = c /\ peer[c] # "up") ~> (on[f] # c \/ ~alive)

(* A chunk that has been received is sent back, or its connection closed, if  *)
(* the clients stop sending one day: every chunk that recv_callback takes is *)
(* put before the others, and reactor_run sends the first, so a client that  *)
(* goes on sending keeps its earlier chunks waiting (README, known           *)
(* deviations).                                                             *)
ReceivedIsAnswered ==
    <>[][arr' = arr]_vars => \A c \in Conns, k \in 1 .. MaxChunks :
        got[c] >= k ~> (Contains(sent[c], k) \/ (\A f \in Fds : on[f] # c) \/ peer[c] = "gone" \/ ~alive)

(* The chunks go back in the order in which they came: recv_callback says    *)
(* that what is received is sent back.  It does not hold (README, known      *)
(* deviations).                                                             *)
SentInOrder == \A c \in Conns : \A i \in 1 .. Len(sent[c]) - 1 : sent[c][i] < sent[c][i + 1]

(* What does not hold either: a client that has reset the connection does    *)
(* not end the server, and neither does a signal: reactor_run says that it   *)
(* then goes on with epoll_wait.                                            *)
ServerSurvives == alive

(* ... and one that finishes has been sent everything it was read.          *)
AnsweredBeforeClose ==
    [][\A f \in Fds, c \in Conns :
          on[f] = c /\ on'[f] # c /\ peer[c] = "fin" => Len(sent[c]) = got[c]]_vars
=============================================================================
