-------------------------- MODULE ConnectionProofs --------------------------
(***************************************************************************)
(* Proofs about Connection, for every size of the kernel's send queue, of    *)
(* the send cache and of what arrives.  Like the run they assume that the     *)
(* program does not call Write or Close in the disconnect callback.          *)
(***************************************************************************)
EXTENDS Connection, SequenceTheorems, TLAPS

(* What the number of the descriptor can stand for.                         *)
AnyFile == Files \cup {NoFile}

(* The types of the fields, and what the kernel and the buffer keep true.    *)
Record(s) ==
    [open : BOOLEAN, file : AnyFile, syn : BOOLEAN, rcv : 0 .. MaxIn, fin : BOOLEAN, rst : BOOLEAN,
     snd : 0 .. SndCap, nospace : BOOLEAN, inep : BOOLEAN, ready : BOOLEAN,
     wbuf : 0 .. MaxCache + 1, unread : Nat, len : Nat,
     type : SUBSET {"read", "write", "disconnect", "inactions"}, ep : SUBSET {"in", "out"},
     shutdown : BOOLEAN, connecting : BOOLEAN, timerId : BOOLEAN,
     mapped : BOOLEAN, armed : {"no", "once", "always"},
     held : BOOLEAN, asked : BOOLEAN, wanted : BOOLEAN, ret : BOOLEAN,
     pend : {s.pend}, discs : {s.discs}, calls : {s.calls}]

Fields(s) ==
    /\ s \in Record(s)
    /\ s.unread <= s.len
    /\ s.inep => s.open \/ s.file # NoFile
    /\ s.ready => s.inep

(* The three stages of the end: nobody was told, the callback runs, it is over. *)
Alive(s) == s.pend = <<>> /\ s.discs = <<>> /\ ~s.shutdown /\ s.open

Telling(s) ==
    \E err \in Errors :
        /\ s.pend = <<err>> /\ s.discs = <<err>>
        /\ ~s.shutdown /\ ~s.mapped
        /\ err = "success" => ~s.open

Gone(s) ==
    /\ s.pend = <<>> /\ s.shutdown /\ ~s.open /\ ~s.mapped
    /\ \E err \in Errors : s.discs = <<err>>

Stages(s) == Alive(s) \/ Telling(s) \/ Gone(s)

(* The bits of _event_type and of the mask of epoll follow each other.       *)
Masks(s) ==
    s.open => /\ "write" \in s.type => "out" \in s.ep
              /\ s.ep # {} => s.inep

(* Before the connection is open nothing is registered and nobody holds it.   *)
Early(s) == 
    /\ Alive(s) /\ ~s.held /\ ~s.inep
    /\ s.wbuf = 0 /\ s.ep = {} /\ s.type = {}

(* Bytes in the send cache have an edge: on the ready list, or still to come. *)
Due(s, told) == s.ready \/ s.syn \/ (s.nospace /\ s.snd > 0) \/ told

OutKept(s, told) == s.wbuf > 0 => "out" \in s.ep /\ Due(s, told)

InKept(s, told) == s.inep /\ "in" \in s.ep /\ (s.rcv > 0 => s.ready \/ told)

Kept(s, p, es) ==
    s.open /\ s.mapped /\ ~s.connecting =>
        /\ p \in {"wait", "batch", "events", "user"} => InKept(s, "in" \in es)
        /\ p \in {"opened", "wait", "batch", "events", "user"} => OutKept(s, "out" \in es)

(* The program counter with the events taken from epoll.                     *)
Events(s, p, es) ==
    /\ p \in {"start", "opened", "refused", "wait", "batch", "events", "user"}
    /\ es \subseteq {"in", "out", "hup"}
    /\ p \in {"start", "opened", "refused", "wait"} => es = {}
    /\ s.open /\ "in" \in es => s.rcv > 0 \/ s.fin \/ s.rst
    /\ p = "start" => Early(s) /\ ~s.connecting
    /\ s.connecting => Early(s) /\ p = "wait"
    /\ p = "opened" => "in" \notin s.ep /\ "read" \notin s.type
    /\ p = "refused" => ~s.mapped

Base(s, p, es) == Fields(s) /\ Stages(s) /\ Masks(s) /\ Events(s, p, es)

Good(s, p, es) == Base(s, p, es) /\ Kept(s, p, es)

IndInv == Good(c, pc, evs)

(* A step of the open connection, outside the disconnect callback.           *)
Running(s, p) == p # "start" /\ ~s.connecting /\ s.pend = <<>>

-----------------------------------------------------------------------------
(* OnDisConnect of a connection nobody was told about calls the callback    *)
(* and takes it out of the map.                                             *)
LEMMA TellingOne ==
    ASSUME NEW s, s \in Record(s), ~s.shutdown, s.pend = <<>>, s.discs = <<>>,
           NEW err \in Errors
    PROVE  /\ OnDisConnect(s, err) =
                 [s EXCEPT !.mapped = FALSE, !.pend = <<err>>, !.discs = <<err>>,
                           !.calls = Append(s.calls, <<"disconnect", err>>)]
           /\ OnDisConnect(s, err) \in Record(OnDisConnect(s, err))
  <1>1. <<err>> \o <<>> = <<err>> /\ Append(<<>>, err) = <<err>>
    OBVIOUS
  <1>2. OnDisConnect(s, err) =
                 [s EXCEPT !.mapped = FALSE, !.pend = <<err>>, !.discs = <<err>>,
                           !.calls = Append(s.calls, <<"disconnect", err>>)]
    BY <1>1 DEF OnDisConnect, Told, Record
  <1> QED
    BY <1>2 DEF Record

(* What closing a descriptor and taking it out of epoll leave as it is.      *)
Apart(s, v) ==
    /\ v.wbuf = s.wbuf /\ v.unread = s.unread /\ v.len = s.len /\ v.ep = s.ep
    /\ v.shutdown = s.shutdown /\ v.connecting = s.connecting /\ v.mapped = s.mapped
    /\ v.held = s.held /\ v.pend = s.pend /\ v.discs = s.discs /\ v.calls = s.calls

(* close() leaves a record of the same types.                               *)
LEMMA ClosedFd ==
    ASSUME NEW s, Fields(s)
    PROVE  /\ Fields(CloseFd(s)) /\ Apart(s, CloseFd(s))
           /\ ~CloseFd(s).open /\ CloseFd(s).type = s.type
  <1> DEFINE v == CloseFd(s)
  <1> /\ 0 \in 0 .. MaxIn /\ 0 \in 0 .. SndCap /\ NoFile \in AnyFile
    BY CapAssumption DEF AnyFile
  <1>1. /\ v.wbuf = s.wbuf /\ v.unread = s.unread /\ v.len = s.len /\ v.ep = s.ep
        /\ v.shutdown = s.shutdown /\ v.connecting = s.connecting /\ v.mapped = s.mapped
        /\ v.held = s.held /\ v.pend = s.pend /\ v.discs = s.discs /\ v.calls = s.calls
        /\ v.type = s.type /\ v.open = FALSE /\ v.inep = FALSE /\ v.ready = FALSE
    BY DEF CloseFd, Fields, Record
  <1>2. v \in Record(v)
    <2>1. v \in Record(s)
      BY DEF CloseFd, Fields, Record
    <2> HIDE DEF v
    <2> QED
      BY <1>1, <2>1 DEF Record
  <1> HIDE DEF v
  <1>3. Fields(v) /\ Apart(s, v)
    BY <1>1, <1>2 DEF Fields, Apart
  <1> QED
    BY <1>1, <1>3 DEF v

(* EPOLL_CTL_DEL leaves a record of the same types.                         *)
LEMMA Deleted ==
    ASSUME NEW s, Fields(s)
    PROVE  /\ Fields(DelEvent(s)) /\ Apart(s, DelEvent(s))
           /\ DelEvent(s).open = s.open
           /\ DelEvent(s).type = IF InSet(s) THEN {} ELSE s.type
  <1> DEFINE v == [s EXCEPT !.inep = FALSE, !.ready = FALSE, !.type = {}]
  <1>1. Fields(v) /\ v.open = s.open /\ v.type = {}
    BY DEF Fields, Record
  <1>2. Apart(s, v) /\ Apart(s, s)
    BY DEF Fields, Record, Apart
  <1> HIDE DEF v
  <1>3. DelEvent(s) = IF InSet(s) THEN v ELSE s
    BY DEF DelEvent, v
  <1> QED
    BY <1>1, <1>2, <1>3

(* Both, one after the other, at the end of the connection.                 *)
LEMMA CutOff ==
    ASSUME NEW s, Fields(s)
    PROVE  LET v == CloseFd(DelEvent(s))
           IN  /\ Fields(v) /\ Apart(s, v) /\ ~v.open
               /\ v.type = IF InSet(s) THEN {} ELSE s.type
  <1> DEFINE e == DelEvent(s)
             v == CloseFd(e)
  <1>1. Fields(e) /\ Apart(s, e) /\ e.type = IF InSet(s) THEN {} ELSE s.type
    BY Deleted
  <1> HIDE DEF e
  <1>2. Fields(v) /\ Apart(e, v) /\ ~v.open /\ v.type = e.type
    BY <1>1, ClosedFd
  <1> HIDE DEF v
  <1>3. Apart(s, v)
    BY <1>1, <1>2 DEF Apart
  <1> QED
    BY <1>1, <1>2, <1>3 DEF e, v

(* A closed connection stays one as long as its stage does.                 *)
LEMMA ClosedGood ==
    ASSUME NEW s, NEW v, NEW p, NEW es, Base(s, p, es), ~s.open, Fields(v), ~v.open,
           v.pend = s.pend, v.discs = s.discs, v.shutdown = s.shutdown, v.mapped = s.mapped,
           v.connecting = s.connecting, v.ep = s.ep, v.type \subseteq s.type
    PROVE  Good(v, p, es)
  <1>1. Stages(v)
    BY DEF Base, Stages, Alive, Telling, Gone
  <1>2. Masks(v) /\ Kept(v, p, es)
    BY DEF Masks, Kept
  <1>3. Events(v, p, es)
    BY DEF Base, Events, Early, Alive
  <1> QED
    BY <1>1, <1>2, <1>3 DEF Good, Base

(* OnDisConnect of a connection that is gone tells nothing; it can take the   *)
(* number of another out of epoll and close it.                             *)
LEMMA AfterGone ==
    ASSUME NEW s, Fields(s), Gone(s), NEW err \in Errors
    PROVE  LET v == OnDisConnect(s, err)
           IN  /\ Fields(v) /\ Apart(s, v) /\ ~v.open
               /\ v.type \subseteq s.type
  <1>1. [s EXCEPT !.mapped = FALSE] = s
    BY DEF Fields, Gone, Record
  <1>2. [s EXCEPT !.shutdown = TRUE] = s
    BY DEF Fields, Gone, Record
  <1>3. OnDisConnect(s, err) = IF err = "success" THEN s ELSE CloseFd(DelEvent(s))
    BY <1>1, <1>2 DEF OnDisConnect, FinishDisconnect, Gone
  <1>4. Apart(s, s)
    BY DEF Apart
  <1> QED
    BY <1>3, <1>4, CutOff DEF Gone

(* OnDisConnect keeps the invariant, whatever was being sent or received.   *)
LEMMA DisconnectGood ==
    ASSUME NEW s, NEW p, NEW es, Base(s, p, es), Running(s, p),
           NEW err \in Errors \ {"success"}
    PROVE  Good(OnDisConnect(s, err), p, es)
  <1>1. CASE Alive(s)
    <2> DEFINE t == OnDisConnect(s, err)
    <2> s \in Record(s)
      BY DEF Base, Fields
    <2>1. t \in Record(t) /\ t = [s EXCEPT !.mapped = FALSE, !.pend = <<err>>, !.discs = <<err>>,
                             !.calls = Append(s.calls, <<"disconnect", err>>)]
      BY <1>1, TellingOne DEF Base, Fields, Alive
    <2> HIDE DEF t
    <2>2. Telling(t)
      BY <1>1, <2>1 DEF Telling, Alive, Record
    <2>3. Fields(t)
      BY <2>1 DEF Base, Fields, Record
    <2>4. Masks(t)
      BY <2>1 DEF Base, Masks, Record
    <2>5. Events(t, p, es)
      BY <2>1 DEF Base, Events, Running, Record
    <2>6. Kept(t, p, es)
      BY <2>1 DEF Kept, Record
    <2> QED
      BY <2>2, <2>3, <2>4, <2>5, <2>6 DEF Good, Base, Stages, t
  <1>2. CASE Gone(s)
    <2> DEFINE v == OnDisConnect(s, err)
    <2>1. Fields(v) /\ Apart(s, v) /\ ~v.open /\ v.type \subseteq s.type
      BY <1>2, AfterGone DEF Base
    <2> HIDE DEF v
    <2> QED
      BY <1>2, <2>1, ClosedGood DEF Apart, Gone, v
  <1> QED
    BY <1>1, <1>2 DEF Base, Stages, Telling, Running
(* The fields the invariant is about are the same: everything but the timer,  *)
(* the read buffer, the flags of the program and the callbacks told.         *)
Same(s, t) ==
    /\ t.open = s.open /\ t.syn = s.syn /\ t.rcv = s.rcv /\ t.fin = s.fin /\ t.rst = s.rst
    /\ t.snd = s.snd /\ t.nospace = s.nospace /\ t.inep = s.inep /\ t.ready = s.ready
    /\ t.wbuf = s.wbuf /\ t.ep = s.ep /\ t.type = s.type /\ t.shutdown = s.shutdown
    /\ t.connecting = s.connecting /\ t.mapped = s.mapped /\ t.held = s.held
    /\ t.pend = s.pend /\ t.discs = s.discs

(* Steps that leave those fields alone keep the invariant.                  *)
LEMMA Frame ==
    ASSUME NEW s, NEW t, NEW p, NEW es, Same(s, t), Fields(t)
    PROVE  /\ Base(s, p, es) => Base(t, p, es)
           /\ Good(s, p, es) => Good(t, p, es)
  <1>1. (Alive(s) => Alive(t)) /\ (Gone(s) => Gone(t)) /\ (Telling(s) => Telling(t))
    BY DEF Same, Alive, Gone, Telling
  <1>2. Masks(s) => Masks(t)
    BY DEF Same, Masks
  <1>3. Early(s) => Early(t)
    BY <1>1 DEF Same, Early
  <1>4. Events(s, p, es) => Events(t, p, es)
    BY <1>3 DEF Same, Events
  <1>5. Kept(s, p, es) => Kept(t, p, es)
    BY DEF Same, Kept, InKept, OutKept, Due
  <1> QED
    BY <1>1, <1>2, <1>4, <1>5 DEF Good, Base, Stages

(* StopTimer keeps the invariant.                                           *)
LEMMA StopTimerGood ==
    ASSUME NEW s, NEW p, NEW es, Good(s, p, es)
    PROVE  Good(StopTimer(s), p, es)
  <1>1. CASE ~s.timerId
    BY <1>1 DEF StopTimer
  <1>2. CASE s.timerId
    <2> DEFINE t == [s EXCEPT !.armed = "no", !.timerId = FALSE]
    <2>1. Same(s, t) /\ Fields(t)
      BY DEF Good, Base, Fields, Record, Same
    <2> QED
      BY <1>2, <2>1, Frame DEF StopTimer
  <1> QED
    BY <1>1, <1>2

(* Close up to OnDisConnect: out of epoll and closed.                       *)
Shut(s) == CloseFd(DelEvent([s EXCEPT !.type = @ \cup {"disconnect"}]))

(* Close of a descriptor that epoll has an entry for, and that was not closed *)
(* before, ends the connection and tells the program.  When it is gone, it   *)
(* closes the number and tells nothing.                                     *)
LEMMA CloseEnds ==
    ASSUME NEW s, NEW p, NEW es, Good(s, p, es), Running(s, p),
           ~("disconnect" \in s.type \/ ~InSet(s))
    PROVE  /\ Fields(Shut(s)) /\ Shut(s).calls = s.calls
           /\ \/ Close(s) = OnDisConnect(Shut(s), "success")
              \/ Close(s) = StopTimer(OnDisConnect(Shut(s), "success"))
           /\ Good(OnDisConnect(Shut(s), "success"), p, es)
  <1> DEFINE t == [s EXCEPT !.type = @ \cup {"disconnect"}]
             u == CloseFd(DelEvent(t))
             d == OnDisConnect(u, "success")
  <1> Fields(s) /\ s \in Record(s) /\ Base(s, p, es)
    BY DEF Good, Base, Fields
  <1>1. Fields(t) /\ Apart(s, t)
    BY DEF Fields, Record, Apart
  <1>2. InSet(t)
    <2>1. /\ t.inep = s.inep /\ t.open = s.open /\ t.file = s.file /\ t.rcv = s.rcv
          /\ t.fin = s.fin /\ t.rst = s.rst /\ t.syn = s.syn /\ t.snd = s.snd
      BY DEF Record
    <2> HIDE DEF t
    <2> QED
      BY <2>1 DEF InSet, Behind
  <1>3. Close(s) = IF d.pend = s.pend THEN StopTimer(d) ELSE d
    BY DEF Close
  <1> HIDE DEF t
  <1>4. Fields(u) /\ Apart(t, u) /\ ~u.open /\ u.type = {}
    BY <1>1, <1>2, CutOff
  <1>5. Apart(s, u)
    BY <1>1, <1>4 DEF Apart
  <1> HIDE DEF u
  <1>6. Good(d, p, es)
    <2>1. CASE Alive(s)
      <3>1. /\ d = [u EXCEPT !.mapped = FALSE, !.pend = <<"success">>, !.discs = <<"success">>,
                             !.calls = Append(u.calls, <<"disconnect", "success">>)]
            /\ d \in Record(d)
        BY <1>4, <1>5, <2>1, TellingOne DEF Apart, Alive, Errors, Fields
      <3> HIDE DEF d
      <3>2. /\ ~d.mapped /\ d.pend = <<"success">> /\ d.discs = <<"success">> /\ ~d.shutdown
            /\ ~d.open /\ d.unread <= d.len /\ (d.ready => d.inep)
            /\ (d.inep => d.open \/ d.file # NoFile)
            /\ d.connecting = u.connecting /\ d.ep = u.ep /\ d.type = {}
        BY <1>4, <1>5, <2>1, <3>1 DEF Apart, Alive, Fields, Record
      <3>3. Telling(d) /\ Fields(d)
        BY <3>1, <3>2 DEF Telling, Errors, Fields
      <3>4. Masks(d) /\ Kept(d, p, es)
        BY <3>2 DEF Masks, Kept
      <3>5. Events(d, p, es)
        BY <1>5, <3>2 DEF Base, Events, Running, Apart
      <3> QED
        BY <3>3, <3>4, <3>5 DEF Good, Base, Stages
    <2>2. CASE Gone(s)
      <3>1. Gone(u)
        BY <1>4, <1>5, <2>2 DEF Gone, Apart
      <3>2. Fields(d) /\ Apart(u, d) /\ ~d.open /\ d.type \subseteq u.type
        BY <1>4, <3>1, AfterGone DEF Errors
      <3> HIDE DEF d
      <3> QED
        BY <1>4, <1>5, <2>2, <3>2, ClosedGood DEF Apart, Gone
    <2> QED
      BY <2>1, <2>2 DEF Base, Stages, Telling, Running
  <1>7. u.calls = s.calls /\ (Close(s) = d \/ Close(s) = StopTimer(d))
    BY <1>3, <1>5 DEF Apart
  <1> HIDE DEF d
  <1>8. u = Shut(s) /\ d = OnDisConnect(u, "success")
    BY DEF d, u, t, Shut
  <1> QED
    BY <1>4, <1>6, <1>7, <1>8

(* Close keeps the invariant.                                               *)
LEMMA CloseGood ==
    ASSUME NEW s, NEW p, NEW es, Good(s, p, es), Running(s, p)
    PROVE  Good(Close(s), p, es)
  <1> s \in Record(s)
    BY DEF Good, Base, Fields
  <1>1. CASE "disconnect" \in s.type \/ ~InSet(s)
    <2> DEFINE t == [s EXCEPT !.type = @ \cup {"disconnect"}]
    <2>1. Close(s) = StopTimer(t)
      BY <1>1 DEF Close
    <2>2. Fields(t)
      BY DEF Good, Base, Fields, Record
    <2>3. /\ t.open = s.open /\ t.syn = s.syn /\ t.rcv = s.rcv /\ t.fin = s.fin /\ t.rst = s.rst
          /\ t.snd = s.snd /\ t.nospace = s.nospace /\ t.inep = s.inep /\ t.ready = s.ready
          /\ t.wbuf = s.wbuf /\ t.ep = s.ep /\ t.type = s.type \cup {"disconnect"}
          /\ t.shutdown = s.shutdown /\ t.connecting = s.connecting /\ t.mapped = s.mapped
          /\ t.pend = s.pend /\ t.discs = s.discs
      BY DEF Record
    <2> HIDE DEF t
    <2>4. Stages(t) /\ Masks(t)
      BY <2>3 DEF Good, Base, Stages, Alive, Gone, Telling, Masks
    <2>5. Events(t, p, es)
      BY <2>3 DEF Good, Base, Events, Running
    <2>6. Kept(t, p, es)
      BY <2>3 DEF Good, Kept, InKept, OutKept, Due
    <2> QED
      BY <2>1, <2>2, <2>4, <2>5, <2>6, StopTimerGood DEF Good, Base
  <1>2. CASE ~("disconnect" \in s.type \/ ~InSet(s))
    BY <1>2, CloseEnds, StopTimerGood
  <1> QED
    BY <1>1, <1>2

(* epoll takes the number: the descriptor is open, or it was given out again *)
(* and the epoll set has an entry for it exactly if the Event says so.      *)
Registers(s) ==
    s.open \/ (s.file # NoFile /\ ("inactions" \in s.type) = InSet(s))

(* AddEvent on such a descriptor registers it; an edge that is there already  *)
(* puts it on the ready list.                                               *)
LEMMA AddEventDone ==
    ASSUME NEW s, Fields(s), Registers(s), NEW flag \in {"in", "out"}
    PROVE  LET r == s.ready \/ Poll([s EXCEPT !.ep = @ \cup {flag}]) # {}
               n == s.nospace \/ s.snd = SndCap
               t == [s EXCEPT !.ep = @ \cup {flag}, !.inep = TRUE, !.ready = r,
                              !.type = @ \cup {"inactions"}, !.ret = TRUE, !.nospace = n]
           IN  AddEvent(s, flag) = t /\ Fields(t)
  <1> DEFINE r == s.ready \/ Poll([s EXCEPT !.ep = @ \cup {flag}]) # {}
             n == s.nospace \/ s.snd = SndCap
             t == [s EXCEPT !.ep = @ \cup {flag}, !.inep = TRUE, !.ready = r,
                            !.type = @ \cup {"inactions"}, !.ret = TRUE, !.nospace = n]
             m == [s EXCEPT !.ep = @ \cup {flag}]
  <1>0. ~(~s.open /\ (s.file = NoFile \/ ("inactions" \in s.type) # InSet(s)))
    BY DEF Registers
  <1>1. AddEvent(s, flag) = t
    <2>1. AddEvent(s, flag) = Polled([m EXCEPT !.inep = TRUE, !.ready = @ \/ Poll(m) # {},
                              !.type = @ \cup {"inactions"}, !.ret = TRUE])
      BY <1>0 DEF AddEvent
    <2> QED
      BY <2>1 DEF Polled, Fields, Record
  <1>2. r \in BOOLEAN /\ n \in BOOLEAN
    BY DEF Fields, Record
  <1> HIDE DEF r, n
  <1>3. s.ep \cup {flag} \in SUBSET {"in", "out"}
    BY DEF Fields, Record
  <1>4. s.type \cup {"inactions"} \in SUBSET {"read", "write", "disconnect", "inactions"}
    BY DEF Fields, Record
  <1>5. t \in Record(t)
    BY <1>2, <1>3, <1>4 DEF Fields, Record
  <1>6. t.unread <= t.len /\ t.inep /\ (t.open \/ t.file # NoFile)
    BY <1>0 DEF Fields, Record
  <1> QED
    BY <1>1, <1>5, <1>6 DEF Fields, r, n

(* AddEvent on any other descriptor fails, but the mask keeps the flag.     *)
LEMMA AddEventFails ==
    ASSUME NEW s, Fields(s), ~Registers(s), NEW flag \in {"in", "out"}
    PROVE  LET t == [s EXCEPT !.ep = @ \cup {flag}, !.ret = FALSE]
           IN  AddEvent(s, flag) = t /\ Fields(t)
  <1> DEFINE t == [s EXCEPT !.ep = @ \cup {flag}, !.ret = FALSE]
  <1>0. ~s.open /\ (s.file = NoFile \/ ("inactions" \in s.type) # InSet(s))
    BY DEF Registers, Fields, Record
  <1>1. AddEvent(s, flag) = t
    BY <1>0 DEF AddEvent, Fields, Record
  <1>2. Fields(t)
    BY DEF Fields, Record
  <1> QED
    BY <1>1, <1>2

(* More of the event is asked for: the mask, the type and what epoll knows     *)
(* grow, and the mask has EPOLLOUT if the descriptor is open.                *)
Asked(s, v) ==
    /\ v.open = s.open /\ v.syn = s.syn /\ v.rcv = s.rcv /\ v.fin = s.fin /\ v.rst = s.rst
    /\ v.snd = s.snd /\ v.wbuf = s.wbuf /\ v.shutdown = s.shutdown
    /\ v.connecting = s.connecting /\ v.mapped = s.mapped /\ v.held = s.held
    /\ v.pend = s.pend /\ v.discs = s.discs
    /\ s.ep \subseteq v.ep /\ v.ep \subseteq s.ep \cup {"out"}
    /\ v.type \subseteq s.type \cup {"write", "inactions"}
    /\ s.inep => v.inep
    /\ s.ready => v.ready
    /\ s.nospace => v.nospace
    /\ v.open => v.inep /\ "out" \in v.ep

(* What AddSendEvent finds: all is kept, but EPOLLOUT may not be asked for.    *)
Sending(s, p, es) ==
    s.open /\ s.mapped =>
        /\ p \in {"wait", "batch", "events", "user"} => InKept(s, "in" \in es)
        /\ s.wbuf > 0 => Due(s, "out" \in es)

(* With EPOLLOUT in the mask the send side is kept as well.                 *)
LEMMA AskedGood ==
    ASSUME NEW s, NEW v, NEW p, NEW es, Base(s, p, es), Running(s, p), Sending(s, p, es),
           Fields(v), Asked(s, v)
    PROVE  Good(v, p, es)
  <1>1. Stages(v)
    BY DEF Base, Stages, Asked, Alive, Gone, Telling
  <1>2. Masks(v)
    BY DEF Masks, Asked
  <1>3. Events(v, p, es)
    BY DEF Base, Events, Asked, Running
  <1>4. Kept(v, p, es)
    BY DEF Sending, Kept, Asked, InKept, OutKept, Due, Fields, Record
  <1> QED
    BY <1>1, <1>2, <1>3, <1>4 DEF Good, Base

(* AddSendEvent keeps the edge of the bytes in the send cache, on each of   *)
(* its four ways.                                                           *)
LEMMA AddSendGood ==
    ASSUME NEW s, NEW p, NEW es, Base(s, p, es), Running(s, p), Sending(s, p, es)
    PROVE  Good(AddSendEvent(s), p, es)
  <1> DEFINE t == [s EXCEPT !.type = @ \cup {"write"}]
             v == AddSendEvent(s)
  <1> Fields(s)
    BY DEF Base
  <1>1. CASE "write" \in s.type
    <2> DEFINE w == [s EXCEPT !.ret = FALSE]
    <2>1. v = w
      BY <1>1 DEF AddSendEvent
    <2>2. Fields(w) /\ Asked(s, w)
      BY <1>1 DEF Base, Fields, Record, Asked, Masks
    <2> QED
      BY <2>1, <2>2, AskedGood
  <1>2. CASE "write" \notin s.type /\ "out" \in s.ep
    <2> DEFINE w == [t EXCEPT !.ret = TRUE]
    <2>1. v = w
      BY <1>2 DEF AddSendEvent
    <2>2. Fields(w) /\ Asked(s, w)
      BY <1>2 DEF Base, Fields, Record, Asked, Masks
    <2> QED
      BY <2>1, <2>2, AskedGood
  <1>3. CASE "write" \notin s.type /\ "out" \notin s.ep
    <2>1. v = AddEvent(t, "out")
      BY <1>3 DEF AddSendEvent
    <2>2. Fields(t)
      BY DEF Fields, Record
    <2>3. CASE Registers(t)
      <3> DEFINE r == t.ready \/ Poll([t EXCEPT !.ep = @ \cup {"out"}]) # {}
                 n == t.nospace \/ t.snd = SndCap
                 w == [t EXCEPT !.ep = @ \cup {"out"}, !.inep = TRUE, !.ready = r,
                                !.type = @ \cup {"inactions"}, !.ret = TRUE, !.nospace = n]
      <3>2. v = w /\ Fields(w)
        BY <2>1, <2>2, <2>3, AddEventDone
      <3>3. (s.ready => r) /\ (s.nospace => n)
        BY DEF Fields, Record
      <3> HIDE DEF r, n
      <3>4. Asked(s, w)
        BY <3>3 DEF Asked, Fields, Record
      <3> QED
        BY <3>2, <3>4, AskedGood
    <2>4. CASE ~Registers(t)
      <3> DEFINE w == [t EXCEPT !.ep = @ \cup {"out"}, !.ret = FALSE]
      <3>1. ~s.open
        BY <2>4 DEF Registers, Fields, Record
      <3>2. v = w /\ Fields(w)
        BY <2>1, <2>2, <2>4, AddEventFails
      <3>3. Asked(s, w)
        BY <3>1 DEF Asked, Fields, Record
      <3> QED
        BY <3>2, <3>3, AskedGood
    <2> QED
      BY <2>3, <2>4
  <1> QED
    BY <1>1, <1>2, <1>3

(* Send and Write change the two send buffers, and what the program is told.   *)
Carried(s, v) ==
    /\ v.open = s.open /\ v.syn = s.syn /\ v.rcv = s.rcv /\ v.fin = s.fin /\ v.rst = s.rst
    /\ v.inep = s.inep /\ v.ready = s.ready /\ v.ep = s.ep /\ v.type = s.type
    /\ v.shutdown = s.shutdown /\ v.connecting = s.connecting /\ v.mapped = s.mapped
    /\ v.held = s.held /\ v.pend = s.pend /\ v.discs = s.discs

(* The rest of the invariant does not depend on the send buffers.           *)
LEMMA CarriedBase ==
    ASSUME NEW s, NEW v, NEW p, NEW es, Base(s, p, es), Running(s, p), Fields(v), Carried(s, v)
    PROVE  Base(v, p, es) /\ Running(v, p)
  <1>1. Stages(v)
    BY DEF Base, Stages, Carried, Alive, Gone, Telling
  <1>2. Masks(v)
    BY DEF Base, Masks, Carried
  <1>3. Events(v, p, es)
    BY DEF Base, Events, Carried, Running
  <1> QED
    BY <1>1, <1>2, <1>3 DEF Base, Running, Carried

(* The receive side of what Kept says.                                      *)
Receiving(s, p, es) ==
    s.open /\ s.mapped /\ p \in {"wait", "batch", "events", "user"} => InKept(s, "in" \in es)

(* Behind a number there are bytes and room.                                *)
LEMMA BehindTyped ==
    ASSUME NEW s, Fields(s)
    PROVE  Behind(s).rcv \in Nat /\ Behind(s).room \in Nat
  <1>1. CASE s.open
    <2>1. Behind(s).rcv = s.rcv /\ Behind(s).room = IF s.syn THEN 0 ELSE SndCap - s.snd
      BY <1>1 DEF Behind
    <2>2. s.rcv \in 0 .. MaxIn /\ s.snd \in 0 .. SndCap
      BY DEF Fields, Record
    <2> QED
      BY <2>1, <2>2, CapAssumption
  <1>2. CASE ~s.open
    <2>1. Behind(s) = s.file /\ s.file \in AnyFile
      BY <1>2 DEF Behind, Fields, Record
    <2>2. NoFile.rcv \in Nat /\ NoFile.room \in Nat
      BY DEF NoFile
    <2> QED
      BY <2>1, <2>2, FilesAssumption DEF AnyFile
  <1> QED
    BY <1>1, <1>2

(* What Send takes out of the cache, and what the kernel then has to send.   *)
Part(s) == IF s.wbuf <= Behind(s).room THEN s.wbuf ELSE Behind(s).room

Queued(s) == IF s.open THEN s.snd + Part(s) ELSE s.snd

(* They fit, and if something is left the kernel has no room.               *)
LEMMA PartFits ==
    ASSUME NEW s, Fields(s)
    PROVE  /\ Part(s) \in 0 .. s.wbuf /\ Queued(s) \in 0 .. SndCap
           /\ s.wbuf - Part(s) \in 0 .. MaxCache + 1
           /\ s.open /\ Part(s) # s.wbuf => s.syn \/ Queued(s) = SndCap
  <1>1. s.wbuf \in 0 .. MaxCache + 1 /\ s.snd \in 0 .. SndCap /\ Behind(s).room \in Nat
    BY BehindTyped DEF Fields, Record
  <1>2. s.open => Behind(s).room = IF s.syn THEN 0 ELSE SndCap - s.snd
    BY DEF Behind
  <1> QED
    BY <1>1, <1>2, CapAssumption DEF Part, Queued

(* Send, by cases.                                                          *)
LEMMA SendCases ==
    ASSUME NEW s, Fields(s)
    PROVE  /\ s.wbuf = 0 => Send(s) = [s EXCEPT !.ret = TRUE, !.calls = Append(@, <<"write", 0>>)]
           /\ s.wbuf # 0 /\ Behind(s).rst => Send(s) = OnDisConnect([s EXCEPT !.ret = FALSE], "closed")
           /\ s.wbuf # 0 /\ ~Behind(s).rst /\ Part(s) = s.wbuf =>
                Send(s) = [s EXCEPT !.wbuf = s.wbuf - Part(s), !.snd = Queued(s), !.ret = TRUE,
                                    !.calls = Append(@, <<"write", Part(s)>>)]
           /\ s.wbuf # 0 /\ ~Behind(s).rst /\ Part(s) # s.wbuf =>
                Send(s) = AddSendEvent([s EXCEPT !.wbuf = s.wbuf - Part(s), !.snd = Queued(s),
                                                 !.nospace = s.open /\ ~s.syn])
  <1> DEFINE n == Part(s)
             sent == [s EXCEPT !.wbuf = @ - n, !.snd = IF s.open THEN @ + n ELSE @]
  <1>0. Send(s) = IF s.wbuf = 0 THEN Told([s EXCEPT !.ret = TRUE], "write", 0)
                  ELSE IF Behind(s).rst THEN OnDisConnect([s EXCEPT !.ret = FALSE], "closed")
                  ELSE IF n = s.wbuf THEN Told([sent EXCEPT !.ret = TRUE], "write", n)
                  ELSE AddSendEvent([sent EXCEPT !.nospace = s.open /\ ~s.syn])
    BY DEF Send, Part
  <1> HIDE DEF n
  <1>1. sent = [s EXCEPT !.wbuf = s.wbuf - n, !.snd = Queued(s)]
    BY DEF Queued, Fields, Record, n
  <1> HIDE DEF sent
  <1>2. Told([s EXCEPT !.ret = TRUE], "write", 0)
            = [s EXCEPT !.ret = TRUE, !.calls = Append(@, <<"write", 0>>)]
    BY DEF Told, Fields, Record
  <1>3. Told([sent EXCEPT !.ret = TRUE], "write", n)
            = [s EXCEPT !.wbuf = s.wbuf - n, !.snd = Queued(s), !.ret = TRUE,
                        !.calls = Append(@, <<"write", n>>)]
    BY <1>1 DEF Told, Fields, Record
  <1>4. [sent EXCEPT !.nospace = s.open /\ ~s.syn]
            = [s EXCEPT !.wbuf = s.wbuf - n, !.snd = Queued(s), !.nospace = s.open /\ ~s.syn]
    BY <1>1 DEF Fields, Record
  <1> QED
    BY <1>0, <1>2, <1>3, <1>4 DEF n

(* Send leaves nothing in the cache without an edge to come: it asks for    *)
(* EPOLLOUT after the kernel took no more.                                  *)
LEMMA SendGood ==
    ASSUME NEW s, NEW p, NEW es, Base(s, p, es), Running(s, p), Receiving(s, p, es)
    PROVE  Good(Send(s), p, es)
  <1> DEFINE n == Part(s)
             m == Queued(s)
             l == s.wbuf - n
  <1> Fields(s) /\ s \in Record(s)
    BY DEF Base, Fields
  <1>0. /\ m \in 0 .. SndCap /\ l \in 0 .. MaxCache + 1
        /\ s.open /\ n # s.wbuf => s.syn \/ m = SndCap
        /\ n = s.wbuf => l = 0
    BY PartFits DEF Record
  <1>1. CASE s.wbuf = 0
    <2> DEFINE v == [s EXCEPT !.ret = TRUE, !.calls = Append(@, <<"write", 0>>)]
    <2>1. Send(s) = v
      BY <1>1, SendCases
    <2>2. Fields(v) /\ Carried(s, v)
      BY DEF Fields, Record, Carried
    <2>3. Kept(v, p, es)
      BY <1>1, <2>2 DEF Kept, OutKept, Receiving, Record, InKept
    <2> QED
      BY <2>1, <2>2, <2>3, CarriedBase DEF Good
  <1>2. CASE s.wbuf # 0 /\ Behind(s).rst
    <2> DEFINE v == [s EXCEPT !.ret = FALSE]
    <2>1. Send(s) = OnDisConnect(v, "closed")
      BY <1>2, SendCases
    <2>2. Fields(v) /\ Carried(s, v)
      BY DEF Fields, Record, Carried
    <2> QED
      BY <2>1, <2>2, CarriedBase, DisconnectGood DEF Errors
  <1>3. CASE s.wbuf # 0 /\ ~Behind(s).rst /\ n = s.wbuf
    <2> DEFINE v == [s EXCEPT !.wbuf = l, !.snd = m, !.ret = TRUE,
                              !.calls = Append(@, <<"write", n>>)]
    <2>1. Send(s) = v
      BY <1>3, SendCases
    <2> HIDE DEF n, m, l
    <2>2. Fields(v) /\ Carried(s, v)
      BY <1>0 DEF Fields, Record, Carried
    <2>3. v.wbuf = 0
      BY <1>0, <1>3 DEF Record
    <2>4. Kept(v, p, es)
      BY <2>2, <2>3 DEF Kept, OutKept, Receiving, InKept, Carried
    <2> QED
      BY <2>1, <2>2, <2>4, CarriedBase DEF Good
  <1>4. CASE s.wbuf # 0 /\ ~Behind(s).rst /\ n # s.wbuf
    <2> DEFINE v == [s EXCEPT !.wbuf = l, !.snd = m, !.nospace = s.open /\ ~s.syn]
    <2>1. Send(s) = AddSendEvent(v)
      BY <1>4, SendCases
    <2> HIDE DEF n, m, l
    <2>2. Fields(v) /\ Carried(s, v)
      BY <1>0 DEF Fields, Record, Carried
    <2>3. s.open => Due(v, FALSE)
      BY <1>0, <1>4, CapAssumption DEF Record, Due
    <2>4. Sending(v, p, es)
      BY <2>2, <2>3 DEF Sending, Receiving, InKept, Carried, Due
    <2> QED
      BY <2>1, <2>2, <2>4, CarriedBase, AddSendGood
  <1> QED
    BY <1>1, <1>2, <1>3, <1>4

(* A byte more in the cache, within its limit.                              *)
LEMMA ByteWritten ==
    ASSUME NEW s, Fields(s), ~(s.wbuf > MaxCache)
    PROVE  Fields(WriteByte(s)) /\ Carried(s, WriteByte(s)) /\ WriteByte(s).calls = s.calls
  <1> DEFINE n == s.wbuf + 1
             w == [s EXCEPT !.wbuf = n]
  <1>1. WriteByte(s) = w
    BY DEF WriteByte
  <1>2. n \in 0 .. MaxCache + 1
    BY CapAssumption DEF Fields, Record
  <1> HIDE DEF n
  <1>3. Fields(w) /\ w.calls = s.calls
    BY <1>2 DEF Fields, Record
  <1>4. Carried(s, w)
    BY DEF Fields, Record, Carried
  <1> QED
    BY <1>1, <1>3, <1>4

(* Write keeps the invariant.                                               *)
LEMMA WriteGood ==
    ASSUME NEW s, NEW p, NEW es, Good(s, p, es), Running(s, p)
    PROVE  Good(Write(s), p, es)
  <1> DEFINE w == WriteByte(s)
  <1> Base(s, p, es) /\ Fields(s) /\ s \in Record(s) /\ Receiving(s, p, es)
    BY DEF Good, Base, Fields, Receiving, Kept, Running
  <1>1. CASE s.wbuf > MaxCache
    <2> DEFINE v == [s EXCEPT !.ret = FALSE]
    <2>1. Write(s) = v
      BY <1>1, CapAssumption DEF Write, Record
    <2>2. Same(s, v) /\ Fields(v)
      BY DEF Same, Fields, Record
    <2> QED
      BY <2>1, <2>2, Frame
  <1>2. CASE ~(s.wbuf > MaxCache)
    <2>1. Fields(w) /\ Carried(s, w)
      BY <1>2, ByteWritten
    <2>2. Base(w, p, es) /\ Running(w, p)
      BY <2>1, CarriedBase
    <2>3. Receiving(w, p, es)
      BY <2>1 DEF Receiving, InKept, Carried
    <2>4. CASE s.wbuf = 0
      BY <2>2, <2>3, <2>4, SendGood DEF Write
    <2>5. CASE s.wbuf # 0
      <3>1. Write(s) = AddSendEvent(w)
        BY <1>2, <2>5 DEF Write
      <3>2. s.open /\ s.mapped => Due(s, "out" \in es)
        BY <2>5 DEF Good, Base, Kept, OutKept, Running, Events, Record
      <3>3. w.snd = s.snd /\ w.nospace = s.nospace
        BY DEF WriteByte, Record
      <3>4. Sending(w, p, es)
        BY <2>1, <2>3, <3>2, <3>3 DEF Sending, Receiving, Carried, Due
      <3> QED
        BY <2>2, <3>1, <3>4, AddSendGood
    <2> QED
      BY <2>4, <2>5
  <1> QED
    BY <1>1, <1>2

(* Recv takes what is in the receive queue.                                 *)
Drained(s, v) ==
    /\ v.open = s.open /\ v.syn = s.syn /\ v.rcv = 0 /\ v.fin = s.fin /\ v.rst = s.rst
    /\ v.snd = s.snd /\ v.nospace = s.nospace /\ v.inep = s.inep /\ v.ready = s.ready
    /\ v.wbuf = s.wbuf /\ v.ep = s.ep /\ v.type = s.type /\ v.shutdown = s.shutdown
    /\ v.connecting = s.connecting /\ v.mapped = s.mapped /\ v.held = s.held
    /\ v.pend = s.pend /\ v.discs = s.discs

(* With the receive queue empty the event is not needed any more.           *)
LEMMA DrainedGood ==
    ASSUME NEW s, NEW v, NEW es, Good(s, "events", es), Running(s, "events"),
           NEW q \in {"events", "user"}, Fields(v), Drained(s, v)
    PROVE  Good(v, q, es \ {"in"}) /\ Running(v, q)
  <1>1. Stages(v)
    BY DEF Good, Base, Stages, Drained, Alive, Gone, Telling
  <1>2. Masks(v)
    BY DEF Good, Base, Masks, Drained
  <1>3. Events(v, q, es \ {"in"})
    BY DEF Good, Base, Events, Drained, Running
  <1>4. Kept(v, q, es \ {"in"})
    BY DEF Good, Kept, Drained, InKept, OutKept, Due
  <1> QED
    BY <1>1, <1>2, <1>3, <1>4 DEF Good, Base, Running, Drained

(* A byte taken back from what is unread, and a byte more counted.           *)
LEMMA TakenBack ==
    ASSUME NEW u \in Nat, NEW l \in Nat, u <= l
    PROVE  LET a == IF u = 0 THEN 0 ELSE u - 1
           IN  a \in Nat /\ l + 1 \in Nat /\ a <= l + 1
  OBVIOUS

(* Recv keeps the invariant on each of its ways, and never takes a byte     *)
(* off an empty read buffer.                                                *)
LEMMA RecvGood ==
    ASSUME NEW s, NEW es, Good(s, "events", es), Running(s, "events"),
           NEW q \in {"events", "user"}, NEW exact \in BOOLEAN
    PROVE  Good(Recv(s, exact), q, es \ {"in"})
  <1> DEFINE n   == Behind(s).rcv
             got == [s EXCEPT !.rcv = 0, !.unread = @ + n, !.len = @ + n]
  <1> Fields(s) /\ s \in Record(s)
    BY DEF Good, Base, Fields
  <1> 0 \in 0 .. MaxIn /\ MaxIn \in Nat
    BY CapAssumption
  <1>1. n \in Nat /\ s.unread \in Nat /\ s.len \in Nat /\ s.unread <= s.len
    BY BehindTyped DEF Fields, Record
  <1> DEFINE left(a, b, k) == [s EXCEPT !.rcv = 0, !.unread = a, !.len = b, !.calls = k]
  <1>0. ASSUME NEW a \in Nat, NEW b \in Nat, a <= b, NEW k
        PROVE  Fields(left(a, b, k)) /\ Drained(s, left(a, b, k))
    <2>1. left(a, b, k) \in Record(left(a, b, k))
      BY <1>0 DEF Record
    <2>2. Drained(s, left(a, b, k)) /\ left(a, b, k).file = s.file
      BY <1>0 DEF Record, Drained
    <2>3. left(a, b, k).unread <= left(a, b, k).len
      BY <1>0 DEF Record
    <2> QED
      BY <2>1, <2>2, <2>3 DEF Fields, Drained
  <1>2. Fields(got) /\ Drained(s, got)
    <2>1. got = left(s.unread + n, s.len + n, s.calls)
      BY DEF Record
    <2> HIDE DEF left, got, n
    <2> QED
      BY <1>1, <2>1, <1>0
  <1>3. Base(got, q, es \ {"in"}) /\ Running(got, q)
    BY <1>2, DrainedGood DEF Good
  <1>4. CASE n > 0 /\ ~exact
    <2> DEFINE v == left(s.unread + n, s.len + n, Append(s.calls, <<"read", n>>))
    <2>1. Recv(s, exact) = Told(got, "read", n)
      BY <1>4 DEF Recv
    <2> HIDE DEF n
    <2>2. Told(got, "read", n) = v
      BY DEF Told, Record
    <2> HIDE DEF left
    <2>3. Fields(v) /\ Drained(s, v)
      BY <1>1, <1>0
    <2> QED
      BY <2>1, <2>2, <2>3, DrainedGood
  <1>5. CASE ~(n > 0 /\ ~exact) /\ Behind(s).rst
    BY <1>3, <1>5, DisconnectGood DEF Recv, Errors
  <1>6. CASE ~(n > 0 /\ ~exact) /\ ~Behind(s).rst /\ Behind(s).fin
    BY <1>3, <1>6, DisconnectGood DEF Recv, Errors
  <1>7. CASE ~(n > 0 /\ ~exact) /\ ~Behind(s).rst /\ ~Behind(s).fin
    <2> DEFINE a == IF s.unread + n = 0 THEN 0 ELSE (s.unread + n) - 1
               v == left(a, (s.len + n) + 1, Append(s.calls, <<"read", n - 1>>))
    <2>1. Recv(s, exact) = Told([got EXCEPT !.unread = IF @ = 0 THEN 0 ELSE @ - 1, !.len = @ + 1],
                                "read", n - 1)
      BY <1>7 DEF Recv
    <2> HIDE DEF n
    <2>2. got.unread = s.unread + n /\ got.len = s.len + n
      BY DEF Record
    <2>3. Told([got EXCEPT !.unread = a, !.len = (s.len + n) + 1], "read", n - 1) = v
      BY DEF Told, Record
    <2>4. a \in Nat /\ (s.len + n) + 1 \in Nat /\ a <= (s.len + n) + 1
      <3>1. s.unread + n \in Nat /\ s.len + n \in Nat /\ s.unread + n <= s.len + n
        BY <1>1
      <3> QED
        BY <3>1, TakenBack
    <2>5. Recv(s, exact) = v
      BY <2>1, <2>2, <2>3
    <2> HIDE DEF left, a
    <2>6. Fields(v) /\ Drained(s, v)
      BY <2>4, <1>0
    <2> QED
      BY <2>5, <2>6, DrainedGood
  <1> QED
    BY <1>4, <1>5, <1>6, <1>7

(* Read() when the connection opens: what arrived before it is on the ready    *)
(* list.                                                                    *)
LEMMA AddRecvGood ==
    ASSUME NEW s, NEW es, Good(s, "opened", es), Running(s, "opened")
    PROVE  Good(AddRecvEvent(s), "wait", es)
  <1> DEFINE t == [s EXCEPT !.type = @ \cup {"read"}]
  <1> Fields(s) /\ s \in Record(s)
    BY DEF Good, Base, Fields
  <1>1. AddRecvEvent(s) = AddEvent(t, "in")
    BY DEF Good, Base, Events, AddRecvEvent
  <1>2. Fields(t)
    BY DEF Fields, Record
  <1>3. CASE s.open
    <2> DEFINE m == [t EXCEPT !.ep = @ \cup {"in"}]
               r == t.ready \/ Poll(m) # {}
               n == t.nospace \/ t.snd = SndCap
               w == [t EXCEPT !.ep = @ \cup {"in"}, !.inep = TRUE, !.ready = r,
                              !.type = @ \cup {"inactions"}, !.ret = TRUE, !.nospace = n]
    <2>1. Registers(t)
      BY <1>3 DEF Record, Registers
    <2>2. AddRecvEvent(s) = w /\ Fields(w)
      BY <1>1, <1>2, <2>1, AddEventDone
    <2>3. (s.ready => r) /\ (s.nospace => n)
      BY DEF Record
    <2>4. s.rcv > 0 => r
      <3>1. m.open /\ m.rcv = s.rcv /\ "in" \in m.ep
        BY <1>3 DEF Record
      <3> HIDE DEF m
      <3>2. s.rcv > 0 => "in" \in Poll(m)
        BY <3>1 DEF Poll, Behind
      <3> QED
        BY <3>2
    <2> HIDE DEF r, n
    <2>5. /\ w.open = s.open /\ w.syn = s.syn /\ w.rcv = s.rcv /\ w.fin = s.fin /\ w.rst = s.rst
          /\ w.snd = s.snd /\ w.wbuf = s.wbuf /\ w.shutdown = s.shutdown
          /\ w.connecting = s.connecting /\ w.mapped = s.mapped
          /\ w.pend = s.pend /\ w.discs = s.discs
          /\ w.ep = s.ep \cup {"in"}
          /\ "write" \in w.type => "write" \in s.type
          /\ w.inep /\ w.ready = r /\ w.nospace = n
      BY DEF Record
    <2> HIDE DEF w
    <2>6. Stages(w)
      BY <2>5 DEF Good, Base, Stages, Alive, Gone, Telling
    <2>7. Masks(w)
      BY <2>5 DEF Good, Base, Masks
    <2>8. Events(w, "wait", es)
      BY <2>5 DEF Good, Base, Events, Running
    <2>9. Kept(w, "wait", es)
      BY <2>3, <2>4, <2>5 DEF Good, Kept, InKept, OutKept, Due
    <2> QED
      BY <2>2, <2>6, <2>7, <2>8, <2>9 DEF Good, Base
  <1>4. CASE ~s.open
    <2> DEFINE w == AddEvent(t, "in")
    <2>3. /\ ~w.open /\ w.shutdown = s.shutdown /\ w.connecting = s.connecting
          /\ w.mapped = s.mapped /\ w.pend = s.pend /\ w.discs = s.discs /\ Fields(w)
      <3>1. CASE Registers(t)
        <4> DEFINE r == t.ready \/ Poll([t EXCEPT !.ep = @ \cup {"in"}]) # {}
                   n == t.nospace \/ t.snd = SndCap
                   v == [t EXCEPT !.ep = @ \cup {"in"}, !.inep = TRUE, !.ready = r,
                                  !.type = @ \cup {"inactions"}, !.ret = TRUE, !.nospace = n]
        <4>1. w = v /\ Fields(v)
          BY <1>2, <3>1, AddEventDone
        <4> HIDE DEF r, n, w
        <4>2. /\ ~v.open /\ v.shutdown = s.shutdown /\ v.connecting = s.connecting
              /\ v.mapped = s.mapped /\ v.pend = s.pend /\ v.discs = s.discs
          BY <1>4 DEF Record
        <4> HIDE DEF v
        <4> QED
          BY <4>1, <4>2
      <3>2. CASE ~Registers(t)
        <4> DEFINE v == [t EXCEPT !.ep = @ \cup {"in"}, !.ret = FALSE]
        <4>1. w = v /\ Fields(v)
          BY <1>2, <3>2, AddEventFails
        <4> HIDE DEF w
        <4>2. /\ ~v.open /\ v.shutdown = s.shutdown /\ v.connecting = s.connecting
              /\ v.mapped = s.mapped /\ v.pend = s.pend /\ v.discs = s.discs
          BY <1>4 DEF Record
        <4> HIDE DEF v
        <4> QED
          BY <4>1, <4>2
      <3> QED
        BY <3>1, <3>2
    <2> HIDE DEF w
    <2>4. Stages(w)
      BY <1>4, <2>3 DEF Good, Base, Stages, Alive, Gone, Telling
    <2>5. Masks(w) /\ Kept(w, "wait", es)
      BY <2>3 DEF Masks, Kept
    <2>6. Events(w, "wait", es)
      BY <2>3 DEF Good, Base, Events, Running
    <2> QED
      BY <1>1, <2>3, <2>4, <2>5, <2>6 DEF Good, Base, w
  <1> QED
    BY <1>3, <1>4

-----------------------------------------------------------------------------
(* Forgetting the callbacks of the last step keeps the invariant.           *)
LEMMA NowGood ==
    ASSUME IndInv
    PROVE  Good(Now, pc, evs) /\ Fields(Now) /\ Same(c, Now)
  <1>1. Fields(Now) /\ Same(c, Now)
    BY DEF IndInv, Good, Base, Fields, Record, Same, Now
  <1> QED
    BY <1>1, Frame DEF IndInv

(* ~RWSocket keeps the invariant.                                           *)
LEMMA UnrefGood ==
    ASSUME NEW s, NEW p, NEW es, Good(s, p, es)
    PROVE  Good(Unref(s), p, es)
  BY StopTimerGood DEF Unref

(* An edge: the kernel changed its side and put the descriptor on the list.    *)
Edged(s, v) ==
    /\ v.open = s.open /\ v.inep = s.inep /\ v.ready = s.inep /\ v.wbuf = s.wbuf
    /\ v.ep = s.ep /\ v.type = s.type /\ v.shutdown = s.shutdown
    /\ v.connecting = s.connecting /\ v.mapped = s.mapped /\ v.held = s.held
    /\ v.pend = s.pend /\ v.discs = s.discs
    /\ s.rcv > 0 => v.rcv > 0
    /\ s.fin => v.fin
    /\ s.rst => v.rst

(* An edge keeps the invariant.                                             *)
LEMMA EdgedGood ==
    ASSUME NEW s, NEW v, NEW p, NEW es, Good(s, p, es), Fields(v), Edged(s, v)
    PROVE  Good(v, p, es)
  <1>1. (Alive(s) => Alive(v)) /\ (Gone(s) => Gone(v)) /\ (Telling(s) => Telling(v))
    BY DEF Edged, Alive, Gone, Telling
  <1>2. Masks(v)
    BY DEF Good, Base, Edged, Masks
  <1>3. Early(s) => Early(v)
    BY <1>1 DEF Edged, Early
  <1>4. Events(v, p, es)
    BY <1>3 DEF Good, Base, Edged, Events
  <1>5. Kept(v, p, es)
    BY DEF Good, Base, Masks, Edged, Kept, InKept, OutKept, Due
  <1> QED
    BY <1>1, <1>2, <1>4, <1>5 DEF Good, Base, Stages

(* The invariant holds at the start.                                        *)
LEMMA InitGood == Init => IndInv
  <1> SUFFICES ASSUME Init PROVE IndInv
    OBVIOUS
  <1>1. c = Fresh /\ pc = "start" /\ evs = {}
    BY DEF Init
  <1>2. Fields(Fresh)
    BY CapAssumption DEF Fields, Record, Fresh, AnyFile
  <1>3. Early(Fresh) /\ ~Fresh.connecting
    BY DEF Early, Alive, Fresh
  <1>4. Masks(Fresh) /\ Kept(Fresh, "start", {}) /\ Events(Fresh, "start", {})
    BY <1>3 DEF Masks, Kept, Events, Fresh
  <1> QED
    BY <1>1, <1>2, <1>3, <1>4 DEF IndInv, Good, Base, Stages, Early

(* What the opening leaves as it is.                                        *)
Untouched(s, v) ==
    /\ v.open = s.open /\ v.inep = s.inep /\ v.wbuf = s.wbuf /\ v.ep = s.ep
    /\ v.type = s.type /\ v.shutdown = s.shutdown /\ v.held = s.held
    /\ v.pend = s.pend /\ v.discs = s.discs

(* The connection before it is open: Accept and Connect start from it, and the *)
(* timer that looks after connect().                                        *)
LEMMA OpenGood ==
    ASSUME NEW s, NEW v, NEW q, Fields(s), Early(s), Fields(v), Untouched(s, v),
           \/ ~v.connecting /\ q \in {"opened", "refused"}
           \/ v.connecting /\ q = "wait",
           q = "refused" => ~v.mapped
    PROVE  Good(v, q, {})
  <1>1. Early(v) /\ Alive(v)
    BY DEF Early, Alive, Untouched
  <1>2. Masks(v) /\ Kept(v, q, {}) /\ Events(v, q, {})
    BY <1>1 DEF Early, Masks, Kept, OutKept, Events
  <1> QED
    BY <1>1, <1>2 DEF Good, Base, Stages

(* ConnectSocket::OnAccept keeps the invariant.                             *)
LEMMA AcceptGood ==
    ASSUME IndInv, Accept
    PROVE  IndInv'
  <1> DEFINE v == [Now EXCEPT !.mapped = TRUE, !.calls = Append(@, <<"accept", "success">>)]
  <1> Fields(Now) /\ Early(Now) /\ ~Now.connecting
    BY NowGood DEF Good, Base, Events, Accept
  <1>1. c' = v /\ pc' = "opened" /\ evs' = {}
    BY DEF Accept, Told, Fields, Record, IndInv, Good, Base, Events
  <1>2. Fields(v)
    BY DEF Fields, Record
  <1>3. Good(v, "opened", {})
    <2>1. Untouched(Now, v) /\ ~v.connecting
      BY DEF Fields, Record, Untouched
    <2> HIDE DEF v
    <2> QED
      BY <1>2, <2>1, OpenGood
  <1> QED
    BY <1>1, <1>3 DEF IndInv

(* RWSocket::Connect keeps the invariant.                                   *)
LEMMA ConnectGood ==
    ASSUME IndInv, NEW result \in {"done", "goes on", "fails"}, Connect(result)
    PROVE  IndInv'
  <1> Fields(Now) /\ Early(Now) /\ ~Now.connecting
    BY NowGood DEF Good, Base, Events, Connect
  <1>0. evs' = {}
    BY DEF Connect, IndInv, Good, Base, Events
  <1>1. CASE result = "done"
    <2> DEFINE v == [Now EXCEPT !.connecting = FALSE, !.mapped = TRUE,
                                !.calls = Append(@, <<"connect", "success">>)]
    <2>1. c' = v /\ pc' = "opened"
      BY <1>1 DEF Connect, OnConnect, Told, Fields, Record
    <2>2. Fields(v) /\ Untouched(Now, v) /\ ~v.connecting
      BY DEF Fields, Record, Untouched
    <2> HIDE DEF v
    <2> QED
      BY <1>0, <2>1, <2>2, OpenGood DEF IndInv
  <1>2. CASE result = "fails"
    <2> DEFINE v == [Now EXCEPT !.rst = TRUE, !.connecting = FALSE, !.mapped = FALSE,
                                !.calls = Append(@, <<"connect", "refuse">>)]
    <2>1. c' = v /\ pc' = "refused"
      BY <1>2 DEF Connect, OnConnect, Told, Fields, Record
    <2>2. Fields(v) /\ Untouched(Now, v) /\ ~v.connecting /\ ~v.mapped
      BY DEF Fields, Record, Untouched
    <2> HIDE DEF v
    <2> QED
      BY <1>0, <2>1, <2>2, OpenGood DEF IndInv
  <1>3. CASE result = "goes on"
    <2> DEFINE v == [Now EXCEPT !.syn = TRUE, !.connecting = TRUE,
                                !.timerId = TRUE, !.armed = "once"]
    <2>1. c' = v /\ pc' = "wait"
      BY <1>3 DEF Connect
    <2>2. Fields(v) /\ Untouched(Now, v) /\ v.connecting
      BY DEF Fields, Record, Untouched
    <2> HIDE DEF v
    <2> QED
      BY <1>0, <2>1, <2>2, OpenGood DEF IndInv
  <1> QED
    BY <1>1, <1>2, <1>3

(* The thread goes on to another place that keeps the same edges.             *)
LEMMA GoOn ==
    ASSUME NEW s, NEW p, NEW q, NEW es, Good(s, p, es), ~s.connecting, 
           \/ p \in {"wait", "batch", "events", "user"} /\ q \in {"batch", "events", "user"}
           \/ p = "events" /\ q = "wait" /\ es = {}
           \/ p = "refused" /\ q = "wait"
    PROVE  Good(s, q, es)
  <1>1. Events(s, q, es)
    BY DEF Good, Base, Events
  <1>2. Kept(s, q, es)
    BY DEF Good, Base, Kept, Events
  <1> QED
    BY <1>1, <1>2 DEF Good, Base

(* Read() at the start, and the steps that only go on, keep the invariant.  *)
LEMMA PlaceGood ==
    ASSUME IndInv, StartRead \/ EndRefused \/ OnEvent \/ EndEvent \/ Return
    PROVE  IndInv'
  <1> Good(Now, pc, evs)
    BY NowGood
  <1>1. CASE StartRead
    <2>1. Running(Now, "opened")
      BY <1>1, NowGood DEF StartRead, Same, Good, Base, Events, Running
    <2> QED
      BY <1>1, <2>1, AddRecvGood, UnrefGood DEF StartRead, IndInv
  <1>2. CASE EndRefused
    BY <1>2, UnrefGood, GoOn DEF EndRefused, IndInv, Good, Base, Events
  <1>3. CASE OnEvent
    BY <1>3, GoOn DEF OnEvent, IndInv, Good, Base, Events
  <1>4. CASE EndEvent
    BY <1>4, UnrefGood, GoOn DEF EndEvent, IndInv, Good, Base, Events
  <1>5. CASE Return
    BY <1>5, GoOn DEF Return, IndInv, Good, Base, Events
  <1> QED
    BY <1>1, <1>2, <1>3, <1>4, <1>5

(* RWSocket::OnTimer keeps the invariant, with connect() going on or not.   *)
LEMMA OnTimerGood ==
    ASSUME IndInv, OnTimer
    PROVE  IndInv'
  <1> DEFINE a == IF Now.armed = "once" THEN "no" ELSE Now.armed
  <1> Fields(Now) /\ Good(Now, pc, evs) /\ pc = "wait" /\ evs = {} /\ evs' = {}
    BY NowGood DEF OnTimer, Good, Base, Events
  <1>0. a \in {"no", "once", "always"}
    BY DEF Fields, Record
  <1>1. CASE c.connecting
    <2> DEFINE ok == IF c.rst THEN FALSE ELSE TRUE
               k  == Append(Now.calls, <<"connect", IF c.rst THEN "refuse" ELSE "success">>)
               v  == [Now EXCEPT !.armed = a, !.connecting = FALSE, !.mapped = ok, !.calls = k]
    <2>1. c' = v /\ pc' = IF ok THEN "opened" ELSE "refused"
      BY <1>1 DEF OnTimer, OnConnect, Told, Fields, Record
    <2> ok \in BOOLEAN
      OBVIOUS
    <2> HIDE DEF a, k, ok
    <2>2. Fields(v)
      <3>1. v \in Record(v)
        BY <1>0 DEF Fields, Record
      <3>2. v.unread <= v.len /\ (v.inep => v.open \/ v.file # NoFile) /\ (v.ready => v.inep)
        BY DEF Fields, Record
      <3> QED
        BY <3>1, <3>2 DEF Fields
    <2>3. Untouched(Now, v) /\ ~v.connecting /\ v.mapped = ok
      BY DEF Fields, Record, Untouched
    <2>4. Early(Now)
      BY <1>1, NowGood DEF Same, Good, Base, Events
    <2> HIDE DEF v
    <2> QED
      BY <2>1, <2>2, <2>3, <2>4, OpenGood DEF IndInv
  <1>2. CASE ~c.connecting
    <2> DEFINE w == a # "no"
               k == Append(Now.calls, <<"timer", 0>>)
               v == [Now EXCEPT !.armed = a, !.wanted = w, !.calls = k]
    <2>1. c' = v /\ pc' = "user"
      BY <1>2 DEF OnTimer, Told, Fields, Record
    <2> w \in BOOLEAN
      OBVIOUS
    <2> HIDE DEF a, k, w
    <2>2. Fields(v)
      BY <1>0 DEF Fields, Record
    <2>3. Same(Now, v)
      BY DEF Fields, Record, Same
    <2>4. ~Now.connecting
      BY <1>2, NowGood DEF Same
    <2> HIDE DEF v
    <2> QED
      BY <2>1, <2>2, <2>3, <2>4, Frame, GoOn DEF IndInv, Same
  <1> QED
    BY <1>1, <1>2

(* Taking a socket off the ready list keeps the types of its fields.        *)
LEMMA PolledFields ==
    ASSUME NEW s, Fields(s), NEW b \in BOOLEAN
    PROVE  Fields([s EXCEPT !.ready = FALSE, !.nospace = b])
  <1> DEFINE u == [s EXCEPT !.ready = FALSE]
             v == [u EXCEPT !.nospace = b]
  <1>1. u \in Record(s) /\ u.unread <= u.len /\ (u.inep => u.open \/ u.file # NoFile) /\ u.ready = FALSE
    BY DEF Fields, Record
  <1>2. u.pend = s.pend /\ u.discs = s.discs /\ u.calls = s.calls
    BY DEF Fields, Record
  <1> HIDE DEF u
  <1>3. /\ v \in Record(s) /\ v.unread <= v.len /\ (v.inep => v.open \/ v.file # NoFile) /\ v.ready = FALSE
        /\ v.pend = s.pend /\ v.discs = s.discs /\ v.calls = s.calls
    BY <1>1, <1>2 DEF Record
  <1>4. v = [s EXCEPT !.ready = FALSE, !.nospace = b]
    BY DEF u
  <1> HIDE DEF v
  <1>5. Fields(v)
    BY <1>3 DEF Fields, Record
  <1> QED
    BY <1>4, <1>5

(* epoll_wait turns the edges on the ready list into events and keeps the   *)
(* rest.                                                                    *)
LEMMA WaitGood ==
    ASSUME IndInv, Wait
    PROVE  IndInv'
  <1> DEFINE n == c.nospace \/ c.snd = SndCap
             v == [Now EXCEPT !.ready = FALSE, !.nospace = n]
  <1> Fields(c) /\ Fields(Now) /\ Same(c, Now) /\ Good(c, pc, evs)
    BY NowGood DEF IndInv, Good, Base
  <1>1. ~c.connecting
    BY DEF Wait, Good, Base, Events, Early, Fields
  <1>2. n \in BOOLEAN
    BY DEF Fields, Record
  <1>3. c' = v
    <2>1. c' = Polled([Now EXCEPT !.ready = FALSE]) /\ Now.nospace = c.nospace /\ Now.snd = c.snd
      BY DEF Wait, Same
    <2>2. Polled([Now EXCEPT !.ready = FALSE]) =
              [Now EXCEPT !.ready = FALSE, !.nospace = Now.nospace \/ Now.snd = SndCap]
      BY DEF Polled, Fields, Record
    <2> QED
      BY <2>1, <2>2
  <1> HIDE DEF n
  <1>4. Fields(v)
    BY <1>2, PolledFields
  <1>5. /\ v.open = c.open /\ v.syn = c.syn /\ v.rcv = c.rcv /\ v.fin = c.fin /\ v.rst = c.rst
        /\ v.snd = c.snd /\ v.inep = c.inep /\ v.wbuf = c.wbuf /\ v.ep = c.ep /\ v.type = c.type
        /\ v.shutdown = c.shutdown /\ v.connecting = c.connecting /\ v.mapped = c.mapped
        /\ v.held = c.held /\ v.pend = c.pend /\ v.discs = c.discs /\ v.nospace = n
    BY DEF Fields, Record, Same
  <1> HIDE DEF v
  <1>6. Stages(v) /\ Masks(v)
    BY <1>5 DEF Good, Base, Stages, Alive, Gone, Telling, Masks
  <1>7. /\ c.open /\ "in" \in Poll(c) => c.rcv > 0 \/ c.fin \/ c.rst
        /\ c.open /\ "in" \in c.ep /\ c.rcv > 0 => "in" \in Poll(c)
        /\ c.open /\ "out" \in c.ep => "out" \in Poll(c) \/ c.syn \/ (n /\ c.snd > 0)
        /\ Poll(c) \subseteq {"in", "out", "hup"}
    <2>1. Poll(c) \subseteq {"in", "out", "hup"}
      BY DEF Poll, Fields, Record
    <2>2. CASE c.open
      <3>1. /\ Behind(c).rcv = c.rcv /\ Behind(c).fin = c.fin /\ Behind(c).rst = c.rst
            /\ Behind(c).room = IF c.syn THEN 0 ELSE SndCap - c.snd
        BY <2>2 DEF Behind
      <3>2. c.snd \in 0 .. SndCap
        BY DEF Fields, Record
      <3>3. Behind(c).room > 0 \/ c.syn \/ (n /\ c.snd > 0)
        BY <3>1, <3>2, CapAssumption DEF n
      <3> QED
        BY <2>1, <3>1, <3>3 DEF Poll
    <2> QED
      BY <2>1, <2>2
  <1>8. pc = "wait" /\ pc' \in {"wait", "batch"} /\ evs' = Poll(c) /\ (pc' = "wait" => Poll(c) = {})
    BY DEF Wait
  <1>9. Events(v, pc', evs')
    BY <1>1, <1>5, <1>7, <1>8 DEF Events
  <1>10. Kept(v, pc', evs')
    BY <1>1, <1>5, <1>7, <1>8 DEF Good, Kept, InKept, OutKept, Due
  <1> QED
    BY <1>3, <1>4, <1>6, <1>9, <1>10 DEF IndInv, Good, Base

(* An event of the batch is handled: it is taken off the list first.          *)
LEMMA OneEventLess ==
    ASSUME NEW s, NEW es, NEW event, Good(s, "events", es), s.pend = <<>>,
           NEW q \in {"events", "user"}
    PROVE  /\ Base(s, q, es \ {event}) /\ Running(s, q)
           /\ event # "in" => Receiving(s, q, es \ {event})
  <1>1. Base(s, q, es \ {event}) /\ Running(s, q)
    BY DEF Good, Base, Events, Running
  <1>2. event # "in" => Receiving(s, q, es \ {event})
    BY DEF Good, Base, Events, Kept, Receiving, InKept
  <1> QED
    BY <1>1, <1>2

(* The handlers of an event keep the invariant.                             *)
LEMMA HandleGood ==
    ASSUME IndInv, (\E exact \in BOOLEAN : OnRead(exact)) \/ OnWrite \/ OnHup
    PROVE  IndInv'
  <1>0. /\ pc = "events" /\ pc' \in {"events", "user"}
        /\ Good(Now, "events", evs) /\ Now.pend = <<>>
    BY NowGood DEF OnRead, OnWrite, OnHup, Handle, Same
  <1>1. CASE \E exact \in BOOLEAN : OnRead(exact)
    <2>1. PICK exact \in BOOLEAN : OnRead(exact)
      BY <1>1
    <2>2. c' = Recv(Now, exact) /\ evs' = evs \ {"in"}
      BY <2>1 DEF OnRead, Handle
    <2>3. Running(Now, "events")
      BY <1>0, OneEventLess
    <2> QED
      BY <1>0, <2>2, <2>3, RecvGood DEF IndInv
  <1>2. CASE OnWrite
    <2>1. c' = Send(Now) /\ evs' = evs \ {"out"}
      BY <1>2 DEF OnWrite, Handle
    <2> QED
      BY <1>0, <2>1, OneEventLess, SendGood DEF IndInv
  <1>3. CASE OnHup
    <2>1. c' = OnDisConnect(Now, "closed") /\ evs' = evs \ {"hup"}
      BY <1>3 DEF OnHup, Handle
    <2> QED
      BY <1>0, <2>1, OneEventLess, DisconnectGood DEF IndInv, Errors
  <1> QED
    BY <1>1, <1>2, <1>3

(* The disconnect callback is over: the connection is gone.                  *)
LEMMA EndDisconnectGood ==
    ASSUME IndInv, EndDisconnect
    PROVE  IndInv'
  <1> DEFINE d == [Now EXCEPT !.pend = <<>>, !.shutdown = TRUE]
             e == CloseFd(DelEvent(d))
  <1> Good(c, pc, evs) /\ Fields(Now) /\ Same(c, Now) /\ c.pend # <<>>
    BY NowGood DEF IndInv, EndDisconnect
  <1>1. Telling(c) /\ Telling(Now)
    BY DEF Good, Base, Stages, Alive, Gone, Telling, Same
  <1>2. PICK err \in Errors : /\ c.pend = <<err>> /\ Now.discs = <<err>> /\ Now.pend = <<err>>
                              /\ err = "success" => ~Now.open
    BY <1>1 DEF Telling, Same
  <1>3. Head(c.pend) = err /\ Tail(Now.pend) = <<>>
    BY <1>2
  <1>4. ~c.connecting /\ pc # "start" /\ ~Now.connecting /\ ~c.mapped
    BY <1>1 DEF Good, Base, Events, Early, Alive, Telling, Same
  <1>5. ASSUME NEW v, Fields(v), v.pend = <<>>, v.shutdown, ~v.open, v.mapped = c.mapped,
               v.discs = <<err>>, v.connecting = c.connecting, v.ep = c.ep,
               v.type \subseteq c.type
        PROVE  Good(v, pc, evs)
    <2>1. Gone(v)
      BY <1>4, <1>5 DEF Gone
    <2>2. Masks(v) /\ Kept(v, pc, evs)
      BY <1>5 DEF Masks, Kept
    <2>3. Events(v, pc, evs)
      BY <1>4, <1>5 DEF Good, Base, Events
    <2> QED
      BY <1>5, <2>1, <2>2, <2>3 DEF Good, Base, Stages
  <1>0. Fields(d)
    BY DEF Fields, Record
  <1>8. /\ d.pend = <<>> /\ d.shutdown /\ d.open = Now.open /\ d.mapped = c.mapped
        /\ d.discs = <<err>> /\ d.connecting = c.connecting /\ d.ep = c.ep /\ d.type = c.type
    BY <1>2 DEF Fields, Record, Same
  <1>9. c' = IF err = "success" THEN StopTimer(d) ELSE e
    BY <1>3 DEF EndDisconnect, FinishDisconnect, Fields, Record
  <1> HIDE DEF d
  <1>6. CASE err = "success"
    <2>1. Good(d, pc, evs)
      BY <1>0, <1>2, <1>5, <1>6, <1>8
    <2> QED
      BY <1>6, <1>9, <2>1, StopTimerGood DEF EndDisconnect, IndInv
  <1>7. CASE err # "success"
    <2>1. Fields(e) /\ Apart(d, e) /\ ~e.open /\ e.type \subseteq d.type
      BY <1>0, CutOff
    <2> HIDE DEF e
    <2>2. Good(e, pc, evs)
      BY <1>5, <1>8, <2>1 DEF Apart
    <2> QED
      BY <1>7, <1>9, <2>2 DEF EndDisconnect, IndInv
  <1> QED
    BY <1>6, <1>7

(* The program calls in a callback of the open connection, unless the          *)
(* disconnect callback runs.                                                *)
LEMMA UserRuns ==
    ASSUME IndInv, InUser, c.pend = <<>>
    PROVE  Running(c, pc) /\ Running(Now, pc)
  BY NowGood DEF IndInv, Good, Base, Events, Early, InUser, Running, Same

(* held tells nothing about an open connection.                             *)
LEMMA HoldGood ==
    ASSUME NEW s, NEW p, NEW es, Good(s, p, es), Running(s, p), NEW h \in BOOLEAN
    PROVE  Good([s EXCEPT !.held = h], p, es)
  <1> DEFINE v == [s EXCEPT !.held = h]
  <1>1. Fields(v)
    BY DEF Good, Base, Fields, Record
  <1>2. /\ v.open = s.open /\ v.syn = s.syn /\ v.rcv = s.rcv /\ v.fin = s.fin /\ v.rst = s.rst
        /\ v.snd = s.snd /\ v.nospace = s.nospace /\ v.inep = s.inep /\ v.ready = s.ready
        /\ v.wbuf = s.wbuf /\ v.ep = s.ep /\ v.type = s.type /\ v.shutdown = s.shutdown
        /\ v.connecting = s.connecting /\ v.mapped = s.mapped
        /\ v.pend = s.pend /\ v.discs = s.discs
    BY DEF Good, Base, Fields, Record
  <1> HIDE DEF v
  <1>3. Stages(v) /\ Masks(v)
    BY <1>2 DEF Good, Base, Stages, Alive, Gone, Telling, Masks
  <1>4. Events(v, p, es)
    BY <1>2 DEF Good, Base, Events, Running
  <1>5. Kept(v, p, es)
    BY <1>2 DEF Good, Kept, InKept, OutKept, Due
  <1> QED
    BY <1>1, <1>3, <1>4, <1>5 DEF Good, Base, v

(* Every call of the program keeps the invariant.                           *)
LEMMA ProgramGood ==
    ASSUME IndInv, Program, ~EndsInDisconnect
    PROVE  IndInv'
  <1> Good(Now, pc, evs) /\ Fields(Now) /\ Same(c, Now)
    BY NowGood
  <1>0. pc' = pc /\ evs' = evs /\ InUser
    BY DEF Program, CallWrite, CallClose, CallStopTimer, CallRead, Keep, Release, CallAddTimer, Calls
  <1>1. CASE CallWrite
    <2>1. c' = Write(Now) /\ c.pend = <<>>
      BY <1>1 DEF CallWrite, Calls, MayEnd
    <2> QED
      BY <1>0, <2>1, UserRuns, WriteGood DEF IndInv
  <1>2. CASE CallClose
    <2> DEFINE d == Close(Now)
               a == d.asked \/ (c.open /\ pc # "refused")
               v == [d EXCEPT !.asked = a, !.wanted = FALSE]
    <2>1. c' = v /\ c.pend = <<>>
      BY <1>2 DEF CallClose, Calls, MayEnd
    <2>2. Good(d, pc, evs)
      BY <1>0, <2>1, UserRuns, CloseGood
    <2> HIDE DEF d
    <2> Fields(d) /\ a \in BOOLEAN
      BY <2>2 DEF Good, Base, Fields, Record
    <2> HIDE DEF a
    <2>3. Fields(v)
      <3>1. v \in Record(v)
        BY DEF Fields, Record
      <3>2. v.unread <= v.len /\ (v.inep => v.open \/ v.file # NoFile) /\ (v.ready => v.inep)
        BY DEF Fields, Record
      <3> QED
        BY <3>1, <3>2 DEF Fields
    <2>4. Same(d, v)
      BY DEF Fields, Record, Same
    <2> QED
      BY <1>0, <2>1, <2>2, <2>3, <2>4, Frame DEF IndInv
  <1>3. CASE CallStopTimer
    <2> DEFINE d == StopTimer(Now)
               v == [d EXCEPT !.wanted = FALSE]
    <2>1. c' = v
      BY <1>3 DEF CallStopTimer, Calls
    <2>2. Good(d, pc, evs)
      BY StopTimerGood
    <2> HIDE DEF d
    <2>3. Fields(v) /\ Same(d, v)
      BY <2>2 DEF Good, Base, Fields, Record, Same
    <2> QED
      BY <1>0, <2>1, <2>2, <2>3, Frame DEF IndInv
  <1>4. CASE CallRead
    <2> DEFINE l == Now.len - c.unread
               v == [Now EXCEPT !.unread = 0, !.len = l]
    <2>1. c' = v
      BY <1>4 DEF CallRead, Calls
    <2>2. l \in Nat
      BY DEF Now, IndInv, Good, Base, Fields, Record
    <2> HIDE DEF l
    <2>3. Fields(v)
      <3>1. v \in Record(v)
        BY <2>2 DEF Fields, Record
      <3>2. v.unread <= v.len /\ (v.inep => v.open \/ v.file # NoFile) /\ (v.ready => v.inep)
        BY <2>2 DEF Fields, Record
      <3> QED
        BY <3>1, <3>2 DEF Fields
    <2>4. Same(Now, v)
      BY DEF Fields, Record, Same
    <2> QED
      BY <1>0, <2>1, <2>3, <2>4, Frame DEF IndInv
  <1>5. CASE Keep
    <2>1. c' = [Now EXCEPT !.held = TRUE] /\ c.pend = <<>>
      BY <1>5 DEF Keep, Calls
    <2> QED
      BY <1>0, <2>1, UserRuns, HoldGood DEF IndInv
  <1>6. CASE Release
    <2> DEFINE v == [Now EXCEPT !.held = FALSE]
    <2>1. c' \in {v, Unref(v)} /\ c.pend = <<>>
      BY <1>6 DEF Release, Calls
    <2>2. Good(v, pc, evs)
      BY <1>0, <2>1, UserRuns, HoldGood
    <2> HIDE DEF v
    <2>3. Good(Unref(v), pc, evs)
      BY <2>2, UnrefGood
    <2> QED
      BY <1>0, <2>1, <2>2, <2>3 DEF IndInv
  <1>7. CASE \E kind \in {"once", "always"} : CallAddTimer(kind)
    <2>1. PICK kind \in {"once", "always"} : CallAddTimer(kind)
      BY <1>7
    <2> DEFINE a == IF c.timerId THEN Now.armed ELSE kind
               v == [Now EXCEPT !.armed = a, !.timerId = TRUE, !.wanted = TRUE]
    <2>2. c' = v
      BY <2>1 DEF CallAddTimer, Calls
    <2>3. a \in {"no", "once", "always"}
      BY DEF Fields, Record
    <2> HIDE DEF a
    <2>4. Fields(v) /\ Same(Now, v)
      BY <2>3 DEF Fields, Record, Same
    <2> QED
      BY <1>0, <2>2, <2>4, Frame DEF IndInv
  <1> QED
    BY <1>1, <1>2, <1>3, <1>4, <1>5, <1>6, <1>7 DEF Program

(* What the peer and the network do keeps the invariant.                    *)
LEMMA NetworkGood ==
    ASSUME IndInv, Network
    PROVE  IndInv'
  <1> Good(Now, pc, evs) /\ Fields(Now) /\ Same(c, Now)
    BY NowGood
  <1>0. pc' = pc /\ evs' = evs
    BY DEF Network, Established, Arrive, PeerClose, PeerReset, PeerDrain, Net, GiveOut, TakeBack, Other
  <1>1. CASE Established
    <2> DEFINE v == [Now EXCEPT !.syn = FALSE, !.ready = Now.inep]
    <2>1. c' = v
      BY <1>1 DEF Established, Net, Edge, Fields, Record
    <2>2. Fields(v) /\ Edged(Now, v)
      BY DEF Fields, Record, Edged
    <2> QED
      BY <1>0, <2>1, <2>2, EdgedGood DEF IndInv
  <1>2. CASE Arrive
    <2> DEFINE n == Now.rcv + 1
               v == [Now EXCEPT !.rcv = n, !.ready = Now.inep]
    <2>1. c' = v
      BY <1>2 DEF Arrive, Net, Edge, Fields, Record
    <2>2. n \in 0 .. MaxIn /\ n > 0
      <3>1. c.rcv + c.len < MaxIn /\ c.len \in Nat /\ Now.rcv = c.rcv /\ c.rcv \in 0 .. MaxIn
        BY <1>2 DEF Arrive, Net, IndInv, Good, Base, Fields, Record, Same
      <3> QED
        BY <3>1, CapAssumption
    <2> HIDE DEF n
    <2>3. Fields(v) /\ Edged(Now, v)
      BY <2>2 DEF Fields, Record, Edged
    <2> QED
      BY <1>0, <2>1, <2>3, EdgedGood DEF IndInv
  <1>3. CASE PeerClose
    <2> DEFINE v == [Now EXCEPT !.fin = TRUE, !.ready = Now.inep]
    <2>1. c' = v
      BY <1>3 DEF PeerClose, Net, Edge, Fields, Record
    <2>2. Fields(v) /\ Edged(Now, v)
      BY DEF Fields, Record, Edged
    <2> QED
      BY <1>0, <2>1, <2>2, EdgedGood DEF IndInv
  <1>4. CASE PeerReset
    <2> DEFINE v == [Now EXCEPT !.rst = TRUE, !.syn = FALSE, !.ready = Now.inep]
    <2>1. c' = v
      BY <1>4 DEF PeerReset, Net, Edge, Fields, Record
    <2>2. Fields(v) /\ Edged(Now, v)
      BY DEF Fields, Record, Edged
    <2> QED
      BY <1>0, <2>1, <2>2, EdgedGood DEF IndInv
  <1>5. CASE PeerDrain
    <2> DEFINE n == Now.snd - 1
               v == [Now EXCEPT !.snd = n, !.nospace = FALSE]
               w == [Now EXCEPT !.snd = n, !.nospace = FALSE, !.ready = Now.inep]
    <2>0. c.snd > 0 /\ ~c.syn /\ c' = IF c.nospace /\ "out" \in c.ep THEN w ELSE v
      BY <1>5 DEF PeerDrain, Up, Net, Edge, Fields, Record
    <2>1. n \in 0 .. SndCap
      BY <2>0, CapAssumption DEF Fields, Record, Same
    <2> HIDE DEF n
    <2>2. CASE c.nospace /\ "out" \in c.ep
      <3>1. Fields(w) /\ Edged(Now, w)
        BY <2>1 DEF Fields, Record, Edged
      <3> QED
        BY <1>0, <2>0, <2>2, <3>1, EdgedGood DEF IndInv
    <2>3. CASE ~(c.nospace /\ "out" \in c.ep)
      <3>1. Fields(v)
        BY <2>1 DEF Fields, Record
      <3>2. /\ v.open = c.open /\ v.syn = c.syn /\ v.rcv = c.rcv /\ v.fin = c.fin
            /\ v.rst = c.rst /\ v.inep = c.inep /\ v.ready = c.ready
            /\ v.wbuf = c.wbuf /\ v.ep = c.ep /\ v.type = c.type /\ v.shutdown = c.shutdown
            /\ v.connecting = c.connecting /\ v.mapped = c.mapped /\ v.held = c.held
            /\ v.pend = c.pend /\ v.discs = c.discs
        BY DEF Fields, Record, Same
      <3> HIDE DEF v
      <3>3. /\ (Alive(c) => Alive(v)) /\ (Gone(c) => Gone(v)) /\ (Telling(c) => Telling(v))
            /\ (Early(c) => Early(v))
        BY <3>2 DEF Alive, Gone, Telling, Early
      <3>4. Masks(v) /\ Events(v, pc, evs)
        BY <3>2, <3>3 DEF IndInv, Good, Base, Masks, Events
      <3>5. Kept(v, pc, evs)
        BY <2>0, <2>3, <3>2 DEF IndInv, Good, Kept, InKept, OutKept, Due
      <3> QED
        BY <1>0, <2>0, <2>3, <3>1, <3>3, <3>4, <3>5 DEF IndInv, Good, Base, Stages
    <2> QED
      BY <2>2, <2>3
  <1>6. CASE TakeBack
    <2> DEFINE v == CloseFd(Now)
    <2>1. c' = v /\ ~Now.open
      BY <1>6 DEF TakeBack, Other, Same
    <2>2. Fields(v) /\ Apart(Now, v) /\ ~v.open /\ v.type = Now.type
      BY ClosedFd
    <2> HIDE DEF v
    <2>3. Good(v, pc, evs)
      BY <2>1, <2>2, ClosedGood DEF Apart, Good
    <2> QED
      BY <1>0, <2>1, <2>3 DEF IndInv
  <1>7. CASE \E f \in Files : GiveOut(f)
    <2>1. PICK f \in Files : GiveOut(f)
      BY <1>7
    <2> DEFINE v == [Now EXCEPT !.file = f, !.ready = Now.inep]
    <2>2. c' = v
      BY <2>1 DEF GiveOut, Other, Edge, Fields, Record
    <2>3. f \in AnyFile /\ f # NoFile
      BY FilesAssumption DEF AnyFile
    <2>4. Fields(v)
      BY <2>3 DEF Fields, Record
    <2>5. Edged(Now, v)
      BY DEF Fields, Record, Edged
    <2> QED
      BY <1>0, <2>2, <2>4, <2>5, EdgedGood DEF IndInv
  <1> QED
    BY <1>1, <1>2, <1>3, <1>4, <1>5, <1>6, <1>7 DEF Network

(* Every step keeps the invariant.                                          *)
LEMMA NextGood ==
    ASSUME IndInv, [Next]_vars, ~EndsInDisconnect
    PROVE  IndInv'
  <1>1. CASE Accept
    BY <1>1, AcceptGood
  <1>2. CASE \E result \in {"done", "goes on", "fails"} : Connect(result)
    BY <1>2, ConnectGood
  <1>3. CASE Thread
    BY <1>3, PlaceGood, WaitGood, HandleGood, EndDisconnectGood DEF Thread
  <1>4. CASE Program
    BY <1>4, ProgramGood
  <1>5. CASE Network
    BY <1>5, NetworkGood
  <1>6. CASE UNCHANGED vars
    BY <1>6 DEF IndInv, vars
  <1>7. CASE OnTimer
    BY <1>7, OnTimerGood
  <1> QED
    BY <1>1, <1>2, <1>3, <1>4, <1>5, <1>6, <1>7 DEF Next

(* At most one callback for the end was made, and at most one runs.         *)
LEMMA Ends ==
    ASSUME IndInv
    PROVE  /\ c.discs = <<>> \/ \E err \in Errors : c.discs = <<err>>
           /\ c.pend = <<>> \/ \E err \in Errors : c.pend = <<err>>
  BY DEF IndInv, Good, Base, Stages, Alive, Telling, Gone

-----------------------------------------------------------------------------
(* Every reachable state satisfies the inductive invariant.                  *)
THEOREM Inductive == ASSUME ~EndsInDisconnect PROVE Spec => []IndInv
  <1>1. IndInv /\ [Next]_vars => IndInv'
    BY NextGood
  <1> QED
    BY InitGood, <1>1, PTL DEF Spec

(* The disconnect callback comes once (RWSocket::OnDisConnect).              *)
THEOREM DisconnectsOnce == ASSUME ~EndsInDisconnect PROVE Spec => []DisconnectOnce
  <1>1. Len(<<>>) <= 1 /\ \A err \in Errors : Len(<<err>>) <= 1
    OBVIOUS
  <1>2. ASSUME IndInv PROVE DisconnectOnce
    <2>1. CASE c.discs = <<>>
      BY <1>1, <2>1 DEF DisconnectOnce
    <2>2. CASE \E err \in Errors : c.discs = <<err>>
      BY <1>1, <2>2 DEF DisconnectOnce
    <2> QED
      BY <1>2, <2>1, <2>2, Ends
  <1> QED
    BY <1>2, Inductive, PTL

(* _shutdown, the descriptor, the map of sockets and what the program was told *)
(* agree when no disconnect callback runs.                                  *)
THEOREM ClosedIsNotified == ASSUME ~EndsInDisconnect PROVE Spec => []NotifiedIffClosed
  <1>1. IndInv => TypeOK
    <2> SUFFICES ASSUME IndInv PROVE TypeOK
      OBVIOUS
    <2>1. Fields(c) /\ Events(c, pc, evs)
      BY DEF IndInv, Good, Base
    <2>2. DOMAIN c = DOMAIN Fresh
      BY <2>1 DEF Fields, Record, Fresh
    <2>3. c.pend \in Seq(Errors) /\ c.discs \in Seq(Errors)
      <3>1. <<>> \in Seq(Errors) /\ \A err \in Errors : <<err>> \in Seq(Errors)
        OBVIOUS
      <3> QED
        BY <3>1, Ends
    <2> QED
      BY <2>1, <2>2, <2>3 DEF TypeOK, Fields, Record, Events, AnyFile
  <1>2. IndInv => NotifiedIffClosed
    BY <1>1 DEF IndInv, Good, Base, Stages, Alive, Telling, Gone, NotifiedIffClosed
  <1> QED
    BY <1>2, Inductive, PTL

(* With edge-triggered epoll the thread never comes to epoll_wait with bytes   *)
(* to read or to send and no edge reported or to come.                      *)
THEOREM EdgesAreKept == ASSUME ~EndsInDisconnect PROVE Spec => []NoLostEdge
  <1>1. IndInv => NoLostEdge
    BY DEF IndInv, Good, Base, Events, Kept, InKept, OutKept, Due, NoLostEdge
  <1> QED
    BY <1>1, Inductive, PTL

-----------------------------------------------------------------------------
(* The callbacks of a step are none or one.                                  *)
Tells(s, names) ==
    s.calls = <<>> \/ (DOMAIN s.calls = {1} /\ s.calls[1][1] \in names)

Others == {"accept", "connect", "timer", "write", "disconnect"}

(* A sequence of one callback.                                              *)
LEMMA OneCall ==
    ASSUME NEW name, NEW arg
    PROVE  /\ DOMAIN Append(<<>>, <<name, arg>>) = {1}
           /\ Append(<<>>, <<name, arg>>)[1][1] = name
  OBVIOUS

(* Told of a step that has told nothing tells one thing.                    *)
LEMMA ToldOne ==
    ASSUME NEW s, s \in Record(s), s.calls = <<>>, NEW names, NEW name \in names, NEW arg
    PROVE  Tells(Told(s, name, arg), names)
  <1>1. Told(s, name, arg).calls = Append(<<>>, <<name, arg>>)
    BY DEF Told, Record
  <1> QED
    BY <1>1, OneCall DEF Tells

(* These operations make no callback.                                       *)
LEMMA SilentOnes ==
    ASSUME NEW s, Fields(s)
    PROVE  /\ StopTimer(s).calls = s.calls /\ Unref(s).calls = s.calls
           /\ FinishDisconnect(s, "success").calls = s.calls
           /\ \A err : FinishDisconnect(s, err).calls = s.calls
           /\ AddSendEvent(s).calls = s.calls /\ AddRecvEvent(s).calls = s.calls
  <1>1. StopTimer(s).calls = s.calls /\ Unref(s).calls = s.calls
    BY DEF StopTimer, Unref, Fields, Record
  <1>2. ASSUME NEW err PROVE FinishDisconnect(s, err).calls = s.calls
    BY DEF FinishDisconnect, CloseFd, DelEvent, Fields, Record
  <1>3. AddSendEvent(s).calls = s.calls
    BY DEF AddSendEvent, AddEvent, Polled, Fields, Record
  <1>4. AddRecvEvent(s).calls = s.calls
    BY DEF AddRecvEvent, AddEvent, Polled, Fields, Record
  <1> QED
    BY <1>1, <1>2, <1>3, <1>4

(* OnDisConnect makes the disconnect callback or none.                      *)
LEMMA DisconnectTells ==
    ASSUME NEW s, Fields(s), s.calls = <<>>, NEW err
    PROVE  Tells(OnDisConnect(s, err), {"disconnect"})
  <1> DEFINE d == [s EXCEPT !.mapped = FALSE]
             e == [d EXCEPT !.pend = <<err>> \o @, !.discs = Append(@, err)]
  <1>1. CASE s.shutdown
    <2>1. Fields(d) /\ d.calls = <<>>
      BY DEF Fields, Record
    <2> HIDE DEF d
    <2>2. FinishDisconnect(d, err).calls = <<>>
      BY <2>1, SilentOnes
    <2> QED
      BY <1>1, <2>2 DEF OnDisConnect, Tells, d
  <1>2. CASE ~s.shutdown
    <2>1. e \in Record(e) /\ e.calls = <<>>
      BY DEF Fields, Record
    <2>2. OnDisConnect(s, err) = Told(e, "disconnect", err)
      BY <1>2 DEF OnDisConnect
    <2> HIDE DEF e
    <2> QED
      BY <2>1, <2>2, ToldOne
  <1> QED
    BY <1>1, <1>2

(* Send makes the write or the disconnect callback, or none.                *)
LEMMA SendTells ==
    ASSUME NEW s, Fields(s), s.calls = <<>>
    PROVE  Tells(Send(s), {"write", "disconnect"})
  <1> DEFINE n == Part(s)
             m == Queued(s)
             l == s.wbuf - n
  <1>0. m \in 0 .. SndCap /\ l \in 0 .. MaxCache + 1
    BY PartFits
  <1>1. CASE s.wbuf = 0
    <2>1. Send(s) = [s EXCEPT !.ret = TRUE, !.calls = Append(@, <<"write", 0>>)]
      BY <1>1, SendCases
    <2>2. Send(s).calls = Append(<<>>, <<"write", 0>>)
      BY <2>1 DEF Fields, Record
    <2> QED
      BY <2>2, OneCall DEF Tells
  <1>2. CASE s.wbuf # 0 /\ Behind(s).rst
    <2> DEFINE v == [s EXCEPT !.ret = FALSE]
    <2>1. Fields(v) /\ v.calls = <<>>
      BY DEF Fields, Record
    <2>2. Send(s) = OnDisConnect(v, "closed")
      BY <1>2, SendCases
    <2> HIDE DEF v
    <2> QED
      BY <2>1, <2>2, DisconnectTells DEF Tells
  <1>3. CASE s.wbuf # 0 /\ ~Behind(s).rst /\ n = s.wbuf
    <2>1. Send(s) = [s EXCEPT !.wbuf = l, !.snd = m, !.ret = TRUE,
                              !.calls = Append(@, <<"write", n>>)]
      BY <1>3, SendCases
    <2> HIDE DEF n, m, l
    <2>2. Send(s).calls = Append(<<>>, <<"write", n>>)
      BY <2>1 DEF Fields, Record
    <2> QED
      BY <2>2, OneCall DEF Tells
  <1>4. CASE s.wbuf # 0 /\ ~Behind(s).rst /\ n # s.wbuf
    <2> DEFINE v == [s EXCEPT !.wbuf = l, !.snd = m, !.nospace = s.open /\ ~s.syn]
    <2>1. Send(s) = AddSendEvent(v)
      BY <1>4, SendCases
    <2> HIDE DEF n, m, l
    <2>2. Fields(v) /\ v.calls = <<>>
      BY <1>0 DEF Fields, Record
    <2> HIDE DEF v
    <2> QED
      BY <2>1, <2>2, SilentOnes DEF Tells
  <1> QED
    BY <1>1, <1>2, <1>3, <1>4

(* So does Write.                                                           *)
LEMMA WriteTells ==
    ASSUME NEW s, Fields(s), s.calls = <<>>
    PROVE  Tells(Write(s), {"write", "disconnect"})
  <1> DEFINE w == WriteByte(s)
  <1>1. CASE s.wbuf > MaxCache
    <2>1. Write(s) = [s EXCEPT !.ret = FALSE]
      BY <1>1, CapAssumption DEF Write, Fields, Record
    <2> QED
      BY <2>1 DEF Tells, Fields, Record
  <1>2. CASE ~(s.wbuf > MaxCache)
    <2>1. Fields(w) /\ w.calls = <<>>
      BY <1>2, ByteWritten
    <2>2. Write(s) = IF s.wbuf = 0 THEN Send(w) ELSE AddSendEvent(w)
      BY <1>2 DEF Write
    <2> HIDE DEF w
    <2> QED
      BY <2>1, <2>2, SendTells, SilentOnes DEF Tells
  <1> QED
    BY <1>1, <1>2

(* Close makes the disconnect callback or none.                             *)
LEMMA CloseTells ==
    ASSUME NEW s, NEW p, NEW es, Good(s, p, es), Running(s, p), s.calls = <<>>
    PROVE  Tells(Close(s), {"disconnect"})
  <1> DEFINE t == [s EXCEPT !.type = @ \cup {"disconnect"}]
  <1> Fields(s)
    BY DEF Good, Base
  <1>1. CASE "disconnect" \in s.type \/ ~InSet(s)
    <2>1. Fields(t) /\ t.calls = <<>>
      BY DEF Fields, Record
    <2>2. Close(s) = StopTimer(t)
      BY <1>1 DEF Close
    <2> HIDE DEF t
    <2> QED
      BY <2>1, <2>2, SilentOnes DEF Tells
  <1>2. CASE ~("disconnect" \in s.type \/ ~InSet(s))
    <2> DEFINE d == OnDisConnect(Shut(s), "success")
    <2>1. /\ Fields(Shut(s)) /\ Shut(s).calls = s.calls
          /\ Close(s) = d \/ Close(s) = StopTimer(d)
          /\ Good(d, p, es)
      BY <1>2, CloseEnds
    <2>2. Tells(d, {"disconnect"})
      BY <2>1, DisconnectTells
    <2> HIDE DEF d
    <2>3. StopTimer(d).calls = d.calls
      BY <2>1, SilentOnes DEF Good, Base
    <2> QED
      BY <2>1, <2>2, <2>3 DEF Tells
  <1> QED
    BY <1>1, <1>2

(* Recv calls the read callback only when the number stands for something.     *)
LEMMA RecvTells ==
    ASSUME NEW s, NEW exact, Fields(s), s.calls = <<>>
    PROVE  /\ Tells(Recv(s, exact), {"read", "disconnect"})
           /\ ~s.open /\ s.file = NoFile => Tells(Recv(s, exact), {"disconnect"})
  <1> DEFINE n   == Behind(s).rcv
             got == [s EXCEPT !.rcv = 0, !.unread = @ + n, !.len = @ + n]
  <1>0. 0 \in 0 .. MaxIn /\ MaxIn \in Nat
    BY CapAssumption
  <1>1. n \in Nat /\ s.unread \in Nat /\ s.len \in Nat /\ s.unread <= s.len
    BY BehindTyped DEF Fields, Record
  <1>2. ~s.open /\ s.file = NoFile => n = 0 /\ Behind(s).rst
    BY DEF Behind, NoFile
  <1>3. Recv(s, exact) =
            IF n > 0 /\ ~exact THEN Told(got, "read", n)
            ELSE IF Behind(s).rst THEN OnDisConnect(got, "break")
            ELSE IF Behind(s).fin THEN OnDisConnect(got, "closed")
            ELSE Told([got EXCEPT !.unread = IF @ = 0 THEN 0 ELSE @ - 1, !.len = @ + 1],
                      "read", n - 1)
    BY DEF Recv
  <1> HIDE DEF n
  <1>4. /\ Told(got, "read", n).calls = Append(<<>>, <<"read", n>>)
        /\ Told([got EXCEPT !.unread = IF @ = 0 THEN 0 ELSE @ - 1, !.len = @ + 1],
                "read", n - 1).calls = Append(<<>>, <<"read", n - 1>>)
    BY DEF Told, Fields, Record
  <1>5. Fields(got) /\ got.calls = <<>>
    <2> DEFINE a == s.unread + n
               b == s.len + n
               v == [s EXCEPT !.rcv = 0, !.unread = a, !.len = b]
    <2>1. a \in Nat /\ b \in Nat /\ a <= b
      BY <1>1
    <2>2. got = v
      OBVIOUS
    <2> HIDE DEF a, b
    <2>3. Fields(v) /\ v.calls = <<>>
      BY <1>0, <2>1 DEF Fields, Record
    <2> HIDE DEF v, got
    <2> QED
      BY <2>2, <2>3
  <1> HIDE DEF got
  <1>6. /\ Tells(OnDisConnect(got, "break"), {"disconnect"})
        /\ Tells(OnDisConnect(got, "closed"), {"disconnect"})
    BY <1>5, DisconnectTells
  <1>7. /\ Tells(Told(got, "read", n), {"read", "disconnect"})
        /\ Tells(Told([got EXCEPT !.unread = IF @ = 0 THEN 0 ELSE @ - 1, !.len = @ + 1],
                      "read", n - 1), {"read", "disconnect"})
    BY <1>4, OneCall DEF Tells
  <1>8. Tells(Recv(s, exact), {"read", "disconnect"})
    BY <1>3, <1>6, <1>7 DEF Tells
  <1>9. ~s.open /\ s.file = NoFile => Tells(Recv(s, exact), {"disconnect"})
    BY <1>2, <1>3, <1>6
  <1> QED
    BY <1>8, <1>9

(* One callback that is not a read callback.                                *)
LEMMA OtherCall ==
    ASSUME NEW s, NEW name \in Others, NEW arg, s.calls = Append(<<>>, <<name, arg>>)
    PROVE  Tells(s, Others)
  BY OneCall DEF Tells

(* The callbacks of an opening connection and of a timer.                   *)
LEMMA OpeningTells ==
    ASSUME NEW s, Fields(s), s.calls = <<>>, NEW err
    PROVE  /\ Tells(Told([s EXCEPT !.mapped = TRUE], "accept", err), Others)
           /\ Tells(OnConnect(s, err), Others)
           /\ Tells(OnConnect([s EXCEPT !.rst = TRUE], err), Others)
           /\ \A a : Tells(OnConnect([s EXCEPT !.armed = a], err), Others)
           /\ \A a, w : Tells(Told([[s EXCEPT !.armed = a] EXCEPT !.wanted = w], "timer", 0), Others)
  <1>1. Told([s EXCEPT !.mapped = TRUE], "accept", err).calls = Append(<<>>, <<"accept", err>>)
    BY DEF Told, Fields, Record
  <1>2. OnConnect(s, err).calls = Append(<<>>, <<"connect", err>>)
    BY DEF OnConnect, Told, Fields, Record
  <1>3. OnConnect([s EXCEPT !.rst = TRUE], err).calls = Append(<<>>, <<"connect", err>>)
    BY DEF OnConnect, Told, Fields, Record
  <1>4. ASSUME NEW a
        PROVE  OnConnect([s EXCEPT !.armed = a], err).calls = Append(<<>>, <<"connect", err>>)
    BY DEF OnConnect, Told, Fields, Record
  <1>5. ASSUME NEW a, NEW w
        PROVE  Told([[s EXCEPT !.armed = a] EXCEPT !.wanted = w], "timer", 0).calls
                   = Append(<<>>, <<"timer", 0>>)
    BY DEF Told, Fields, Record
  <1>6. {"accept", "connect", "timer"} \subseteq Others
    BY DEF Others
  <1>7. /\ Tells(Told([s EXCEPT !.mapped = TRUE], "accept", err), Others)
        /\ Tells(OnConnect(s, err), Others)
        /\ Tells(OnConnect([s EXCEPT !.rst = TRUE], err), Others)
    BY <1>1, <1>2, <1>3, <1>6, OtherCall
  <1>8. ASSUME NEW a PROVE Tells(OnConnect([s EXCEPT !.armed = a], err), Others)
    BY <1>4, <1>6, OtherCall
  <1>9. ASSUME NEW a, NEW w
        PROVE  Tells(Told([[s EXCEPT !.armed = a] EXCEPT !.wanted = w], "timer", 0), Others)
    BY <1>5, <1>6, OtherCall
  <1> QED
    BY <1>7, <1>8, <1>9

(* Only OnRead makes a read callback.                                       *)
LEMMA OthersTell ==
    ASSUME IndInv, Next, ~EndsInDisconnect
    PROVE  Tells(c', Others) \/ \E exact \in BOOLEAN : OnRead(exact)
  <1> Good(Now, pc, evs) /\ Fields(Now) /\ Same(c, Now) /\ Now.calls = <<>>
    <2>1. Now.calls = <<>>
      BY DEF Now, IndInv, Good, Base, Fields, Record
    <2> QED
      BY <2>1, NowGood
  <1>1. CASE Accept
    BY <1>1, OpeningTells DEF Accept
  <1>2. CASE \E result \in {"done", "goes on", "fails"} : Connect(result)
    <2>1. c' \in {OnConnect(Now, "success"), OnConnect([Now EXCEPT !.rst = TRUE], "refuse"),
                  [Now EXCEPT !.syn = TRUE, !.connecting = TRUE,
                              !.timerId = TRUE, !.armed = "once"]}
      BY <1>2 DEF Connect
    <2>2. Tells([Now EXCEPT !.syn = TRUE, !.connecting = TRUE,
                            !.timerId = TRUE, !.armed = "once"], Others)
      BY DEF Tells, Fields, Record
    <2>3. /\ Tells(OnConnect(Now, "success"), Others)
          /\ Tells(OnConnect([Now EXCEPT !.rst = TRUE], "refuse"), Others)
      BY OpeningTells
    <2> QED
      BY <2>1, <2>2, <2>3
  <1>3. CASE StartRead
    <2>1. c' = Unref(AddRecvEvent(Now))
      BY <1>3 DEF StartRead
    <2>2. Running(Now, "opened") /\ pc = "opened"
      BY <1>3 DEF StartRead, Same, Good, Base, Events, Running
    <2>3. Fields(AddRecvEvent(Now))
      BY <2>2, AddRecvGood DEF Good, Base
    <2> QED
      BY <2>1, <2>3, SilentOnes DEF Tells
  <1>4. CASE EndRefused \/ OnEvent \/ EndEvent \/ Return
    <2>1. c' \in {Now, Unref(Now)}
      BY <1>4 DEF EndRefused, OnEvent, EndEvent, Return
    <2> QED
      BY <2>1, SilentOnes DEF Tells
  <1>5. CASE OnTimer
    <2> DEFINE a == IF Now.armed = "once" THEN "no" ELSE Now.armed
               t == [Now EXCEPT !.armed = a]
    <2>1. \/ c' \in {OnConnect(t, "refuse"), OnConnect(t, "success")}
          \/ c' = Told([t EXCEPT !.wanted = t.armed # "no"], "timer", 0)
      BY <1>5 DEF OnTimer
    <2>2. /\ Tells(OnConnect(t, "refuse"), Others) /\ Tells(OnConnect(t, "success"), Others)
          /\ Tells(Told([t EXCEPT !.wanted = t.armed # "no"], "timer", 0), Others)
      <3> HIDE DEF a
      <3> QED
        BY OpeningTells
    <2> QED
      BY <2>1, <2>2
  <1>6. CASE Wait
    <2>1. c'.calls = <<>>
      BY <1>6 DEF Wait, Polled, Fields, Record
    <2> QED
      BY <2>1 DEF Tells
  <1>7. CASE OnWrite
    BY <1>7, SendTells DEF OnWrite, Handle, Tells, Others
  <1>8. CASE OnHup
    BY <1>8, DisconnectTells DEF OnHup, Handle, Tells, Others
  <1>9. CASE EndDisconnect
    <2> DEFINE d == [Now EXCEPT !.pend = Tail(@)]
               e == [Now EXCEPT !.pend = Tail(@), !.shutdown = TRUE]
    <2>1. c' = StopTimer(e) \/ c' = FinishDisconnect(d, Head(c.pend))
      BY <1>9 DEF EndDisconnect, FinishDisconnect, Fields, Record
    <2>2. Fields(d) /\ d.calls = <<>> /\ Fields(e) /\ e.calls = <<>>
      BY DEF Fields, Record
    <2> HIDE DEF d, e
    <2> QED
      BY <2>1, <2>2, SilentOnes DEF Tells
  <1>10. CASE Program
    <2>1. CASE CallWrite
      BY <2>1, WriteTells DEF CallWrite, Calls, Tells, Others
    <2>2. CASE CallClose
      <3> DEFINE d == Close(Now)
      <3>1. Tells(d, {"disconnect"}) /\ Fields(d)
        <4>1. Running(Now, pc)
          BY <2>2, UserRuns DEF CallClose, Calls, MayEnd
        <4> QED
          BY <4>1, CloseTells, CloseGood DEF Good, Base
      <3>2. c' = [d EXCEPT !.asked = @ \/ (c.open /\ pc # "refused"), !.wanted = FALSE]
        BY <2>2 DEF CallClose, Calls
      <3> HIDE DEF d
      <3>3. c'.calls = d.calls
        BY <3>1, <3>2 DEF Fields, Record
      <3> QED
        BY <3>1, <3>3 DEF Tells, Others
    <2>3. CASE CallStopTimer \/ CallRead \/ Keep \/ \E kind \in {"once", "always"} : CallAddTimer(kind)
      <3>1. c'.calls = <<>>
        BY <2>3 DEF CallStopTimer, CallRead, Keep, CallAddTimer, Calls, StopTimer, Fields, Record
      <3> QED
        BY <3>1 DEF Tells
    <2>4. CASE Release
      <3> DEFINE v == [Now EXCEPT !.held = FALSE]
      <3>1. c' \in {v, Unref(v)}
        BY <2>4 DEF Release, Calls
      <3>2. Fields(v) /\ v.calls = <<>>
        BY DEF Fields, Record
      <3> HIDE DEF v
      <3> QED
        BY <3>1, <3>2, SilentOnes DEF Tells
    <2> QED
      BY <1>10, <2>1, <2>2, <2>3, <2>4 DEF Program
  <1>11. CASE Network
    <2>1. c'.calls = <<>>
      <3>1. CASE TakeBack
        BY <3>1, ClosedFd DEF TakeBack, Other, Apart
      <3>2. CASE ~TakeBack
        BY <1>11, <3>2 DEF Network, Established, Arrive, PeerClose, PeerReset, PeerDrain, Net,
                           GiveOut, Other, Edge, Fields, Record
      <3> QED
        BY <3>1, <3>2
    <2> QED
      BY <2>1 DEF Tells
  <1> QED
    BY <1>1, <1>2, <1>3, <1>4, <1>5, <1>6, <1>7, <1>8, <1>9, <1>10, <1>11 DEF Next, Thread

(* No read callback comes after the disconnect callback in the same event,    *)
(* and in a later or stale one only when the number of the closed descriptor  *)
(* stands for something again (RWSocket::Recv and OnDisConnect).            *)
THEOREM ReadsAreFirst == ASSUME ~EndsInDisconnect PROVE Spec => ReadsComeFirst
  <1> DEFINE First ==
        \A i \in DOMAIN c'.calls :
            c'.calls[i][1] = "read" =>
                /\ c.discs = <<>> \/ (~c.open /\ c.file # NoFile)
                /\ \A j \in 1 .. i : c'.calls[j][1] # "disconnect"
  <1>1. ASSUME IndInv, Next PROVE First
    <2>1. CASE Tells(c', Others)
      BY <2>1 DEF Tells, Others
    <2>2. CASE \E exact \in BOOLEAN : OnRead(exact)
      <3>1. PICK exact \in BOOLEAN : OnRead(exact)
        BY <2>2
      <3>2. c' = Recv(Now, exact) /\ c.pend = <<>>
        BY <3>1 DEF OnRead, Handle
      <3>3. Fields(Now) /\ Now.calls = <<>> /\ Now.open = c.open /\ Now.file = c.file
        BY <1>1, NowGood DEF Now, IndInv, Good, Base, Fields, Record
      <3>4. CASE c.open \/ c.file # NoFile
        <4>1. c.discs = <<>> \/ (~c.open /\ c.file # NoFile)
          BY <1>1, <3>2, <3>4 DEF IndInv, Good, Base, Stages, Alive, Telling, Gone
        <4>2. Tells(c', {"read", "disconnect"})
          BY <3>2, <3>3, RecvTells
        <4>3. ASSUME NEW i \in DOMAIN c'.calls, c'.calls[i][1] = "read"
              PROVE  \A j \in 1 .. i : c'.calls[j][1] # "disconnect"
          BY <4>2, <4>3 DEF Tells
        <4> QED
          BY <4>1, <4>3
      <3>5. CASE ~c.open /\ c.file = NoFile
        BY <3>2, <3>3, <3>5, RecvTells DEF Tells
      <3> QED
        BY <3>4, <3>5
    <2> QED
      BY <1>1, <2>1, <2>2, OthersTell
  <1>2. IndInv /\ [Next]_vars => [First]_vars
    BY <1>1
  <1> QED
    BY <1>2, Inductive, PTL DEF Spec, ReadsComeFirst
=============================================================================
