------------------------------ MODULE TimerWheel ------------------------------
(***************************************************************************)
(* The timer of a Dispatcher (common/timer/timer_container.cpp): the two     *)
(* wheels that MakeTimer1Min builds.  "root" has one bucket for each second  *)
(* of a minute and cascades into "sub", which has one for each millisecond   *)
(* of a second.  Both are driven by Dispatcher::Run, which calls TimerRun    *)
(* with the time since its last call and then MinTime.  All calls are made   *)
(* on the I/O thread.  What a callback does is left out.                    *)
(*                                                                          *)
(* The state of both wheels is one record, so that a call that runs through  *)
(* both is a composition of operators:                                      *)
(*   cur[w]    _cur_time                                                    *)
(*   bm[w]     _bitmap                                                      *)
(*   list[w]   the timers in _timer_wheel, as <<bucket, left time, timer>>  *)
(*   key[w]    the <<bucket, left time>> keys of _timer_wheel; a key stays   *)
(*             when its list becomes empty                                  *)
(*   slot[t]   the TimerSlot members of timer t                             *)
(***************************************************************************)
EXTENDS BitmapOps, Sequences

CONSTANTS
    Timers,     \* the timer events
    Unit,       \* milliseconds in a second: _size of "sub", _time_unit of "root"
    RootSize,   \* seconds in a minute: _size of "root"
    Intervals,  \* the intervals AddTimer is called with
    IndexSpan,  \* 2^10: the three type bits of _cur_index are above it
    Garbage,    \* what an uninitialised _cur_index may hold
    MaxLag,     \* bound on the time from one TimerRun to the next
    MaxCur,     \* bound on how far _cur_time of "root" goes beyond its wheel
    LeftToRight \* the build evaluates arguments of a call from left to right

ASSUME TimersAssumption == IsFiniteSet(Timers)
ASSUME UnitAssumption == Unit \in Nat \ {0} /\ RootSize \in Nat \ {0}
ASSUME IntervalsAssumption == Intervals \subseteq 0 .. Unit * RootSize
ASSUME SpanAssumption == IndexSpan \in Nat /\ IndexSpan >= Unit
ASSUME GarbageAssumption == Garbage \subseteq 0 .. 64 * IndexSpan - 1
ASSUME MaxLagAssumption == MaxLag \in Nat /\ MaxCur \in Nat
ASSUME LeftToRightAssumption == LeftToRight \in BOOLEAN

VARIABLES
    tw,         \* the two wheels and the slots
    owned,      \* the timers in the dispatcher's __all_timer_event_map
    fired       \* the timers called back by the last call

vars == <<tw, owned, fired>>

Wheels == {"root", "sub"}
UnitOf(w) == IF w = "root" THEN Unit ELSE 1
SizeOf(w) == IF w = "root" THEN RootSize ELSE Unit

(* TimerSlot: the constructor leaves _cur_index as it finds it.             *)
NewSlot(cur_index) ==
    [total |-> 0, left |-> 0, always |-> FALSE, in |-> FALSE, index |-> cur_index]

(* The place of a timer that does not exist.                                *)
NoSlot == NewSlot(0)

(* SetCurIndex: one 16-bit word for the index and the type of the wheel,     *)
(* index | type.  Nothing keeps the index out of the bits of the type.       *)
TypeBit(w) == IF w = "root" THEN 2 ELSE 1

SetCurIndex(index, w) ==
    IF (index \div (TypeBit(w) * IndexSpan)) % 2 = 1 THEN index
    ELSE index + TypeBit(w) * IndexSpan

(* GetCurIndex: the two parts, and the wheel whose type the second is.       *)
GetCurIndex(word) ==
    LET type == (word \div IndexSpan) % 8
    IN  [index |-> (word % IndexSpan) + (word \div (8 * IndexSpan)) * (8 * IndexSpan),
         type  |-> IF \E w \in Wheels : type = TypeBit(w)
                   THEN CHOOSE w \in Wheels : type = TypeBit(w) ELSE "none"]

(* MakeTimer1Min and the constructors.                                      *)
NewWheels(slack) ==
    [cur  |-> [w \in Wheels |-> 0],
     bm   |-> [w \in Wheels |-> NewBitmap(SizeOf(w), slack)],
     list |-> [w \in Wheels |-> {}],
     key  |-> [w \in Wheels |-> {}],
     slot |-> [t \in Timers |-> NoSlot]]

-----------------------------------------------------------------------------
(* Adding and removing.                                                     *)

(* InnerAddTimer: the bucket is counted from _cur_time in 16 bits, and the   *)
(* part of the interval that is smaller than a bucket is kept for the sub    *)
(* wheel.  A whole turn is taken off once, so that a _cur_time far beyond    *)
(* the wheel gives a bucket beyond it.                                      *)
Bucket(s, w, time) ==
    LET i == (time \div UnitOf(w) + s.cur[w]) % (64 * IndexSpan)
    IN  IF i >= SizeOf(w) THEN i - SizeOf(w) ELSE i

InnerAddTimer(s, w, t, time) ==
    LET i    == Bucket(s, w, time)
        left == IF w = "root" THEN time % Unit ELSE 0
        rest == s.slot[t].left - (time - left)
    IN  [s EXCEPT !.slot[t] = [@ EXCEPT !.index = SetCurIndex(i, w), !.left = rest],
                  !.list[w] = @ \cup {<<i, left, t>>},
                  !.key[w] = @ \cup {<<i, left>>},
                  !.bm[w] = Insert(@, i)]

(* AddTimer of the root wheel, which hands short intervals to the sub wheel. *)
AddTimer(s, t, time, always) ==
    IF time >= Unit * RootSize \/ s.slot[t].in THEN s
    ELSE InnerAddTimer(
             [s EXCEPT !.slot[t] = [@ EXCEPT !.total = time, !.left = time, !.in = TRUE,
                                             !.always = always]],
             IF time < Unit THEN "sub" ELSE "root", t, time)

(* RmTimer: the wheel whose type the slot has clears the bit of the bucket   *)
(* and takes the timer off the list that its members name.  Without one of   *)
(* the two types nothing happens.                                           *)
RmTimer(s, t) ==
    LET w    == GetCurIndex(s.slot[t].index).type
        i    == GetCurIndex(s.slot[t].index).index
        left == IF w = "root" THEN s.slot[t].left ELSE 0
    IN  IF w = "none" THEN s
        ELSE [s EXCEPT !.slot[t].in = FALSE,
                       !.bm[w] = Remove(@, i),
                       !.list[w] = @ \ {<<i, left, t>>}]

-----------------------------------------------------------------------------
(* MinTime.                                                                 *)

NO_TIMER == -1

(* GetIndexLeftInterval: the least key of the bucket.                       *)
GetIndexLeftInterval(s, w, i) ==
    LET lefts == {k[2] : k \in {e \in s.key[w] : e[1] = i}}
    IN  IF lefts = {} THEN 0 ELSE Min(lefts)

LocalMinTime(s, w) ==
    LET next  == GetMinAfter(s.bm[w], s.cur[w])
        first == GetMinAfter(s.bm[w], 0)
    IN  IF next >= 0
        THEN (next - s.cur[w]) * UnitOf(w) + GetIndexLeftInterval(s, w, next)
        ELSE IF s.cur[w] > 0 /\ first >= 0
        THEN (first + SizeOf(w) - s.cur[w]) * UnitOf(w)
               + GetIndexLeftInterval(s, w, first)
        ELSE NO_TIMER

(* MinTime of the root wheel; past_time is the sub wheel's CurrentTimer.    *)
MinTime(s) ==
    LET local == LocalMinTime(s, "root")
        sub   == LocalMinTime(s, "sub")
        past  == s.cur["sub"]
    IN  IF sub > 0
        THEN IF local - past > 0 THEN Min({local - past, sub}) ELSE sub
        ELSE IF local > 0 THEN local - past
        ELSE local

-----------------------------------------------------------------------------
(* TimerRun.                                                                *)

(* GetIndexTimer: takes bucket i off the wheel.  A left time of 0 or of at   *)
(* most time_pass is run, the rest goes to the sub wheel.  The bit that is   *)
(* cleared is that of _cur_time.  c collects the wheels and both lists.     *)
GetIndexTimerKeepBucket(c, w, i, time_pass) ==
    LET taken == {e \in c.s.list[w] : e[1] = i}
        runs  == {e \in taken : e[2] <= time_pass}
    IN  [s   |-> [c.s EXCEPT !.bm[w] = Remove(@, c.s.cur[w])],
         run |-> c.run \cup {e[3] : e \in runs},
         sub |-> c.sub \cup {e[3] : e \in taken \ runs}]

GetIndexTimer(c, w, i, time_pass) ==
    LET taken == {e \in c.s.list[w] : e[1] = i}
        runs  == {e \in taken : e[2] <= time_pass}
    IN  IF ~\E k \in c.s.key[w] : k[1] = i THEN c
        ELSE [s   |-> [c.s EXCEPT !.bm[w] = Remove(@, c.s.cur[w]),
                                  !.list[w] = @ \ taken,
                                  !.key[w] = {k \in @ : k[1] # i}],
              run |-> c.run \cup {e[3] : e \in runs},
              sub |-> c.sub \cup {e[3] : e \in taken \ runs}]

(* The loop over the buckets from prev to _cur_time: l.c after k rounds, and *)
(* l.prev where the next one looks.  As prev grows with every round, there   *)
(* are no more rounds than buckets up to _cur_time.                         *)
Collect(c, w, prev, time_pass) ==
    LET end == c.s.cur[w]
        Loop[k \in 0 .. end + 1] ==
            IF k = 0 THEN [c |-> c, prev |-> prev]
            ELSE LET l    == Loop[k - 1]
                     next == GetMinAfter(l.c.s.bm[w], l.prev)
                 IN  IF next < 0 \/ next > end THEN l
                     ELSE [c |-> GetIndexTimer(l.c, w, next, time_pass), prev |-> next + 1]
    IN  Loop[end + 1].c

(* DoTimer: a timer that ran goes back to the root wheel when it is          *)
(* periodic.  GetTotalInterval clears the flag that IsAlways reads, and the  *)
(* order in which the two arguments are evaluated is up to the compiler.    *)
AgainInTimer(s, t) ==
    IF ~s.slot[t].always THEN s
    ELSE AddTimer([s EXCEPT !.slot[t].in = FALSE, !.slot[t].always = FALSE], t,
                  s.slot[t].total, ~LeftToRight)

Again(s, t) ==
    LET done == [s EXCEPT !.slot[t].in = FALSE]
    IN  IF ~s.slot[t].always THEN done
        ELSE AddTimer([done EXCEPT !.slot[t].always = FALSE], t,
                      s.slot[t].total, ~LeftToRight)

(* The timers to run come first, those for the sub wheel last; among each    *)
(* kind the order does not matter.                                          *)
DoTimer(c, w) ==
    LET subs    == IF w = "sub" THEN {} ELSE c.sub
        Last(S) == CHOOSE t \in S : t \in subs \/ S \cap subs = {}
        Do(s, t) == IF t \in subs THEN InnerAddTimer(s, "sub", t, s.slot[t].left) ELSE Again(s, t)
        After[S \in SUBSET (c.run \cup subs)] ==
            IF S = {} THEN c.s ELSE Do(After[S \ {Last(S)}], Last(S))
    IN  After[c.run \cup subs]

(* TimerRun of wheel w after its sub wheel has run: steps is the number of   *)
(* its own units that passed and left what is below a unit.  The result      *)
(* holds the wheels, the carry and the timers called back.                  *)
Carry(s, w) == s.cur[w] >= SizeOf(w)
Wrap(s, w) == IF Carry(s, w) THEN [s EXCEPT !.cur[w] = @ - SizeOf(w)] ELSE s

RunWheel(s, w, steps, left) ==
    LET prev    == s.cur[w]
        passed  == Collect([s |-> [s EXCEPT !.cur[w] = @ + steps],
                            run |-> {}, sub |-> {}], w, prev, left)
        wrapped == [passed EXCEPT !.s = Wrap(@, w)]
        all     == IF Carry(passed.s, w) THEN Collect(wrapped, w, 0, left)
                   ELSE wrapped
    IN  [s |-> DoTimer(all, w), carry |-> Carry(passed.s, w), run |-> all.run]

TimerRun(s, time) ==
    LET steps == time \div Unit
        left  == time % Unit
        sub   == IF left > 0 THEN RunWheel(s, "sub", left, 0)
                 ELSE [s |-> s, carry |-> FALSE, run |-> {}]
        start == IF sub.carry THEN [sub.s EXCEPT !.cur["root"] = @ + 1] ELSE sub.s
        root  == RunWheel(start, "root", steps, left)
    IN  IF steps > 0 \/ sub.carry
        THEN [s |-> root.s, run |-> sub.run \cup root.run]
        ELSE [s |-> Wrap(start, "root"), run |-> sub.run]

-----------------------------------------------------------------------------
(* The calls of the dispatcher.                                             *)

Init == /\ \E slack \in 0 .. StepSize - 1 : tw = NewWheels(slack)
        /\ owned = {} /\ fired = {}

(* Dispatcher::AddTimer makes a new event each time.                        *)
Made(s, t, cur_index) == [s EXCEPT !.slot[t] = NewSlot(cur_index)]

Add(t, interval, always) ==
    /\ t \notin owned
    /\ \E cur_index \in Garbage :
          tw' = AddTimer(Made(tw, t, cur_index), t, interval, always)
    /\ owned' = owned \cup {t}
    /\ fired' = {}

(* Dispatcher::StopTimer, also of a timer that has run already.  The event   *)
(* is destroyed: an entry of it that is still listed has expired, and        *)
(* DoTimer passes over it.                                                  *)
Destroyed(s, t) ==
    [s EXCEPT !.slot[t] = NoSlot,
              !.list = [w \in Wheels |-> {e \in @[w] : e[3] # t}]]

Stop(t) ==
    /\ t \in owned
    /\ tw' = Destroyed(RmTimer(tw, t), t)
    /\ owned' = owned \ {t}
    /\ fired' = {}

(* The loop of Dispatcher::Run comes around.  Without a timer it has waited   *)
(* in ProcessEvent for any time.                                            *)
Run(time) ==
    /\ tw' = TimerRun(tw, time).s
    /\ fired' = TimerRun(tw, time).run
    /\ UNCHANGED owned

Next == \/ \E t \in Timers, i \in Intervals, always \in BOOLEAN : Add(t, i, always)
        \/ \E t \in Timers : Stop(t)
        \/ \E time \in 0 .. MaxLag : tw.cur["root"] <= MaxCur /\ Run(time)

Spec == Init /\ [][Next]_vars

-----------------------------------------------------------------------------
(* The places where timer t is listed.                                      *)
Listed(t) == UNION {{<<w, e>> : e \in {f \in tw.list[w] : f[3] = t}} : w \in Wheels}

(* Every member has its type.  Only the sub wheel keeps to its size,         *)
(* whatever the time between two calls of TimerRun.                         *)
TypeOK ==
    /\ tw.cur \in [Wheels -> Nat] /\ tw.cur["sub"] < Unit
    /\ \A w \in Wheels : \A e \in tw.list[w] :
          /\ e[1] < 64 * IndexSpan /\ e[2] < Unit /\ <<e[1], e[2]>> \in tw.key[w]
          /\ w = "sub" => e[1] < Unit /\ e[2] = 0
    /\ owned \subseteq Timers /\ fired \subseteq Timers

(* The members of timer t name its place <<w, <<bucket, left time, t>>>>.    *)
Names(t, at) ==
    LET word == GetCurIndex(tw.slot[t].index)
    IN  at = <<word.type, <<word.index, tw.slot[t].left, t>>>>

(* The flag TSF_IN_TIMER tells where a timer is: set, the timer is on one    *)
(* list, and while its bucket is below the type bits its members name that   *)
(* place, so that RmTimer finds it; clear, it is on none.  A cascade, a      *)
(* re-arm and a stop in any order keep this, with TimerRun called at any     *)
(* times: also when _cur_time has left the wheel.                           *)
FlagTells ==
    /\ TypeOK
    /\ \A t \in Timers :
         IF t \in owned /\ tw.slot[t].in
         THEN \E at \in Listed(t) :
                /\ Listed(t) = {at}
                /\ at[2][1] < IndexSpan => Names(t, at)
         ELSE Listed(t) = {}

(* A timer is called back only while it is set: not after its StopTimer, and *)
(* once for each time it is armed.                                          *)
OnlySetTimersFire ==
    [][\A t \in fired' : t \in owned /\ tw.slot[t].in]_vars

(* What holds only while TimerRun is called within a minute: a timer is in a  *)
(* bucket of its wheel, where the search can find it.  An idle dispatcher    *)
(* waits longer (dispatcher.cpp:73), TimerRun takes one turn off _cur_time   *)
(* (timer_container.cpp:168), and the next timer is put beyond the wheel.    *)
BucketsOnWheel == \A w \in Wheels : \A e \in tw.list[w] : e[1] < SizeOf(w)

(* And only while the bucket is below the type bits (some 17 minutes): the    *)
(* members of a timer that is set name its place.                           *)
MembersName ==
    \A t \in owned : tw.slot[t].in => \A at \in Listed(t) : Names(t, at)

(* timer_interface.h on MinTime: "< 0 : has no timer".                      *)
MinTimeTells == MinTime(tw) < 0 => \A t \in owned : ~tw.slot[t].in

(* api.md on AddTimer: "always: Whether the timer calls back periodically".  *)
(* A periodic timer that ran is set again.                                  *)
PeriodicAgain ==
    [][\A t \in fired' : tw.slot[t].always => tw'.slot[t].always]_vars

=============================================================================
