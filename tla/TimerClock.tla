------------------------------ MODULE TimerClock ------------------------------
(***************************************************************************)
(* The timer wheels of TimerWheel against the clock.  Dispatcher::Run passes *)
(* TimerRun the time since its last call, and a timer is added or stopped    *)
(* some time after that call: in a callback of an event or in a task.       *)
(***************************************************************************)
EXTENDS TimerWheel

VARIABLES
    lag,        \* the time since the last TimerRun
    wait,       \* wait[t]: the time until t is due
    early       \* the timers the last TimerRun called back before they were due

clockVars == <<vars, lag, wait, early>>

ClockInit == /\ Init
             /\ lag = 0
             /\ wait = [t \in Timers |-> 0]
             /\ early = {}

AddAt(t, interval, always) ==
    /\ Add(t, interval, always)
    /\ wait' = [wait EXCEPT ![t] = interval]
    /\ early' = {}
    /\ UNCHANGED lag

StopAt(t) ==
    /\ Stop(t)
    /\ wait' = [wait EXCEPT ![t] = 0]
    /\ early' = {}
    /\ UNCHANGED lag

(* A millisecond goes by.                                                   *)
Tick ==
    /\ lag < MaxLag
    /\ lag' = lag + 1
    /\ wait' = [t \in Timers |-> IF wait[t] > 0 THEN wait[t] - 1 ELSE 0]
    /\ fired' = {} /\ early' = {}
    /\ UNCHANGED <<tw, owned>>

RunNow ==
    /\ Run(lag)
    /\ lag' = 0
    /\ early' = {t \in fired' : wait[t] > 0}
    /\ wait' = [t \in Timers |-> IF t \in fired'
                                 THEN IF tw.slot[t].always THEN tw.slot[t].total ELSE 0
                                 ELSE wait[t]]

ClockNext ==
    \/ \E t \in Timers, i \in Intervals, always \in BOOLEAN : AddAt(t, i, always)
    \/ \E t \in Timers : StopAt(t)
    \/ Tick
    \/ RunNow

(* Time goes on, and the loop of the dispatcher comes around again whenever  *)
(* time has passed: lag > 0 always enables RunNow, so that its weak fairness *)
(* says that lag is 0 again and again.                                      *)
ClockSpec == /\ ClockInit /\ [][ClockNext]_clockVars
             /\ SF_clockVars(Tick) /\ []<>(lag = 0)

-----------------------------------------------------------------------------
(* api.md on AddTimer: "interval: Timer timeout, in milliseconds".  No timer *)
(* is called back before its interval is over.                              *)
NeverEarly == early = {}

(* api.md on a socket's AddTimer: "Add a timer, and the timer will be        *)
(* notified to the callback function".  A timer that is set is called back,  *)
(* unless it is stopped.                                                    *)
SetTimersFire ==
    \A t \in Timers : t \in owned /\ tw.slot[t].in ~> t \in fired \/ t \notin owned

=============================================================================
