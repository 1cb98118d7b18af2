------------------------------ MODULE Dispatcher ------------------------------
(***************************************************************************)
(* One Dispatcher (cppnet/dispatcher.cpp): an I/O thread that loops over its *)
(* timers, its events and the tasks other threads post to it, and the calls  *)
(* those threads make.  The two meet in _task_list, under a mutex, in the    *)
(* pipe of the event actions, whose bytes end epoll_wait, and in the atomic  *)
(* flag _stop.                                                              *)
(*                                                                          *)
(* What a task or a callback does to sockets is left out, except that every  *)
(* piece of user code on the I/O thread may itself add and stop timers.  The *)
(* timer wheel is the set of the timers in it: any of them may be due when   *)
(* TimerRun is called, and MinTime returns any wait time.                   *)
(***************************************************************************)
EXTENDS Integers, Sequences

CONSTANTS
    Threads,   \* the threads other than the I/O thread
    PipeCap,   \* the bytes the pipe holds
    MaxTimers, \* bound on the timers added
    MaxPosts   \* bound on the tasks posted

ASSUME PipeCapAssumption == PipeCap \in Nat \ {0}
ASSUME MaxTimersAssumption == MaxTimers \in Nat
ASSUME MaxPostsAssumption == MaxPosts \in Nat

VARIABLES
    at,        \* at[t]: where thread t is in its call
    tid,       \* tid[t]: the timer id t was given, 0 when its call adds none
    task_list, \* _task_list
    func_vec,  \* the tasks DoTask has yet to run
    pipe,      \* the number of bytes in the pipe
    stop,      \* _stop
    pc,        \* where the I/O thread is in Run
    timer_id,  \* _timer_id_creater
    wheel,     \* the timers in the wheel
    timer_map, \* the keys of __all_timer_event_map
    known,     \* the timer ids AddTimer has returned
    removed,   \* history: the timers whose StopTimer has been carried out
    posted,    \* history: the tasks in the order they were posted
    ran        \* history: the tasks in the order they were run

callers == <<at, tid>>
queues == <<task_list, func_vec, posted, ran>>
timers == <<timer_id, wheel, timer_map, known, removed>>
vars == <<callers, queues, timers, pipe, stop, pc>>

TimerIds == 1 .. MaxTimers

(* A Listen or Connect, an AddTimer, a StopTimer made on another thread.    *)
Task == [op : {"call"}, id : {0}] \cup [op : {"add", "stop"}, id : TimerIds]

Init == /\ at = [t \in Threads |-> "idle"]
        /\ tid = [t \in Threads |-> 0]
        /\ task_list = <<>> /\ func_vec = <<>>
        /\ posted = <<>> /\ ran = <<>>
        /\ pipe = 0 /\ stop = FALSE
        /\ pc = "head"
        /\ timer_id = 0 /\ wheel = {} /\ timer_map = {}
        /\ known = {} /\ removed = {}

-----------------------------------------------------------------------------
(* The calls of the other threads.                                          *)

(* The first half of PostTask: the task enters the list under the mutex.    *)
PushSilently(t, task) ==
    /\ Len(posted) < MaxPosts
    /\ task_list' = Append(task_list, task)
    /\ posted' = Append(posted, task)
    /\ at' = [at EXCEPT ![t] = "idle"]
    /\ UNCHANGED <<func_vec, ran, pipe, stop, pc>>

Push(t, task) ==
    /\ Len(posted) < MaxPosts
    /\ task_list' = Append(task_list, task)
    /\ posted' = Append(posted, task)
    /\ at' = [at EXCEPT ![t] = "wakeup"]
    /\ UNCHANGED <<func_vec, ran, pipe, stop, pc>>

(* Listen, Connect                                                          *)
PostCall(t) ==
    /\ at[t] = "idle"
    /\ Push(t, [op |-> "call", id |-> 0])
    /\ UNCHANGED <<tid, timers>>

(* AddTimer, MakeTimerID                                                    *)
ReturnIDAtOnce(t) ==
    /\ at[t] = "idle"
    /\ timer_id < MaxTimers
    /\ timer_id' = timer_id + 1
    /\ tid' = [tid EXCEPT ![t] = timer_id + 1]
    /\ at' = [at EXCEPT ![t] = "push"]
    /\ known' = known \cup {timer_id + 1}
    /\ UNCHANGED <<queues, pipe, stop, pc, wheel, timer_map, removed>>

MakeTimerID(t) ==
    /\ at[t] = "idle"
    /\ timer_id < MaxTimers
    /\ timer_id' = timer_id + 1
    /\ tid' = [tid EXCEPT ![t] = timer_id + 1]
    /\ at' = [at EXCEPT ![t] = "push"]
    /\ UNCHANGED <<queues, pipe, stop, pc, wheel, timer_map, known, removed>>

PostAddTimer(t) ==
    /\ at[t] = "push"
    /\ Push(t, [op |-> "add", id |-> tid[t]])
    /\ UNCHANGED <<tid, timers>>

(* StopTimer: the id is one that AddTimer has returned to the program.      *)
PostStopTimer(t, id) ==
    /\ at[t] = "idle"
    /\ id \in known
    /\ Push(t, [op |-> "stop", id |-> id])
    /\ UNCHANGED <<tid, timers>>

(* Stop: the flag first, the wakeup after it.                               *)
SetStopOnly(t) ==
    /\ at[t] = "idle"
    /\ stop' = TRUE
    /\ UNCHANGED <<callers, queues, timers, pipe, pc>>

SetStop(t) ==
    /\ at[t] = "idle"
    /\ stop' = TRUE
    /\ at' = [at EXCEPT ![t] = "wakeup"]
    /\ UNCHANGED <<tid, queues, timers, pipe, pc>>

(* The pipe is non-blocking: a write to a full one fails and is not         *)
(* repeated.                                                                *)
PipeAfterWakeup == IF pipe < PipeCap THEN pipe + 1 ELSE pipe

(* The last step of PostTask and of Stop; then the call returns.            *)
Wakeup(t) ==
    /\ at[t] = "wakeup"
    /\ pipe' = PipeAfterWakeup
    /\ at' = [at EXCEPT ![t] = "idle"]
    /\ tid' = [tid EXCEPT ![t] = 0]
    /\ known' = known \cup ({tid[t]} \ {0})
    /\ UNCHANGED <<queues, stop, pc, timer_id, wheel, timer_map, removed>>

-----------------------------------------------------------------------------
(* Run, the loop of the I/O thread.                                         *)

LoopHead ==
    /\ pc = "head"
    /\ pc' = IF stop THEN "done" ELSE "timer"
    /\ UNCHANGED <<callers, queues, timers, pipe, stop>>

(* TimerRun calls back a due timer; a periodic one goes back to the wheel.  *)
(* Its entry in __all_timer_event_map stays in either case.  The callback   *)
(* itself is OwnAddTimer and OwnStopTimer: a timer it stops is re-inserted   *)
(* by DoTimer as an expired weak_ptr, which is as good as absent.           *)
Fire(id) ==
    /\ pc = "timer"
    /\ id \in wheel
    /\ wheel' \in {wheel, wheel \ {id}}
    /\ UNCHANGED <<callers, queues, pipe, stop, pc,
                   timer_id, timer_map, known, removed>>

EndTimerRun ==
    /\ pc = "timer"
    /\ pc' = "check"
    /\ UNCHANGED <<callers, queues, timers, pipe, stop>>

(* The second test of _stop, then MinTime, whose result only bounds how     *)
(* long WaitOther can be away.                                              *)
CheckStop ==
    /\ pc = "check"
    /\ pc' = IF stop THEN "done" ELSE "wait"
    /\ UNCHANGED <<callers, queues, timers, pipe, stop>>

(* ProcessEvent: epoll_wait reports the pipe, level-triggered, and OnEvent  *)
(* reads one byte of it.                                                    *)
WaitPipe ==
    /\ pc = "wait"
    /\ pipe > 0
    /\ pipe' = pipe - 1
    /\ pc' = "events"
    /\ UNCHANGED <<callers, queues, timers, stop>>

(* ProcessEvent: epoll_wait ends for another reason, which is an event of a *)
(* socket, a signal, or the time limit; at a full event list it may leave   *)
(* the pipe for the next round.                                             *)
WaitOther ==
    /\ pc = "wait"
    /\ pc' = "events"
    /\ UNCHANGED <<callers, queues, timers, pipe, stop>>

EndEvents ==
    /\ pc = "events"
    /\ pc' = "task"
    /\ UNCHANGED <<callers, queues, timers, pipe, stop>>

(* DoTask: the list is taken as a whole under the mutex, ...                *)
CopyTasks ==
    /\ pc = "task"
    /\ func_vec' = task_list
    /\ pc' = "run"
    /\ UNCHANGED <<callers, timers, task_list, posted, ran, pipe, stop>>

DoTask ==
    /\ pc = "task"
    /\ func_vec' = task_list
    /\ task_list' = <<>>
    /\ pc' = "run"
    /\ UNCHANGED <<callers, timers, posted, ran, pipe, stop>>

(* StopTimer on the I/O thread: an id that is not in the map is ignored.    *)
StopTimer(id) ==
    /\ wheel' = wheel \ {id}
    /\ timer_map' = timer_map \ {id}
    /\ removed' = removed \cup {id}
    /\ UNCHANGED <<timer_id, known>>

AddTimerUnowned(id) ==
    /\ wheel' = wheel \cup {id}
    /\ UNCHANGED <<timer_map, removed>>

AddTimer(id) ==
    /\ wheel' = wheel \cup {id}
    /\ timer_map' = timer_map \cup {id}
    /\ UNCHANGED removed

(* ... and its tasks are run in order without the mutex.                    *)
RunTask ==
    /\ pc = "run"
    /\ func_vec # <<>>
    /\ func_vec' = Tail(func_vec)
    /\ ran' = Append(ran, Head(func_vec))
    /\ pc' = IF Head(func_vec).op = "call" THEN "call" ELSE "run"
    /\ \/ Head(func_vec).op = "call" /\ UNCHANGED timers
       \/ /\ Head(func_vec).op = "add"
          /\ AddTimer(Head(func_vec).id)
          /\ UNCHANGED <<timer_id, known>>
       \/ Head(func_vec).op = "stop" /\ StopTimer(Head(func_vec).id)
    /\ UNCHANGED <<callers, task_list, posted, pipe, stop>>

(* A Connect may call back at once; the callback ends.                      *)
EndCall ==
    /\ pc = "call"
    /\ pc' = "run"
    /\ UNCHANGED <<callers, queues, timers, pipe, stop>>

EndTasks ==
    /\ pc = "run"
    /\ func_vec = <<>>
    /\ pc' = "head"
    /\ UNCHANGED <<callers, queues, timers, pipe, stop>>

(* User code on the I/O thread, in a timer's callback, a socket's callback   *)
(* or a task, calls AddTimer or StopTimer: no task is posted.               *)
InCallback == pc \in {"timer", "events", "call"}

OwnAddTimer ==
    /\ InCallback
    /\ timer_id < MaxTimers
    /\ timer_id' = timer_id + 1
    /\ known' = known \cup {timer_id + 1}
    /\ AddTimer(timer_id + 1)
    /\ pipe' = PipeAfterWakeup
    /\ UNCHANGED <<callers, queues, stop, pc>>

OwnStopTimer(id) ==
    /\ InCallback
    /\ id \in known
    /\ StopTimer(id)
    /\ UNCHANGED <<callers, queues, pipe, stop, pc>>

-----------------------------------------------------------------------------
IOThread == \/ LoopHead \/ EndTimerRun \/ CheckStop \/ WaitPipe
            \/ EndEvents \/ DoTask \/ RunTask \/ EndCall \/ EndTasks

Next == \/ \E t \in Threads :
              \/ PostCall(t) \/ MakeTimerID(t) \/ PostAddTimer(t)
              \/ \E id \in known : PostStopTimer(t, id)
              \/ SetStop(t) \/ Wakeup(t)
        \/ IOThread \/ WaitOther
        \/ \E id \in wheel : Fire(id)
        \/ OwnAddTimer
        \/ \E id \in known : OwnStopTimer(id)

(* Threads are scheduled, callbacks and tasks end, and epoll_wait returns   *)
(* while the pipe is readable.  No other reason to wake is assumed.         *)
Fairness == /\ WF_vars(IOThread)
            /\ \A t \in Threads : WF_vars(Wakeup(t))

Spec == Init /\ [][Next]_vars /\ Fairness

-----------------------------------------------------------------------------
(* Type correctness: the pipe never holds more than it can, and an id is      *)
(* drawn before its task is pushed.                                         *)
TypeOK ==
    /\ at \in [Threads -> {"idle", "push", "wakeup"}]
    /\ tid \in [Threads -> 0 .. MaxTimers]
    /\ \A t \in Threads : at[t] = "push" => tid[t] # 0
    /\ task_list \in Seq(Task) /\ func_vec \in Seq(Task)
    /\ posted \in Seq(Task) /\ ran \in Seq(Task)
    /\ pipe \in 0 .. PipeCap
    /\ stop \in BOOLEAN
    /\ pc \in {"head", "timer", "check", "wait", "events", "task", "run",
              "call", "done"}
    /\ timer_id \in 0 .. MaxTimers
    /\ wheel \subseteq TimerIds /\ timer_map \subseteq TimerIds
    /\ known \subseteq TimerIds /\ removed \subseteq TimerIds

(* The I/O thread never sleeps on work: while it is in epoll_wait with a     *)
(* task in the list or with _stop set, a byte is in the pipe or a caller has *)
(* its Wakeup still to make.  This holds although the pipe may refuse a byte *)
(* and OnEvent reads a single byte for any number of tasks.                 *)
NoLostWakeup ==
    pc = "wait" /\ (task_list # <<>> \/ stop) =>
        pipe > 0 \/ \E t \in Threads : at[t] = "wakeup"

(* Every task is run at most once, in the order of posting, whatever the     *)
(* interleaving of PostTask with the swap in DoTask; none is lost or copied. *)
TaskOrder == posted = ran \o func_vec \o task_list

(* Once the task of a StopTimer made on another thread has run, the timer is *)
(* out of the wheel for good: the task of its AddTimer cannot come later.    *)
StopWins ==
    \A i \in DOMAIN ran : ran[i].op = "stop" => ran[i].id \notin wheel

(* A timer in the wheel can be stopped: its event is in the map, which also  *)
(* holds the only strong reference to it.                                   *)
WheelInMap == wheel \subseteq timer_map

(* A posted task is run, unless the dispatcher is stopped.                  *)
PostedRuns ==
    \A n \in 1 .. MaxPosts : Len(posted) >= n ~> (Len(ran) >= n \/ stop)

(* Stop ends the I/O thread, wherever it is when the flag is set.           *)
StopEnds == stop ~> pc = "done"

(* A timer whose id AddTimer returned can be removed with it (api.md): after *)
(* StopTimer has been carried out the timer is never in the wheel.          *)
RemovedStaysRemoved == removed \cap wheel = {}

=============================================================================
