--------------------------- MODULE DispatcherProofs ---------------------------
(***************************************************************************)
(* Proofs about Dispatcher, for any set of threads, any size of the pipe and *)
(* any bounds on timers and posts.                                          *)
(***************************************************************************)
EXTENDS Dispatcher, SequenceTheorems, TLAPS

(* What the steps below split on: one name for each action.                 *)
LEMMA NextSplit ==
    ASSUME Next
    PROVE  \/ \E t \in Threads : PostCall(t)
           \/ \E t \in Threads : MakeTimerID(t)
           \/ \E t \in Threads : PostAddTimer(t)
           \/ \E t \in Threads : \E id \in known : PostStopTimer(t, id)
           \/ \E t \in Threads : SetStop(t)
           \/ \E t \in Threads : Wakeup(t)
           \/ LoopHead \/ EndTimerRun \/ CheckStop \/ WaitPipe \/ WaitOther
           \/ EndEvents \/ DoTask \/ RunTask \/ EndCall \/ EndTasks
           \/ \E id \in wheel : Fire(id)
           \/ OwnAddTimer
           \/ \E id \in known : OwnStopTimer(id)
  BY DEF Next, IOThread

-----------------------------------------------------------------------------
(* Type correctness.                                                        *)

(* A task is a record whose id is a timer's exactly when its op needs one.  *)
LEMMA TaskFields ==
    ASSUME NEW task \in Task
    PROVE  /\ task.op \in {"call", "add", "stop"}
           /\ task.op # "call" => task.id \in TimerIds
  BY DEF Task

(* A push of a task keeps the types.                                        *)
LEMMA PushType ==
    ASSUME TypeOK, NEW t \in Threads, NEW task \in Task,
           Push(t, task), UNCHANGED <<tid, timers>>
    PROVE  TypeOK'
  <1>1. task_list' \in Seq(Task) /\ posted' \in Seq(Task)
    BY AppendProperties DEF TypeOK, Push
  <1>2. /\ at' \in [Threads -> {"idle", "push", "wakeup"}]
        /\ \A u \in Threads : at'[u] = "push" => tid[u] # 0
    BY DEF TypeOK, Push
  <1> QED BY <1>1, <1>2 DEF TypeOK, Push, timers

(* Every step keeps the types.                                              *)
LEMMA TypeStep ==
    ASSUME TypeOK, [Next]_vars
    PROVE  TypeOK'
  <1> USE MaxTimersAssumption, PipeCapAssumption DEF TimerIds
  <1>1. CASE UNCHANGED vars
    BY <1>1 DEF TypeOK, vars, callers, queues, timers
  <1>2. ASSUME NEW t \in Threads, PostCall(t)
        PROVE  TypeOK'
    BY <1>2, PushType DEF PostCall, Task
  <1>3. ASSUME NEW t \in Threads, MakeTimerID(t)
        PROVE  TypeOK'
    BY <1>3 DEF TypeOK, MakeTimerID, queues
  <1>4. ASSUME NEW t \in Threads, PostAddTimer(t)
        PROVE  TypeOK'
    <2>1. [op |-> "add", id |-> tid[t]] \in Task
      BY <1>4 DEF PostAddTimer, Task, TypeOK
    <2> QED BY <1>4, <2>1, PushType DEF PostAddTimer
  <1>5. ASSUME NEW t \in Threads, NEW id \in known, PostStopTimer(t, id)
        PROVE  TypeOK'
    <2>1. [op |-> "stop", id |-> id] \in Task
      BY DEF Task, TypeOK
    <2> QED BY <1>5, <2>1, PushType DEF PostStopTimer
  <1>6. ASSUME NEW t \in Threads, SetStop(t)
        PROVE  TypeOK'
    BY <1>6 DEF TypeOK, SetStop, queues, timers
  <1>7. ASSUME NEW t \in Threads, Wakeup(t)
        PROVE  TypeOK'
    <2>1. /\ at' \in [Threads -> {"idle", "push", "wakeup"}]
          /\ tid' \in [Threads -> 0 .. MaxTimers]
          /\ \A u \in Threads : at'[u] = "push" => tid'[u] # 0
      BY <1>7 DEF TypeOK, Wakeup
    <2>2. pipe' \in 0 .. PipeCap
      BY <1>7 DEF TypeOK, Wakeup, PipeAfterWakeup
    <2>3. tid[t] \in 0 .. MaxTimers
      BY DEF TypeOK
    <2>4. known' \subseteq TimerIds
      <3>1. known' = known \cup ({tid[t]} \ {0}) /\ known \subseteq TimerIds
        BY <1>7 DEF TypeOK, Wakeup
      <3>2. ASSUME NEW id \in known' PROVE id \in TimerIds
        BY <2>3, <3>1, <3>2
      <3> QED BY <3>2
    <2> QED BY <1>7, <2>1, <2>2, <2>4 DEF TypeOK, Wakeup, queues
  <1>8. CASE LoopHead \/ EndTimerRun \/ CheckStop \/ WaitOther \/ EndEvents
             \/ EndCall \/ EndTasks
    BY <1>8 DEF TypeOK, LoopHead, EndTimerRun, CheckStop, WaitOther, EndEvents,
                EndCall, EndTasks, callers, queues, timers
  <1>9. CASE WaitPipe
    BY <1>9 DEF TypeOK, WaitPipe, callers, queues, timers
  <1>10. CASE DoTask
    BY <1>10, EmptySeq DEF TypeOK, DoTask, callers, timers
  <1>11. CASE RunTask
    <2>1. /\ Head(func_vec) \in Task
          /\ func_vec' \in Seq(Task) /\ ran' \in Seq(Task)
      BY <1>11, HeadTailProperties, AppendProperties DEF RunTask, TypeOK
    <2>2. Head(func_vec).op # "call" => Head(func_vec).id \in TimerIds
      BY <2>1, TaskFields
    <2> QED BY <1>11, <2>1, <2>2
            DEF RunTask, TypeOK, AddTimer, StopTimer, callers, timers
  <1>12. ASSUME NEW id \in wheel, Fire(id)
         PROVE  TypeOK'
    BY <1>12 DEF TypeOK, Fire, callers, queues
  <1>13. CASE OwnAddTimer
    BY <1>13 DEF TypeOK, OwnAddTimer, AddTimer, PipeAfterWakeup, callers, queues
  <1>14. ASSUME NEW id \in known, OwnStopTimer(id)
         PROVE  TypeOK'
    BY <1>14 DEF TypeOK, OwnStopTimer, StopTimer, callers, queues
  <1> QED
    BY NextSplit, <1>1, <1>2, <1>3, <1>4, <1>5, <1>6, <1>7, <1>8, <1>9, <1>10,
       <1>11, <1>12, <1>13, <1>14

(* The types at first.                                                      *)
LEMMA TypeInit == Init => TypeOK
  <1> SUFFICES ASSUME Init PROVE TypeOK
    OBVIOUS
  <1>1. /\ task_list \in Seq(Task) /\ func_vec \in Seq(Task)
        /\ posted \in Seq(Task) /\ ran \in Seq(Task)
    BY EmptySeq DEF Init
  <1>2. pipe \in 0 .. PipeCap /\ timer_id \in 0 .. MaxTimers
    BY MaxTimersAssumption, PipeCapAssumption DEF Init
  <1>3. /\ at \in [Threads -> {"idle", "push", "wakeup"}]
        /\ tid \in [Threads -> 0 .. MaxTimers]
        /\ \A t \in Threads : at[t] = "push" => tid[t] # 0
    BY MaxTimersAssumption DEF Init
  <1> QED BY <1>1, <1>2, <1>3 DEF Init, TypeOK

(* The pipe, the ids and the program counters of dispatcher.cpp stay in       *)
(* their ranges: the pipe never holds more than it can, and no AddTimer or    *)
(* StopTimer task carries the id 0.                                          *)
THEOREM TypeCorrect == Spec => []TypeOK
  BY TypeInit, TypeStep, PTL DEF Spec

-----------------------------------------------------------------------------
(* No lost wakeup.                                                          *)

(* A byte is in the pipe, or will be before the call of some thread ends.   *)
Awake == pipe > 0 \/ \E t \in Threads : at[t] = "wakeup"

(* NoLostWakeup speaks of the wait alone.  What makes it inductive is that    *)
(* a task in the list is announced from the moment DoTask has emptied the     *)
(* list: only between the read of the byte in OnEvent and the swap in DoTask  *)
(* may a task be there unannounced, and there the loop does not wait.        *)
Announced ==
    /\ pc \in {"head", "timer", "check", "wait", "run", "call"} /\ task_list # <<>>
         => Awake
    /\ pc = "wait" /\ stop => Awake

(* At first no task waits.                                                  *)
LEMMA AnnouncedInit == Init => Announced
  BY DEF Init, Announced

(* Every step keeps tasks announced.                                        *)
LEMMA AnnouncedStep ==
    ASSUME TypeOK, Announced, [Next]_vars
    PROVE  Announced'
  <1> USE PipeCapAssumption
  <1>1. CASE UNCHANGED vars
    BY <1>1 DEF Announced, Awake, vars, callers, queues
  <1>2. ASSUME NEW t \in Threads, NEW task, Push(t, task)
        PROVE  Announced'
    <2>1. at'[t] = "wakeup"
      BY <1>2 DEF Push, TypeOK
    <2> QED BY <2>1 DEF Announced, Awake
  <1>3. ASSUME NEW t \in Threads, MakeTimerID(t)
        PROVE  Announced'
    <2>1. \A u \in Threads : at[u] = "wakeup" => at'[u] = "wakeup"
      BY <1>3 DEF MakeTimerID, TypeOK
    <2>2. Awake => Awake'
      BY <1>3, <2>1 DEF Awake, MakeTimerID
    <2> QED BY <1>3, <2>2 DEF Announced, MakeTimerID, queues
  <1>4. ASSUME NEW t \in Threads, SetStop(t)
        PROVE  Announced'
    <2>1. at'[t] = "wakeup"
      BY <1>4 DEF SetStop, TypeOK
    <2> QED BY <2>1 DEF Announced, Awake
  <1>5. ASSUME NEW t \in Threads, Wakeup(t)
        PROVE  Announced'
    <2>1. pipe' > 0
      BY <1>5 DEF Wakeup, PipeAfterWakeup, TypeOK
    <2> QED BY <2>1 DEF Announced, Awake
  <1>6. CASE LoopHead \/ EndTimerRun \/ WaitOther \/ EndEvents \/ EndCall \/ EndTasks
    BY <1>6 DEF Announced, Awake, LoopHead, EndTimerRun, WaitOther, EndEvents,
                EndCall, EndTasks, callers, queues
  <1>7. CASE CheckStop
    BY <1>7 DEF Announced, Awake, CheckStop, callers, queues
  <1>8. CASE WaitPipe
    BY <1>8 DEF Announced, WaitPipe
  <1>9. CASE DoTask
    BY <1>9 DEF Announced, DoTask
  <1>10. CASE RunTask
    BY <1>10 DEF Announced, Awake, RunTask, callers
  <1>11. ASSUME NEW id \in wheel, Fire(id)
         PROVE  Announced'
    BY <1>11 DEF Announced, Awake, Fire, callers, queues
  <1>12. CASE OwnAddTimer
    <2>1. pipe' > 0
      BY <1>12 DEF OwnAddTimer, PipeAfterWakeup, TypeOK
    <2> QED BY <2>1 DEF Announced, Awake
  <1>13. ASSUME NEW id \in known, OwnStopTimer(id)
         PROVE  Announced'
    BY <1>13 DEF Announced, Awake, OwnStopTimer, callers, queues
  <1> QED
    BY NextSplit, <1>1, <1>2, <1>3, <1>4, <1>5, <1>6, <1>7, <1>8, <1>9, <1>10,
       <1>11, <1>12, <1>13 DEF PostCall, PostAddTimer, PostStopTimer

(* However many threads post and stop, and however small the pipe is, the     *)
(* I/O thread is never in epoll_wait with a task or with _stop unseen and     *)
(* nothing on its way to wake it.                                           *)
THEOREM WakeupsAreKept == Spec => []NoLostWakeup
  <1>1. TypeOK /\ Announced => NoLostWakeup
    BY DEF Announced, Awake, NoLostWakeup
  <1> QED BY <1>1, TypeInit, TypeStep, AnnouncedInit, AnnouncedStep, PTL DEF Spec

-----------------------------------------------------------------------------
(* Tasks run once and in order.                                             *)

(* Moving an element from the head of one sequence to the end of another    *)
(* keeps the two in a row as they are.                                      *)
LEMMA HeadToFirst ==
    ASSUME NEW S, NEW s \in Seq(S), NEW u \in Seq(S), u # <<>>
    PROVE  Append(s, Head(u)) \o Tail(u) = s \o u
  <1> DEFINE l == Append(s, Head(u)) \o Tail(u)
             r == s \o u
  <1>1. /\ Head(u) \in S /\ Tail(u) \in Seq(S)
        /\ Len(u) \in Nat \ {0} /\ Len(s) \in Nat
        /\ Len(Tail(u)) = Len(u) - 1
        /\ \A i \in 1 .. Len(u) - 1 : Tail(u)[i] = u[i + 1]
        /\ Head(u) = u[1]
    BY HeadTailProperties, EmptySeq, LenProperties
  <1>2. /\ Append(s, Head(u)) \in Seq(S)
        /\ Len(Append(s, Head(u))) = Len(s) + 1
        /\ \A i \in 1 .. Len(s) : Append(s, Head(u))[i] = s[i]
        /\ Append(s, Head(u))[Len(s) + 1] = u[1]
    BY <1>1, AppendProperties
  <1>3. /\ r \in Seq(S) /\ Len(r) = Len(s) + Len(u)
        /\ \A i \in 1 .. Len(s) + Len(u) :
              r[i] = IF i <= Len(s) THEN s[i] ELSE u[i - Len(s)]
    BY ConcatProperties
  <1>4. /\ l \in Seq(S) /\ Len(l) = Len(s) + Len(u)
        /\ \A i \in 1 .. Len(s) + Len(u) :
              l[i] = IF i <= Len(s) + 1 THEN Append(s, Head(u))[i]
                     ELSE Tail(u)[i - (Len(s) + 1)]
    <2>1. /\ l \in Seq(S)
          /\ Len(l) = Len(Append(s, Head(u))) + Len(Tail(u))
          /\ \A i \in 1 .. Len(Append(s, Head(u))) + Len(Tail(u)) :
                l[i] = IF i <= Len(Append(s, Head(u))) THEN Append(s, Head(u))[i]
                       ELSE Tail(u)[i - Len(Append(s, Head(u)))]
      BY <1>1, <1>2, ConcatProperties
    <2> HIDE DEF l
    <2>2. Len(Append(s, Head(u))) + Len(Tail(u)) = Len(s) + Len(u)
      BY <1>1, <1>2
    <2> QED BY <1>2, <2>1, <2>2
  <1> HIDE DEF l, r
  <1>5. ASSUME NEW i \in 1 .. Len(s) + Len(u)
        PROVE  l[i] = r[i]
    <2>1. CASE i <= Len(s)
      <3>1. i \in 1 .. Len(s) /\ i <= Len(s) + 1
        BY <1>1, <2>1
      <3>2. l[i] = Append(s, Head(u))[i] /\ r[i] = s[i]
        BY <1>3, <1>4, <2>1, <3>1
      <3> QED BY <1>2, <3>1, <3>2
    <2>2. CASE i = Len(s) + 1
      <3>1. r[i] = u[1]
        <4>1. ~(i <= Len(s)) /\ i - Len(s) = 1
          BY <1>1, <2>2
        <4> QED BY <1>3, <4>1
      <3>2. l[i] = Append(s, Head(u))[Len(s) + 1]
        <4>1. i <= Len(s) + 1
          BY <1>1, <2>2
        <4> QED BY <1>4, <2>2, <4>1
      <3> QED BY <1>2, <3>1, <3>2
    <2>3. CASE i > Len(s) + 1
      <3>1. /\ i - (Len(s) + 1) \in 1 .. Len(u) - 1
            /\ (i - (Len(s) + 1)) + 1 = i - Len(s)
        BY <1>1, <2>3
      <3> QED BY <1>1, <1>3, <1>4, <2>3, <3>1
    <2> QED BY <1>1, <2>1, <2>2, <2>3
  <1>6. l = r
    BY <1>3, <1>4, <1>5, SeqEqual
  <1> QED BY <1>6 DEF l, r

(* DoTask swaps the list for an empty vector: what it took the round before   *)
(* has been run.                                                            *)
InOrder == TaskOrder /\ (pc \notin {"run", "call"} => func_vec = <<>>)

(* At first nothing is posted.                                              *)
LEMMA InOrderInit == Init => InOrder
  BY ConcatEmptySeq, EmptySeq DEF Init, InOrder, TaskOrder

(* Every step keeps the order of the tasks.                                 *)
LEMMA InOrderStep ==
    ASSUME TypeOK, InOrder, [Next]_vars
    PROVE  InOrder'
  <1>1. CASE UNCHANGED vars
    BY <1>1 DEF InOrder, TaskOrder, vars, queues
  <1>2. ASSUME NEW t \in Threads, NEW task \in Task, Push(t, task)
        PROVE  InOrder'
    <2> DEFINE taken == ran \o func_vec
               one   == <<task>>
    <2>1. taken \in Seq(Task) /\ task_list \in Seq(Task) /\ one \in Seq(Task)
      BY <1>2, ConcatProperties DEF TypeOK
    <2>2. posted = taken \o task_list /\ posted \in Seq(Task)
      BY <1>2 DEF InOrder, TaskOrder, TypeOK
    <2>3. posted' = posted \o one /\ task_list' = task_list \o one
      BY <1>2, <2>1, <2>2, AppendIsConcat DEF Push
    <2>4. TaskOrder' <=> posted' = taken \o task_list'
      BY <1>2 DEF Push, TaskOrder
    <2> HIDE DEF taken, one
    <2>5. (taken \o task_list) \o one = taken \o (task_list \o one)
      BY <2>1, ConcatAssociative
    <2> QED BY <1>2, <2>2, <2>3, <2>4, <2>5 DEF Push, InOrder
  <1>3. ASSUME NEW t \in Threads, PostCall(t) PROVE InOrder'
    BY <1>2, <1>3 DEF PostCall, Task
  <1>4. ASSUME NEW t \in Threads, PostAddTimer(t) PROVE InOrder'
    <2>1. [op |-> "add", id |-> tid[t]] \in Task
      BY <1>4, MaxTimersAssumption DEF PostAddTimer, Task, TypeOK, TimerIds
    <2> QED BY <1>2, <1>4, <2>1 DEF PostAddTimer
  <1>5. ASSUME NEW t \in Threads, NEW id \in known, PostStopTimer(t, id)
        PROVE  InOrder'
    <2>1. [op |-> "stop", id |-> id] \in Task
      BY DEF Task, TypeOK
    <2> QED BY <1>2, <1>5, <2>1 DEF PostStopTimer
  <1>6. ASSUME NEW t \in Threads, MakeTimerID(t) \/ SetStop(t) \/ Wakeup(t)
        PROVE  InOrder'
    BY <1>6 DEF InOrder, TaskOrder, MakeTimerID, SetStop, Wakeup, queues
  <1>7. CASE LoopHead \/ EndTimerRun \/ CheckStop \/ WaitPipe \/ WaitOther
             \/ EndEvents \/ EndCall \/ EndTasks
    BY <1>7 DEF InOrder, TaskOrder, LoopHead, EndTimerRun, CheckStop, WaitPipe,
                WaitOther, EndEvents, EndCall, EndTasks, queues
  <1>8. CASE DoTask
    <2>1. ran \o <<>> = ran
      BY ConcatEmptySeq DEF TypeOK
    <2>2. (ran \o task_list) \o <<>> = ran \o task_list
      BY ConcatProperties, ConcatEmptySeq DEF TypeOK
    <2> QED BY <1>8, <2>1, <2>2 DEF InOrder, TaskOrder, DoTask
  <1>9. CASE RunTask
    <2>1. Append(ran, Head(func_vec)) \o Tail(func_vec) = ran \o func_vec
      BY <1>9, HeadToFirst DEF RunTask, TypeOK
    <2> QED BY <1>9, <2>1 DEF InOrder, TaskOrder, RunTask
  <1>10. ASSUME NEW id \in wheel, Fire(id) PROVE InOrder'
    BY <1>10 DEF InOrder, TaskOrder, Fire, queues
  <1>11. CASE OwnAddTimer
    BY <1>11 DEF InOrder, TaskOrder, OwnAddTimer, queues
  <1>12. ASSUME NEW id \in known, OwnStopTimer(id) PROVE InOrder'
    BY <1>12 DEF InOrder, TaskOrder, OwnStopTimer, queues
  <1> QED
    BY NextSplit, <1>1, <1>3, <1>4, <1>5, <1>6, <1>7, <1>8, <1>9, <1>10, <1>11,
       <1>12

(* Whatever the interleaving of PostTask with the loop, the tasks run are a   *)
(* prefix of the tasks posted, and the rest is in DoTask's vector and then    *)
(* in the list: none is lost, copied or overtaken.                          *)
THEOREM TasksInOrder == Spec => []TaskOrder
  <1>1. InOrder => TaskOrder
    BY DEF InOrder
  <1> QED BY <1>1, TypeInit, TypeStep, InOrderInit, InOrderStep, PTL DEF Spec

-----------------------------------------------------------------------------
(* A stopped timer stays stopped when StopTimer was posted.                 *)

(* Ids are handed out once, and one that is still to be posted by its         *)
(* AddTimer is not known to the program.                                    *)
IdsFresh ==
    /\ \A id \in known : id <= timer_id
    /\ \A t \in Threads : tid[t] <= timer_id
    /\ \A t, u \in Threads : tid[t] = tid[u] /\ tid[t] # 0 => t = u
    /\ \A t \in Threads : at[t] = "push" => tid[t] \notin known

(* At first no id is given out.                                             *)
LEMMA IdsFreshInit == Init => IdsFresh
  BY DEF Init, IdsFresh

(* Every step keeps the ids fresh.                                          *)
LEMMA IdsFreshStep ==
    ASSUME TypeOK, IdsFresh, [Next]_vars
    PROVE  IdsFresh'
  <1> USE MaxTimersAssumption
  <1>1. CASE UNCHANGED <<callers, timer_id, known>>
    BY <1>1 DEF IdsFresh, callers
  <1>2. ASSUME NEW t \in Threads, NEW task, Push(t, task) \/ SetStop(t),
               UNCHANGED <<tid, timers>>
        PROVE  IdsFresh'
    <2>1. \A u \in Threads : at'[u] = "push" => at[u] = "push"
      BY <1>2 DEF Push, SetStop, TypeOK
    <2> QED BY <1>2, <2>1 DEF IdsFresh, timers
  <1>3. ASSUME NEW t \in Threads, MakeTimerID(t)
        PROVE  IdsFresh'
    <2>1. /\ timer_id' = timer_id + 1 /\ timer_id \in Nat
          /\ known' = known /\ known \subseteq Nat
          /\ tid'[t] = timer_id + 1
          /\ \A u \in Threads \ {t} : tid'[u] = tid[u] /\ at'[u] = at[u]
          /\ \A u \in Threads : tid[u] \in Nat
      BY <1>3 DEF MakeTimerID, TypeOK, TimerIds
    <2>2. (\A id \in known : id <= timer_id)'
      BY <2>1 DEF IdsFresh
    <2>3. (\A u \in Threads : tid[u] <= timer_id)'
      BY <2>1 DEF IdsFresh
    <2>4. (\A v, u \in Threads : tid[v] = tid[u] /\ tid[v] # 0 => v = u)'
      BY <2>1 DEF IdsFresh
    <2>5. (\A u \in Threads : at[u] = "push" => tid[u] \notin known)'
      BY <2>1 DEF IdsFresh
    <2> QED BY <2>2, <2>3, <2>4, <2>5 DEF IdsFresh
  <1>4. ASSUME NEW t \in Threads, Wakeup(t)
        PROVE  IdsFresh'
    <2>1. /\ timer_id' = timer_id /\ timer_id \in Nat
          /\ known' = known \cup ({tid[t]} \ {0})
          /\ tid'[t] = 0 /\ at'[t] = "idle"
          /\ \A u \in Threads \ {t} : tid'[u] = tid[u] /\ at'[u] = at[u]
          /\ \A u \in Threads : at[u] = "push" => tid[u] # 0
      BY <1>4 DEF Wakeup, TypeOK
    <2> QED BY <2>1 DEF IdsFresh
  <1>5. CASE OwnAddTimer
    <2>1. /\ timer_id' = timer_id + 1 /\ timer_id \in Nat
          /\ known' = known \cup {timer_id + 1} /\ known \subseteq Nat
          /\ tid' = tid /\ at' = at
          /\ \A u \in Threads : tid[u] \in Nat
      BY <1>5 DEF OwnAddTimer, TypeOK, TimerIds, callers
    <2> QED BY <2>1 DEF IdsFresh
  <1>6. CASE UNCHANGED vars \/ LoopHead \/ EndTimerRun \/ CheckStop \/ WaitPipe
             \/ WaitOther \/ EndEvents \/ DoTask \/ EndCall \/ EndTasks
    BY <1>1, <1>6 DEF vars, LoopHead, EndTimerRun, CheckStop, WaitPipe, WaitOther,
       EndEvents, DoTask, EndCall, EndTasks, timers
  <1>7. CASE RunTask
    BY <1>1, <1>7 DEF RunTask, StopTimer, timers
  <1>8. ASSUME NEW id, Fire(id) \/ OwnStopTimer(id) PROVE IdsFresh'
    BY <1>1, <1>8 DEF Fire, OwnStopTimer, StopTimer
  <1> QED
    BY NextSplit, <1>2, <1>3, <1>4, <1>5, <1>6, <1>7, <1>8
       DEF PostCall, PostAddTimer, PostStopTimer, SetStop

(* The task of a StopTimer comes after the task of the AddTimer that made     *)
(* its timer: the id becomes known only when AddTimer returns.              *)
AddBeforeStop ==
    /\ \A i \in 1 .. Len(posted) : posted[i].op = "stop" => posted[i].id \in known
    /\ \A i, j \in 1 .. Len(posted) :
          /\ posted[i].op = "stop" /\ posted[j].op = "add"
          /\ posted[i].id = posted[j].id
          => j < i

(* A task that is pushed stands behind all the others.                      *)
LEMMA AddBeforeStopPush ==
    ASSUME TypeOK, AddBeforeStop, NEW t \in Threads, NEW task \in Task,
           Push(t, task), known' = known,
           task.op = "stop" => task.id \in known,
           task.op = "add" => task.id \notin known
    PROVE  AddBeforeStop'
  <1> DEFINE n == Len(posted)
  <1>1. /\ n \in Nat /\ Len(posted') = n + 1
        /\ \A i \in 1 .. n : posted'[i] = posted[i]
        /\ posted'[n + 1] = task
    BY AppendProperties, LenProperties DEF TypeOK, Push
  <1> HIDE DEF n
  <1>2. /\ \A i \in 1 .. n : posted[i].op = "stop" => posted[i].id \in known
        /\ \A i, j \in 1 .. n :
              /\ posted[i].op = "stop" /\ posted[j].op = "add"
              /\ posted[i].id = posted[j].id
              => j < i
    BY DEF AddBeforeStop, n
  <1>3. ASSUME NEW i \in 1 .. n + 1, posted'[i].op = "stop"
        PROVE  posted'[i].id \in known'
    <2>1. CASE i \in 1 .. n
      BY <1>1, <1>2, <1>3, <2>1
    <2>2. CASE i = n + 1
      BY <1>1, <1>3, <2>2
    <2> QED BY <1>1, <2>1, <2>2
  <1>4. ASSUME NEW i \in 1 .. n + 1, NEW j \in 1 .. n + 1,
               posted'[i].op = "stop", posted'[j].op = "add",
               posted'[i].id = posted'[j].id
        PROVE  j < i
    <2>1. CASE i \in 1 .. n /\ j \in 1 .. n
      BY <1>1, <1>2, <1>4, <2>1
    <2>2. CASE i = n + 1 /\ j \in 1 .. n
      BY <1>1, <2>2
    <2>3. CASE i \in 1 .. n /\ j = n + 1
      BY <1>1, <1>2, <1>4, <2>3
    <2>4. CASE i = n + 1 /\ j = n + 1
      BY <1>1, <1>4, <2>4
    <2> QED BY <1>1, <2>1, <2>2, <2>3, <2>4
  <1> QED BY <1>1, <1>3, <1>4 DEF AddBeforeStop

(* At first nothing is posted.                                              *)
LEMMA AddBeforeStopInit == Init => AddBeforeStop
  BY EmptySeq DEF Init, AddBeforeStop

(* Every step keeps each add before the stops of its id.                    *)
LEMMA AddBeforeStopStep ==
    ASSUME TypeOK, IdsFresh, AddBeforeStop, [Next]_vars
    PROVE  AddBeforeStop'
  <1>1. CASE posted' = posted /\ known \subseteq known'
    BY <1>1 DEF AddBeforeStop
  <1>2. ASSUME NEW t \in Threads, PostCall(t) PROVE AddBeforeStop'
    <2>1. [op |-> "call", id |-> 0] \in Task
      BY DEF Task
    <2> QED BY <1>2, <2>1, AddBeforeStopPush DEF PostCall, timers
  <1>3. ASSUME NEW t \in Threads, PostAddTimer(t) PROVE AddBeforeStop'
    <2>1. [op |-> "add", id |-> tid[t]] \in Task
      BY <1>3, MaxTimersAssumption DEF PostAddTimer, Task, TypeOK, TimerIds
    <2>2. tid[t] \notin known
      BY <1>3 DEF PostAddTimer, IdsFresh
    <2> QED BY <1>3, <2>1, <2>2, AddBeforeStopPush DEF PostAddTimer, timers
  <1>4. ASSUME NEW t \in Threads, NEW id \in known, PostStopTimer(t, id)
        PROVE  AddBeforeStop'
    <2>1. [op |-> "stop", id |-> id] \in Task
      BY DEF Task, TypeOK
    <2> QED BY <1>4, <2>1, AddBeforeStopPush DEF PostStopTimer, timers
  <1>5. ASSUME NEW t \in Threads, MakeTimerID(t) \/ SetStop(t) \/ Wakeup(t)
        PROVE  AddBeforeStop'
    BY <1>1, <1>5 DEF MakeTimerID, SetStop, Wakeup, queues, timers
  <1>6. CASE UNCHANGED vars \/ LoopHead \/ EndTimerRun \/ CheckStop \/ WaitPipe
             \/ WaitOther \/ EndEvents \/ DoTask \/ EndCall \/ EndTasks
    BY <1>1, <1>6 DEF vars, LoopHead, EndTimerRun, CheckStop, WaitPipe, WaitOther,
       EndEvents, DoTask, EndCall, EndTasks, queues, timers
  <1>7. CASE RunTask
    BY <1>1, <1>7 DEF RunTask, StopTimer, timers
  <1>8. ASSUME NEW id, Fire(id) \/ OwnStopTimer(id) PROVE AddBeforeStop'
    BY <1>1, <1>8 DEF Fire, OwnStopTimer, StopTimer, queues
  <1>9. CASE OwnAddTimer
    BY <1>1, <1>9 DEF OwnAddTimer, queues
  <1> QED
    BY NextSplit, <1>2, <1>3, <1>4, <1>5, <1>6, <1>7, <1>8, <1>9

(* The tasks that ran, and the one that runs next, as places in the posting   *)
(* order.                                                                   *)
LEMMA RanIsPosted ==
    ASSUME TypeOK, TaskOrder
    PROVE  /\ Len(ran) \in Nat /\ Len(posted) \in Nat /\ Len(ran) <= Len(posted)
           /\ \A i \in 1 .. Len(ran) : posted[i] = ran[i]
           /\ func_vec # <<>> => /\ Len(ran) + 1 <= Len(posted)
                                 /\ posted[Len(ran) + 1] = Head(func_vec)
  <1> DEFINE taken == ran \o func_vec
  <1>1. /\ taken \in Seq(Task) /\ Len(taken) = Len(ran) + Len(func_vec)
        /\ \A i \in 1 .. Len(ran) + Len(func_vec) :
              taken[i] = IF i <= Len(ran) THEN ran[i] ELSE func_vec[i - Len(ran)]
    BY ConcatProperties DEF TypeOK
  <1>2. posted = taken \o task_list
    BY DEF TaskOrder
  <1> HIDE DEF taken
  <1>3. /\ Len(posted) = Len(taken) + Len(task_list)
        /\ \A i \in 1 .. Len(taken) + Len(task_list) :
              posted[i] = IF i <= Len(taken) THEN taken[i]
                          ELSE task_list[i - Len(taken)]
    <2>1. taken \in Seq(Task) /\ task_list \in Seq(Task)
      BY <1>1 DEF TypeOK
    <2> QED BY <1>2, <2>1, ConcatProperties
  <1>4. /\ Len(ran) \in Nat /\ Len(func_vec) \in Nat /\ Len(task_list) \in Nat
        /\ func_vec # <<>> => Len(func_vec) > 0 /\ Head(func_vec) = func_vec[1]
    BY LenProperties, EmptySeq DEF TypeOK
  <1>5. ASSUME NEW i \in 1 .. Len(ran) PROVE posted[i] = ran[i]
    <2>1. /\ i <= Len(ran) /\ i \in 1 .. Len(ran) + Len(func_vec)
          /\ i <= Len(taken) /\ i \in 1 .. Len(taken) + Len(task_list)
      BY <1>1, <1>4
    <2> QED BY <1>1, <1>3, <2>1
  <1>6. ASSUME func_vec # <<>> PROVE posted[Len(ran) + 1] = func_vec[1]
    <2> DEFINE k == Len(ran) + 1
    <2>1. /\ ~(k <= Len(ran)) /\ k - Len(ran) = 1
          /\ k \in 1 .. Len(ran) + Len(func_vec)
          /\ k <= Len(taken) /\ k \in 1 .. Len(taken) + Len(task_list)
      BY <1>1, <1>4, <1>6
    <2> HIDE DEF k
    <2>2. posted[k] = func_vec[1]
      BY <1>1, <1>3, <2>1
    <2> QED BY <2>2 DEF k
  <1> QED BY <1>1, <1>3, <1>4, <1>5, <1>6

(* Every step keeps stopped timers out of the wheel.                        *)
LEMMA StopWinsStep ==
    ASSUME TypeOK, TypeOK', InOrder, IdsFresh, AddBeforeStop, StopWins, [Next]_vars
    PROVE  StopWins'
  <1>1. /\ \A i \in 1 .. Len(ran) : ran[i].op = "stop" => ran[i].id \notin wheel
        /\ StopWins' <=> \A i \in 1 .. Len(ran') :
                            ran'[i].op = "stop" => ran'[i].id \notin wheel'
    <2>1. DOMAIN ran = 1 .. Len(ran) /\ (DOMAIN ran)' = 1 .. Len(ran')
      BY LenProperties DEF TypeOK
    <2> QED BY <2>1 DEF StopWins
  <1>2. CASE ran' = ran /\ wheel' \subseteq wheel
    BY <1>1, <1>2
  <1>3. CASE OwnAddTimer
    <2>1. \A i \in 1 .. Len(ran) : ran[i].op = "stop" => ran[i].id \in known
      BY RanIsPosted DEF InOrder, AddBeforeStop
    <2>2. /\ timer_id \in Nat /\ known \subseteq Nat
          /\ ran' = ran /\ wheel' = wheel \cup {timer_id + 1}
      BY <1>3, MaxTimersAssumption
         DEF OwnAddTimer, AddTimer, TypeOK, TimerIds, queues
    <2>3. timer_id + 1 \notin known
      BY <2>2 DEF IdsFresh
    <2> QED BY <1>1, <2>1, <2>2, <2>3
  <1>4. CASE RunTask
    <2> DEFINE n == Len(ran)
               h == Head(func_vec)
    <2>1. /\ n \in Nat /\ n + 1 <= Len(posted) /\ Len(posted) \in Nat
          /\ posted[n + 1] = h
          /\ \A i \in 1 .. n : posted[i] = ran[i]
      BY <1>4, RanIsPosted DEF RunTask, InOrder
    <2>2. h \in Task
      BY <1>4, HeadTailProperties DEF RunTask, TypeOK
    <2>3. /\ Len(ran') = n + 1
          /\ \A i \in 1 .. n : ran'[i] = ran[i]
          /\ ran'[n + 1] = h
      BY <1>4, <2>2, AppendProperties DEF RunTask, TypeOK
    <2>4. \/ h.op = "call" /\ wheel' = wheel
          \/ h.op = "add" /\ wheel' = wheel \cup {h.id}
          \/ h.op = "stop" /\ wheel' = wheel \ {h.id}
      BY <1>4 DEF RunTask, AddTimer, StopTimer, timers
    <2>5. \A i \in 1 .. n : ran[i].op = "stop" => ran[i].id \notin wheel
      BY <1>1
    <2> HIDE DEF n, h
    <2>6. ASSUME NEW i \in 1 .. n + 1, ran'[i].op = "stop"
          PROVE  ran'[i].id \notin wheel'
      <3>1. CASE i = n + 1
        BY <2>3, <2>4, <2>6, <3>1
      <3>2. CASE i \in 1 .. n /\ h.op # "add"
        BY <2>3, <2>4, <2>5, <2>6, <3>2
      <3>3. CASE i \in 1 .. n /\ h.op = "add"
        <4>1. /\ i \in 1 .. Len(posted) /\ n + 1 \in 1 .. Len(posted)
              /\ ~(n + 1 < i) /\ posted[i] = ran'[i]
          BY <2>1, <2>3, <3>3
        <4>2. ran'[i].id # h.id
          BY <2>1, <2>6, <3>3, <4>1 DEF AddBeforeStop
        <4> QED BY <2>3, <2>4, <2>5, <2>6, <3>3, <4>2
      <3> QED BY <2>1, <3>1, <3>2, <3>3
    <2> QED BY <1>1, <2>3, <2>6
  <1>5. ASSUME NEW t \in Threads,
               PostCall(t) \/ MakeTimerID(t) \/ PostAddTimer(t) \/ SetStop(t)
                 \/ Wakeup(t) \/ \E id \in known : PostStopTimer(t, id)
        PROVE  StopWins'
    BY <1>2, <1>5 DEF PostCall, MakeTimerID, PostAddTimer, SetStop, Wakeup,
                      PostStopTimer, Push, queues, timers
  <1>6. CASE UNCHANGED vars \/ LoopHead \/ EndTimerRun \/ CheckStop \/ WaitPipe
             \/ WaitOther \/ EndEvents \/ DoTask \/ EndCall \/ EndTasks
    BY <1>2, <1>6 DEF vars, LoopHead, EndTimerRun, CheckStop, WaitPipe, WaitOther,
       EndEvents, DoTask, EndCall, EndTasks, queues, timers
  <1>7. ASSUME NEW id, Fire(id) \/ OwnStopTimer(id) PROVE StopWins'
    BY <1>2, <1>7 DEF Fire, OwnStopTimer, StopTimer, queues
  <1> QED
    BY NextSplit, <1>3, <1>4, <1>5, <1>6, <1>7

(* A timer stopped from another thread is out of the wheel for good once the  *)
(* task has run: no interleaving of AddTimer calls with the StopTimer lets    *)
(* its own AddTimer task come later.  (On the I/O thread this fails; see       *)
(* RemovedStaysRemoved.)                                                    *)
THEOREM StoppedStayOut == Spec => []StopWins
  <1>1. Init => StopWins
    BY DEF Init, StopWins
  <1> DEFINE IInv == TypeOK /\ InOrder /\ IdsFresh /\ AddBeforeStop /\ StopWins
  <1>2. Init => IInv
    BY <1>1, TypeInit, InOrderInit, IdsFreshInit, AddBeforeStopInit
  <1>3. IInv /\ [Next]_vars => IInv'
    BY TypeStep, InOrderStep, IdsFreshStep, AddBeforeStopStep, StopWinsStep
  <1> QED BY <1>2, <1>3, PTL DEF Spec

-----------------------------------------------------------------------------
(* Every step keeps the timers of the wheel in the map.                     *)
LEMMA WheelInMapStep ==
    ASSUME WheelInMap, [Next]_vars
    PROVE  WheelInMap'
  <1>1. CASE wheel' = wheel /\ timer_map' = timer_map
    BY <1>1 DEF WheelInMap
  <1>2. ASSUME NEW t \in Threads,
               PostCall(t) \/ MakeTimerID(t) \/ PostAddTimer(t) \/ SetStop(t)
                 \/ Wakeup(t) \/ \E id \in known : PostStopTimer(t, id)
        PROVE  WheelInMap'
    BY <1>1, <1>2 DEF PostCall, MakeTimerID, PostAddTimer, SetStop, Wakeup,
                      PostStopTimer, timers
  <1>3. CASE UNCHANGED vars \/ LoopHead \/ EndTimerRun \/ CheckStop \/ WaitPipe
             \/ WaitOther \/ EndEvents \/ DoTask \/ EndCall \/ EndTasks
    BY <1>1, <1>3 DEF vars, LoopHead, EndTimerRun, CheckStop, WaitPipe, WaitOther,
       EndEvents, DoTask, EndCall, EndTasks, timers
  <1>4. CASE RunTask
    BY <1>4 DEF WheelInMap, RunTask, AddTimer, StopTimer, timers
  <1>5. ASSUME NEW id, Fire(id) \/ OwnStopTimer(id) PROVE WheelInMap'
    BY <1>5 DEF WheelInMap, Fire, OwnStopTimer, StopTimer
  <1>6. CASE OwnAddTimer
    BY <1>6 DEF WheelInMap, OwnAddTimer, AddTimer
  <1> QED BY NextSplit, <1>2, <1>3, <1>4, <1>5, <1>6

(* Every timer of the wheel is kept alive, and can be stopped, through         *)
(* __all_timer_event_map: the wheel itself only holds weak references.       *)
THEOREM WheelIsOwned == Spec => []WheelInMap
  <1>1. Init => WheelInMap
    BY DEF Init, WheelInMap
  <1> QED BY <1>1, WheelInMapStep, PTL DEF Spec

=============================================================================
