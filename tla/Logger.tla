-------------------------------- MODULE Logger --------------------------------
(***************************************************************************)
(* The logger of CppNet: threads that call LOG_INFO and the like, the cache  *)
(* of Log blocks of BaseLogger (common/log/base_logger.cpp), and the thread  *)
(* of a FileLogger (common/log/file_logger.cpp) that takes the lines from a  *)
(* blocking queue and writes them to one file per date.  Behind the          *)
(* FileLogger stands a StdoutLogger, to which the calling thread hands the   *)
(* line as well.                                                            *)
(*                                                                          *)
(* Every operation of the two mutex-protected queues is one step.  A block   *)
(* is a shared_ptr: its last holder gives it back with FreeLog, on whichever *)
(* thread that is.  The text of a line is its number and its date.          *)
(***************************************************************************)
EXTENDS Integers, Sequences, SequencesExt, FiniteSets

CONSTANTS
    Threads,   \* the threads that log
    CacheSize, \* _cache_size
    BlockLen,  \* _block_size
    Header,    \* the length of the head of a line: level, time, file
    Lens,      \* the lengths of what one << or the format string appends
    Streams,   \* whether a line may have further parts (LOG_INFO_S): {FALSE} or BOOLEAN
    MaxDay,    \* bound on the date
    MaxStore,  \* the max_store_days the FileLogger is made with
    StoreDays, \* the values SetMaxStoreDays gives it
    Opens,     \* the outcomes of opening a file: {TRUE} or BOOLEAN
    MaxLines,  \* bound on the lines logged
    MaxLevels, \* bound on the calls of SetLevel
    MaxBlocks, \* bound on the blocks allocated at one time
    None       \* no block (nullptr), no date, no file

ASSUME LoggerAssumption ==
    /\ {CacheSize, BlockLen, MaxDay, MaxLines, MaxLevels, MaxBlocks} \subseteq Nat
    /\ MaxDay # 0 /\ Header \in 1 .. BlockLen - 1
    /\ Lens \subseteq Nat \ {0} /\ MaxStore \in Nat /\ StoreDays \subseteq Nat
    /\ Opens \subseteq BOOLEAN /\ TRUE \in Opens
    /\ Streams \subseteq BOOLEAN /\ FALSE \in Streams

VARIABLES
    level,   \* _level: TRUE when the lines of the threads are printed
    cache,   \* _cache_queue
    mem,     \* mem[b]: the line in block b and its _len, None when not allocated
    at,      \* at[t]: where a thread is, and the logger's and the main thread
    blk,     \* blk[t]: the block a thread holds
    own,     \* own[t]: the number of the line thread t is logging
    lines,   \* the lines begun
    queue,   \* the queue of the FileLogger; None is the nullptr of Stop
    stop,    \* _stop
    todo,    \* the iterations SetLevel has left
    levels,  \* the number of calls of SetLevel
    day,     \* the date
    fs,      \* the files: time is _time, open the file of _stream (None when it
             \* is closed), history is _history_file_names, disk[d] the lines in
             \* the file of date d (None when there is no such file), and opened,
             \* a history, the dates whose file was opened
    max,     \* _max_file_num
    pushed,  \* history: the lines in the order they were pushed
    handled  \* history: how many of them the logger thread is done with

calls == <<at, blk, own, lines>>
blocks == <<cache, mem>>
setting == <<level, todo, levels>>
files == <<fs, max>>
lineq == <<queue, pushed, handled, stop, day>>
vars == <<calls, blocks, setting, files, lineq>>

LogThread == "logger"
Main == "main"
All == Threads \cup {LogThread, Main}
Blocks == 1 .. MaxBlocks
Days == 1 .. MaxDay
Line == [id : 1 .. MaxLines, day : Days]

ASSUME NoneAssumption ==
    /\ None \notin Blocks /\ None \notin Days /\ None \notin Line
    /\ \A written \in SUBSET Line : None # written
    /\ None \notin [line : Line \cup {None}, len : Nat]

ASSUME ThreadsAssumption == LogThread \notin Threads /\ Main \notin Threads

Init == /\ level = TRUE /\ cache = <<>> /\ todo = 0 /\ levels = 0
        /\ mem = [b \in Blocks |-> None]
        /\ at = [t \in All |-> IF t = LogThread THEN "loop" ELSE "idle"]
        /\ blk = [t \in All |-> None] 
        /\ own = [t \in Threads |-> 0] /\ lines = 0
        /\ queue = <<>> /\ stop = FALSE
        /\ day = 1
        /\ fs = [time |-> None, open |-> None, history |-> <<>>, opened |-> {},
                 disk |-> [d \in Days |-> None]]
        /\ max = MaxStore
        /\ pushed = <<>> /\ handled = 0

-----------------------------------------------------------------------------
(* The blocks.                                                              *)

Allocated == {b \in Blocks : mem[b] # None}
NewBlock == CHOOSE b \in Blocks \ Allocated : \A c \in Blocks \ Allocated : b <= c
CleanBlock == [line |-> None, len |-> BlockLen]

Goto(t, to) == at' = [at EXCEPT ![t] = to]
Take(t, b) == blk' = [blk EXCEPT ![t] = b]

(* Mutant: the queue does not count as a holder.                            *)
LastHolderNoQueue(t) == \A u \in All \ {t} : blk[u] # blk[t]

(* No other shared_ptr to the block of thread t is left.                    *)
LastHolder(t) == /\ \A u \in All \ {t} : blk[u] # blk[t]
                 /\ blk[t] \notin Range(queue)

(* Where thread t goes on once it has let its block go.                     *)
Resume(t) == CASE t \in Threads -> "idle" [] t = LogThread -> "loop" [] OTHER -> "clear"

(* Thread t lets its pointer go: FreeLog runs on t when it was the last.    *)
Release(t) == IF LastHolder(t)
                THEN Goto(t, "size") /\ UNCHANGED blk
                ELSE Goto(t, Resume(t)) /\ Take(t, None)

(* FreeLog: the size of the cache is read first; the block is freed, or put  *)
(* back with its full length, in a later step.  (Nobody reads the old line:  *)
(* FormatLog writes over it.)                                               *)
FreeLogSize(t) ==
    /\ at[t] = "size"
    /\ Goto(t, IF Len(cache) > CacheSize THEN "free" ELSE "put")
    /\ UNCHANGED <<blk, own, lines, blocks, setting, files, lineq>>

FreeLogPut(t) ==
    /\ at[t] = "put"
    /\ cache' = Append(cache, blk[t])
    /\ mem' = [mem EXCEPT ![blk[t]] = CleanBlock]
    /\ Goto(t, Resume(t)) /\ Take(t, None)
    /\ UNCHANGED <<own, lines, setting, files, lineq>>

FreeLogFree(t) ==
    /\ at[t] = "free"
    /\ mem' = [mem EXCEPT ![blk[t]] = None]
    /\ Goto(t, Resume(t)) /\ Take(t, None)
    /\ UNCHANGED <<own, lines, cache, setting, files, lineq>>

FreeLog(t) == FreeLogSize(t) \/ FreeLogPut(t) \/ FreeLogFree(t)

-----------------------------------------------------------------------------
(* A thread that logs one line.                                             *)

(* ~FileLogger is past Join.                                                *)
Ended == at[Main] \in {"clear", "size", "put", "free", "end"}

(* The test of _level in Info() and in GetStreamParam().  The program stops  *)
(* logging before it destroys the logger.                                   *)
BeginLog(t) ==
    /\ at[t] = "idle" /\ level
    /\ lines < MaxLines /\ ~Ended
    /\ lines' = lines + 1 /\ own' = [own EXCEPT ![t] = lines + 1]
    /\ Goto(t, "get")
    /\ UNCHANGED <<blk, blocks, setting, files, lineq>>

(* GetLog: a block of the cache, or a new one.                              *)
GetLog(t) ==
    /\ at[t] = "get"
    /\ IF cache # <<>>
         THEN /\ Take(t, Head(cache))
              /\ cache' = Tail(cache) /\ UNCHANGED mem
         ELSE /\ Allocated # Blocks
              /\ Take(t, NewBlock)
              /\ mem' = [mem EXCEPT ![NewBlock] = CleanBlock]
              /\ UNCHANGED cache
    /\ Goto(t, "format")
    /\ UNCHANGED <<own, lines, setting, files, lineq>>

(* FormatLog: the head of the line with the time, before the line is pushed. *)
FormatLog(t) ==
    /\ at[t] = "format"
    /\ mem' = [mem EXCEPT ![blk[t]] = [line |-> [id |-> own[t], day |-> day], len |-> Header]]
    /\ Goto(t, "text")
    /\ UNCHANGED <<blk, own, lines, cache, setting, files, lineq>>

(* vsnprintf, or an operator << of LogStream: _len grows by the length of    *)
(* the text, not by what was room for.                                      *)
AppendText(t) ==
    /\ at[t] = "text"
    /\ \E n \in Lens :
         mem' = [mem EXCEPT ![blk[t]].len = IF @ < BlockLen THEN @ + n ELSE @]
    /\ \E more \in Streams : Goto(t, IF more THEN "text" ELSE "push")
    /\ UNCHANGED <<blk, own, lines, cache, setting, files, lineq>>

(* FileLogger::Info: Push of the queue.                                     *)
Push(t) ==
    /\ at[t] = "push"
    /\ queue' = Append(queue, blk[t])
    /\ pushed' = Append(pushed, mem[blk[t]].line)
    /\ Goto(t, "print")
    /\ UNCHANGED <<blk, own, lines, blocks, setting, files, stop, day, handled>>

(* Logger::Info passes the line on to the StdoutLogger, which prints it; the *)
(* thread then lets the block go.                                           *)
PrintLine(t) ==
    /\ at[t] = "print"
    /\ Release(t)
    /\ own' = [own EXCEPT ![t] = 0]
    /\ UNCHANGED <<lines, blocks, setting, files, lineq>>

LogCall(t) == \/ BeginLog(t) \/ GetLog(t) \/ FormatLog(t) \/ AppendText(t)
              \/ Push(t) \/ PrintLine(t)

-----------------------------------------------------------------------------
(* The thread of the FileLogger.                                            *)

(* Mutant: the loop ends when the queue is empty.                           *)
LoopTestEmpty ==
    /\ at[LogThread] = "loop"
    /\ Goto(LogThread, IF stop \/ queue = <<>> THEN "done" ELSE "pop")
    /\ UNCHANGED <<blk, own, lines, blocks, setting, files, lineq>>

(* Run: the test of _stop.                                                  *)
LoopTest ==
    /\ at[LogThread] = "loop"
    /\ Goto(LogThread, IF stop THEN "done" ELSE "pop")
    /\ UNCHANGED <<blk, own, lines, blocks, setting, files, lineq>>

(* Mutant: the last element is taken first.                                 *)
PopLineLast ==
    /\ at[LogThread] = "pop" /\ queue # <<>>
    /\ queue' = Front(queue)
    /\ Take(LogThread, Last(queue))
    /\ Goto(LogThread, IF Last(queue) = None THEN "done" ELSE "write")
    /\ UNCHANGED <<own, lines, blocks, setting, files, stop, day, pushed, handled>>

(* Pop waits for an element; the nullptr of Stop ends the loop.             *)
PopLine ==
    /\ at[LogThread] = "pop" /\ queue # <<>>
    /\ queue' = Tail(queue)
    /\ Take(LogThread, Head(queue))
    /\ Goto(LogThread, IF Head(queue) = None THEN "done" ELSE "write")
    /\ UNCHANGED <<own, lines, blocks, setting, files, stop, day, pushed, handled>>

(* Mutant: >= for >, one file too many expires.                             *)
CheckExpireFilesMore(f, n) ==
    LET gone == Len(f.history) - n + 1
    IN  IF gone <= 0 THEN f ELSE
        [f EXCEPT !.history = SubSeq(@, gone + 1, Len(@)),
                  !.disk = [d \in Days |->
                      IF d \in Range(SubSeq(f.history, 1, gone)) THEN None ELSE @[d]]]

(* CheckExpireFiles: names go from the head of the history until n are left, *)
(* and the files of those names with them.                                  *)
CheckExpireFiles(f, n) ==
    LET gone == Len(f.history) - n
    IN  IF gone <= 0 THEN f ELSE
        [f EXCEPT !.history = SubSeq(@, gone + 1, Len(@)),
                  !.disk = [d \in Days |->
                      IF d \in Range(SubSeq(f.history, 1, gone)) THEN None ELSE @[d]]]

(* Opening the file of date d appends to it or creates it.                  *)
OpenFile(f, d) ==
    [f EXCEPT !.open = d, !.opened = @ \cup {d}, !.disk[d] = IF @ = None THEN {} ELSE @]

(* CheckTime for a line of date d; ok tells whether the new file is opened.  *)
CheckTime(f, d, ok) ==
    IF f.time = d THEN f ELSE
    LET g == CheckExpireFiles(
                 [f EXCEPT !.time = d, !.open = None, !.history = Append(@, d)], max)
    IN  IF ok THEN OpenFile(g, d) ELSE g

(* The line goes to the open file, for nothing when that has been removed.   *)
WriteLine(f, l) ==
    IF f.open = None THEN f ELSE
    [f EXCEPT !.disk[f.open] = IF @ = None THEN None ELSE @ \cup {l}]

HandleLine ==
    /\ at[LogThread] = "write"
    /\ \E ok \in Opens :
         fs' = LET l == mem[blk[LogThread]].line
               IN  WriteLine(CheckTime(fs, l.day, ok), l)
    /\ handled' = handled + 1
    /\ Release(LogThread)
    /\ UNCHANGED <<own, lines, blocks, setting, max, queue, pushed, stop, day>>

LoggerStep == LoopTest \/ PopLine \/ HandleLine \/ FreeLog(LogThread)

-----------------------------------------------------------------------------
(* The main thread: SetLevel, SetMaxStoreDays and the end of the logger.     *)

(* SetLevel: the level first, then the cache is filled or emptied, one       *)
(* operation of the queue at a time.                                        *)
SetLevel(on) ==
    /\ at[Main] = "idle" /\ levels < MaxLevels
    /\ level' = on /\ levels' = levels + 1
    /\ Goto(Main, IF on THEN "fill" ELSE "drain")
    /\ UNCHANGED <<todo, blk, own, lines, blocks, files, lineq>>

CacheTest ==
    /\ \/ /\ at[Main] = "fill"
          /\ todo' = IF cache = <<>> THEN CacheSize ELSE 0
          /\ Goto(Main, "new")
       \/ /\ at[Main] = "drain"
          /\ todo' = Len(cache)
          /\ Goto(Main, "del")
    /\ UNCHANGED <<level, levels, blk, own, lines, blocks, files, lineq>>

FillCache ==
    /\ at[Main] = "new" /\ todo > 0 /\ Allocated # Blocks
    /\ mem' = [mem EXCEPT ![NewBlock] = CleanBlock]
    /\ cache' = Append(cache, NewBlock)
    /\ todo' = todo - 1
    /\ UNCHANGED <<calls, level, levels, files, lineq>>

DrainCache ==
    /\ at[Main] = "del" /\ todo > 0
    /\ IF cache = <<>> THEN UNCHANGED blocks
       ELSE /\ mem' = [mem EXCEPT ![Head(cache)] = None]
            /\ cache' = Tail(cache)
    /\ todo' = todo - 1
    /\ UNCHANGED <<calls, level, levels, files, lineq>>

LevelSet ==
    /\ at[Main] \in {"new", "del"} /\ todo = 0
    /\ Goto(Main, "idle")
    /\ UNCHANGED <<blk, own, lines, blocks, setting, files, lineq>>

(* SetMaxStoreDays, by a caller who sees to it that no line is being written *)
(* at the time: it shares the history with Run, without a lock.             *)
SetMaxStoreDays(n) ==
    /\ at[Main] = "idle" /\ at[LogThread] = "pop" /\ queue = <<>> /\ n # max
    /\ max' = n
    /\ fs' = CheckExpireFiles(fs, n)
    /\ UNCHANGED <<calls, blocks, setting, lineq>>

(* ~FileLogger: Stop sets the flag and then pushes a nullptr, Join waits for *)
(* the thread, and the lines still in the queue are let go one by one.      *)
StopFlag ==
    /\ at[Main] = "idle"
    /\ stop' = TRUE
    /\ Goto(Main, "null")
    /\ UNCHANGED <<blk, own, lines, blocks, setting, files, queue, pushed, handled, day>>

(* Mutant: no nullptr for a thread that waits in Pop.                       *)
StopPushNothing ==
    /\ at[Main] = "null"
    /\ Goto(Main, "join")
    /\ UNCHANGED <<blk, own, lines, blocks, setting, files, lineq>>

StopPush ==
    /\ at[Main] = "null"
    /\ queue' = Append(queue, None)
    /\ Goto(Main, "join")
    /\ UNCHANGED <<blk, own, lines, blocks, setting, files, pushed, handled, stop, day>>

Join ==
    /\ at[Main] = "join" /\ at[LogThread] = "done"
    /\ \A t \in Threads : at[t] = "idle"
    /\ fs' = [fs EXCEPT !.open = None]
    /\ Goto(Main, "clear")
    /\ UNCHANGED <<blk, own, lines, blocks, setting, max, lineq>>

ClearQueue ==
    /\ at[Main] = "clear" /\ queue # <<>>
    /\ queue' = Tail(queue)
    /\ Take(Main, Head(queue))
    /\ Goto(Main, IF Head(queue) = None THEN "clear" ELSE "size")
    /\ UNCHANGED <<own, lines, blocks, setting, files, pushed, handled, stop, day>>

Destroyed ==
    /\ at[Main] = "clear" /\ queue = <<>>
    /\ Goto(Main, "end")
    /\ UNCHANGED <<blk, own, lines, blocks, setting, files, lineq>>

Levelling == CacheTest \/ FillCache \/ DrainCache \/ LevelSet
Stopping == StopPush \/ Join \/ ClearQueue \/ Destroyed \/ FreeLog(Main)

Midnight ==
    /\ day < MaxDay
    /\ day' = day + 1
    /\ UNCHANGED <<calls, blocks, setting, files, queue, pushed, handled, stop>>

Next == \/ \E t \in Threads : LogCall(t) \/ FreeLog(t)
        \/ LoggerStep
        \/ \E on \in BOOLEAN : SetLevel(on)
        \/ \E n \in StoreDays : SetMaxStoreDays(n)
        \/ Levelling \/ StopFlag \/ Stopping
        \/ Midnight

(* A thread that is inside a call, the logger's thread and a Stop that has   *)
(* begun are scheduled again and again; that anyone logs, changes the level  *)
(* or stops the logger is not assumed.                                      *)
Fairness == /\ WF_vars(LoggerStep)
            /\ WF_vars(Levelling \/ Stopping)
            /\ \A t \in Threads : WF_vars(GetLog(t) \/ FormatLog(t) \/ AppendText(t) \/ Push(t)
                                          \/ PrintLine(t) \/ FreeLog(t))

Spec == Init /\ [][Next]_vars /\ Fairness

-----------------------------------------------------------------------------
TypeOK ==
    /\ level \in BOOLEAN /\ stop \in BOOLEAN
    /\ cache \in Seq(Blocks) /\ queue \in Seq(Blocks \cup {None})
    /\ mem \in [Blocks -> {None} \cup [line : Line \cup {None}, len : Nat \ {0}]]
    /\ at \in [All -> {"idle", "get", "format", "text", "push", "print", "size", "put", "free",
                       "loop", "pop", "write", "done", "fill", "drain", "new", "del",
                       "null", "join", "clear", "end"}]
    /\ blk \in [All -> Blocks \cup {None}] /\ own \in [Threads -> 0 .. MaxLines]
    /\ lines \in 0 .. MaxLines /\ levels \in 0 .. MaxLevels /\ todo \in Nat
    /\ day \in Days /\ max \in StoreDays \cup {MaxStore}
    /\ fs \in [time : Days \cup {None}, open : Days \cup {None}, history : Seq(Days),
               opened : SUBSET Days, disk : [Days -> {None} \cup SUBSET Line]]
    /\ pushed \in Seq(Line) /\ handled \in 0 .. Len(pushed)

HeldBlocks == ({blk[t] : t \in All} \cup Range(queue)) \ {None}

(* Every allocated block is in the cache or has a holder, never both, and is *)
(* in the cache once; while a thread fills a block, or gives it back, nobody *)
(* else has it (GetLog, FreeLog, SetLevel on several threads).  A block in   *)
(* the cache has its full length again: GetLog's caller passes _len on as    *)
(* the room there is for the line.                                          *)
BlocksAccounted ==
    /\ TypeOK
    /\ IsInjective(cache)
    /\ Range(cache) \cap HeldBlocks = {}
    /\ Range(cache) \cup HeldBlocks = Allocated
    /\ \A t \in All : at[t] \in {"format", "text", "push", "size", "put", "free"} => LastHolder(t)
    /\ \A i \in 1 .. Len(cache) : mem[cache[i]].len = BlockLen

(* The blocks still to be written: the one in the logger thread's hand, then *)
(* the queue's.                                                             *)
Queued == (IF at[LogThread] = "write" THEN <<blk[LogThread]>> ELSE <<>>) \o queue

(* The first n of them without the nullptr, of which there is one.          *)
Before(n) == n - IF \E j \in 1 .. n : Queued[j] = None THEN 1 ELSE 0

(* What the queue, and the logger thread's hand, hold is exactly what was    *)
(* pushed and not yet handled, in the order of the pushes; and a thread that *)
(* prints its line still finds that line in the block.                      *)
LinesIntact ==
    /\ ~Ended =>
         /\ Len(pushed) = handled + Before(Len(Queued))
         /\ \A i \in 1 .. Len(Queued) :
              Queued[i] # None => mem[Queued[i]].line = pushed[handled + Before(i)]
    /\ \A t \in Threads : at[t] = "print" => mem[blk[t]].line.id = own[t]

DatesInOrder == \A i, j \in 1 .. Len(pushed) : i < j => pushed[i].day <= pushed[j].day

(* As long as the lines come in the order of their dates, a file on disk has *)
(* exactly the handled lines of its date, is one the logger will still       *)
(* expire, and no file that was opened and is not expired is missing         *)
(* (CheckTime, CheckExpireFiles, SetMaxStoreDays).                          *)
FilesTell ==
    DatesInOrder =>
        \A d \in Days :
            /\ fs.disk[d] # None =>
                 /\ d \in Range(fs.history)
                 /\ fs.disk[d] = {pushed[i] : i \in {k \in 1 .. handled : pushed[k].day = d}}
            /\ d \in Range(fs.history) \cap fs.opened => fs.disk[d] # None

(* Stop ends the logger thread, ~FileLogger returns and the queue is empty.  *)
StopEnds == stop ~> at[Main] = "end"

(* A line that was pushed is handled unless the logger is stopped.          *)
PushedIsHandled == \A n \in 1 .. MaxLines : Len(pushed) >= n ~> (handled >= n \/ stop)

-----------------------------------------------------------------------------
(* What does not hold (README, known deviations).                           *)

(* No pushed line is lost when the logger is stopped.                       *)
StopLosesNothing == at[Main] = "end" => handled = Len(pushed)

(* _len does not exceed the block: write() and the next << rely on it.      *)
LenInBlock == \A b \in Allocated : mem[b].len <= BlockLen

(* The files of the last max dates are kept whatever the order of the lines, *)
(* and the open file is not removed.                                        *)
OpenIsThere == fs.open # None => fs.disk[fs.open] # None
RecentIsKept == \A d \in fs.opened : d > day - max => fs.disk[d] # None

=============================================================================
