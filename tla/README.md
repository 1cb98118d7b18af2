# Verification of CppNet and its companions

The repository (`src/`) is a collection of network programming experiments. Its
largest piece of own code is **CppNet** (`src/c-c++test/CppNet`), a C++ network
library: one I/O thread per dispatcher, edge-triggered epoll, timer wheels, chained
ring buffers, callbacks to the program. Beside it stand two servers that keep state of
their own: an echo server on a reactor (`src/c-c++test/reactor_thread2.c`) and a TCP
server for Lua on libuv (`src/c-c++test/libuv-lua/libuv-lua`). The TLA+ modules in this
directory model these three from their source, TLC checks them on small instances and
TLAPS proves the central results for every instance. Paths below are relative to
`src/c-c++test/CppNet` unless they begin with `src/`.

Contents: 1 the system · 2 the modules and the code · 3 the runs · 4 bounds ·
5 fairness · 6 theorems · 7 deviations · 8 what is not modelled · 9 plan ·
10 running it

## 1. The system

### Components, their state and their operations

| Component | State | Operations |
|---|---|---|
| Buffer block (`common/buffer/buffer_block.cpp`) | a fixed memory, `_read`, `_write`, `_can_read` | Read, Write, ReadUntil, MoveReadPt, MoveWritePt, the segments for readv and writev, FindStr, transfers between blocks, Clear |
| Buffer queue (`common/buffer/buffer_queue.cpp`) | a list of blocks, `_buffer_write`, `_can_read_length` | the same interface over a chain of blocks from a pool |
| Bitmap (`common/util/bitmap.cpp`) | words `_bitmap`, summary `_vec_bitmap` | Insert, Remove, GetMinAfter, Empty, Clear |
| Timer wheel (`common/timer/`) | per wheel `_cur_time`, a bitmap and lists of slots; per slot index, intervals, flags | AddTimer, RmTimer, MinTime, TimerRun |
| Dispatcher (`cppnet/dispatcher.cpp`) | `_task_list`, `_stop`, timer id counter, timer map, wheel | Run, Stop, PostTask, Listen, Connect, AddTimer, StopTimer |
| Epoll actions (`cppnet/event/epoll/`) | epoll descriptor, wakeup pipe, each event's type and mask | AddSend/Recv/AcceptEvent, AddConnection, AddDisconnection, DelEvent, ProcessEvent, Wakeup |
| RWSocket (`cppnet/socket/rw_socket.cpp`) | read and write buffer, event, timer id, `_shutdown`, `_connecting` | Read, Write, Connect, Close, AddTimer, StopTimer, OnRead, OnWrite, OnTimer, OnConnect, OnDisConnect |
| ConnectSocket (`cppnet/socket/connect_socket.cpp`) | the listening descriptor | Bind, Listen, Accept, OnAccept |
| Facade (`cppnet/cppnet_base.cpp`) | callbacks, dispatchers | Init, Join, ListenAndAccept, Connection, timers, callback dispatch |
| Memory pools (`common/alloter/`) | PoolAlloter: free lists by size class, the rest of a chunk, the chunks; BlockMemoryPool: a vector of free blocks | Malloc, Free, ReFill, ChunkAlloc; PoolLargeMalloc, PoolLargeFree, ReleaseHalf, Expansion |
| Logger (`common/log/`, `common/structure`, `common/thread`) | level, cache of blocks, queue with condition variable, thread, open file, history of files | Debug…Fatal and the stream form, SetLevel, SetMaxStoreDays, Stop, the loop of FileLogger |
| Reactor echo server (`src/c-c++test/reactor_thread2.c`) | per descriptor a list of events, the epoll set | reactor_run, revent_add, revent_del, accept_, recv_ and send_callback |
| libuv-lua server (`src/c-c++test/libuv-lua/libuv-lua/src`) | connections, a minimum heap of the times they were last heard of, the idle timer | onconnection, onread, echo, ontimer, onconnclose, set_timeout; push, pop, erase, adjust of the heap |

### How they interact

* The program calls the facade from any thread. Listen, Connect and the timer calls
  become tasks of a dispatcher unless the caller is its I/O thread. The task enters
  `_task_list` under a mutex, then a byte goes into the wakeup pipe.
* The I/O thread loops: run due timers, test `_stop`, `epoll_wait` for at most
  `MinTime`, handle events, swap the task list out and run it.
* An event names an `Event` object, which names its socket. A socket reads with readv
  straight into the free segments of its buffer queue, writes with writev from the
  used segments, and calls the program back. The program calls Write, Close and the
  timer functions from inside these callbacks, also on other sockets it keeps.
* Every BufferQueue takes its blocks from a BlockMemoryPool and its nodes from a
  PoolAlloter. Any thread logs; a line is a block of memory under a shared pointer whose
  last holder (the caller, the queue or the logger thread) puts it back into a cache.
* The reactor and the libuv server are separate programs. Their parts call each other on
  one thread; what interleaves is the clients, the kernel and the order of callbacks.
* Sockets are kept alive by a map per thread and by the program's handles; the
  disconnect takes them out of the map, and the last reference deletes the Event.

### What is hard here

* *Threads*: a task or a Stop posted between the swap and `epoll_wait`; a pipe that
  drops bytes when full and is emptied one byte at a time; timer calls on two kinds of
  threads, one immediate and one queued.
* *Edges*: a missed edge is never repeated, so every path that leaves bytes in a queue
  must leave a registration and a future edge behind.
* *Order inside one event*: data, space and the end of a connection come in one event,
  and each of three handlers may find the end first.
* *Callbacks in the middle of an operation*: state is read before and used after them.
* *Shared blocks*: the last holder of a logged line gives its block back in two steps,
  while other threads take blocks out and SetLevel fills or empties the cache.
* *Events that outlive their object*: a batch of `epoll_wait` points to events that a
  callback of the same batch frees, on a descriptor that accept hands out again; data
  arrive for a connection that the idle timer has already shut down.
* *Boundaries*: full and empty rings look alike; wheel indexes wrap and cascade; a
  search in a bitmap crosses words.

`PROJECT.json` lists these as hazards at their lines, with the properties that cover
them.

## 2. The modules and the code

| Module | Models | State | Actions |
|---|---|---|---|
| `BlockOps` | the functions of BufferBlock as operators on a record | – | – |
| `BufferBlock` | blocks under every sequence of calls | `blk` (read, write, can_read, mem), `io` (bytes of the last call) | one per call of InnerBuffer, `ReadInto`/`WriteFrom` for transfers, `FillFree` for readv + MoveWritePt |
| `BoundedFifo` | the promise: queues of bytes with a capacity | `fifo` | append, take, put back, retract, move between two, clear |
| `QueueOps`, `BufferQueue` | BufferQueue over a chain of blocks | `que` (blocks, place of the write block, length), `passed` (bytes of the last call), history variable `back` (bytes a Recv without data took back) | the calls a socket and a program make; Recv with data, with EAGAIN, with an error |
| `BitmapOps`, `Bitmap` | Bitmap with the `log2f` arithmetic as it is written | `bm` (bits, vec) | Insert, Remove, Clear |
| `TimerWheel` | the two wheels of MakeTimer1Min | `tw` (cur, key bits, lists, slots), `owned`, `fired` | Add, Stop, Run(time) |
| `TimerClock` | the same against a clock | and `lag`, `wait`, `early` | and Tick; Run takes the real lag |
| `Dispatcher` | I/O loop, task list, pipe, timers, other threads | see the module | one per step between two points where another thread can interfere |
| `Connection` | one connection: kernel socket, epoll, Event, RWSocket, program | the record `c`, `pc`, `evs` | accept, connect, each handler, each call of the program, the network, the number of the closed descriptor given out again and closed |
| `Logger` | callers, cache of blocks, queue, logger thread, files by date, Stop | `cache`, `mem`, `queue`, `at`/`blk` of each thread, `fs`, history variables `pushed`, `handled` | one per operation on a shared structure |
| `Allocator` | the promise: what callers hold never overlaps | `live` | Malloc, Free |
| `PoolAlloter`, `BlockPool` | the two pools | `pool`, `live`, `large`; `free_vec`, `mapped`, `used`, `pending` | Malloc with its cases and Free; the two critical sections of a free, malloc, the destructor |
| `HeapOps` | minheap.c as operators on a record, its loops as the path of places they write | – | – |
| `UvServer` | the connections and the idle timer of tcpserver.c | `st`, `reading`, `writes`, `heap`, `idle`, `timer`, `clock`, history variables `last`, `closes` | one per callback and per call of the Lua program |
| `Reactor` | the echo server | `events`, `reg`, `on`, `batch`, `cur`, errno (`again`), clients | one per callback; the clients |
| `MC…` | values for TLC: symmetry, negative constants, all small heaps, the two pools side by side | – | – |
| `BlockProofs`, `DispatcherProofs`, `TimerProofs`, `ConnectionProofs`, `PoolProofs`, `ReactorProofs`, `LoggerProofs`, `UvProofs` | theorems about the modules they extend (section 6) | – | – |

Notes on the abstractions:

* **Bytes** are members of a small set. Block memory starts with any contents, as
  `PoolLargeMalloc` leaves it.
* **Dispatcher.** The mutex makes a push and the swap atomic; the write to the pipe is a
  step of its own after it. The wheel is a set of timers, any of which may be due:
  what the wheel really answers is the subject of `TimerWheel`. Callbacks are the
  actions `OwnAddTimer` and `OwnStopTimer`, enabled wherever user code runs.
* **TimerWheel.** The argument order of `AddTimer(ptr, ptr->GetTotalInterval(),
  ptr->IsAlways())` is unspecified in C++ and `GetTotalInterval` changes what
  `IsAlways` returns: `LeftToRight` chooses the compiler's order. The constructor of a
  TimerSlot leaves `_cur_index` uninitialised: `Garbage` is what it may hold. TimerRun is
  called after any time: with no timer set `MinTime` is -1 and `epoll_wait` waits without
  limit (`cppnet/dispatcher.cpp:73`). `_cur_index` is one 16-bit word with the type of the
  wheel in three bits from `IndexSpan` (1024) on, as in the code.
* **Connection.** Steps of the kernel and the peer interleave with every step of the
  thread. One action is one handler up to the next callback; a callback ends with
  an action of its own (`StartRead`, `Return`, `EndDisconnect`), so that the program's
  calls happen in the middle of the handler, as in the code. Buffers are counts of
  bytes here, `BufferQueue` has the contents. Whether received bytes fill the buffer
  exactly is a choice (`exact`), since it depends on what the program left in it.
  A released handle whose Event is still in the batch leaves the thread with undefined
  behaviour; the model stops there, and `EventIsLive` says when that happens.
  After `close()` the number of the descriptor is nobody's, or stands for one of `Files`,
  and Recv, Send, AddEvent and Close of a stale event or a kept handle meet that.
  `EndsInDisconnect` says whether programs call Write or Close inside a disconnect
  callback. No program of the repository does, and the run assumes it.
* **Logger.** Each operation of a queue is one step, as its mutex makes it. A shared
  pointer is its set of holders, and the deleter runs at whoever lets go last
  (`LastHolder`). The text of a line is its number, date and length. Whether a file opens
  is a choice at each attempt. `SetMaxStoreDays` runs while the logger thread is idle:
  the code has no lock there.
* **Pools.** `MCPools` checks both in one run; `which` says which of them a behaviour
  uses. A chunk has exactly the size of the nodes that ReFill asks for. Hence nothing is
  ever left over, which `PiecesPartition` shows, and the branches of ChunkAlloc for a rest
  are not reached. malloc returns any aligned free place, or fails in PoolAlloter; the
  blocks of an `Expansion` are any that are not mapped, in any order (`Expansions`). That the pieces
  cover a chunk is said of every byte of it.
* **UvServer.** libuv runs one callback at a time, so a callback is one action.
  `UvClose`, `UvShutdown` and `UvWrite` are what the server sees of libuv's `core.c` and
  `stream.c`: a pass of the loop takes one queued write, and a shutdown waits until none is
  left, while reading goes on; its callback calls `uv_close`. When `MaxWrites` are queued
  the model has no further answer, but the peer goes on. The heap is the array of minheap.c
  without its realloc.
* **Reactor.** A chunk is what one recv returns. `epoll_wait` reports what is ready then;
  the clients go on, so readiness can be spurious by the time a callback runs. A signal
  makes it fail with EINTR, which ends reactor_run. `SendOk` is a send that returns a
  positive number, of the whole chunk or of a part: the code makes no difference. An
  EPOLL_CTL_MOD of a registered descriptor does not fail. Whoever starts the process may
  have SIGPIPE ignored, so its disposition is chosen in Init. `peer` distinguishes a
  client that has finished, reset, or reset after it finished, and one whose error a send
  has already reported.
* **External** definitions: readv, epoll, the table of descriptors, connect(), malloc, the
  peers and the clock are not in the repository's own code and are modelled as the code uses them.

Definitions that are variants of another definition with a plausible mistake
(`PushSilently`, `ClearInPlace`, …) stand before it. They are the mutants of
`PROJECT.json`: putting one in place of the original makes TLC find a violation, which
shows that the property depends on the code it is about.

## 3. The runs

### Runs that pass

| Run | Checks | What it shows |
|---|---|---|
| `block` | PointersOK, SegmentsOK, FoundIsThere | One block of three bytes. Full and empty are never confused, the segments given to readv and writev are the free and the used cells, FindStr returns the end of the first occurrence that lies in one segment, and 0 if there is none. A string across the wrap is not found (section 7). |
| `block_pair` | IsFifo | Two blocks of two bytes with transfers in both directions implement `BoundedFifo`: no byte is lost, repeated or reordered, also when the target is full or wraps. |
| `queue` | ViewsAgree, QueueIsFifo | A chain of blocks is one queue of bytes. GetUseMemoryBlock and ReadNotMovePt always show its content. A Recv that finds nothing hands -1 to MoveWritePt: it takes back the newest byte, `Retract` of `BoundedFifo`, and the counted `_can_read_length` is then too large by two for each such byte, and by nothing else. |
| `bitmap` | SearchAdvances, SummaryIsUsed | What TimerContainer relies on: a search that starts at a set bit finds it, no search goes back (else the loop of TimerRun would not end), and the summary has no bit of an empty word. |
| `timer` | FlagTells, OnlySetTimersFire | Cascades, re-arming and stops in any order, with TimerRun called after any time, also when `_cur_time` has left the wheel: `TSF_IN_TIMER` always tells whether a timer is listed, its members name the place while the bucket is below the type bits, and no timer fires after its stop or twice for one arming. |
| `dispatcher` | NoLostWakeup, TaskOrder, StopWins, WheelInMap, PostedRuns, StopEnds | Two posting threads, Stop and timer calls from everywhere, with a pipe of one byte that refuses most wakeups: the loop never sleeps on a task or a Stop, tasks run once and in order, a posted StopTimer wins over its AddTimer, every timer in the wheel is owned by the map. Every task runs unless the dispatcher is stopped, and Stop ends the loop. |
| `connection` | DisconnectOnce, NotifiedIffClosed, NoLostEdge, ReadsComeFirst, ArrivedIsRead, FullCacheDrains | One connection with any program, peer and network: the program hears once that it ended; descriptor, map and notification agree afterwards; no edge is lost; a read callback follows the disconnect callback only if the number of the closed descriptor has been given out again; bytes that arrive after the connect callback are read; a full send cache drains. |
| `logger` | BlocksAccounted, LinesIntact, FilesTell, StopEnds, PushedIsHandled | Two callers, a changing level, midnight, files that fail to open, a limit that is lowered, Stop. A block is in the cache or held, never both and never lost; a line is still in its block when it is printed or written; as long as lines come in the order of their dates, a file has exactly its lines and is removed when the history says so. Every pushed line is handled unless the logger is stopped, and Stop returns. |
| `pools` | PiecesPartition, BlocksPartition, PoolIsAllocator, BlockPoolIsAllocator | Free nodes, objects in use and chunks fit together to the byte; blocks are free, in use or unmapped, and the free ones stay bounded with two threads at the limit; both pools implement `Allocator`. |
| `uvserver` | HeapsStayHeaps, NodesAreLive, ClosedOnce, TimerIsExact, ShutIsClosed | Erase and adjust keep every heap of up to seven nodes a heap. With two connections, pushes and pops included, the heap never names a freed connection, although data may arrive after the timer took it out; uv_close is called once; the timer shuts down exactly the idle connections; what is shut down is closed, if the answers to its data stop being queued one day. |
| `reactor` | EventsAreLive, ChunksAccounted, GoneIsClosed, ReceivedIsAnswered | Two clients on descriptors that are used again. The epoll set asks for what the lists hold, no entry of a batch points to a freed event, each received chunk is sent back once and to its own client. Received chunks are answered if the clients stop sending one day, and a client that has gone loses its descriptor if from some time on errno is not EAGAIN. |

In BufferQueue, Bitmap, TimerWheel, Connection and the modules of the last four runs one
of the invariants above has the module's type invariant as its first conjunct; those of
BufferBlock and Dispatcher are theorems (section 6).

`CHECK_DEADLOCK FALSE` appears where the system may stop: the dispatcher and the logger
after Stop, a connection and the clients of the two servers when they have ended, the
pools when the bounded heap is used up.

### A run that shows a disagreement

It checks what the code itself is for and does not do; the finding in `PROJECT.json`
quotes the sentence. Section 7 has the other statements that do not hold.

| Run | Property | What happens |
|---|---|---|
| `timer_fire` | SetTimersFire | `RmTimer` clears the bit of the whole bucket, and another timer of that bucket is never found again. |

## 4. Bounds

* **Blocks**: three cells give every relation of the two points, wrapped and not, full,
  empty, and a match across the wrap with a partial match before it; arguments up to
  four exceed the block. Two blocks of two cells for transfers. The theorems cover
  every size and number.
* **Queue**: blocks of two bytes, five bytes in all: three blocks, so that reads, writes
  and moves end before, at and behind a border between blocks, with `_buffer_write` on
  the first, a middle and the last block. `Expand` has 0 (any) and 2 (one block). The
  counted length is bounded, so that a few bytes can be taken back between two Clears.
* **Bitmap**: three words of three bits (64 in the code), eight bits used: first, middle
  and top bit, first, middle and last word, a partly used word. The slack of the
  allocation is left open.
* **Timers**: two timers in 2 × 2 buckets (60 × 1000 in the code): timers that share a
  bucket, cascade, wrap; words of two bits so that the search crosses words; an interval
  that AddTimer refuses. `MaxLag` is two turns of the root wheel, and TimerRun is called
  again until `_cur_time` is `MaxCur` = 2 buckets beyond it (`IndexSpan` = 2 there, so that
  an index reaches the type bits). The 16 bits of the index do not overflow in the run; the
  proof covers that. `timer_fire` needs less: one interval, words of four bits.
* **Dispatcher**: two threads, three tasks and two timers let a push, a wakeup and a
  swap interleave with another push and a Stop. A pipe of one byte is full at once.
* **Connection**: a send queue and a cache of one byte are full after one write each,
  `wbuf` reaches `MaxCache + 1` as in the code, two received bytes tell the first from
  the last. `Files` has three sockets: one with a byte to read and room to write, one with
  neither that the epoll set does not have, and one whose peer has closed.
* **Logger**: two callers with two lines, a cache of one block and two dates: a block is
  given back while the other caller, the logger thread and SetLevel use the cache, and a
  line of the old date can follow one of the new. `MaxStore` 2 and `StoreDays` 1 make
  files expire and the limit fall.
* **Pools**: classes of two and four bytes, a size that needs rounding and one that is
  too large, a refill of two nodes, three objects at a time, and 26 addresses, in which
  malloc finds several places for a chunk. Two threads and a limit of
  two free blocks let both threads pass the limit before either releases.
* **UvServer**: two connections, times 0 to 4, three queued writes; heaps of seven nodes have three
  levels, so that an erased node can be replaced by one of another branch that has to
  move up.
* **Reactor**: two descriptors and two clients, two chunks each: a second chunk before
  the first is answered, a descriptor closed and handed out again in one batch. With
  `MaxChunks` clients stop sending in the run; ReceivedIsAnswered says so itself.

## 5. Fairness

* **Dispatcher**: weak fairness of the I/O thread's steps and of each caller's Wakeup
  after it has pushed: threads are scheduled, callbacks and tasks end. `epoll_wait` is
  only assumed to return when the pipe is readable (`WaitPipe`). Timeouts and socket
  events (`WaitOther`) are not assumed, so liveness rests on the pipe alone.
* **Connection**: weak fairness of the thread (callbacks return), strong fairness of
  `Wait` because Run comes to `epoll_wait` in every turn even if timers fire each time,
  weak fairness of the end of connect() (the kernel times out) and of the peer taking
  what was sent. Nothing is assumed of the program, and nothing of timers: `timer_fire`
  shows that one can be forgotten, so ArrivedIsRead starts with the connect callback.
* **Logger**: weak fairness of the logger thread, of a Stop or SetLevel once begun, and of
  every caller inside a call. Nobody has to begin a call.
* **UvServer**: libuv delivers a close callback, and peers take what they are sent, one
  write in a pass (`OnWritable`). Neither data nor the timer is assumed. A peer that never
  reads keeps its connection, in the code as well, and so does one that goes on sending
  while its answers are queued: ShutIsClosed has the end of that as its hypothesis, and
  ShutIsClosedAnyway (section 7) is the statement without it.
* **Reactor**: the loop runs (weak fairness of its steps taken together), and clients
  read what they are sent. `ServerSurvives` does not hold, so liveness is claimed while
  the process is alive. That clients stop sending, and that errno stops being EAGAIN, is
  not fairness but the hypothesis of ReceivedIsAnswered and of GoneIsClosed.
* **TimerClock**: time goes on and TimerRun is called again and again. The
  counterexample of `timer_fire` is therefore not a loop that stopped.

## 6. Theorems

Proved by TLAPS for every value of the constants, from the assumptions named in the
modules: a block has at least one cell, `Byte` is not empty, a pipe holds at least one
byte, a word of a bitmap has two bits or more, a refill makes two nodes or more, the
threads of the block pool are finitely many, `None` is no block, date, line or file, sizes
and bounds are natural numbers, there are finitely many timers, an interval is at most
a turn of the root wheel (AddTimer refuses it from there on), and the type bits of an
index lie above the sub wheel. The numbers of blocks, threads,
descriptors, clients, connections and lines are arbitrary, and so is the time between two
calls of TimerRun. Three groups of theorems have a hypothesis of their own, named below:
those of `ConnectionProofs`, `FilesStayTold` and `TimerStaysExact`.

Each proof module has its inductive invariant at its beginning, as a conjunction of named
parts, and then one lemma per action. Where an invariant is more than the property the run
checks, it was put to TLC on the instance of the run before it was proved.

`BlockProofs` (about `BufferBlock` and `BufferQueue`):

* `TypeCorrect`, `PointersCorrect`. The inductive invariant is `TypeOK /\ PointersOK`.
  The types alone are not inductive: `Forward` and `Backward` stay in the memory only
  because the lengths they are given come from GetCanReadLength and GetCanWriteLength,
  and these are right only while offset 0 and `_buffer_end` are not both in use.
* `BlocksAreFifos`: `Spec => IsFifo`, the refinement of `BoundedFifo` under
  `fifo[x] <- Content(blk[x])`. One lemma per operator says what it does to the content
  (`ContentWrite`, `ContentRead`, `ContentUnread`, `ContentRetract`, `FillIsWrite`,
  `TransferOK`), and `NextRefines` has one step per action. Contents are compared cell
  by cell through the position of the i-th readable byte, which makes the wrapped and
  the unwrapped case one argument.
* `SegmentsCorrect`: `[]SegmentsOK`, from the same invariant. The used cells count on from
  the read point, the free ones from the write point, and the two lengths add up to the
  block.
* `FoundStaysThere`: `[]FoundIsThere`. A place in the first or second segment is a place in
  the two in a row (`PartOfConcat`), which is the content; and the ends of occurrences that
  do not cross the wrap are those of the first segment and, moved by its length, those of
  the second, so that the search reports the least of them.
* `QueueViewsAgree` and `QueuesAreFifos`: `QueueSpec => []ViewsAgree` and the refinement of
  `BoundedFifo` by a chain of blocks, `fifo <- <<QueueContent(que)>>`. The inductive
  invariant `QueueInv` counts the bytes (the length is their number plus `2 * back`) and
  adds what neither property says (`Placed`): `_buffer_write` is null for the empty list
  only, the blocks behind it hold nothing, and those between the head and it hold something;
  a read may have emptied the head, and a Recv without data the block of `_buffer_write`.
  Without the last part Read, which stops at an empty block, could leave bytes behind it. The loops
  of the code are recursive functions of the number of rounds; `LoopRuns` shows once, from
  the well-foundedness of the numbers, that such a function runs through the states each
  round keeps to, and every loop has its states and one lemma for a round: `Draining` for
  Read and MoveReadPt, `Writing` for Write, `Forwarding` for MoveWritePt after readv, `Backing` for its -1, which
  steps back over emptied blocks to the newest byte and stops at the head (`BackTakes`). They
  use the lemmas about one block. Write needs no more rounds than bytes and one, because
  only the first block it meets can be full.

`DispatcherProofs` (about `Dispatcher`):

* `TypeCorrect`.
* `WakeupsAreKept`: `[]NoLostWakeup`. It speaks of the wait only. The strengthening
  `Announced` says that a task in the list is announced (by a byte in the pipe or a
  caller about to write one) everywhere except between the read of the byte and the
  swap in DoTask. That OnEvent reads one byte for any number of tasks, and that a full
  pipe refuses bytes, is harmless exactly for this reason.
* `TasksInOrder`: `[]TaskOrder`, with `func_vec` empty outside the run of tasks.
* `StoppedStayOut`: `[]StopWins`. It needs that ids are handed out once and are unknown
  to the program until their AddTimer has been posted (`IdsFresh`), that each add was
  posted before every stop of its id (`AddBeforeStop`), and the order of tasks.
* `WheelIsOwned`: `[]WheelInMap`.

`TimerProofs` (about `Bitmap` and `TimerWheel`):

* `SummaryStaysUsed`: `[]SummaryIsUsed`, which is inductive once `bm` is known to be a record
  of its four fields. `Clear` zeroes words it computes wrongly, but it empties the whole
  summary, and so cannot break it.
* `SearchesAdvance`: `[]SearchAdvances`. In each of the four ways through GetMinAfter the
  result is not before the index. It needs the summary: a later word that it names has a
  bit, and a later word begins behind the index.
* `FlagStaysTelling`, `FiresOnlySet`: `[]FlagTells` and OnlySetTimersFire, with any time
  between two calls of TimerRun. TimerRun is one step of the model but many of the
  code, and in the middle of it FlagTells is false: timers are in the lists it collects
  and on no wheel. The invariant is therefore stated with the timers in hand: `Filed(s, H, O)`
  says that every timer that is set, except those of `H`, has one entry, and that only
  timers of `O` are set. What the members say is stated from the entry (`Fits`: `_cur_index`
  is SetCurIndex of the bucket) and not the other way round, since a bucket that runs into
  the type bits cannot be got back from the word; below them it can (`IndexComesBack`, with
  `DivUnique`). Each operator has a lemma:
  GetIndexTimer moves timers from a bucket into `H` (`GrabKeeps`), so does the loop over
  the buckets (`CollectKeeps`); re-arming and cascading file one timer of `H` again
  (`AddFiles`, `AgainFiles`, `InnerAddFiles`), and DoTimer leaves none (`DoTimerKeeps`). The
  two loops are shown by the least number of rounds, or of timers, that would break it.
  With `owned` for `O` this gives FlagTells, with the timers set at the call for `O`
  OnlySetTimersFire. StopTimer needs less: RmTimer, wherever it looks, touches no other
  timer (`RmRemoves`), and the destroyed event has no entry that counts (`DestroyedIsGone`).
  The lemmas leave open what the bitmap returns, so the theorems hold although
  its search is wrong (section 7): it can make a timer late, but never misfile one.

`ConnectionProofs` (about `Connection`), for programs that do not call Write or Close in a
disconnect callback (`~EndsInDisconnect`; with such calls DisconnectOnce is false, see
section 7):

* `Inductive`: `[]IndInv`. A connection is alive, telling the program of its end, or gone
  (`Stages`); the bits of `_event_type` follow the mask of epoll (`Masks`); before it is
  open nothing is registered (`Early`); bytes in the kernel or in the cache have an edge
  that is on the ready list, still due, or in the events just taken (`Kept`).
* `DisconnectsOnce`, `ClosedIsNotified`, `EdgesAreKept`: DisconnectOnce, NotifiedIffClosed
  and NoLostEdge follow from it. The first needs the stages because three handlers may find
  the end, one after the other, in one event.
* `ReadsAreFirst`: the action property ReadsComeFirst. Handlers append to the list of
  calls; a read is only appended before the disconnect, because a handler that has found
  the end leaves `_shutdown` or the callback behind, or else the descriptor is closed and
  its number stands for something else (`RecvTells`).

`PoolProofs` (about `BlockPool` and `PoolAlloter`):

* `BlocksArePartitioned`: `[]BlocksPartition`, inductive together with: no block has two
  holders.
* `BlockPoolRefines`: `BlockSpec => BlockPoolIsAllocator`.
* `PiecesArePartitioned`: `[]PiecesPartition`. The invariant `PoolInv` says it list by list:
  every node of the list of a class lies in a chunk, at a multiple of the class's size, no
  address is in two lists or in a list and in use, large objects lie apart from the chunks.
* `PoolRefines`: `PoolSpec => PoolIsAllocator`. The region a caller gets is apart from every
  region in use because nodes of one chunk are of one class.

`ReactorProofs` (about `Reactor`):

* `Inductive`: `[]IndInv`. `Listed` and `Registered` say it for one descriptor: its list has
  the reading event of its client and a writing event for each chunk not yet sent, the entry
  of the epoll set asks for just those types and points into the list. `Batch`: entries
  still to be handled are of different descriptors and point into their lists, except that
  of the descriptor whose reading half is done.
* `EventsStayLive`, `ChunksAreAccounted` follow. A descriptor that is closed in the batch
  and accepted again has one entry in it at most, and that one is the current one.

`LoggerProofs` (about `Logger`):

* `Inductive`: `[]IndInv`, in six parts: where each thread may be (`Places`), who holds a
  block besides whom (`Owners`), cache and holders make up the allocated blocks
  (`Accounts`), who is past FormatLog has a line in his block (`Texts`), and the queue
  continues the handled lines (`Order`). The size of the cache that FreeLog reads and
  then relies on does not occur in it: the race makes the cache longer, nothing worse.
* `BlocksStayAccounted`, `LinesStayIntact` follow. The second needs the first: a block is
  written again only after its last holder let it go.
* `FilesStayTold`: `[]FilesTell`, when `max_store_days` is never 0 (`0 \notin StoreDays \cup
  {MaxStore}`; with 0 it is false, section 7). Its own invariant `Files` says that the
  history ascends to `_time`, the date of the last handled line, and that the file of
  `_time` is the open one if it is on disk: so a new date has no file yet and an old one
  gets no more lines. That is where the order of the dates is needed.

`UvProofs` (about `HeapOps`, `MCUvServer` and `UvServer`):

* `HeapsAreKept`: `[]HeapsStayHeaps`, for heaps of any size and any keys. A sifting loop is
  its path, the places it writes: `UpPathGoesUp` and `DownPathGoesDown` say what the loop
  has compared along it, and `ShiftUpRight`, `ShiftDownRight` that a heap with a hole becomes
  a heap with the node in it (`Hole`, `Placed`). Going down, the lesser child must move up,
  and a node that goes up must pass every ancestor that is greater; the hole of
  minheap_erase may need either, which is what `Settle` decides. Every node keeps knowing its
  place because the path has no place twice.
* `UvInductive`: `[]UvInv`: types and the heap is one (`Types`), its nodes belong to
  connections not yet freed and every open one has its node (`Places`), only connections
  that are open or in shutdown are read (`Readers`), and ClosedOnce.
* `NodesStayLive`, `ClosesOnce` follow.
* `TimerStaysExact`: the action property TimerIsExact, when the loop starts with a time-out
  (`InitTimeout > 0`; without one it is false, section 7). uv_tcpserver_ontimer pops nodes
  while the first is too old. After each round the nodes popped so far are too old (`Popped`),
  and since the first node of a heap has the least key (`FirstIsLeast`), those that stay when
  the loop ends are not.

Only model-checked: all liveness (StopEnds, PostedRuns, ArrivedIsRead, FullCacheDrains,
PushedIsHandled, ShutIsClosed, GoneIsClosed, ReceivedIsAnswered), which the prover does not
treat. Every other property of a passing run is a theorem.

## 7. Known deviations

Besides the finding of `timer_fire`, the modules state sentences of the documentation,
and expectations of a user, that do not hold. To reproduce one, put it in place of the INVARIANTS and PROPERTIES of the
configuration named.

| Property | Configuration | Source | What happens |
|---|---|---|---|
| RemovedStaysRemoved | `MCDispatcher` | `dispatcher.cpp:176` | StopTimer on the I/O thread acts at once, the AddTimer of another thread is still a task: the timer is added after its removal (RemoveTimer, `doc/api/api.md:126`) |
| FoundIsBeginning | `MCBufferBlock` | `buffer_block.cpp:433` | FindStr returns the length up to the end of the string, which ReadUntil needs; both documents say "Returns the index found to the beginning of a string" (`doc/api/api.md:250`, `doc/api/api_cn.md:250`) |
| FoundIfThere | `MCBufferBlock` | `buffer_block.cpp:433` | each segment is searched by itself: a string across the wrap is not found |
| LengthIsCounted, NothingReadNothingLost | `MCBufferQueue` | `rw_socket.cpp:277` | readv finds nothing and its -1 goes to MoveWritePt: the newest byte is taken back and `_can_read_length` grows by one (`buffer_queue.cpp:272`) |
| FoundInQueue | `MCBufferQueue` | `buffer_queue.cpp:413` | FindStr adds up the lengths of blocks without the string and returns the sum although no block has it; ReadUntil then reads (`doc/api/api.md:229`) |
| PeerCloseNotified | `MCConnection` | `rw_socket.cpp:294` | the peer's FIN is there before the readv that takes its last bytes: the short read ends the loop, the edge is used up, EPOLLRDHUP is not requested, and no disconnect callback comes (`doc/api/api.md:67`) |
| MinAfterIsLeast | `MCBitmap` | `bitmap.cpp:110` | when the word of the index has no later bit, `log2f(x + 1)` names a bit that is not set ("get min index after input param", `bitmap.h:31`) |
| EmptyIsEmpty | `MCBitmap` | `bitmap.cpp:129` | Clear computes the word with the same formula, zeroes another one and leaves bits set |
| MinTimeTells | `MCTimerWheel` | `timer_container.cpp:112` | -1, "has no timer", while one is due now or shares a cleared bucket; `epoll_wait` then has no timeout |
| BucketsOnWheel | `MCTimerWheel` | `timer_container.cpp:168` | a dispatcher without timers waits without limit (`dispatcher.cpp:73`); TimerRun takes one turn off `_cur_time`, which stays beyond the wheel, and the next timer is put into a bucket the bitmap does not have |
| MembersName | `MCTimerWheel` | `timer_slot.cpp:65` | from 1024 on (some 17 minutes) the index runs into the type bits; RmTimer looks on another wheel or in another bucket |
| PeriodicAgain | `MCTimerWheel`, LeftToRight = TRUE | `timer_container.cpp:311` | a periodic timer stops being periodic with compilers that evaluate arguments from left to right |
| NeverEarly | `MCTimerWheel`, module TimerClock, ClockSpec, no SYMMETRY | `timer_container.cpp:227` | the time since the last TimerRun is taken off the interval of a new timer |
| WriteLenPositive | `MCConnection` | `rw_socket.cpp:338` | EPOLLOUT stays in the mask, an event with nothing to send makes a write callback of length 0 |
| LengthTells | `MCConnection` | `rw_socket.cpp:277` | bytes that fill the buffer exactly: the -1 of the next readv takes back the last byte and adds one to the length |
| WriteFailsWhenFull | `MCConnection` | `epoll_action.cpp:101` | Write returns false for bytes that it keeps and sends, because ET_WRITE is set from an earlier one |
| CloseIsNotified | `MCConnection` | `epoll_action.cpp:249` | Close in the accept or connect callback finds the descriptor unregistered, does nothing, and makes every later Close do nothing |
| NoReadAfterDisconnect | `MCConnection` | `rw_socket.cpp:270` | a stale event of a closed connection, or a handle in the same batch, whose number accept has given out again: Recv reads the bytes of the other connection, or gets EAGAIN, and calls the read callback (`doc/start/quick_start.md:42` has the context destructed in the disconnect callback) |
| EarlyIsRead | `MCConnection` | `rw_socket.cpp:186` | bytes that arrive before the connect callback wait for the recheck timer, which `timer_fire` shows may be forgotten |
| SuccessIsConnected | `MCConnection` | `socket.cpp:43` | SO_ERROR is also 0 while connect() goes on; the recheck after two seconds reports success |
| WantedIsArmed | `MCConnection` | `rw_socket.cpp:163` | AddTimer is ignored once a one-shot timer, or the recheck of connect(), has fired, since `_timer_id` is never reset |
| EventIsLive | `MCConnection` | `epoll_action.cpp:318` | a callback earlier in the batch closed and released the connection; its Event is deleted when OnEvent reads it |
| DisconnectOnce | `MCConnection`, EndsInDisconnect = TRUE | `rw_socket.cpp:235` | `_shutdown` is set after the callback, so that a Write or Close in it disconnects again |
| StopLosesNothing | `MCLogger` | `file_logger.cpp:60` | the loop ends at the next test of `_stop`; lines still in the queue are dropped |
| LenInBlock | `MCLogger`, Lens = {4} | `base_logger.cpp:42` | vsnprintf returns the length the line would have had; `_len` then exceeds the block, and as many bytes are written to the file |
| RecentIsKept, OpenIsThere | `MCLogger`, MaxStore = 3, StoreDays = {2}, MaxLines = 3, MaxLevels = 0 | `file_logger.cpp:130` | a line of the old date behind one of the new puts a date into the history twice; the older entry later removes a file that is recent, or open |
| FilesTell | `MCLogger`, MaxStore = 0 | `file_logger.cpp:118` | the new name goes into the history, expires at once, and then the file is made: it has no entry, and nothing removes it |
| EmptyReadKeeps | `MCUvServer` | `libuv-lua/src/tcpserver.c:210` | nread = 0, which libuv reports for EAGAIN, shuts the connection down |
| TimerIsExact | `MCUvServer`, InitTimeout = 0 | `libuv-lua/src/tcpserver.c:168` | without a time-out the times are not kept up; after set_timeout connections count as idle that are not |
| ShutIsClosedAnyway | `MCUvServer` | `libuv-lua/src/tcpserver.c:101` | a connection that is shut down is still read; if its answers go on being queued, the queue is never empty and the shutdown never carried out |
| SentInOrder | `MCReactor` | `reactor_thread2.c:261` | a new event goes to the head of the list: of two chunks that wait, the later is sent first |
| ServerSurvives | `MCReactor` | `reactor_thread2.c:159`, `:477` | a signal during epoll_wait gives EINTR; the code tests for EAGAIN and reactor_run returns, although the comment at line 158 says that it goes on with epoll_wait. EPIPE comes with SIGPIPE, which nobody ignores |
| AnsweredBeforeClose | `MCReactor` | `reactor_thread2.c:413` | a client that ends its side before it reads its answer is closed, and the waiting events with it |
| GoneIsClosed without `<>[]~again` | `MCReactor` | `reactor_thread2.c:405` | recv returns 0 and leaves errno alone; if that is EAGAIN the client is never closed and the loop spins |

Read in the code and not stated as properties: a client of the reactor that goes on
sending keeps its earlier chunks waiting for ever, since the newest chunk is put at the
head (`reactor_thread2.c:256-265`) and the first is sent (191-196), which a bounded number
of chunks cannot show; a send that takes only a part of a chunk frees the event and loses the
rest (467-472), although the comment at 470 speaks of all data sent; a file that could not be opened is not
tried again before the next date; the history of files is in memory only, so a restarted
program never removes older files; Start after Stop does not restart the logger;
`Expansion` puts a null pointer into the vector when malloc fails; PoolAlloter computes
the index -1 for size 0; an echo inside the onconn callback of the libuv server is
dropped, because its node is not in the heap yet; `set_timeout` without a positive value
stops the timer and leaves `idle_timeout`; the reactor has 1024 lists and does not test
the descriptor; a chunk with a zero byte is cut by strcpy, and one that fills the buffer
has its terminating zero written behind it.

## 8. What is not modelled

* **Kqueue and Windows** variants: the same structure over other system calls; wepoll is
  third-party.
* **Logger**: log.cpp, which forwards to the logger it is given; the text of lines;
  `thread_safe_unordered_map.h`, a map behind a mutex for the IOCP build.
* **libuv-lua**: the `__gc` of the server (the loop has ended then), timer.c, which wraps
  one uv_timer, the byte buffers of automem.c and the decoders, which are data formats.
* **Reactor**: init_server and main, which set the listening socket up; the earlier
  reactors (`reactor_thread.c`, `reactor_thread.cpp`).
* **Several sockets of CppNet at once**: one connection is modelled, others appear as
  callbacks in which the program uses the handle it kept, and as what the number of the
  closed descriptor stands for. What a stale RWSocket of another connection does to this one
  (reads its bytes, closes its descriptor, takes it out of the map by number) is left out.
* **Facade**: Init, Join, the random choice of a dispatcher, `SO_REUSEPORT` sharing.
* **Epoll failures of CppNet, which only log** (epoll_create, pipe, epoll_wait). That of the
  reactor is modelled (`Interrupted`).
* **Timer callbacks in the middle of DoTimer**, in TimerWheel; Dispatcher has them with an
  abstract wheel.
* **Example programs**, the other C/C++ trials, Lua scripts and Python tools of the
  repository: see the components in `PROJECT.json`. libuv but for the three calls that
  `UvServer` models, Lua, LuaBitOp and luagbk,
  which make up most of the lines of the repository, are third-party or tables.

## 9. Plan

Order: what every connection depends on came first. Done: block, queue, dispatcher,
bitmap, timer wheel, connection, pools, logger, reactor, libuv-lua server; theorems for
every safety property that a passing run checks.

Models next:

1. `Server`: several connections, listener, maps and descriptors that are used again,
   composed from Connection and Dispatcher; then the kqueue variant.
2. `HeapTimer` and `RingBuffer` (`src/c-c++test/timer.cpp`, `auto_buffer.cpp`).
3. The Lua time-out manager and coroutine tool, the Python timer manager.

## 10. Running it

In this directory: `tlc -config <run's cfg> <run's module>` for the runs of
`PROJECT.json`, `tlapm <module>` for each of the eight modules named `…Proofs`. The longest
runs are `connection`, `logger` and `reactor` (300 000 to 600 000 states, two to three minutes each); the
longest proofs, `BlockProofs`, `LoggerProofs` and `PoolProofs`, take some minutes each.
