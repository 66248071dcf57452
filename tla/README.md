# A TLA+ development for cpp-server-framework

This directory models the framework in TLA+, checks the
models with TLC on small instances, and proves with TLAPS, for every size, the
safety properties of the thread pool, the server, the connection, the client,
the logger, the framing of packets, the timers, the event loop, the gateway, the
hub, the monitor and the pools. `PROJECT.json` is the index: components, runs, the
source lines behind each definition, hazards, findings and theorems.

The reference is the code on Linux. Some of it does not compile as committed
(`ThreadPool::append` emplaces a lambda in a queue of `TaskPtr`, the examples
call `Logger::init` with a signature it does not have, object_pool.h:193 does not
parse, and the templates of `SubscribeHub` fail when they are instantiated, since
`AnyCallback` has no `first` and `second` and `<any>` is not included); where the
intent is clear the models follow it. In particular, `append` is read as wrapping its
callable in a `Task` of priority NORMAL, which is what `worker_loop` needs, and an
element of `callbacks_` as an id with its callback.

## 1. Inventory

| part | state | operations | runs beside | what is hard about it |
|---|---|---|---|---|
| `core/threadpool`, `core/task` | `tasks_`, `stop_`, `shutdown_done_`, mutex, condition variable | `append`, `append_priority`, `worker_loop`, `cancel`, `shutdown`, `shutdown_now` | workers, clients, an owner | lost wakeups, order, draining, stopping in two ways |
| `network/tcp` server | `connections_`, `running_`, `server_sock_`, `next_session_id_` | `accept_loop`, `heartbeat_loop`, `stop`, `close_session`, the close callback | accept, heartbeat and read threads, callers | three ways to remove a session, a stop during an accept, idle times |
| `network/tcp` connection | `closed_`, `sock_`, `write_queue_`, `read_buf_` | `send_packet`, `write_loop`, `read_loop`, `close` | reader, writer, senders, closers | unlocked flags, partial sends, descriptor reuse |
| `network/protocol` | none | `encode`, `peek_packet_length`, `decode_from` | the read loop | packets cut and glued by TCP |
| `base/timer` | `items`, `pending_add`, `next_id`, `running` | `add`, `add_repeating`, `cancel`, `start`, `stop`, `thread_loop` | clients, the timer thread | two locks, a racy id, cancel against firing |
| `base/logger` | `queue_`, `dropped_`, levels, `running_` | `write`, `enqueue`, `log_thread_loop`, `flush`, `shutdown` | callers, the log thread | a flush that takes the thread's work, the end |
| `network/tcp` client | `sock_`, `connected_`, `running_`, two queues | `connect`, `disconnect`, `reconnect_loop`, `send`, the I/O loops | three threads, callers | reconnecting, disconnect against reconnect |
| `network/codec` | `buffer_` | `encode`, `try_decode` | one thread | the checksum, resynchronising after a bad one |
| `base/event` | `timers_`, `pending_tasks_`, `fd_handlers_` | `run`, `stop`, `push_task`, `add_timer`, `cancel_timer`, the fd calls | the loop, callers | tasks pushed during a batch, ids counted and a table changed without a lock, reused descriptors |
| `business/session`, `business/router`, `example/gateway` | sessions, routes | `add`, `remove`, `heartbeat`, `kick`, `cleanup_timeout`, `route` | handlers, the server's callbacks | check, then act in a second critical section |
| `base/message_queue` | queue, subscribers | `send`, `recv`, `publish`, `subscribe` | producers, consumers | notifications, callbacks under a lock |
| `base/object_pool`, `base/memory`, `db` | free lists, idle connections | allocate, deallocate, `get_connection` | callers | exhaustion, lending twice |
| `core/monitor` | atomic counters, `logging_` | `on_connect`, `snapshot`, the logging thread | callers, the logging thread | a peak and snapshots without a lock |
| `base/config`, `base/process`, `base/lock`, `base/time`, `adapter` | none of their own | parsing, wrappers | - | nothing a model checker reaches better than a test |

How they interact: `TcpServer` creates one `TcpConnection` per client and keeps
it in `connections_`. The connection's read thread cuts the stream into packets
with `network/protocol` and calls the message handler, which in the gateway
submits a job to the `ThreadPool`; jobs route by command and answer through
`send_packet`, which the connection's write thread sends. Every part logs through
`Logger`. The event loop, the single-threaded timer, the message queue, the
pools, the codec and the monitor stand by themselves: no other part of the
repository uses them.

## 2. Plan

Modelled, the most important behaviour first: the thread pool with its abstract
specification `JobLedger` and its proofs; the server's map of sessions; the
connection's write path and descriptor; the framing of the byte stream; the
timers; the logger; the client; the codec; the gateway over the abstract pool;
the event loop; the pools against one abstract specification, `Lending`; the
message queue and the hub; the session manager; the monitor.

Proved: every safety property of the runs but `CodecSound` (section 6). The
operators that compute with a loop (`Bytes`, the heap of `TimerHeap`, the scan for
what is due) are recursive functions over the number of turns, so that the proofs
can reason about them.

## 3. Modules and their code

Conventions. A variable or operator that stands for a member or a function has
its name. A critical section is one action when nothing inside it can be
observed by a thread that does not take the mutex; where a flag is read or
written without the mutex, the section is cut at that access. Variables marked
*history* record what happened for the properties and are never read by a
guard. Definitions marked *Fault* are variations of the definition that follows
them, as a plausible bug would have it; no specification uses them, and for
every property there is one under which it fails.

**ThreadPool** (`thread_pool.cpp`, `thread_pool.h`, `task.h`). `pc` and `held`
are a worker's place in `worker_loop` and its local `task`; `client` is between
the critical section of a submission and its `notify_one`; `owner` is in one of
the two shutdowns. A worker that finds the wait's predicate false keeps the
mutex until it is on the wait set (`TestFails`, then `Block`), because `stop_` is
stored without the mutex. Wakeups may be spurious. `JobLedger` says what the
pool promises without queue, threads or locks.

**TcpServer** (`tcp_server.cpp`, and `is_idle` and `read_loop` of
`tcp_connection.cpp`). The heartbeat keeps `conn_mutex_` over its scan, and `is_idle`
is two steps (the clock, then the subtraction modulo `TickMod`), because the read
thread stores `last_recv_time_` meanwhile. `recv` on the non-blocking socket may fail
at any time (`RecvNothing`). `since` is the clock at the beginning of a scan. The
select variant for Windows, a second `start`, and `broadcast`/`send_to`, which only
call `send_packet`, are out.

**TcpConnection** (`tcp_connection.cpp`). `close()` is cut at each access to the
unlocked `closed_` and `sock_`, and a thread that makes a system call first loads
`sock_` (`Load`) and then makes the call with what it has loaded, which may be stale
by then. `fd` says whose socket the descriptor number names: once closed, the kernel
may give it to another connection (`Reuse`). A call of the public `send_raw` from
another thread (API.md:1325) is not modelled: it would put its bytes between those of
the write thread.
Packets are sent in `Units`, so that `send` may take a part of one or fail.

**TcpClient** (`tcp_client.cpp`). The owner, the reconnect thread, the reader and
the writer each have a place in `tpc`; `sock_`, `connected_` and `running_` have no
lock and every access to them is a step. Sockets are numbered, `open` are the
descriptors not yet closed, `rsock` is the one a blocking `recv` sleeps on, and
`wire` is what has left, in units. `raced` remembers that `disconnect` began while
the reconnect thread was inside `try_connect`, `retried` that the thread has tried at
all. The numbers of `MaxSocks` descriptors are all that the process has: one that was
closed is given out again, and with none left `socket` fails.

**PacketStream** (`packet.cpp`, `process_read`, the client's `read_loop`). Bytes are
modelled as bytes: the length field is a conversion and is modelled by what it
does, byte by byte (`htonl`, `htons`, and `peek_packet_length`, which undoes the
first). The peer sends packets made by `encode`, `Bytes(n)` are the bytes of its
first `n` packets; `recv` returns any number of bytes up to `MaxRecv`; `side` says
whether the server's or the client's parser reads. `LengthFits` is the one thing
asked of a packet: that its length does not overflow the 32 bits of `total_len`.

**Codec** (`codec.cpp`). A byte is the set of its bits and the CRC is the real one,
table and all, because what it covers decides what `try_decode` accepts.
`MAX_PACKET_SIZE` is 10 MB in the code and scaled down to 4000 in the runs, so that a
length read at a wrong place lies on both sides of it: the decoder then waits for more
or clears its buffer, and has to go on from there. `MCFraming` has both formats, one
per behaviour.

**TimerHeap**, **TimerLoop** (`timer.cpp`). The library's `push_heap` and
`pop_heap` are spelled out (external), since `thread_loop` calls `push_heap` once
for a batch and what the library does with a vector that is no heap decides what
fires. `UpTurn`, `DownTurn` and `ScanTurn` are one turn of the loops of `push_heap`,
of `pop_heap` and of the scan that takes out what is due; the loop is as many turns
as the vector is long, since a turn behind the last one changes nothing.
`next_id` is incremented with no lock, so an increment is a load and a
store. The sleep only delays the thread: it ends at an arbitrary later moment.

**Logger** (`logger.cpp`). An entry is its caller, its number among all entries and
its level. The wait of
the log thread has a timeout, so it may end at any time and the notification is
not state. `current_log_path_` is assigned nowhere, so the thread writes to the
console only. Formatting, colours, and `check_rotate` and `compress_old_logs`,
which nobody calls, are left out, and so is a second `init`.

**EventLoop**, **FdHandlers** (`event_loop.cpp`). Timers and tasks of the loop, over
`TimerHeap`. Any thread pushes tasks and adds and cancels timers, with a delay of 0
too; the loop's own does so in its callbacks. `timer_id_counter_` is no atomic and is
counted up outside the mutex, by `add_timer` (`adding` is where each call is) and by
`process_timers` (`nid`): a load and a store, so that the counter may go back and two
timers have one id. `epoll_wait` is called with room for no event, so the loop neither
sleeps nor sees a descriptor. `FdHandlers` keeps `fd_handlers_` beside the interest list
of epoll, from which the kernel takes a descriptor that is closed. `add_fd`, `del_fd`
and `mod_fd` have no lock: `call` is where each caller is between its accesses, and
`raced` are the descriptors on which calls have overlapped since the last `del_fd` that
met no other. What a race does to the `unordered_map` itself is left out.

**Timer** (`timer.cpp`). `add`, `add_repeating`, `cancel`, `clear` and `poll` of a
single thread. `MCTimers` runs `EventLoop`, `FdHandlers` or `Timer`, one per
behaviour.

**Gateway** (`gateway.cpp`, `router.cpp`, `TcpServer::send_to`). The pool is
`JobLedger`, the abstract specification that `ThreadPool` is proved to implement; a
packet is a job. Jobs hold the mutex of `Router` while their handler runs. `main`
lists the mutexes that the report of the main thread still takes, the first one
being held (the gaps between its critical sections, where it holds none, are no
states of their own: a signal there meets a free main thread, as it does between two
reports); a signal runs its handler on top of it. `missed` records that `shutdown` lost its
notification (finding 1).

**SessionMgr** (`session_mgr.cpp`). One action per critical section; only
`cleanup_timeout` has several. `born` and `known` tell a session from an earlier one
with the same id. `MCGateway` runs it beside `Gateway`, which never fills it. `MCServer` runs one of
the two, `TcpConnection` or `MCFraming` per behaviour.

**ObjectPool**, **MemoryPool**, **ConnectionPool** against **Lending**. `Lending` says
that an item has one holder at a time. `ObjectPool::allocate` is three critical
sections; `MemoryPool` models the links inside the blocks as a function on
addresses, with an address between chunks that belongs to none, and has `pre_allocate`
as the constructor calls it (it is public and unlocked; other calls are left out);
`ConnectionPool` has no operation that takes a connection back. `Pools` puts the
three side by side; they share nothing.

**MessageQueue**, **SubscribeHub** (`message_queue.h`). `recv` with and without a
timeout and spurious wakeups; `subscribe` draws its id in two steps without the
mutex; `publish` calls one subscriber per step with the mutex held.

**Monitor** (`monitor.h`, `monitor.cpp`). Each access to an atomic is a step. The
logging thread loads the counters one by one. `Observers` puts the hub and the
monitor side by side, which share nothing either. `MCStores` runs one of the three
pools of `Pools`, the queue, the hub and the monitor per behaviour.

## 4. Runs

Distinct states are those of two TLC workers; every run ends within three minutes.

| run | instance | states | shows |
|---|---|---|---|
| `threadpool` | 2 workers, 1 client, 1 task, 2 closures | 264,080 | `QueueOrdered`, `NoLostJobWakeup`, `ShutdownDrains`, `ImplementsLedger`, `PoolServes` (early jobs settle; `shutdown_now` returns; `shutdown` returns if no worker is between its test and its wait) |
| `threadpool_shutdown` | 2 workers, 1 closure | violation | `ShutdownReturns` fails: finding 1 |
| `tcpserver` | 2 sessions, clock 0..1, timeout 0 | 106,325 | `MapSound` (open sessions are in the map, ended ones are not), `StopLeavesAtMostOne`, `IdleSwept`, `SessionsEnd` (a close is reported; a session whose client has gone ends) |
| `tcpserver_idle` | the same | violation | `OnlyIdleClosed` fails: finding 3 |
| `tcpclient` | 2 messages of 2 units, 2 sockets, 1 `connect` | 273,305 | `WireInOrder`, `DisconnectLeavesNothing`, `DisconnectReturns`, `Reconnects` |
| `server` | 2 sessions of the gateway with a packet each, 2 commands; 3 sessions of the manager, clock 0..2; a connection with 3 packets of 2 units, 2 reuses; up to 3 packets in either direction, or 2 of the codec | 159,277 | `RepliesRight`, `GatewayServes`, `CleanupJustified`; `StreamFraming`, `StrayOncePerThread`, `WriterServes`; `DeliveredAsSent`, `DeliveredPromptly`, `CodecSound` |
| `codec_roundtrip` | 1 packet of the codec | violation | `RoundTrip` fails: finding 2 |
| `timerloop` | 2 clients, delay 1, clock 0..2, 2 starts | 287,523 | `EntryConserved`, `FiresRightly`, `TimerLoopServes` (timers fire; `stop` returns) |
| `eventloop` | 2 timers, delays 0 to 2, clock 0..1, 2 runs, or 1 timer with 2 tasks; 1 descriptor, 2 handlers, 3 callers; 3 ids of `Timer` | 216,296 | `TasksInOrder`, `TimersRightly`, `LoopServes`, `HandlersAgree`, `PollFiresDue` |
| `eventloop_add_fd` | 1 descriptor, 2 handlers, 2 callers of `add_fd` | violation | `AddsLocked` fails: finding 4 |
| `logger` | 2 callers, 3 entries, queue of 2, 2 levels | 179,168 | `Accounted`, `ConsoleInOrder`, `ShutdownFlushes`, `LoggerServes` |
| `stores` | chunks and blocks of 2 and 3, 3 threads; 3 connections, 2 queries; 3 messages, 2 receivers; 3 subscribers; 2 callers of the monitor | 127,192 | `FreeListsSound`, `NullOnlyIfDrained`, `ImplementsLending`, `NoSleepOnMessages`, `SilentAfterUnsubscribe`, `MonitorAgrees` |

The modules' `TypeOK` is a part of one of the properties of their run.

**Why the bounds are enough.** The races of the pool need one worker asleep or about
to sleep and another awake, a submission under way, and a queue that holds a HIGH and
another job; the proofs remove the bound for safety. A race over the server's map
involves one session and its threads; the second session is there for the scan of the
heartbeat and for a connection in the hands of the accept thread while another is in
the map. The timeout 0 with one tick makes connections idle, and lets
`last_recv_time_` overtake the tick that `is_idle` has read. Packets of two units can
be cut once, and three of them have a first, a middle and a last; a descriptor that
is given away twice can be met by two threads. The client's two sockets are one lost
and one made again, and then none is left. Up to three packets, one of them empty of
data, in reads of one byte up to all of them, contain every cut inside the length,
the command and the data. The codec's packets are two that `try_decode` accepts and
two that it does not; behind one of the bad ones it waits, behind the other it clears
its buffer and decodes the packet that follows. Two timers have every order of
adding, firing and cancelling, over one restart, and can get one id. They are too few
for a vector of `TimerLoop` that is no heap, which takes three: its safety is proved
for any number, its liveness is checked for two. `Few` in `MCTimers` keeps the event
loop to one timer in a behaviour with tasks, since tasks and timers meet only in the
order of the loop's steps. Three calls on a descriptor can overlap pairwise, the last
one behind the first. Three log entries overflow a queue of two. Two sessions of the
gateway can be answered for each other's packets, whose jobs run at the same time;
LOGIN is handled like DATA. Three allocating threads can take both slots of a new
chunk from the one that made it. Three subscribers can share an id and leave one that
does not.

**Deadlock.** The programs may stop: everybody has left, the clock is at its
bound or the peer has nothing to send. `CHECK_DEADLOCK FALSE` is set for those;
in `Logger` the levels can always be set and deadlock is checked.

**Fairness.** A thread that can run does (weak fairness of its steps). A thread that
waits for a mutex gets it if it is free again and again (strong fairness of the
acquiring step), which the futex-based mutexes of Linux do not promise strictly but
give in practice. System calls return; `recv` on a connection whose peer has gone or
which was closed does not return data for ever; jobs and callbacks return; `wait_for`
times out; the clock advances up to its bound; an attempt of the client to connect
that is repeated for ever succeeds in the end. That the client's peers close in the
end is a premise of `DisconnectReturns` and no fairness. No caller is obliged to
begin anything: submissions, cancellations, stops, closes and flushes are never fair,
except that a call once begun goes on.

## 5. Findings

1. `ThreadPool::shutdown` may never return. It stores `stop_` and notifies
   without `queue_mutex_`, so a worker between its test and its wait misses the
   only notification. `shutdown_now` is safe because of the critical section
   between its store and its `notify_all`, and `shutdown` is when no worker is in
   that window (`PoolServes`).
2. What `Codec::encode` makes is not what `try_decode` accepts: the checksum is
   computed before the header is filled in and checked after. For every command
   and payload one sequence number happens to agree. With such packets the
   decoder is right (`CodecSound`).
3. The heartbeat may close a connection that has just received data. `is_idle`
   subtracts `last_recv_time_` from a time that it has read before; when data arrives
   in between, the unsigned difference wraps around (DESIGN.md:487 has it close what
   is over the timeout). What it must close it does (`IdleSwept`).
4. `add_fd` takes no lock, although API.md:748 says so ("内部加锁"): two calls that
   overlap leave epoll and `fd_handlers_` with different handlers. Without an overlap
   they agree (`HandlersAgree`).

Seen while modelling, without a run of their own:

- Thread pool: `queue_size_` is never read (DESIGN.md:426); LOW and NORMAL are not
  ordered against each other (DESIGN.md:438); a `Task` that throws ends the process.
- Server: `stop` can leave the one connection open that is being accepted, never
  more (`StopLeavesAtMostOne`); DESIGN.md:672 has it stop accepting first.
  `accept_loop` does not call `on_connected_` (API.md:1228), so the gateway never adds
  a session. A silent client is closed at once, for its socket does not block and
  `EAGAIN` counts as the end; TEST.md:996 has it closed after the timeout.
- Connection: one failed `send`, also with `EAGAIN`, ends the write thread and leaves
  the connection open, and `send_packet` goes on queueing. A thread can reach a
  descriptor of another connection: while some thread is between `close_socket` and
  the assignment to `sock_`, and once more with a number it had loaded before
  (`StrayOncePerThread`).
- Client: a reconnect starts no I/O threads; a `disconnect` during `try_connect` can
  leave a connection or wait for ever, and waits for a `recv` in any case; the old
  descriptor is not closed before a reconnect, so that a client which loses its
  connection often enough runs out of them (`Reconnects` has it as an exception); a
  message can be split over two sockets; the read thread's last store to `connected_`
  can undo a reconnect; `read_buf_` keeps the rest of the old stream; a second
  `connect` assigns to a joinable thread.
- Timers: `TimerLoop` calls `push_heap` once for a batch, so its vector need not be a
  heap and a timer that is due can wait behind a later one. A repeating timer has
  a new id after each firing, in all three classes; `TimerLoop::cancel` does not see
  a timer that is still in `pending_add`. `Timer::nearest_expire` can return a later
  time when the front is cancelled; what `poll` returns is right (`PollFiresDue`).
- Event loop: `epoll_wait` is given room for `events_.size()`, which is 0, so that no
  handler of a descriptor ever runs and the loop does not sleep; `data.ptr`
  overwrites `data.fd`; a `stop` before `run` is lost; `add_fd` refuses a number that
  was closed without `del_fd` (`HandlersAgree`). `timer_id_counter_` is counted up
  without a lock, although API.md:759 calls `add_timer` safe for threads: two timers
  can have one id, and `cancel_timer` may then mark the other one.
- Logger: `flush` returns while the log thread may still hold a batch, although
  logger.h:113 says that it blocks until everything is written; its lines never
  reach the console, and its file is the sink's path, of which `init` makes a
  directory. A full queue drops the newest entry, not the oldest TRACE or DEBUG
  (DESIGN.md:202).
- Pools: the `nullptr` of `ObjectPool::allocate` that "should not happen" can happen
  (object_pool.h:133; API.md:675 has it "永不为空", never null) when others drain the new
  chunk first (`NullOnlyIfDrained`); `clear` frees chunks under lent objects;
  `pre_allocate` warms one chunk whatever it is asked for. `MemoryPool` with
  `block_size` 1 sets `free_list_` behind the chunk. `ConnectionPool` takes nothing
  back: `execute_sql` uses one up and opens another of its own.
- Messages: `recv<T>` loses a message of another type; two subscribers can draw one
  id; a callback that uses the hub waits for itself.
- Sessions: `cleanup_timeout` removes a session whose heartbeat came after it was
  collected (`CleanupJustified`), and never one that is marked dead; `get` returns a
  pointer that another thread may free.
- Gateway: a signal that finds the main thread with a mutex of the server, the pool
  or the logger does not end the process (`GatewayServes`); a logout closes nothing.
- Monitor: the peak is that of all connections ever made, which is their total.

## 6. Proofs

A theorem holds for every value of the constants that satisfies the named
assumption of its module. The assumptions fix types (a bound is a number, a set of
callers is finite where it is counted, `None` is no descriptor and no handler) and, beyond that, only this:
`PoolAssumption` has a worker; `ServerAssumption` has the clock's range and the
timeout below the modulus of the subtraction in `is_idle`; `LoggerAssumption` has a
queue with room for one entry; packets and messages are not empty (`Units`);
`PoolsAssumption` has chunks of `MemoryPool` with at least two blocks, for with
one the statement is false (section 5); `StreamAssumption` has packets whose length
fits in its field. TLC evaluates all of them.

The heap facts that `TimerLoopProofs` and `TimersProofs` share are in `HeapProofs`.
Some modules hold the proofs of two parts that have nothing to do with each other.

| module | theorem | statement |
|---|---|---|
| `ThreadPoolProofs` | `TypeCorrect` | `Spec => []TypeOK` |
| | `Placement` | `Spec => [](OnePlace /\ HeldInv)`: no job is lost, duplicated or held by two workers |
| | `Ordering`, `JobWakeup`, `Drained` | `Spec => []QueueOrdered`, `[]NoLostJobWakeup`, `[]ShutdownDrains` |
| | `Refinement` | `Spec => ImplementsLedger` |
| `ObserversProofs`, on `TcpConnection` | `TypeCorrect`, `StreamFramed` | `ConnSpec => []TypeInv`, `[]StreamFraming` |
| | `StrayLimited` | `ConnSpec => StrayOncePerThread`, an action property |
| `TimerLoopProofs`, on `TcpServer` | `TypeCorrect`, `MapIsSound`, `StopLeavesOne` | `Spec => []TypeInv`, `[]MapSound`, `[]StopLeavesAtMostOne` |
| | `IdleAreSwept` | `Spec => IdleSwept`, an action property |
| `ThreadPoolProofs`, on `TcpClient` | `ClientTypeCorrect`, `WireOrdered`, `DisconnectClean` | `ClientSpec => []TypeInv`, `[]WireInOrder`, `[]DisconnectLeavesNothing` |
| `LoggerProofs` | `TypeCorrect`, `EntriesAccounted`, `ConsoleOrdered`, `ShutdownLeavesNothing` | `Spec => []TypeInv`, `[]Accounted`, `[]ConsoleInOrder`, `[]ShutdownFlushes` |
| `TimerLoopProofs`, on `TimerLoop` | `TimerEntryConserved` | `ThreadSpec => []EntryConserved` |
| | `ThreadFiresRightly` | `ThreadSpec => FiresRightly`, an action property |
| `TimersProofs`, on `FdHandlers` | `HandlersStayTogether` | `FdSpec => []HandlersAgree` |
| on `EventLoop` | `TasksRunInOrder` | `Spec => []TasksInOrder` |
| | `TimersFireRightly` | `Spec => TimersRightly`, an action property |
| on `Timer` | `PollRight` | `TimerSpec => PollFiresDue`, an action property |
| `GatewayProofs`, on `PacketStream` | `StreamFollowed` | `StreamSpec => []StreamInv` |
| | `PacketsAsSent`, `PacketsPromptly` | `StreamSpec => []DeliveredAsSent`, `[]DeliveredPromptly` |
| `GatewayProofs`, on `MCGateway` | `AnswersRight` | `MCSpec => []RepliesRight` |
| | `CleanupRight` | `MCSpec => CleanupJustified` (an invariant and an action property) |
| `PoolsProofs` | `ObjectPoolInvariant`, `FreeBlocksLinked` | `PoolsSpec => []ObjInv`, `[]MemInv` |
| | `FreeListsAreSound` | `PoolsSpec => []FreeListsSound` |
| | `NullMeansDrained` | `PoolsSpec => NullOnlyIfDrained`, an action property |
| | `PoolsLend` | `PoolsSpec => ImplementsLending`: all three pools refine `Lending` |
| `ObserversProofs`, on `Observers` | `UnsubscribedSilent` | `ObserversSpec => []SilentAfterUnsubscribe` |
| | `CountersRight` | `ObserversSpec => N!CountersAgree`, the safety part of `MonitorAgrees` |

`TypeInv` is `TypeOK` with the typing facts that make it inductive (a thread at the
place of a send has a packet in hand, and the like). Next to none of the other
invariants is inductive as it stands. What strengthens them, and why:

**Thread pool.**

- `MutexInv`: only a worker about to wait keeps the mutex between two steps, and
  then the queue is empty. Without it a worker could fall asleep on a full queue.
- `HeldInv`: a worker's place in the loop, the job it holds and that job's phase
  agree. `OnePlace` needs it for `Execute` and `Finish`.
- `ArrivalInv`: tickets handed out are below the next, and `append` makes no HIGH
  job. `QueueOrdered` needs it when a job is inserted.
- `StopInv`: a worker leaves only when `stop_` is set and no early job is queued,
  and `shutdown` returns only when all have left. `ShutdownDrains` follows.

The lemmas on the queue (`InsertionElements`, `ArrivalQueue`, `ArrivalMembers`,
`PopMembers`) say element by element what an insertion and a pop do. The
refinement maps a popped but not started job to "pending"; every step of the pool
then is a step of the ledger or leaves it unchanged. `Gateway` uses the pool through
`JobLedger`, so `Refinement` is what entitles it to that.

**Connection.** `StreamInv` says how far the write thread has come: `write_queue_` is
what is left of the accepted packets, `msg` is the one before them, and while the
descriptor is ours the wire has every packet taken except the rest of the one in hand.
`StreamFraming` alone says nothing of the packet in hand, whose next unit could
then be any. `StrayInv` is the invariant behind `StrayOncePerThread`: a descriptor that
is not ours is in `sock_` only while a thread is about to clear `sock_`; once it is
cleared nobody loads the number again, so that a thread that has used a stale one has
none left.

**Server.** `MapInv` adds to `MapSound` that no read thread runs before
`conn->start()`, so that nothing erases a session before it is inserted, and that a
read thread at its callback has closed its connection, so that what it erases is
not open. `StopInv` names the one connection that `stop` may leave: the last one made.
`ScanInv` follows a scan of the heartbeat: it holds `conn_mutex_` throughout, so that a
connection which is open has still to be looked at, is being looked at, or was not over
the timeout when the scan began.

**Client.** `WireInv` relates queue, message in hand and wire without mentioning
`sock_`: the order survives any number of lost sockets because it depends on none.
`StoppedInv` says that a `disconnect` which met no `try_connect` meets none later, so
that what it has undone stays undone until it returns.

**Logger.** `CountInv` is an equation: the entries made are those in hand, dropped,
queued, in the batch, logged and flushed; a step moves a number from one term to
another. `OrderInv` puts console, batch, queue and the entries in hand in a line;
`flush` takes from the queue only, so it leaves the order and makes a gap. `DownInv`
follows what `shutdown` has emptied.

**Framing.** `StreamInv` says that `read_buf_` holds the bytes of the peer that lie
behind the packets delivered (`Cut`), up to what has arrived, and that a reader that
goes back to `recv` does not have a whole packet there. The rest is what `encode` and
`peek_packet_length` do to bytes (`LengthBytes`, `CmdBytes`, `EncodeFacts`: a matter
of quotients and remainders by 256) and where the packets lie in `Stream`, which the
argument about the least number gives, as it does for `Nth` below.

**Heap.** `HeapProofs` shows for vectors of every length that the loops end within
as many turns as `TimerHeap` gives them (`UpEnds`, `DownEnds`, `ScanEnds`); that
`push_heap` and `pop_heap` permute whatever vector they get, and keep a heap one
(`PushFacts`, `PopFacts`); and that the scan parts the vector into what it fires, all
due and not cancelled, and the rest, of which, if the vector was a heap, none is due
(`PopDueFacts`). The invariants of the loops are `UpHeap` and `DownHeap`: the vector
is a heap but for one place.

**TimerLoop.** Its vector need not be a heap, and neither property needs it to be:
that the heap operations permute is enough. `ThreadInv` says where the entry of a
client can be (pending, in the heap, in the batch, in the hands of the thread), that
these exclude one another, and that an entry is marked exactly when a cancel found it
in the heap. Ids play no part in it, since two timers may have the same one.

**Event loop, descriptors, Timer.** `LoopInv` has the tasks numbered through what
ran, the batch and what is pending, and `timers_` a heap with one entry of each
timer, a marked one for each that was cancelled; what `process_timers` has taken out
is due, not cancelled and no longer in `timers_`. Nothing in it needs an id to be
new: only that a timer being added has no entry yet (`AddingInv`). `FdInv` says of a
descriptor on which no calls overlap that one call at most is under way, where that
call is and what it has done to the two tables (`Alone`), and of a stale one that it
is in `fd_handlers_` and not on the list of epoll. `PollInv` is that `items_` is a
heap whose ids are used once: with `PopDueFacts`, `poll` then fires what is due, in
order.

**Gateway and sessions.** `AnswerInv` adds that a job of a session that never
connected is new, so that a session that connects owes no answer, and that only a
job that ran was answered, so that none is answered twice. `SessionInv` keeps, for
every session collected and still there, that it was idle or was touched since
(`CollectedIdle`).

**Pools.** `ObjInv` places every slot (free, in a thread's hand or lent) and counts
what was popped since a thread grew the pool; `NullOnlyIfDrained` follows by
arithmetic. `MemInv` says there *is* a sequence of all blocks not lent that begins
at `free_list_`, follows the links and ends with 0; each operation shows the
sequence it leaves. `FreeListSound` follows the links by a recursive function, `Nth`:
`LinksFollowed` shows that it yields that sequence. The induction this needs is an
argument about the least number for which it fails (`LeastNumber`, from the theorems
on well-founded relations), first for the existence of the function and then for
its values. The theorems speak of `PoolsSpec`, where the pools run as they like; a
behaviour of the run, in which one moves and the others stay, is one of those, and
the same holds of `ObserversSpec`.

**Hub and monitor.** `HubInv` ties a subscriber's place to the entries of
`callbacks_` that have its id, as long as no other subscriber drew that id. `MonInv`
says that every number between the peak and the total is in the hands of a caller
that has yet to raise the peak to it; different numbers are in different hands, so
the total is ahead of the peak by no more than there are callers (`AheadOfPeak`).
With nobody inside `on_connect` no number is left, and the two are equal.

Only model-checked:

- every liveness property, since fairness and ENABLED are beyond the prover:
  `PoolServes`, `WriterServes`, `SessionsEnd`, `DisconnectReturns`, `Reconnects`,
  `LoggerServes`, `GatewayServes`, `TimerLoopServes`, `LoopServes`,
  `NoSleepOnMessages`, and of `MonitorAgrees` that `stop_logging` returns;
- `ShutdownReturns`, `RoundTrip`, `OnlyIdleClosed` and `AddsLocked`, which do not hold;
- `CodecSound`: the CRC of `Codec` is a fold over bits and bytes, and what
  `try_decode` accepts depends on its values, of which the prover can compute none.

## 7. Not modelled

`PROJECT.json` lists every component with its status.

- `base/config`, the wrappers of locks, time and system calls, and the test programs
  have no protocol. `SignalHandler` installs an empty handler and is used by nobody;
  the example server does a part of what the gateway does.
- `ProtoRegistry` and the codec's table of handlers, `MemoryPoolManager` and
  `Router::unreg` are tables under one mutex: each operation is one step.
- `send_raw` of a connection called from outside, `pre_allocate` called after the
  constructor, and what unlocked accesses do to the inside of `fd_handlers_`.
- A callback of `SubscribeHub` that uses the hub waits for a mutex its own thread
  holds; callbacks are assumed not to.
- The monitor's other counters are single additions; `refresh`, `to_json` and its
  HTTP server are input and output.
- Database statements and their results, formatting, rotation and compression of
  logs (the last two are called by nobody).
- Streams that `encode` did not make: the properties say what the parsers do with
  what the other side sends.
- Exceptions that escape a job end the process and every behaviour with it.
- Windows variants are left out throughout, and so are a second `start` of the server
  and a second `init` of the logger.
