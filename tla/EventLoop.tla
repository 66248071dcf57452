------------------------------ MODULE EventLoop ------------------------------
(***************************************************************************)
(* EventLoop (src/base/event/event_loop.cpp) on Linux: its tasks and its   *)
(* timers. Any thread pushes tasks, adds and cancels timers and stops it   *)
(* (API.md says that it may), the loop's own in its callbacks among them.  *)
(* timer_id_counter_ is not atomic and is counted up outside timers_mutex_ *)
(* so that a timer may get an id that another one has. epoll_wait is given *)
(* room for events_.size() = 0 events and fails at once: the loop neither  *)
(* sleeps nor sees a descriptor.                                           *)
(***************************************************************************)
EXTENDS TimerHeap

CONSTANTS Timers,   \* callbacks, each added once, by a thread of its own
          MaxTasks, MaxRuns \* bounds

ASSUME EventLoopAssumption == MaxTasks \in Nat /\ MaxRuns \in Nat

VARIABLES now, running_,
          lpc,     \* the place of the thread
          batch,   \* the local tasks of process_tasks, then fired
          at,      \* now as process_timers has read it, 0 outside
          nid,     \* the id of nt in process_timers, 0 before
          timers_, timer_id_counter_, pending_tasks_,
          adding,  \* timer -> where its add_timer is and the entry it makes
          pushed, runs, \* counters for the bounds
          handle,  \* timer -> the id add_timer has returned, 0 before
          ran,     \* history: the tasks in the order they ran
          fires,   \* history: timer -> how often its callback ran
          revoked  \* history: the timers that cancel_timer has found

tvars == <<timers_, timer_id_counter_, adding, handle, revoked>>
qvars == <<pending_tasks_, pushed, ran>>
lvars == <<lpc, batch, at, nid>>
vars == <<now, running_, runs, fires, lvars, tvars, qvars>>

Nowhere == [pc |-> "out", id |-> 0, expire_at |-> 0, interval_ms |-> 0]

Init ==
    /\ now = 0 /\ at = 0 /\ nid = 0 /\ running_ = FALSE /\ lpc = "out" /\ batch = <<>>
    /\ timers_ = <<>> /\ timer_id_counter_ = 0 /\ pending_tasks_ = <<>>
    /\ pushed = 0 /\ runs = 0 /\ ran = <<>> /\ adding = [t \in Timers |-> Nowhere]
    /\ handle = [t \in Timers |-> 0] /\ fires = [t \in Timers |-> 0] /\ revoked = {}

Tick == now < MaxTick /\ now' = now + 1
        /\ UNCHANGED <<running_, runs, fires, lvars, tvars, qvars>>

-----------------------------------------------------------------------------
\* Fault: push_heap is forgotten.
PushedBack(id, expire_at, interval, t) ==
    timers_' = Append(timers_, [id |-> id, expire_at |-> expire_at, interval_ms |-> interval,
                                cancelled |-> FALSE, of |-> t])

\* An entry goes into the heap.
Pushed(id, expire_at, interval, t) ==
    timers_' = PushHeap(Append(timers_, [id |-> id, expire_at |-> expire_at,
                            interval_ms |-> interval, cancelled |-> FALSE, of |-> t]))

\* add_timer reads the time and the counter, stores the counter, and takes the
\* mutex to push the entry.
add_timer(t, after, interval) ==
    /\ handle[t] = 0 /\ adding[t].pc = "out"
    /\ adding' = [adding EXCEPT ![t] = [pc |-> "store", id |-> timer_id_counter_ + 1,
                            expire_at |-> now + after, interval_ms |-> interval]]
    /\ UNCHANGED <<now, running_, runs, fires, lvars, timers_, timer_id_counter_, handle, revoked, qvars>>

StoreId(t) ==
    /\ adding[t].pc = "store"
    /\ timer_id_counter_' = adding[t].id
    /\ adding' = [adding EXCEPT ![t].pc = "push"]
    /\ UNCHANGED <<now, running_, runs, fires, lvars, timers_, handle, revoked, qvars>>

PushEntry(t) ==
    /\ adding[t].pc = "push"
    /\ Pushed(adding[t].id, adding[t].expire_at, adding[t].interval_ms, t)
    /\ handle' = [handle EXCEPT ![t] = adding[t].id]
    /\ adding' = [adding EXCEPT ![t] = Nowhere]
    /\ UNCHANGED <<now, running_, runs, fires, lvars, timer_id_counter_, revoked, qvars>>

\* Only an entry in timers_ is found: not one that process_timers has taken out,
\* nor a repeating timer after its first firing, which has another id. It may be
\* the entry of another timer with this id.
cancel_timer(t) ==
    /\ handle[t] # 0 /\ Found(timers_, handle[t])
    /\ timers_' = MarkFirst(timers_, handle[t])
    /\ revoked' = revoked \cup {timers_[First(timers_, handle[t])].of}
    /\ UNCHANGED <<now, running_, runs, fires, lvars, timer_id_counter_, adding, handle, qvars>>

push_task ==
    /\ pushed < MaxTasks
    /\ pushed' = pushed + 1
    /\ pending_tasks_' = Append(pending_tasks_, pushed + 1)
    /\ UNCHANGED <<now, running_, runs, fires, ran, lvars, tvars>>

\* stop before run has no effect: run stores running_ again.
stop ==
    /\ running_ /\ running_' = FALSE
    /\ UNCHANGED <<now, runs, fires, lvars, tvars, qvars>>

-----------------------------------------------------------------------------
run ==
    /\ lpc = "out" /\ ~running_ /\ runs < MaxRuns
    /\ running_' = TRUE /\ runs' = runs + 1 /\ lpc' = "test"
    /\ UNCHANGED <<now, batch, at, nid, fires, tvars, qvars>>

\* is_running at the head of the loop.
Test ==
    /\ lpc = "test"
    /\ lpc' = IF running_ THEN "swap" ELSE "out"
    /\ UNCHANGED <<now, running_, batch, at, nid, runs, fires, tvars, qvars>>

\* Fault: the tasks are copied, not swapped, and cleared after they have run.
CopyTasks ==
    /\ lpc = "swap" /\ lpc' = "tasks"
    /\ batch' = pending_tasks_
    /\ UNCHANGED <<now, running_, at, nid, runs, fires, tvars, qvars>>

\* process_tasks takes all tasks at once and runs them without the mutex.
SwapTasks ==
    /\ lpc = "swap" /\ lpc' = "tasks"
    /\ batch' = pending_tasks_ /\ pending_tasks_' = <<>>
    /\ UNCHANGED <<now, running_, at, nid, runs, fires, pushed, ran, tvars>>

\* A task runs, and returns or throws.
RunTask ==
    /\ lpc = "tasks" /\ batch # <<>>
    /\ ran' = Append(ran, Head(batch)) /\ batch' = Tail(batch)
    /\ UNCHANGED <<now, running_, lpc, at, nid, runs, fires, pushed, pending_tasks_, tvars>>

\* process_timers reads the time, then takes the mutex.
ReadNow ==
    /\ lpc = "tasks" /\ batch = <<>> /\ lpc' = "scan"
    /\ at' = now
    /\ UNCHANGED <<now, running_, batch, nid, runs, fires, tvars, qvars>>

\* It takes out what is due.
TakeDue ==
    /\ lpc = "scan" /\ lpc' = "fired"
    /\ \E r \in {PopDue(timers_, at)} : timers_' = r.rest /\ batch' = r.fired
    /\ UNCHANGED <<now, running_, at, nid, runs, fires, timer_id_counter_, adding, handle, revoked, qvars>>

\* A callback runs, and returns or throws. A repeating timer is entered again, with
\* a new id, one interval after the time that was read before the callbacks.
Fire ==
    /\ lpc = "fired" /\ batch # <<>>
    /\ fires' = [fires EXCEPT ![Head(batch).of] = @ + 1]
    /\ IF Head(batch).interval_ms > 0 THEN lpc' = "load" /\ UNCHANGED batch
       ELSE UNCHANGED lpc /\ batch' = Tail(batch)
    /\ UNCHANGED <<now, running_, at, nid, runs, tvars, qvars>>

LoopLoads ==
    /\ lpc = "load" /\ lpc' = "store" /\ nid' = timer_id_counter_ + 1
    /\ UNCHANGED <<now, running_, batch, at, runs, fires, tvars, qvars>>

LoopStores ==
    /\ lpc = "store" /\ lpc' = "push" /\ timer_id_counter_' = nid
    /\ UNCHANGED <<now, running_, batch, at, nid, runs, fires, timers_, adding, handle, revoked, qvars>>

Reenter ==
    /\ lpc = "push" /\ lpc' = "fired" /\ batch' = Tail(batch) /\ nid' = 0
    /\ Pushed(nid, at + Head(batch).interval_ms, Head(batch).interval_ms, Head(batch).of)
    /\ UNCHANGED <<now, running_, at, runs, fires, timer_id_counter_, adding, handle, revoked, qvars>>

\* epoll_wait fails and run_once returns.
Poll ==
    /\ lpc = "fired" /\ batch = <<>> /\ lpc' = "test"
    /\ at' = 0
    /\ UNCHANGED <<now, running_, batch, nid, runs, fires, tvars, qvars>>

LoopStep ==
    \/ Test \/ SwapTasks \/ RunTask \/ ReadNow \/ TakeDue
    \/ Fire \/ LoopLoads \/ LoopStores \/ Reenter \/ Poll

Next ==
    \/ Tick \/ push_task \/ stop \/ run \/ LoopStep
    \/ \E t \in Timers :
        \/ StoreId(t) \/ PushEntry(t) \/ cancel_timer(t)
        \/ \E after, interval \in Delays : add_timer(t, after, interval)

\* Time passes and the thread runs; nobody has to call anything.
Fairness == WF_vars(Tick) /\ WF_vars(LoopStep)

Spec == Init /\ [][Next]_vars /\ Fairness

-----------------------------------------------------------------------------
(***************************************************************************)
(* Properties                                                              *)
(***************************************************************************)

\* The places of process_timers behind the scan.
TimerPCs == {"fired", "load", "store", "push"}

\* Type invariant.
TypeOK ==
    /\ now \in 0..MaxTick /\ at \in 0..now /\ running_ \in BOOLEAN
    /\ lpc \in {"out", "test", "swap", "tasks", "scan"} \cup TimerPCs
    /\ pushed \in 0..MaxTasks /\ runs \in 0..MaxRuns
    /\ nid \in Nat /\ timer_id_counter_ \in Nat /\ handle \in [Timers -> Nat]
    /\ adding \in [Timers -> [pc : {"out", "store", "push"}, id : Nat,
                               expire_at : Nat, interval_ms : Nat]]
    /\ fires \in [Timers -> Nat] /\ revoked \subseteq Timers

\* A task runs once, in the order of the pushes, whatever is pushed while the
\* loop swaps or runs a batch, and over a stop and another run: the tasks that
\* ran, the rest of the batch and the pending ones are those that were pushed.
TasksInOrder ==
    /\ TypeOK
    /\ ran \o (IF lpc = "tasks" THEN batch ELSE <<>>) \o pending_tasks_
           = [i \in 1..pushed |-> i]

\* A timer fires when it is due and not after a cancel_timer that found it, and
\* process_timers leaves no timer that was due when it read the time: timers_ stays
\* a heap although any thread adds and marks entries, overdue ones among them, and
\* ids may be given twice.
TimersRightly ==
    [][/\ fires' # fires => Head(batch).expire_at <= at /\ Head(batch).of \notin revoked
       /\ (lpc = "scan" /\ lpc' = "fired") =>
              \A i \in 1..Len(timers_') : timers_'[i].expire_at > at]_vars

\* A task that was pushed runs and a timer whose time comes fires, unless the
\* loop is stopped or the timer cancelled; a loop that is stopped ends.
LoopServes ==
    /\ \A n \in 1..MaxTasks : (pushed >= n) ~> (Len(ran) >= n \/ ~running_)
    /\ \A t \in Timers :
           (\E i \in 1..Len(timers_) : timers_[i].of = t /\ timers_[i].expire_at <= MaxTick)
               ~> (fires[t] > 0 \/ t \in revoked \/ ~running_)
    /\ (lpc # "out" /\ ~running_) ~> (lpc = "out")

=============================================================================
