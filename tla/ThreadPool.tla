----------------------------- MODULE ThreadPool -----------------------------
(***************************************************************************)
(* core/threadpool: a fixed set of worker threads, one task queue guarded  *)
(* by queue_mutex_, and the condition variable task_cv_.                   *)
(*                                                                         *)
(* A critical section is one step whose guard is that the mutex is free,   *)
(* with one exception.  A worker that finds the predicate of               *)
(* task_cv_.wait false keeps the mutex until it is on the wait set: stop_  *)
(* is stored without the mutex, so that store, and the notify_all after    *)
(* it, may fall between the test and the wait.                             *)
(***************************************************************************)
EXTENDS Naturals, Sequences

CONSTANTS Workers,     \* the worker threads: threads_ of them
          Clients,     \* the threads that submit jobs
          Tasks,       \* Task objects, submitted with append_priority
          Closures,    \* callables, submitted with append
          Priorities,  \* the priorities the Task objects are built with
          NoThread,    \* the mutex is free
          NoJob        \* the worker's local TaskPtr is empty

Jobs == Tasks \cup Closures

\* TaskPriority
LOW == 0
NORMAL == 1
HIGH == 2

ASSUME PoolAssumption ==
    /\ Workers # {}
    /\ NoThread \notin Workers
    /\ NoJob \notin Jobs
    /\ Tasks \cap Closures = {}
    /\ Priorities \subseteq {LOW, NORMAL, HIGH}

VARIABLES
    tasks_,         \* the queue, front first
    queue_mutex_,   \* the worker that holds the mutex between two steps
    stop_,
    shutdown_done_,
    pc,             \* where each worker is in worker_loop
    held,           \* each worker's local variable task
    client,         \* where each client is in append / append_priority
    owner,          \* where the owner is in shutdown / shutdown_now
    priority_,      \* Task::priority_, fixed by the constructor
    cancelled_,     \* the tasks whose cancelled_ is set
    phase,          \* history: what has become of each job
    ticket,         \* history: the place of each job in the order of arrival
    arrivals,       \* history: the number of jobs that have arrived
    early           \* history: the jobs that arrived before stop_ was set

queueVars == <<tasks_, ticket, arrivals, early>>
stopVars == <<stop_, shutdown_done_, owner>>
vars == <<tasks_, queue_mutex_, stop_, shutdown_done_, pc, held, client, owner,
          priority_, cancelled_, phase, ticket, arrivals, early>>

Phase == {"new", "pending", "taken", "running", "ran", "skipped", "dropped"}
Final == {"ran", "skipped", "dropped"}
WorkerPC == {"loop", "waiting", "blocked", "execute", "running", "exited"}
OwnerPC == {"up", "notify", "join", "swap", "notifyNow", "joinNow", "down",
            "destroyed"}

MutexFree == queue_mutex_ = NoThread

\* The threads asleep in task_cv_.wait.
Blocked == {w \in Workers : pc[w] = "blocked"}

IsHigh(j) == priority_[j] = HIGH

Queued(j) == \E i \in 1..Len(tasks_) : tasks_[i] = j

-----------------------------------------------------------------------------
\* ThreadPool::ThreadPool: every worker is at the top of worker_loop.
Init ==
    /\ tasks_ = <<>>
    /\ queue_mutex_ = NoThread
    /\ stop_ = FALSE
    /\ shutdown_done_ = FALSE
    /\ pc = [w \in Workers |-> "loop"]
    /\ held = [w \in Workers |-> NoJob]
    /\ client = [c \in Clients |-> "idle"]
    /\ owner = "up"
    /\ priority_ \in [Jobs -> Priorities \cup {NORMAL}]
    /\ \A j \in Closures : priority_[j] = NORMAL
    /\ cancelled_ = {}
    /\ phase = [j \in Jobs |-> "new"]
    /\ ticket = [j \in Jobs |-> 0]
    /\ arrivals = 0
    /\ early = {}

-----------------------------------------------------------------------------
(***************************************************************************)
(* Clients                                                                 *)
(***************************************************************************)

\* Fault: the job is queued and no notify_one follows.
ArriveSilently(c, j) ==
    /\ client[c] = "idle"
    /\ owner # "destroyed"
    /\ phase[j] = "new"
    /\ MutexFree
    /\ phase' = [phase EXCEPT ![j] = "pending"]
    /\ ticket' = [ticket EXCEPT ![j] = arrivals + 1]
    /\ arrivals' = arrivals + 1
    /\ early' = IF stop_ THEN early ELSE early \cup {j}
    /\ UNCHANGED <<queue_mutex_, stopVars, pc, held, client, priority_, cancelled_>>

\* What both ways of submitting a job j share: the critical section is over
\* and the client has not yet called notify_one.
Arrive(c, j) ==
    /\ client[c] = "idle"
    /\ owner # "destroyed"
    /\ phase[j] = "new"
    /\ MutexFree
    /\ client' = [client EXCEPT ![c] = "notify"]
    /\ phase' = [phase EXCEPT ![j] = "pending"]
    /\ ticket' = [ticket EXCEPT ![j] = arrivals + 1]
    /\ arrivals' = arrivals + 1
    /\ early' = IF stop_ THEN early ELSE early \cup {j}
    /\ UNCHANGED <<queue_mutex_, stopVars, pc, held, priority_, cancelled_>>

\* append: neither stop_ nor the capacity queue_size_ is looked at.
AppendJob(c, j) ==
    /\ Arrive(c, j)
    /\ tasks_' = Append(tasks_, j)

\* Fault: a HIGH task goes to the end, as any other.
LeadingAll(k) == k = Len(tasks_)

\* The first k jobs of the queue are HIGH and the next one, if any, is not.
LeadingHigh(k) ==
    /\ \A i \in 1..k : IsHigh(tasks_[i])
    /\ k < Len(tasks_) => ~IsHigh(tasks_[k + 1])

\* append_priority: a HIGH task goes behind the leading HIGH tasks, any other
\* task to the end.
AppendPriority(c, t) ==
    /\ Arrive(c, t)
    /\ \/ /\ IsHigh(t)
          /\ \E k \in 0..Len(tasks_) :
                /\ LeadingHigh(k)
                /\ tasks_' = SubSeq(tasks_, 1, k) \o <<t>> \o SubSeq(tasks_, k + 1, Len(tasks_))
       \/ /\ ~IsHigh(t)
          /\ tasks_' = Append(tasks_, t)

\* task_cv_.notify_one, after the mutex has been released.
NotifyOne(c) ==
    /\ client[c] = "notify"
    /\ client' = [client EXCEPT ![c] = "idle"]
    /\ \/ /\ Blocked = {}
          /\ UNCHANGED pc
       \/ \E w \in Blocked : pc' = [pc EXCEPT ![w] = "loop"]
    /\ UNCHANGED <<queueVars, queue_mutex_, stopVars, held, priority_,
                   cancelled_, phase>>

\* Task::cancel, by anyone who has the TaskPtr, at any time.
Cancel(t) ==
    /\ t \notin cancelled_
    /\ cancelled_' = cancelled_ \cup {t}
    /\ UNCHANGED <<queueVars, queue_mutex_, stopVars, pc, held, client,
                   priority_, phase>>

-----------------------------------------------------------------------------
(***************************************************************************)
(* Workers: worker_loop                                                    *)
(***************************************************************************)

\* The predicate of the wait holds and the queue has a job: pop it.
Take(w) ==
    /\ pc[w] = "loop"
    /\ MutexFree
    /\ tasks_ # <<>>
    /\ tasks_' = Tail(tasks_)
    /\ held' = [held EXCEPT ![w] = Head(tasks_)]
    /\ pc' = [pc EXCEPT ![w] = "execute"]
    /\ phase' = [phase EXCEPT ![Head(tasks_)] = "taken"]
    /\ UNCHANGED <<queue_mutex_, stopVars, client, priority_, cancelled_,
                   ticket, arrivals, early>>

\* Fault: the worker leaves as soon as stop_ is set.
ExitEarly(w) ==
    /\ pc[w] = "loop"
    /\ MutexFree
    /\ stop_
    /\ pc' = [pc EXCEPT ![w] = "exited"]
    /\ UNCHANGED <<queueVars, queue_mutex_, stopVars, held, client, priority_,
                   cancelled_, phase>>

\* stop_ is set and the queue is empty: break.
Exit(w) ==
    /\ pc[w] = "loop"
    /\ MutexFree
    /\ stop_
    /\ tasks_ = <<>>
    /\ pc' = [pc EXCEPT ![w] = "exited"]
    /\ UNCHANGED <<queueVars, queue_mutex_, stopVars, held, client, priority_,
                   cancelled_, phase>>

\* The predicate is false: the worker will wait, and still has the mutex.
TestFails(w) ==
    /\ pc[w] = "loop"
    /\ MutexFree
    /\ ~stop_
    /\ tasks_ = <<>>
    /\ queue_mutex_' = w
    /\ pc' = [pc EXCEPT ![w] = "waiting"]
    /\ UNCHANGED <<queueVars, stopVars, held, client, priority_, cancelled_,
                   phase>>

\* wait releases the mutex and puts the worker to sleep in one step.
Block(w) ==
    /\ pc[w] = "waiting"
    /\ queue_mutex_' = NoThread
    /\ pc' = [pc EXCEPT ![w] = "blocked"]
    /\ UNCHANGED <<queueVars, stopVars, held, client, priority_, cancelled_,
                   phase>>

\* A condition variable may wake a thread that nobody notified.
SpuriousWakeup(w) ==
    /\ pc[w] = "blocked"
    /\ pc' = [pc EXCEPT ![w] = "loop"]
    /\ UNCHANGED <<queueVars, queue_mutex_, stopVars, held, client, priority_,
                   cancelled_, phase>>

\* Fault: cancelled_ is not read.
ExecuteAnyway(w) ==
    /\ pc[w] = "execute"
    /\ phase' = [phase EXCEPT ![held[w]] = "running"]
    /\ pc' = [pc EXCEPT ![w] = "running"]
    /\ UNCHANGED <<queueVars, queue_mutex_, stopVars, held, client, priority_,
                   cancelled_>>

\* Task::execute reads cancelled_ once, before it calls func_.
Execute(w) ==
    /\ pc[w] = "execute"
    /\ \/ /\ held[w] \notin cancelled_
          /\ phase' = [phase EXCEPT ![held[w]] = "running"]
          /\ pc' = [pc EXCEPT ![w] = "running"]
          /\ UNCHANGED held
       \/ /\ held[w] \in cancelled_
          /\ phase' = [phase EXCEPT ![held[w]] = "skipped"]
          /\ pc' = [pc EXCEPT ![w] = "loop"]
          /\ held' = [held EXCEPT ![w] = NoJob]
    /\ UNCHANGED <<queueVars, queue_mutex_, stopVars, client, priority_,
                   cancelled_>>

\* func_ returns, and the TaskPtr goes out of scope.
Finish(w) ==
    /\ pc[w] = "running"
    /\ phase' = [phase EXCEPT ![held[w]] = "ran"]
    /\ pc' = [pc EXCEPT ![w] = "loop"]
    /\ held' = [held EXCEPT ![w] = NoJob]
    /\ UNCHANGED <<queueVars, queue_mutex_, stopVars, client, priority_,
                   cancelled_>>

-----------------------------------------------------------------------------
(***************************************************************************)
(* The owner: shutdown, shutdown_now and the destructor                    *)
(***************************************************************************)

CallerMayStop == owner \in {"up", "down"}

\* shutdown stores stop_ without the mutex.
Shutdown ==
    /\ CallerMayStop
    /\ stop_' = TRUE
    /\ owner' = "notify"
    /\ UNCHANGED <<queueVars, queue_mutex_, shutdown_done_, pc, held, client,
                   priority_, cancelled_, phase>>

ShutdownNow ==
    /\ CallerMayStop
    /\ stop_' = TRUE
    /\ owner' = "swap"
    /\ UNCHANGED <<queueVars, queue_mutex_, shutdown_done_, pc, held, client,
                   priority_, cancelled_, phase>>

\* The jobs of the queue are destroyed without being run.
DropQueue ==
    /\ tasks_' = <<>>
    /\ phase' = [j \in Jobs |-> IF Queued(j) THEN "dropped" ELSE phase[j]]

\* Fault: the queue is swapped away without the mutex.
SwapUnlocked ==
    /\ owner = "swap"
    /\ DropQueue
    /\ owner' = "notifyNow"
    /\ UNCHANGED <<queue_mutex_, stop_, shutdown_done_, pc, held, client,
                   priority_, cancelled_, ticket, arrivals, early>>

\* shutdown_now swaps the queue away inside a critical section.
SwapQueue ==
    /\ owner = "swap"
    /\ MutexFree
    /\ DropQueue
    /\ owner' = "notifyNow"
    /\ UNCHANGED <<queue_mutex_, stop_, shutdown_done_, pc, held, client,
                   priority_, cancelled_, ticket, arrivals, early>>

\* task_cv_.notify_all of either kind of shutdown.
NotifyAll ==
    /\ owner \in {"notify", "notifyNow"}
    /\ pc' = [w \in Workers |-> IF pc[w] = "blocked" THEN "loop" ELSE pc[w]]
    /\ owner' = IF owner = "notify" THEN "join" ELSE "joinNow"
    /\ UNCHANGED <<queueVars, queue_mutex_, stop_, shutdown_done_, held, client,
                   priority_, cancelled_, phase>>

\* Every thread of workers_ has been joined and workers_ is cleared.
Join ==
    /\ owner \in {"join", "joinNow"}
    /\ \A w \in Workers : pc[w] = "exited"
    /\ owner' = "down"
    /\ shutdown_done_' = (shutdown_done_ \/ owner = "join")
    /\ UNCHANGED <<queueVars, queue_mutex_, stop_, pc, held, client, priority_,
                   cancelled_, phase>>

\* The destructor after either shutdown, once no client is inside a call; the
\* destructor of a running pool is Shutdown, ..., Join followed by this step.
Destroy ==
    /\ owner = "down"
    /\ \A c \in Clients : client[c] = "idle"
    /\ DropQueue
    /\ owner' = "destroyed"
    /\ UNCHANGED <<queue_mutex_, stop_, shutdown_done_, pc, held, client,
                   priority_, cancelled_, ticket, arrivals, early>>

-----------------------------------------------------------------------------
ClientStep(c) ==
    \/ \E j \in Closures : AppendJob(c, j)
    \/ \E t \in Tasks : AppendPriority(c, t)
    \/ NotifyOne(c)

\* The steps a worker takes by itself, once it may have the mutex.
WorkerLock(w) == Take(w) \/ Exit(w) \/ TestFails(w)
WorkerRun(w) == Block(w) \/ Execute(w) \/ Finish(w)

OwnerStep == Shutdown \/ ShutdownNow \/ SwapQueue \/ NotifyAll \/ Join \/ Destroy

Next ==
    \/ \E c \in Clients : ClientStep(c)
    \/ \E t \in Tasks : Cancel(t)
    \/ \E w \in Workers : WorkerLock(w) \/ WorkerRun(w) \/ SpuriousWakeup(w)
    \/ OwnerStep

Spec == Init /\ [][Next]_vars

(***************************************************************************)
(* Fairness.  A thread that can run does (WF); a thread that waits for the *)
(* mutex gets it if it is free again and again (SF); a job returns.  Nobody*)
(* has to submit, cancel or shut down, and no wakeup is spurious by right. *)
(***************************************************************************)
Fairness ==
    /\ \A c \in Clients : WF_vars(NotifyOne(c))
    /\ \A w \in Workers : SF_vars(WorkerLock(w)) /\ WF_vars(WorkerRun(w))
    /\ SF_vars(SwapQueue)
    /\ WF_vars(NotifyAll)
    /\ WF_vars(Join)

FairSpec == Spec /\ Fairness

-----------------------------------------------------------------------------
(***************************************************************************)
(* Properties                                                              *)
(***************************************************************************)

\* Type invariant.
TypeOK ==
    /\ tasks_ \in Seq(Jobs)
    /\ queue_mutex_ \in Workers \cup {NoThread}
    /\ stop_ \in BOOLEAN
    /\ shutdown_done_ \in BOOLEAN
    /\ pc \in [Workers -> WorkerPC]
    /\ held \in [Workers -> Jobs \cup {NoJob}]
    /\ client \in [Clients -> {"idle", "notify"}]
    /\ owner \in OwnerPC
    /\ priority_ \in [Jobs -> {LOW, NORMAL, HIGH}]
    /\ cancelled_ \in SUBSET Jobs
    /\ phase \in [Jobs -> Phase]
    /\ ticket \in [Jobs -> Nat]
    /\ arrivals \in Nat
    /\ early \in SUBSET Jobs

\* The queue is ordered: every HIGH job is ahead of every other job, and two
\* jobs of the same class stand in the order in which they arrived.  The
\* insertion of append_priority and the push of append keep it so together.
QueueOrdered ==
    \A i, k \in 1..Len(tasks_) : i < k =>
        /\ IsHigh(tasks_[k]) => IsHigh(tasks_[i])
        /\ (IsHigh(tasks_[k]) <=> IsHigh(tasks_[i]))
              => ticket[tasks_[i]] < ticket[tasks_[k]]

\* Conservation: a pending job stands in the queue exactly once, a job that
\* was taken is held by exactly one worker, and no other job is in either
\* place.  So no job is lost or run twice by workers that race for the queue.
OnePlace ==
    /\ \A j \in Jobs : phase[j] = "pending" <=> Queued(j)
    /\ \A i, k \in 1..Len(tasks_) : tasks_[i] = tasks_[k] => i = k
    /\ \A j \in Jobs : phase[j] \in {"taken", "running"} <=> \E w \in Workers : held[w] = j
    /\ \A v, w \in Workers : held[v] = held[w] /\ held[v] # NoJob => v = w

\* No wakeup for a job is lost: while a job is queued and a worker sleeps in
\* task_cv_.wait, some other worker is awake and will look at the queue, or
\* some client is about to call notify_one.
NoLostJobWakeup ==
    tasks_ # <<>> /\ Blocked # {} =>
        \/ \E w \in Workers : pc[w] \notin {"blocked", "exited"}
        \/ \E c \in Clients : client[c] = "notify"

\* shutdown drains the queue: once it has returned, every job that had
\* arrived when stop_ was set has run, was skipped because it was cancelled,
\* or was dropped by a shutdown_now.
ShutdownDrains == shutdown_done_ => \A j \in early : phase[j] \in Final

\* Every job that arrives before stop_ is set is settled, whatever the other
\* clients, the owner and the cancellations do. (A job stays early, and settled.)
EarlyJobsSettle == <>[](\A j \in early : phase[j] \in Final)

\* shutdown_now returns: its critical section between the store of stop_ and
\* notify_all leaves no worker between its test and its wait.
ShutdownNowReturns == owner = "swap" ~> owner = "down"

\* shutdown returns when it stores stop_ while no worker is between its test
\* of the predicate and its wait.
QuietShutdownReturns ==
    owner = "notify" /\ (\A w \in Workers : pc[w] # "waiting") ~> owner = "down"

\* The three promises of progress together.
PoolServes == EarlyJobsSettle /\ ShutdownNowReturns /\ QuietShutdownReturns

\* The job a worker has popped but not started is still pending for whoever
\* submitted it.
LedgerState == [j \in Jobs |-> IF phase[j] = "taken" THEN "pending" ELSE phase[j]]

Ledger == INSTANCE JobLedger WITH
    state <- LedgerState,
    revoked <- cancelled_,
    closing <- stop_,
    promised <- early,
    closed <- shutdown_done_

\* The pool implements the ledger of jobs: every job is accepted once and
\* started at most once, not after it was cancelled, jobs are dropped only
\* when the pool stops, and shutdown_done_ is set only when every job that
\* arrived before stop_ is settled.
ImplementsLedger == Ledger!Spec

\* shutdown returns, as "wait until all tasks of the queue have been executed,
\* then stop the worker threads" promises.
ShutdownReturns == owner = "notify" ~> owner = "down"

-----------------------------------------------------------------------------
(***************************************************************************)
(* What the proofs of these invariants need besides the invariants.        *)
(***************************************************************************)

\* Only a worker about to wait keeps the mutex, and then the queue is empty.
MutexInv ==
    /\ \A w \in Workers : pc[w] = "waiting" <=> queue_mutex_ = w
    /\ queue_mutex_ # NoThread => tasks_ = <<>>

\* A worker holds a job from the pop to the return of execute.
HeldInv ==
    \A w \in Workers :
        /\ held[w] # NoJob <=> pc[w] \in {"execute", "running"}
        /\ pc[w] = "execute" => phase[held[w]] = "taken"
        /\ pc[w] = "running" => phase[held[w]] = "running"

\* The next ticket is higher than every ticket handed out, and append makes no
\* HIGH job.
ArrivalInv ==
    /\ \A j \in Jobs : ticket[j] <= arrivals
    /\ \A j \in Closures : ~IsHigh(j)

\* A worker leaves only after stop_ is set, when no early job is queued, and
\* shutdown returns only when all of them have left.
StopInv ==
    /\ owner # "up" => stop_
    /\ \A j \in early : phase[j] # "new"
    /\ \A w \in Workers : pc[w] = "exited" => stop_
    /\ (\E w \in Workers : pc[w] = "exited") => \A j \in early : phase[j] # "pending"
    /\ shutdown_done_ => \A w \in Workers : pc[w] = "exited"

=============================================================================
