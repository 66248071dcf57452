------------------------------ MODULE TimerLoop ------------------------------
(* TimerLoop (base/timer/timer.cpp): a background thread that owns a heap of  *)
(* timers.  Clients add a timer through pending_add and cancel it by its id,  *)
(* an owner starts and stops the thread.  mtx and pending_mtx are held over   *)
(* one action each; next_id is a plain integer that clients and the thread    *)
(* increment with no lock, so its increment is a load and a store.            *)
EXTENDS TimerHeap

CONSTANTS
    Clients,    \* threads, each of which adds one timer and may cancel it once
    MaxStarts   \* bound on the calls of start

ASSUME StartsAssumption == MaxStarts \in Nat

VARIABLES
    tick,           \* get_tick_ms
    next_id, items, pending_add,
    owner,          \* what the owner does: "idle", "running" or "joining"
    starts,         \* calls of start so far
    loop,           \* the thread: where it is, fired, and the entry it re-adds
    client,         \* each client: where it is, its entry and the id it holds
    called,         \* history: how often each callback has run
    marked          \* history: the timers whose current entry a cancel marked

thread_vars == <<tick, next_id, items, pending_add, owner, starts, loop, client, called, marked>>

\* running: stored by start and stop around the life of the thread.
running == owner = "running"

Entry(c, id, at, interval) ==
    [id |-> id, expire_at |-> at, interval_ms |-> interval, cancelled |-> FALSE, of |-> c]

ThreadInit ==
    /\ tick = 0 /\ next_id = 0 /\ items = <<>> /\ pending_add = <<>>
    /\ owner = "idle" /\ starts = 0
    /\ loop = [pc |-> "none", fired |-> <<>>, entry |-> <<>>]
    /\ client = [c \in Clients |-> [pc |-> "add", entry |-> <<>>]]
    /\ called = [c \in Clients |-> 0]
    /\ marked = {}

ThreadTick == tick < MaxTick /\ tick' = tick + 1
        /\ UNCHANGED <<next_id, items, pending_add, owner, starts, loop, client, called, marked>>

-----------------------------------------------------------------------------
(* start, stop and the join in it. *)

Start ==
    /\ owner = "idle" /\ starts < MaxStarts
    /\ owner' = "running" /\ starts' = starts + 1
    /\ loop' = [loop EXCEPT !.pc = "test"]
    /\ UNCHANGED <<tick, next_id, items, pending_add, client, called, marked>>

Stop ==
    /\ owner = "running" /\ owner' = "joining"
    /\ UNCHANGED <<tick, next_id, items, pending_add, starts, loop, client, called, marked>>

StopJoined ==
    /\ owner = "joining" /\ loop.pc = "none" /\ owner' = "idle"
    /\ UNCHANGED <<tick, next_id, items, pending_add, starts, loop, client, called, marked>>

-----------------------------------------------------------------------------
(* add, add_repeating: the clock and next_id are read, next_id is stored, and *)
(* the entry is pushed under pending_mtx.                                     *)

AddRead(c) ==
    /\ client[c].pc = "add"
    /\ \E d \in Delays : \E interval \in {0, d} :
          client' = [client EXCEPT ![c] =
                        [pc |-> "store", entry |-> Entry(c, next_id + 1, tick + d, interval)]]
    /\ UNCHANGED <<tick, next_id, items, pending_add, owner, starts, loop, called, marked>>

AddStore(c) ==
    /\ client[c].pc = "store"
    /\ next_id' = client[c].entry.id
    /\ client' = [client EXCEPT ![c].pc = "push"]
    /\ UNCHANGED <<tick, items, pending_add, owner, starts, loop, called, marked>>

AddPush(c) ==
    /\ client[c].pc = "push"
    /\ pending_add' = Append(pending_add, client[c].entry)
    /\ client' = [client EXCEPT ![c].pc = "added"]
    /\ UNCHANGED <<tick, next_id, items, owner, starts, loop, called, marked>>

\* cancel_impl looks in items only, and marks the first entry with the id.
Cancel(c) ==
    /\ client[c].pc = "added"
    /\ LET id == client[c].entry.id
       IN  IF Found(items, id)
           THEN /\ items' = MarkFirst(items, id)
                /\ marked' = marked \cup {items[First(items, id)].of}
           ELSE UNCHANGED <<items, marked>>
    /\ client' = [client EXCEPT ![c].pc = "done"]
    /\ UNCHANGED <<tick, next_id, pending_add, owner, starts, loop, called>>

-----------------------------------------------------------------------------
(* thread_loop. *)

\* Fault: running is not looked at again.
LoopTestNever ==
    /\ loop.pc = "test"
    /\ loop' = [loop EXCEPT !.pc = "merge"]
    /\ UNCHANGED <<tick, next_id, items, pending_add, owner, starts, client, called, marked>>

\* The test of running at the head of the loop.
LoopTest ==
    /\ loop.pc = "test"
    /\ loop' = [loop EXCEPT !.pc = IF running THEN "merge" ELSE "none"]
    /\ UNCHANGED <<tick, next_id, items, pending_add, owner, starts, client, called, marked>>

\* Fault: only the last pending entry is taken over.
MergedLast == IF pending_add = <<>> THEN items ELSE PushHeap(Append(items, pending_add[Len(pending_add)]))

(* All pending entries are appended; one push_heap follows.  The front is    *)
(* then read for the length of the sleep, which only delays the thread.       *)
Merged == IF pending_add = <<>> THEN items ELSE PushHeap(items \o pending_add)

LoopMerge ==
    /\ loop.pc = "merge"
    /\ items' = Merged /\ pending_add' = <<>>
    /\ loop' = [loop EXCEPT !.pc = "asleep"]
    /\ UNCHANGED <<tick, next_id, owner, starts, client, called, marked>>

\* The loop over fired ends with its last entry.
After(fired) == IF fired = <<>> THEN "test" ELSE "fire"

LoopCollect ==
    /\ loop.pc = "asleep"
    /\ LET r == PopDue(items, tick)
       IN  items' = r.rest /\ loop' = [loop EXCEPT !.pc = After(r.fired), !.fired = r.fired]
    /\ UNCHANGED <<tick, next_id, pending_add, owner, starts, client, called, marked>>

Repeats(t) == t.interval_ms > 0

\* The callback runs with no lock held; a repeating timer is then due again.
LoopFire ==
    /\ loop.pc = "fire"
    /\ LET t == Head(loop.fired)
       IN  /\ called' = [called EXCEPT ![t.of] = @ + 1]
           /\ loop' = [loop EXCEPT !.fired = Tail(@),
                                   !.pc = IF Repeats(t) THEN "again" ELSE After(Tail(loop.fired)),
                                   !.entry = IF Repeats(t) THEN t ELSE <<>>]
    /\ UNCHANGED <<tick, next_id, items, pending_add, owner, starts, client, marked>>

\* now3 and next_id are read ...
AgainRead ==
    /\ loop.pc = "again"
    /\ LET t == loop.entry
       IN  loop' = [loop EXCEPT !.pc = "againstore",
                        !.entry = Entry(t.of, next_id + 1, tick + t.interval_ms, t.interval_ms)]
    /\ UNCHANGED <<tick, next_id, items, pending_add, owner, starts, client, called, marked>>

\* ... next_id is stored ...
AgainStore ==
    /\ loop.pc = "againstore"
    /\ next_id' = loop.entry.id
    /\ loop' = [loop EXCEPT !.pc = "againpush"]
    /\ UNCHANGED <<tick, items, pending_add, owner, starts, client, called, marked>>

\* ... and the new entry goes straight into the heap.
AgainPush ==
    /\ loop.pc = "againpush"
    /\ items' = PushHeap(Append(items, loop.entry))
    /\ loop' = [loop EXCEPT !.pc = After(loop.fired), !.entry = <<>>]
    /\ UNCHANGED <<tick, next_id, pending_add, owner, starts, client, called, marked>>

-----------------------------------------------------------------------------

ThreadStep == \/ LoopTest \/ LoopMerge \/ LoopCollect \/ LoopFire
            \/ AgainRead \/ AgainStore \/ AgainPush

AddStep(c) == AddRead(c) \/ AddStore(c) \/ AddPush(c)

ThreadNext ==
    \/ ThreadTick \/ Start \/ Stop \/ StopJoined \/ ThreadStep
    \/ \E c \in Clients : AddStep(c) \/ Cancel(c)

(* Time passes, the thread is scheduled, an add once begun is finished and a  *)
(* join returns when the thread has ended.  Nobody has to start, stop, add or *)
(* cancel anything.                                                           *)
ThreadFairness ==
    /\ WF_thread_vars(ThreadTick) /\ WF_thread_vars(ThreadStep) /\ WF_thread_vars(StopJoined)
    /\ \A c \in Clients : WF_thread_vars(AddStore(c) \/ AddPush(c))

ThreadSpec == ThreadInit /\ [][ThreadNext]_thread_vars /\ ThreadFairness

-----------------------------------------------------------------------------
EntrySet ==
    [id : Nat, expire_at : Nat, interval_ms : {0} \cup Delays, cancelled : BOOLEAN, of : Clients]

\* The thread has an entry that it is about to push again.
Holding == loop.pc \in {"again", "againstore", "againpush"}

\* The shape of the state of TimerLoop::Impl, its thread and its callers.
ThreadTypeOK ==
    /\ tick \in 0..MaxTick /\ next_id \in Nat
    /\ items \in Seq(EntrySet) /\ pending_add \in Seq(EntrySet)
    /\ owner \in {"idle", "running", "joining"} /\ starts \in 0..MaxStarts
    /\ loop.pc \in {"none", "test", "merge", "asleep", "fire", "again", "againstore", "againpush"}
    /\ loop.fired \in Seq(EntrySet) /\ (Holding => loop.entry \in EntrySet)
    /\ \A c \in Clients : client[c].pc # "add" => client[c].entry \in EntrySet
    /\ called \in [Clients -> Nat] /\ marked \subseteq Clients

\* The places where the entry of a client's timer can be.
Places(c) ==
    LET In(name, s) == {<<name, i>> : i \in {j \in 1..Len(s) : s[j].of = c}}
    IN  In("items", items) \cup In("pending_add", pending_add) \cup In("fired", loop.fired)
          \cup {p \in {<<"thread", 1>>} : Holding /\ loop.entry.of = c}

(* A timer that add accepted is in exactly one place until it ends: waiting   *)
(* in pending_add, in the heap, or in the hands of the thread.  It ends only  *)
(* by firing (a one-shot timer) or by a cancel that found it.  This spans     *)
(* merges, batches, the two locks, stop and a later start.                    *)
EntryConserved ==
    ThreadTypeOK /\ \A c \in Clients :
        client[c].pc \in {"added", "done"} =>
            \/ \E p \in Places(c) : Places(c) = {p}
            \/ Places(c) = {} /\ (c \in marked \/ (~Repeats(client[c].entry) /\ called[c] = 1))

(* A callback runs only when its entry is due, and never after a cancel that  *)
(* marked it: cancel races with the thread that takes the due entries out.    *)
FiresRightly ==
    [][\A c \in Clients : called'[c] # called[c] =>
          /\ c \notin marked
          /\ Head(loop.fired).expire_at <= tick]_thread_vars

(* A timer whose time comes fires, unless it is cancelled or the loop is      *)
(* stopped first, although its entry crosses two locks and next_id is racy.   *)
TimerFires ==
    \A c \in Clients :
        (client[c].pc \in {"added", "done"} /\ client[c].entry.expire_at <= MaxTick)
            ~> (called[c] > 0 \/ c \in marked \/ ~running)

\* stop returns: the thread always comes back to the test of running.
StopReturns == (owner = "joining") ~> (owner = "idle")

\* The thread serves its callers: both of these.
TimerLoopServes == TimerFires /\ StopReturns

=============================================================================
