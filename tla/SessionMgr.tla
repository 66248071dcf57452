----------------------------- MODULE SessionMgr -----------------------------
(***************************************************************************)
(* SessionMgr (src/business/session/session_mgr.cpp). Every operation is   *)
(* one critical section of mutex_, except cleanup_timeout, which collects  *)
(* the sessions in one and removes each of them in another. Addresses and  *)
(* payloads are left out; sending only tells whether a session is alive.   *)
(***************************************************************************)
EXTENDS Naturals, FiniteSetsExt, Functions

CONSTANTS Timeout,                  \* timeout_ms of cleanup_timeout
          MaxSessions, MaxTick, MaxCleanups \* bounds

VARIABLES sessions_,   \* sid -> [last_msg_time, is_alive, born], for those there are
          next_sid_, total_count_, peak_count_,
          tick,        \* get_tick_ms
          now_ms,      \* the argument of the cleanup that runs
          to_remove,   \* what it has collected and not removed yet
          cleanups,    \* how often it was called
          touched,     \* history: sessions with a heartbeat since the collection
          born,        \* history: number of sessions ever added
          known        \* history: the same at the time of the collection

vars == <<sessions_, next_sid_, total_count_, peak_count_, tick, now_ms, to_remove, cleanups,
          touched, born, known>>

Sids == 1..MaxSessions

Init ==
    /\ sessions_ = [s \in {} |-> 0]
    /\ next_sid_ = 1 /\ total_count_ = 0 /\ peak_count_ = 0 /\ born = 0 /\ known = 0
    /\ tick = 0 /\ now_ms = 0 /\ to_remove = {} /\ cleanups = 0 /\ touched = {}

Without(s) == Restrict(sessions_, DOMAIN sessions_ \ {s})

Tick == tick < MaxTick /\ tick' = tick + 1
    /\ UNCHANGED <<sessions_, next_sid_, total_count_, peak_count_, now_ms, to_remove, cleanups,
                   touched, born, known>>

\* Fault: the id is the number of sessions plus one.
AddNumbered ==
    LET sid == Cardinality(DOMAIN sessions_) + 1
    IN  /\ born < MaxSessions /\ born' = born + 1
        /\ next_sid_' = next_sid_ + 1 /\ total_count_' = total_count_ + 1
        /\ sessions_' = [s \in DOMAIN sessions_ \cup {sid} |->
               IF s = sid THEN [last_msg_time |-> tick, is_alive |-> TRUE, born |-> born']
               ELSE sessions_[s]]
        /\ peak_count_' = Max({peak_count_, Cardinality(DOMAIN sessions_')})
        /\ UNCHANGED <<tick, now_ms, to_remove, cleanups, touched, known>>

add ==
    LET sid == next_sid_
    IN  /\ born < MaxSessions /\ born' = born + 1
        /\ next_sid_' = next_sid_ + 1 /\ total_count_' = total_count_ + 1
        /\ sessions_' = [s \in DOMAIN sessions_ \cup {sid} |->
               IF s = sid THEN [last_msg_time |-> tick, is_alive |-> TRUE, born |-> born']
               ELSE sessions_[s]]
        /\ peak_count_' = Max({peak_count_, Cardinality(DOMAIN sessions_')})
        /\ UNCHANGED <<tick, now_ms, to_remove, cleanups, touched, known>>

remove(s) ==
    /\ sessions_' = Without(s)
    /\ UNCHANGED <<next_sid_, total_count_, peak_count_, tick, now_ms, to_remove, cleanups,
                   touched, born, known>>

\* kick closes the socket and erases the session: the same map as remove's.
kick(s) == s \in DOMAIN sessions_ /\ remove(s)

heartbeat(s) ==
    /\ s \in DOMAIN sessions_
    /\ sessions_' = [sessions_ EXCEPT ![s].last_msg_time = tick]
    /\ touched' = IF to_remove = {} THEN {} ELSE touched \cup {s}
    /\ UNCHANGED <<next_sid_, total_count_, peak_count_, tick, now_ms, to_remove, cleanups, born, known>>

mark_dead(s) ==
    /\ s \in DOMAIN sessions_
    /\ sessions_' = [sessions_ EXCEPT ![s].is_alive = FALSE]
    /\ UNCHANGED <<next_sid_, total_count_, peak_count_, tick, now_ms, to_remove, cleanups,
                   touched, born, known>>

shutdown ==
    /\ sessions_' = [s \in {} |-> 0]
    /\ UNCHANGED <<next_sid_, total_count_, peak_count_, tick, now_ms, to_remove, cleanups,
                   touched, born, known>>

\* The first critical section of cleanup_timeout. A session marked dead is
\* passed over, so that it stays until somebody removes it.
Collect ==
    /\ to_remove = {} /\ cleanups < MaxCleanups
    /\ cleanups' = cleanups + 1 /\ now_ms' = tick /\ touched' = {} /\ known' = born
    /\ to_remove' = {s \in DOMAIN sessions_ : sessions_[s].is_alive /\
                                              sessions_[s].last_msg_time + Timeout < tick}
    /\ UNCHANGED <<sessions_, next_sid_, total_count_, peak_count_, tick, born>>

\* One of the critical sections that follow. The order is that of the hash map.
RemoveCollected(s) ==
    /\ s \in to_remove /\ to_remove' = to_remove \ {s}
    /\ sessions_' = Without(s)
    /\ UNCHANGED <<next_sid_, total_count_, peak_count_, tick, now_ms, cleanups, touched, born, known>>

Next ==
    \/ Tick \/ add \/ shutdown \/ Collect
    \/ \E s \in to_remove : RemoveCollected(s)
    \/ \E s \in Sids : remove(s) \/ kick(s) \/ heartbeat(s) \/ mark_dead(s)

Spec == Init /\ [][Next]_vars

-----------------------------------------------------------------------------
(***************************************************************************)
(* Properties                                                              *)
(***************************************************************************)

\* Type invariant.
TypeOK ==
    /\ DOMAIN sessions_ \subseteq Sids
    /\ \A s \in DOMAIN sessions_ : sessions_[s] \in
           [last_msg_time : 0..tick, is_alive : BOOLEAN, born : 1..born]
    /\ next_sid_ = total_count_ + 1 /\ peak_count_ \in 0..total_count_
    /\ Cardinality(DOMAIN sessions_) <= peak_count_
    /\ now_ms \in 0..tick /\ known \in 0..born /\ to_remove \subseteq Sids /\ touched \subseteq Sids

\* cleanup_timeout removes only sessions that have been idle for longer than
\* the timeout; it may remove one that had a heartbeat after it was collected,
\* but never one that was added after that, for no id is used again.
CleanupJustified ==
    []TypeOK /\
    [][\A s \in to_remove \ to_remove' : s \in DOMAIN sessions_ =>
          /\ s \in touched \/ sessions_[s].last_msg_time + Timeout < now_ms
          /\ sessions_[s].born <= known]_vars

=============================================================================
