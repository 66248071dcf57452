----------------------------- MODULE JobLedger ------------------------------
(***************************************************************************)
(* What a task pool promises, with no queue, threads or locks: each job    *)
(* is accepted once, then started once or skipped or dropped, never after  *)
(* it was settled; a job cancelled before it starts never starts; and      *)
(* closing ends only when every job accepted before it began is settled.   *)
(***************************************************************************)
CONSTANT Jobs

VARIABLES
    state,      \* what has become of each job
    revoked,    \* the jobs that have been cancelled
    closing,    \* closing has begun
    promised,   \* the jobs accepted before it began
    closed      \* closing has ended

vars == <<state, revoked, closing, promised, closed>>

States == {"new", "pending", "running", "ran", "skipped", "dropped"}
Settled == {"ran", "skipped", "dropped"}

Init ==
    /\ state = [j \in Jobs |-> "new"]
    /\ revoked = {}
    /\ closing = FALSE
    /\ promised = {}
    /\ closed = FALSE

\* A job moves from one state to another and nothing else happens.
Move(j, from, to) ==
    /\ state[j] = from
    /\ state' = [state EXCEPT ![j] = to]
    /\ UNCHANGED <<revoked, closing, promised, closed>>

Accept(j) ==
    /\ state[j] = "new"
    /\ state' = [state EXCEPT ![j] = "pending"]
    /\ promised' = IF closing THEN promised ELSE promised \cup {j}
    /\ UNCHANGED <<revoked, closing, closed>>

Start(j) == j \notin revoked /\ Move(j, "pending", "running")

Finish(j) == Move(j, "running", "ran")

Skip(j) == j \in revoked /\ Move(j, "pending", "skipped")

Revoke(j) ==
    /\ revoked' = revoked \cup {j}
    /\ UNCHANGED <<state, closing, promised, closed>>

\* Pending jobs may be dropped, all at once, when the pool is closing.
Drop(S) ==
    /\ closing
    /\ \A j \in S : state[j] = "pending"
    /\ state' = [j \in Jobs |-> IF j \in S THEN "dropped" ELSE state[j]]
    /\ UNCHANGED <<revoked, closing, promised, closed>>

BeginClose ==
    /\ closing' = TRUE
    /\ UNCHANGED <<state, revoked, promised, closed>>

EndClose ==
    /\ closing
    /\ \A j \in promised : state[j] \in Settled
    /\ closed' = TRUE
    /\ UNCHANGED <<state, revoked, closing, promised>>

Next ==
    \/ \E j \in Jobs : Accept(j) \/ Start(j) \/ Finish(j) \/ Skip(j) \/ Revoke(j)
    \/ \E S \in SUBSET Jobs : Drop(S)
    \/ BeginClose
    \/ EndClose

Spec == Init /\ [][Next]_vars

=============================================================================
