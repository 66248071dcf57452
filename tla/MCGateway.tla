----------------------------- MODULE MCGateway ------------------------------
(***************************************************************************)
(* Gateway, and SessionMgr beside it, which it does not drive: each        *)
(* behaviour is one of the two.                                            *)
(***************************************************************************)
EXTENDS Gateway

CONSTANTS sess1, sess2, Timeout, MaxSessions, MaxTick, MaxCleanups

ASSUME SessionsAssumption == MaxSessions \in Nat

VARIABLES which,
    sessions_, next_sid_, total_count_, peak_count_, tick, now_ms, to_remove, cleanups,
    touched, born, known

svars == <<sessions_, next_sid_, total_count_, peak_count_, tick, now_ms, to_remove, cleanups,
           touched, born, known>>
allvars == <<which, vars, svars>>

S == INSTANCE SessionMgr

MCJobs == {<<sess1, 1>>, <<sess2, 1>>}

MCInit == which \in {"gateway", "sessions"} /\ Init /\ S!Init

MCNext ==
    /\ UNCHANGED which
    /\ \/ which = "gateway" /\ Next /\ UNCHANGED svars
       \/ which = "sessions" /\ S!Next /\ UNCHANGED vars

MCSpec == MCInit /\ [][MCNext]_allvars /\ (which = "gateway" => Fairness)

\* CleanupJustified of SessionMgr.
CleanupJustified == S!CleanupJustified

=============================================================================
