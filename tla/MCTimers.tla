------------------------------ MODULE MCTimers ------------------------------
(***************************************************************************)
(* The event loop with its timers and tasks, its table of descriptors, and *)
(* the stand-alone Timer, for TLC.  They share no state: which says the    *)
(* one that runs in a behaviour.                                           *)
(***************************************************************************)
EXTENDS FiniteSets, EventLoop, FdHandlers, Timer

VARIABLE which

MCvars == <<which, timer_vars, fd_vars, vars>>

\* Bounds of the event loop: a behaviour with tasks has one timer, and a timer is
\* not far behind the end of the clock.
Few ==
    /\ pushed = 0 \/ Cardinality({t \in Timers : adding[t].pc # "out" \/ handle[t] # 0}) <= 1
    /\ \A t \in Timers : adding[t].expire_at <= MaxTick + 1 /\ adding[t].interval_ms <= MaxTick

MCInit == which \in {"loop", "timer", "fds"} /\ Init /\ TimerInit /\ FdInit

MCNext ==
    /\ \/ which = "loop" /\ Next /\ Few' /\ UNCHANGED <<timer_vars, fd_vars>>
       \/ which = "timer" /\ TimerNext /\ UNCHANGED <<vars, fd_vars>>
       \/ which = "fds" /\ FdNext /\ UNCHANGED <<vars, timer_vars>>
    /\ UNCHANGED which

MCSpec == MCInit /\ [][MCNext]_MCvars /\ (which = "loop" => Fairness)

=============================================================================
