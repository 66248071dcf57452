------------------------------- MODULE Monitor -------------------------------
(***************************************************************************)
(* The connection counters of Monitor (src/core/monitor) and its logging   *)
(* thread. on_connect is four accesses to three atomics, which threads     *)
(* interleave, and snapshot loads them one after another meanwhile. The    *)
(* peak is that of connections ever made, not of those alive. The other    *)
(* counters are independent of these and of each other and are left out.   *)
(***************************************************************************)
EXTENDS Naturals, Sequences, FiniteSets

CONSTANTS Callers, MaxCounted, MaxStarts \* the last two are bounds

VARIABLES connections_alive_, connections_total_, connections_peak_,
          mpc,   \* caller -> its place in on_connect
          total, \* caller -> its local total
          peak,  \* caller -> its local peak
          logging_,
          thread, \* the place of logging_thread_
          owner, starts, \* whether stop_logging waits; how often logging was started
          snap   \* what snapshot has loaded: alive, total, peak

counters == <<connections_alive_, connections_total_, connections_peak_, mpc, total, peak>>
lvars == <<logging_, thread, owner, starts, snap>>
vars == <<counters, lvars>>

Init ==
    /\ connections_alive_ = 0 /\ connections_total_ = 0 /\ connections_peak_ = 0
    /\ mpc = [c \in Callers |-> "out"]
    /\ total = [c \in Callers |-> 0] /\ peak = [c \in Callers |-> 0]
    /\ logging_ = FALSE /\ thread = "none" /\ owner = "out" /\ starts = 0 /\ snap = <<>>

Go(c, place) == mpc' = [mpc EXCEPT ![c] = place]

CountAlive(c) ==
    /\ mpc[c] = "out" /\ connections_total_ < MaxCounted /\ Go(c, "total")
    /\ connections_alive_' = connections_alive_ + 1
    /\ UNCHANGED <<connections_total_, connections_peak_, total, peak, lvars>>

CountTotal(c) ==
    /\ mpc[c] = "total" /\ Go(c, "load")
    /\ connections_total_' = connections_total_ + 1
    /\ total' = [total EXCEPT ![c] = connections_total_ + 1]
    /\ UNCHANGED <<connections_alive_, connections_peak_, peak, lvars>>

LoadPeak(c) ==
    /\ mpc[c] = "load" /\ Go(c, "raise")
    /\ peak' = [peak EXCEPT ![c] = connections_peak_]
    /\ UNCHANGED <<connections_alive_, connections_total_, connections_peak_, total, lvars>>

\* Fault: a plain store instead of the compare and exchange.
StorePeak(c) ==
    /\ mpc[c] = "raise" /\ Go(c, "out")
    /\ connections_peak_' = IF total[c] > peak[c] THEN total[c] ELSE connections_peak_
    /\ UNCHANGED <<connections_alive_, connections_total_, total, peak, lvars>>

\* The loop ends, or the exchange succeeds, or it loads the peak anew. (It may
\* also fail for no reason, which changes nothing but the time it takes.)
RaisePeak(c) ==
    /\ mpc[c] = "raise"
    /\ CASE total[c] <= peak[c] -> Go(c, "out") /\ UNCHANGED <<connections_peak_, peak>>
         [] total[c] > peak[c] /\ connections_peak_ = peak[c] ->
                Go(c, "out") /\ connections_peak_' = total[c] /\ UNCHANGED peak
         [] OTHER -> peak' = [peak EXCEPT ![c] = connections_peak_]
                     /\ UNCHANGED <<mpc, connections_peak_>>
    /\ UNCHANGED <<connections_alive_, connections_total_, total, lvars>>

\* For a connection that was counted.
on_disconnect ==
    /\ connections_alive_ > 0 /\ connections_alive_' = connections_alive_ - 1
    /\ UNCHANGED <<connections_total_, connections_peak_, mpc, total, peak, lvars>>

-----------------------------------------------------------------------------
start_logging ==
    /\ owner = "out" /\ ~logging_ /\ starts < MaxStarts
    /\ logging_' = TRUE /\ thread' = "test" /\ starts' = starts + 1
    /\ UNCHANGED <<counters, owner, snap>>

\* The head of the thread's loop, and the test after the sleep; then refresh
\* and snapshot.
LoggingTest ==
    /\ thread \in {"test", "sleep"}
    /\ thread' = IF ~logging_ THEN "none" ELSE IF thread = "test" THEN "sleep" ELSE "snapshot"
    /\ snap' = <<>>
    /\ UNCHANGED <<counters, logging_, owner, starts>>

\* snapshot loads the alive connections, the total and the peak, in this order;
\* with the last one the line is logged.
snapshot ==
    /\ thread = "snapshot"
    /\ snap' = Append(snap, <<connections_alive_, connections_total_,
                              connections_peak_>>[Len(snap) + 1])
    /\ thread' = IF Len(snap') = 3 THEN "test" ELSE "snapshot"
    /\ UNCHANGED <<counters, logging_, owner, starts>>

stop_logging ==
    /\ owner = "out" /\ logging_
    /\ logging_' = FALSE /\ owner' = "join"
    /\ UNCHANGED <<counters, thread, starts, snap>>

LoggingJoined ==
    /\ owner = "join" /\ thread = "none" /\ owner' = "out"
    /\ UNCHANGED <<counters, logging_, thread, starts, snap>>

Next ==
    \/ on_disconnect
    \/ \E c \in Callers : CountAlive(c) \/ CountTotal(c) \/ LoadPeak(c) \/ RaisePeak(c)
    \/ start_logging \/ LoggingTest \/ snapshot \/ stop_logging \/ LoggingJoined

\* The logging thread runs, and so does who waits for it.
Fairness == WF_vars(LoggingTest \/ snapshot) /\ WF_vars(LoggingJoined)

Spec == Init /\ [][Next]_vars /\ Fairness

-----------------------------------------------------------------------------
(***************************************************************************)
(* Properties                                                              *)
(***************************************************************************)

\* Type invariant.
TypeOK ==
    /\ connections_alive_ \in Nat /\ connections_total_ \in Nat /\ connections_peak_ \in Nat
    /\ mpc \in [Callers -> {"out", "total", "load", "raise"}]
    /\ total \in [Callers -> Nat] /\ peak \in [Callers -> Nat]
    /\ thread \in {"none", "test", "sleep", "snapshot"} /\ owner \in {"out", "join"}
    /\ logging_ \in BOOLEAN /\ snap \in Seq(Nat)

\* The loop of on_connect loses no update: when nobody is inside it, the peak is
\* the largest value anybody raised it to, which is the total.
PeakRight ==
    TypeOK /\ ((\A c \in Callers : mpc[c] = "out") => connections_peak_ = connections_total_)

\* A line of the log need not be consistent, but its numbers are apart by no more
\* than the threads that can be in on_connect: the alive exceed the total, and
\* the total the peak, by at most so many.
LineRight ==
    Len(snap) = 3 => /\ snap[1] <= snap[2] + Cardinality(Callers)
                     /\ snap[2] <= snap[3] + Cardinality(Callers)

\* Both hold, and the peak never goes back.
CountersAgree ==
    [](PeakRight /\ LineRight) /\ [][connections_peak_' >= connections_peak_]_vars

\* The counters agree, and stop_logging returns.
MonitorAgrees == CountersAgree /\ ((owner = "join") ~> (owner = "out"))

=============================================================================
