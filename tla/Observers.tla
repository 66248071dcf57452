----------------------------- MODULE Observers ------------------------------
(***************************************************************************)
(* The hub and the monitor side by side. They share nothing: both follow   *)
(* what goes on elsewhere, the messages of a topic and the connections.    *)
(***************************************************************************)
EXTENDS Naturals, FiniteSets

CONSTANTS Subscribers, MaxPublishes,
          Callers, MaxCounted, MaxStarts

ASSUME ObserversAssumption == MaxPublishes \in Nat /\ IsFiniteSet(Callers)

VARIABLES next_sub_id_, callbacks_, spc, id, publishing, callees, publishes,
          connections_alive_, connections_total_, connections_peak_, mpc, total, peak,
          logging_, thread, owner, starts, snap

H == INSTANCE SubscribeHub WITH todo <- callees
N == INSTANCE Monitor

ObserversSpec == H!Spec /\ N!Spec

\* See SubscribeHub: no callback after unsubscribe.
SilentAfterUnsubscribe == H!SilentAfterUnsubscribe

\* See Monitor: the peak, the lines of the log and the end of its thread.
MonitorAgrees == N!MonitorAgrees

=============================================================================
