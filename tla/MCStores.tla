------------------------------ MODULE MCStores ------------------------------
(***************************************************************************)
(* The pools, the message queue and the monitor, which do not interact:    *)
(* which says the one that runs in a behaviour, and the others stay as     *)
(* they begin.                                                             *)
(***************************************************************************)
EXTENDS MessageQueue, Pools, Observers

VARIABLE which

ovars == <<ofree, made, pc, slot, objects, popped>>
mvars == <<mfree, next, all_chunks_, free_blocks_, todo, blocks>>
cvars == <<initialized_, pool_, cfree, given, query, answer>>
hvars == <<next_sub_id_, callbacks_, spc, id, publishing, callees, publishes>>
nvars == <<connections_alive_, connections_total_, connections_peak_, mpc, total, peak,
           logging_, thread, owner, starts, snap>>
MCvars == <<which, ovars, mvars, cvars, hvars, nvars, vars>>

MCInit ==
    /\ which \in {"object", "memory", "connection", "queue", "hub", "monitor"}
    /\ O!Init /\ M!Init /\ C!Init /\ H!Init /\ N!Init /\ Init

MCNext ==
    /\ \/ which = "object" /\ O!Next /\ UNCHANGED <<mvars, cvars, hvars, vars, nvars>>
       \/ which = "memory" /\ M!Next /\ UNCHANGED <<ovars, cvars, hvars, vars, nvars>>
       \/ which = "connection" /\ C!Next /\ UNCHANGED <<ovars, mvars, hvars, vars, nvars>>
       \/ which = "hub" /\ H!Next /\ UNCHANGED <<ovars, mvars, cvars, vars, nvars>>
       \/ which = "queue" /\ Next /\ UNCHANGED <<ovars, mvars, cvars, hvars, nvars>>
       \/ which = "monitor" /\ N!Next /\ UNCHANGED <<ovars, mvars, cvars, hvars, vars>>
    /\ UNCHANGED which

MCSpec ==
    /\ MCInit /\ [][MCNext]_MCvars
    /\ (which = "queue" => Fairness) /\ (which = "monitor" => N!Fairness)

=============================================================================
