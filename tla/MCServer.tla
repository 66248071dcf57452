------------------------------ MODULE MCServer ------------------------------
(***************************************************************************)
(* Parts of the server for TLC: the gateway or the session manager, one    *)
(* connection with its threads, and the framing of its packets. They share *)
(* no state here: which says the one that runs.                            *)
(***************************************************************************)
EXTENDS MCGateway, MCFraming, TcpConnection

\* A framing that does not run has one initial state.
ServerInit ==
    /\ which \in {"gateway", "sessions", "connection", "framing"}
    /\ Init /\ S!Init /\ ConnInit /\ FramingInit
    /\ which # "framing" => /\ format = "protocol" /\ side = "server"
                            /\ outbox = <<CHOOSE p \in Packets : TRUE>>

ServerNext ==
    \/ MCNext /\ UNCHANGED <<framing_vars, conn_vars>>
    \/ which = "connection" /\ ConnNext /\ UNCHANGED <<allvars, framing_vars>>
    \/ which = "framing" /\ FramingNext /\ UNCHANGED <<allvars, conn_vars>>

\* The one that runs is fair as its module says.
ServerSpec ==
    /\ ServerInit /\ [][ServerNext]_<<allvars, framing_vars, conn_vars>>
    /\ \/ which = "gateway" /\ Fairness
       \/ which = "connection" /\ ConnFairness
       \/ which \in {"sessions", "framing"}

=============================================================================
