----------------------------- MODULE TcpServer ------------------------------
(***************************************************************************)
(* network/tcp, the server (Linux): the accept thread, the heartbeat       *)
(* thread, the read thread of every connection and the callers of stop and *)
(* close_session, around the map connections_ and its mutex conn_mutex_.   *)
(*                                                                         *)
(* A critical section is one step, except the scan of the heartbeat, which *)
(* keeps conn_mutex_ while the read threads run on.  A connection is here  *)
(* its flag closed_, its last_recv_time_ and its read thread; its socket   *)
(* and its write thread are in TcpConnection.                              *)
(***************************************************************************)
EXTENDS Integers, FiniteSets

CONSTANTS
    MaxSessions,       \* bound: connections accepted
    MaxClock,           \* bound: how far the clock goes
    TickMod,           \* get_tick_ms and last_recv_time_ count modulo this
    idle_timeout_ms_

ASSUME ServerAssumption ==
    /\ MaxSessions \in Nat \ {0}
    /\ MaxClock \in Nat
    /\ TickMod \in Nat
    /\ TickMod > MaxClock
    /\ idle_timeout_ms_ \in 0..TickMod - 1

VARIABLES
    running_,
    server_sock_,      \* "open", or "closed" for INVALID_SOCKET
    connections_,      \* the session ids in the map
    next_session_id_,
    conn_mutex_,       \* "free", or "heartbeat" during a scan
    acceptor,          \* where the accept thread is in accept_loop
    heartbeat,         \* where the heartbeat thread is in heartbeat_loop
    scan,              \* the connections its scan has still to look at
    since,             \* history: the clock when the scan began, else 0
    probe,             \* is_idle, called on conn with its tick already read
    stopper,           \* where the caller of stop is
    reader,            \* where each read thread is in read_loop
    closed_,           \* the connections whose closed_ is set
    last_recv_time_,
    now,               \* get_tick_ms
    peer               \* external: the state of each connection's other end

connVars == <<reader, closed_, last_recv_time_>>
hbVars == <<heartbeat, scan, since, probe>>
mapVars == <<connections_, next_session_id_>>
world == <<now, peer>>
vars == <<running_, server_sock_, mapVars, conn_mutex_, acceptor, hbVars, stopper,
          connVars, world>>

Sessions == 1..MaxSessions
NoProbe == [conn |-> 0, tick |-> 0]
ReaderPC == {"none", "recv", "ending", "erase", "handler", "done"}

MutexFree == conn_mutex_ = "free"

\* The connections that have been accepted, and those not closed since.
Accepted == 1..next_session_id_ - 1
Open == Accepted \ closed_

-----------------------------------------------------------------------------
\* start has returned.
Init ==
    /\ running_ = TRUE
    /\ server_sock_ = "open"
    /\ connections_ = {}
    /\ next_session_id_ = 1
    /\ conn_mutex_ = "free"
    /\ acceptor = "test"
    /\ heartbeat = "test"
    /\ scan = {}
    /\ since = 0
    /\ probe = NoProbe
    /\ stopper = "idle"
    /\ reader = [s \in Sessions |-> "none"]
    /\ closed_ = {}
    /\ last_recv_time_ = [s \in Sessions |-> 0]
    /\ now = 0
    /\ peer = [s \in Sessions |-> "here"]

-----------------------------------------------------------------------------
(***************************************************************************)
(* accept_loop                                                             *)
(***************************************************************************)

\* Fault: running_ is not tested between two rounds.
AcceptTestNever ==
    /\ acceptor = "test"
    /\ acceptor' = "event"
    /\ UNCHANGED <<running_, server_sock_, mapVars, conn_mutex_, hbVars, stopper,
                   connVars, world>>

\* The loop condition; then epoll_wait reports the listening socket.  (A round
\* without that event changes nothing.)
AcceptTest ==
    /\ acceptor = "test"
    /\ acceptor' = IF running_ THEN "event" ELSE "done"
    /\ UNCHANGED <<running_, server_sock_, mapVars, conn_mutex_, hbVars, stopper,
                   connVars, world>>

\* accept_connection gives a socket, or it fails: nobody is there any more, or
\* server_sock_ has become INVALID_SOCKET.
AcceptConnection ==
    /\ acceptor = "event"
    /\ \/ /\ server_sock_ = "open"
          /\ next_session_id_ <= MaxSessions
          /\ acceptor' = "insert"
       \/ acceptor' = "test"
    /\ UNCHANGED <<running_, server_sock_, mapVars, conn_mutex_, hbVars, stopper,
                   connVars, world>>

\* The critical section that makes the connection and puts it in the map.
AcceptInsert ==
    /\ acceptor = "insert"
    /\ MutexFree
    /\ connections_' = connections_ \cup {next_session_id_}
    /\ last_recv_time_' = [last_recv_time_ EXCEPT ![next_session_id_] = now]
    /\ next_session_id_' = next_session_id_ + 1
    /\ acceptor' = "start"
    /\ UNCHANGED <<running_, server_sock_, conn_mutex_, hbVars, stopper, reader,
                   closed_, world>>

\* Fault: a connection closed meanwhile is not started.
AcceptStartOpen ==
    /\ acceptor = "start"
    /\ LET s == next_session_id_ - 1 IN
          /\ reader' = [reader EXCEPT ![s] = IF s \in closed_ THEN @ ELSE "recv"]
    /\ acceptor' = "test"
    /\ UNCHANGED <<running_, server_sock_, mapVars, conn_mutex_, hbVars, stopper,
                   closed_, last_recv_time_, world>>

\* conn->start(), outside the critical section.  on_connected_ was not set.
AcceptStart ==
    /\ acceptor = "start"
    /\ LET s == next_session_id_ - 1 IN
          /\ reader' = [reader EXCEPT ![s] = "recv"]
    /\ acceptor' = "test"
    /\ UNCHANGED <<running_, server_sock_, mapVars, conn_mutex_, hbVars, stopper,
                   closed_, last_recv_time_, world>>

AcceptStep == AcceptTest \/ AcceptConnection \/ AcceptInsert \/ AcceptStart

-----------------------------------------------------------------------------
(***************************************************************************)
(* heartbeat_loop                                                          *)
(***************************************************************************)

\* The loop condition, before the sleep.
HeartbeatTest ==
    /\ heartbeat = "test"
    /\ heartbeat' = IF running_ THEN "sleep" ELSE "done"
    /\ UNCHANGED <<running_, server_sock_, mapVars, conn_mutex_, acceptor, scan,
                   since, probe, stopper, connVars, world>>

\* The sleep is over; running_ is not looked at again.
HeartbeatLock ==
    /\ heartbeat = "sleep"
    /\ MutexFree
    /\ conn_mutex_' = "heartbeat"
    /\ heartbeat' = "scan"
    /\ scan' = connections_
    /\ since' = now
    /\ UNCHANGED <<running_, server_sock_, mapVars, acceptor, probe, stopper,
                   connVars, world>>

\* is_idle of the next connection reads the clock first ...
HeartbeatTick ==
    /\ heartbeat = "scan"
    /\ \E s \in scan :
          /\ probe' = [conn |-> s, tick |-> now]
          /\ scan' = scan \ {s}
    /\ heartbeat' = "compare"
    /\ UNCHANGED <<running_, server_sock_, mapVars, conn_mutex_, acceptor, since,
                   stopper, connVars, world>>

\* ... then subtracts last_recv_time_, in unsigned arithmetic.
IsIdle == (probe.tick - last_recv_time_[probe.conn]) % TickMod > idle_timeout_ms_

\* Fault: the scan ends with the first connection it closes.
HeartbeatCompareOnce ==
    /\ heartbeat = "compare"
    /\ closed_' = IF IsIdle THEN closed_ \cup {probe.conn} ELSE closed_
    /\ scan' = IF IsIdle THEN {} ELSE scan
    /\ heartbeat' = "scan"
    /\ probe' = NoProbe
    /\ UNCHANGED <<running_, server_sock_, mapVars, conn_mutex_, acceptor, since,
                   stopper, reader, last_recv_time_, world>>

HeartbeatCompare ==
    /\ heartbeat = "compare"
    /\ closed_' = IF IsIdle THEN closed_ \cup {probe.conn} ELSE closed_
    /\ heartbeat' = "scan"
    /\ probe' = NoProbe
    /\ UNCHANGED <<running_, server_sock_, mapVars, conn_mutex_, acceptor, scan,
                   since, stopper, reader, last_recv_time_, world>>

HeartbeatUnlock ==
    /\ heartbeat = "scan"
    /\ scan = {}
    /\ conn_mutex_' = "free"
    /\ heartbeat' = "test"
    /\ since' = 0
    /\ UNCHANGED <<running_, server_sock_, mapVars, acceptor, scan, probe, stopper,
                   connVars, world>>

HeartbeatScan == HeartbeatTick \/ HeartbeatCompare \/ HeartbeatUnlock

-----------------------------------------------------------------------------
(***************************************************************************)
(* stop and close_session                                                  *)
(***************************************************************************)

\* running_ is cleared; a caller that finds it cleared returns.
StopFlag ==
    /\ stopper = "idle"
    /\ running_
    /\ running_' = FALSE
    /\ stopper' = "close"
    /\ UNCHANGED <<server_sock_, mapVars, conn_mutex_, acceptor, hbVars, connVars,
                   world>>

\* The critical section that closes every connection and clears the map.
StopConnections ==
    /\ stopper = "close"
    /\ MutexFree
    /\ closed_' = closed_ \cup connections_
    /\ connections_' = {}
    /\ stopper' = "socket"
    /\ UNCHANGED <<running_, server_sock_, next_session_id_, conn_mutex_, acceptor,
                   hbVars, reader, last_recv_time_, world>>

\* Only now the listening socket (and the epoll descriptor) is closed.
StopSocket ==
    /\ stopper = "socket"
    /\ server_sock_' = "closed"
    /\ stopper' = "stopped"
    /\ UNCHANGED <<running_, mapVars, conn_mutex_, acceptor, hbVars, connVars, world>>

StopStep == StopConnections \/ StopSocket

\* close_session, by any thread.
CloseSession(s) ==
    /\ MutexFree
    /\ s \in connections_
    /\ closed_' = closed_ \cup {s}
    /\ connections_' = connections_ \ {s}
    /\ UNCHANGED <<running_, server_sock_, next_session_id_, conn_mutex_, acceptor,
                   hbVars, stopper, reader, last_recv_time_, world>>

-----------------------------------------------------------------------------
(***************************************************************************)
(* read_loop of each connection and the close callback accept_loop gave it *)
(***************************************************************************)

\* recv gives data.
RecvData(s) ==
    /\ reader[s] = "recv"
    /\ s \notin closed_
    /\ peer[s] = "here"
    /\ last_recv_time_' = [last_recv_time_ EXCEPT ![s] = now]
    /\ UNCHANGED <<running_, server_sock_, mapVars, conn_mutex_, acceptor, hbVars,
                   stopper, reader, closed_, world>>

\* The loop ends: closed_ is set, the peer has gone, or recv has no data to
\* give.  The socket does not block, so the last is EAGAIN, and the loop takes
\* every error but EINTR, which such a socket does not give, as the end.
RecvNothing(s) ==
    /\ reader[s] = "recv"
    /\ reader' = [reader EXCEPT ![s] = "ending"]
    /\ UNCHANGED <<running_, server_sock_, mapVars, conn_mutex_, acceptor, hbVars,
                   stopper, closed_, last_recv_time_, world>>

\* close(), which does nothing if somebody else has closed the connection.
ReaderClose(s) ==
    /\ reader[s] = "ending"
    /\ closed_' = closed_ \cup {s}
    /\ reader' = [reader EXCEPT ![s] = "erase"]
    /\ UNCHANGED <<running_, server_sock_, mapVars, conn_mutex_, acceptor, hbVars,
                   stopper, last_recv_time_, world>>

\* Fault: the callback does not erase the session.
ReaderForget(s) ==
    /\ reader[s] = "erase"
    /\ MutexFree
    /\ reader' = [reader EXCEPT ![s] = "handler"]
    /\ UNCHANGED <<running_, server_sock_, mapVars, conn_mutex_, acceptor, hbVars,
                   stopper, closed_, last_recv_time_, world>>

\* The callback erases the session in a critical section ...
ReaderErase(s) ==
    /\ reader[s] = "erase"
    /\ MutexFree
    /\ connections_' = connections_ \ {s}
    /\ reader' = [reader EXCEPT ![s] = "handler"]
    /\ UNCHANGED <<running_, server_sock_, next_session_id_, conn_mutex_, acceptor,
                   hbVars, stopper, closed_, last_recv_time_, world>>

\* ... and calls the close handler of the server outside it.
ReaderHandler(s) ==
    /\ reader[s] = "handler"
    /\ reader' = [reader EXCEPT ![s] = "done"]
    /\ UNCHANGED <<running_, server_sock_, mapVars, conn_mutex_, acceptor, hbVars,
                   stopper, closed_, last_recv_time_, world>>

\* What is left to do once recv has ended the loop.
ReaderEnd(s) == ReaderClose(s) \/ ReaderErase(s) \/ ReaderHandler(s)

-----------------------------------------------------------------------------
\* External: the clock, and a peer that closes its end.
Tick ==
    /\ now < MaxClock
    /\ now' = now + 1
    /\ UNCHANGED <<running_, server_sock_, mapVars, conn_mutex_, acceptor, hbVars,
                   stopper, connVars, peer>>

PeerLeaves(s) ==
    /\ s \in Accepted
    /\ peer[s] = "here"
    /\ peer' = [peer EXCEPT ![s] = "gone"]
    /\ UNCHANGED <<running_, server_sock_, mapVars, conn_mutex_, acceptor, hbVars,
                   stopper, connVars, now>>

Next ==
    \/ AcceptStep
    \/ HeartbeatTest
    \/ HeartbeatLock
    \/ HeartbeatScan
    \/ StopFlag
    \/ StopStep
    \/ \E s \in Sessions : \/ CloseSession(s)
                           \/ RecvData(s)
                           \/ RecvNothing(s)
                           \/ ReaderEnd(s)
                           \/ PeerLeaves(s)
    \/ Tick

Spec == Init /\ [][Next]_vars

(***************************************************************************)
(* Fairness.  A thread that can run does; one that waits for conn_mutex_   *)
(* gets it if it is free again and again.  recv returns, and when the peer *)
(* has gone or closed_ is set it cannot return data for ever.  Nobody has  *)
(* to connect, leave, stop the server or close a session.                  *)
(***************************************************************************)
Fairness ==
    /\ SF_vars(AcceptInsert)
    /\ WF_vars(AcceptStart)
    /\ WF_vars(HeartbeatScan)
    /\ \A s \in Sessions :
          /\ WF_vars(RecvNothing(s) /\ (peer[s] = "gone" \/ s \in closed_))
          /\ SF_vars(ReaderEnd(s))

FairSpec == Spec /\ Fairness

-----------------------------------------------------------------------------
(***************************************************************************)
(* Properties                                                              *)
(***************************************************************************)

\* Type invariant.
TypeOK ==
    /\ running_ \in BOOLEAN
    /\ server_sock_ \in {"open", "closed"}
    /\ connections_ \in SUBSET Sessions
    /\ next_session_id_ \in 1..MaxSessions + 1
    /\ conn_mutex_ \in {"free", "heartbeat"}
    /\ acceptor \in {"test", "event", "insert", "start", "done"}
    /\ heartbeat \in {"test", "sleep", "scan", "compare", "done"}
    /\ scan \in SUBSET Sessions
    /\ since \in 0..MaxClock
    /\ probe \in [conn : 0..MaxSessions, tick : 0..MaxClock]
    /\ stopper \in {"idle", "close", "socket", "stopped"}
    /\ reader \in [Sessions -> ReaderPC]
    /\ closed_ \in SUBSET Sessions
    /\ last_recv_time_ \in [Sessions -> 0..MaxClock]
    /\ now \in 0..MaxClock
    /\ peer \in [Sessions -> {"here", "gone"}]

\* No ghost sessions: once the close handler of a session may run, the session
\* is not in the map and never comes back, whoever else erased it meanwhile.
\* It rests on accept_loop inserting a connection before it starts it.
NoGhostSession == \A s \in connections_ : reader[s] \notin {"handler", "done"}

\* No connection escapes: one that is not closed is in the map, where stop,
\* the heartbeat and broadcast find it.
OpenIsRegistered == Open \subseteq connections_

\* The map is right, whoever inserts, erases and closes.
MapSound == TypeOK /\ NoGhostSession /\ OpenIsRegistered

\* What stop leaves behind: at most the one connection that the accept thread
\* had in its hands when running_ was cleared.
StopLeavesAtMostOne == stopper = "stopped" => Cardinality(Open) <= 1

\* A connection that is closed, by whomever and even before it was started,
\* ends in a call of the close handler.
ClosedIsReported == \A s \in Sessions : s \in closed_ ~> reader[s] = "done"

\* When a client has gone, its session leaves the map.
DepartedLeave == \A s \in Sessions : peer[s] = "gone" ~> s \notin connections_

\* A session comes to its end: both of these.
SessionsEnd == ClosedIsReported /\ DepartedLeave

\* A scan of the heartbeat leaves no connection open that had been silent for
\* longer than idle_timeout_ms_ when the scan began, whatever the other threads
\* accept, close or receive while it goes through the map.
IdleSwept ==
    [][HeartbeatUnlock => \A s \in Open : since - last_recv_time_[s] <= idle_timeout_ms_]_vars

\* The heartbeat disconnects who is over the timeout, and nobody else
\* (DESIGN.md:487, tcp_server.h:8): a connection it closes has been silent for
\* longer than idle_timeout_ms_.
OnlyIdleClosed ==
    [][\A s \in closed_' \ closed_ :
          HeartbeatCompare => now - last_recv_time_[s] > idle_timeout_ms_]_vars

=============================================================================
