------------------------------- MODULE Gateway -------------------------------
(***************************************************************************)
(* The gateway (src/example/gateway/gateway.cpp): the message handler      *)
(* submits a job for each packet, the job routes it under the mutex of     *)
(* Router, and the handlers answer through TcpServer::send_to. The pool is *)
(* JobLedger, which ThreadPool implements; the server is reduced to the    *)
(* set of its connections. The handler of SIGINT and SIGTERM runs on the   *)
(* main thread, on top of whatever mutex that thread holds. g_sessions     *)
(* stays empty, as accept_loop calls no connected handler, and so removing *)
(* a session from it changes nothing.                                      *)
(***************************************************************************)
EXTENDS Naturals, Sequences, Functions

CONSTANTS Jobs, \* packets: pairs of a session and a number
          Cmds, \* of "LOGIN", "DATA", "LOGOUT" and others
          None

Sessions == {j[1] : j \in Jobs}

VARIABLES state, revoked, closing, promised, closed, \* the pool: see JobLedger
          connections_, \* sessions of the server
          left,     \* sessions that are over
          cmd,      \* job -> command of its packet, None before it arrives
          mutex_,   \* the job that holds the mutex of Router, or None
          replies,  \* session -> the jobs it was sent an answer for
          main,     \* mutexes that the report of main takes, the first one held
          handler,  \* the place of signal_handler
          missed    \* a worker misses the notification of shutdown: see ThreadPool

pvars == <<state, revoked, closing, promised, closed>>
vars == <<pvars, connections_, left, cmd, mutex_, replies, main, handler, missed>>

Pool == INSTANCE JobLedger

Init ==
    /\ Pool!Init
    /\ connections_ = {} /\ left = {}
    /\ cmd = [j \in Jobs |-> None] /\ mutex_ = None
    /\ replies = [s \in Sessions |-> <<>>]
    /\ main = <<>> /\ handler = "none" /\ missed = FALSE

\* While the signal handler runs, the main thread keeps what it held.
Free(m) == IF main = <<>> THEN TRUE ELSE Head(main) # m

\* The accept thread; after stop there may still be the one connection that it
\* had in its hands (StopLeavesAtMostOne of TcpServer).
Connect(s) ==
    /\ s \notin connections_ \cup left /\ Free("conn_mutex_")
    /\ handler \in {"shutdown", "join"} => connections_ = {}
    /\ connections_' = connections_ \cup {s}
    /\ UNCHANGED <<pvars, left, cmd, mutex_, replies, main, handler, missed>>

\* The client has gone, or the server closes the session.
Disconnect(s) ==
    /\ s \in connections_ /\ Free("conn_mutex_")
    /\ connections_' = connections_ \ {s} /\ left' = left \cup {s}
    /\ UNCHANGED <<pvars, cmd, mutex_, replies, main, handler, missed>>

\* The message handler, on the read thread of the session, which may still have
\* packets in its buffer when the session is over: append.
OnMessage(j, c) ==
    /\ j[1] \in connections_ \cup left /\ Free("queue_mutex_")
    /\ \A i \in Jobs : i[1] = j[1] /\ i[2] < j[2] => cmd[i] # None
    /\ cmd' = [cmd EXCEPT ![j] = c]
    /\ Pool!Accept(j)
    /\ UNCHANGED <<connections_, left, mutex_, replies, main, handler, missed>>

\* A worker begins the job.
Begin(j) ==
    /\ Free("queue_mutex_") /\ Pool!Start(j)
    /\ UNCHANGED <<connections_, left, cmd, mutex_, replies, main, handler, missed>>

route(j) ==
    /\ state[j] = "running" /\ mutex_ = None /\ Free("log")
    /\ mutex_' = j
    /\ UNCHANGED <<pvars, connections_, left, cmd, replies, main, handler, missed>>

\* Fault: the job has a reference to sid, which may name another session by now.
ReplyToOther(j) ==
    \E s \in Sessions :
        replies' = IF s \in connections_ THEN [replies EXCEPT ![s] = Append(@, j)] ELSE replies

\* Fault: only sessions in g_sessions are answered.
ReplyIfKnown(j) == UNCHANGED replies

\* send_to: a session that is no longer there gets nothing.
Reply(j) ==
    replies' = IF j[1] \in connections_ THEN [replies EXCEPT ![j[1]] = Append(@, j)] ELSE replies

\* handle_login, handle_data, handle_logout, or no handler; the job ends.
Handle(j) ==
    /\ mutex_ = j /\ Free("log") /\ Free("conn_mutex_")
    /\ IF cmd[j] \in {"LOGIN", "DATA"} THEN Reply(j) ELSE UNCHANGED replies
    /\ mutex_' = None
    /\ Pool!Finish(j)
    /\ UNCHANGED <<connections_, left, cmd, main, handler, missed>>

-----------------------------------------------------------------------------
\* The loop of main: sleep; then session_count and queued_count, in the order
\* the compiler chooses, and the logger.
Report ==
    /\ handler = "none"
    /\ \/ main = <<>> /\ main' \in {<<"conn_mutex_", "queue_mutex_", "log">>,
                                   <<"queue_mutex_", "conn_mutex_", "log">>}
       \/ main # <<>> /\ main' = Tail(main)
    /\ UNCHANGED <<pvars, connections_, left, cmd, mutex_, replies, handler, missed>>

Signal ==
    /\ handler = "none" /\ handler' = "log"
    /\ UNCHANGED <<pvars, connections_, left, cmd, mutex_, replies, main, missed>>

HandlerLog ==
    /\ handler = "log" /\ Free("log") /\ handler' = "stop"
    /\ UNCHANGED <<pvars, connections_, left, cmd, mutex_, replies, main, missed>>

\* TcpServer::stop.
HandlerStop ==
    /\ handler = "stop" /\ Free("conn_mutex_") /\ handler' = "shutdown"
    /\ left' = left \cup connections_ /\ connections_' = {}
    /\ UNCHANGED <<pvars, cmd, mutex_, replies, main, missed>>

\* ThreadPool::shutdown: the store and the notification ...
HandlerShutdown ==
    /\ handler = "shutdown" /\ handler' = "join"
    /\ Pool!BeginClose /\ missed' \in BOOLEAN
    /\ UNCHANGED <<connections_, left, cmd, mutex_, replies, main>>

\* ... and the join, which wants every worker to come to its end; then exit.
HandlerExit ==
    /\ handler = "join" /\ ~missed /\ Free("queue_mutex_") /\ handler' = "exited"
    /\ Pool!EndClose
    /\ UNCHANGED <<connections_, left, cmd, mutex_, replies, main, missed>>

Handler == HandlerLog \/ HandlerStop \/ HandlerShutdown \/ HandlerExit

Next ==
    /\ handler # "exited"
    /\ \/ Report \/ Signal \/ Handler
       \/ \E s \in Sessions : Connect(s) \/ Disconnect(s)
       \/ \E j \in Jobs : Begin(j) \/ route(j) \/ Handle(j) \/ \E c \in Cmds : OnMessage(j, c)

\* The pool runs what it has accepted (EarlyJobsSettle of ThreadPool), a job
\* that wants the mutex of Router gets it, and the main thread goes on.
Fairness ==
    /\ WF_vars(Report) /\ WF_vars(Handler)
    /\ \A j \in Jobs : SF_vars(Begin(j)) /\ SF_vars(route(j)) /\ SF_vars(Handle(j))

Spec == Init /\ [][Next]_vars /\ Fairness

-----------------------------------------------------------------------------
(***************************************************************************)
(* Properties                                                              *)
(***************************************************************************)

\* Type invariant.
TypeOK ==
    /\ connections_ \subseteq Sessions /\ left \subseteq Sessions
    /\ cmd \in [Jobs -> Cmds \cup {None}] /\ mutex_ \in Jobs \cup {None}
    /\ \A s \in Sessions : Range(replies[s]) \subseteq Jobs
    /\ Range(main) \subseteq {"conn_mutex_", "queue_mutex_", "log"} /\ missed \in BOOLEAN
    /\ handler \in {"none", "log", "stop", "shutdown", "join", "exited"}

\* A session is answered only for packets of its own that want an answer, once
\* each, although jobs of several sessions run at the same time and in any
\* order; and what a session that is still there was not answered for has not
\* been through its handler.
RepliesRight ==
    /\ TypeOK
    /\ \A s \in Sessions : IsInjective(replies[s]) /\
           \A j \in Range(replies[s]) : j[1] = s /\ cmd[j] \in {"LOGIN", "DATA"}
    /\ \A j \in Jobs : state[j] = "ran" /\ cmd[j] \in {"LOGIN", "DATA"} /\ j[1] \in connections_
           => j \in Range(replies[j[1]])

\* A packet that wants an answer gets it, unless the session leaves or the
\* gateway is told to stop. A signal that finds the main thread asleep ends
\* the process, if no worker misses the notification; one that finds it in
\* session_count, queued_count or the logger does not, as the handler or the
\* workers then wait for a mutex that the thread itself holds.
GatewayServes ==
    /\ \A j \in Jobs : cmd[j] \in {"LOGIN", "DATA"} ~>
           (j \in Range(replies[j[1]]) \/ j[1] \in left \/ handler # "none")
    /\ (handler = "log" /\ main = <<>>) ~> (handler = "exited" \/ missed)
    /\ [](handler = "exited" => main = <<>>)

=============================================================================
