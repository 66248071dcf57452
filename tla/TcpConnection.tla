--------------------------- MODULE TcpConnection ----------------------------
(***************************************************************************)
(* network/tcp, one connection: its read thread, its write thread, the     *)
(* threads that call send_packet, and a caller of close() on the side of   *)
(* the server (the heartbeat, stop and close_session, which exclude each   *)
(* other by conn_mutex_ and nobody else).                                  *)
(*                                                                         *)
(* closed_ and sock_ are plain members that these threads read and write   *)
(* without a lock, so close() is cut at each access to them, and a thread  *)
(* makes a system call with the sock_ it loaded before.  The kernel gives  *)
(* a descriptor that was closed to the next socket of the process.         *)
(***************************************************************************)
EXTENDS Naturals, Sequences

CONSTANTS
    Messages,     \* the packets handed to send_packet
    Units,        \* the length of a packet, in the units send works in
    MaxReuse      \* bound: times the descriptor number is given away again

ASSUME ConnectionAssumption ==
    /\ Units \in Nat \ {0}
    /\ MaxReuse \in Nat

VARIABLES
    closed_,
    sock_,         \* "fd", or "invalid" for INVALID_SOCKET
    fd,            \* external: whose socket the descriptor number names
    reuse,         \* external: times the number was given away
    write_queue_,
    accepted,      \* history: the packets send_packet has queued, in order
    wire,          \* external: the units the kernel took for our peer
    msg,           \* the write thread's local msg, one element or none
    sent,          \* send_raw's local sent, in units
    wpc,           \* where the write thread is in write_loop
    reader,        \* where the read thread is in read_loop
    closer,        \* where the server's caller is in close()
    loaded,        \* the sock_ each thread has loaded for its next call, or "none"
    stray          \* history: the threads whose calls hit another connection's
                   \* socket after sock_ was cleared

conn_vars == <<closed_, sock_, fd, reuse, write_queue_, accepted, wire, msg, sent,
          wpc, reader, closer, loaded, stray>>
writeVars == <<write_queue_, accepted, wire, msg, sent>>
callVars == <<loaded, stray>>

Threads == {"reader", "writer", "closer"}

ClosePC == {"mark", "close", "clear"}
ReaderPC == ClosePC \cup {"loop", "recv", "test", "handler", "done"}
WriterPC == {"loop", "lock", "waiting", "blocked", "send", "sending", "done"}

Wake(pc) == IF pc = "blocked" THEN "lock" ELSE pc

\* A call with what thread t has loaded reaches our socket, a stranger's, or
\* none.
Reaches(t, whose) == loaded[t] = "fd" /\ fd = whose

\* The thread is about to make a call on sock_.
AtCall(t) ==
    \/ t = "reader" /\ reader \in {"recv", "close"}
    \/ t = "writer" /\ wpc = "sending"
    \/ t = "closer" /\ closer = "close"

-----------------------------------------------------------------------------
\* start has returned.
ConnInit ==
    /\ closed_ = FALSE
    /\ sock_ = "fd"
    /\ fd = "ours"
    /\ reuse = 0
    /\ write_queue_ = <<>>
    /\ accepted = <<>>
    /\ wire = <<>>
    /\ msg = <<>>
    /\ sent = 0
    /\ wpc = "loop"
    /\ reader = "loop"
    /\ closer = "out"
    /\ loaded = [t \in Threads |-> "none"]
    /\ stray = {}

\* The argument of the call: the value sock_ has now.
Load(t) ==
    /\ AtCall(t)
    /\ loaded[t] = "none"
    /\ loaded' = [loaded EXCEPT ![t] = sock_]
    /\ UNCHANGED <<closed_, sock_, fd, reuse, writeVars, wpc, reader, closer, stray>>

\* The call itself.
Call(t) ==
    /\ loaded[t] # "none"
    /\ loaded' = [loaded EXCEPT ![t] = "none"]
    /\ stray' = IF Reaches(t, "theirs") /\ sock_ = "invalid" THEN stray \cup {t} ELSE stray

\* send_packet, by any thread that gets write_mutex_: it does not look at
\* closed_.
SendPacket(m) ==
    /\ \A i \in 1..Len(accepted) : accepted[i] # m
    /\ wpc # "waiting"
    /\ write_queue_' = Append(write_queue_, m)
    /\ accepted' = Append(accepted, m)
    /\ wpc' = Wake(wpc)
    /\ UNCHANGED <<closed_, sock_, fd, reuse, wire, msg, sent, reader, closer, callVars>>

-----------------------------------------------------------------------------
(***************************************************************************)
(* close(), by the read thread and by the server's caller.  Each part is   *)
(* one thread's step from one place to the next.                           *)
(***************************************************************************)

\* closed_ and status_ are set, and the write thread is notified.
Mark ==
    /\ closed_' = TRUE
    /\ wpc' = Wake(wpc)
    /\ UNCHANGED <<sock_, fd, reuse, writeVars, callVars>>

\* close_socket(sock_), which does nothing for INVALID_SOCKET.
CloseSocket(t) ==
    /\ Call(t)
    /\ fd' = IF loaded[t] = "fd" THEN "free" ELSE fd
    /\ UNCHANGED <<closed_, sock_, reuse, writeVars, wpc>>

\* Fault: sock_ keeps the number of the descriptor.
ClearNothing == UNCHANGED <<closed_, sock_, fd, reuse, writeVars, wpc, callVars>>

\* sock_ = INVALID_SOCKET.
Clear ==
    /\ sock_' = "invalid"
    /\ UNCHANGED <<closed_, fd, reuse, writeVars, wpc, callVars>>

\* if (closed_) return;
Test == UNCHANGED <<closed_, sock_, fd, reuse, writeVars, wpc, callVars>>

\* The server's caller; a heartbeat may come back to a closed connection.
CloserStep ==
    /\ \/ closer = "out" /\ closer' = (IF closed_ THEN "out" ELSE "mark") /\ Test
       \/ closer = "mark" /\ closer' = "close" /\ Mark
       \/ closer = "close" /\ closer' = "clear" /\ CloseSocket("closer")
       \/ closer = "clear" /\ closer' = "out" /\ Clear
    /\ UNCHANGED reader

ReaderClose ==
    /\ \/ reader = "test" /\ reader' = (IF closed_ THEN "handler" ELSE "mark") /\ Test
       \/ reader = "mark" /\ reader' = "close" /\ Mark
       \/ reader = "close" /\ reader' = "clear" /\ CloseSocket("reader")
       \/ reader = "clear" /\ reader' = "handler" /\ Clear
    /\ UNCHANGED closer

-----------------------------------------------------------------------------
(***************************************************************************)
(* read_loop                                                               *)
(***************************************************************************)

ReadLoop ==
    /\ reader = "loop"
    /\ reader' = IF closed_ THEN "test" ELSE "recv"
    /\ UNCHANGED <<closed_, sock_, fd, reuse, writeVars, wpc, closer, callVars>>

\* recv has data, from whichever socket it reached; the packets in it are
\* parsed and handed to on_message_ (PacketStream).
RecvData ==
    /\ reader = "recv"
    /\ Reaches("reader", "ours") \/ Reaches("reader", "theirs")
    /\ reader' = "loop"
    /\ Call("reader")
    /\ UNCHANGED <<closed_, sock_, fd, reuse, writeVars, wpc, closer>>

\* recv has nothing, or fails.
RecvNothing ==
    /\ reader = "recv"
    /\ reader' = "test"
    /\ Call("reader")
    /\ UNCHANGED <<closed_, sock_, fd, reuse, writeVars, wpc, closer>>

\* on_close_ runs.
CloseHandler ==
    /\ reader = "handler"
    /\ reader' = "done"
    /\ UNCHANGED <<closed_, sock_, fd, reuse, writeVars, wpc, closer, callVars>>

-----------------------------------------------------------------------------
(***************************************************************************)
(* write_loop                                                              *)
(***************************************************************************)

WriteLoop ==
    /\ wpc = "loop"
    /\ wpc' = IF closed_ THEN "done" ELSE "lock"
    /\ UNCHANGED <<closed_, sock_, fd, reuse, writeVars, reader, closer, callVars>>

\* The write thread has write_mutex_ and finds a packet ...
WriteTake ==
    /\ wpc = "lock"
    /\ write_queue_ # <<>>
    /\ msg' = <<Head(write_queue_)>>
    /\ write_queue_' = Tail(write_queue_)
    /\ sent' = 0
    /\ wpc' = "send"
    /\ UNCHANGED <<closed_, sock_, fd, reuse, accepted, wire, reader, closer, callVars>>

\* ... or the queue empty.  Then it leaves if closed_ is set, and else will
\* sleep: no packet can be queued before it does, but Mark may come in between.
WriteIdle ==
    /\ wpc = "lock"
    /\ write_queue_ = <<>>
    /\ wpc' = IF closed_ THEN "done" ELSE "waiting"
    /\ UNCHANGED <<closed_, sock_, fd, reuse, writeVars, reader, closer, callVars>>

WriteBlock ==
    /\ wpc = "waiting"
    /\ wpc' = "blocked"
    /\ UNCHANGED <<closed_, sock_, fd, reuse, writeVars, reader, closer, callVars>>

\* Fault: wait in place of wait_for.
WriteNoTimeout ==
    /\ FALSE
    /\ UNCHANGED conn_vars

\* wait_for gives up after a second (or wakes for no reason) and the thread
\* comes round to the predicate again.
WriteTimeout ==
    /\ wpc = "blocked"
    /\ wpc' = "lock"
    /\ UNCHANGED <<closed_, sock_, fd, reuse, writeVars, reader, closer, callVars>>

\* send_raw looks at closed_ once.
SendCheck ==
    /\ wpc = "send"
    /\ wpc' = IF closed_ THEN "done" ELSE "sending"
    /\ UNCHANGED <<closed_, sock_, fd, reuse, writeVars, reader, closer, callVars>>

\* The kernel takes n units of what is left of the packet.
SendSome ==
    /\ wpc = "sending"
    /\ Reaches("writer", "ours") \/ Reaches("writer", "theirs")
    /\ \E n \in 1..Units - sent :
          /\ wire' = IF Reaches("writer", "ours")
                     THEN wire \o [u \in 1..n |-> <<msg[1], sent + u>>]
                     ELSE wire
          /\ sent' = sent + n
          /\ wpc' = IF sent + n = Units THEN "loop" ELSE "sending"
          /\ msg' = IF sent + n = Units THEN <<>> ELSE msg
    /\ Call("writer")
    /\ UNCHANGED <<closed_, sock_, fd, reuse, write_queue_, accepted, reader, closer>>

\* Fault: the write thread goes on with the next packet.
SendSkips ==
    /\ wpc = "sending"
    /\ wpc' = "loop"
    /\ msg' = <<>>
    /\ Call("writer")
    /\ UNCHANGED <<closed_, sock_, fd, reuse, write_queue_, accepted, wire, sent,
                   reader, closer>>

\* send fails, with EAGAIN if the peer is slow: the write thread leaves, and
\* nobody closes the connection.
SendFails ==
    /\ wpc = "sending"
    /\ wpc' = "done"
    /\ Call("writer")
    /\ UNCHANGED <<closed_, sock_, fd, reuse, writeVars, reader, closer>>

-----------------------------------------------------------------------------
\* External: the number of a closed descriptor names the next socket opened.
Reuse ==
    /\ fd = "free"
    /\ reuse < MaxReuse
    /\ fd' = "theirs"
    /\ reuse' = reuse + 1
    /\ UNCHANGED <<closed_, sock_, writeVars, wpc, reader, closer, callVars>>

ReaderStep == Load("reader") \/ ReadLoop \/ RecvData \/ RecvNothing \/ ReaderClose \/ CloseHandler

WriterStep ==
    \/ WriteLoop \/ WriteTake \/ WriteIdle \/ WriteBlock \/ WriteTimeout
    \/ SendCheck \/ Load("writer") \/ SendSome \/ SendFails

ConnNext ==
    \/ \E m \in Messages : SendPacket(m)
    \/ CloserStep \/ Load("closer")
    \/ ReaderStep
    \/ WriterStep
    \/ Reuse

ConnSpec == ConnInit /\ [][ConnNext]_conn_vars

\* Every thread that can run does, and wait_for and the system calls return.
\* A caller inside close() goes on, but nobody has to call it.
ConnFairness ==
    /\ WF_conn_vars(ReaderStep)
    /\ WF_conn_vars(WriterStep)
    /\ WF_conn_vars((CloserStep /\ closer # "out") \/ Load("closer"))

ConnFairSpec == ConnSpec /\ ConnFairness

-----------------------------------------------------------------------------
(***************************************************************************)
(* Properties                                                              *)
(***************************************************************************)

\* Type invariant.
ConnTypeOK ==
    /\ closed_ \in BOOLEAN
    /\ sock_ \in {"fd", "invalid"}
    /\ fd \in {"ours", "free", "theirs"}
    /\ reuse \in 0..MaxReuse
    /\ write_queue_ \in Seq(Messages)
    /\ accepted \in Seq(Messages)
    /\ wire \in Seq(Messages \X (1..Units))
    /\ msg \in Seq(Messages)
    /\ sent \in 0..Units
    /\ wpc \in WriterPC
    /\ reader \in ReaderPC
    /\ closer \in ClosePC \cup {"out"}
    /\ loaded \in [Threads -> {"none", "fd", "invalid"}]
    /\ stray \in SUBSET Threads

\* What the peer gets is a prefix of the packets in the order in which they
\* were queued: none is repeated or skipped, and nothing follows a packet that
\* was cut short.
StreamFraming ==
    /\ ConnTypeOK
    /\ Len(wire) <= Units * Len(accepted)
    /\ \A i \in 1..Len(wire) :
          wire[i] = <<accepted[((i - 1) \div Units) + 1], ((i - 1) % Units) + 1>>

\* The write thread ends once closed_ is set, although close() sets it and
\* notifies without write_mutex_ and the notification may come too early.
WriterEnds == closed_ ~> wpc = "done"

\* A packet that was queued does not stay in the queue while the write thread
\* lives.
PacketsLeave ==
    \A m \in Messages :
        (\E i \in 1..Len(write_queue_) : write_queue_[i] = m)
            ~> (wpc = "done" \/ \A i \in 1..Len(write_queue_) : write_queue_[i] # m)

\* The write thread sends while it may and ends when it must.
WriterServes == WriterEnds /\ PacketsLeave

\* A call of this connection acts on the socket of another one, whose
\* descriptor has the same number, only once close() has begun.  Until sock_ is
\* cleared this happens only while some thread is between close_socket(sock_)
\* and the assignment that follows it; from then on to each thread at most once,
\* with the number it had loaded before.
StrayOncePerThread ==
    [][\A t \in Threads :
         (Reaches(t, "theirs") /\ loaded'[t] = "none") =>
             /\ closed_
             /\ IF sock_ = "fd" THEN "clear" \in {reader, closer} ELSE t \notin stray]_conn_vars

=============================================================================
