----------------------------- MODULE TcpClient ------------------------------
(***************************************************************************)
(* network/tcp, the client: the owner that calls connect and disconnect,   *)
(* the reconnect thread, the two I/O threads and the callers of send.      *)
(*                                                                         *)
(* sock_ is a plain member which all of them use without a lock and read   *)
(* again for every system call.  A call reads it and is made in one step:  *)
(* if the socket is overwritten in between the call might as well have     *)
(* been made before, and if it is closed it fails as it does right after.  *)
(* The socket blocks: a recv under way goes on when another thread closes  *)
(* the descriptor, until the peer sends something or closes.               *)
(***************************************************************************)
EXTENDS Naturals, Sequences

CONSTANTS
    MaxSends,     \* bound: messages handed to send and send_raw, 1, 2, ...
    Units,        \* the length of a message, in the units send works in
    MaxSocks,     \* the descriptors of the process: more sockets there cannot be
    MaxConnects   \* bound: calls of connect

ASSUME ClientAssumption ==
    Units \in Nat \ {0} /\ {MaxSends, MaxSocks, MaxConnects} \subseteq Nat

VARIABLES
    sock_,         \* a socket, or Invalid
    connected_, running_, write_queue_,
    joinable,      \* the std::thread members that hold a thread
    tpc,           \* where each thread is
    rsock,         \* the socket the read thread's recv is on
    msg, sent,     \* the write thread's locals
    checked,       \* the caller of send has passed its test of connected_
    pushed,        \* history: messages pushed
    connects,      \* history: calls of connect
    open,          \* external: the descriptors not closed here
    peer,          \* external: of each socket, "none", "up" or "gone"
    wire,          \* external: the units the kernel took, <<message, unit>>
    raced,         \* history: disconnect began while the reconnect thread was in try_connect
    retried        \* history: the reconnect thread has been in try_connect

client_vars == <<sock_, connected_, running_, write_queue_, joinable, tpc, rsock, msg, sent,
          checked, pushed, connects, open, peer, wire, raced, retried>>
sendVars == <<write_queue_, checked, pushed>>
sockets == <<sock_, open, peer>>
writing == <<msg, sent, wire>>
calls == <<running_, joinable, connects, raced, retried>>

Threads == {"owner", "reconnect", "reader", "writer"}
Trying == {"socket", "connect", "close", "clear", "publish"}
Invalid == 0
Messages == 1..MaxSends
NoMessage == 0

Go(t, place) == tpc' = [tpc EXCEPT ![t] = place]

ClientInit ==
    /\ sock_ = Invalid /\ connected_ = FALSE /\ running_ = FALSE
    /\ write_queue_ = <<>> /\ joinable = {} /\ rsock = Invalid
    /\ tpc = [t \in Threads |-> IF t = "owner" THEN "idle" ELSE "done"]
    /\ msg = NoMessage /\ sent = 0
    /\ checked = FALSE /\ pushed = 0
    /\ connects = 0 /\ open = {}
    /\ peer = [s \in 1..MaxSocks |-> "none"]
    /\ wire = <<>> /\ raced = FALSE /\ retried = FALSE

-----------------------------------------------------------------------------
(***************************************************************************)
(* try_connect, in the owner and in the reconnect thread.  Returned(t, ok) *)
(* is where the thread goes on.                                            *)
(***************************************************************************)

\* Fault: the reconnect thread gives up after a failed attempt.
ReturnedForGood(t, ok) ==
    IF t = "reconnect" THEN (IF ok THEN "loop" ELSE "done")
    ELSE IF ok THEN "threads" ELSE "idle"

Returned(t, ok) ==
    IF t = "reconnect" THEN "loop" ELSE IF ok THEN "threads" ELSE "idle"

\* sock_ = ::socket(...), which may fail.  It gives the first descriptor that is
\* not in use; one that was closed comes again once no recv is on it.
Unused == (1..MaxSocks) \ (open \cup {rsock})

Socket(t) ==
    /\ tpc[t] = "socket"
    /\ \/ \E s \in Unused :
             /\ \A u \in Unused : s <= u
             /\ sock_' = s
             /\ open' = open \cup {s}
             /\ peer' = [peer EXCEPT ![s] = "none"]
             /\ Go(t, "connect")
       \/ sock_' = Invalid /\ Go(t, Returned(t, FALSE)) /\ UNCHANGED <<open, peer>>
    /\ UNCHANGED <<connected_, rsock, calls, sendVars, writing>>

\* ::connect on what sock_ is now: it fails for no socket and for one that is
\* connected already.
ConnectSucceeds(t) ==
    /\ tpc[t] = "connect"
    /\ sock_ \in open /\ peer[sock_] = "none"
    /\ peer' = [peer EXCEPT ![sock_] = "up"]
    /\ Go(t, "publish")
    /\ UNCHANGED <<sock_, connected_, rsock, open, calls, sendVars, writing>>

ConnectFails(t) ==
    /\ tpc[t] = "connect"
    /\ Go(t, "close")
    /\ UNCHANGED <<sockets, connected_, rsock, calls, sendVars, writing>>

\* close_socket(sock_); also in disconnect, which goes on if there is none.
Close(t) ==
    /\ tpc[t] \in {"close", "test"}
    /\ open' = open \ {sock_}
    /\ Go(t, IF tpc[t] = "close" THEN "clear"
             ELSE IF sock_ = Invalid THEN "join" ELSE "unset")
    /\ UNCHANGED <<sock_, peer, connected_, rsock, calls, sendVars, writing>>

\* sock_ = INVALID_SOCKET.
Clear(t) ==
    /\ tpc[t] \in {"clear", "unset"}
    /\ sock_' = Invalid
    /\ Go(t, IF tpc[t] = "unset" THEN "join" ELSE Returned(t, FALSE))
    /\ UNCHANGED <<open, peer, connected_, rsock, calls, sendVars, writing>>

\* connected_.store(true)
Publish(t) ==
    /\ tpc[t] = "publish"
    /\ connected_' = TRUE
    /\ Go(t, Returned(t, TRUE))
    /\ UNCHANGED <<sockets, rsock, calls, sendVars, writing>>

TryConnect(t) ==
    Socket(t) \/ ConnectSucceeds(t) \/ ConnectFails(t) \/ Close(t) \/ Clear(t) \/ Publish(t)

-----------------------------------------------------------------------------
\* reconnect_loop: while (running_) { sleep; if (!connected_ && running_) ... }
ReconnectLoop ==
    /\ tpc["reconnect"] = "loop"
    /\ Go("reconnect", IF running_ THEN "check" ELSE "done")
    /\ UNCHANGED <<sockets, connected_, rsock, calls, sendVars, writing>>

\* Fault: running_ is not looked at again after the sleep.
CheckConnectedOnly ==
    /\ tpc["reconnect"] = "check"
    /\ Go("reconnect", IF ~connected_ THEN "socket" ELSE "loop")
    /\ retried' = (retried \/ tpc'["reconnect"] = "socket")
    /\ UNCHANGED <<sockets, connected_, rsock, running_, joinable, connects, raced, sendVars,
                   writing>>

ReconnectCheck ==
    /\ tpc["reconnect"] = "check"
    /\ Go("reconnect", IF ~connected_ /\ running_ THEN "socket" ELSE "loop")
    /\ retried' = (retried \/ tpc'["reconnect"] = "socket")
    /\ UNCHANGED <<sockets, connected_, rsock, running_, joinable, connects, raced, sendVars,
                   writing>>

-----------------------------------------------------------------------------
(***************************************************************************)
(* connect and disconnect.  A call of connect while read_thread_ still     *)
(* holds a thread ends the process and is left out.                        *)
(***************************************************************************)

Connect ==
    /\ tpc["owner"] = "idle" /\ connects < MaxConnects
    /\ joinable \cap {"reader", "writer"} = {}
    /\ connects' = connects + 1
    /\ running_' = TRUE
    /\ joinable' = joinable \cup {"reconnect"}
    /\ tpc' = [tpc EXCEPT !["owner"] = "socket",
                        !["reconnect"] = IF running_ THEN @ ELSE "loop"]
    /\ UNCHANGED <<sockets, connected_, raced, retried, rsock, sendVars, writing>>

\* read_thread_ and write_thread_ are started; connect returns true.
StartThreads ==
    /\ tpc["owner"] = "threads"
    /\ joinable' = joinable \cup {"reader", "writer"}
    /\ tpc' = [tpc EXCEPT !["owner"] = "idle", !["reader"] = "loop", !["writer"] = "loop"]
    /\ UNCHANGED <<sockets, connected_, running_, connects, raced, retried, rsock, sendVars, writing>>

\* Fault: disconnect does not tell the reconnect thread.
DisconnectQuietly ==
    /\ tpc["owner"] = "idle" /\ running_
    /\ raced' = (tpc["reconnect"] \in Trying)
    /\ Go("owner", "mark")
    /\ UNCHANGED <<sockets, connected_, running_, joinable, connects, retried, rsock, sendVars, writing>>

\* disconnect: running_.store(false), if it was set.
Disconnect ==
    /\ tpc["owner"] = "idle" /\ running_
    /\ running_' = FALSE
    /\ raced' = (tpc["reconnect"] \in Trying)
    /\ Go("owner", "mark")
    /\ UNCHANGED <<sockets, connected_, joinable, connects, retried, rsock, sendVars, writing>>

\* connected_.store(false); Close and Clear follow, then the notification,
\* which only ends a wait that has a timeout.
Unmark ==
    /\ tpc["owner"] = "mark"
    /\ connected_' = FALSE
    /\ Go("owner", "test")
    /\ UNCHANGED <<sockets, rsock, calls, sendVars, writing>>

\* The three joins, and on_close_.
JoinAll ==
    /\ tpc["owner"] = "join"
    /\ \A t \in joinable : tpc[t] = "done"
    /\ joinable' = {}
    /\ Go("owner", "idle")
    /\ UNCHANGED <<sockets, connected_, running_, connects, raced, retried, rsock, sendVars, writing>>

-----------------------------------------------------------------------------
\* send and send_raw: the test of connected_, then the push under write_mutex_.
SendTest ==
    /\ ~checked /\ connected_ /\ pushed < MaxSends
    /\ checked' = TRUE
    /\ UNCHANGED <<sockets, connected_, tpc, rsock, calls, write_queue_, pushed, writing>>

SendPush ==
    /\ checked
    /\ checked' = FALSE
    /\ pushed' = pushed + 1
    /\ write_queue_' = Append(write_queue_, pushed')
    /\ UNCHANGED <<sockets, connected_, tpc, rsock, calls, writing>>

-----------------------------------------------------------------------------
(***************************************************************************)
(* read_loop.  How the bytes are cut into messages is in PacketStream.     *)
(***************************************************************************)

\* while (connected_) recv(sock_): it fails at once without a connection.
ReadLoop ==
    /\ tpc["reader"] = "loop"
    /\ IF connected_ /\ sock_ \in open /\ peer[sock_] # "none"
         THEN rsock' = sock_ /\ Go("reader", "recv")
         ELSE UNCHANGED rsock /\ Go("reader", IF connected_ THEN "lost" ELSE "end")
    /\ UNCHANGED <<sockets, connected_, calls, sendVars, writing>>

\* recv returns data (the peer may have sent it before it closed), or not.
Recv ==
    /\ tpc["reader"] = "recv"
    /\ \/ Go("reader", "loop")
       \/ peer[rsock] = "gone" /\ Go("reader", "lost")
    /\ rsock' = Invalid
    /\ UNCHANGED <<sockets, connected_, calls, sendVars, writing>>

\* connected_.store(false), after a failed recv and again after the loop.
ReadEnds ==
    /\ tpc["reader"] \in {"lost", "end"}
    /\ connected_' = FALSE
    /\ Go("reader", IF tpc["reader"] = "lost" THEN "end" ELSE "done")
    /\ UNCHANGED <<sockets, rsock, calls, sendVars, writing>>

-----------------------------------------------------------------------------
(***************************************************************************)
(* write_loop                                                              *)
(***************************************************************************)

WriteLoop ==
    /\ tpc["writer"] = "loop"
    /\ Go("writer", IF connected_ THEN "take" ELSE "done")
    /\ UNCHANGED <<sockets, connected_, rsock, calls, sendVars, writing>>

\* Fault: the message stays at the front of the queue.
TakeFront ==
    /\ tpc["writer"] = "take"
    /\ write_queue_ # <<>> \/ ~connected_
    /\ IF write_queue_ = <<>>
         THEN Go("writer", "done") /\ UNCHANGED <<msg, sent>>
         ELSE msg' = Head(write_queue_) /\ sent' = 0 /\ Go("writer", "send")
    /\ UNCHANGED <<sockets, connected_, rsock, calls, sendVars, wire>>

\* The wait, which a timeout may end to no effect, and the critical section.
TakeMessage ==
    /\ tpc["writer"] = "take"
    /\ write_queue_ # <<>> \/ ~connected_
    /\ IF write_queue_ = <<>>
         THEN Go("writer", "done") /\ UNCHANGED <<write_queue_, msg, sent>>
         ELSE /\ msg' = Head(write_queue_) /\ sent' = 0
              /\ write_queue_' = Tail(write_queue_)
              /\ Go("writer", "send")
    /\ UNCHANGED <<sockets, connected_, rsock, calls, checked, pushed, wire>>

\* The locals of one round go out of scope.
Drop == msg' = NoMessage /\ sent' = 0

\* ::send(sock_, ...) takes a part of the message, or fails.
Send ==
    /\ tpc["writer"] = "send"
    /\ \/ /\ sock_ \in open /\ peer[sock_] # "none"
          /\ wire' = Append(wire, <<msg, sent + 1>>)
          /\ IF sent + 1 = Units THEN Go("writer", "loop") /\ Drop
             ELSE Go("writer", "send") /\ sent' = sent + 1 /\ UNCHANGED msg
       \/ /\ ~(sock_ \in open /\ peer[sock_] = "up")
          /\ Go("writer", "fail")
          /\ UNCHANGED writing
    /\ UNCHANGED <<sockets, connected_, rsock, calls, sendVars>>

\* connected_.store(false); break: the rest of the message is dropped.
SendFailed ==
    /\ tpc["writer"] = "fail"
    /\ connected_' = FALSE
    /\ Go("writer", "loop")
    /\ Drop
    /\ UNCHANGED <<sockets, rsock, calls, sendVars, wire>>

-----------------------------------------------------------------------------
\* external: the peer closes a connection.
PeerCloses(s) ==
    /\ peer[s] = "up"
    /\ peer' = [peer EXCEPT ![s] = "gone"]
    /\ UNCHANGED <<sock_, open, connected_, tpc, rsock, calls, sendVars, writing>>

CallerStep == TryConnect("owner") \/ StartThreads \/ Unmark \/ JoinAll
ReconnectStep == TryConnect("reconnect") \/ ReconnectLoop \/ ReconnectCheck
ReaderStep == ReadLoop \/ Recv \/ ReadEnds
WriterStep == WriteLoop \/ TakeMessage \/ Send \/ SendFailed

ClientNext ==
    \/ CallerStep \/ ReconnectStep \/ ReaderStep \/ WriterStep
    \/ Connect \/ Disconnect
    \/ SendTest \/ SendPush
    \/ \E s \in 1..MaxSocks : PeerCloses(s)

\* Every thread goes on; recv on a connection whose peer has gone comes to the
\* end of the data; a server that is asked again and again accepts.
ClientFairness ==
    /\ WF_client_vars(CallerStep) /\ WF_client_vars(ReconnectStep)
    /\ WF_client_vars(ReaderStep) /\ WF_client_vars(WriterStep)
    /\ SF_client_vars(Recv /\ tpc'["reader"] = "lost")
    /\ SF_client_vars(Socket("reconnect") /\ sock_' # Invalid)
    /\ SF_client_vars(ConnectSucceeds("reconnect"))

ClientSpec == ClientInit /\ [][ClientNext]_client_vars /\ ClientFairness

-----------------------------------------------------------------------------
(***************************************************************************)
(* Properties                                                              *)
(***************************************************************************)

ClientTypeOK ==
    /\ sock_ \in 0..MaxSocks /\ rsock \in 0..MaxSocks
    /\ connected_ \in BOOLEAN /\ running_ \in BOOLEAN
    /\ raced \in BOOLEAN /\ retried \in BOOLEAN
    /\ write_queue_ \in Seq(Messages) /\ checked \in BOOLEAN /\ pushed \in 0..MaxSends
    /\ joinable \subseteq Threads
    /\ DOMAIN tpc = Threads
    /\ tpc["owner"] \in Trying \cup {"idle", "threads", "mark", "test", "unset", "join"}
    /\ tpc["reconnect"] \in Trying \cup {"loop", "check", "done"}
    /\ tpc["reader"] \in {"loop", "recv", "lost", "end", "done"}
    /\ tpc["writer"] \in {"loop", "take", "send", "fail", "done"}
    /\ msg \in Messages \cup {NoMessage} /\ sent \in 0..Units
    /\ connects \in 0..MaxConnects /\ open \subseteq 1..MaxSocks
    /\ peer \in [1..MaxSocks -> {"none", "up", "gone"}]
    /\ wire \in Seq(Messages \X (1..Units))

\* Over all the connections of a client, messages leave in the order in which
\* send pushed them, none twice, and of each one a prefix without a gap: a
\* failed ::send drops the rest for good.  (Two units of one message may
\* be on two sockets, because ::send reads sock_ again.)
WireInOrder ==
    /\ ClientTypeOK
    /\ \A i \in 1..Len(wire) :
          \/ wire[i][2] = 1 /\ \A j \in 1..(i - 1) : wire[j][1] < wire[i][1]
          \/ wire[i][2] > 1 /\ i > 1 /\ wire[i - 1] = <<wire[i][1], wire[i][2] - 1>>

\* After disconnect has returned the client is not connected, has no socket
\* and runs no thread, unless the reconnect thread was in try_connect when it
\* began: that attempt ends after the store to connected_ and may leave a
\* connection behind.  And no descriptor is left open unless the reconnect
\* thread has tried to connect in the life of the client: the socket it
\* replaces in sock_ is never closed.
DisconnectLeavesNothing ==
    (tpc["owner"] = "idle" /\ connects > 0 /\ ~running_ /\ ~raced) =>
        /\ ~connected_ /\ sock_ = Invalid /\ joinable = {}
        /\ \A t \in Threads \ {"owner"} : tpc[t] = "done"
        /\ ~retried => open = {}

\* disconnect returns, provided that the peers close in the end (its joins wait
\* for a read thread that may be in recv) and that it did not begin during an
\* attempt to reconnect (which can set connected_ again for good, and with it
\* keep the write thread in its loop).
DisconnectReturns ==
    ([]<>(\A s \in 1..MaxSocks : peer[s] # "up")) =>
        ((tpc["owner"] = "mark" /\ ~raced) ~> tpc["owner"] = "idle")

\* The descriptors that are open and that nobody can close any more.
Lost == open \ {sock_}

\* A client that notices the loss of its connection is connected again in the
\* end, however often an attempt fails (TEST.md, case 9.2), or it is told to
\* disconnect, or the sockets it has replaced and not closed have used up the
\* descriptors of the process.
Reconnects ==
    (running_ /\ ~connected_) ~> (connected_ \/ ~running_ \/ Lost = 1..MaxSocks)

=============================================================================
