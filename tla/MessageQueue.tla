---------------------------- MODULE MessageQueue ----------------------------
(***************************************************************************)
(* MessageQueue (src/base/message_queue): send pushes under mtx_ and       *)
(* notifies after it; recv<T> waits, with or without a timeout. It takes   *)
(* the first message whatever its type, and one that is no T is lost, so   *)
(* that types make no difference to the state. Payloads are left out.      *)
(***************************************************************************)
EXTENDS Naturals, Sequences, FiniteSets

CONSTANTS Receivers, MaxSends, MaxRecvs \* the last two are bounds

VARIABLES queue_,  \* messages, by number
          sent, recvs, \* counters for the bounds
          pending, \* sends that have pushed and not yet notified
          rpc,     \* receiver -> its place in recv
          timed    \* receiver -> whether its call has a timeout

vars == <<queue_, sent, recvs, pending, rpc, timed>>

Init ==
    /\ queue_ = <<>> /\ sent = 0 /\ recvs = 0 /\ pending = 0
    /\ rpc = [r \in Receivers |-> "out"]
    /\ timed = [r \in Receivers |-> FALSE]

\* Fault: send notifies only when the queue was empty.
SendToEmpty ==
    /\ sent < MaxSends
    /\ sent' = sent + 1
    /\ queue_' = Append(queue_, sent + 1)
    /\ pending' = IF queue_ = <<>> THEN pending + 1 ELSE pending
    /\ UNCHANGED <<recvs, rpc, timed>>

Send ==
    /\ sent < MaxSends
    /\ sent' = sent + 1
    /\ queue_' = Append(queue_, sent + 1)
    /\ pending' = pending + 1
    /\ UNCHANGED <<recvs, rpc, timed>>

\* notify_one wakes one waiter, if there is one.
Notify ==
    /\ pending > 0
    /\ pending' = pending - 1
    /\ LET waiting == {r \in Receivers : rpc[r] = "waiting"}
       IN  IF waiting = {} THEN UNCHANGED rpc
           ELSE \E r \in waiting : rpc' = [rpc EXCEPT ![r] = "test"]
    /\ UNCHANGED <<queue_, sent, recvs, timed>>

\* The first message goes to r, or is lost when it is of another type than T.
Pop(r) ==
    /\ queue_' = Tail(queue_)
    /\ rpc' = [rpc EXCEPT ![r] = "out"]
    /\ UNCHANGED <<sent, recvs, pending, timed>>

Recv(r, with_timeout) ==
    /\ rpc[r] = "out" /\ recvs < MaxRecvs
    /\ recvs' = recvs + 1
    /\ timed' = [timed EXCEPT ![r] = with_timeout]
    /\ rpc' = [rpc EXCEPT ![r] = "test"]
    /\ UNCHANGED <<queue_, sent, pending>>

\* The predicate of the wait, with mtx_.
Test(r) ==
    /\ rpc[r] = "test"
    /\ IF queue_ # <<>> THEN Pop(r)
       ELSE /\ rpc' = [rpc EXCEPT ![r] = "waiting"]
            /\ UNCHANGED <<queue_, sent, recvs, pending, timed>>

\* wait_for ends and tests the predicate once more.
Timeout(r) ==
    /\ rpc[r] = "waiting" /\ timed[r]
    /\ IF queue_ # <<>> THEN Pop(r)
       ELSE /\ rpc' = [rpc EXCEPT ![r] = "out"]
            /\ UNCHANGED <<queue_, sent, recvs, pending, timed>>

Spurious(r) ==
    /\ rpc[r] = "waiting"
    /\ rpc' = [rpc EXCEPT ![r] = "test"]
    /\ UNCHANGED <<queue_, sent, recvs, pending, timed>>

\* try_recv, by anyone.
TryRecv ==
    /\ queue_ # <<>>
    /\ queue_' = Tail(queue_)
    /\ UNCHANGED <<sent, recvs, pending, rpc, timed>>

Clear ==
    /\ queue_ # <<>>
    /\ queue_' = <<>>
    /\ UNCHANGED <<sent, recvs, pending, rpc, timed>>

Next ==
    \/ Send \/ Notify \/ TryRecv \/ Clear
    \/ \E r \in Receivers :
        \/ \E with_timeout \in BOOLEAN : Recv(r, with_timeout)
        \/ Test(r) \/ Timeout(r) \/ Spurious(r)

\* A send goes on to its notification, a receiver that may run gets mtx_.
Fairness == WF_vars(Notify) /\ \A r \in Receivers : SF_vars(Test(r))

Spec == Init /\ [][Next]_vars /\ Fairness

-----------------------------------------------------------------------------
(***************************************************************************)
(* Properties                                                              *)
(***************************************************************************)

\* Type invariant.
TypeOK ==
    /\ queue_ \in Seq(1..MaxSends)
    /\ sent \in 0..MaxSends /\ recvs \in 0..MaxRecvs /\ pending \in 0..MaxSends
    /\ rpc \in [Receivers -> {"out", "test", "waiting"}]
    /\ timed \in [Receivers -> BOOLEAN]

\* No message stays in the queue while a receiver sleeps: every message gets
\* its notification, and none of them is lost on a receiver that leaves with
\* another message, times out or finds the queue empty.
NoSleepOnMessages ==
    []TypeOK /\ \A r \in Receivers : (queue_ # <<>> /\ rpc[r] = "waiting") ~>
                                         (queue_ = <<>> \/ rpc[r] # "waiting")

=============================================================================
