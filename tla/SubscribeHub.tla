---------------------------- MODULE SubscribeHub ----------------------------
(***************************************************************************)
(* SubscribeHub (src/base/message_queue/message_queue.h) for one topic.    *)
(* subscribe draws its id before it takes hub_mtx_, a load and a store, so *)
(* that two subscribers may draw the same; publish runs the callbacks with *)
(* hub_mtx_. A callback that calls the hub would wait for its own mutex:   *)
(* the callbacks of this model do not.                                     *)
(***************************************************************************)
EXTENDS Naturals, Sequences

CONSTANTS Subscribers, MaxPublishes \* bound

VARIABLES next_sub_id_,
          callbacks_, \* the subscribers, with their ids
          spc,        \* subscriber -> its place
          id,         \* subscriber -> the id it has drawn
          publishing, \* publish holds hub_mtx_
          todo,       \* callbacks that publish has yet to run
          publishes   \* how often publish was called

vars == <<next_sub_id_, callbacks_, spc, id, publishing, todo, publishes>>

Init ==
    /\ next_sub_id_ = 1 /\ callbacks_ = <<>>
    /\ spc = [s \in Subscribers |-> "new"]
    /\ id = [s \in Subscribers |-> 0]
    /\ publishing = FALSE /\ todo = <<>> /\ publishes = 0

\* subscribe: next_sub_id_++ loads...
Load(s) ==
    /\ spc[s] = "new"
    /\ id' = [id EXCEPT ![s] = next_sub_id_]
    /\ spc' = [spc EXCEPT ![s] = "store"]
    /\ UNCHANGED <<next_sub_id_, callbacks_, publishing, todo, publishes>>

\* ... and stores.
Store(s) ==
    /\ spc[s] = "store"
    /\ next_sub_id_' = id[s] + 1
    /\ spc' = [spc EXCEPT ![s] = "push"]
    /\ UNCHANGED <<callbacks_, id, publishing, todo, publishes>>

Push(s) ==
    /\ spc[s] = "push" /\ ~publishing
    /\ callbacks_' = Append(callbacks_, [id |-> id[s], sub |-> s])
    /\ spc' = [spc EXCEPT ![s] = "in"]
    /\ UNCHANGED <<next_sub_id_, id, publishing, todo, publishes>>

\* unsubscribe erases the first entry with the id, if there is one.
Unsubscribe(s) ==
    /\ spc[s] = "in" /\ ~publishing
    /\ LET found == {i \in 1..Len(callbacks_) : callbacks_[i].id = id[s]}
       IN  IF found = {} THEN UNCHANGED callbacks_
           ELSE \E i \in found :
                    /\ \A k \in found : i <= k
                    /\ callbacks_' = SubSeq(callbacks_, 1, i - 1)
                                       \o SubSeq(callbacks_, i + 1, Len(callbacks_))
    /\ spc' = [spc EXCEPT ![s] = "gone"]
    /\ UNCHANGED <<next_sub_id_, id, publishing, todo, publishes>>

\* Fault: publish runs the callbacks of a copy, without hub_mtx_.
PublishCopy ==
    /\ ~publishing /\ todo = <<>> /\ publishes < MaxPublishes
    /\ todo' = callbacks_
    /\ publishes' = publishes + 1
    /\ UNCHANGED <<next_sub_id_, callbacks_, spc, id, publishing>>

Publish ==
    /\ ~publishing /\ publishes < MaxPublishes
    /\ publishing' = TRUE
    /\ todo' = callbacks_
    /\ publishes' = publishes + 1
    /\ UNCHANGED <<next_sub_id_, callbacks_, spc, id>>

\* A callback runs; what it throws is caught.
Call ==
    /\ todo # <<>>
    /\ todo' = Tail(todo)
    /\ UNCHANGED <<next_sub_id_, callbacks_, spc, id, publishing, publishes>>

Return ==
    /\ publishing /\ todo = <<>>
    /\ publishing' = FALSE
    /\ UNCHANGED <<next_sub_id_, callbacks_, spc, id, todo, publishes>>

Next ==
    \/ Publish \/ Call \/ Return
    \/ \E s \in Subscribers : Load(s) \/ Store(s) \/ Push(s) \/ Unsubscribe(s)

Spec == Init /\ [][Next]_vars

-----------------------------------------------------------------------------
(***************************************************************************)
(* Properties                                                              *)
(***************************************************************************)

\* Type invariant.
TypeOK ==
    /\ next_sub_id_ \in Nat
    /\ callbacks_ \in Seq([id : Nat, sub : Subscribers])
    /\ spc \in [Subscribers -> {"new", "store", "push", "in", "gone"}]
    /\ id \in [Subscribers -> Nat]
    /\ publishing \in BOOLEAN
    /\ todo \in Seq([id : Nat, sub : Subscribers])
    /\ publishes \in 0..MaxPublishes

\* A subscriber whose id nobody shares is called as long as it has not
\* unsubscribed, and never after unsubscribe has returned, not even by a
\* publish that was under way. (With a shared id, unsubscribe may remove the
\* other one.)
SilentAfterUnsubscribe ==
    TypeOK /\ \A s \in Subscribers :
        (\A u \in Subscribers \ {s} : id[u] # id[s]) =>
            /\ (\E i \in 1..Len(callbacks_) : callbacks_[i].sub = s) <=> spc[s] = "in"
            /\ spc[s] = "gone" => \A i \in 1..Len(todo) : todo[i].sub # s

=============================================================================
