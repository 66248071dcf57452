-------------------------- MODULE ObserversProofs ---------------------------
(***************************************************************************)
(* Proofs about SubscribeHub and Monitor, for any numbers of subscribers,  *)
(* callers and calls; and about TcpConnection, for any set of packets, any *)
(* packet length and any number of times the descriptor is given away.     *)
(***************************************************************************)
EXTENDS Observers, TcpConnection, Integers, FiniteSetTheorems, SequenceTheorems, TLAPS

-----------------------------------------------------------------------------
(***************************************************************************)
(* Facts about sequences.                                                  *)
(***************************************************************************)

\* The empty sequence.
LEMMA NoElements ==
    ASSUME NEW T
    PROVE  /\ <<>> \in Seq(T) /\ Len(<<>>) = 0
           /\ \A q \in Seq(T) : q # <<>> => Len(q) \in Nat \ {0}
OBVIOUS

\* A sequence is a function on the numbers up to its length.
LEMMA SeqFacts ==
    ASSUME NEW T, NEW q \in Seq(T)
    PROVE  Len(q) \in Nat /\ DOMAIN q = 1..Len(q) /\ \A i \in 1..Len(q) : q[i] \in T
OBVIOUS

\* Two sequences one after the other.
LEMMA ConcatFacts ==
    ASSUME NEW T, NEW q \in Seq(T), NEW r \in Seq(T)
    PROVE  /\ q \o r \in Seq(T) /\ Len(q \o r) = Len(q) + Len(r)
           /\ \A i \in 1..(Len(q) + Len(r)) :
                 (q \o r)[i] = IF i <= Len(q) THEN q[i] ELSE r[i - Len(q)]
OBVIOUS

\* A part of a sequence.
LEMMA PartFacts ==
    ASSUME NEW T, NEW q, NEW m \in Int, NEW n \in Int, \A i \in m..n : q[i] \in T
    PROVE  /\ SubSeq(q, m, n) \in Seq(T)
           /\ Len(SubSeq(q, m, n)) = IF m <= n THEN n - m + 1 ELSE 0
           /\ \A i \in 1..(n - m + 1) : SubSeq(q, m, n)[i] = q[m + i - 1]
OBVIOUS

\* A sequence without its first element.
LEMMA TailFacts ==
    ASSUME NEW T, NEW q \in Seq(T), q # <<>>
    PROVE  /\ Len(q) \in Nat \ {0} /\ Head(q) = q[1] /\ Head(q) \in T /\ Tail(q) \in Seq(T)
           /\ Len(Tail(q)) = Len(q) - 1
           /\ \A i \in 1..Len(Tail(q)) : i + 1 \in 1..Len(q) /\ Tail(q)[i] = q[i + 1]
OBVIOUS

\* A sequence with an element put in front.
LEMMA FrontFacts ==
    ASSUME NEW T, NEW q \in Seq(T), NEW x \in T
    PROVE  /\ <<x>> \o q \in Seq(T) /\ Len(q) \in Nat /\ Len(<<x>> \o q) = Len(q) + 1
           /\ (<<x>> \o q)[1] = x
           /\ \A i \in 1..Len(q) : (<<x>> \o q)[i + 1] = q[i]
           /\ \A i \in 2..(Len(q) + 1) : i - 1 \in 1..Len(q) /\ (<<x>> \o q)[i] = q[i - 1]
<1>1. <<x>> \in Seq(T) /\ Len(<<x>>) = 1 /\ <<x>>[1] = x /\ Len(q) \in Nat
  BY SeqFacts
<1>2. /\ <<x>> \o q \in Seq(T) /\ Len(<<x>> \o q) = 1 + Len(q)
      /\ \A i \in 1..(1 + Len(q)) : (<<x>> \o q)[i] = IF i <= 1 THEN <<x>>[i] ELSE q[i - 1]
  BY <1>1, ConcatFacts
<1> QED
  BY <1>1, <1>2

\* A sequence with an element put behind it.
LEMMA BackFacts ==
    ASSUME NEW T, NEW q \in Seq(T), NEW x \in T
    PROVE  /\ Append(q, x) \in Seq(T) /\ Len(q) \in Nat /\ Len(Append(q, x)) = Len(q) + 1
           /\ Append(q, x)[Len(q) + 1] = x
           /\ \A i \in 1..Len(q) : Append(q, x)[i] = q[i]
OBVIOUS

Without(q, k) == SubSeq(q, 1, k - 1) \o SubSeq(q, k + 1, Len(q))

\* A sequence without its k-th element.
LEMMA RemoveFacts ==
    ASSUME NEW T, NEW q \in Seq(T), NEW k \in 1..Len(q)
    PROVE  /\ Without(q, k) \in Seq(T) /\ Len(q) \in Nat /\ Len(Without(q, k)) = Len(q) - 1
           /\ \A i \in 1..(Len(q) - 1) : Without(q, k)[i] = IF i < k THEN q[i] ELSE q[i + 1]
<1> DEFINE left == SubSeq(q, 1, k - 1)
           right == SubSeq(q, k + 1, Len(q))
<1>1. Len(q) \in Nat /\ \A i \in 1..Len(q) : q[i] \in T
  BY SeqFacts
<1>2. /\ left \in Seq(T) /\ Len(left) = k - 1
      /\ \A i \in 1..(k - 1) : left[i] = q[i]
  <2>1. \A i \in 1..(k - 1) : q[i] \in T
    BY <1>1
  <2> QED
    BY <1>1, <2>1, PartFacts
<1>3. /\ right \in Seq(T) /\ Len(right) = Len(q) - k
      /\ \A i \in 1..(Len(q) - k) : right[i] = q[k + i]
  <2>1. \A i \in (k + 1)..Len(q) : q[i] \in T
    BY <1>1
  <2>2. /\ right \in Seq(T) /\ Len(right) = IF k + 1 <= Len(q) THEN Len(q) - (k + 1) + 1 ELSE 0
        /\ \A i \in 1..(Len(q) - (k + 1) + 1) : right[i] = q[(k + 1) + i - 1]
    BY <1>1, <2>1, PartFacts
  <2> QED
    BY <1>1, <2>2
<1> HIDE DEF left, right
<1>4. /\ left \o right \in Seq(T) /\ Len(left \o right) = Len(q) - 1
      /\ \A i \in 1..(Len(q) - 1) :
            (left \o right)[i] = IF i <= k - 1 THEN left[i] ELSE right[i - (k - 1)]
  <2>1. /\ left \o right \in Seq(T) /\ Len(left \o right) = Len(left) + Len(right)
        /\ \A i \in 1..(Len(left) + Len(right)) :
              (left \o right)[i] = IF i <= Len(left) THEN left[i] ELSE right[i - Len(left)]
    BY <1>2, <1>3, ConcatFacts
  <2>2. k \in Int /\ Len(left) + Len(right) = Len(q) - 1
    BY <1>1, <1>2, <1>3
  <2> QED
    BY <1>2, <2>1, <2>2
<1>5. \A i \in 1..(Len(q) - 1) : (left \o right)[i] = IF i < k THEN q[i] ELSE q[i + 1]
  <2> TAKE i \in 1..(Len(q) - 1)
  <2>1. CASE i < k
    BY <1>1, <1>2, <1>4, <2>1
  <2>2. CASE ~(i < k)
    <3>1. i - (k - 1) \in 1..(Len(q) - k) /\ ~(i <= k - 1)
      BY <1>1, <2>2
    <3>2. right[i - (k - 1)] = q[k + (i - (k - 1))] /\ k + (i - (k - 1)) = i + 1
      BY <1>1, <1>3, <3>1
    <3> QED
      BY <1>4, <2>2, <3>1, <3>2
  <2> QED
    BY <2>1, <2>2
<1> QED
  BY <1>1, <1>4, <1>5 DEF Without, left, right

-----------------------------------------------------------------------------
(***************************************************************************)
(* The hub.  An entry carries the id its subscriber has drawn, a           *)
(* subscriber has one entry at most, and what publish has yet to call is   *)
(* in callbacks_, which hub_mtx_ keeps as it is until publish returns.     *)
(***************************************************************************)

Entries == [id : Nat, sub : Subscribers]

HubTyped ==
    /\ next_sub_id_ \in Nat \ {0}
    /\ callbacks_ \in Seq(Entries) /\ callees \in Seq(Entries)
    /\ spc \in [Subscribers -> {"new", "store", "push", "in", "gone"}]
    /\ id \in [Subscribers -> Nat]
    /\ publishes \in 0..MaxPublishes

Alone(s) == \A u \in Subscribers \ {s} : id[u] # id[s]

HubInv ==
    /\ \A s \in Subscribers : spc[s] = "new" <=> id[s] = 0
    /\ \A i \in 1..Len(callbacks_) :
           /\ callbacks_[i].id = id[callbacks_[i].sub]
           /\ spc[callbacks_[i].sub] \in {"in", "gone"}
    /\ \A i, k \in 1..Len(callbacks_) : callbacks_[i].sub = callbacks_[k].sub => i = k
    /\ \A s \in Subscribers : Alone(s) =>
           ((\E i \in 1..Len(callbacks_) : callbacks_[i].sub = s) <=> spc[s] = "in")
    /\ \A i \in 1..Len(callees) : \E k \in 1..Len(callbacks_) : callbacks_[k] = callees[i]
    /\ callees # <<>> => publishing

\* An entry is of a subscriber.
LEMMA EntryOf ==
    HubTyped => \A i \in 1..Len(callbacks_) : callbacks_[i] \in Entries /\ callbacks_[i].sub \in Subscribers
<1> SUFFICES ASSUME HubTyped, NEW i \in 1..Len(callbacks_)
             PROVE  callbacks_[i] \in Entries /\ callbacks_[i].sub \in Subscribers
  OBVIOUS
<1>1. callbacks_[i] \in Entries
  BY SeqFacts DEF HubTyped
<1> QED
  BY <1>1 DEF Entries

\* A subscriber that draws an id, or stores the next one, is not in the list.
LEMMA HubDraws ==
    ASSUME HubTyped, HubInv, NEW s \in Subscribers, H!Load(s) \/ H!Store(s)
    PROVE  HubTyped' /\ HubInv'
<1>1. CASE H!Load(s)
  <2>1. /\ spc[s] = "new" /\ id' = [id EXCEPT ![s] = next_sub_id_]
        /\ spc' = [spc EXCEPT ![s] = "store"]
        /\ UNCHANGED <<next_sub_id_, callbacks_, publishing, callees, publishes>>
    BY <1>1 DEF H!Load
  <2>2. HubTyped'
    BY <2>1 DEF HubTyped
  <2>3. /\ id'[s] = next_sub_id_ /\ spc'[s] = "store" /\ id'[s] # 0 /\ id[s] = 0
        /\ \A u \in Subscribers : u # s => id'[u] = id[u] /\ spc'[u] = spc[u]
    BY <2>1 DEF HubTyped, HubInv
  <2>4. \A i \in 1..Len(callbacks_) : callbacks_[i].sub \in Subscribers /\ callbacks_[i].sub # s
    BY <2>1, EntryOf DEF HubInv
  <2>5. \A u \in Subscribers : u # s /\ spc[u] # "new" /\ Alone(u)' => Alone(u)
    BY <2>3 DEF Alone, HubInv
  <2>6. \A u \in Subscribers : Alone(u)' =>
           ((\E i \in 1..Len(callbacks_) : callbacks_[i].sub = u) <=> spc'[u] = "in")
    <3> SUFFICES ASSUME NEW u \in Subscribers, Alone(u)'
                 PROVE  (\E i \in 1..Len(callbacks_) : callbacks_[i].sub = u) <=> spc'[u] = "in"
      OBVIOUS
    <3>1. CASE u = s
      BY <2>3, <2>4, <3>1
    <3>2. CASE u # s /\ spc[u] = "new"
      BY <2>3, <3>2 DEF HubInv
    <3>3. CASE u # s /\ spc[u] # "new"
      BY <2>3, <2>5, <3>3 DEF HubInv
    <3> QED
      BY <3>1, <3>2, <3>3
  <2>7. \A i \in 1..Len(callbacks_) :
           callbacks_[i].id = id'[callbacks_[i].sub] /\ spc'[callbacks_[i].sub] \in {"in", "gone"}
    BY <2>3, <2>4 DEF HubInv
  <2>8. \A u \in Subscribers : spc'[u] = "new" <=> id'[u] = 0
    BY <2>3 DEF HubInv
  <2> QED
    BY <2>1, <2>2, <2>6, <2>7, <2>8 DEF HubInv
<1>2. CASE H!Store(s)
  <2>1. /\ spc[s] = "store" /\ next_sub_id_' = id[s] + 1
        /\ spc' = [spc EXCEPT ![s] = "push"]
        /\ UNCHANGED <<id, callbacks_, publishing, callees, publishes>>
    BY <1>2 DEF H!Store
  <2>2. HubTyped'
    BY <2>1 DEF HubTyped
  <2>3. spc'[s] = "push" /\ \A u \in Subscribers : u # s => spc'[u] = spc[u]
    BY <2>1 DEF HubTyped
  <2>4. \A i \in 1..Len(callbacks_) : callbacks_[i].sub \in Subscribers /\ callbacks_[i].sub # s
    BY <2>1, EntryOf DEF HubInv
  <2>5. \A u : Alone(u)' <=> Alone(u)
    BY <2>1 DEF Alone
  <2> QED
    BY <2>1, <2>2, <2>3, <2>4, <2>5 DEF HubInv
<1> QED
  BY <1>1, <1>2

\* A subscriber enters itself, once.
LEMMA HubPushes ==
    ASSUME HubTyped, HubInv, NEW s \in Subscribers, H!Push(s)
    PROVE  HubTyped' /\ HubInv'
<1> DEFINE entry == [id |-> id[s], sub |-> s]
<1>1. /\ spc[s] = "push" /\ ~publishing /\ callbacks_' = Append(callbacks_, entry)
      /\ spc' = [spc EXCEPT ![s] = "in"]
      /\ UNCHANGED <<next_sub_id_, id, publishing, callees, publishes>>
  BY DEF H!Push
<1>2. entry \in Entries /\ entry.id = id[s] /\ entry.sub = s
  BY DEF Entries, HubTyped
<1> HIDE DEF entry
<1>3. /\ callbacks_' \in Seq(Entries) /\ Len(callbacks_') = Len(callbacks_) + 1
      /\ Len(callbacks_) \in Nat /\ callbacks_'[Len(callbacks_) + 1] = entry
      /\ \A i \in 1..Len(callbacks_) : callbacks_'[i] = callbacks_[i]
  BY <1>1, <1>2, BackFacts DEF HubTyped
<1>4. HubTyped'
  BY <1>1, <1>3 DEF HubTyped
<1>5. spc'[s] = "in" /\ \A u \in Subscribers : u # s => spc'[u] = spc[u]
  BY <1>1 DEF HubTyped
<1>6. \A i \in 1..Len(callbacks_) : callbacks_[i].sub \in Subscribers /\ callbacks_[i].sub # s
  BY <1>1, EntryOf DEF HubInv
<1>7. \A i \in 1..Len(callbacks_') : i \in 1..Len(callbacks_) \/ i = Len(callbacks_) + 1
  BY <1>3
<1>8. callees = <<>> /\ Len(callees) = 0
  BY <1>1 DEF HubInv
<1>9. \A i \in 1..Len(callbacks_') :
         /\ callbacks_'[i].id = id'[callbacks_'[i].sub]
         /\ spc'[callbacks_'[i].sub] \in {"in", "gone"}
  BY <1>1, <1>2, <1>3, <1>5, <1>6, <1>7 DEF HubInv
<1>10. \A i, k \in 1..Len(callbacks_') : callbacks_'[i].sub = callbacks_'[k].sub => i = k
  <2>1. \A i, k \in 1..Len(callbacks_) : callbacks_[i].sub = callbacks_[k].sub => i = k
    BY DEF HubInv
  <2>2. \A i \in 1..Len(callbacks_) : callbacks_'[i].sub = callbacks_[i].sub /\ callbacks_'[i].sub # s
    BY <1>3, <1>6
  <2>3. callbacks_'[Len(callbacks_) + 1].sub = s
    BY <1>2, <1>3
  <2> QED
    BY <1>7, <2>1, <2>2, <2>3
<1>11. \A u \in Subscribers : Alone(u)' =>
         ((\E i \in 1..Len(callbacks_') : callbacks_'[i].sub = u) <=> spc'[u] = "in")
  <2> SUFFICES ASSUME NEW u \in Subscribers, Alone(u)
               PROVE  (\E i \in 1..Len(callbacks_') : callbacks_'[i].sub = u) <=> spc'[u] = "in"
    BY <1>1 DEF Alone
  <2>1. CASE u = s
    <3>1. Len(callbacks_) + 1 \in 1..Len(callbacks_')
      BY <1>3
    <3> QED
      BY <1>2, <1>3, <1>5, <2>1, <3>1
  <2>2. CASE u # s
    <3>1. (\E i \in 1..Len(callbacks_) : callbacks_[i].sub = u) <=> spc'[u] = "in"
      BY <1>5, <2>2 DEF HubInv
    <3>2. (\E i \in 1..Len(callbacks_') : callbacks_'[i].sub = u)
             <=> (\E i \in 1..Len(callbacks_) : callbacks_[i].sub = u)
      <4>1. \A i \in 1..Len(callbacks_) : i \in 1..Len(callbacks_')
        BY <1>3
      <4> QED
        BY <1>2, <1>3, <1>7, <2>2, <4>1
    <3> QED
      BY <3>1, <3>2
  <2> QED
    BY <2>1, <2>2
<1>12. \A u \in Subscribers : spc'[u] = "new" <=> id'[u] = 0
  BY <1>1, <1>5 DEF HubInv
<1> QED
  BY <1>1, <1>4, <1>8, <1>9, <1>10, <1>11, <1>12 DEF HubInv

\* unsubscribe removes the entry of its caller, or one with the same id.
LEMMA HubUnsubscribes ==
    ASSUME HubTyped, HubInv, NEW s \in Subscribers, H!Unsubscribe(s)
    PROVE  HubTyped' /\ HubInv'
<1>1. /\ spc[s] = "in" /\ ~publishing /\ spc' = [spc EXCEPT ![s] = "gone"]
      /\ UNCHANGED <<next_sub_id_, id, publishing, callees, publishes>>
  BY DEF H!Unsubscribe
<1>2. callees = <<>> /\ Len(callees) = 0
  BY <1>1 DEF HubInv
<1>3. spc'[s] = "gone" /\ \A u \in Subscribers : u # s => spc'[u] = spc[u]
  BY <1>1 DEF HubTyped
<1>4. \A u : Alone(u)' <=> Alone(u)
  BY <1>1 DEF Alone
<1>5. \A u \in Subscribers : spc'[u] = "new" <=> id'[u] = 0
  BY <1>1, <1>3 DEF HubInv
<1>6. CASE UNCHANGED callbacks_ /\ \A i \in 1..Len(callbacks_) : callbacks_[i].id # id[s]
  <2>1. \A i \in 1..Len(callbacks_) : callbacks_[i].sub # s
    <3>1. \A i \in 1..Len(callbacks_) : callbacks_[i].id = id[callbacks_[i].sub]
      BY DEF HubInv
    <3> QED
      BY <1>6, <3>1
  <2>2. ~Alone(s)
    BY <1>1, <2>1 DEF HubInv
  <2>3. HubTyped'
    BY <1>1, <1>6 DEF HubTyped
  <2>4. \A i \in 1..Len(callbacks_) : callbacks_[i].sub \in Subscribers
    BY EntryOf
  <2> QED
    <3>1. \A i \in 1..Len(callbacks_) :
             callbacks_[i].id = id[callbacks_[i].sub] /\ spc'[callbacks_[i].sub] \in {"in", "gone"}
      BY <1>3, <2>1, <2>4 DEF HubInv
    <3>2. \A u \in Subscribers : Alone(u) =>
             ((\E i \in 1..Len(callbacks_) : callbacks_[i].sub = u) <=> spc'[u] = "in")
      <4> SUFFICES ASSUME NEW u \in Subscribers, Alone(u)
                   PROVE  (\E i \in 1..Len(callbacks_) : callbacks_[i].sub = u) <=> spc'[u] = "in"
        OBVIOUS
      <4>1. spc'[u] = spc[u]
        BY <1>3, <2>2
      <4> QED
        BY <4>1 DEF HubInv
    <3>3. \A i, k \in 1..Len(callbacks_) : callbacks_[i].sub = callbacks_[k].sub => i = k
      BY DEF HubInv
    <3> QED
      BY <1>1, <1>2, <1>4, <1>5, <1>6, <2>3, <3>1, <3>2, <3>3 DEF HubInv
<1>7. ASSUME NEW n \in 1..Len(callbacks_), callbacks_[n].id = id[s], callbacks_' = Without(callbacks_, n)
      PROVE  HubTyped' /\ HubInv'
  <2>1. /\ callbacks_' \in Seq(Entries) /\ Len(callbacks_) \in Nat
        /\ Len(callbacks_') = Len(callbacks_) - 1
        /\ \A i \in 1..Len(callbacks_') :
               callbacks_'[i] = IF i < n THEN callbacks_[i] ELSE callbacks_[i + 1]
    BY <1>7, RemoveFacts DEF HubTyped
  <2>2. HubTyped'
    BY <1>1, <2>1 DEF HubTyped
  <2> DEFINE from(i) == IF i < n THEN i ELSE i + 1
  <2>3. \A i \in 1..Len(callbacks_') :
           from(i) \in 1..Len(callbacks_) /\ from(i) # n /\ callbacks_'[i] = callbacks_[from(i)]
    BY <2>1
  <2>4. \A i, k \in 1..Len(callbacks_') : from(i) = from(k) => i = k
    BY <2>1
  <2>5. \A k \in 1..Len(callbacks_) : k # n => \E i \in 1..Len(callbacks_') : from(i) = k
    <3> SUFFICES ASSUME NEW k \in 1..Len(callbacks_), k # n
                 PROVE  \E i \in 1..Len(callbacks_') : from(i) = k
      OBVIOUS
    <3>1. CASE k < n
      BY <2>1, <3>1
    <3>2. CASE k > n
      <4>1. k - 1 \in 1..Len(callbacks_') /\ from(k - 1) = k
        BY <2>1, <3>2
      <4> QED
        BY <4>1
    <3> QED
      BY <2>1, <3>1, <3>2
  <2> HIDE DEF from
  <2>6. \A i \in 1..Len(callbacks_') :
           /\ callbacks_'[i].id = id'[callbacks_'[i].sub]
           /\ spc'[callbacks_'[i].sub] \in {"in", "gone"}
    BY <1>1, <1>3, <2>3, EntryOf DEF HubInv
  <2>7. \A i, k \in 1..Len(callbacks_') : callbacks_'[i].sub = callbacks_'[k].sub => i = k
    <3>1. \A i, k \in 1..Len(callbacks_) : callbacks_[i].sub = callbacks_[k].sub => i = k
      BY DEF HubInv
    <3> TAKE i, k \in 1..Len(callbacks_')
    <3>2. /\ from(i) \in 1..Len(callbacks_) /\ callbacks_'[i] = callbacks_[from(i)]
          /\ from(k) \in 1..Len(callbacks_) /\ callbacks_'[k] = callbacks_[from(k)]
      BY <2>3
    <3> QED
      BY <2>4, <3>1, <3>2
  <2>8. \A u \in Subscribers : Alone(u) =>
           ((\E i \in 1..Len(callbacks_') : callbacks_'[i].sub = u) <=> spc'[u] = "in")
    <3> SUFFICES ASSUME NEW u \in Subscribers, Alone(u)
                 PROVE  (\E i \in 1..Len(callbacks_') : callbacks_'[i].sub = u) <=> spc'[u] = "in"
      OBVIOUS
    <3>1. id[callbacks_[n].sub] = id[s] /\ callbacks_[n].sub \in Subscribers
      BY <1>7, EntryOf DEF HubInv
    <3>2. CASE u = s
      <4>1. callbacks_[n].sub = s
        BY <3>1, <3>2 DEF Alone
      <4>2. \A i \in 1..Len(callbacks_') : callbacks_'[i].sub # s
        <5>1. \A k \in 1..Len(callbacks_) : k # n => callbacks_[k].sub # s
          BY <1>7, <4>1 DEF HubInv
        <5> QED
          BY <2>3, <5>1
      <4> QED
        BY <1>3, <3>2, <4>2
    <3>3. CASE u # s
      <4>1. callbacks_[n].sub # u
        BY <3>1, <3>3 DEF Alone
      <4>2. (\E i \in 1..Len(callbacks_) : callbacks_[i].sub = u) <=> spc'[u] = "in"
        BY <1>3, <3>3 DEF HubInv
      <4>3. (\E i \in 1..Len(callbacks_') : callbacks_'[i].sub = u)
               <=> (\E i \in 1..Len(callbacks_) : callbacks_[i].sub = u)
        <5>1. ASSUME NEW i \in 1..Len(callbacks_'), callbacks_'[i].sub = u
              PROVE  \E k \in 1..Len(callbacks_) : callbacks_[k].sub = u
          <6>1. from(i) \in 1..Len(callbacks_) /\ callbacks_[from(i)].sub = u
            BY <2>3, <5>1
          <6> QED
            BY <6>1
        <5>2. ASSUME NEW k \in 1..Len(callbacks_), callbacks_[k].sub = u
              PROVE  \E i \in 1..Len(callbacks_') : callbacks_'[i].sub = u
          <6>1. PICK i \in 1..Len(callbacks_') : from(i) = k
            BY <2>5, <4>1, <5>2
          <6>2. callbacks_'[i].sub = u
            BY <2>3, <5>2, <6>1
          <6> QED
            BY <6>2
        <5> QED
          BY <5>1, <5>2
      <4> QED
        BY <4>2, <4>3
    <3> QED
      BY <3>2, <3>3
  <2> QED
    BY <1>1, <1>2, <1>4, <1>5, <2>2, <2>6, <2>7, <2>8 DEF HubInv
<1> QED
  BY <1>6, <1>7 DEF H!Unsubscribe, Without

\* publish takes all of the callbacks, runs them and returns.
LEMMA HubPublishes ==
    ASSUME HubTyped, HubInv, H!Publish \/ H!Call \/ H!Return
    PROVE  HubTyped' /\ HubInv'
<1>1. UNCHANGED <<next_sub_id_, callbacks_, spc, id>> /\ \A u : Alone(u)' <=> Alone(u)
  BY DEF H!Publish, H!Call, H!Return, Alone
<1>2. CASE H!Publish
  <2>1. callees' = callbacks_ /\ publishing' = TRUE /\ publishes' \in 0..MaxPublishes
    BY <1>2, ObserversAssumption DEF H!Publish, HubTyped
  <2> QED
    BY <1>1, <2>1 DEF HubTyped, HubInv
<1>3. CASE H!Call
  <2>1. /\ callees # <<>> /\ callees' = Tail(callees) /\ UNCHANGED <<publishing, publishes>>
        /\ publishing
    BY <1>3 DEF H!Call, HubInv
  <2>2. /\ callees' \in Seq(Entries)
        /\ \A i \in 1..Len(callees') : i + 1 \in 1..Len(callees) /\ callees'[i] = callees[i + 1]
    BY <2>1, TailFacts DEF HubTyped
  <2>3. \A i \in 1..Len(callees') : \E k \in 1..Len(callbacks_) : callbacks_[k] = callees'[i]
    BY <2>2 DEF HubInv
  <2>4. HubTyped'
    BY <1>1, <2>1, <2>2 DEF HubTyped
  <2>5. HubInv'
    BY <1>1, <2>1, <2>3 DEF HubInv
  <2> QED
    BY <2>4, <2>5
<1>4. CASE H!Return
  <2>1. callees = <<>> /\ publishing' = FALSE /\ UNCHANGED <<callees, publishes>>
    BY <1>4 DEF H!Return
  <2>2. HubTyped'
    BY <1>1, <2>1 DEF HubTyped
  <2>3. HubInv'
    BY <1>1, <2>1 DEF HubInv
  <2> QED
    BY <2>2, <2>3
<1> QED
  BY <1>2, <1>3, <1>4

\* A subscriber whose id nobody shares is called as long as it has not
\* unsubscribed, and never after unsubscribe has returned, not even by a
\* publish that was under way.
THEOREM UnsubscribedSilent == ObserversSpec => []SilentAfterUnsubscribe
<1> DEFINE Inv == HubTyped /\ HubInv /\ publishing \in BOOLEAN
<1>1. H!Init => Inv
  <2> SUFFICES ASSUME H!Init PROVE Inv
    OBVIOUS
  <2>1. HubTyped
    BY NoElements, ObserversAssumption DEF H!Init, HubTyped
  <2>2. HubInv
    BY DEF H!Init, HubInv
  <2>3. publishing \in BOOLEAN
    BY DEF H!Init
  <2> QED
    BY <2>1, <2>2, <2>3
<1>2. Inv /\ [H!Next]_(H!vars) => Inv'
  <2> SUFFICES ASSUME Inv, [H!Next]_(H!vars) PROVE Inv'
    OBVIOUS
  <2>1. CASE H!Next
    <3>1. HubTyped' /\ HubInv'
      BY <2>1, HubDraws, HubPushes, HubUnsubscribes, HubPublishes DEF H!Next
    <3>2. publishing' \in BOOLEAN
      BY <2>1 DEF H!Next, H!Load, H!Store, H!Push, H!Unsubscribe, H!Publish, H!Call, H!Return
    <3> QED
      BY <3>1, <3>2
  <2>2. CASE UNCHANGED H!vars
    BY <2>2 DEF H!vars, HubTyped, HubInv, Alone
  <2> QED
    BY <2>1, <2>2 DEF H!Next
<1>3. Inv => SilentAfterUnsubscribe
  <2> SUFFICES ASSUME Inv PROVE H!SilentAfterUnsubscribe
    BY DEF SilentAfterUnsubscribe
  <2>1. H!TypeOK
    BY DEF HubTyped, H!TypeOK, Entries
  <2>2. ASSUME NEW s \in Subscribers, Alone(s), spc[s] = "gone", NEW i \in 1..Len(callees)
        PROVE  callees[i].sub # s
    <3>1. PICK k \in 1..Len(callbacks_) : callbacks_[k] = callees[i]
      BY DEF HubInv
    <3>2. (\E m \in 1..Len(callbacks_) : callbacks_[m].sub = s) <=> spc[s] = "in"
      BY <2>2 DEF HubInv
    <3>3. callbacks_[k].sub # s
      BY <2>2, <3>2
    <3> QED
      BY <3>1, <3>3
  <2> QED
    BY <2>1, <2>2 DEF HubInv, Alone, H!SilentAfterUnsubscribe
<1> QED
  BY <1>1, <1>2, <1>3, PTL DEF ObserversSpec, H!Spec
-----------------------------------------------------------------------------
(***************************************************************************)
(* The monitor.  Every number between the peak and the total is in the     *)
(* hands of a caller that has yet to raise the peak to it, and there are   *)
(* no more of these numbers than callers.                                  *)
(***************************************************************************)

MonTyped ==
    /\ connections_alive_ \in Nat /\ connections_total_ \in Nat /\ connections_peak_ \in Nat
    /\ mpc \in [Callers -> {"out", "total", "load", "raise"}]
    /\ total \in [Callers -> Nat] /\ peak \in [Callers -> Nat]

LogTyped ==
    /\ thread \in {"none", "test", "sleep", "snapshot"} /\ owner \in {"out", "join"}
    /\ snap \in Seq(Nat)
    /\ thread = "snapshot" => Len(snap) < 3

Counted == {c \in Callers : mpc[c] = "total"}

Raising(c) == mpc[c] \in {"load", "raise"}

PeakInv ==
    /\ connections_peak_ <= connections_total_
    /\ \A c \in Callers : total[c] <= connections_total_ /\ peak[c] <= connections_peak_
    /\ \A v \in (connections_peak_ + 1)..connections_total_ :
          \E c \in Callers : Raising(c) /\ total[c] = v

AliveInv == connections_alive_ <= connections_total_ + Cardinality(Counted)

LineInv ==
    /\ Len(snap) >= 1 => snap[1] <= connections_total_ + Cardinality(Callers)
    /\ Len(snap) >= 2 => /\ snap[1] <= snap[2] + Cardinality(Callers)
                         /\ snap[2] <= connections_peak_ + Cardinality(Callers)
    /\ Len(snap) >= 3 => snap[2] <= snap[3] + Cardinality(Callers)

MonInv == MonTyped /\ LogTyped /\ PeakInv /\ AliveInv /\ LineInv /\ logging_ \in BOOLEAN

\* What is above the higher of two peaks is above the lower.
LEMMA AboveBoth ==
    ASSUME NEW a \in Nat, NEW b \in Nat, NEW t \in Nat, a <= b, NEW v \in (b + 1)..t
    PROVE  v \in (a + 1)..t /\ v > b /\ v \in Nat
OBVIOUS

\* Numbers of callers.
LEMMA CallersCounted ==
    /\ Cardinality(Callers) \in Nat
    /\ \A X \in SUBSET Callers : IsFiniteSet(X) /\ Cardinality(X) \in Nat
                                /\ Cardinality(X) <= Cardinality(Callers)
BY ObserversAssumption, FS_Subset, FS_CardinalityType

\* The total is ahead of the peak by no more than there are callers.
LEMMA AheadOfPeak ==
    ASSUME MonTyped, PeakInv
    PROVE  connections_total_ <= connections_peak_ + Cardinality(Callers)
<1> DEFINE V == (connections_peak_ + 1)..connections_total_
           f == [v \in V |-> CHOOSE c \in Callers : Raising(c) /\ total[c] = v]
<1>1. \A v \in V : f[v] \in Callers /\ total[f[v]] = v
  BY DEF PeakInv
<1>2. f \in [V -> Callers] /\ \A v, w \in V : f[v] = f[w] => v = w
  BY <1>1
<1> HIDE DEF f
<1>3. f \in Injection(V, Callers)
  BY <1>2 DEF Injection, IsInjective
<1>4. Cardinality(V) <= Cardinality(Callers)
  BY <1>3, FS_Injection, ObserversAssumption
<1>5. CASE connections_peak_ + 1 > connections_total_
  BY <1>5, CallersCounted DEF MonTyped
<1>6. CASE ~(connections_peak_ + 1 > connections_total_)
  <2>1. connections_peak_ + 1 \in Int /\ connections_total_ \in Int
    BY DEF MonTyped
  <2>2. Cardinality(V) = connections_total_ - (connections_peak_ + 1) + 1
    BY <1>6, <2>1, FS_Interval
  <2> QED
    BY <1>4, <2>2, CallersCounted DEF MonTyped
<1> QED
  BY <1>5, <1>6

\* The first access of on_connect, or on_disconnect.
LEMMA MonAlive ==
    ASSUME MonInv, (\E c \in Callers : N!CountAlive(c)) \/ N!on_disconnect
    PROVE  MonInv'
<1>1. UNCHANGED <<connections_total_, connections_peak_, total, peak, thread, owner, snap, logging_>>
  BY DEF N!CountAlive, N!on_disconnect, N!lvars
<1>2. LogTyped' /\ LineInv' /\ logging_' \in BOOLEAN
  BY <1>1 DEF MonInv, LogTyped, LineInv
<1>3. CASE N!on_disconnect
  <2>1. mpc' = mpc /\ connections_alive_' = connections_alive_ - 1 /\ connections_alive_ > 0
    BY <1>3 DEF N!on_disconnect
  <2>2. MonTyped' /\ PeakInv'
    BY <1>1, <2>1 DEF MonInv, MonTyped, PeakInv, Raising
  <2>3. Counted' = Counted /\ Cardinality(Counted) \in Nat
    BY <2>1, CallersCounted DEF Counted
  <2>4. AliveInv'
    BY <1>1, <2>1, <2>3 DEF MonInv, MonTyped, AliveInv
  <2> QED
    BY <1>2, <2>2, <2>4 DEF MonInv
<1>4. ASSUME NEW c \in Callers, N!CountAlive(c) PROVE MonInv'
  <2>1. mpc[c] = "out" /\ mpc' = [mpc EXCEPT ![c] = "total"]
        /\ connections_alive_' = connections_alive_ + 1
    BY <1>4 DEF N!CountAlive, N!Go
  <2>2. MonTyped'
    BY <1>1, <2>1 DEF MonInv, MonTyped
  <2>3. PeakInv'
    <3>1. \A d \in Callers : Raising(d) => Raising(d)'
      BY <2>1 DEF MonInv, MonTyped, Raising
    <3> QED
      BY <1>1, <3>1 DEF MonInv, PeakInv
  <2>4. Counted' = Counted \cup {c} /\ c \notin Counted
    BY <2>1 DEF MonInv, MonTyped, Counted
  <2>5. Cardinality(Counted') = Cardinality(Counted) + 1 /\ Cardinality(Counted) \in Nat
    <3>1. IsFiniteSet(Counted) /\ Cardinality(Counted) \in Nat
      BY CallersCounted DEF Counted
    <3> QED
      BY <2>4, <3>1, FS_AddElement
  <2>6. AliveInv'
    BY <1>1, <2>1, <2>5 DEF MonInv, MonTyped, AliveInv
  <2> QED
    BY <1>2, <2>2, <2>3, <2>6 DEF MonInv
<1> QED
  BY <1>3, <1>4

\* The second access of on_connect: the caller holds the new total.
LEMMA MonTotal ==
    ASSUME MonInv, NEW c \in Callers, N!CountTotal(c)
    PROVE  MonInv'
<1>1. UNCHANGED <<connections_alive_, connections_peak_, peak, thread, owner, snap, logging_>>
  BY DEF N!CountTotal, N!lvars
<1>2. /\ mpc[c] = "total" /\ mpc' = [mpc EXCEPT ![c] = "load"]
      /\ connections_total_' = connections_total_ + 1
      /\ total' = [total EXCEPT ![c] = connections_total_ + 1]
  BY DEF N!CountTotal, N!Go
<1>3. MonTyped' /\ LogTyped' /\ logging_' \in BOOLEAN
  BY <1>1, <1>2 DEF MonInv, MonTyped, LogTyped
<1>4. PeakInv'
  <2>1. connections_peak_' <= connections_total_'
    BY <1>1, <1>2 DEF MonInv, MonTyped, PeakInv
  <2>2. \A d \in Callers : total'[d] <= connections_total_' /\ peak'[d] <= connections_peak_'
    BY <1>1, <1>2 DEF MonInv, MonTyped, PeakInv
  <2>3. ASSUME NEW v \in (connections_peak_' + 1)..connections_total_'
        PROVE  \E d \in Callers : Raising(d)' /\ total'[d] = v
    <3>1. CASE v = connections_total_ + 1
      <4>1. Raising(c)' /\ total'[c] = v
        BY <3>1, <1>2 DEF MonInv, MonTyped, Raising
      <4> QED
        BY <4>1
    <3>2. CASE v # connections_total_ + 1
      <4>1. v \in (connections_peak_ + 1)..connections_total_
        BY <3>2, <1>1, <1>2 DEF MonInv, MonTyped
      <4>2. PICK d \in Callers : Raising(d) /\ total[d] = v
        BY <4>1 DEF MonInv, PeakInv
      <4>3. d # c
        BY <4>2, <1>2 DEF Raising
      <4>4. Raising(d)' /\ total'[d] = v
        BY <4>2, <4>3, <1>2 DEF MonInv, MonTyped, Raising
      <4> QED
        BY <4>4
    <3> QED
      BY <3>1, <3>2
  <2> QED
    BY <2>1, <2>2, <2>3 DEF PeakInv
<1>5. AliveInv'
  <2>1. Counted' = Counted \ {c} /\ c \in Counted
    BY <1>2 DEF MonInv, MonTyped, Counted
  <2>2. IsFiniteSet(Counted) /\ Cardinality(Counted) \in Nat
    BY CallersCounted DEF Counted
  <2>3. Cardinality(Counted') = Cardinality(Counted) - 1
    BY <2>1, <2>2, FS_RemoveElement
  <2> QED
    BY <1>1, <1>2, <2>2, <2>3 DEF MonInv, MonTyped, AliveInv
<1>6. LineInv'
  <2>1. \A i \in 1..Len(snap) : snap[i] \in Nat
    BY DEF MonInv, LogTyped
  <2>2. Len(snap) \in Nat
    BY DEF MonInv, LogTyped
  <2> QED
    BY <1>1, <1>2, <2>1, <2>2, CallersCounted DEF MonInv, MonTyped, LineInv
<1> QED
  BY <1>3, <1>4, <1>5, <1>6 DEF MonInv

\* The loop of on_connect: the exchange succeeds only on the peak the caller
\* has seen, so the numbers above the new peak are in other hands.
LEMMA MonPeak ==
    ASSUME MonInv, NEW c \in Callers, N!LoadPeak(c) \/ N!RaisePeak(c)
    PROVE  MonInv' /\ connections_peak_' >= connections_peak_
<1>1. UNCHANGED <<connections_alive_, connections_total_, total, thread, owner, snap, logging_>>
  BY DEF N!LoadPeak, N!RaisePeak, N!lvars
<1>2. mpc[c] \in {"load", "raise"}
  BY DEF N!LoadPeak, N!RaisePeak
<1>3. \/ /\ mpc' \in {mpc, [mpc EXCEPT ![c] = "raise"]}
         /\ peak' = [peak EXCEPT ![c] = connections_peak_] /\ connections_peak_' = connections_peak_
      \/ /\ mpc' = [mpc EXCEPT ![c] = "out"] /\ peak' = peak
         /\ total[c] <= peak[c] /\ connections_peak_' = connections_peak_
      \/ /\ mpc' = [mpc EXCEPT ![c] = "out"] /\ peak' = peak
         /\ total[c] > peak[c] /\ connections_peak_ = peak[c] /\ connections_peak_' = total[c]
  BY DEF N!LoadPeak, N!RaisePeak, N!Go
<1>4. MonTyped' /\ LogTyped' /\ logging_' \in BOOLEAN
  <2>1. connections_peak_' \in Nat
    BY <1>3 DEF MonInv, MonTyped
  <2>2. mpc' \in [Callers -> {"out", "total", "load", "raise"}]
    BY <1>3 DEF MonInv, MonTyped
  <2>3. peak' \in [Callers -> Nat]
    BY <1>3 DEF MonInv, MonTyped
  <2> QED
    BY <1>1, <2>1, <2>2, <2>3 DEF MonInv, MonTyped, LogTyped
<1>5. connections_peak_' >= connections_peak_
  BY <1>3 DEF MonInv, MonTyped
<1>6. PeakInv'
  <2>1. connections_peak_' <= connections_total_'
    BY <1>1, <1>3 DEF MonInv, MonTyped, PeakInv
  <2>2. \A d \in Callers : total'[d] <= connections_total_' /\ peak'[d] <= connections_peak_'
    BY <1>1, <1>3 DEF MonInv, MonTyped, PeakInv
  <2>3. ASSUME NEW v \in (connections_peak_' + 1)..connections_total_'
        PROVE  \E d \in Callers : Raising(d)' /\ total'[d] = v
    <3>0. /\ connections_peak_ \in Nat /\ connections_peak_' \in Nat /\ connections_total_ \in Nat
          /\ connections_peak_ <= connections_peak_' /\ connections_total_' = connections_total_
      BY <1>1, <1>4, <1>5 DEF MonInv, MonTyped
    <3>1. v \in (connections_peak_ + 1)..connections_total_ /\ v > connections_peak_' /\ v \in Nat
      BY <3>0, AboveBoth
    <3>2. PICK d \in Callers : Raising(d) /\ total[d] = v
      BY <3>1 DEF MonInv, PeakInv
    <3>3. CASE d # c
      BY <3>2, <3>3, <1>1, <1>3 DEF MonInv, MonTyped, Raising
    <3>4. CASE d = c
      <4>1. v > connections_peak_' /\ total[c] = v
        BY <3>1, <3>2, <3>4
      <4>2. peak[c] <= connections_peak_ /\ peak[c] \in Nat /\ total[c] \in Nat
        BY DEF MonInv, MonTyped, PeakInv
      <4>3. mpc' \in {mpc, [mpc EXCEPT ![c] = "raise"]}
        BY <4>1, <4>2, <1>3, <3>0
      <4>4. Raising(c)'
        BY <4>3, <1>2 DEF MonInv, MonTyped, Raising
      <4> QED
        BY <4>1, <4>4, <1>1
    <3> QED
      BY <3>3, <3>4
  <2> QED
    BY <2>1, <2>2, <2>3 DEF PeakInv
<1>7. AliveInv'
  <2>1. Counted' = Counted
    BY <1>2, <1>3 DEF MonInv, MonTyped, Counted
  <2> QED
    BY <2>1, <1>1 DEF MonInv, AliveInv
<1>8. LineInv'
  <2>1. Len(snap) \in Nat /\ \A i \in 1..Len(snap) : snap[i] \in Nat
    BY DEF MonInv, LogTyped
  <2> QED
    BY <1>1, <1>4, <1>5, <2>1, CallersCounted DEF MonInv, MonTyped, LineInv
<1> QED
  BY <1>4, <1>5, <1>6, <1>7, <1>8 DEF MonInv

\* snapshot: a number read later is no further behind than the callers that
\* may be between the two accesses.
LEMMA MonSnapshot ==
    ASSUME MonInv, N!snapshot
    PROVE  MonInv'
<1> DEFINE n == Len(snap)
<1>1. UNCHANGED <<connections_alive_, connections_total_, connections_peak_, mpc, total, peak,
                  logging_, owner>>
  BY DEF N!snapshot, N!counters
<1>2. n \in 0..2 /\ \A i \in 1..n : snap[i] \in Nat
  <2>1. snap \in Seq(Nat) /\ Len(snap) < 3
    BY DEF MonInv, LogTyped, N!snapshot
  <2>2. Len(snap) \in Nat /\ \A i \in 1..Len(snap) : snap[i] \in Nat
    BY <2>1, SeqFacts
  <2>3. \A m \in Nat : m < 3 => m \in 0..2
    OBVIOUS
  <2>4. n \in 0..2
    BY <2>1, <2>2, <2>3
  <2> QED
    BY <2>2, <2>4
<1> DEFINE x == <<connections_alive_, connections_total_, connections_peak_>>[n + 1]
<1>3. x \in Nat /\ (n = 0 => x = connections_alive_) /\ (n = 1 => x = connections_total_)
      /\ (n = 2 => x = connections_peak_)
  <2>1. connections_alive_ \in Nat /\ connections_total_ \in Nat /\ connections_peak_ \in Nat
    BY DEF MonInv, MonTyped
  <2>2. n = 0 \/ n = 1 \/ n = 2
    BY <1>2
  <2> HIDE DEF n
  <2>3. /\ n = 0 => n + 1 = 1
        /\ n = 1 => n + 1 = 2
        /\ n = 2 => n + 1 = 3
    OBVIOUS
  <2>4. /\ n + 1 = 1 => x = connections_alive_
        /\ n + 1 = 2 => x = connections_total_
        /\ n + 1 = 3 => x = connections_peak_
    OBVIOUS
  <2> HIDE DEF x
  <2> QED
    BY <2>1, <2>2, <2>3, <2>4
<1>4. snap' = Append(snap, x)
  BY DEF N!snapshot
<1> HIDE DEF x
<1>5. /\ snap' \in Seq(Nat) /\ Len(snap') = n + 1 /\ snap'[n + 1] = x
      /\ \A i \in 1..n : snap'[i] = snap[i]
  BY <1>3, <1>4 DEF MonInv, LogTyped
<1>6. thread' = IF Len(snap') = 3 THEN "test" ELSE "snapshot"
  BY DEF N!snapshot
<1>7. LogTyped'
  <2>1. owner' \in {"out", "join"}
    BY <1>1 DEF MonInv, LogTyped
  <2>2. thread' \in {"test", "snapshot"} /\ (thread' = "snapshot" => Len(snap') < 3)
    BY <1>2, <1>5, <1>6
  <2> QED
    BY <1>5, <2>1, <2>2 DEF LogTyped
<1>8. MonTyped' /\ PeakInv' /\ logging_' \in BOOLEAN
  BY <1>1 DEF MonInv, MonTyped, PeakInv, Raising
<1>9. AliveInv'
  <2>1. Counted' = Counted
    BY <1>1 DEF Counted
  <2> QED
    BY <2>1, <1>1 DEF MonInv, AliveInv
<1>10. LineInv'
  <2>1. connections_alive_ <= connections_total_ + Cardinality(Callers)
    <3>1. Cardinality(Counted) \in Nat /\ Cardinality(Counted) <= Cardinality(Callers)
      BY CallersCounted DEF Counted
    <3> QED
      BY <3>1, CallersCounted DEF MonInv, MonTyped, AliveInv
  <2>2. connections_total_ <= connections_peak_ + Cardinality(Callers)
    BY AheadOfPeak DEF MonInv
  <2>3. CASE n = 0
    BY <2>3, <2>1, <1>1, <1>3, <1>5 DEF LineInv
  <2>4. CASE n = 1
    BY <2>4, <2>2, <1>1, <1>2, <1>3, <1>5 DEF LineInv, MonInv
  <2>5. CASE n = 2
    BY <2>5, <1>1, <1>2, <1>3, <1>5 DEF LineInv, MonInv
  <2> QED
    BY <1>2, <2>3, <2>4, <2>5
<1> QED
  BY <1>7, <1>8, <1>9, <1>10 DEF MonInv

\* The rest of the logging thread, and who starts and stops it.
LEMMA MonLogging ==
    ASSUME MonInv, N!start_logging \/ N!LoggingTest \/ N!stop_logging \/ N!LoggingJoined
    PROVE  MonInv'
<1>1. UNCHANGED <<connections_alive_, connections_total_, connections_peak_, mpc, total, peak>>
  BY DEF N!start_logging, N!LoggingTest, N!stop_logging, N!LoggingJoined, N!counters
<1>2. MonTyped' /\ PeakInv'
  BY <1>1 DEF MonInv, MonTyped, PeakInv, Raising
<1>3. AliveInv'
  <2>1. Counted' = Counted
    BY <1>1 DEF Counted
  <2> QED
    BY <2>1, <1>1 DEF MonInv, AliveInv
<1>4. snap' \in {snap, <<>>} /\ logging_' \in BOOLEAN
  BY DEF MonInv, N!start_logging, N!LoggingTest, N!stop_logging, N!LoggingJoined
<1>5. LogTyped'
  <2>1. thread' \in {"none", "test", "sleep", "snapshot"} /\ owner' \in {"out", "join"}
    BY DEF MonInv, LogTyped, N!start_logging, N!LoggingTest, N!stop_logging, N!LoggingJoined
  <2>2. snap' \in Seq(Nat)
    BY <1>4, NoElements DEF MonInv, LogTyped
  <2>3. thread' = "snapshot" => snap' = <<>> \/ (thread = "snapshot" /\ snap' = snap)
    BY DEF N!start_logging, N!LoggingTest, N!stop_logging, N!LoggingJoined
  <2>4. thread' = "snapshot" => Len(snap') < 3
    BY <2>3 DEF MonInv, LogTyped
  <2> QED
    BY <2>1, <2>2, <2>4 DEF LogTyped
<1>6. LineInv'
  BY <1>1, <1>4 DEF MonInv, LineInv
<1> QED
  BY <1>2, <1>3, <1>4, <1>5, <1>6 DEF MonInv

\* MonInv is inductive, and no step lowers the peak.
LEMMA MonInductive ==
    ASSUME MonInv, [N!Next]_(N!vars)
    PROVE  MonInv' /\ connections_peak_' >= connections_peak_
<1>1. CASE UNCHANGED N!vars
  <2>1. UNCHANGED <<connections_alive_, connections_total_, connections_peak_, mpc, total, peak,
                    logging_, thread, owner, snap>>
    BY <1>1 DEF N!vars, N!counters, N!lvars
  <2>2. MonTyped' /\ LogTyped' /\ PeakInv' /\ LineInv'
    BY <2>1 DEF MonInv, MonTyped, LogTyped, PeakInv, LineInv, Raising
  <2>3. Counted' = Counted
    BY <2>1 DEF Counted
  <2> QED
    BY <2>1, <2>2, <2>3 DEF MonInv, MonTyped, AliveInv
<1>2. CASE N!Next
  <2>1. ASSUME NEW c \in Callers, N!LoadPeak(c) \/ N!RaisePeak(c)
        PROVE  MonInv' /\ connections_peak_' >= connections_peak_
    BY <2>1, MonPeak
  <2>2. ASSUME connections_peak_' = connections_peak_
        PROVE  connections_peak_' >= connections_peak_
    BY <2>2 DEF MonInv, MonTyped
  <2>3. CASE (\E c \in Callers : N!CountAlive(c)) \/ N!on_disconnect
    <3>1. connections_peak_' = connections_peak_
      BY <2>3 DEF N!CountAlive, N!on_disconnect
    <3> QED
      BY <2>2, <2>3, <3>1, MonAlive
  <2>4. ASSUME NEW c \in Callers, N!CountTotal(c)
        PROVE  MonInv' /\ connections_peak_' >= connections_peak_
    <3>1. connections_peak_' = connections_peak_
      BY <2>4 DEF N!CountTotal
    <3> QED
      BY <2>2, <2>4, <3>1, MonTotal
  <2>5. CASE N!snapshot
    <3>1. connections_peak_' = connections_peak_
      BY <2>5 DEF N!snapshot, N!counters
    <3> QED
      BY <2>2, <2>5, <3>1, MonSnapshot
  <2>6. CASE N!start_logging \/ N!LoggingTest \/ N!stop_logging \/ N!LoggingJoined
    <3>1. connections_peak_' = connections_peak_
      BY <2>6 DEF N!start_logging, N!LoggingTest, N!stop_logging, N!LoggingJoined, N!counters
    <3> QED
      BY <2>2, <2>6, <3>1, MonLogging
  <2> QED
    BY <1>2, <2>1, <2>3, <2>4, <2>5, <2>6 DEF N!Next
<1> QED
  BY <1>1, <1>2 DEF N!Next

\* The counters of Monitor agree: on_connect loses no update of the peak, which
\* never goes back and equals the total whenever nobody is inside; and the
\* numbers of a logged line are apart by no more than the callers.
THEOREM CountersRight == ObserversSpec => N!CountersAgree
<1>1. N!Init => MonInv
  <2> SUFFICES ASSUME N!Init PROVE MonInv
    OBVIOUS
  <2>1. MonTyped /\ LogTyped /\ PeakInv /\ LineInv /\ logging_ \in BOOLEAN
    <3>0. snap \in Seq(Nat)
      BY NoElements DEF N!Init
    <3>1. MonTyped /\ LogTyped /\ logging_ \in BOOLEAN
      BY <3>0 DEF N!Init, MonTyped, LogTyped
    <3>2. PeakInv
      BY DEF N!Init, PeakInv
    <3>3. LineInv
      BY DEF N!Init, LineInv
    <3> QED
      BY <3>1, <3>2, <3>3
  <2>2. AliveInv
    BY CallersCounted DEF N!Init, AliveInv, Counted
  <2> QED
    BY <2>1, <2>2 DEF MonInv
<1>2. MonInv /\ [N!Next]_(N!vars) => MonInv'
  BY MonInductive
<1>3. MonInv /\ [N!Next]_(N!vars) => [connections_peak_' >= connections_peak_]_(N!vars)
  BY MonInductive
<1>4. MonInv => N!PeakRight /\ N!LineRight
  <2> SUFFICES ASSUME MonInv PROVE N!PeakRight /\ N!LineRight
    OBVIOUS
  <2>1. N!TypeOK
    BY DEF MonInv, MonTyped, LogTyped, N!TypeOK
  <2>2. ASSUME \A c \in Callers : mpc[c] = "out"
        PROVE  connections_peak_ = connections_total_
    <3>1. \A c \in Callers : ~Raising(c)
      BY <2>2 DEF Raising
    <3>2. connections_total_ \notin (connections_peak_ + 1)..connections_total_
      BY <3>1 DEF MonInv, PeakInv
    <3> QED
      BY <3>2 DEF MonInv, MonTyped, PeakInv
  <2>3. N!LineRight
    <3>1. N!Cardinality(Callers) = Cardinality(Callers)
      BY DEF Cardinality, N!Cardinality, IsFiniteSet, N!IsFiniteSet
    <3>2. Len(snap) = 3 => Len(snap) >= 2 /\ Len(snap) >= 3
      OBVIOUS
    <3> QED
      BY <3>1, <3>2 DEF MonInv, LineInv, N!LineRight
  <2> QED
    BY <2>1, <2>2, <2>3 DEF N!PeakRight
<1> QED
  BY <1>1, <1>2, <1>3, <1>4, PTL DEF ObserversSpec, N!Spec, N!CountersAgree

-----------------------------------------------------------------------------
(***************************************************************************)
(* TcpConnection.                                                          *)
(*                                                                         *)
(* StreamFraming is not inductive: it says nothing of the packet the write *)
(* thread has in hand, nor of the queue behind it.  StreamInv adds how far *)
(* the write thread has come: the queue is what is left of the accepted    *)
(* packets, the packet in hand is the one before it, and as long as the    *)
(* descriptor is ours the wire holds exactly what was sent of them.        *)
(***************************************************************************)

USE ConnectionAssumption

\* The packets that have left write_queue_.
Taken == Len(accepted) - Len(write_queue_)

Sending == wpc \in {"send", "sending"}

\* The queue holds the last accepted packets, and send_raw has the one before
\* them.
QueueIsSuffix ==
    /\ Taken \in Nat
    /\ \A i \in 1..Len(write_queue_) : write_queue_[i] = accepted[Taken + i]
    /\ Sending => Taken >= 1 /\ msg = <<accepted[Taken]>> /\ sent < Units
    /\ wpc = "send" => sent = 0

\* The wire never has more than the packets taken, and while the write thread
\* lives and the descriptor is ours it has all of them but the rest of the one
\* in hand.
WireLength ==
    /\ Len(wire) <= Units * Taken
    /\ fd = "ours" /\ wpc # "done" =>
           Len(wire) = IF Sending THEN Units * (Taken - 1) + sent ELSE Units * Taken

WireContents ==
    \A i \in 1..Len(wire) :
        wire[i] = <<accepted[((i - 1) \div Units) + 1], ((i - 1) % Units) + 1>>

StreamInv == QueueIsSuffix /\ WireLength /\ WireContents

\* A descriptor that is no longer ours has been closed in close(), and it is in
\* sock_ only while a thread is about to clear sock_.  Once it is cleared nobody
\* can load the number again.
StrayInv ==
    /\ fd # "ours" => closed_
    /\ "close" \in {reader, closer} \/ "clear" \in {reader, closer} => closed_
    /\ sock_ = "fd" /\ fd # "ours" => "clear" \in {reader, closer}
    /\ \A t \in stray : sock_ = "invalid" /\ loaded[t] # "fd"

-----------------------------------------------------------------------------
(***************************************************************************)
(* Arithmetic of packets: unit k of the stream belongs to packet k \div    *)
(* Units and is number k % Units in it.                                    *)
(***************************************************************************)

\* The unit at distance r from the beginning of packet q, as StreamFraming
\* computes it from its place in the stream.
LEMMA DivMod ==
    ASSUME NEW q \in Nat, NEW r \in 0..(Units - 1)
    PROVE  (Units * q + r) \div Units = q /\ (Units * q + r) % Units = r
BY SMTT(30)

\* More packets are more units.
LEMMA Monotone ==
    ASSUME NEW m \in Nat, NEW n \in Nat, m <= n PROVE Units * m <= Units * n
BY SMTT(30)

\* A unit within the first n packets belongs to one of them.
LEMMA PacketOf ==
    ASSUME NEW n \in Nat, NEW i \in 1..(Units * n)
    PROVE  ((i - 1) \div Units) + 1 \in 1..n
<1> DEFINE q == (i - 1) \div Units
<1>1. i - 1 = Units * q + ((i - 1) % Units) /\ q \in Nat /\ (i - 1) % Units \in 0..(Units - 1)
  BY SMTT(30)
<1>2. CASE q >= n
  <2>1. Units * q >= Units * n
    BY <1>1, <1>2, SMTT(30)
  <2> QED
    BY <1>1, <2>1, SMTT(30)
<1> QED
  BY <1>1, <1>2

-----------------------------------------------------------------------------
\* The type invariant in two parts, where the threads are and what they carry.
\* ConnTypeOK is not inductive either: send reads the packet in hand, and that
\* there is one is a fact about where the write thread is.
TypeControl ==
    /\ closed_ \in BOOLEAN
    /\ sock_ \in {"fd", "invalid"}
    /\ fd \in {"ours", "free", "theirs"}
    /\ reuse \in 0..MaxReuse
    /\ wpc \in WriterPC
    /\ reader \in ReaderPC
    /\ closer \in ClosePC \cup {"out"}
    /\ loaded \in [Threads -> {"none", "fd", "invalid"}]
    /\ stray \in SUBSET Threads

TypeData ==
    /\ write_queue_ \in Seq(Messages)
    /\ accepted \in Seq(Messages)
    /\ wire \in Seq(Messages \X (1..Units))
    /\ msg \in Seq(Messages)
    /\ sent \in 0..Units
    /\ Sending => msg # <<>>

TypeInv == TypeControl /\ TypeData

\* A load and a call keep the types of what is loaded.
LEMMA CallTyped ==
    ASSUME TypeControl, NEW t \in Threads, Call(t) \/ Load(t)
    PROVE  loaded' \in [Threads -> {"none", "fd", "invalid"}] /\ stray' \in SUBSET Threads
<1>1. CASE Call(t)
  BY <1>1 DEF Call, TypeControl
<1>2. CASE Load(t)
  BY <1>2 DEF Load, TypeControl
<1> QED
  BY <1>1, <1>2

\* The threads that make calls.
LEMMA ThreeThreads == "reader" \in Threads /\ "writer" \in Threads /\ "closer" \in Threads
BY DEF Threads

\* Every step keeps the types of the control state.
LEMMA ControlTyped == TypeControl /\ [ConnNext]_conn_vars => TypeControl'
<1> SUFFICES ASSUME TypeControl, [ConnNext]_conn_vars PROVE TypeControl'
  OBVIOUS
<1>1. ASSUME NEW m \in Messages, SendPacket(m) PROVE TypeControl'
  BY <1>1 DEF TypeControl, WriterPC, SendPacket, Wake, callVars
<1>2. ASSUME NEW t \in Threads, Load(t) PROVE TypeControl'
  <2>1. loaded' \in [Threads -> {"none", "fd", "invalid"}] /\ stray' \in SUBSET Threads
    BY <1>2, CallTyped
  <2> QED
    BY <1>2, <2>1 DEF TypeControl, Load
<1>3. ASSUME Test \/ Mark \/ CloseSocket("closer") \/ CloseSocket("reader") \/ Clear,
             reader' \in ReaderPC, closer' \in ClosePC \cup {"out"}
      PROVE  TypeControl'
  <2>1. CASE Test
    BY <1>3, <2>1 DEF TypeControl, Test, callVars
  <2>2. CASE Mark
    BY <1>3, <2>2 DEF TypeControl, Mark, Wake, WriterPC, callVars
  <2>3. ASSUME NEW t \in {"closer", "reader"}, CloseSocket(t) PROVE TypeControl'
    <3>1. loaded' \in [Threads -> {"none", "fd", "invalid"}] /\ stray' \in SUBSET Threads
      BY <2>3, CallTyped, ThreeThreads DEF CloseSocket
    <3> QED
      BY <1>3, <2>3, <3>1 DEF TypeControl, CloseSocket
  <2>4. CASE Clear
    BY <1>3, <2>4 DEF TypeControl, Clear, callVars
  <2> QED
    BY <1>3, <2>1, <2>2, <2>3, <2>4
<1>4. CASE CloserStep
  <2>1. closer' \in ClosePC \cup {"out"} /\ reader' \in ReaderPC
    BY <1>4 DEF CloserStep, TypeControl, ClosePC
  <2> QED
    BY <1>3, <1>4, <2>1 DEF CloserStep
<1>5. CASE ReaderClose
  <2>1. closer' \in ClosePC \cup {"out"} /\ reader' \in ReaderPC
    BY <1>5 DEF ReaderClose, TypeControl, ClosePC, ReaderPC
  <2> QED
    BY <1>3, <1>5, <2>1 DEF ReaderClose
<1>6. CASE ReadLoop \/ CloseHandler
  BY <1>6 DEF TypeControl, ReaderPC, ReadLoop, CloseHandler, callVars
<1>7. CASE RecvData \/ RecvNothing
  <2>1. loaded' \in [Threads -> {"none", "fd", "invalid"}] /\ stray' \in SUBSET Threads
    BY <1>7, CallTyped, ThreeThreads DEF RecvData, RecvNothing
  <2> QED
    BY <1>7, <2>1 DEF TypeControl, ReaderPC, RecvData, RecvNothing
<1>8. CASE WriteLoop \/ WriteIdle \/ WriteBlock \/ WriteTimeout \/ SendCheck \/ WriteTake
  <2>1. CASE WriteLoop \/ WriteIdle
    BY <2>1 DEF TypeControl, WriterPC, WriteLoop, WriteIdle, callVars
  <2>2. CASE WriteBlock \/ WriteTimeout
    BY <2>2 DEF TypeControl, WriterPC, WriteBlock, WriteTimeout, callVars
  <2>3. CASE SendCheck \/ WriteTake
    BY <2>3 DEF TypeControl, WriterPC, SendCheck, WriteTake, callVars
  <2> QED
    BY <1>8, <2>1, <2>2, <2>3
<1>9. CASE SendSome \/ SendFails
  <2>1. loaded' \in [Threads -> {"none", "fd", "invalid"}] /\ stray' \in SUBSET Threads
    BY <1>9, CallTyped, ThreeThreads DEF SendSome, SendFails
  <2> QED
    BY <1>9, <2>1 DEF TypeControl, WriterPC, SendSome, SendFails
<1>10. CASE Reuse
  BY <1>10 DEF TypeControl, Reuse, callVars
<1>11. CASE UNCHANGED conn_vars
  BY <1>11 DEF TypeControl, conn_vars
<1> QED
  BY <1>1, <1>2, <1>4, <1>5, <1>6, <1>7, <1>8, <1>9, <1>10, <1>11, ThreeThreads
  DEF ConnNext, ReaderStep, WriterStep

\* What one call of send does, when it does not fail.
SendTakes(n) ==
    /\ wire' = IF Reaches("writer", "ours")
               THEN wire \o [u \in 1..n |-> <<msg[1], sent + u>>] ELSE wire
    /\ sent' = sent + n
    /\ wpc' = IF sent + n = Units THEN "loop" ELSE "sending"
    /\ msg' = IF sent + n = Units THEN <<>> ELSE msg

\* The units that send puts on the wire are units of packets.
LEMMA UnitsTyped ==
    ASSUME TypeData, wpc = "sending", NEW n \in 1..Units - sent
    PROVE  [u \in 1..n |-> <<msg[1], sent + u>>] \in Seq(Messages \X (1..Units))
<1>1. msg[1] \in Messages
  BY DEF TypeData, Sending
<1>2. n \in Nat /\ \A u \in 1..n : sent + u \in 1..Units
  BY DEF TypeData
<1> QED
  BY <1>1, <1>2

\* Every step keeps the types of the data.
LEMMA DataTyped == TypeData /\ [ConnNext]_conn_vars => TypeData'
<1> SUFFICES ASSUME TypeData, [ConnNext]_conn_vars PROVE TypeData'
  OBVIOUS
<1> USE DEF TypeData, Sending, writeVars
<1>1. ASSUME NEW m \in Messages, SendPacket(m) PROVE TypeData'
  BY <1>1 DEF SendPacket, Wake
<1>2. CASE CloserStep
  BY <1>2 DEF CloserStep, Test, Mark, CloseSocket, Clear, Wake
<1>3. CASE ReadLoop \/ RecvData \/ RecvNothing \/ CloseHandler \/ Reuse
  BY <1>3 DEF ReadLoop, RecvData, RecvNothing, CloseHandler, Reuse
<1>4. CASE ReaderClose
  BY <1>4 DEF ReaderClose, Test, Mark, CloseSocket, Clear, Wake
<1>5. CASE WriteLoop \/ WriteIdle \/ WriteBlock \/ WriteTimeout \/ SendCheck \/ SendFails
  BY <1>5 DEF WriteLoop, WriteIdle, WriteBlock, WriteTimeout, SendCheck, SendFails
<1>6. CASE WriteTake
  BY <1>6 DEF WriteTake
<1>7. CASE SendSome
  <2>1. PICK n \in 1..Units - sent : SendTakes(n)
    BY <1>7 DEF SendSome, SendTakes
  <2>2. wire' \in Seq(Messages \X (1..Units))
    BY <1>7, <2>1, UnitsTyped, ConcatProperties DEF SendTakes, SendSome
  <2> QED
    BY <1>7, <2>1, <2>2 DEF SendSome, SendTakes
<1>8. CASE UNCHANGED conn_vars
  BY <1>8 DEF conn_vars
<1>9. ASSUME NEW t \in Threads, Load(t) PROVE TypeData'
  BY <1>9 DEF Load
<1> QED
  BY <1>1, <1>2, <1>3, <1>4, <1>5, <1>6, <1>7, <1>8, <1>9, ThreeThreads
  DEF ConnNext, ReaderStep, WriterStep

\* The variables of a connection keep their types, and send_raw is entered
\* with a packet.
THEOREM TypeCorrect == ConnSpec => []TypeInv
<1>1. ConnInit => TypeInv
  <2> SUFFICES ASSUME ConnInit PROVE TypeInv
    OBVIOUS
  <2>1. closed_ \in BOOLEAN /\ sock_ \in {"fd", "invalid"} /\ fd \in {"ours", "free", "theirs"}
    BY DEF ConnInit
  <2>2. reuse \in 0..MaxReuse /\ stray \in SUBSET Threads
        /\ loaded \in [Threads -> {"none", "fd", "invalid"}]
    BY DEF ConnInit
  <2>3. wpc \in WriterPC /\ reader \in ReaderPC /\ closer \in ClosePC \cup {"out"}
    BY DEF ConnInit, WriterPC, ReaderPC, ClosePC
  <2>4. TypeData
    BY DEF ConnInit, TypeData, Sending
  <2> QED
    BY <2>1, <2>2, <2>3, <2>4 DEF TypeInv, TypeControl
<1>2. TypeInv /\ [ConnNext]_conn_vars => TypeInv'
  BY ControlTyped, DataTyped DEF TypeInv
<1> QED
  BY <1>1, <1>2, PTL DEF ConnSpec

-----------------------------------------------------------------------------
\* StrayOncePerThread: of the two threads that may race in close(), whichever
\* closes the descriptor is at the assignment to sock_ that follows, and a thread
\* whose call has gone astray after it cannot have the number any more.
THEOREM StrayLimited == ConnSpec => StrayOncePerThread
<1>1. ConnInit => StrayInv
  BY DEF ConnInit, StrayInv
<1>2. TypeInv /\ StrayInv /\ [ConnNext]_conn_vars => StrayInv'
  <2> SUFFICES ASSUME TypeInv, TypeControl, StrayInv, [ConnNext]_conn_vars PROVE StrayInv'
    BY DEF TypeInv
  <2> USE ThreeThreads
  <2>1. ASSUME NEW m \in Messages, SendPacket(m) PROVE StrayInv'
    BY <2>1 DEF SendPacket, StrayInv, callVars
  <2>2. ASSUME NEW t \in Threads, Load(t) PROVE StrayInv'
    BY <2>2 DEF Load, StrayInv, TypeControl
  <2>3. ASSUME NEW t \in Threads, Call(t), UNCHANGED sock_
        PROVE  \A u \in stray' : sock_' = "invalid" /\ loaded'[u] # "fd"
    BY <2>3 DEF Call, StrayInv, TypeControl
  <2>4. CASE CloserStep
    <3>1. CASE Test \/ Mark
      BY <2>4, <3>1 DEF CloserStep, Test, Mark, CloseSocket, Clear, StrayInv, callVars
    <3>2. CASE CloseSocket("closer") /\ closer = "close" /\ closer' = "clear" /\ UNCHANGED reader
      BY <2>3, <3>2 DEF CloseSocket, StrayInv
    <3>3. CASE Clear /\ closer = "clear" /\ closer' = "out" /\ UNCHANGED reader
      BY <3>3 DEF Clear, StrayInv, callVars
    <3> QED
      BY <2>4, <3>1, <3>2, <3>3 DEF CloserStep
  <2>5. CASE ReaderClose
    <3>1. CASE Test \/ Mark
      BY <2>5, <3>1 DEF ReaderClose, Test, Mark, CloseSocket, Clear, StrayInv, callVars
    <3>2. CASE CloseSocket("reader") /\ reader = "close" /\ reader' = "clear" /\ UNCHANGED closer
      BY <2>3, <3>2 DEF CloseSocket, StrayInv
    <3>3. CASE Clear /\ reader = "clear" /\ reader' = "handler" /\ UNCHANGED closer
      BY <3>3 DEF Clear, StrayInv, callVars
    <3> QED
      BY <2>5, <3>1, <3>2, <3>3 DEF ReaderClose
  <2>6. CASE ReadLoop \/ CloseHandler
    BY <2>6 DEF ReadLoop, CloseHandler, StrayInv, callVars
  <2>7. CASE RecvData \/ RecvNothing
    <3>1. Call("reader") /\ UNCHANGED <<closed_, sock_, fd, closer>>
          /\ reader = "recv" /\ reader' \in {"loop", "test"}
      BY <2>7 DEF RecvData, RecvNothing
    <3> QED
      BY <2>3, <3>1 DEF StrayInv
  <2>8. CASE SendSome \/ SendFails
    <3>1. Call("writer") /\ UNCHANGED <<closed_, sock_, fd, reader, closer>>
      BY <2>8 DEF SendSome, SendFails
    <3> QED
      BY <2>3, <3>1 DEF StrayInv
  <2>9. CASE WriteLoop \/ WriteTake \/ WriteIdle \/ WriteBlock \/ WriteTimeout \/ SendCheck
    <3>1. UNCHANGED <<closed_, sock_, fd, reader, closer, loaded, stray>>
      BY <2>9 DEF WriteLoop, WriteTake, WriteIdle, WriteBlock, WriteTimeout, SendCheck, callVars
    <3> QED
      BY <3>1 DEF StrayInv
  <2>10. CASE Reuse
    BY <2>10 DEF Reuse, StrayInv, callVars
  <2>11. CASE UNCHANGED conn_vars
    BY <2>11 DEF conn_vars, StrayInv
  <2> QED
    BY <2>1, <2>2, <2>4, <2>5, <2>6, <2>7, <2>8, <2>9, <2>10, <2>11
    DEF ConnNext, ReaderStep, WriterStep
<1>3. TypeInv /\ StrayInv =>
        \A t \in Threads :
            Reaches(t, "theirs") =>
                closed_ /\ IF sock_ = "fd" THEN "clear" \in {reader, closer} ELSE t \notin stray
  BY DEF TypeInv, TypeControl, StrayInv, Reaches
<1>4. TypeInv /\ StrayInv =>
        [\A t \in Threads :
            (Reaches(t, "theirs") /\ loaded'[t] = "none") =>
                /\ closed_
                /\ IF sock_ = "fd" THEN "clear" \in {reader, closer} ELSE t \notin stray]_conn_vars
  BY <1>3
<1> QED
  BY <1>1, <1>2, <1>4, TypeCorrect, PTL DEF ConnSpec, StrayOncePerThread

-----------------------------------------------------------------------------
(***************************************************************************)
(* StreamInv is inductive.                                                 *)
(***************************************************************************)

\* A step of close(), of read_loop or of the kernel, and a step of write_loop
\* that moves no data: nothing of the stream changes, the descriptor does not
\* become ours again, and the write thread neither begins nor ends send_raw
\* (it may give up the packet and end).
Quiet ==
    /\ UNCHANGED writeVars
    /\ fd' = "ours" => fd = "ours"
    /\ wpc' # "done" => wpc # "done" /\ Sending' = Sending
    /\ wpc' = "send" => wpc = "send"
    /\ Sending' => Sending

\* Quiet steps keep StreamInv.
LEMMA QuietKeeps == StreamInv /\ Quiet => StreamInv'
<1> SUFFICES ASSUME StreamInv, Quiet PROVE StreamInv'
  OBVIOUS
<1>1. UNCHANGED <<write_queue_, accepted, wire, msg, sent>>
  BY DEF Quiet, writeVars
<1>2. Taken' = Taken
  BY <1>1 DEF Taken
<1>3. QueueIsSuffix'
  BY <1>1, <1>2 DEF Quiet, StreamInv, QueueIsSuffix
<1>4. WireLength'
  BY <1>1, <1>2 DEF Quiet, StreamInv, WireLength
<1>5. WireContents'
  BY <1>1 DEF StreamInv, WireContents
<1> QED
  BY <1>3, <1>4, <1>5 DEF StreamInv

\* send_packet appends to the queue and to the history alike.
LEMMA PacketKeeps ==
    ASSUME TypeInv, StreamInv, NEW m \in Messages, SendPacket(m) PROVE StreamInv'
<1> USE DEF TypeInv, TypeData
<1>1. /\ Len(accepted') = Len(accepted) + 1 /\ accepted'[Len(accepted) + 1] = m
      /\ \A k \in 1..Len(accepted) : accepted'[k] = accepted[k]
  BY AppendProperties DEF SendPacket
<1>2. /\ Len(write_queue_') = Len(write_queue_) + 1 /\ write_queue_'[Len(write_queue_) + 1] = m
      /\ \A k \in 1..Len(write_queue_) : write_queue_'[k] = write_queue_[k]
  BY AppendProperties DEF SendPacket
<1>3. Taken' = Taken /\ Taken \in Nat /\ Taken <= Len(accepted)
  BY <1>1, <1>2 DEF Taken, StreamInv, QueueIsSuffix
<1>4. UNCHANGED <<fd, wire, msg, sent>> /\ Sending' = Sending
      /\ (wpc' = "send" => wpc = "send") /\ (wpc' # "done" => wpc # "done")
  BY DEF SendPacket, Wake, Sending
<1>5. QueueIsSuffix'
  <2>1. ASSUME NEW i \in 1..Len(write_queue_') PROVE write_queue_'[i] = accepted'[Taken + i]
    <3>1. CASE i <= Len(write_queue_)
      <4>1. i \in 1..Len(write_queue_) /\ Taken + i \in 1..Len(accepted)
        BY <1>3, <3>1 DEF Taken
      <4> QED
        BY <1>1, <1>2, <4>1 DEF StreamInv, QueueIsSuffix
    <3>2. CASE i = Len(write_queue_) + 1
      <4>1. Taken + i = Len(accepted) + 1
        BY <3>2 DEF Taken
      <4> QED
        BY <1>1, <1>2, <3>2, <4>1
    <3> QED
      BY <1>2, <3>1, <3>2
  <2>2. Sending => Taken >= 1 /\ msg = <<accepted'[Taken]>> /\ sent < Units
    BY <1>1, <1>3 DEF StreamInv, QueueIsSuffix
  <2> QED
    BY <1>3, <1>4, <2>1, <2>2 DEF QueueIsSuffix, StreamInv
<1>6. WireLength'
  BY <1>3, <1>4 DEF WireLength, StreamInv
<1>7. WireContents'
  <2> SUFFICES ASSUME NEW i \in 1..Len(wire)
               PROVE  wire[i] = <<accepted'[((i - 1) \div Units) + 1], ((i - 1) % Units) + 1>>
    BY <1>4 DEF WireContents
  <2>1. i \in 1..(Units * Taken)
    BY <1>3, LenProperties DEF StreamInv, WireLength
  <2>2. ((i - 1) \div Units) + 1 \in 1..Len(accepted)
    BY <1>3, <2>1, PacketOf
  <2> QED
    BY <1>1, <2>2 DEF StreamInv, WireContents
<1> QED
  BY <1>5, <1>6, <1>7 DEF StreamInv

\* The write thread takes the next packet: nothing of it is on the wire yet.
LEMMA TakeKeeps == ASSUME TypeInv, StreamInv, WriteTake PROVE StreamInv'
<1> USE DEF TypeInv, TypeData
<1>1. /\ Len(write_queue_') = Len(write_queue_) - 1
      /\ \A k \in 1..Len(write_queue_') : write_queue_'[k] = write_queue_[k + 1]
      /\ Head(write_queue_) = write_queue_[1] /\ Len(write_queue_) >= 1
  BY HeadTailProperties DEF WriteTake
<1>2. UNCHANGED <<fd, accepted, wire>> /\ msg' = <<write_queue_[1]>> /\ sent' = 0
      /\ wpc = "lock" /\ wpc' = "send"
  BY <1>1 DEF WriteTake
<1>3. Taken' = Taken + 1 /\ Taken \in Nat
  BY <1>1, <1>2 DEF Taken, StreamInv, QueueIsSuffix
<1>4. QueueIsSuffix'
  <2>1. \A i \in 1..Len(write_queue_') : write_queue_'[i] = accepted[Taken' + i]
    <3> SUFFICES ASSUME NEW i \in 1..Len(write_queue_')
                 PROVE  write_queue_'[i] = accepted[Taken' + i]
      OBVIOUS
    <3>1. i + 1 \in 1..Len(write_queue_) /\ Taken' + i = Taken + (i + 1)
      BY <1>1, <1>3
    <3>2. write_queue_'[i] = write_queue_[i + 1]
      BY <1>1
    <3>3. write_queue_[i + 1] = accepted[Taken + (i + 1)]
      BY <3>1 DEF StreamInv, QueueIsSuffix
    <3> QED
      BY <3>1, <3>2, <3>3
  <2>2. write_queue_[1] = accepted[Taken']
    <3>1. 1 \in 1..Len(write_queue_)
      BY <1>1
    <3>2. write_queue_[1] = accepted[Taken + 1]
      BY <3>1 DEF StreamInv, QueueIsSuffix
    <3> QED
      BY <1>3, <3>2
  <2> QED
    BY <1>2, <1>3, <2>1, <2>2 DEF QueueIsSuffix
<1>5. WireLength'
  <2>1. Units * (Taken + 1) = Units * Taken + Units
    BY <1>3
  <2>2. Len(wire) <= Units * Taken
    BY DEF StreamInv, WireLength
  <2>3. fd = "ours" => Len(wire) = Units * Taken
    BY <1>2 DEF StreamInv, WireLength, Sending
  <2>4. Units * Taken \in Nat /\ Len(wire) \in Nat
    BY <1>3
  <2> QED
    BY <1>2, <1>3, <2>1, <2>2, <2>3, <2>4 DEF WireLength, Sending
<1>6. WireContents'
  BY <1>2 DEF StreamInv, WireContents
<1> QED
  BY <1>4, <1>5, <1>6 DEF StreamInv

\* send takes n units: they are the next ones of the packet in hand, which is
\* the packet the wire has come to.
LEMMA SendKeeps == ASSUME TypeInv, StreamInv, SendSome PROVE StreamInv'
<1> USE DEF TypeInv, TypeData
<1>1. PICK n \in 1..Units - sent : SendTakes(n)
  BY DEF SendSome, SendTakes
<1>2. UNCHANGED <<fd, write_queue_, accepted>> /\ wpc = "sending" /\ Sending
  BY DEF SendSome, Sending
<1>3. Taken' = Taken /\ Taken \in Nat /\ Taken >= 1 /\ msg = <<accepted[Taken]>>
  BY <1>2 DEF Taken, StreamInv, QueueIsSuffix
<1>4. sent' = sent + n /\ n \in Nat \ {0} /\ sent \in Nat /\ sent + n <= Units
  BY <1>1 DEF SendTakes
<1>5. \/ sent' = Units /\ wpc' = "loop" /\ ~Sending'
      \/ sent' < Units /\ wpc' = "sending" /\ Sending' /\ msg' = msg
  BY <1>1, <1>4 DEF SendTakes, Sending
<1>6. QueueIsSuffix'
  BY <1>2, <1>3, <1>5 DEF StreamInv, QueueIsSuffix
<1> DEFINE units == [u \in 1..n |-> <<msg[1], sent + u>>]
<1>7. Units * Taken = Units * (Taken - 1) + Units /\ Units * (Taken - 1) \in Nat
  BY <1>3
<1>8. CASE fd = "ours" /\ Reaches("writer", "ours")
  <2>1. wire' = wire \o units /\ units \in Seq(Messages \X (1..Units)) /\ Len(units) = n
    BY <1>1, <1>2, <1>4, <1>8, UnitsTyped DEF SendTakes
  <2> HIDE DEF units
  <2>2. /\ Len(wire') = Len(wire) + n
        /\ \A i \in 1..Len(wire) : wire'[i] = wire[i]
        /\ \A u \in 1..n : wire'[Len(wire) + u] = units[u]
    <3>1. Len(wire) \in Nat
      BY LenProperties
    <3>2. \A i \in 1..(Len(wire) + n) :
             wire'[i] = IF i <= Len(wire) THEN wire[i] ELSE units[i - Len(wire)]
      BY <2>1, <3>1, <1>4, ConcatProperties
    <3>3. Len(wire') = Len(wire) + n
      BY <2>1, ConcatProperties
    <3>4. ASSUME NEW u \in 1..n PROVE wire'[Len(wire) + u] = units[u]
      <4>1. Len(wire) + u \in 1..(Len(wire) + n) /\ ~(Len(wire) + u <= Len(wire))
            /\ (Len(wire) + u) - Len(wire) = u
        BY <1>4, <3>1
      <4> QED
        BY <3>2, <4>1
    <3>5. ASSUME NEW i \in 1..Len(wire) PROVE wire'[i] = wire[i]
      <4>1. i \in 1..(Len(wire) + n) /\ i <= Len(wire)
        BY <1>4, <3>1
      <4> QED
        BY <3>2, <4>1
    <3> QED
      BY <3>3, <3>4, <3>5
  <2>3. Len(wire) = Units * (Taken - 1) + sent
    BY <1>2, <1>8 DEF StreamInv, WireLength
  <2>4. WireLength'
    BY <1>2, <1>3, <1>4, <1>5, <1>7, <2>2, <2>3 DEF WireLength
  <2>5. WireContents'
    <3> SUFFICES ASSUME NEW i \in 1..Len(wire')
                 PROVE  wire'[i] = <<accepted[((i - 1) \div Units) + 1], ((i - 1) % Units) + 1>>
      BY <1>2 DEF WireContents
    <3>1. CASE i \in 1..Len(wire)
      BY <2>2, <3>1 DEF StreamInv, WireContents
    <3>2. CASE i > Len(wire)
      <4>1. PICK u \in 1..n : i = Len(wire) + u
        <5>1. i - Len(wire) \in 1..n /\ i = Len(wire) + (i - Len(wire))
          BY <1>4, <2>2, <3>2
        <5> QED
          BY <5>1
      <4> DEFINE q == Taken - 1
                 r == sent + u - 1
      <4>2. q \in Nat /\ r \in 0..(Units - 1)
        BY <1>3, <1>4
      <4>3. i - 1 = Units * q + r
        <5>1. PICK b \in Nat : b = Units * (Taken - 1)
          BY <1>7
        <5>2. Len(wire) = b + sent
          BY <2>3, <5>1
        <5>3. i - 1 = b + r
          BY <1>4, <4>1, <5>2
        <5> QED
          BY <5>1, <5>3
      <4>4. wire'[i] = <<accepted[Taken], sent + u>>
        BY <1>3, <2>2, <4>1 DEF units
      <4>5. q + 1 = Taken /\ r + 1 = sent + u
        BY <1>3, <1>4
      <4> HIDE DEF q, r
      <4>6. (i - 1) \div Units = q /\ (i - 1) % Units = r
        BY <4>2, <4>3, DivMod
      <4> QED
        BY <4>4, <4>5, <4>6
    <3>3. i \in 1..Len(wire) \/ i > Len(wire)
      <4>1. Len(wire) \in Nat /\ Len(wire') \in Nat
        BY <1>4, <2>2, LenProperties
      <4> QED
        BY <4>1
    <3> QED
      BY <3>1, <3>2, <3>3
  <2> QED
    BY <1>6, <2>4, <2>5 DEF StreamInv
<1>9. CASE fd # "ours"
  <2>1. UNCHANGED wire /\ fd' # "ours"
    BY <1>1, <1>2, <1>9 DEF SendTakes, Reaches
  <2>2. WireLength'
    BY <1>3, <2>1 DEF StreamInv, WireLength
  <2>3. WireContents'
    BY <1>2, <2>1 DEF StreamInv, WireContents
  <2> QED
    BY <1>6, <2>2, <2>3 DEF StreamInv
<1> QED
  BY <1>8, <1>9 DEF SendSome, Reaches

\* StreamFraming: whatever the threads that race in close() do to the
\* descriptor, the peer gets the queued packets in order, whole, but for the
\* last one when the write thread gives up.
THEOREM StreamFramed == ConnSpec => []StreamFraming
<1>1. ConnInit => StreamInv
  BY DEF ConnInit, StreamInv, QueueIsSuffix, WireLength, WireContents, Taken, Sending
<1>2. TypeInv /\ StreamInv /\ [ConnNext]_conn_vars => StreamInv'
  <2> SUFFICES ASSUME TypeInv, StreamInv, [ConnNext]_conn_vars PROVE StreamInv'
    OBVIOUS
  <2>1. ASSUME NEW m \in Messages, SendPacket(m) PROVE StreamInv'
    BY <2>1, PacketKeeps
  <2>2. CASE CloserStep
    BY <2>2, QuietKeeps DEF CloserStep, Test, Mark, CloseSocket, Clear, Wake, Quiet, Sending
  <2>3. CASE ReadLoop \/ RecvData \/ RecvNothing \/ CloseHandler \/ Reuse
    BY <2>3, QuietKeeps
    DEF ReadLoop, RecvData, RecvNothing, CloseHandler, Reuse, Quiet, Sending
  <2>4. CASE ReaderClose
    BY <2>4, QuietKeeps DEF ReaderClose, Test, Mark, CloseSocket, Clear, Wake, Quiet, Sending
  <2>5. CASE WriteLoop \/ WriteIdle \/ WriteBlock \/ WriteTimeout \/ SendCheck \/ SendFails
    BY <2>5, QuietKeeps
    DEF WriteLoop, WriteIdle, WriteBlock, WriteTimeout, SendCheck, SendFails, Quiet, Sending, writeVars
  <2>6. CASE WriteTake
    BY <2>6, TakeKeeps
  <2>7. CASE SendSome
    BY <2>7, SendKeeps
  <2>8. CASE UNCHANGED conn_vars
    BY <2>8, QuietKeeps DEF conn_vars, writeVars, Quiet, Sending
  <2>9. ASSUME NEW t \in Threads, Load(t) PROVE StreamInv'
    BY <2>9, QuietKeeps DEF Load, Quiet, Sending, writeVars
  <2> QED
    BY <2>1, <2>2, <2>3, <2>4, <2>5, <2>6, <2>7, <2>8, <2>9, ThreeThreads
    DEF ConnNext, ReaderStep, WriterStep
<1>3. TypeInv /\ StreamInv => StreamFraming
  <2> SUFFICES ASSUME TypeInv, StreamInv PROVE StreamFraming
    OBVIOUS
  <2>1. ConnTypeOK
    BY DEF TypeInv, TypeControl, TypeData, ConnTypeOK
  <2>2. Len(wire) <= Units * Len(accepted)
    <3>1. Taken \in Nat /\ Taken <= Len(accepted)
      BY DEF StreamInv, QueueIsSuffix, Taken, TypeInv, TypeData
    <3>2. Units * Taken <= Units * Len(accepted)
      <4>1. Len(accepted) \in Nat
        BY LenProperties DEF TypeInv, TypeData
      <4> QED
        BY <3>1, <4>1, Monotone
    <3>3. Units * Taken \in Nat /\ Units * Len(accepted) \in Nat /\ Len(wire) \in Nat
      BY <3>1 DEF TypeInv, TypeData
    <3> QED
      BY <3>2, <3>3 DEF StreamInv, WireLength
  <2> QED
    BY <2>1, <2>2 DEF StreamFraming, StreamInv, WireContents
<1> QED
  BY <1>1, <1>2, <1>3, TypeCorrect, PTL DEF ConnSpec

=============================================================================
