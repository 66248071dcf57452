-------------------------------- MODULE Timer --------------------------------
(***************************************************************************)
(* Timer (src/base/timer/timer.cpp): the timers of a single thread, which  *)
(* adds, cancels and polls. The callbacks of this model do not use the     *)
(* timer themselves.                                                       *)
(***************************************************************************)
EXTENDS TimerHeap

CONSTANT MaxIds \* a bound

ASSUME IdsAssumption == MaxIds \in Nat

VARIABLES clock, items_, next_id_,
          fired, wait \* what poll has fired and returned, until the next call

timer_vars == <<clock, items_, next_id_, fired, wait>>

TimerInit == clock = 0 /\ items_ = <<>> /\ next_id_ = 0 /\ fired = <<>> /\ wait = -1

Item(id, expire_at, interval) ==
    [id |-> id, expire_at |-> expire_at, interval_ms |-> interval, cancelled |-> FALSE]

\* The results of a poll before are forgotten.
Returned == fired' = <<>> /\ wait' = -1

\* Time passes between the calls.
TimerTick == clock < MaxTick /\ clock' = clock + 1 /\ Returned /\ UNCHANGED <<items_, next_id_>>

add(after) ==
    /\ next_id_ < MaxIds /\ next_id_' = next_id_ + 1
    /\ items_' = PushHeap(Append(items_, Item(next_id_', clock + after, 0)))
    /\ Returned /\ UNCHANGED clock

add_repeating(interval) ==
    /\ next_id_ < MaxIds /\ next_id_' = next_id_ + 1
    /\ items_' = PushHeap(Append(items_, Item(next_id_', clock + interval, interval)))
    /\ Returned /\ UNCHANGED clock

cancel(id) ==
    /\ Found(items_, id)
    /\ items_' = MarkFirst(items_, id)
    /\ Returned /\ UNCHANGED <<clock, next_id_>>

clear == items_' = <<>> /\ Returned /\ UNCHANGED <<clock, next_id_>>

\* Fault: a repeating timer is appended and not moved to its place.
EnteredAtEnd(r, t, now) ==
    IF t.interval_ms > 0
    THEN [items |-> Append(r.items, Item(r.id + 1, now + t.interval_ms, t.interval_ms)),
          id |-> r.id + 1]
    ELSE r

\* A timer that has fired is entered again if it repeats, with a new id.
Entered(r, t, now) ==
    IF t.interval_ms > 0
    THEN [items |-> PushHeap(Append(r.items, Item(r.id + 1, now + t.interval_ms, t.interval_ms))),
          id |-> r.id + 1]
    ELSE r

\* The loop over fired, whose callbacks are not modelled.
AllEntered(rest, due, now) ==
    LET e[k \in 0..Len(due)] ==
            IF k = 0 THEN [items |-> rest, id |-> next_id_] ELSE Entered(e[k - 1], due[k], now)
    IN  e[Len(due)]

poll ==
    LET due == PopDue(items_, clock)
        r == AllEntered(due.rest, due.fired, clock)
    IN  /\ r.id <= MaxIds /\ next_id_' = r.id
        /\ items_' = r.items
        /\ fired' = due.fired
        /\ wait' = IF items_' = <<>> THEN -1 ELSE items_'[1].expire_at - clock
        /\ UNCHANGED clock

TimerNext ==
    \/ TimerTick \/ clear \/ poll
    \/ \E d \in Delays : add(d) \/ add_repeating(d)
    \/ \E id \in 1..MaxIds : cancel(id)

TimerSpec == TimerInit /\ [][TimerNext]_timer_vars

-----------------------------------------------------------------------------
(***************************************************************************)
(* Properties                                                              *)
(***************************************************************************)

\* Type invariant.
TimerTypeOK ==
    /\ clock \in 0..MaxTick /\ next_id_ \in 0..MaxIds /\ wait \in Int
    /\ \A i \in 1..Len(items_) : items_[i].id \in 1..next_id_
    /\ \A i \in 1..Len(fired) : fired[i].id \in 1..next_id_

\* What poll does, said of the set of items: it fires the items that are due
\* and not cancelled, each once, the earlier ones first, and a caller that
\* sleeps for the time it returns misses none of the others.
PollFiresDue ==
    [][poll =>
        LET Due(i) == items_[i].expire_at <= clock /\ ~items_[i].cancelled
        IN  /\ {fired'[i] : i \in 1..Len(fired')} = {items_[i] : i \in {j \in 1..Len(items_) : Due(j)}}
            /\ \A i, j \in 1..Len(fired') :
                   i < j => /\ fired'[i].id # fired'[j].id
                            /\ fired'[i].expire_at <= fired'[j].expire_at
            /\ \A i \in 1..Len(items_') : 0 <= wait' /\ wait' <= items_'[i].expire_at - clock
      ]_timer_vars /\ []TimerTypeOK

=============================================================================
