------------------------------ MODULE TimerHeap ------------------------------
(* The vector of timer entries that Timer, TimerLoop and EventLoop keep as a *)
(* binary heap (std::push_heap, std::pop_heap, earliest expire_at in front),  *)
(* and the scan that all three use to take out what is due.  An entry is a    *)
(* record with id, expire_at, interval_ms, cancelled and the owner of the     *)
(* callback.  The heap algorithms are spelled out because TimerLoop calls     *)
(* push_heap once for a whole batch: the vector need not be a heap, and what  *)
(* the library then does with it decides when a timer fires.                  *)
EXTENDS Integers, Sequences

CONSTANTS Delays,  \* the values of after_ms and interval_ms
          MaxTick  \* bound on the clock

ASSUME TimerAssumption == Delays \subseteq Nat /\ MaxTick \in Nat

Later(a, b) == a.expire_at > b.expire_at

Swap(s, i, j) == [s EXCEPT ![i] = s[j], ![j] = s[i]]

\* One turn of the loop that moves the entry at r.at up to its place.
UpTurn(r) ==
    IF r.at > 1 /\ Later(r.s[r.at \div 2], r.s[r.at])
    THEN [s |-> Swap(r.s, r.at, r.at \div 2), at |-> r.at \div 2]
    ELSE r

\* Len(s) turns are enough: the turns behind the last one change nothing.
SiftUp(s, i) ==
    LET up[k \in 0..Len(s)] == IF k = 0 THEN [s |-> s, at |-> i] ELSE UpTurn(up[k - 1])
    IN  up[Len(s)].s

\* libstdc++ moves the hole down to a leaf first and then sifts up.
DownTurn(r) ==
    LET l == 2 * r.at
        child == IF l = Len(r.s) \/ Later(r.s[l + 1], r.s[l]) THEN l ELSE l + 1
    IN  IF l > Len(r.s) THEN r ELSE [s |-> Swap(r.s, r.at, child), at |-> child]

SiftDown(s, i) ==
    LET down[k \in 0..Len(s)] == IF k = 0 THEN [s |-> s, at |-> i] ELSE DownTurn(down[k - 1])
    IN  SiftUp(down[Len(s)].s, down[Len(s)].at)

\* std::push_heap: only the last element is moved to its place.
PushHeap(s) == SiftUp(s, Len(s))

\* std::pop_heap followed by pop_back: the vector without its front.
PopHeap(s) ==
    IF Len(s) = 1 THEN <<>>
    ELSE SiftDown([i \in 1..(Len(s) - 1) |-> IF i = 1 THEN s[Len(s)] ELSE s[i]], 1)

-----------------------------------------------------------------------------
(* The scan of poll, thread_loop and process_timers: cancelled entries at the *)
(* front are dropped, due ones are moved to fired, the first other one stops. *)

ScanTurn(r, now) ==
    LET top == r.rest[1]
    IN  IF r.rest = <<>> \/ (~top.cancelled /\ top.expire_at > now) THEN r
        ELSE [rest |-> PopHeap(r.rest),
              fired |-> IF top.cancelled THEN r.fired ELSE Append(r.fired, top)]

PopDue(s, now) ==
    LET scan[k \in 0..Len(s)] ==
            IF k = 0 THEN [rest |-> s, fired |-> <<>>] ELSE ScanTurn(scan[k - 1], now)
    IN  scan[Len(s)]

\* cancel: the first entry with this id is marked, and found says if there is one.
Found(s, id) == \E i \in 1..Len(s) : s[i].id = id

First(s, id) == CHOOSE i \in 1..Len(s) : s[i].id = id /\ \A j \in 1..(i - 1) : s[j].id # id

\* Fault: cancelled is set in a copy of the entry.
MarkCopy(s, id) == s

MarkFirst(s, id) == [s EXCEPT ![First(s, id)].cancelled = TRUE]

=============================================================================
