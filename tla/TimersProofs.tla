---------------------------- MODULE TimersProofs ----------------------------
(***************************************************************************)
(* Proofs about the event loop, its table of descriptors and Timer.        *)
(***************************************************************************)
EXTENDS EventLoop, FdHandlers, Timer, HeapProofs, TLAPS

-----------------------------------------------------------------------------
(***************************************************************************)
(* FdHandlers                                                              *)
(***************************************************************************)

\* The table and the interest list agree on f, but for a descriptor that was closed
\* while it was registered.
Agree(f) ==
    /\ fd_handlers_[f] # interest[f] => interest[f] = None /\ f \in stale
    /\ f \in stale => fd_handlers_[f] # None /\ interest[f] = None

\* What a call on f leaves between its steps when it is the only one.
Alone(f) ==
    /\ \A c, d \in Callers : call[c].fd = f /\ call[d].fd = f => c = d
    /\ \A c \in Callers : call[c].fd = f =>
          /\ call[c].pc = "ctl" => call[c].op = Op(f)
          /\ call[c].pc = "store" => \/ interest[f] = call[c].handler /\ f \notin stale
                                     \/ interest[f] = None /\ f \in stale
          /\ call[c].pc = "erase" => interest[f] = None
    /\ (\A c \in Callers : call[c].fd = f => call[c].pc \notin {"store", "erase"}) => Agree(f)

\* Calls have a descriptor, and those of add_fd a handler.
CallInv ==
    /\ FdTypeOK
    /\ \A c \in Callers :
          /\ call[c].pc = "out" <=> call[c].fd = None
          /\ call[c].pc \in {"count", "ctl", "store"} => call[c].handler # None

FdInv == CallInv /\ \A f \in Fds \ raced : Alone(f)

\* The steps that a call begins with.
Begins(c, f) == del_fd(c, f) \/ mod_fd(c, f) \/ \E h \in Handlers : add_fd(c, f, h)

\* Every step is one of these.
LEMMA FdCases ==
    ASSUME FdNext
    PROVE  \/ \E f \in Fds : Open(f) \/ Close(f)
           \/ \E c \in Callers : Ctl(c) \/ Store(c) \/ Count(c) \/ Erase(c)
           \/ \E c \in Callers, f \in Fds : Begins(c, f)
BY DEF FdNext, AddFdStep, Begins

\* A call of c goes from its place to another with the same descriptor or ends.
LEMMA CallTyped ==
    ASSUME CallInv, FdNext PROVE CallInv'
<1> USE FdAssumption DEF CallInv, FdTypeOK, Op, Idle
<1>1. ASSUME NEW f \in Fds, Open(f) PROVE CallInv'
  BY <1>1 DEF Open
<1>2. ASSUME NEW f \in Fds, Close(f) PROVE CallInv'
  BY <1>2 DEF Close
<1>3. ASSUME NEW c \in Callers, Ctl(c) PROVE CallInv'
  BY <1>3 DEF Ctl
<1>4. ASSUME NEW c \in Callers, Store(c) PROVE CallInv'
  BY <1>4 DEF Store
<1>5. ASSUME NEW c \in Callers, Count(c) PROVE CallInv'
  <2>1. call'[c] = [call[c] EXCEPT !.pc = "ctl", !.op = Op(call[c].fd)]
    BY <1>5 DEF Count
  <2>2. call'[c].fd = call[c].fd /\ call'[c].pc = "ctl" /\ call'[c].handler = call[c].handler
    BY <2>1
  <2>3. call' \in [Callers -> [pc : {"out", "count", "ctl", "store", "erase"}, fd : Fds \cup {None},
                              handler : Handlers \cup {None}, op : {"ADD", "MOD", None}]]
    <3> DEFINE Calls == [pc : {"out", "count", "ctl", "store", "erase"}, fd : Fds \cup {None},
                         handler : Handlers \cup {None}, op : {"ADD", "MOD", None}]
    <3>1. call[c] \in Calls /\ call \in [Callers -> Calls] /\ Op(call[c].fd) \in {"ADD", "MOD"}
      OBVIOUS
    <3>2. [call[c] EXCEPT !.pc = "ctl", !.op = Op(call[c].fd)] \in Calls
      BY <3>1
    <3>3. \A d \in Callers : d # c => call'[d] = call[d]
      BY <1>5 DEF Count
    <3>4. call' = [d \in Callers |-> call'[d]]
      BY <1>5 DEF Count
    <3> HIDE DEF Calls
    <3>5. \A d \in Callers : call'[d] \in Calls
      BY <2>1, <3>1, <3>2, <3>3
    <3>6. call' \in [Callers -> Calls]
      BY <3>4, <3>5
    <3> QED
      BY <3>6 DEF Calls
  <2> QED
    BY <1>5, <2>2, <2>3 DEF Count
<1>6. ASSUME NEW c \in Callers, Erase(c) PROVE CallInv'
  BY <1>6 DEF Erase
<1>7. ASSUME NEW c \in Callers, NEW f \in Fds, del_fd(c, f) PROVE CallInv'
  BY <1>7 DEF del_fd, Begin
<1>8. ASSUME NEW c \in Callers, NEW f \in Fds, mod_fd(c, f) PROVE CallInv'
  BY <1>8 DEF mod_fd, Begin, Overlaps
<1>9. ASSUME NEW c \in Callers, NEW f \in Fds, NEW h \in Handlers, add_fd(c, f, h) PROVE CallInv'
  BY <1>9 DEF add_fd, Begin, Overlaps
<1> QED
  BY <1>1, <1>2, <1>3, <1>4, <1>5, <1>6, <1>7, <1>8, <1>9, FdCases DEF Begins

\* A step of calls on other descriptors leaves what is known of f.
LEMMA AloneKept ==
    ASSUME NEW f \in Fds, Alone(f), interest'[f] = interest[f], fd_handlers_'[f] = fd_handlers_[f],
           f \in stale' <=> f \in stale,
           \A c \in Callers : \/ call'[c] = call[c]
                              \/ call[c].fd # f /\ call'[c].fd # f
    PROVE  Alone(f)'
BY DEF Alone, Agree, Op

\* A descriptor is closed or opened, or a call of add_fd, del_fd or mod_fd takes a step.
LEMMA FdStep ==
    ASSUME FdInv, FdNext PROVE FdInv'
<1>1. CallInv /\ CallInv'
  BY CallTyped DEF FdInv
<1> SUFFICES ASSUME NEW f \in Fds, f \notin raced' PROVE Alone(f)'
  BY <1>1 DEF FdInv
<1> USE FdAssumption DEF Agree, Idle
<1>2. ASSUME NEW g \in Fds, Open(g) PROVE Alone(f)'
  BY <1>2 DEF Open, FdInv, Alone, Op
<1>3. ASSUME NEW g \in Fds, Close(g) PROVE Alone(f)'
  BY <1>1, <1>3 DEF Close, FdInv, Alone, Op, CallInv, FdTypeOK
<1>4. ASSUME NEW c \in Callers, Ctl(c) PROVE Alone(f)'
  <2>1. f \notin raced /\ Alone(f)
    BY <1>4 DEF Ctl, FdInv
  <2>2. CASE call[c].fd # f
    BY <1>1, <1>4, <2>1, <2>2, AloneKept DEF Ctl, CallInv, FdTypeOK
  <2>3. CASE call[c].fd = f
    BY <1>1, <1>4, <2>1, <2>3 DEF Ctl, CallInv, FdTypeOK, Alone, CtlSucceeds, Op
  <2> QED
    BY <2>2, <2>3
<1>5. ASSUME NEW c \in Callers, Store(c) PROVE Alone(f)'
  <2>1. f \notin raced /\ Alone(f)
    BY <1>5 DEF Store, FdInv
  <2>2. CASE call[c].fd # f
    BY <1>1, <1>5, <2>1, <2>2, AloneKept DEF Store, CallInv, FdTypeOK
  <2>3. CASE call[c].fd = f
    BY <1>1, <1>5, <2>1, <2>3 DEF Store, CallInv, FdTypeOK, Alone
  <2> QED
    BY <2>2, <2>3
<1>6. ASSUME NEW c \in Callers, Count(c) PROVE Alone(f)'
  <2>1. f \notin raced /\ Alone(f)
    BY <1>6 DEF Count, FdInv
  <2>2. CASE call[c].fd # f
    BY <1>1, <1>6, <2>1, <2>2, AloneKept DEF Count, CallInv, FdTypeOK
  <2>3. CASE call[c].fd = f
    BY <1>1, <1>6, <2>1, <2>3 DEF Count, CallInv, FdTypeOK, Alone, Op
  <2> QED
    BY <2>2, <2>3
<1>7. ASSUME NEW c \in Callers, Erase(c) PROVE Alone(f)'
  <2>1. f \notin raced /\ Alone(f)
    BY <1>7 DEF Erase, FdInv
  <2>2. CASE call[c].fd # f
    BY <1>1, <1>7, <2>1, <2>2, AloneKept DEF Erase, CallInv, FdTypeOK
  <2>3. CASE call[c].fd = f
    BY <1>1, <1>7, <2>1, <2>3 DEF Erase, CallInv, FdTypeOK, Alone
  <2> QED
    BY <2>2, <2>3
<1>8. ASSUME NEW c \in Callers, NEW g \in Fds, Begins(c, g) PROVE Alone(f)'
  <2>1. /\ call[c].pc = "out" /\ call[c].fd = None /\ call'[c].fd = g
        /\ \A d \in Callers : d # c => call'[d] = call[d]
    BY <1>1, <1>8 DEF Begins, del_fd, mod_fd, add_fd, Begin, CallInv, FdTypeOK
  <2>2. CASE g # f
    <3>1. f \notin raced /\ interest'[f] = interest[f] /\ fd_handlers_' = fd_handlers_ /\ stale' = stale
      BY <1>1, <1>8, <2>2 DEF Begins, del_fd, mod_fd, add_fd, Overlaps, CallInv, FdTypeOK
    <3> QED
      BY <2>1, <2>2, <3>1, AloneKept DEF FdInv
  <2>3. CASE g = f
    <3>1. ~Busy(f)
      BY <1>8, <2>3 DEF Begins, del_fd, mod_fd, add_fd, Overlaps
    <3>2. \A d \in Callers : call[d].fd # f /\ (call'[d].fd = f <=> d = c)
      BY <2>1, <2>3, <3>1 DEF Busy
    <3>3. CASE del_fd(c, g)
      BY <1>1, <2>3, <3>2, <3>3 DEF del_fd, Begin, Alone, CallInv, FdTypeOK
    <3>4. CASE mod_fd(c, g)
      BY <1>1, <2>3, <3>1, <3>2, <3>4 DEF mod_fd, Begin, Overlaps, Alone, CallInv, FdTypeOK, FdInv
    <3>5. ASSUME NEW h \in Handlers, add_fd(c, g, h) PROVE Alone(f)'
      BY <1>1, <2>3, <3>1, <3>2, <3>5 DEF add_fd, Begin, Overlaps, Alone, Op, CallInv, FdTypeOK, FdInv
    <3> QED
      BY <1>8, <3>3, <3>4, <3>5 DEF Begins
  <2> QED
    BY <2>2, <2>3
<1> QED
  BY <1>2, <1>3, <1>4, <1>5, <1>6, <1>7, <1>8, FdCases

\* epoll reports a descriptor to the handler the loop has for it, when the calls on
\* it did not overlap: see FdHandlers.
THEOREM HandlersStayTogether == FdSpec => []HandlersAgree
<1>1. FdInit => FdInv
  BY FdAssumption DEF FdInit, FdInv, CallInv, FdTypeOK, Alone, Agree, Idle
<1>2. ASSUME FdInv, [FdNext]_fd_vars PROVE FdInv'
  <2>1. CASE FdNext
    BY <1>2, <2>1, FdStep
  <2>2. CASE UNCHANGED fd_vars
    BY <1>2, <2>2 DEF fd_vars, FdInv, CallInv, FdTypeOK, Alone, Agree, Op
  <2> QED
    BY <1>2, <2>1, <2>2
<1>3. FdInv => HandlersAgree
  BY DEF FdInv, CallInv, Alone, Agree, Busy, HandlersAgree, CtlSucceeds, Op
<1> QED
  BY <1>1, <1>2, <1>3, PTL DEF FdSpec

-----------------------------------------------------------------------------
(***************************************************************************)
(* EventLoop                                                               *)
(***************************************************************************)

\* The entries of timers_.
TimerEntry ==
    [id : Nat, expire_at : Nat, interval_ms : Nat, cancelled : BOOLEAN, of : Timers]

\* The tasks are numbered through: those that ran, then those of the batch, then
\* the pending ones.
Numbered(done, b, rest) ==
    /\ done \in Seq(Nat) /\ b \in Seq(Nat) /\ rest \in Seq(Nat)
    /\ Len(done) + Len(b) + Len(rest) = pushed
    /\ \A i \in 1..Len(done) : done[i] = i
    /\ \A i \in 1..Len(b) : b[i] = Len(done) + i
    /\ \A i \in 1..Len(rest) : rest[i] = Len(done) + Len(b) + i

\* The tasks of the batch.
TaskBatch == IF lpc = "tasks" THEN batch ELSE <<>>

TaskInv == Numbered(ran, TaskBatch, pending_tasks_)

\* timers_ is a heap with at most one entry of each timer, and one that was
\* cancelled is marked.
HeapInv ==
    /\ timers_ \in Seq(TimerEntry) /\ Heap(timers_) /\ OnceOf(timers_)
    /\ \A i \in 1..Len(timers_) :
          /\ handle[timers_[i].of] # 0
          /\ timers_[i].of \in revoked => timers_[i].cancelled
    /\ \A t \in revoked : handle[t] # 0

\* A timer that is being added has no handle yet.
AddingInv ==
    \A t \in Timers : adding[t].pc # "out" => handle[t] = 0 /\ adding[t].id # 0

\* What process_timers has taken out was due, was not cancelled and is no longer in
\* timers_.
BatchInv ==
    /\ batch \in Seq(TimerEntry) /\ OnceOf(batch)
    /\ lpc # "fired" => batch # <<>>
    /\ \A i \in 1..Len(batch) :
          /\ batch[i].expire_at <= at
          /\ handle[batch[i].of] # 0
          /\ batch[i].of \notin revoked
          /\ ~Has(timers_, batch[i].of)

\* The event loop.
LoopInv ==
    /\ TypeOK /\ TaskInv /\ HeapInv /\ AddingInv
    /\ lpc \in TimerPCs => BatchInv
    /\ lpc \in {"out", "test", "swap", "scan"} => batch = <<>>

\* The entries of timers_ are entries for the heap.
LEMMA TimerEntries ==
    Entries(TimerEntry) /\ \A e \in TimerEntry : Marked(e) \in TimerEntry
<1>1. Entries(TimerEntry)
  BY DEF Entries, TimerEntry
<1>2. ASSUME NEW e \in TimerEntry PROVE Marked(e) \in TimerEntry
  BY DEF TimerEntry, Marked
<1> QED
  BY <1>1, <1>2

\* The numbers are what TasksInOrder says.
LEMMA NumberedInOrder ==
    ASSUME pushed \in Nat, NEW q, NEW b, NEW r, Numbered(q, b, r)
    PROVE  q \o b \o r = [i \in 1..pushed |-> i]
<1> DEFINE w == q \o b
           x == w \o r
           y == [i \in 1..pushed |-> i]
<1>1. /\ q \in Seq(Nat) /\ b \in Seq(Nat) /\ r \in Seq(Nat)
      /\ Len(q) \in Nat /\ Len(b) \in Nat /\ Len(r) \in Nat
  BY DEF Numbered
<1>2. /\ w \in Seq(Nat) /\ Len(w) = Len(q) + Len(b)
      /\ \A i \in 1..(Len(q) + Len(b)) : w[i] = IF i <= Len(q) THEN q[i] ELSE b[i - Len(q)]
  BY <1>1
<1>3. \A i \in 1..Len(w) : w[i] = i
  <2> TAKE i \in 1..Len(w)
  <2>1. CASE i <= Len(q)
    BY <1>1, <1>2, <2>1 DEF Numbered
  <2>2. CASE ~(i <= Len(q))
    <3>1. i - Len(q) \in 1..Len(b)
      BY <1>1, <1>2, <2>2
    <3>2. b[i - Len(q)] = Len(q) + (i - Len(q))
      BY <3>1 DEF Numbered
    <3> QED
      BY <1>1, <1>2, <2>2, <3>2
  <2> QED
    BY <2>1, <2>2
<1> HIDE DEF w
<1>4. /\ x \in Seq(Nat) /\ Len(x) = Len(w) + Len(r)
      /\ \A i \in 1..(Len(w) + Len(r)) : x[i] = IF i <= Len(w) THEN w[i] ELSE r[i - Len(w)]
  <2>1. w \in Seq(Nat) /\ r \in Seq(Nat)
    BY <1>1, <1>2
  <2> QED
    BY <2>1
<1>5. \A i \in 1..Len(x) : x[i] = i
  <2> TAKE i \in 1..Len(x)
  <2>1. CASE i <= Len(w)
    BY <1>1, <1>2, <1>3, <1>4, <2>1
  <2>2. CASE ~(i <= Len(w))
    <3>1. i - Len(w) \in 1..Len(r)
      BY <1>1, <1>2, <1>4, <2>2
    <3>2. r[i - Len(w)] = Len(q) + Len(b) + (i - Len(w))
      BY <3>1 DEF Numbered
    <3> QED
      BY <1>1, <1>2, <1>4, <2>2, <3>2
  <2> QED
    BY <2>1, <2>2
<1>6. Len(x) = pushed
  BY <1>1, <1>2, <1>4 DEF Numbered
<1> HIDE DEF x
<1>7. x = y
  BY <1>4, <1>5, <1>6
<1> QED
  BY <1>7 DEF x, w

\* A task is pushed.
LEMMA TaskPushed ==
    ASSUME LoopInv, push_task PROVE TaskInv'
<1> DEFINE r == pending_tasks_
           b == TaskBatch
<1>1. Numbered(ran, b, r) /\ pushed \in Nat
  BY TimerAssumption, EventLoopAssumption DEF LoopInv, TaskInv, TypeOK
<1>2. r \in Seq(Nat) /\ Len(r) \in Nat /\ Len(ran) \in Nat /\ Len(b) \in Nat
  BY <1>1 DEF Numbered
<1>3. ran' = ran /\ TaskBatch' = b /\ pushed' = pushed + 1 /\ pending_tasks_' = Append(r, pushed + 1)
  BY DEF push_task, TaskBatch, lvars
<1> HIDE DEF b, r
<1>4. /\ Append(r, pushed + 1) \in Seq(Nat) /\ Len(Append(r, pushed + 1)) = Len(r) + 1
      /\ Append(r, pushed + 1)[Len(r) + 1] = pushed + 1
      /\ \A i \in 1..Len(r) : Append(r, pushed + 1)[i] = r[i]
  BY <1>1, <1>2
<1>5. ASSUME NEW i \in 1..Len(Append(r, pushed + 1))
      PROVE  Append(r, pushed + 1)[i] = Len(ran) + Len(b) + i
  <2>1. CASE i = Len(r) + 1
    <3>1. pushed = Len(ran) + Len(b) + Len(r)
      BY <1>1 DEF Numbered
    <3> QED
      BY <1>2, <1>4, <2>1, <3>1
  <2>2. CASE i # Len(r) + 1
    <3>1. i \in 1..Len(r)
      BY <1>2, <1>4, <2>2
    <3> QED
      BY <1>1, <1>4, <3>1 DEF Numbered
  <2> QED
    BY <2>1, <2>2
<1> QED
  BY <1>1, <1>2, <1>3, <1>4, <1>5 DEF TaskInv, Numbered

\* process_tasks takes the tasks over.
LEMMA TasksSwapped ==
    ASSUME LoopInv, SwapTasks PROVE TaskInv'
<1>1. TaskBatch = <<>> /\ TaskBatch' = pending_tasks_ /\ pending_tasks_' = <<>> /\ ran' = ran /\ pushed' = pushed
  BY DEF TaskBatch, SwapTasks, LoopInv
<1>2. Numbered(ran, <<>>, pending_tasks_)
  BY <1>1 DEF LoopInv, TaskInv
<1>3. <<>> \in Seq(Nat) /\ Len(<<>>) = 0
  OBVIOUS
<1> QED
  BY <1>1, <1>2, <1>3 DEF TaskInv, Numbered

\* A task of the batch runs.
LEMMA TaskRuns ==
    ASSUME LoopInv, RunTask PROVE TaskInv'
<1> DEFINE b == batch
           d == ran
<1>1. /\ TaskBatch = b /\ TaskBatch' = Tail(b) /\ ran' = Append(d, Head(b))
      /\ b # <<>> /\ pending_tasks_' = pending_tasks_ /\ pushed' = pushed
  BY DEF TaskBatch, RunTask
<1>2. Numbered(d, b, pending_tasks_)
  BY <1>1 DEF LoopInv, TaskInv
<1>3. d \in Seq(Nat) /\ b \in Seq(Nat) /\ Len(d) \in Nat /\ Len(b) \in Nat /\ Len(b) >= 1
  BY <1>1, <1>2 DEF Numbered
<1> HIDE DEF b, d
<1> DEFINE c == Tail(b)
           e == Append(d, Head(b))
<1>4. /\ c \in Seq(Nat) /\ Len(c) = Len(b) - 1 /\ \A i \in 1..Len(c) : c[i] = b[i + 1]
      /\ Head(b) = b[1] /\ b[1] \in Nat
  BY <1>1, <1>3
<1>5. /\ e \in Seq(Nat) /\ Len(e) = Len(d) + 1 /\ e[Len(d) + 1] = b[1]
      /\ \A i \in 1..Len(d) : e[i] = d[i]
  BY <1>3, <1>4
<1> HIDE DEF c, e
<1>6. ASSUME NEW i \in 1..Len(e) PROVE e[i] = i
  <2>1. CASE i = Len(d) + 1
    BY <1>2, <1>3, <1>5, <2>1 DEF Numbered
  <2>2. CASE i # Len(d) + 1
    <3>1. i \in 1..Len(d)
      BY <1>3, <1>5, <2>2
    <3> QED
      BY <1>2, <1>5, <3>1 DEF Numbered
  <2> QED
    BY <2>1, <2>2
<1>7. ASSUME NEW i \in 1..Len(c) PROVE c[i] = Len(e) + i
  <2>1. i + 1 \in 1..Len(b)
    BY <1>3, <1>4
  <2>2. b[i + 1] = Len(d) + (i + 1)
    BY <1>2, <2>1 DEF Numbered
  <2> QED
    BY <1>3, <1>4, <1>5, <2>2
<1>8. Len(e) + Len(c) = Len(d) + Len(b)
  BY <1>3, <1>4, <1>5
<1>9. Numbered(e, c, pending_tasks_)
  BY <1>2, <1>3, <1>4, <1>5, <1>6, <1>7, <1>8 DEF Numbered
<1>10. ran' = e /\ TaskBatch' = c /\ pending_tasks_' = pending_tasks_ /\ pushed' = pushed
  BY <1>1 DEF c, e
<1> QED
  BY <1>9, <1>10 DEF TaskInv, Numbered

\* Other steps leave the tasks where they are.
LEMMA TasksLeft ==
    ASSUME TaskInv, UNCHANGED qvars, TaskBatch' = TaskBatch PROVE TaskInv'
BY DEF TaskInv, Numbered, qvars

\* An entry of a timer that has none goes into timers_.
LEMMA EntryPushed ==
    ASSUME HeapInv, handle \in [Timers -> Nat], revoked \subseteq Timers,
           NEW n \in Nat, NEW x \in Nat, NEW d \in Nat, NEW t \in Timers,
           ~Has(timers_, t), t \notin revoked, Pushed(n, x, d, t),
           revoked' = revoked, handle'[t] # 0,
           \A u \in Timers : handle[u] # 0 => handle'[u] # 0
    PROVE  HeapInv' /\ \A u \in Timers : Has(timers_', u) <=> Has(timers_, u) \/ u = t
<1>0. PICK e : e = [id |-> n, expire_at |-> x, interval_ms |-> d, cancelled |-> FALSE, of |-> t]
  OBVIOUS
<1> DEFINE s == timers_
           q == PushHeap(Append(s, e))
<1>1. e \in TimerEntry /\ e.of = t
  BY <1>0 DEF TimerEntry
<1>2. timers_' = q
  BY <1>0 DEF Pushed
<1>3. s \in Seq(TimerEntry) /\ Heap(s) /\ OnceOf(s) /\ Entries(TimerEntry)
  BY TimerEntries DEF HeapInv
<1>4. /\ q \in Seq(TimerEntry) /\ Heap(q)
      /\ \A i \in 1..Len(q) : q[i] = e \/ \E k \in 1..Len(s) : q[i] = s[k]
      /\ OnceOf(s) /\ ~Has(s, e.of) => OnceOf(q)
      /\ \A u : Has(q, u) <=> Has(s, u) \/ u = e.of
  <2>1. Entries(TimerEntry) /\ s \in Seq(TimerEntry) /\ e \in TimerEntry
    BY <1>1, <1>3
  <2> HIDE DEF s
  <2>2. q \in Seq(TimerEntry) /\ Heap(q)
    BY <1>3, <2>1, PushedEntries
  <2>3. OneMore(q, s, e)
    BY <2>1, PushedEntries
  <2>4. OnceOf(s) /\ ~Has(s, e.of) => OnceOf(q)
    BY <2>1, PushedEntries
  <2> QED
    BY <2>2, <2>3, <2>4 DEF OneMore
<1> HIDE DEF q
<1>5. OnceOf(q)
  BY <1>1, <1>3, <1>4
<1>6. ASSUME NEW i \in 1..Len(q)
      PROVE  /\ handle'[q[i].of] # 0
             /\ q[i].of \in revoked => q[i].cancelled
  <2>1. CASE q[i] = e
    BY <1>1, <2>1
  <2>2. CASE \E k \in 1..Len(s) : q[i] = s[k]
    <3>1. PICK k \in 1..Len(s) : q[i] = s[k]
      BY <2>2
    <3>2. /\ handle[s[k].of] # 0 /\ s[k].of \in Timers
          /\ s[k].of \in revoked => s[k].cancelled
      <4>1. s[k] \in TimerEntry
        BY <1>3
      <4>2. s[k].of \in Timers
        BY <4>1 DEF TimerEntry
      <4> QED
        BY <4>2 DEF HeapInv
    <3> QED
      BY <1>1, <3>1, <3>2
  <2> QED
    BY <1>4, <2>1, <2>2
<1>7. HeapInv'
  <2>1. \A u \in revoked : u \in Timers => handle'[u] # 0
    BY DEF HeapInv
  <2> QED
    BY <1>1, <1>2, <1>4, <1>5, <1>6, <2>1 DEF HeapInv
<1> QED
  BY <1>1, <1>2, <1>4, <1>7

\* add_timer pushes the entry.
LEMMA TimerAdded ==
    ASSUME LoopInv, NEW t \in Timers, PushEntry(t)
    PROVE  LoopInv'
<1> DEFINE e == adding[t]
<1>1. /\ handle \in [Timers -> Nat] /\ handle[t] = 0 /\ e.id # 0
      /\ e.id \in Nat /\ e.expire_at \in Nat /\ e.interval_ms \in Nat
  BY DEF LoopInv, TypeOK, AddingInv, PushEntry
<1>2. ~Has(timers_, t)
  BY <1>1 DEF LoopInv, HeapInv, Has
<1>3. t \notin revoked
  BY <1>1 DEF LoopInv, HeapInv
<1>4. /\ Pushed(e.id, e.expire_at, e.interval_ms, t)
      /\ handle' = [handle EXCEPT ![t] = e.id] /\ adding' = [adding EXCEPT ![t] = Nowhere]
      /\ UNCHANGED <<now, running_, runs, fires, lvars, timer_id_counter_, revoked, qvars>>
  BY DEF PushEntry
<1> HIDE DEF e
<1>5. \A u \in Timers : handle'[u] = IF u = t THEN e.id ELSE handle[u]
  BY <1>1, <1>4
<1>6. HeapInv' /\ \A u \in Timers : Has(timers_', u) <=> Has(timers_, u) \/ u = t
  <2>1. handle'[t] # 0 /\ \A u \in Timers : handle[u] # 0 => handle'[u] # 0
    BY <1>1, <1>5
  <2>2. revoked' = revoked /\ revoked \subseteq Timers /\ HeapInv
    BY <1>4 DEF LoopInv, TypeOK
  <2> QED
    BY <1>1, <1>2, <1>3, <1>4, <2>1, <2>2, EntryPushed
<1>7. ASSUME lpc \in TimerPCs PROVE BatchInv'
  <2>1. BatchInv /\ batch \in Seq(TimerEntry)
    BY <1>7 DEF LoopInv, BatchInv
  <2>2. ASSUME NEW i \in 1..Len(batch)
        PROVE  handle'[batch[i].of] # 0 /\ ~Has(timers_', batch[i].of)
    <3>1. batch[i] \in TimerEntry
      BY <2>1
    <3>2. batch[i].of \in Timers /\ handle[batch[i].of] # 0 /\ ~Has(timers_, batch[i].of)
      BY <2>1, <3>1 DEF BatchInv, TimerEntry
    <3>3. batch[i].of # t
      BY <1>1, <3>2
    <3> QED
      BY <1>5, <1>6, <3>2, <3>3
  <2> QED
    BY <1>4, <2>1, <2>2 DEF BatchInv, lvars
<1>8. TypeOK' /\ AddingInv'
  <2>1. Nowhere.pc = "out" /\ Nowhere \in [pc : {"out", "store", "push"}, id : Nat,
                                           expire_at : Nat, interval_ms : Nat]
    BY DEF Nowhere
  <2>2. /\ adding' \in [Timers -> [pc : {"out", "store", "push"}, id : Nat,
                                    expire_at : Nat, interval_ms : Nat]]
        /\ \A u \in Timers : adding'[u] = IF u = t THEN Nowhere ELSE adding[u]
    BY <1>4, <2>1 DEF LoopInv, TypeOK
  <2>3. handle' \in [Timers -> Nat]
    BY <1>1, <1>4
  <2>4. AddingInv'
    BY <1>5, <2>1, <2>2 DEF LoopInv, AddingInv
  <2> QED
    BY <1>4, <2>2, <2>3, <2>4 DEF LoopInv, TypeOK, lvars, qvars
<1>9. TaskInv'
  <2>1. TaskBatch' = TaskBatch
    BY <1>4 DEF TaskBatch, lvars
  <2> QED
    BY <1>4, <2>1, TasksLeft DEF LoopInv
<1> QED
  BY <1>4, <1>6, <1>7, <1>8, <1>9 DEF LoopInv, lvars

\* cancel_timer marks the entry of a timer that is in timers_.
LEMMA CancelStep ==
    ASSUME LoopInv, NEW t \in Timers, cancel_timer(t)
    PROVE  LoopInv'
<1> DEFINE s == timers_
           n == First(s, handle[t])
           q == MarkFirst(s, handle[t])
           o == s[n].of
<1>1. s \in Seq(TimerEntry) /\ Heap(s) /\ OnceOf(s)
  BY DEF LoopInv, HeapInv
<1>2. /\ Found(s, handle[t]) /\ timers_' = q /\ revoked' = revoked \cup {o}
      /\ UNCHANGED <<now, running_, runs, fires, lvars, timer_id_counter_, adding, handle, qvars>>
  BY DEF cancel_timer
<1>3. /\ n \in 1..Len(s) /\ q \in Seq(TimerEntry) /\ Len(q) = Len(s)
      /\ \A k \in 1..Len(s) : q[k] = IF k = n THEN Marked(s[k]) ELSE s[k]
  <2>1. Found(s, handle[t]) /\ s \in Seq(TimerEntry)
    BY <1>1, <1>2
  <2> HIDE DEF s
  <2> QED
    BY <2>1, TimerEntries, MarkFacts
<1> HIDE DEF n, q
<1>4. ASSUME NEW k \in 1..Len(s)
      PROVE  /\ q[k].of = s[k].of /\ q[k].id = s[k].id /\ q[k].expire_at = s[k].expire_at
             /\ k = n \/ s[k].cancelled => q[k].cancelled
             /\ s[k].of \in Timers
  <2>1. s[k] \in TimerEntry
    BY <1>1
  <2> HIDE DEF s
  <2>2. CASE k = n
    BY <1>3, <2>1, <2>2 DEF TimerEntry, Marked
  <2>3. CASE k # n
    BY <1>3, <2>1, <2>3 DEF TimerEntry
  <2> QED
    BY <2>2, <2>3
<1>5. o \in Timers
  BY <1>3, <1>4
<1>6. HeapInv'
  <2>1. Heap(q)
    <3>1. ASSUME NEW i \in 2..Len(q) PROVE q[i \div 2].expire_at <= q[i].expire_at
      <4>1. i \in 1..Len(s) /\ i \div 2 \in 1..Len(s) /\ i \in 2..Len(s)
        BY <1>3, Halves
      <4> QED
        BY <1>1, <1>4, <4>1 DEF Heap
    <3> QED
      BY <3>1 DEF Heap
  <2>2. OnceOf(q)
    BY <1>1, <1>3, <1>4 DEF OnceOf
  <2>3. ASSUME NEW k \in 1..Len(q)
        PROVE  /\ handle[q[k].of] # 0
               /\ q[k].of \in revoked \cup {o} => q[k].cancelled
    <3>1. k \in 1..Len(s)
      BY <1>3
    <3>2. handle[s[k].of] # 0 /\ (s[k].of \in revoked => s[k].cancelled)
      BY <3>1 DEF LoopInv, HeapInv
    <3>3. s[k].of = o => k = n
      BY <1>1, <1>3, <3>1 DEF OnceOf
    <3> QED
      BY <1>4, <3>1, <3>2, <3>3
  <2>4. ASSUME NEW u \in revoked \cup {o} PROVE handle[u] # 0
    <3>1. handle[s[n].of] # 0 /\ \A v \in revoked : handle[v] # 0
      BY <1>3 DEF LoopInv, HeapInv
    <3> QED
      BY <3>1
  <2> QED
    BY <1>1, <1>2, <1>3, <2>1, <2>2, <2>3, <2>4 DEF HeapInv
<1>7. \A u : Has(q, u) <=> Has(s, u)
  BY <1>3, <1>4 DEF Has
<1>8. Has(s, o)
  BY <1>3 DEF Has
<1>9. ASSUME lpc \in TimerPCs PROVE BatchInv'
  <2>1. BatchInv
    BY <1>9 DEF LoopInv
  <2> QED
    BY <1>2, <1>7, <1>8, <2>1 DEF BatchInv, lvars
<1>10. TypeOK' /\ AddingInv'
  <2>1. revoked' \subseteq Timers
    BY <1>2, <1>5 DEF LoopInv, TypeOK
  <2> QED
    BY <1>2, <2>1 DEF LoopInv, TypeOK, AddingInv, lvars, qvars
<1>11. TaskInv'
  <2>1. TaskBatch' = TaskBatch
    BY <1>2 DEF TaskBatch, lvars
  <2> QED
    BY <1>2, <2>1, TasksLeft DEF LoopInv
<1> QED
  BY <1>2, <1>6, <1>9, <1>10, <1>11 DEF LoopInv, lvars

\* process_timers takes out what is due, and leaves in timers_ what is not.
LEMMA TakeStep ==
    ASSUME LoopInv, TakeDue
    PROVE  LoopInv' /\ \A i \in 1..Len(timers_') : timers_'[i].expire_at > at
<1> DEFINE s == timers_
           q == PopDue(s, at).rest
           g == PopDue(s, at).fired
<1>1. /\ lpc = "scan" /\ lpc' = "fired" /\ timers_' = q /\ batch' = g
      /\ UNCHANGED <<now, running_, at, nid, runs, fires, timer_id_counter_, adding, handle, revoked, qvars>>
  BY DEF TakeDue
<1>2. /\ s \in Seq(TimerEntry) /\ Heap(s) /\ OnceOf(s) /\ Entries(TimerEntry)
      /\ at \in Nat /\ at \in Int
  BY TimerEntries, TimerAssumption, EventLoopAssumption DEF LoopInv, HeapInv, TypeOK
<1>3. q \in Seq(TimerEntry) /\ g \in Seq(TimerEntry) /\ \E p, f : Scanned(p, f, q, g, s, at)
  BY <1>2, PopDueFacts
<1>4. Heap(q) /\ \A i \in 1..Len(q) : q[i].expire_at > at
  BY <1>2, PopDueFacts DEF InOrder
<1> HIDE DEF q, g
<1>5. From(q, s) /\ From(g, s)
  BY <1>2, <1>3, ScannedEntries
<1>6. \A i \in 1..Len(g) : ~g[i].cancelled /\ g[i].expire_at <= at
  BY <1>2, <1>3, ScannedEntries
<1>7. OnceOf(q) /\ OnceOf(g) /\ \A t : ~(Has(q, t) /\ Has(g, t))
  <2>1. s \in Seq(TimerEntry) /\ OnceOf(s)
    BY <1>2
  <2> HIDE DEF s
  <2> QED
    BY <1>3, <2>1, ScannedEntries
<1>8. ASSUME NEW k \in 1..Len(s)
      PROVE  /\ handle[s[k].of] # 0
             /\ s[k].of \in revoked => s[k].cancelled
  BY DEF LoopInv, HeapInv
<1>9. HeapInv'
  <2>1. \A t \in revoked : handle[t] # 0
    BY DEF LoopInv, HeapInv
  <2>2. ASSUME NEW i \in 1..Len(q)
        PROVE  /\ handle[q[i].of] # 0
               /\ q[i].of \in revoked => q[i].cancelled
    BY <1>5, <1>8 DEF From
  <2> QED
    BY <1>1, <1>2, <1>3, <1>4, <1>7, <2>1, <2>2 DEF HeapInv
<1>10. BatchInv'
  <2>1. ASSUME NEW i \in 1..Len(g)
        PROVE  /\ g[i].expire_at <= at /\ handle[g[i].of] # 0 /\ g[i].of \notin revoked
               /\ ~Has(q, g[i].of)
    <3>1. Has(g, g[i].of)
      BY DEF Has
    <3>2. PICK k \in 1..Len(s) : g[i] = s[k]
      BY <1>5 DEF From
    <3> QED
      BY <1>6, <1>7, <1>8, <3>1, <3>2
  <2> QED
    BY <1>1, <1>3, <1>7, <2>1 DEF BatchInv
<1>11. TypeOK' /\ AddingInv'
  BY <1>1 DEF LoopInv, TypeOK, AddingInv, TimerPCs, qvars
<1>12. TaskInv'
  <2>1. TaskBatch' = TaskBatch
    BY <1>1 DEF TaskBatch
  <2> QED
    BY <1>1, <2>1, TasksLeft DEF LoopInv
<1> QED
  BY <1>1, <1>4, <1>9, <1>10, <1>11, <1>12 DEF LoopInv, TimerPCs

\* The head of the batch, and what is behind it.
LEMMA BatchTail ==
    ASSUME BatchInv, batch # <<>>
    PROVE  /\ Head(batch) \in TimerEntry /\ Tail(batch) \in Seq(TimerEntry) /\ OnceOf(Tail(batch))
           /\ Head(batch).expire_at <= at /\ handle[Head(batch).of] # 0
           /\ Head(batch).of \notin revoked /\ ~Has(timers_, Head(batch).of)
           /\ \A i \in 1..Len(Tail(batch)) :
                 /\ Tail(batch)[i].expire_at <= at /\ handle[Tail(batch)[i].of] # 0
                 /\ Tail(batch)[i].of \notin revoked /\ ~Has(timers_, Tail(batch)[i].of)
                 /\ Tail(batch)[i].of # Head(batch).of /\ Tail(batch)[i].of \in Timers
<1> DEFINE b == batch
           c == Tail(batch)
           t == Head(batch)
<1>1. b \in Seq(TimerEntry) /\ Len(b) \in Nat /\ Len(b) >= 1 /\ 1 \in 1..Len(b)
  BY DEF BatchInv
<1>2. /\ t = b[1] /\ t \in TimerEntry
      /\ c \in Seq(TimerEntry) /\ Len(c) = Len(b) - 1 /\ \A i \in 1..Len(c) : c[i] = b[i + 1]
  BY <1>1
<1> HIDE DEF c, t
<1>3. ASSUME NEW i \in 1..Len(c)
      PROVE  /\ c[i].expire_at <= at /\ handle[c[i].of] # 0 /\ c[i].of \notin revoked
             /\ ~Has(timers_, c[i].of) /\ c[i].of # t.of /\ c[i].of \in Timers
  <2>1. i + 1 \in 1..Len(b) /\ i + 1 # 1
    BY <1>1, <1>2
  <2>2. c[i] = b[i + 1] /\ c[i] \in TimerEntry
    BY <1>2
  <2>3. b[i + 1].of # b[1].of
    BY <1>1, <2>1 DEF BatchInv, OnceOf
  <2>4. c[i].of \in Timers
    BY <2>2 DEF TimerEntry
  <2> QED
    BY <1>2, <2>1, <2>2, <2>3, <2>4 DEF BatchInv
<1>4. OnceOf(c)
  <2>1. ASSUME NEW i \in 1..Len(c), NEW j \in 1..Len(c), c[i].of = c[j].of PROVE i = j
    <3>1. i + 1 \in 1..Len(b) /\ j + 1 \in 1..Len(b) /\ b[i + 1].of = b[j + 1].of
      BY <1>1, <1>2, <2>1
    <3>2. i + 1 = j + 1
      BY <3>1 DEF BatchInv, OnceOf
    <3> QED
      BY <3>2
  <2> QED
    BY <2>1 DEF OnceOf
<1>5. t.expire_at <= at /\ handle[t.of] # 0 /\ t.of \notin revoked /\ ~Has(timers_, t.of)
  BY <1>1, <1>2 DEF BatchInv
<1> QED
  BY <1>2, <1>3, <1>4, <1>5 DEF c, t

\* A callback runs; a timer that does not repeat leaves the batch.
LEMMA FireStep ==
    ASSUME LoopInv, Fire
    PROVE  /\ LoopInv'
           /\ Head(batch).expire_at <= at /\ Head(batch).of \notin revoked
<1>1. /\ lpc = "fired" /\ batch # <<>>
      /\ fires' = [fires EXCEPT ![Head(batch).of] = @ + 1]
      /\ \/ lpc' = "load" /\ batch' = batch
         \/ lpc' = "fired" /\ batch' = Tail(batch)
      /\ UNCHANGED <<now, running_, at, nid, runs, tvars, qvars>>
  BY DEF Fire
<1>2. BatchInv
  BY <1>1 DEF LoopInv, TimerPCs
<1>3. Head(batch) \in TimerEntry /\ Head(batch).expire_at <= at /\ Head(batch).of \notin revoked
  BY <1>1, <1>2, BatchTail
<1>4. BatchInv'
  <2>1. timers_' = timers_ /\ handle' = handle /\ revoked' = revoked /\ at' = at
    BY <1>1 DEF tvars
  <2>2. CASE lpc' = "load" /\ batch' = batch
    BY <1>1, <1>2, <2>1, <2>2 DEF BatchInv
  <2>3. CASE lpc' = "fired" /\ batch' = Tail(batch)
    <3> DEFINE c == Tail(batch)
    <3>1. /\ c \in Seq(TimerEntry) /\ OnceOf(c)
          /\ \A i \in 1..Len(c) : /\ c[i].expire_at <= at /\ handle[c[i].of] # 0
                                  /\ c[i].of \notin revoked /\ ~Has(timers_, c[i].of)
      BY <1>1, <1>2, BatchTail
    <3> HIDE DEF c
    <3>2. batch' = c
      BY <2>3 DEF c
    <3> QED
      BY <2>1, <2>3, <3>1, <3>2 DEF BatchInv
  <2> QED
    BY <1>1, <2>2, <2>3
<1>5. TypeOK'
  <2>1. Head(batch).of \in Timers /\ fires \in [Timers -> Nat]
    BY <1>3 DEF TimerEntry, LoopInv, TypeOK
  <2>2. fires' \in [Timers -> Nat]
    BY <1>1, <2>1
  <2> QED
    BY <1>1, <2>2 DEF LoopInv, TypeOK, TimerPCs, tvars, qvars
<1>6. HeapInv' /\ AddingInv'
  BY <1>1 DEF LoopInv, HeapInv, AddingInv, tvars
<1>7. TaskInv'
  <2>1. TaskBatch' = TaskBatch
    BY <1>1 DEF TaskBatch
  <2> QED
    BY <1>1, <2>1, TasksLeft DEF LoopInv
<1> QED
  BY <1>1, <1>3, <1>4, <1>5, <1>6, <1>7 DEF LoopInv

\* A repeating timer is entered again and leaves the batch.
LEMMA ReenterStep ==
    ASSUME LoopInv, Reenter
    PROVE  LoopInv'
<1> DEFINE c == Tail(batch)
           t == Head(batch)
<1>1. /\ lpc = "push" /\ lpc' = "fired" /\ batch' = c /\ nid' = 0
      /\ Pushed(nid, at + t.interval_ms, t.interval_ms, t.of)
      /\ UNCHANGED <<now, running_, at, runs, fires, timer_id_counter_, adding, handle, revoked, qvars>>
  BY DEF Reenter
<1>2. BatchInv /\ HeapInv /\ batch # <<>>
  BY <1>1 DEF LoopInv, TimerPCs, BatchInv
<1>3. /\ t \in TimerEntry /\ c \in Seq(TimerEntry) /\ OnceOf(c)
      /\ handle[t.of] # 0 /\ t.of \notin revoked /\ ~Has(timers_, t.of)
      /\ \A i \in 1..Len(c) :
            /\ c[i].expire_at <= at /\ handle[c[i].of] # 0 /\ c[i].of \notin revoked
            /\ ~Has(timers_, c[i].of) /\ c[i].of # t.of /\ c[i].of \in Timers
  BY <1>2, BatchTail
<1> HIDE DEF c, t
<1>4. t.of \in Timers /\ t.interval_ms \in Nat
  BY <1>3 DEF TimerEntry
<1>5. HeapInv' /\ \A u \in Timers : Has(timers_', u) => Has(timers_, u) \/ u = t.of
  <2>1. /\ handle \in [Timers -> Nat] /\ revoked \subseteq Timers /\ at + t.interval_ms \in Nat
        /\ nid \in Nat
    BY <1>4, TimerAssumption, EventLoopAssumption DEF LoopInv, TypeOK
  <2>2. handle' = handle /\ revoked' = revoked
    BY <1>1
  <2>3. HeapInv' /\ \A u \in Timers : Has(timers_', u) <=> Has(timers_, u) \/ u = t.of
    BY <1>1, <1>2, <1>3, <1>4, <2>1, <2>2, EntryPushed
  <2> QED
    BY <2>3
<1>6. BatchInv'
  <2>1. \A i \in 1..Len(c) : ~Has(timers_', c[i].of)
    BY <1>3, <1>5
  <2> QED
    BY <1>1, <1>3, <2>1 DEF BatchInv
<1>7. TypeOK' /\ AddingInv'
  BY <1>1 DEF LoopInv, TypeOK, AddingInv, TimerPCs, qvars
<1>8. TaskInv'
  <2>1. TaskBatch' = TaskBatch
    BY <1>1 DEF TaskBatch
  <2> QED
    BY <1>1, <2>1, TasksLeft DEF LoopInv
<1> QED
  BY <1>1, <1>5, <1>6, <1>7, <1>8 DEF LoopInv

\* The steps of add_timer and of process_timers that give an id.
LEMMA IdSteps ==
    ASSUME LoopInv,
           \/ \E t \in Timers : StoreId(t) \/ \E after, interval \in Delays : add_timer(t, after, interval)
           \/ LoopLoads \/ LoopStores
    PROVE  LoopInv'
<1> DEFINE Adds == [pc : {"out", "store", "push"}, id : Nat, expire_at : Nat, interval_ms : Nat]
<1>1. adding \in [Timers -> Adds] /\ timer_id_counter_ \in Nat /\ nid \in Nat /\ now \in Nat
  BY TimerAssumption, EventLoopAssumption DEF LoopInv, TypeOK
<1>2. ASSUME UNCHANGED <<now, running_, runs, fires, batch, at, timers_, handle, revoked, qvars>>,
             lpc' = lpc \/ (lpc \in {"load", "store"} /\ lpc' \in {"store", "push"}),
             adding' \in [Timers -> Adds], timer_id_counter_' \in Nat, nid' \in Nat, AddingInv'
      PROVE  LoopInv'
  <2>1. TypeOK' /\ HeapInv'
    BY <1>2 DEF LoopInv, TypeOK, HeapInv, TimerPCs, qvars
  <2>2. TaskInv'
    <3>1. TaskBatch' = TaskBatch
      BY <1>2 DEF TaskBatch
    <3> QED
      BY <1>2, <3>1, TasksLeft DEF LoopInv
  <2>3. lpc' \in TimerPCs => BatchInv'
    BY <1>2 DEF LoopInv, BatchInv, TimerPCs
  <2>4. lpc' \in {"out", "test", "swap", "scan"} => batch' = <<>>
    BY <1>2 DEF LoopInv
  <2> QED
    BY <1>2, <2>1, <2>2, <2>3, <2>4 DEF LoopInv
<1>3. ASSUME NEW t \in Timers, NEW after \in Delays, NEW interval \in Delays,
             add_timer(t, after, interval)
      PROVE  LoopInv'
  <2> DEFINE e == [pc |-> "store", id |-> timer_id_counter_ + 1,
                   expire_at |-> now + after, interval_ms |-> interval]
  <2>1. e \in Adds /\ e.id # 0
    BY <1>1, TimerAssumption
  <2>2. adding' = [adding EXCEPT ![t] = e] /\ handle[t] = 0 /\ handle' = handle
    BY <1>3 DEF add_timer
  <2> HIDE DEF e
  <2>3. adding' \in [Timers -> Adds] /\ \A u \in Timers : adding'[u] = IF u = t THEN e ELSE adding[u]
    BY <1>1, <2>1, <2>2
  <2>4. AddingInv'
    BY <2>1, <2>2, <2>3 DEF LoopInv, AddingInv
  <2>5. /\ UNCHANGED <<now, running_, runs, fires, batch, at, timers_, handle, revoked, qvars>>
        /\ lpc' = lpc /\ nid' = nid /\ timer_id_counter_' = timer_id_counter_
    BY <1>3 DEF add_timer, lvars
  <2> HIDE DEF Adds
  <2> QED
    BY <1>1, <1>2, <2>3, <2>4, <2>5
<1>4. ASSUME NEW t \in Timers, StoreId(t) PROVE LoopInv'
  <2>1. adding' = [adding EXCEPT ![t].pc = "push"] /\ adding[t].pc = "store" /\ handle' = handle
        /\ timer_id_counter_' = adding[t].id
    BY <1>4 DEF StoreId
  <2>2. /\ adding' \in [Timers -> Adds] /\ timer_id_counter_' \in Nat
        /\ \A u \in Timers : adding'[u].id = adding[u].id /\ (u # t => adding'[u] = adding[u])
    BY <1>1, <2>1
  <2>3. AddingInv'
    BY <2>1, <2>2 DEF LoopInv, AddingInv
  <2>4. /\ UNCHANGED <<now, running_, runs, fires, batch, at, timers_, handle, revoked, qvars>>
        /\ lpc' = lpc /\ nid' = nid
    BY <1>4 DEF StoreId, lvars
  <2> HIDE DEF Adds
  <2> QED
    BY <1>1, <1>2, <2>2, <2>3, <2>4
<1>5. CASE LoopLoads
  <2>1. AddingInv'
    BY <1>5 DEF LoopLoads, tvars, LoopInv, AddingInv
  <2> HIDE DEF Adds
  <2> QED
    BY <1>1, <1>2, <1>5, <2>1 DEF LoopLoads, tvars
<1>6. CASE LoopStores
  <2>1. AddingInv'
    BY <1>6 DEF LoopStores, LoopInv, AddingInv
  <2> HIDE DEF Adds
  <2> QED
    BY <1>1, <1>2, <1>6, <2>1 DEF LoopStores
<1> QED
  BY <1>3, <1>4, <1>5, <1>6

\* The steps that leave the timers alone.
LEMMA OtherSteps ==
    ASSUME LoopInv,
           \/ Tick \/ push_task \/ stop \/ run \/ Test \/ SwapTasks \/ RunTask
           \/ ReadNow \/ Poll \/ UNCHANGED vars
    PROVE  LoopInv'
<1>1. UNCHANGED <<tvars, nid, fires>>
  BY DEF Tick, push_task, stop, run, Test, SwapTasks, RunTask, ReadNow, Poll, vars, lvars
<1>2. HeapInv' /\ AddingInv'
  BY <1>1 DEF LoopInv, HeapInv, AddingInv, tvars
<1>3. TaskInv'
  <2>1. CASE push_task
    BY <2>1, TaskPushed
  <2>2. CASE SwapTasks
    BY <2>2, TasksSwapped
  <2>3. CASE RunTask
    BY <2>3, TaskRuns
  <2>4. CASE Tick \/ stop \/ run \/ Test \/ ReadNow \/ Poll \/ UNCHANGED vars
    <3>1. UNCHANGED qvars
      BY <2>4 DEF Tick, stop, run, Test, ReadNow, Poll, vars
    <3>2. TaskBatch' = TaskBatch
      BY <2>4 DEF Tick, stop, run, Test, ReadNow, Poll, vars, lvars, TaskBatch
    <3> QED
      BY <3>1, <3>2, TasksLeft DEF LoopInv
  <2> QED
    BY <2>1, <2>2, <2>3, <2>4
<1>4. ASSUME lpc' \in TimerPCs PROVE BatchInv'
  <2>1. lpc \in TimerPCs /\ lpc' = lpc /\ batch' = batch /\ at' = at
    BY <1>4 DEF Tick, push_task, stop, run, Test, SwapTasks, RunTask, ReadNow, Poll, vars, lvars, TimerPCs
  <2> QED
    BY <1>1, <2>1 DEF LoopInv, BatchInv, tvars
<1>5. ASSUME lpc' \in {"out", "test", "swap", "scan"} PROVE batch' = <<>>
  BY <1>5 DEF Tick, push_task, stop, run, Test, SwapTasks, RunTask, ReadNow, Poll, vars, lvars, LoopInv
<1>6. TypeOK'
  <2>1. /\ now' \in 0..MaxTick /\ at' \in 0..now' /\ running_' \in BOOLEAN
        /\ lpc' \in {"out", "test", "swap", "tasks", "scan"} \cup TimerPCs
    <3>1. /\ now \in 0..MaxTick /\ at \in 0..now /\ running_ \in BOOLEAN
          /\ lpc \in {"out", "test", "swap", "tasks", "scan"} \cup TimerPCs
      BY DEF LoopInv, TypeOK
    <3>2. /\ now' = now \/ (now < MaxTick /\ now' = now + 1 /\ at' = at)
          /\ at' = at \/ at' = 0 \/ at' = now
      BY DEF Tick, push_task, stop, run, Test, SwapTasks, RunTask, ReadNow, Poll, vars, lvars
    <3>3. running_' \in BOOLEAN
      BY <3>1 DEF Tick, push_task, stop, run, Test, SwapTasks, RunTask, ReadNow, Poll, vars
    <3>4. lpc' \in {"out", "test", "swap", "tasks", "scan"} \cup TimerPCs
      BY <3>1 DEF Tick, push_task, stop, run, Test, SwapTasks, RunTask, ReadNow, Poll, vars, lvars
    <3> QED
      BY <3>1, <3>2, <3>3, <3>4, TimerAssumption, EventLoopAssumption
  <2>2. pushed' \in 0..MaxTasks /\ runs' \in 0..MaxRuns
    <3>1. pushed \in 0..MaxTasks /\ runs \in 0..MaxRuns
      BY DEF LoopInv, TypeOK
    <3>2. pushed' = pushed \/ (pushed < MaxTasks /\ pushed' = pushed + 1)
      BY DEF Tick, push_task, stop, run, Test, SwapTasks, RunTask, ReadNow, Poll, vars, qvars
    <3>3. runs' = runs \/ (runs < MaxRuns /\ runs' = runs + 1)
      BY DEF Tick, push_task, stop, run, Test, SwapTasks, RunTask, ReadNow, Poll, vars
    <3> QED
      BY <3>1, <3>2, <3>3, EventLoopAssumption
  <2> QED
    BY <1>1, <2>1, <2>2 DEF LoopInv, TypeOK, tvars
<1> QED
  BY <1>2, <1>3, <1>4, <1>5, <1>6 DEF LoopInv

\* Every step of the event loop and its callers.
LEMMA LoopNextStep ==
    ASSUME LoopInv, [Next]_vars PROVE LoopInv'
<1>1. ASSUME NEW t \in Timers, cancel_timer(t) PROVE LoopInv'
  BY <1>1, CancelStep
<1>2. ASSUME NEW t \in Timers, PushEntry(t) PROVE LoopInv'
  BY <1>2, TimerAdded
<1> QED
  BY <1>1, <1>2, TakeStep, FireStep, ReenterStep, IdSteps, OtherSteps DEF Next, LoopStep

\* LoopInv is an invariant of the event loop and its callers.
LEMMA LoopInvariant == Spec => []LoopInv
<1>1. Init => LoopInv
  <2> SUFFICES ASSUME Init PROVE LoopInv
    OBVIOUS
  <2>1. <<>> \in Seq(Nat) /\ <<>> \in Seq(TimerEntry) /\ Len(<<>>) = 0
    OBVIOUS
  <2>2. TaskInv
    BY <2>1 DEF Init, TaskInv, TaskBatch, Numbered
  <2>3. HeapInv
    BY <2>1 DEF Init, HeapInv, Heap, OnceOf
  <2>4. TypeOK /\ AddingInv
    <3>1. now \in 0..MaxTick /\ at \in 0..now /\ pushed \in 0..MaxTasks /\ runs \in 0..MaxRuns
      BY TimerAssumption, EventLoopAssumption DEF Init
    <3>2. /\ handle \in [Timers -> Nat] /\ fires \in [Timers -> Nat] /\ AddingInv
          /\ adding \in [Timers -> [pc : {"out", "store", "push"}, id : Nat,
                                    expire_at : Nat, interval_ms : Nat]]
      BY DEF Init, AddingInv, Nowhere
    <3>3. nid \in Nat /\ timer_id_counter_ \in Nat
      BY DEF Init
    <3>4. running_ \in BOOLEAN /\ lpc \in {"out", "test"} /\ revoked \subseteq Timers
      BY DEF Init
    <3> QED
      BY <3>1, <3>2, <3>3, <3>4 DEF TypeOK
  <2> QED
    BY <2>2, <2>3, <2>4 DEF Init, LoopInv, TimerPCs
<1> QED
  BY <1>1, LoopNextStep, PTL DEF Spec

\* Tasks run once and in the order of the pushes: see EventLoop.
THEOREM TasksRunInOrder == Spec => []TasksInOrder
<1>1. LoopInv => TasksInOrder
  <2> SUFFICES ASSUME LoopInv PROVE TasksInOrder
    OBVIOUS
  <2>1. TypeOK /\ Numbered(ran, TaskBatch, pending_tasks_) /\ pushed \in Nat
    BY TimerAssumption, EventLoopAssumption DEF LoopInv, TaskInv, TypeOK
  <2>2. ran \o TaskBatch \o pending_tasks_ = [i \in 1..pushed |-> i]
    BY <2>1, NumberedInOrder
  <2> QED
    BY <2>1, <2>2 DEF TasksInOrder, TaskBatch
<1> QED
  BY <1>1, LoopInvariant, PTL

\* A timer fires when it is due and not after a cancel_timer that found it, and
\* process_timers leaves none that was due, although ids may be given twice: see
\* EventLoop.
THEOREM TimersFireRightly == Spec => TimersRightly
<1> DEFINE A == /\ fires' # fires => Head(batch).expire_at <= at /\ Head(batch).of \notin revoked
                /\ (lpc = "scan" /\ lpc' = "fired") =>
                       \A i \in 1..Len(timers_') : timers_'[i].expire_at > at
<1>1. ASSUME LoopInv, [Next]_vars PROVE [A]_vars
  <2>1. CASE fires' # fires
    <3>1. Fire
      BY <1>1, <2>1 DEF Next, LoopStep, vars, Tick, push_task, stop, run, Test, SwapTasks, RunTask,
                        ReadNow, TakeDue, LoopLoads, LoopStores, Reenter, Poll, add_timer, StoreId,
                        PushEntry, cancel_timer
    <3>2. lpc = "fired"
      BY <3>1 DEF Fire
    <3> QED
      BY <1>1, <3>1, <3>2, FireStep
  <2>2. CASE lpc = "scan" /\ lpc' = "fired"
    <3>1. TakeDue
      BY <1>1, <2>2 DEF Next, LoopStep, vars, lvars, Tick, push_task, stop, run, Test, SwapTasks, RunTask,
                        ReadNow, Fire, LoopLoads, LoopStores, Reenter, Poll, add_timer, StoreId,
                        PushEntry, cancel_timer
    <3>2. fires' = fires
      BY <3>1 DEF TakeDue
    <3> QED
      BY <1>1, <3>1, <3>2, TakeStep
  <2> QED
    BY <2>1, <2>2
<1> QED
  BY <1>1, LoopInvariant, PTL DEF Spec, TimersRightly

-----------------------------------------------------------------------------
(***************************************************************************)
(* Timer                                                                   *)
(***************************************************************************)

\* The items of Timer.
ItemSet == [id : Nat, expire_at : Nat, interval_ms : Nat, cancelled : BOOLEAN]

\* No two items have one id, and none has one above n.
IdsUpTo(s, n) ==
    /\ \A i, j \in 1..Len(s) : s[i].id = s[j].id => i = j
    /\ \A i \in 1..Len(s) : s[i].id \in 1..n

\* Timer: items_ is a heap and ids are used once.
PollInv ==
    /\ TimerTypeOK /\ items_ \in Seq(ItemSet) /\ Heap(items_) /\ IdsUpTo(items_, next_id_)

\* Items are entries for the heap.
LEMMA Items ==
    Entries(ItemSet) /\ \A e \in ItemSet : Marked(e) \in ItemSet
<1>1. Entries(ItemSet)
  BY DEF Entries, ItemSet
<1>2. ASSUME NEW e \in ItemSet PROVE Marked(e) \in ItemSet
  BY DEF ItemSet, Marked
<1> QED
  BY <1>1, <1>2

\* Ids stay distinct in a part of the items.
LEMMA PickedIds ==
    ASSUME NEW s \in Seq(ItemSet), NEW q \in Seq(ItemSet), NEW p, Picks(p, q, s), NEW n, IdsUpTo(s, n)
    PROVE  IdsUpTo(q, n)
<1>1. ASSUME NEW i \in 1..Len(q) PROVE p[i] \in 1..Len(s) /\ q[i] = s[p[i]]
  BY DEF Picks
<1>2. ASSUME NEW i \in 1..Len(q), NEW j \in 1..Len(q), q[i].id = q[j].id PROVE i = j
  <2>1. p[i] \in 1..Len(s) /\ p[j] \in 1..Len(s) /\ s[p[i]].id = s[p[j]].id
    BY <1>1, <1>2
  <2>2. p[i] = p[j]
    BY <2>1 DEF IdsUpTo
  <2> QED
    BY <2>2 DEF Picks
<1>3. ASSUME NEW i \in 1..Len(q) PROVE q[i].id \in 1..n
  BY <1>1 DEF IdsUpTo
<1> QED
  BY <1>2, <1>3 DEF IdsUpTo

\* The items of q are those of s and one that expires at x.
LaterOne(q, s, x) == \A i \in 1..Len(q) : q[i].expire_at = x \/ \E k \in 1..Len(s) : q[i] = s[k]

\* An item with the next id goes into the heap.
LEMMA ItemPushed ==
    ASSUME NEW s \in Seq(ItemSet), Heap(s), NEW n \in Nat, IdsUpTo(s, n),
           NEW x \in Nat, NEW d \in Nat
    PROVE  LET q == PushHeap(Append(s, Item(n + 1, x, d)))
           IN  q \in Seq(ItemSet) /\ Heap(q) /\ IdsUpTo(q, n + 1) /\ LaterOne(q, s, x)
<1>1. PICK e : e = Item(n + 1, x, d)
  OBVIOUS
<1>2. e \in ItemSet /\ e.id = n + 1 /\ e.expire_at = x
  BY <1>1 DEF Item, ItemSet
<1> DEFINE w == Append(s, e)
           q == PushHeap(w)
<1>3. q \in Seq(ItemSet) /\ Permuted(q, w) /\ Heap(q)
  BY <1>2, Items, PushFacts
<1>4. OneMore(q, s, e)
  BY <1>2, Items, PushedEntries
<1>5. /\ w \in Seq(ItemSet) /\ Len(s) \in Nat /\ Len(w) = Len(s) + 1 /\ w[Len(s) + 1] = e
      /\ \A k \in 1..Len(s) : w[k] = s[k]
  BY <1>2
<1> HIDE DEF q, w
<1>6. IdsUpTo(w, n + 1)
  <2>1. ASSUME NEW k \in 1..Len(w)
        PROVE  (k = Len(s) + 1 /\ w[k].id = n + 1) \/ (k \in 1..Len(s) /\ w[k].id = s[k].id /\ s[k].id \in 1..n)
    BY <1>2, <1>5 DEF IdsUpTo
  <2>2. ASSUME NEW i \in 1..Len(w), NEW j \in 1..Len(w), w[i].id = w[j].id PROVE i = j
    <3>1. CASE i \in 1..Len(s) /\ j \in 1..Len(s)
      BY <1>5, <2>2, <3>1 DEF IdsUpTo
    <3>2. CASE ~(i \in 1..Len(s) /\ j \in 1..Len(s))
      BY <2>1, <2>2, <3>2
    <3> QED
      BY <3>1, <3>2
  <2>3. ASSUME NEW k \in 1..Len(w) PROVE w[k].id \in 1..(n + 1)
    BY <2>1
  <2> QED
    BY <2>2, <2>3 DEF IdsUpTo
<1>7. PICK p : Picks(p, q, w)
  BY <1>3 DEF Permuted, Drawn
<1>8. IdsUpTo(q, n + 1)
  BY <1>3, <1>5, <1>6, <1>7, PickedIds
<1>9. LaterOne(q, s, x)
  BY <1>2, <1>4 DEF OneMore, LaterOne
<1> QED
  BY <1>1, <1>3, <1>8, <1>9 DEF q, w

\* What poll has entered again: later items, in a heap, with ids of their own.
EnteredInv(items0, id0, n, when) ==
    /\ items0 \in Seq(ItemSet) /\ id0 \in Nat /\ n <= id0
    /\ Heap(items0) /\ IdsUpTo(items0, id0)
    /\ \A i \in 1..Len(items0) : items0[i].expire_at > when

\* One timer that has fired is entered again or not.
LEMMA EnteredKeeps ==
    ASSUME NEW s, NEW m, NEW n \in Nat, NEW when \in Nat, EnteredInv(s, m, n, when),
           NEW t \in ItemSet
    PROVE  LET r == Entered([items |-> s, id |-> m], t, when)
           IN  r = [items |-> r.items, id |-> r.id] /\ EnteredInv(r.items, r.id, n, when)
<1> DEFINE r == Entered([items |-> s, id |-> m], t, when)
           d == t.interval_ms
<1>1. d \in Nat /\ s \in Seq(ItemSet) /\ Heap(s) /\ m \in Nat /\ n <= m /\ IdsUpTo(s, m)
      /\ \A i \in 1..Len(s) : s[i].expire_at > when
  BY DEF ItemSet, EnteredInv
<1>2. CASE d > 0
  <2> DEFINE q == PushHeap(Append(s, Item(m + 1, when + d, d)))
  <2>1. r = [items |-> q, id |-> m + 1]
    BY <1>2 DEF Entered
  <2>2. when + d \in Nat /\ when + d > when
    BY <1>1, <1>2
  <2> HIDE DEF d
  <2>3. /\ q \in Seq(ItemSet) /\ Heap(q) /\ IdsUpTo(q, m + 1)
        /\ \A i \in 1..Len(q) : q[i].expire_at = when + d \/ \E k \in 1..Len(s) : q[i] = s[k]
    <3>1. PICK x : x = when + d
      OBVIOUS
    <3>2. x \in Nat
      BY <2>2, <3>1
    <3> DEFINE w == PushHeap(Append(s, Item(m + 1, x, d)))
    <3>3. w \in Seq(ItemSet)
      BY <1>1, <3>2, ItemPushed
    <3>4. Heap(w)
      BY <1>1, <3>2, ItemPushed
    <3>5. IdsUpTo(w, m + 1)
      BY <1>1, <3>2, ItemPushed
    <3>6. LaterOne(w, s, x)
      BY <1>1, <3>2, ItemPushed
    <3> QED
      BY <3>1, <3>3, <3>4, <3>5, <3>6 DEF LaterOne
  <2> HIDE DEF q
  <2>4. \A i \in 1..Len(q) : q[i].expire_at > when
    BY <1>1, <2>2, <2>3
  <2>5. m + 1 \in Nat /\ n <= m + 1
    BY <1>1
  <2> HIDE DEF r
  <2>6. EnteredInv(q, m + 1, n, when)
    BY <2>3, <2>4, <2>5 DEF EnteredInv
  <2> QED
    BY <2>1, <2>6 DEF r
<1>3. CASE ~(d > 0)
  <2>1. r = [items |-> s, id |-> m]
    BY <1>3 DEF Entered
  <2> HIDE DEF r
  <2> QED
    BY <2>1 DEF r
<1> QED
  BY <1>2, <1>3

\* All timers that have fired are entered again or not.
LEMMA AllEnteredFacts ==
    ASSUME NEW s, next_id_ \in Nat, NEW when \in Nat, EnteredInv(s, next_id_, next_id_, when),
           NEW due \in Seq(ItemSet)
    PROVE  LET r == AllEntered(s, due, when)
           IN  EnteredInv(r.items, r.id, next_id_, when)
<1> DEFINE x == [items |-> s, id |-> next_id_]
           N == Len(due)
           T == {r \in [items : Seq(ItemSet), id : Nat] : EnteredInv(r.items, r.id, next_id_, when)}
           IsE(f) == f = [k \in 0..N |-> IF k = 0 THEN x ELSE Entered(f[k - 1], due[k], when)]
           e == CHOOSE f : IsE(f)
<1>1. AllEntered(s, due, when) = e[N]
  BY DEF AllEntered
<1>2. N \in Nat /\ \A k \in 1..N : due[k] \in ItemSet
  OBVIOUS
<1>3. x \in T
  BY DEF EnteredInv
<1>4. ASSUME NEW r \in T, NEW t \in ItemSet PROVE Entered(r, t, when) \in T
  <2> DEFINE u == Entered(r, t, when)
  <2>1. PICK w, a : r = [items |-> w, id |-> a] /\ EnteredInv(w, a, next_id_, when)
    OBVIOUS
  <2> DEFINE v == Entered([items |-> w, id |-> a], t, when)
  <2>2. u = v
    BY <2>1
  <2>3. v = [items |-> v.items, id |-> v.id] /\ EnteredInv(v.items, v.id, next_id_, when)
    BY <2>1, EnteredKeeps
  <2> HIDE DEF v
  <2>4. u = [items |-> u.items, id |-> u.id] /\ EnteredInv(u.items, u.id, next_id_, when)
    BY <2>2, <2>3
  <2> HIDE DEF u
  <2>5. u.items \in Seq(ItemSet) /\ u.id \in Nat
    BY <2>4 DEF EnteredInv
  <2>6. u \in [items : Seq(ItemSet), id : Nat]
    BY <2>4, <2>5
  <2>7. u \in T
    BY <2>4, <2>6
  <2> QED
    BY <2>7 DEF u
<1> HIDE DEF T, x, N
<1>5. \E f : IsE(f)
  <2> DEFINE turns == [n \in 1..N |-> [r \in T |-> Entered(r, due[n], when)]]
  <2>1. turns \in Turns(N, T)
    BY <1>2, <1>4 DEF Turns
  <2>2. \A n \in 1..N : \A r \in T : turns[n][r] = Entered(r, due[n], when)
    OBVIOUS
  <2> HIDE DEF turns
  <2>3. PICK f : Turned(turns, N, T, x, f)
    BY <1>2, <1>3, <2>1, TurnsExist
  <2>4. ASSUME NEW k \in 0..N PROVE f[k] = IF k = 0 THEN x ELSE Entered(f[k - 1], due[k], when)
    <3>1. CASE k = 0
      BY <2>3, <3>1 DEF Turned
    <3>2. CASE k # 0
      <4>1. k \in 1..N /\ k - 1 \in 0..N
        BY <1>2, <3>2
      <4>2. f[k] = turns[k][f[k - 1]] /\ f[k - 1] \in T
        BY <2>3, <4>1 DEF Turned
      <4> QED
        BY <2>2, <3>2, <4>1, <4>2
    <3> QED
      BY <3>1, <3>2
  <2>5. IsE(f)
    BY <2>3, <2>4 DEF Turned
  <2> QED
    BY <2>5
<1>6. IsE(e)
  BY <1>5
<1> HIDE DEF e
<1>7. e[0] \in T
  <2>1. 0 \in 0..N
    BY <1>2
  <2> QED
    BY <1>3, <1>6, <2>1
<1>8. ASSUME NEW n \in 1..N, e[n - 1] \in T PROVE e[n] \in T
  <2>1. n \in 0..N /\ n # 0
    BY <1>2
  <2>2. e[n] = Entered(e[n - 1], due[n], when)
    BY <1>6, <2>1
  <2> QED
    BY <1>2, <1>4, <1>8, <2>2
<1>9. e[N] \in T
  BY <1>2, <1>7, <1>8, TurnsStay
<1> QED
  BY <1>1, <1>9 DEF T

\* What poll does with the items, and that it keeps the invariant.
LEMMA PollStep ==
    ASSUME PollInv, poll
    PROVE  /\ PollInv'
           /\ {fired'[i] : i \in 1..Len(fired')}
                = {items_[i] : i \in {j \in 1..Len(items_) : items_[j].expire_at <= clock /\ ~items_[j].cancelled}}
           /\ \A i, j \in 1..Len(fired') :
                  i < j => /\ fired'[i].id # fired'[j].id
                           /\ fired'[i].expire_at <= fired'[j].expire_at
           /\ \A i \in 1..Len(items_') : 0 <= wait' /\ wait' <= items_'[i].expire_at - clock
<1> DEFINE s == items_
           q == PopDue(s, clock).rest
           g == PopDue(s, clock).fired
           r == AllEntered(q, g, clock)
<1>1. /\ r.id <= MaxIds /\ next_id_' = r.id /\ items_' = r.items /\ fired' = g /\ clock' = clock
      /\ wait' = IF items_' = <<>> THEN -1 ELSE items_'[1].expire_at - clock
  BY DEF poll
<1>2. /\ s \in Seq(ItemSet) /\ Heap(s) /\ IdsUpTo(s, next_id_) /\ Entries(ItemSet)
      /\ clock \in Nat /\ clock \in Int /\ next_id_ \in Nat
  <2>1. s \in Seq(ItemSet) /\ Heap(s) /\ IdsUpTo(s, next_id_) /\ clock \in 0..MaxTick /\ next_id_ \in 0..MaxIds
    BY DEF PollInv, TimerTypeOK
  <2>2. Entries(ItemSet)
    BY Items
  <2> HIDE DEF s
  <2> QED
    BY <2>1, <2>2, TimerAssumption, IdsAssumption
<1>3. q \in Seq(ItemSet) /\ g \in Seq(ItemSet) /\ \E p, f : Scanned(p, f, q, g, s, clock)
  BY <1>2, PopDueFacts
<1>4. InOrder(q, g) /\ \A i \in 1..Len(q) : q[i].expire_at > clock
  BY <1>2, PopDueFacts
<1> HIDE DEF q, g
<1>5. PICK p, f : Scanned(p, f, q, g, s, clock)
  BY <1>3
<1>6. Picks(p, q, s) /\ Picks(f, g, s)
  BY <1>5 DEF Scanned
<1>7. IdsUpTo(q, next_id_) /\ IdsUpTo(g, next_id_)
  BY <1>2, <1>3, <1>6, PickedIds
<1>8. EnteredInv(q, next_id_, next_id_, clock)
  <2>1. Heap(q)
    BY <1>4 DEF InOrder
  <2> QED
    BY <1>2, <1>3, <1>4, <1>7, <2>1 DEF EnteredInv
<1>9. EnteredInv(r.items, r.id, next_id_, clock)
  BY <1>2, <1>3, <1>8, AllEnteredFacts
<1> HIDE DEF r
<1>10. /\ items_' \in Seq(ItemSet) /\ next_id_' \in Nat /\ next_id_ <= next_id_' /\ Heap(items_')
       /\ IdsUpTo(items_', next_id_')
       /\ \A i \in 1..Len(items_') : items_'[i].expire_at > clock
  BY <1>1, <1>9 DEF EnteredInv
<1>11. ASSUME NEW i \in 1..Len(items_') PROVE 0 <= wait' /\ wait' <= items_'[i].expire_at - clock
  <2>1. items_' # <<>> /\ 1 \in 1..Len(items_')
    BY <1>10
  <2>2. wait' = items_'[1].expire_at - clock
    BY <1>1, <2>1
  <2>3. items_'[1].expire_at <= items_'[i].expire_at
    BY <1>10, Items, FrontEarliest
  <2>4. items_'[1] \in ItemSet /\ items_'[i] \in ItemSet
    BY <1>10, <2>1
  <2>5. items_'[1].expire_at \in Int /\ items_'[i].expire_at \in Int
    BY <2>4 DEF ItemSet
  <2> QED
    BY <1>2, <1>10, <2>1, <2>2, <2>3, <2>5
<1>12. wait' \in Int
  <2>1. CASE items_' = <<>>
    BY <1>1, <2>1
  <2>2. CASE items_' # <<>>
    <3>1. items_'[1] \in ItemSet
      BY <1>10, <2>2
    <3>2. items_'[1].expire_at \in Int
      BY <3>1 DEF ItemSet
    <3> QED
      BY <1>1, <1>2, <2>2, <3>2
  <2> QED
    BY <2>1, <2>2
<1>13. PollInv'
  <2>1. \A i \in 1..Len(g) : g[i].id \in 1..next_id_'
    BY <1>2, <1>7, <1>10 DEF IdsUpTo
  <2>2. next_id_' \in 0..MaxIds
    BY <1>1, <1>10, IdsAssumption
  <2>3. TimerTypeOK'
    BY <1>1, <1>10, <1>12, <2>1, <2>2 DEF PollInv, TimerTypeOK, IdsUpTo
  <2> QED
    BY <1>10, <2>3 DEF PollInv
<1>14. \A i, j \in 1..Len(g) : i < j => g[i].id # g[j].id /\ g[i].expire_at <= g[j].expire_at
  <2> SUFFICES ASSUME NEW i \in 1..Len(g), NEW j \in 1..Len(g), i < j
               PROVE  g[i].id # g[j].id /\ g[i].expire_at <= g[j].expire_at
    OBVIOUS
  <2>1. g[i].id = g[j].id => i = j
    BY <1>7 DEF IdsUpTo
  <2>2. g[i].expire_at <= g[j].expire_at
    BY <1>4 DEF InOrder
  <2>3. i # j
    OBVIOUS
  <2> QED
    BY <2>1, <2>2, <2>3
<1>15. {g[i] : i \in 1..Len(g)} = {s[i] : i \in {j \in 1..Len(s) : s[j].expire_at <= clock /\ ~s[j].cancelled}}
  <2>1. ASSUME NEW i \in 1..Len(g)
        PROVE  \E k \in 1..Len(s) : s[k].expire_at <= clock /\ ~s[k].cancelled /\ g[i] = s[k]
    <3>1. f[i] \in 1..Len(s) /\ g[i] = s[f[i]]
      BY <1>6 DEF Picks
    <3>2. ~g[i].cancelled /\ g[i].expire_at <= clock
      BY <1>5 DEF Scanned
    <3> QED
      BY <3>1, <3>2
  <2>2. ASSUME NEW k \in 1..Len(s), s[k].expire_at <= clock, ~s[k].cancelled
        PROVE  \E i \in 1..Len(g) : g[i] = s[k]
    <3>1. (\E i \in 1..Len(q) : p[i] = k) \/ (\E i \in 1..Len(g) : f[i] = k)
      BY <1>5, <2>2 DEF Scanned
    <3>2. ASSUME NEW i \in 1..Len(q), p[i] = k PROVE FALSE
      <4>1. q[i] = s[k]
        BY <1>6, <3>2 DEF Picks
      <4>2. s[k].expire_at > clock
        BY <1>4, <4>1
      <4>3. s[k] \in ItemSet
        BY <1>2
      <4>4. s[k].expire_at \in Int
        BY <4>3 DEF ItemSet
      <4> QED
        BY <1>2, <2>2, <4>2, <4>4
    <3>3. PICK i \in 1..Len(g) : f[i] = k
      BY <3>1, <3>2
    <3> QED
      BY <1>6, <3>3 DEF Picks
  <2> QED
    BY <2>1, <2>2
<1> QED
  BY <1>1, <1>11, <1>13, <1>14, <1>15

\* The other calls of Timer.
LEMMA TimerStep ==
    ASSUME PollInv, TimerNext PROVE PollInv'
<1>1. /\ items_ \in Seq(ItemSet) /\ Heap(items_) /\ IdsUpTo(items_, next_id_)
      /\ clock \in 0..MaxTick /\ clock \in Nat /\ next_id_ \in 0..MaxIds /\ next_id_ \in Nat
  BY TimerAssumption, IdsAssumption DEF PollInv, TimerTypeOK
<1>2. CASE Returned
  <2>1. fired' = <<>> /\ wait' \in Int /\ 1..Len(fired') = {}
    BY <1>2 DEF Returned
  <2>2. ASSUME clock' \in 0..MaxTick, next_id_' \in 0..MaxIds, items_' \in Seq(ItemSet), Heap(items_'),
               IdsUpTo(items_', next_id_')
        PROVE  PollInv'
    BY <2>1, <2>2 DEF PollInv, TimerTypeOK, IdsUpTo
  <2>3. CASE TimerTick
    BY <1>1, <2>2, <2>3, TimerAssumption DEF TimerTick
  <2>4. CASE clear
    <3>1. items_' = <<>> /\ clock' = clock /\ next_id_' = next_id_
      BY <2>4 DEF clear
    <3>2. <<>> \in Seq(ItemSet) /\ Heap(<<>>) /\ IdsUpTo(<<>>, next_id_)
      BY DEF Heap, IdsUpTo
    <3> QED
      BY <1>1, <2>2, <3>1, <3>2
  <2>5. ASSUME NEW d \in Delays, add(d) \/ add_repeating(d) PROVE PollInv'
    <3>1. clock + d \in Nat /\ d \in Nat
      BY <1>1, TimerAssumption
    <3>2. /\ next_id_ < MaxIds /\ next_id_' = next_id_ + 1 /\ clock' = clock
          /\ \E i \in {0, d} : items_' = PushHeap(Append(items_, Item(next_id_ + 1, clock + d, i)))
      BY <2>5 DEF add, add_repeating
    <3>3. PICK i \in {0, d} : items_' = PushHeap(Append(items_, Item(next_id_ + 1, clock + d, i)))
      BY <3>2
    <3>4. i \in Nat
      BY <3>1
    <3>5. items_' \in Seq(ItemSet) /\ Heap(items_') /\ IdsUpTo(items_', next_id_ + 1)
      BY <1>1, <3>1, <3>3, <3>4, ItemPushed
    <3> QED
      BY <1>1, <2>2, <3>2, <3>5, IdsAssumption
  <2>6. ASSUME NEW id \in 1..MaxIds, cancel(id) PROVE PollInv'
    <3> DEFINE s == items_
               q == MarkFirst(s, id)
    <3>1. Found(s, id) /\ items_' = q /\ clock' = clock /\ next_id_' = next_id_
      BY <2>6 DEF cancel
    <3>2. /\ q \in Seq(ItemSet) /\ Len(q) = Len(s)
          /\ \A k \in 1..Len(s) : q[k] = IF k = First(s, id) THEN Marked(s[k]) ELSE s[k]
      <4>1. s \in Seq(ItemSet) /\ Found(s, id) /\ \A e \in ItemSet : Marked(e) \in ItemSet
        BY <1>1, <3>1, Items
      <4> HIDE DEF s
      <4>2. q \in Seq(ItemSet) /\ Len(q) = Len(s)
        BY <4>1, MarkFacts
      <4>3. \A k \in 1..Len(s) : q[k] = IF k = First(s, id) THEN Marked(s[k]) ELSE s[k]
        BY <4>1, MarkFacts
      <4> QED
        BY <4>2, <4>3
    <3> HIDE DEF q
    <3>3. ASSUME NEW k \in 1..Len(s) PROVE q[k].id = s[k].id /\ q[k].expire_at = s[k].expire_at
      <4>1. s[k] \in ItemSet
        BY <1>1
      <4>2. q[k] = s[k] \/ q[k] = Marked(s[k])
        BY <3>2
      <4> QED
        BY <4>1, <4>2 DEF ItemSet, Marked
    <3>4. Heap(q)
      <4>1. ASSUME NEW i \in 2..Len(q) PROVE q[i \div 2].expire_at <= q[i].expire_at
        <5>1. i \in 1..Len(s) /\ i \div 2 \in 1..Len(s) /\ i \in 2..Len(s)
          BY <3>2, Halves
        <5> QED
          BY <1>1, <3>3, <5>1 DEF Heap
      <4> QED
        BY <4>1 DEF Heap
    <3>5. IdsUpTo(q, next_id_)
      BY <1>1, <3>2, <3>3 DEF IdsUpTo
    <3> QED
      BY <1>1, <2>2, <3>1, <3>2, <3>4, <3>5
  <2> QED
    BY <2>3, <2>4, <2>5, <2>6, PollStep DEF TimerNext
<1>3. CASE ~Returned
  BY <1>3, PollStep DEF TimerNext, TimerTick, clear, add, add_repeating, cancel
<1> QED
  BY <1>2, <1>3

\* poll fires what is due, once and in order, and says for how long the caller
\* may sleep: see Timer.
THEOREM PollRight == TimerSpec => PollFiresDue
<1> DEFINE Fires == poll =>
        LET Due(i) == items_[i].expire_at <= clock /\ ~items_[i].cancelled
        IN  /\ {fired'[i] : i \in 1..Len(fired')} = {items_[i] : i \in {j \in 1..Len(items_) : Due(j)}}
            /\ \A i, j \in 1..Len(fired') :
                   i < j => /\ fired'[i].id # fired'[j].id
                            /\ fired'[i].expire_at <= fired'[j].expire_at
            /\ \A i \in 1..Len(items_') : 0 <= wait' /\ wait' <= items_'[i].expire_at - clock
<1>1. TimerInit => PollInv
  <2> SUFFICES ASSUME TimerInit PROVE PollInv
    OBVIOUS
  <2>1. <<>> \in Seq(ItemSet) /\ Heap(<<>>) /\ IdsUpTo(<<>>, 0) /\ 1..Len(<<>>) = {}
    BY DEF Heap, IdsUpTo
  <2>2. clock \in 0..MaxTick /\ next_id_ \in 0..MaxIds /\ wait \in Int
    BY TimerAssumption, IdsAssumption DEF TimerInit
  <2> QED
    BY <2>1, <2>2 DEF TimerInit, PollInv, TimerTypeOK
<1>2. ASSUME PollInv, [TimerNext]_timer_vars PROVE PollInv'
  <2>1. CASE TimerNext
    BY <1>2, <2>1, TimerStep
  <2>2. CASE UNCHANGED timer_vars
    BY <1>2, <2>2 DEF timer_vars, PollInv, TimerTypeOK
  <2> QED
    BY <1>2, <2>1, <2>2
<1>3. PollInv => TimerTypeOK
  BY DEF PollInv
<1>4. PollInv => [Fires]_timer_vars
  <2> SUFFICES ASSUME PollInv, poll PROVE Fires
    OBVIOUS
  <2> QED
    BY PollStep
<1> QED
  BY <1>1, <1>2, <1>3, <1>4, PTL DEF TimerSpec, PollFiresDue

=============================================================================
