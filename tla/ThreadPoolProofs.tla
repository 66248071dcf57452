-------------------------- MODULE ThreadPoolProofs --------------------------
(***************************************************************************)
(* Proofs about ThreadPool, for any workers, clients and jobs; and about   *)
(* TcpClient, for any number of messages, sockets and calls of connect and *)
(* any length of a message.                                                *)
(***************************************************************************)
EXTENDS ThreadPool, TcpClient, SequenceTheorems, TLAPS

USE PoolAssumption

\* q is s with e put behind its first k elements.
Inserted(q, s, k, e) ==
    /\ Len(q) = Len(s) + 1
    /\ \A i \in 1..Len(s) + 1 : q[i] =
          IF i <= k THEN s[i] ELSE IF i = k + 1 THEN e ELSE s[i - 1]

\* How append_priority puts a HIGH task behind the k leading HIGH ones.
Insertion(s, k, e) == SubSeq(s, 1, k) \o <<e>> \o SubSeq(s, k + 1, Len(s))

\* What it builds, element by element.
LEMMA InsertionElements ==
    ASSUME NEW S, NEW s \in Seq(S), NEW k \in 0..Len(s), NEW e \in S
    PROVE  Insertion(s, k, e) \in Seq(S) /\ Inserted(Insertion(s, k, e), s, k, e)
<1> DEFINE front == SubSeq(s, 1, k)
           back == SubSeq(s, k + 1, Len(s))
           head == front \o <<e>>
           whole == head \o back
<1>1. Len(s) \in Nat /\ \A i \in 1..Len(s) : s[i] \in S
  BY LenProperties
<1>2. /\ front \in Seq(S)
      /\ Len(front) = k
      /\ \A i \in 1..k : front[i] = s[i]
  BY <1>1, SubSeqProperties
<1>3. /\ back \in Seq(S)
      /\ Len(back) = Len(s) - k
      /\ \A i \in 1..Len(s) - k : back[i] = s[k + i]
  BY <1>1, SubSeqProperties
<1>4. /\ <<e>> \in Seq(S)
      /\ Len(<<e>>) = 1
      /\ <<e>>[1] = e
  OBVIOUS
<1>5. Insertion(s, k, e) = whole
  BY DEF Insertion
<1> HIDE DEF front, back
<1>6. /\ head \in Seq(S)
      /\ Len(head) = k + 1
      /\ \A i \in 1..k + 1 : head[i] = IF i <= k THEN s[i] ELSE e
  BY <1>2, <1>4, ConcatProperties
<1> HIDE DEF head
<1>7. Len(head) + Len(back) = Len(s) + 1
  BY <1>1, <1>3, <1>6
<1>8. /\ whole \in Seq(S)
      /\ Len(whole) = Len(s) + 1
      /\ \A i \in 1..Len(s) + 1 : whole[i] =
            IF i <= Len(head) THEN head[i] ELSE back[i - Len(head)]
  <2>1. /\ whole \in Seq(S)
        /\ Len(whole) = Len(head) + Len(back)
        /\ \A i \in 1..Len(head) + Len(back) : whole[i] =
              IF i <= Len(head) THEN head[i] ELSE back[i - Len(head)]
    <3>1. head \in Seq(S) /\ back \in Seq(S)
      BY <1>3, <1>6
    <3> QED
      BY <3>1, ConcatProperties
  <2> QED
    BY <1>7, <2>1
<1> HIDE DEF whole
<1>9. ASSUME NEW i \in 1..Len(s) + 1
      PROVE  whole[i] = IF i <= k THEN s[i] ELSE IF i = k + 1 THEN e ELSE s[i - 1]
  <2>1. CASE i <= k + 1
    BY <1>1, <1>6, <1>8, <2>1
  <2>2. CASE i > k + 1
    <3>1. i - (k + 1) \in 1..Len(s) - k /\ k + (i - (k + 1)) = i - 1
      BY <1>1, <2>2
    <3>2. back[i - (k + 1)] = s[i - 1]
      BY <1>3, <3>1
    <3> QED
      BY <1>1, <1>6, <1>8, <2>2, <3>2
  <2> QED
    BY <1>1, <2>1, <2>2
<1>10. Inserted(whole, s, k, e)
  BY <1>8, <1>9 DEF Inserted
<1> QED
  BY <1>5, <1>8, <1>10

-----------------------------------------------------------------------------
\* The variables always have their types.
THEOREM TypeCorrect == Spec => []TypeOK
<1>1. Init => TypeOK
  <2> SUFFICES ASSUME Init
               PROVE  TypeOK
    OBVIOUS
  <2>1. priority_ \in [Jobs -> {LOW, NORMAL, HIGH}]
    BY DEF Init
  <2>2. /\ pc \in [Workers -> WorkerPC]
        /\ held \in [Workers -> Jobs \cup {NoJob}]
        /\ client \in [Clients -> {"idle", "notify"}]
        /\ owner \in OwnerPC
    BY DEF Init, WorkerPC, OwnerPC
  <2>3. /\ phase \in [Jobs -> Phase]
        /\ ticket \in [Jobs -> Nat]
    BY DEF Init, Phase
  <2>4. stop_ \in BOOLEAN /\ shutdown_done_ \in BOOLEAN
    BY ZenonT(30) DEF Init
  <2> QED
    BY <2>1, <2>2, <2>3, <2>4 DEF Init, TypeOK
<1>2. TypeOK /\ [Next]_vars => TypeOK'
  <2> SUFFICES ASSUME TypeOK, [Next]_vars
               PROVE  TypeOK'
    OBVIOUS
  <2>1. ASSUME NEW c \in Clients, NEW j \in Jobs, Arrive(c, j), tasks_' \in Seq(Jobs)
        PROVE  TypeOK'
    BY <2>1 DEF TypeOK, Arrive, stopVars, Phase
  <2>2. ASSUME NEW c \in Clients, NEW j \in Jobs, AppendJob(c, j)
        PROVE  TypeOK'
    <3>1. tasks_' \in Seq(Jobs)
      BY <2>2, AppendProperties DEF AppendJob, TypeOK
    <3> QED
      BY <2>1, <2>2, <3>1 DEF AppendJob
  <2>3. ASSUME NEW c \in Clients, NEW t \in Jobs, AppendPriority(c, t)
        PROVE  TypeOK'
    <3>1. Append(tasks_, t) \in Seq(Jobs)
      BY AppendProperties DEF TypeOK
    <3>2. \A k \in 0..Len(tasks_) : Insertion(tasks_, k, t) \in Seq(Jobs)
      BY InsertionElements DEF TypeOK
    <3>3. tasks_' \in Seq(Jobs)
      BY <2>3, <3>1, <3>2, ZenonT(30) DEF AppendPriority, Insertion
    <3> QED
      BY <2>1, <2>3, <3>3 DEF AppendPriority
  <2>4. ASSUME NEW c \in Clients, NotifyOne(c)
        PROVE  TypeOK'
    BY <2>4, ZenonT(30) DEF TypeOK, NotifyOne, Blocked, queueVars, stopVars, WorkerPC
  <2>5. ASSUME NEW t \in Jobs, Cancel(t)
        PROVE  TypeOK'
    BY <2>5 DEF TypeOK, Cancel, queueVars, stopVars
  <2>6. ASSUME NEW w \in Workers, Take(w)
        PROVE  TypeOK'
    <3>1. Head(tasks_) \in Jobs /\ Tail(tasks_) \in Seq(Jobs)
      BY <2>6, HeadTailProperties DEF Take, TypeOK
    <3> QED
      BY <2>6, <3>1 DEF TypeOK, Take, stopVars, WorkerPC, Phase
  <2>7. ASSUME NEW w \in Workers,
               Exit(w) \/ TestFails(w) \/ Block(w) \/ SpuriousWakeup(w)
        PROVE  TypeOK'
    BY <2>7, ZenonT(30) DEF TypeOK, Exit, TestFails, Block, SpuriousWakeup, queueVars,
                stopVars, WorkerPC
  <2>8. ASSUME NEW w \in Workers, Execute(w) \/ Finish(w)
        PROVE  TypeOK'
    <3>1. phase' \in [Jobs -> Phase]
      BY <2>8, ZenonT(30) DEF TypeOK, Execute, Finish, Phase
    <3>2. pc' \in [Workers -> WorkerPC] /\ held' \in [Workers -> Jobs \cup {NoJob}]
      BY <2>8, ZenonT(30) DEF TypeOK, Execute, Finish, WorkerPC
    <3> QED
      BY <2>8, <3>1, <3>2 DEF TypeOK, Execute, Finish, queueVars, stopVars
  <2>9. CASE Shutdown \/ ShutdownNow
    BY <2>9, ZenonT(30) DEF TypeOK, Shutdown, ShutdownNow, queueVars, OwnerPC
  <2>10. CASE NotifyAll \/ Join
    <3>1. pc' \in [Workers -> WorkerPC] /\ owner' \in OwnerPC
      BY <2>10 DEF TypeOK, NotifyAll, Join, WorkerPC, OwnerPC
    <3>2. shutdown_done_' \in BOOLEAN
      BY <2>10, ZenonT(30) DEF TypeOK, NotifyAll, Join
    <3> QED
      BY <2>10, <3>1, <3>2 DEF TypeOK, NotifyAll, Join, queueVars
  <2>11. CASE SwapQueue \/ Destroy
    <3>1. tasks_' \in Seq(Jobs)
      <4>1. tasks_' = <<>>
        BY <2>11 DEF SwapQueue, Destroy, DropQueue
      <4> QED
        BY <4>1
    <3>2. phase' \in [Jobs -> Phase]
      BY <2>11 DEF TypeOK, SwapQueue, Destroy, DropQueue, Phase
    <3>3. owner' \in OwnerPC
      BY <2>11 DEF SwapQueue, Destroy, OwnerPC
    <3> QED
      BY <2>11, <3>1, <3>2, <3>3 DEF TypeOK, SwapQueue, Destroy
  <2>12. CASE UNCHANGED vars
    BY <2>12 DEF TypeOK, vars
  <2> QED
    BY <2>2, <2>3, <2>4, <2>5, <2>6, <2>7, <2>8, <2>9, <2>10, <2>11, <2>12
    DEF Next, ClientStep, WorkerLock, WorkerRun, OwnerStep, Jobs
<1> QED
  BY <1>1, <1>2, PTL DEF Spec

-----------------------------------------------------------------------------
\* Either way of submitting a job inserts it behind some k jobs of the queue:
\* behind the leading HIGH jobs if it is HIGH, else at the end.
LEMMA ArrivalQueue ==
    ASSUME TypeOK, ArrivalInv, NEW c \in Clients, NEW j \in Jobs,
           (j \in Closures /\ AppendJob(c, j)) \/ AppendPriority(c, j)
    PROVE  \E k \in 0..Len(tasks_) :
              /\ (IsHigh(j) /\ LeadingHigh(k)) \/ (~IsHigh(j) /\ k = Len(tasks_))
              /\ Inserted(tasks_', tasks_, k, j)
<1>1. tasks_ \in Seq(Jobs) /\ Len(tasks_) \in Nat
  BY LenProperties DEF TypeOK
<1>2. CASE ~IsHigh(j) /\ tasks_' = Append(tasks_, j)
  <2>1. /\ Len(tasks_') = Len(tasks_) + 1
        /\ \A i \in 1..Len(tasks_) : tasks_'[i] = tasks_[i]
        /\ tasks_'[Len(tasks_) + 1] = j
    BY <1>1, <1>2, AppendProperties
  <2>2. \A i \in 1..Len(tasks_) + 1 : tasks_'[i] =
           IF i <= Len(tasks_) THEN tasks_[i]
           ELSE IF i = Len(tasks_) + 1 THEN j ELSE tasks_[i - 1]
    BY <1>1, <2>1
  <2>3. Len(tasks_) \in 0..Len(tasks_)
    BY <1>1
  <2>4. Inserted(tasks_', tasks_, Len(tasks_), j)
    BY <2>1, <2>2 DEF Inserted
  <2> QED
    BY <1>2, <2>3, <2>4
<1>3. CASE IsHigh(j) /\ \E k \in 0..Len(tasks_) :
                LeadingHigh(k) /\ tasks_' = Insertion(tasks_, k, j)
  <2>1. PICK k \in 0..Len(tasks_) :
           LeadingHigh(k) /\ tasks_' = Insertion(tasks_, k, j)
    BY <1>3
  <2>2. Inserted(Insertion(tasks_, k, j), tasks_, k, j)
    BY <1>1, InsertionElements
  <2> QED
    BY <1>3, <2>1, <2>2
<1> QED
  BY <1>2, <1>3 DEF AppendJob, AppendPriority, ArrivalInv, Insertion

\* A job that arrives is queued, and so is every job that was, once.
LEMMA ArrivalMembers ==
    ASSUME Len(tasks_) \in Nat, NEW k \in 0..Len(tasks_), NEW j,
           Inserted(tasks_', tasks_, k, j)
    PROVE  /\ \A x : Queued(x)' <=> (x = j \/ Queued(x))
           /\ ~Queued(j) /\ (\A i, m \in 1..Len(tasks_) : tasks_[i] = tasks_[m] => i = m)
                 => \A i, m \in 1..Len(tasks_') : tasks_'[i] = tasks_'[m] => i = m
<1> DEFINE n == Len(tasks_)
           q == tasks_
           r == tasks_'
<1>0. /\ n \in Nat /\ k \in 0..n /\ Len(r) = n + 1
      /\ \A i \in 1..n + 1 : r[i] =
            IF i <= k THEN q[i] ELSE IF i = k + 1 THEN j ELSE q[i - 1]
  BY DEF Inserted
<1>a. \A x : /\ Queued(x) <=> \E i \in 1..n : q[i] = x
             /\ Queued(x)' <=> \E i \in 1..n + 1 : r[i] = x
  BY <1>0 DEF Queued
<1> HIDE DEF n, q, r
<1>1. \A i \in 1..n : IF i <= k THEN r[i] = q[i] ELSE r[i + 1] = q[i]
  BY <1>0
<1>2. r[k + 1] = j /\ k + 1 \in 1..n + 1
  BY <1>0
<1>3. \A i \in 1..n + 1 :
         \/ i <= k /\ i \in 1..n /\ r[i] = q[i]
         \/ i = k + 1 /\ r[i] = j
         \/ i > k + 1 /\ i - 1 \in 1..n /\ r[i] = q[i - 1]
  <2> TAKE i \in 1..n + 1
  <2>1. CASE i <= k
    <3>1. i \in 1..n /\ r[i] = q[i]
      BY <1>0, <2>1
    <3> QED
      BY <2>1, <3>1
  <2>2. CASE i = k + 1
    <3>1. ~(i <= k)
      BY <1>0, <2>2
    <3>2. r[i] = j
      BY <1>0, <2>2, <3>1
    <3> QED
      BY <2>2, <3>2
  <2>3. CASE i > k + 1
    <3>1. i - 1 \in 1..n /\ ~(i <= k) /\ i # k + 1
      BY <1>0, <2>3
    <3> QED
      BY <1>0, <2>3, <3>1
  <2> QED
    BY <1>0, <2>1, <2>2, <2>3, SMTT(30)
<1>4. ASSUME NEW x
      PROVE  (\E i \in 1..n + 1 : r[i] = x) <=> (x = j \/ \E i \in 1..n : q[i] = x)
  <2>1. ASSUME NEW i \in 1..n + 1, r[i] = x
        PROVE  x = j \/ \E m \in 1..n : q[m] = x
    BY <1>3, <2>1
  <2>2. ASSUME NEW i \in 1..n, q[i] = x
        PROVE  \E m \in 1..n + 1 : r[m] = x
    <3>1. i \in 1..n + 1 /\ i + 1 \in 1..n + 1
      BY <1>0
    <3> QED
      BY <1>1, <2>2, <3>1
  <2> QED
    BY <1>2, <2>1, <2>2
<1>5. ASSUME \A i, m \in 1..n : q[i] = q[m] => i = m, \A i \in 1..n : q[i] # j,
             NEW i \in 1..n + 1, NEW m \in 1..n + 1, r[i] = r[m]
      PROVE  i = m
  BY <1>0, <1>3, <1>5
<1>6. \A x : Queued(x)' <=> (x = j \/ Queued(x))
  BY <1>4, <1>a, ZenonT(30)
<1>7. ASSUME ~Queued(j), \A i, m \in 1..n : q[i] = q[m] => i = m
      PROVE  \A i, m \in 1..n + 1 : r[i] = r[m] => i = m
  BY <1>5, <1>7, <1>a
<1> QED
  BY <1>0, <1>6, <1>7 DEF n, q, r

-----------------------------------------------------------------------------
\* The mutex is kept between two steps only by a worker about to wait, while
\* the queue is empty.
LEMMA MutexInvariant == Spec => []MutexInv
<1>1. Init => MutexInv
  BY DEF Init, MutexInv
<1>2. TypeOK /\ MutexInv /\ [Next]_vars => MutexInv'
  <2> SUFFICES ASSUME TypeOK, MutexInv, [Next]_vars
               PROVE  MutexInv'
    OBVIOUS
  <2>1. ASSUME NEW c \in Clients, NEW j \in Jobs, AppendJob(c, j) \/ AppendPriority(c, j)
        PROVE  MutexInv'
    BY <2>1 DEF MutexInv, AppendJob, AppendPriority, Arrive, MutexFree
  <2>2. ASSUME NEW c \in Clients, NotifyOne(c)
        PROVE  MutexInv'
    BY <2>2 DEF TypeOK, MutexInv, NotifyOne, Blocked, queueVars
  <2>3. ASSUME NEW t \in Jobs, Cancel(t)
        PROVE  MutexInv'
    BY <2>3 DEF MutexInv, Cancel, queueVars
  <2>4. ASSUME NEW w \in Workers, Take(w) \/ Exit(w) \/ SpuriousWakeup(w)
        PROVE  MutexInv'
    BY <2>4 DEF TypeOK, MutexInv, Take, Exit, SpuriousWakeup, MutexFree, queueVars
  <2>5. ASSUME NEW w \in Workers, TestFails(w) \/ Block(w)
        PROVE  MutexInv'
    BY <2>5 DEF TypeOK, MutexInv, TestFails, Block, MutexFree, queueVars
  <2>6. ASSUME NEW w \in Workers, Execute(w) \/ Finish(w)
        PROVE  MutexInv'
    BY <2>6 DEF TypeOK, MutexInv, Execute, Finish, queueVars
  <2>7. CASE Shutdown \/ ShutdownNow \/ Join
    BY <2>7 DEF MutexInv, Shutdown, ShutdownNow, Join, queueVars
  <2>8. CASE NotifyAll
    BY <2>8 DEF TypeOK, MutexInv, NotifyAll, queueVars
  <2>9. CASE SwapQueue \/ Destroy
    BY <2>9 DEF MutexInv, SwapQueue, Destroy, DropQueue
  <2>10. CASE UNCHANGED vars
    BY <2>10 DEF MutexInv, vars
  <2> QED
    BY <2>1, <2>2, <2>3, <2>4, <2>5, <2>6, <2>7, <2>8, <2>9, <2>10, SMTT(30)
    DEF Next, ClientStep, WorkerLock, WorkerRun, OwnerStep, Jobs
<1> QED
  BY <1>1, <1>2, TypeCorrect, PTL DEF Spec

\* Tickets grow, and the priority of a job never changes.
LEMMA ArrivalInvariant == Spec => []ArrivalInv
<1>1. Init => ArrivalInv
  BY DEF Init, ArrivalInv, IsHigh, NORMAL, HIGH, Jobs
<1>2. TypeOK /\ ArrivalInv /\ [Next]_vars => ArrivalInv'
  <2> SUFFICES ASSUME TypeOK, ArrivalInv, [Next]_vars
               PROVE  ArrivalInv'
    OBVIOUS
  <2>1. ASSUME NEW c \in Clients, NEW j \in Jobs, Arrive(c, j)
        PROVE  ArrivalInv'
    BY <2>1 DEF TypeOK, ArrivalInv, Arrive, IsHigh
  <2>2. CASE UNCHANGED <<ticket, arrivals, priority_>>
    BY <2>2, SMTT(30) DEF ArrivalInv, IsHigh
  <2>3. \/ \E c \in Clients, j \in Jobs : Arrive(c, j)
        \/ UNCHANGED <<ticket, arrivals, priority_>>
    BY DEF Next, ClientStep, AppendJob, AppendPriority, NotifyOne, Cancel,
           WorkerLock, Take, Exit, TestFails, WorkerRun, Block, Execute, Finish,
           SpuriousWakeup, OwnerStep, Shutdown, ShutdownNow, SwapQueue, NotifyAll,
           Join, Destroy, queueVars, vars, Jobs
  <2> QED
    BY <2>1, <2>2, <2>3
<1> QED
  BY <1>1, <1>2, TypeCorrect, PTL DEF Spec

-----------------------------------------------------------------------------
\* Popping the queue removes its first job and, as no job is queued twice,
\* nothing else.
LEMMA PopMembers ==
    ASSUME TypeOK, OnePlace, tasks_ # <<>>, tasks_' = Tail(tasks_)
    PROVE  /\ Head(tasks_) \in Jobs
           /\ Queued(Head(tasks_))
           /\ \A x : Queued(x)' <=> Queued(x) /\ x # Head(tasks_)
           /\ \A i, k \in 1..Len(tasks_') : tasks_'[i] = tasks_'[k] => i = k
<1> DEFINE n == Len(tasks_)
<1>1. /\ n \in Nat /\ n > 0
      /\ Head(tasks_) = tasks_[1]
      /\ Head(tasks_) \in Jobs
      /\ Len(tasks_') = n - 1
      /\ \A i \in 1..n - 1 : tasks_'[i] = tasks_[i + 1]
  BY HeadTailProperties, LenProperties, EmptySeq DEF TypeOK
<1>2. \A i, k \in 1..n : tasks_[i] = tasks_[k] => i = k
  BY DEF OnePlace
<1>3. \A i, k \in 1..Len(tasks_') : tasks_'[i] = tasks_'[k] => i = k
  BY <1>1, <1>2
<1>4. ASSUME NEW x, Queued(x)'
      PROVE  Queued(x) /\ x # Head(tasks_)
  <2>1. PICK i \in 1..n - 1 : tasks_'[i] = x
    BY <1>1, <1>4 DEF Queued
  <2>2. i + 1 \in 1..n /\ i + 1 # 1 /\ 1 \in 1..n /\ tasks_[i + 1] = x
    BY <1>1, <2>1
  <2> QED
    BY <1>1, <1>2, <2>2 DEF Queued
<1>5. ASSUME NEW x, Queued(x), x # Head(tasks_)
      PROVE  Queued(x)'
  <2>1. PICK i \in 1..n : tasks_[i] = x
    BY <1>5 DEF Queued
  <2>2. i - 1 \in 1..n - 1 /\ (i - 1) + 1 = i
    BY <1>1, <1>5, <2>1
  <2>3. tasks_'[i - 1] = x
    BY <1>1, <2>1, <2>2
  <2> QED
    BY <1>1, <2>2, <2>3, SMTT(30) DEF Queued
<1>6. Queued(Head(tasks_))
  BY <1>1 DEF Queued
<1> QED
  BY <1>1, <1>3, <1>4, <1>5, <1>6

\* No job is lost, duplicated or run by two workers (OnePlace), by induction
\* together with the link between a worker's place in worker_loop, the job it
\* holds and that job's phase.
THEOREM Placement == Spec => [](OnePlace /\ HeldInv)
<1>1. Init => OnePlace /\ HeldInv
  BY DEF Init, OnePlace, HeldInv, Queued, Jobs
<1>2. TypeOK /\ ArrivalInv /\ OnePlace /\ HeldInv /\ [Next]_vars => (OnePlace /\ HeldInv)'
  <2> SUFFICES ASSUME TypeOK, ArrivalInv, OnePlace, HeldInv, [Next]_vars
               PROVE  OnePlace' /\ HeldInv'
    OBVIOUS
  <2>1. ASSUME NEW c \in Clients, NEW j \in Jobs,
               (j \in Closures /\ AppendJob(c, j)) \/ AppendPriority(c, j)
        PROVE  OnePlace' /\ HeldInv'
    <3>1. /\ phase[j] = "new"
          /\ phase' = [phase EXCEPT ![j] = "pending"]
          /\ UNCHANGED <<pc, held>>
      BY <2>1 DEF AppendJob, AppendPriority, Arrive
    <3>2. ~Queued(j)
      BY <3>1 DEF OnePlace
    <3>3. PICK k \in 0..Len(tasks_) : Inserted(tasks_', tasks_, k, j)
      BY <2>1, ArrivalQueue
    <3>4. Len(tasks_) \in Nat
      BY LenProperties DEF TypeOK
    <3>5. \A x : Queued(x)' <=> (x = j \/ Queued(x))
      BY <3>3, <3>4, ArrivalMembers
    <3>6. \A i, m \in 1..Len(tasks_') : tasks_'[i] = tasks_'[m] => i = m
      BY <3>2, <3>3, <3>4, ArrivalMembers DEF OnePlace
    <3>7. \A w \in Workers : held[w] # j
      BY <3>1 DEF OnePlace
    <3>8. OnePlace'
      BY <3>1, <3>5, <3>6 DEF TypeOK, OnePlace
    <3>9. HeldInv'
      BY <3>1, <3>7 DEF TypeOK, HeldInv
    <3> QED
      BY <3>8, <3>9
  <2>2. ASSUME NEW w \in Workers, Take(w)
        PROVE  OnePlace' /\ HeldInv'
    <3> DEFINE h == Head(tasks_)
    <3>1. /\ h \in Jobs
          /\ Queued(h)
          /\ \A x : Queued(x)' <=> Queued(x) /\ x # h
          /\ \A i, k \in 1..Len(tasks_') : tasks_'[i] = tasks_'[k] => i = k
      BY <2>2, PopMembers DEF Take
    <3>2. /\ pc[w] = "loop"
          /\ held' = [held EXCEPT ![w] = h]
          /\ pc' = [pc EXCEPT ![w] = "execute"]
          /\ phase' = [phase EXCEPT ![h] = "taken"]
      BY <2>2 DEF Take
    <3> HIDE DEF h
    <3>3. held[w] = NoJob
      BY <3>2 DEF HeldInv
    <3>4. phase[h] = "pending" /\ \A v \in Workers : held[v] # h
      BY <3>1 DEF OnePlace
    <3>5. OnePlace'
      BY <3>1, <3>2, <3>3, <3>4 DEF TypeOK, OnePlace
    <3>6. HeldInv'
      BY <3>1, <3>2, <3>3, <3>4 DEF TypeOK, HeldInv
    <3> QED
      BY <3>5, <3>6
  <2>3. ASSUME NEW w \in Workers, Execute(w) \/ Finish(w)
        PROVE  OnePlace' /\ HeldInv'
    <3>1. held[w] \in Jobs /\ phase[held[w]] \in {"taken", "running"}
      BY <2>3 DEF TypeOK, HeldInv, Execute, Finish
    <3>2. tasks_' = tasks_ /\ \A x : Queued(x)' <=> Queued(x)
      BY <2>3 DEF Execute, Finish, queueVars, Queued
    <3>3. OnePlace'
      <4>1. ASSUME phase' = [phase EXCEPT ![held[w]] = "running"], held' = held
            PROVE  OnePlace'
        BY <3>1, <3>2, <4>1 DEF TypeOK, OnePlace
      <4>2. ASSUME NEW f \in {"ran", "skipped"},
                   phase' = [phase EXCEPT ![held[w]] = f],
                   held' = [held EXCEPT ![w] = NoJob]
            PROVE  OnePlace'
        <5>1. \A j \in Jobs : phase'[j] = IF j = held[w] THEN f ELSE phase[j]
          BY <4>2, <3>1 DEF TypeOK
        <5>2. \A v \in Workers : held'[v] = IF v = w THEN NoJob ELSE held[v]
          BY <4>2 DEF TypeOK
        <5>3. \A j \in Jobs : (\E v \in Workers : held'[v] = j)
                                <=> j # held[w] /\ \E v \in Workers : held[v] = j
          BY <3>1, <5>2 DEF OnePlace
        <5>4. \A v, u \in Workers : held'[v] = held'[u] /\ held'[v] # NoJob => v = u
          BY <5>2 DEF OnePlace
        <5> QED
          BY <3>1, <3>2, <5>1, <5>3, <5>4 DEF OnePlace
      <4> QED
        BY <2>3, <4>1, <4>2 DEF Execute, Finish
    <3>4. HeldInv'
      BY <2>3, <3>1 DEF TypeOK, HeldInv, OnePlace, Execute, Finish
    <3> QED
      BY <3>3, <3>4
  <2>4. ASSUME NEW w \in Workers,
               Exit(w) \/ TestFails(w) \/ Block(w) \/ SpuriousWakeup(w)
        PROVE  OnePlace' /\ HeldInv'
    <3>1. /\ UNCHANGED <<tasks_, phase, held>>
          /\ \E p \in WorkerPC \ {"execute", "running"} : pc' = [pc EXCEPT ![w] = p]
          /\ pc[w] \notin {"execute", "running"}
      BY <2>4 DEF Exit, TestFails, Block, SpuriousWakeup, queueVars, WorkerPC
    <3>2. OnePlace'
      <4>1. UNCHANGED <<tasks_, phase, held>>
        BY <3>1
      <4> QED
        BY <4>1 DEF OnePlace, Queued
    <3>3. HeldInv'
      BY <3>1 DEF TypeOK, HeldInv
    <3> QED
      BY <3>2, <3>3
  <2>5. ASSUME NEW c \in Clients, NotifyOne(c)
        PROVE  OnePlace' /\ HeldInv'
    <3>1. UNCHANGED <<tasks_, phase, held>>
      BY <2>5 DEF NotifyOne, queueVars
    <3>2. \A w \in Workers : pc'[w] = pc[w] \/ (pc[w] = "blocked" /\ pc'[w] = "loop")
      BY <2>5 DEF TypeOK, NotifyOne, Blocked
    <3>3. OnePlace'
      BY <3>1 DEF OnePlace, Queued
    <3>4. HeldInv'
      BY <3>1, <3>2 DEF HeldInv
    <3> QED
      BY <3>3, <3>4
  <2>6. CASE NotifyAll
    BY <2>6 DEF TypeOK, OnePlace, HeldInv, Queued, NotifyAll, queueVars
  <2>7. CASE SwapQueue \/ Destroy
    <3>1. /\ tasks_' = <<>>
          /\ phase' = [j \in Jobs |-> IF Queued(j) THEN "dropped" ELSE phase[j]]
          /\ UNCHANGED <<pc, held>>
      BY <2>7 DEF SwapQueue, Destroy, DropQueue
    <3>2. \A x : ~Queued(x)'
      BY <3>1 DEF Queued
    <3>3. \A i, k \in 1..Len(tasks_') : tasks_'[i] = tasks_'[k] => i = k
      BY <3>1, SMTT(30)
    <3>4. \A j \in Jobs : phase'[j] = IF phase[j] = "pending" THEN "dropped" ELSE phase[j]
      BY <3>1 DEF OnePlace
    <3>5. OnePlace'
      <4>1. \A j \in Jobs : phase'[j] = "pending" <=> Queued(j)'
        BY <3>2, <3>4
      <4>2. \A j \in Jobs : phase'[j] \in {"taken", "running"} <=> \E w \in Workers : held'[w] = j
        BY <3>1, <3>4 DEF OnePlace
      <4>3. \A v, w \in Workers : held'[v] = held'[w] /\ held'[v] # NoJob => v = w
        BY <3>1 DEF OnePlace
      <4> QED
        BY <3>3, <4>1, <4>2, <4>3 DEF OnePlace
    <3>6. HeldInv'
      <4>1. \A w \in Workers : pc[w] \in {"execute", "running"} => held[w] \in Jobs
        BY DEF TypeOK, HeldInv
      <4> QED
        BY <3>1, <3>4, <4>1 DEF HeldInv
    <3> QED
      BY <3>5, <3>6
  <2>8. CASE UNCHANGED <<tasks_, phase, pc, held>>
    BY <2>8 DEF OnePlace, HeldInv, Queued
  <2>9. (\E t \in Jobs : Cancel(t)) \/ Shutdown \/ ShutdownNow \/ Join \/ UNCHANGED vars
           => UNCHANGED <<tasks_, phase, pc, held>>
    BY DEF Cancel, Shutdown, ShutdownNow, Join, queueVars, vars
  <2> QED
    BY <2>1, <2>2, <2>3, <2>4, <2>5, <2>6, <2>7, <2>8, <2>9, SMTT(30)
    DEF Next, ClientStep, WorkerLock, WorkerRun, OwnerStep, Jobs
<1> QED
  BY <1>1, <1>2, TypeCorrect, ArrivalInvariant, PTL DEF Spec

-----------------------------------------------------------------------------
\* The queue stays ordered: HIGH jobs ahead of the others, each class in the
\* order of arrival, whichever way jobs are submitted and taken.
THEOREM Ordering == Spec => []QueueOrdered
<1>1. Init => QueueOrdered
  BY DEF Init, QueueOrdered
<1>2. TypeOK /\ ArrivalInv /\ OnePlace /\ QueueOrdered /\ [Next]_vars => QueueOrdered'
  <2> SUFFICES ASSUME TypeOK, ArrivalInv, OnePlace, QueueOrdered, [Next]_vars
               PROVE  QueueOrdered'
    OBVIOUS
  <2> DEFINE n == Len(tasks_)
  <2>0. n \in Nat /\ \A i \in 1..n : tasks_[i] \in Jobs
    BY LenProperties DEF TypeOK
  <2>1. ASSUME NEW c \in Clients, NEW j \in Jobs,
               (j \in Closures /\ AppendJob(c, j)) \/ AppendPriority(c, j)
        PROVE  QueueOrdered'
    <3>1. /\ phase[j] = "new"
          /\ ticket' = [ticket EXCEPT ![j] = arrivals + 1]
          /\ priority_' = priority_
      BY <2>1 DEF AppendJob, AppendPriority, Arrive
    <3>a. PICK k \in 0..n :
              /\ (IsHigh(j) /\ LeadingHigh(k)) \/ (~IsHigh(j) /\ k = n)
              /\ Inserted(tasks_', tasks_, k, j)
      BY <2>1, ArrivalQueue
    <3>2. /\ (IsHigh(j) /\ LeadingHigh(k)) \/ (~IsHigh(j) /\ k = n)
          /\ Len(tasks_') = n + 1
          /\ \A i \in 1..n + 1 : tasks_'[i] =
                IF i <= k THEN tasks_[i] ELSE IF i = k + 1 THEN j ELSE tasks_[i - 1]
      BY <3>a DEF Inserted
    <3>3. /\ ticket'[j] = arrivals + 1
          /\ \A i \in 1..n : /\ tasks_[i] # j
                             /\ ticket'[tasks_[i]] = ticket[tasks_[i]]
                             /\ ticket[tasks_[i]] \in Nat
                             /\ ticket[tasks_[i]] < arrivals + 1
      <4>1. \A i \in 1..n : tasks_[i] # j
        BY <3>1 DEF OnePlace, Queued
      <4>2. ticket \in [Jobs -> Nat] /\ arrivals \in Nat /\ \A x \in Jobs : ticket[x] <= arrivals
        BY DEF TypeOK, ArrivalInv
      <4> QED
        BY <2>0, <3>1, <4>1, <4>2
    <3>4. \A i \in 1..n : i <= k /\ IsHigh(j) => IsHigh(tasks_[i])
      BY <3>2 DEF LeadingHigh
    <3>5. \A i \in 1..n : i > k => IsHigh(j) /\ ~IsHigh(tasks_[i])
      <4> TAKE i \in 1..n
      <4> HAVE i > k
      <4>1. k + 1 \in 1..n /\ k < n /\ i >= k + 1
        BY <2>0
      <4>2. IsHigh(j) /\ ~IsHigh(tasks_[k + 1])
        BY <2>0, <3>2, <4>1, SMTT(30) DEF LeadingHigh
      <4> QED
        BY <2>0, <4>1, <4>2 DEF QueueOrdered
    <3> SUFFICES ASSUME NEW a \in 1..n + 1, NEW b \in 1..n + 1, a < b
                 PROVE  /\ IsHigh(tasks_'[b]) => IsHigh(tasks_'[a])
                        /\ (IsHigh(tasks_'[b]) <=> IsHigh(tasks_'[a]))
                              => ticket'[tasks_'[a]] < ticket'[tasks_'[b]]
      BY <3>1, <3>2 DEF QueueOrdered, IsHigh
    <3> HIDE DEF n
    <3>6. CASE b <= k
      <4>1. a \in 1..n /\ b \in 1..n /\ tasks_'[a] = tasks_[a] /\ tasks_'[b] = tasks_[b]
        BY <2>0, <3>2, <3>6
      <4> QED
        BY <3>3, <4>1 DEF QueueOrdered, n
    <3>7. CASE b = k + 1
      <4>1. a \in 1..n /\ a <= k /\ tasks_'[a] = tasks_[a] /\ ~(b <= k)
        BY <2>0, <3>2, <3>7
      <4>2. tasks_'[b] = j
        BY <3>2, <3>7, <4>1
      <4> QED
        BY <3>3, <3>4, <4>1, <4>2
    <3>8. CASE b > k + 1 /\ a <= k
      <4>1. /\ a \in 1..n /\ b - 1 \in 1..n /\ a < b - 1
            /\ tasks_'[a] = tasks_[a] /\ tasks_'[b] = tasks_[b - 1]
        BY <2>0, <3>2, <3>8
      <4> QED
        BY <3>3, <4>1 DEF QueueOrdered, n
    <3>9. CASE b > k + 1 /\ a = k + 1
      <4>1. /\ b - 1 \in 1..n /\ b - 1 > k /\ ~(a <= k) /\ ~(b <= k) /\ b # k + 1
        BY <2>0, <3>9
      <4>2. tasks_'[a] = j /\ tasks_'[b] = tasks_[b - 1]
        BY <3>2, <3>9, <4>1
      <4> QED
        BY <3>5, <4>1, <4>2
    <3>10. CASE b > k + 1 /\ a > k + 1
      <4>1. /\ a - 1 \in 1..n /\ b - 1 \in 1..n /\ a - 1 < b - 1
            /\ tasks_'[a] = tasks_[a - 1] /\ tasks_'[b] = tasks_[b - 1]
        BY <2>0, <3>2, <3>10
      <4> QED
        BY <3>3, <4>1 DEF QueueOrdered, n
    <3> QED
      BY <2>0, <3>6, <3>7, <3>8, <3>9, <3>10, SMTT(30)
  <2>2. ASSUME NEW w \in Workers, Take(w)
        PROVE  QueueOrdered'
    <3>1. /\ tasks_ # <<>> /\ tasks_' = Tail(tasks_)
          /\ UNCHANGED <<ticket, priority_>>
      BY <2>2 DEF Take
    <3>2. /\ Len(tasks_') = n - 1
          /\ \A i \in 1..n - 1 : tasks_'[i] = tasks_[i + 1]
      BY <3>1, HeadTailProperties, EmptySeq DEF TypeOK
    <3>3. \A i \in 1..n - 1 : i + 1 \in 1..n
      BY <2>0
    <3>4. \A i, k \in 1..n - 1 : i < k => i + 1 < k + 1
      BY <2>0
    <3> QED
      BY <3>1, <3>2, <3>3, <3>4 DEF QueueOrdered, IsHigh
  <2>3. CASE SwapQueue \/ Destroy
    <3>1. tasks_' = <<>>
      BY <2>3 DEF SwapQueue, Destroy, DropQueue
    <3> QED
      BY <3>1 DEF QueueOrdered
  <2>4. CASE UNCHANGED <<tasks_, ticket, priority_>>
    BY <2>4, SMTT(30) DEF QueueOrdered, IsHigh
  <2>5. \/ \E c \in Clients, j \in Jobs :
              (j \in Closures /\ AppendJob(c, j)) \/ AppendPriority(c, j)
        \/ \E w \in Workers : Take(w)
        \/ SwapQueue \/ Destroy
        \/ UNCHANGED <<tasks_, ticket, priority_>>
    BY ZenonT(30) DEF Next, ClientStep, NotifyOne, Cancel, WorkerLock, Exit, TestFails,
           WorkerRun, Block, Execute, Finish, SpuriousWakeup, OwnerStep, Shutdown,
           ShutdownNow, NotifyAll, Join, queueVars, vars, Jobs
  <2> QED
    BY <2>1, <2>2, <2>3, <2>4, <2>5
<1> QED
  BY <1>1, <1>2, TypeCorrect, ArrivalInvariant, Placement, PTL DEF Spec

-----------------------------------------------------------------------------
\* A queued job never waits for a worker that nobody will wake: a worker goes
\* to sleep only while the queue is empty, and each arrival is followed by a
\* notify_one.
THEOREM JobWakeup == Spec => []NoLostJobWakeup
<1>1. Init => NoLostJobWakeup
  BY DEF Init, NoLostJobWakeup
<1>2. TypeOK /\ MutexInv /\ NoLostJobWakeup /\ [Next]_vars => NoLostJobWakeup'
  <2> SUFFICES ASSUME TypeOK, MutexInv, NoLostJobWakeup, [Next]_vars
               PROVE  NoLostJobWakeup'
    OBVIOUS
  <2>1. ASSUME NEW c \in Clients, NEW j \in Jobs, Arrive(c, j)
        PROVE  NoLostJobWakeup'
    BY <2>1 DEF TypeOK, NoLostJobWakeup, Arrive
  <2>2. ASSUME NEW c \in Clients, NotifyOne(c)
        PROVE  NoLostJobWakeup'
    <3>1. CASE Blocked = {} /\ pc' = pc
      BY <3>1 DEF NoLostJobWakeup, Blocked
    <3>2. CASE \E w \in Blocked : pc' = [pc EXCEPT ![w] = "loop"]
      BY <3>2 DEF TypeOK, NoLostJobWakeup, Blocked
    <3> QED
      BY <2>2, <3>1, <3>2, SMTT(30) DEF NotifyOne
  <2>3. ASSUME NEW w \in Workers,
               Take(w) \/ SpuriousWakeup(w) \/ Execute(w) \/ Finish(w)
        PROVE  NoLostJobWakeup'
    <3>1. pc'[w] \in {"execute", "loop", "running"}
      BY <2>3 DEF TypeOK, Take, SpuriousWakeup, Execute, Finish
    <3> QED
      BY <3>1 DEF NoLostJobWakeup
  <2>4. ASSUME NEW w \in Workers, Exit(w) \/ TestFails(w) \/ Block(w)
        PROVE  NoLostJobWakeup'
    <3>1. tasks_' = <<>>
      BY <2>4 DEF Exit, TestFails, Block, MutexInv, queueVars
    <3> QED
      BY <3>1 DEF NoLostJobWakeup
  <2>5. CASE NotifyAll
    <3>1. Blocked' = {}
      BY <2>5 DEF NotifyAll, Blocked
    <3> QED
      BY <3>1 DEF NoLostJobWakeup
  <2>6. CASE SwapQueue \/ Destroy
    BY <2>6 DEF NoLostJobWakeup, SwapQueue, Destroy, DropQueue
  <2>7. CASE UNCHANGED <<tasks_, pc, client>>
    BY <2>7 DEF NoLostJobWakeup, Blocked
  <2>8. (\E t \in Tasks : Cancel(t)) \/ Shutdown \/ ShutdownNow \/ Join \/ UNCHANGED vars
           => UNCHANGED <<tasks_, pc, client>>
    BY DEF Cancel, Shutdown, ShutdownNow, Join, queueVars, vars
  <2>9. \A c \in Clients, j \in Jobs : AppendJob(c, j) \/ AppendPriority(c, j) => Arrive(c, j)
    BY DEF AppendJob, AppendPriority
  <2> QED
    BY <2>1, <2>2, <2>3, <2>4, <2>5, <2>6, <2>7, <2>8, <2>9, SMTT(30)
    DEF Next, ClientStep, WorkerLock, WorkerRun, OwnerStep, Jobs
<1> QED
  BY <1>1, <1>2, TypeCorrect, MutexInvariant, PTL DEF Spec

-----------------------------------------------------------------------------
\* A worker leaves worker_loop only after stop_ is set and the queue is empty,
\* so from then on no job that arrived in time is pending.
LEMMA StopInvariant == Spec => []StopInv
<1>1. Init => StopInv
  BY DEF Init, StopInv
<1>2. TypeOK /\ OnePlace /\ HeldInv /\ StopInv /\ [Next]_vars => StopInv'
  <2> SUFFICES ASSUME TypeOK, OnePlace, HeldInv, StopInv, [Next]_vars
               PROVE  StopInv'
    OBVIOUS
  <2>1. ASSUME NEW c \in Clients, NEW j \in Jobs, Arrive(c, j)
        PROVE  StopInv'
    <3>1. /\ phase' = [phase EXCEPT ![j] = "pending"]
          /\ phase[j] = "new"
          /\ early' = IF stop_ THEN early ELSE early \cup {j}
          /\ UNCHANGED <<stop_, shutdown_done_, owner, pc>>
      BY <2>1 DEF Arrive, stopVars
    <3>2. j \notin early
      BY <3>1 DEF StopInv
    <3> QED
      BY <3>1, <3>2 DEF TypeOK, StopInv
  <2>2. ASSUME NEW w \in Workers, Exit(w)
        PROVE  StopInv'
    <3>1. \A x \in Jobs : phase[x] # "pending"
      BY <2>2 DEF Exit, OnePlace, Queued
    <3> QED
      BY <2>2, <3>1 DEF TypeOK, StopInv, Exit, stopVars, queueVars
  <2>3. ASSUME NEW w \in Workers, Take(w) \/ Execute(w) \/ Finish(w)
        PROVE  StopInv'
    <3>1. /\ UNCHANGED <<early, stop_, shutdown_done_, owner>>
          /\ pc[w] # "exited"
          /\ \E p \in WorkerPC \ {"exited"} : pc' = [pc EXCEPT ![w] = p]
      BY <2>3 DEF Take, Execute, Finish, stopVars, queueVars, WorkerPC
    <3>2. \E x, f : f \notin {"new", "pending"} /\ phase' = [phase EXCEPT ![x] = f]
      <4>1. CASE Take(w)
        BY <4>1, ZenonT(30) DEF Take
      <4>2. CASE Execute(w)
        BY <4>2 DEF Execute
      <4>3. CASE Finish(w)
        BY <4>3, ZenonT(30) DEF Finish
      <4> QED
        BY <2>3, <4>1, <4>2, <4>3, SMTT(30)
    <3>3. \A x \in Jobs : phase'[x] \in {"new", "pending"} => phase'[x] = phase[x]
      BY <3>2 DEF TypeOK
    <3> QED
      BY <3>1, <3>3 DEF TypeOK, StopInv
  <2>4. ASSUME NEW w \in Workers, TestFails(w) \/ Block(w) \/ SpuriousWakeup(w)
        PROVE  StopInv'
    <3>1. /\ UNCHANGED <<early, phase, stop_, shutdown_done_, owner>>
          /\ pc[w] # "exited"
          /\ \E p \in WorkerPC \ {"exited"} : pc' = [pc EXCEPT ![w] = p]
      BY <2>4 DEF TestFails, Block, SpuriousWakeup, stopVars, queueVars, WorkerPC
    <3> QED
      BY <3>1 DEF TypeOK, StopInv
  <2>5. ASSUME NEW c \in Clients, NotifyOne(c)
        PROVE  StopInv'
    BY <2>5 DEF TypeOK, StopInv, NotifyOne, Blocked, stopVars, queueVars
  <2>6. CASE Shutdown \/ ShutdownNow
    BY <2>6 DEF StopInv, Shutdown, ShutdownNow, queueVars
  <2>7. CASE SwapQueue \/ Destroy
    <3>1. /\ UNCHANGED <<early, stop_, shutdown_done_, pc>>
          /\ stop_
          /\ phase' = [j \in Jobs |-> IF Queued(j) THEN "dropped" ELSE phase[j]]
      BY <2>7 DEF SwapQueue, Destroy, DropQueue, StopInv
    <3>2. \A j \in Jobs : phase'[j] \in {"new", "pending"} => phase'[j] = phase[j]
      BY <3>1
    <3> QED
      BY <3>1, <3>2 DEF TypeOK, StopInv
  <2>8. CASE NotifyAll
    BY <2>8 DEF TypeOK, StopInv, NotifyAll, queueVars
  <2>9. CASE Join
    BY <2>9 DEF StopInv, Join, queueVars
  <2>10. CASE UNCHANGED <<early, phase, stop_, shutdown_done_, owner, pc>>
    BY <2>10 DEF StopInv
  <2>11. (\E t \in Tasks : Cancel(t)) \/ UNCHANGED vars
            => UNCHANGED <<early, phase, stop_, shutdown_done_, owner, pc>>
    BY DEF Cancel, queueVars, stopVars, vars
  <2>12. \A c \in Clients, j \in Jobs : AppendJob(c, j) \/ AppendPriority(c, j) => Arrive(c, j)
    BY DEF AppendJob, AppendPriority
  <2> QED
    BY <2>1, <2>2, <2>3, <2>4, <2>5, <2>6, <2>7, <2>8, <2>9, <2>10, <2>11, <2>12, SMTT(30)
    DEF Next, ClientStep, WorkerLock, WorkerRun, OwnerStep, Jobs
<1> QED
  BY <1>1, <1>2, TypeCorrect, Placement, PTL DEF Spec

\* Once every worker has left, no job that arrived in time is queued or held.
LEMMA AllExited ==
    ASSUME TypeOK, OnePlace, HeldInv, StopInv, \A w \in Workers : pc[w] = "exited"
    PROVE  \A j \in early : phase[j] \in Final
<1> SUFFICES ASSUME NEW j \in early
             PROVE  phase[j] \in Final
  OBVIOUS
<1>1. j \in Jobs /\ phase[j] \in Phase
  BY DEF TypeOK
<1>2. \A w \in Workers : held[w] = NoJob
  BY DEF HeldInv
<1>3. phase[j] \notin {"taken", "running"}
  BY <1>1, <1>2 DEF OnePlace
<1>4. phase[j] \notin {"new", "pending"}
  BY DEF StopInv
<1> QED
  BY <1>1, <1>3, <1>4 DEF Phase, Final

\* When shutdown has returned, every job that arrived before stop_ was set is
\* settled: all workers have left, so none of them holds a job, and the first
\* to leave found the queue empty.
THEOREM Drained == Spec => []ShutdownDrains
<1>1. TypeOK /\ OnePlace /\ HeldInv /\ StopInv => ShutdownDrains
  BY AllExited DEF ShutdownDrains, StopInv
<1> QED
  BY <1>1, TypeCorrect, Placement, StopInvariant, PTL

-----------------------------------------------------------------------------
\* The pool implements the ledger: whatever the interleaving, each of its
\* steps is a step of the ledger or leaves the ledger alone.
THEOREM Refinement == Spec => ImplementsLedger
<1>1. Init => Ledger!Init
  BY DEF Init, Ledger!Init, LedgerState
<1>2. TypeOK /\ OnePlace /\ HeldInv /\ StopInv /\ [Next]_vars => [Ledger!Next]_(Ledger!vars)
  <2> SUFFICES ASSUME TypeOK, OnePlace, HeldInv, StopInv, [Next]_vars
               PROVE  [Ledger!Next]_(Ledger!vars)
    OBVIOUS
  <2>0. LedgerState' = [j \in Jobs |-> IF phase'[j] = "taken" THEN "pending" ELSE phase'[j]]
    BY DEF LedgerState
  <2>1. ASSUME NEW c \in Clients, NEW j \in Jobs, Arrive(c, j)
        PROVE  Ledger!Accept(j)
    <3>1. LedgerState[j] = "new"
      BY <2>1 DEF Arrive, LedgerState
    <3>2. LedgerState' = [LedgerState EXCEPT ![j] = "pending"]
      BY <2>0, <2>1, ZenonT(30) DEF TypeOK, Arrive, LedgerState
    <3> QED
      BY <2>1, <3>1, <3>2 DEF Arrive, Ledger!Accept, stopVars
  <2>2. ASSUME NEW w \in Workers, Take(w)
        PROVE  UNCHANGED Ledger!vars
    <3>1. Head(tasks_) \in Jobs /\ Queued(Head(tasks_))
      BY <2>2, PopMembers DEF Take
    <3>2. phase[Head(tasks_)] = "pending"
      BY <3>1 DEF OnePlace
    <3>3. LedgerState' = LedgerState
      BY <2>0, <2>2, <3>1, <3>2 DEF TypeOK, Take, LedgerState
    <3> QED
      BY <2>2, <3>3 DEF Take, Ledger!vars, stopVars
  <2>3. ASSUME NEW w \in Workers, Execute(w) \/ Finish(w)
        PROVE  \E j \in Jobs : Ledger!Start(j) \/ Ledger!Skip(j) \/ Ledger!Finish(j)
    <3> DEFINE j == held[w]
    <3>1. j \in Jobs
      BY <2>3 DEF TypeOK, HeldInv, Execute, Finish
    <3>2. UNCHANGED <<cancelled_, stop_, early, shutdown_done_>>
      BY <2>3 DEF Execute, Finish, queueVars, stopVars
    <3>3. ASSUME NEW f \in {"running", "ran", "skipped"},
                 phase' = [phase EXCEPT ![j] = f]
          PROVE  LedgerState' = [LedgerState EXCEPT ![j] = f]
      BY <2>0, <3>1, <3>3, ZenonT(30) DEF TypeOK, LedgerState
    <3>4. CASE Execute(w)
      <4>1. LedgerState[j] = "pending"
        BY <3>1, <3>4 DEF Execute, HeldInv, LedgerState
      <4>2. CASE j \notin cancelled_
        <5>1. LedgerState' = [LedgerState EXCEPT ![j] = "running"]
          BY <3>3, <3>4, <4>2 DEF Execute
        <5> QED
          BY <3>1, <3>2, <4>1, <4>2, <5>1, ZenonT(30) DEF Ledger!Start, Ledger!Move
      <4>3. CASE j \in cancelled_
        <5>1. LedgerState' = [LedgerState EXCEPT ![j] = "skipped"]
          BY <3>3, <3>4, <4>3 DEF Execute
        <5> QED
          BY <3>1, <3>2, <4>1, <4>3, <5>1, ZenonT(30) DEF Ledger!Skip, Ledger!Move
      <4> QED
        BY <4>2, <4>3
    <3>5. CASE Finish(w)
      <4>1. LedgerState[j] = "running"
        BY <3>1, <3>5 DEF Finish, HeldInv, LedgerState
      <4>2. LedgerState' = [LedgerState EXCEPT ![j] = "ran"]
        BY <3>3, <3>5 DEF Finish
      <4> QED
        BY <3>1, <3>2, <4>1, <4>2, ZenonT(30) DEF Ledger!Finish, Ledger!Move
    <3> QED
      BY <2>3, <3>4, <3>5, SMTT(30)
  <2>4. ASSUME NEW t \in Tasks, Cancel(t)
        PROVE  Ledger!Revoke(t)
    BY <2>0, <2>4, SMTT(30) DEF Cancel, Ledger!Revoke, LedgerState, stopVars, queueVars
  <2>5. CASE Shutdown \/ ShutdownNow
    BY <2>0, <2>5 DEF Shutdown, ShutdownNow, Ledger!Next, Ledger!BeginClose,
                      LedgerState, queueVars
  <2>6. CASE SwapQueue \/ Destroy
    <3> DEFINE S == {j \in Jobs : Queued(j)}
    <3>1. /\ phase' = [j \in Jobs |-> IF Queued(j) THEN "dropped" ELSE phase[j]]
          /\ UNCHANGED <<cancelled_, stop_, early, shutdown_done_>>
          /\ stop_
      BY <2>6 DEF SwapQueue, Destroy, DropQueue, StopInv
    <3>2. \A j \in S : LedgerState[j] = "pending"
      BY DEF OnePlace, LedgerState
    <3>3. LedgerState' = [j \in Jobs |-> IF j \in S THEN "dropped" ELSE LedgerState[j]]
      BY <2>0, <3>1 DEF LedgerState
    <3>4. Ledger!Drop(S)
      BY <3>1, <3>2, <3>3 DEF Ledger!Drop
    <3>5. S \in SUBSET Jobs
      OBVIOUS
    <3> QED
      BY <3>4, <3>5 DEF Ledger!Next
  <2>7. CASE Join
    <3>1. /\ UNCHANGED <<phase, cancelled_, stop_, early>>
          /\ stop_
      BY <2>7 DEF Join, StopInv, queueVars
    <3>2. LedgerState' = LedgerState
      BY <2>0, <3>1, SMTT(30) DEF LedgerState
    <3>3. \A j \in early : LedgerState[j] \in Ledger!Settled
      BY <2>7, AllExited DEF Join, TypeOK, LedgerState, Final, Ledger!Settled
    <3>4. shutdown_done_' = TRUE \/ shutdown_done_' = shutdown_done_
      BY <2>7, ZenonT(30) DEF Join, TypeOK
    <3> QED
      BY <3>1, <3>2, <3>3, <3>4, SMTT(30) DEF Ledger!Next, Ledger!EndClose, Ledger!vars
  <2>8. CASE UNCHANGED <<phase, cancelled_, stop_, early, shutdown_done_>>
    BY <2>0, <2>8 DEF Ledger!vars, LedgerState
  <2>9. ASSUME \/ \E c \in Clients : NotifyOne(c)
               \/ \E w \in Workers : Exit(w) \/ TestFails(w) \/ Block(w) \/ SpuriousWakeup(w)
               \/ NotifyAll
               \/ UNCHANGED vars
        PROVE  UNCHANGED <<phase, cancelled_, stop_, early, shutdown_done_>>
    BY <2>9 DEF NotifyOne, Exit, TestFails, Block, SpuriousWakeup, NotifyAll, queueVars,
           stopVars, vars
  <2>10. \/ \E c \in Clients, j \in Jobs : Arrive(c, j)
         \/ \E w \in Workers : Take(w) \/ Execute(w) \/ Finish(w)
         \/ \E t \in Tasks : Cancel(t)
         \/ Shutdown \/ ShutdownNow \/ SwapQueue \/ Destroy \/ Join
         \/ UNCHANGED <<phase, cancelled_, stop_, early, shutdown_done_>>
    BY <2>9 DEF Next, ClientStep, AppendJob, AppendPriority, WorkerLock, WorkerRun,
                OwnerStep, Jobs
  <2>11. Tasks \subseteq Jobs
    BY DEF Jobs
  <2> QED
    BY <2>1, <2>2, <2>3, <2>4, <2>5, <2>6, <2>7, <2>8, <2>10, <2>11, SMTT(30) DEF Ledger!Next
<1> QED
  BY <1>1, <1>2, TypeCorrect, Placement, StopInvariant, PTL
  DEF Spec, ImplementsLedger, Ledger!Spec

-----------------------------------------------------------------------------
(***************************************************************************)
(* TcpClient.                                                              *)
(***************************************************************************)

USE ClientAssumption

\* The type invariant in four parts, with what it needs to be inductive: a
\* caller past the test of send has a message to push, and the write thread is
\* in send with a message.
PlacesTyped ==
    /\ tpc = [t \in Threads |-> tpc[t]]
    /\ tpc["owner"] \in Trying \cup {"idle", "threads", "mark", "test", "unset", "join"}
    /\ tpc["reconnect"] \in Trying \cup {"loop", "check", "done"}
    /\ tpc["reader"] \in {"loop", "recv", "lost", "end", "done"}
    /\ tpc["writer"] \in {"loop", "take", "send", "fail", "done"}
    /\ joinable \subseteq Threads
    /\ connects \in 0..MaxConnects

SocketsTyped ==
    /\ sock_ \in 0..MaxSocks /\ rsock \in 0..MaxSocks /\ open \subseteq 1..MaxSocks
    /\ peer \in [1..MaxSocks -> {"none", "up", "gone"}]

MessagesTyped ==
    /\ write_queue_ \in Seq(Messages) /\ pushed \in 0..MaxSends
    /\ checked => pushed < MaxSends
    /\ msg \in Messages \cup {NoMessage} /\ sent \in 0..Units
    /\ wire \in Seq(Messages \X (1..Units))
    /\ tpc["writer"] = "send" => msg \in Messages /\ sent < Units

FlagsTyped == {connected_, running_, raced, retried, checked} \subseteq BOOLEAN

TypeInv == PlacesTyped /\ SocketsTyped /\ MessagesTyped /\ FlagsTyped

-----------------------------------------------------------------------------
(***************************************************************************)
(* The stream of messages.  The queue holds the last of the messages       *)
(* pushed; the one in hand is the one before them, and the wire has got as *)
(* far as sent says, whatever sock_ was at each ::send.                    *)
(***************************************************************************)

Taken == pushed - Len(write_queue_)

UnitsInOrder ==
    \A i \in 1..Len(wire) :
        \/ wire[i][2] = 1 /\ \A j \in 1..(i - 1) : wire[j][1] < wire[i][1]
        \/ wire[i][2] > 1 /\ i > 1 /\ wire[i - 1] = <<wire[i][1], wire[i][2] - 1>>

WireInv ==
    /\ Taken \in Nat
    /\ \A i \in 1..Len(write_queue_) : write_queue_[i] = Taken + i
    /\ \A i \in 1..Len(wire) : wire[i][1] <= Taken
    /\ tpc["writer"] = "send" =>
           /\ msg = Taken
           /\ sent = 0 => \A i \in 1..Len(wire) : wire[i][1] < msg
           /\ sent > 0 => Len(wire) > 0 /\ wire[Len(wire)] = <<msg, sent>>
    /\ UnitsInOrder

-----------------------------------------------------------------------------
(***************************************************************************)
(* disconnect.  Unless it began during an attempt to reconnect, there is   *)
(* no attempt until it returns, so that what it has undone stays undone.   *)
(* And as long as the reconnect thread has not tried to connect, the owner *)
(* alone deals with the descriptors, of which one is open at most.         *)
(***************************************************************************)

Stopping == {"mark", "test", "unset", "join"}

StoppedInv ==
    /\ \A t \in Threads \ {"owner"} : tpc[t] # "done" => t \in joinable
    /\ running_ => tpc["owner"] \notin Stopping
    /\ ~running_ => tpc["owner"] \in Stopping \cup {"idle"}
    /\ ~running_ /\ ~raced =>
           /\ tpc["reconnect"] \in {"loop", "check", "done"}
           /\ tpc["owner"] \in {"test", "unset", "join", "idle"} => ~connected_
           /\ tpc["owner"] \in {"join", "idle"} => sock_ = Invalid
           /\ tpc["owner"] = "idle" => joinable = {}

OwnedInv ==
    /\ tpc["reconnect"] \in Trying => retried
    /\ ~retried =>
           /\ open \subseteq {sock_}
           /\ tpc["owner"] \in {"socket", "clear", "unset", "join"} => open = {}
           /\ tpc["owner"] = "idle" /\ joinable \cap {"reader", "writer"} = {} => open = {}

-----------------------------------------------------------------------------
(***************************************************************************)
(* Types.                                                                  *)
(***************************************************************************)

\* A thread goes to another place and the other threads stay where they are.
LEMMA Going ==
    ASSUME PlacesTyped, NEW t \in Threads, NEW place, Go(t, place)
    PROVE  /\ tpc' = [u \in Threads |-> tpc'[u]]
           /\ tpc'[t] = place
           /\ \A u \in Threads \ {t} : tpc'[u] = tpc[u]
BY DEF PlacesTyped, Go

\* The owner and the reconnect thread are two of the four threads.
LEMMA FourThreads ==
    /\ "owner" \in Threads /\ "reconnect" \in Threads /\ "reader" \in Threads /\ "writer" \in Threads
    /\ \A t \in Threads : t \in {"owner", "reconnect", "reader", "writer"}
BY DEF Threads

\* try_connect stays within its places or returns, in either thread.
LEMMA TryPlaces ==
    ASSUME PlacesTyped, NEW t \in {"owner", "reconnect"}, TryConnect(t) PROVE PlacesTyped'
<1>1. UNCHANGED <<running_, joinable, connects, raced>>
  BY DEF TryConnect, Socket, ConnectSucceeds, ConnectFails, Close, Clear, Publish, calls
<1>2. PICK place : Go(t, place) /\ place \in Trying \cup {"loop", "threads", "idle", "join", "unset"}
                   /\ (place \in {"threads", "idle", "join", "unset"} => t = "owner")
                   /\ (place = "loop" => t = "reconnect")
  <2>1. \A ok \in BOOLEAN : /\ t = "owner" => Returned(t, ok) \in {"threads", "idle"}
                            /\ t = "reconnect" => Returned(t, ok) = "loop"
    BY DEF Returned
  <2>2. CASE Socket(t)
    BY <2>1, <2>2 DEF Socket, Trying
  <2>3. CASE ConnectSucceeds(t) \/ ConnectFails(t)
    BY <2>3 DEF ConnectSucceeds, ConnectFails, Trying
  <2>4. CASE Close(t)
    BY <2>4 DEF Close, Trying, PlacesTyped
  <2>5. CASE Clear(t)
    BY <2>1, <2>5 DEF Clear, Trying, PlacesTyped
  <2>6. CASE Publish(t)
    BY <2>1, <2>6 DEF Publish
  <2> QED
    BY <2>2, <2>3, <2>4, <2>5, <2>6 DEF TryConnect
<1>3. /\ tpc' = [u \in Threads |-> tpc'[u]] /\ tpc'[t] = place
      /\ \A u \in Threads \ {t} : tpc'[u] = tpc[u]
  BY <1>2, Going, FourThreads
<1>4. CASE t = "owner"
  BY <1>1, <1>2, <1>3, <1>4, FourThreads DEF PlacesTyped
<1>5. CASE t = "reconnect"
  BY <1>1, <1>2, <1>3, <1>5, FourThreads DEF PlacesTyped
<1> QED
  BY <1>4, <1>5

\* Every step keeps the threads at their places.
LEMMA PlacesKept == PlacesTyped /\ [ClientNext]_client_vars => PlacesTyped'
<1> SUFFICES ASSUME PlacesTyped, [ClientNext]_client_vars PROVE PlacesTyped'
  OBVIOUS
<1> USE FourThreads
<1>1. CASE TryConnect("owner") \/ TryConnect("reconnect")
  BY <1>1, TryPlaces
<1>2. CASE Connect
  <2>1. PICK place \in Trying \cup {"loop", "check", "done"} :
           tpc' = [tpc EXCEPT !["owner"] = "socket", !["reconnect"] = place]
    BY <1>2 DEF Connect, PlacesTyped
  <2>2. connects' \in 0..MaxConnects /\ joinable' \subseteq Threads
    BY <1>2 DEF Connect, PlacesTyped
  <2> QED
    BY <2>1, <2>2 DEF PlacesTyped, Trying
<1>3. CASE StartThreads
  BY <1>3 DEF StartThreads, PlacesTyped, Trying
<1>4. CASE Disconnect
  BY <1>4, Going DEF Disconnect, PlacesTyped, calls
<1>5. CASE Unmark
  BY <1>5, Going DEF Unmark, PlacesTyped, calls
<1>6. CASE JoinAll
  BY <1>6, Going DEF JoinAll, PlacesTyped, calls
<1>7. CASE ReconnectLoop
  BY <1>7, Going DEF ReconnectLoop, PlacesTyped, calls
<1>8. CASE ReconnectCheck
  <2>1. PICK place \in {"socket", "loop"} : Go("reconnect", place)
    BY <1>8 DEF ReconnectCheck
  <2> QED
    BY <1>8, <2>1, Going DEF ReconnectCheck, PlacesTyped, calls, Trying
<1>9. CASE ReaderStep
  <2>1. PICK place \in {"loop", "recv", "lost", "end", "done"} : Go("reader", place)
    BY <1>9 DEF ReaderStep, ReadLoop, Recv, ReadEnds
  <2> QED
    BY <1>9, <2>1, Going DEF ReaderStep, ReadLoop, Recv, ReadEnds, PlacesTyped, calls
<1>10. CASE WriterStep
  <2>1. PICK place \in {"loop", "take", "send", "fail", "done"} : Go("writer", place)
    BY <1>10 DEF WriterStep, WriteLoop, TakeMessage, Send, SendFailed
  <2> QED
    BY <1>10, <2>1, Going DEF WriterStep, WriteLoop, TakeMessage, Send, SendFailed, PlacesTyped, calls
<1>11. CASE SendTest \/ SendPush
  BY <1>11 DEF SendTest, SendPush, PlacesTyped, calls
<1>12. ASSUME NEW s \in 1..MaxSocks, PeerCloses(s) PROVE PlacesTyped'
  BY <1>12 DEF PeerCloses, PlacesTyped, calls
<1>13. CASE UNCHANGED client_vars
  BY <1>13 DEF client_vars, PlacesTyped
<1> QED
  BY <1>1, <1>2, <1>3, <1>4, <1>5, <1>6, <1>7, <1>8, <1>9, <1>10, <1>11, <1>12, <1>13
  DEF ClientNext, CallerStep, ReconnectStep

\* Every step keeps the sockets within the descriptors there are.
LEMMA SocketsKept == SocketsTyped /\ [ClientNext]_client_vars => SocketsTyped'
<1> SUFFICES ASSUME SocketsTyped, [ClientNext]_client_vars PROVE SocketsTyped'
  OBVIOUS
<1> USE DEF SocketsTyped, Invalid, sockets
<1>1. ASSUME NEW t, Socket(t) PROVE SocketsTyped'
  <2>1. UNCHANGED rsock
    BY <1>1 DEF Socket
  <2>2. CASE sock_' = Invalid /\ UNCHANGED <<open, peer>>
    BY <2>1, <2>2
  <2>3. ASSUME NEW s \in 1..MaxSocks, sock_' = s, open' = open \cup {s},
               peer' = [peer EXCEPT ![s] = "none"]
        PROVE  SocketsTyped'
    BY <2>1, <2>3
  <2> QED
    BY <1>1, <2>2, <2>3 DEF Socket, Unused
<1>2. ASSUME NEW t, ConnectSucceeds(t) PROVE SocketsTyped'
  BY <1>2 DEF ConnectSucceeds
<1>3. ASSUME NEW t, ConnectFails(t) \/ Close(t) \/ Clear(t) \/ Publish(t) PROVE SocketsTyped'
  <2>1. UNCHANGED <<rsock, peer>>
    BY <1>3 DEF ConnectFails, Close, Clear, Publish
  <2>2. sock_' \in {sock_, Invalid} /\ open' \subseteq open
    BY <1>3 DEF ConnectFails, Close, Clear, Publish
  <2> QED
    BY <2>1, <2>2
<1>4. CASE Connect \/ StartThreads \/ Disconnect \/ Unmark \/ JoinAll
  BY <1>4 DEF Connect, StartThreads, Disconnect, Unmark, JoinAll
<1>5. CASE ReconnectLoop \/ ReconnectCheck
  BY <1>5 DEF ReconnectLoop, ReconnectCheck
<1>6. CASE ReaderStep
  <2>1. UNCHANGED sockets /\ rsock' \in {rsock, sock_, Invalid}
    BY <1>6 DEF ReaderStep, ReadLoop, Recv, ReadEnds
  <2> QED
    BY <2>1
<1>7. CASE WriterStep
  BY <1>7 DEF WriterStep, WriteLoop, TakeMessage, Send, SendFailed
<1>8. CASE SendTest \/ SendPush
  BY <1>8 DEF SendTest, SendPush
<1>9. ASSUME NEW s \in 1..MaxSocks, PeerCloses(s) PROVE SocketsTyped'
  BY <1>9 DEF PeerCloses
<1>10. CASE UNCHANGED client_vars
  BY <1>10 DEF client_vars
<1> QED
  BY <1>1, <1>2, <1>3, <1>4, <1>5, <1>6, <1>7, <1>8, <1>9, <1>10
  DEF ClientNext, CallerStep, ReconnectStep, TryConnect

\* The flags stay Boolean.
LEMMA FlagsKept == FlagsTyped /\ [ClientNext]_client_vars => FlagsTyped'
<1> SUFFICES ASSUME FlagsTyped, [ClientNext]_client_vars PROVE FlagsTyped'
  OBVIOUS
<1> USE DEF FlagsTyped, calls, sendVars, sockets
<1>1. ASSUME NEW t, TryConnect(t) PROVE FlagsTyped'
  BY <1>1 DEF TryConnect, Socket, ConnectSucceeds, ConnectFails, Close, Clear, Publish
<1>2. CASE Connect \/ StartThreads \/ Disconnect \/ Unmark \/ JoinAll
  <2>1. raced' = raced \/ raced' = (tpc["reconnect"] \in Trying)
    BY <1>2 DEF Connect, StartThreads, Disconnect, Unmark, JoinAll
  <2>2. raced' \in BOOLEAN
    <3>1. raced \in BOOLEAN
      OBVIOUS
    <3> HIDE DEF FlagsTyped
    <3>2. (tpc["reconnect"] \in Trying) \in BOOLEAN
      OBVIOUS
    <3> QED
      BY <2>1, <3>1, <3>2, Zenon
  <2>3. {connected_', running_', retried', checked'} \subseteq BOOLEAN
    BY <1>2 DEF Connect, StartThreads, Disconnect, Unmark, JoinAll
  <2> QED
    BY <2>2, <2>3
<1>3. CASE ReconnectLoop \/ SendTest \/ SendPush
  BY <1>3 DEF ReconnectLoop, SendTest, SendPush
<1>4. CASE ReaderStep
  BY <1>4 DEF ReaderStep, ReadLoop, Recv, ReadEnds
<1>5. CASE WriterStep
  BY <1>5 DEF WriterStep, WriteLoop, TakeMessage, Send, SendFailed
<1>6. ASSUME NEW s \in 1..MaxSocks, PeerCloses(s) PROVE FlagsTyped'
  BY <1>6 DEF PeerCloses
<1>7. CASE UNCHANGED client_vars
  BY <1>7 DEF client_vars
<1>8. CASE ReconnectCheck
  <2>1. retried' \in BOOLEAN
    <3>1. retried' = (retried \/ tpc'["reconnect"] = "socket")
      BY <1>8 DEF ReconnectCheck
    <3> QED
      BY <3>1, Zenon
  <2>2. UNCHANGED <<connected_, running_, raced, checked>>
    BY <1>8 DEF ReconnectCheck
  <2> QED
    BY <2>1, <2>2
<1> QED
  BY <1>1, <1>2, <1>3, <1>4, <1>5, <1>6, <1>7, <1>8 DEF ClientNext, CallerStep, ReconnectStep

\* The steps that have nothing to do with messages.
Elsewhere ==
    /\ UNCHANGED <<sendVars, writing>>
    /\ tpc'["writer"] = "send" => tpc["writer"] = "send"

\* Only the write thread and the callers of send touch the messages.
LEMMA ElsewhereSteps ==
    ASSUME PlacesTyped, [ClientNext]_client_vars
    PROVE  Elsewhere \/ TakeMessage \/ Send \/ SendFailed \/ SendTest \/ SendPush
<1> USE FourThreads DEF Elsewhere
<1>1. ASSUME NEW t \in {"owner", "reconnect"}, TryConnect(t) PROVE Elsewhere
  <2>1. PICK place : Go(t, place)
    BY <1>1 DEF TryConnect, Socket, ConnectSucceeds, ConnectFails, Close, Clear, Publish
  <2>2. UNCHANGED <<sendVars, writing>>
    BY <1>1 DEF TryConnect, Socket, ConnectSucceeds, ConnectFails, Close, Clear, Publish
  <2> QED
    BY <2>1, <2>2, Going
<1>2. CASE Connect
  BY <1>2 DEF Connect, PlacesTyped
<1>3. CASE StartThreads
  BY <1>3 DEF StartThreads, PlacesTyped
<1>4. CASE Disconnect \/ Unmark \/ JoinAll
  BY <1>4, Going DEF Disconnect, Unmark, JoinAll
<1>5. CASE ReconnectLoop \/ ReconnectCheck
  <2>1. PICK place : Go("reconnect", place)
    BY <1>5 DEF ReconnectLoop, ReconnectCheck
  <2> QED
    BY <1>5, <2>1, Going DEF ReconnectLoop, ReconnectCheck
<1>6. CASE ReaderStep
  <2>1. PICK place : Go("reader", place)
    BY <1>6 DEF ReaderStep, ReadLoop, Recv, ReadEnds
  <2> QED
    BY <1>6, <2>1, Going DEF ReaderStep, ReadLoop, Recv, ReadEnds
<1>7. CASE WriteLoop
  <2>1. PICK place \in {"take", "done"} : Go("writer", place)
    BY <1>7 DEF WriteLoop
  <2> QED
    BY <1>7, <2>1, Going DEF WriteLoop
<1>8. ASSUME NEW s \in 1..MaxSocks, PeerCloses(s) PROVE Elsewhere
  BY <1>8 DEF PeerCloses
<1>9. CASE UNCHANGED client_vars
  BY <1>9 DEF client_vars, sendVars, writing
<1> QED
  BY <1>1, <1>2, <1>3, <1>4, <1>5, <1>6, <1>7, <1>8, <1>9
  DEF ClientNext, CallerStep, ReconnectStep, WriterStep

\* Every step keeps the types of the messages.
LEMMA MessagesKept == PlacesTyped /\ MessagesTyped /\ [ClientNext]_client_vars => MessagesTyped'
<1> SUFFICES ASSUME PlacesTyped, MessagesTyped, [ClientNext]_client_vars PROVE MessagesTyped'
  OBVIOUS
<1> USE FourThreads DEF MessagesTyped, sendVars, writing
<1>1. CASE Elsewhere
  BY <1>1 DEF Elsewhere
<1>2. CASE TakeMessage
  <2>1. UNCHANGED <<checked, pushed, wire>>
    BY <1>2 DEF TakeMessage
  <2>2. CASE write_queue_ = <<>>
    <3>1. tpc'["writer"] = "done" /\ UNCHANGED <<write_queue_, msg, sent>>
      BY <1>2, <2>2, Going DEF TakeMessage
    <3> QED
      BY <2>1, <3>1
  <2>3. CASE write_queue_ # <<>>
    <3>1. msg' = Head(write_queue_) /\ sent' = 0 /\ write_queue_' = Tail(write_queue_)
      BY <1>2, <2>3 DEF TakeMessage
    <3>2. Head(write_queue_) \in Messages /\ Tail(write_queue_) \in Seq(Messages)
      BY <2>3, HeadTailProperties
    <3> QED
      BY <2>1, <3>1, <3>2
  <2> QED
    BY <2>2, <2>3
<1>3. CASE Send
  <2>1. UNCHANGED sendVars /\ tpc["writer"] = "send"
    BY <1>3 DEF Send
  <2>2. CASE wire' = Append(wire, <<msg, sent + 1>>) /\ Drop /\ Go("writer", "loop")
    BY <2>1, <2>2, Going, AppendProperties DEF Drop, NoMessage
  <2>3. CASE wire' = Append(wire, <<msg, sent + 1>>) /\ sent + 1 # Units /\ sent' = sent + 1 /\ UNCHANGED msg
    BY <2>1, <2>3, AppendProperties
  <2>4. CASE UNCHANGED writing
    BY <2>1, <2>4
  <2> QED
    BY <1>3, <2>2, <2>3, <2>4 DEF Send
<1>4. CASE SendFailed
  BY <1>4, Going DEF SendFailed, Drop, NoMessage
<1>5. CASE SendTest
  BY <1>5 DEF SendTest
<1>6. CASE SendPush
  <2>1. pushed' \in Messages
    BY <1>6 DEF SendPush, Messages
  <2> QED
    BY <1>6, <2>1, AppendProperties DEF SendPush
<1> QED
  BY <1>1, <1>2, <1>3, <1>4, <1>5, <1>6, ElsewhereSteps

\* The types of all the variables of a client.
THEOREM ClientTypeCorrect == ClientSpec => []TypeInv
<1>1. ClientInit => TypeInv
  <2> SUFFICES ASSUME ClientInit PROVE TypeInv
    OBVIOUS
  <2>1. PlacesTyped
    BY DEF ClientInit, PlacesTyped, Threads, Trying
  <2>2. SocketsTyped
    BY DEF ClientInit, SocketsTyped, Invalid
  <2>3. MessagesTyped
    BY EmptySeq DEF ClientInit, MessagesTyped, Threads, NoMessage
  <2>4. FlagsTyped
    BY DEF ClientInit, FlagsTyped
  <2> QED
    BY <2>1, <2>2, <2>3, <2>4 DEF TypeInv
<1>2. TypeInv /\ [ClientNext]_client_vars => TypeInv'
  BY PlacesKept, SocketsKept, MessagesKept, FlagsKept DEF TypeInv
<1> QED
  BY <1>1, <1>2, PTL DEF ClientSpec

\* What the type invariant gives of ClientTypeOK.
LEMMA TypeInvImplies == TypeInv => ClientTypeOK
<1> SUFFICES ASSUME TypeInv PROVE ClientTypeOK
  OBVIOUS
<1>1. DOMAIN tpc = Threads
  BY DEF TypeInv, PlacesTyped
<1> QED
  BY <1>1 DEF TypeInv, ClientTypeOK, PlacesTyped, SocketsTyped, MessagesTyped, FlagsTyped

-----------------------------------------------------------------------------
(***************************************************************************)
(* The order on the wire.                                                  *)
(***************************************************************************)

\* A unit put after units in order leaves them in order, if it begins a later
\* message than all of them or goes on with the last of them.
LEMMA UnitAppended ==
    ASSUME MessagesTyped, UnitsInOrder, NEW m \in Messages, NEW u \in 1..Units,
           wire' = Append(wire, <<m, u>>),
           \/ u = 1 /\ \A i \in 1..Len(wire) : wire[i][1] < m
           \/ u > 1 /\ Len(wire) > 0 /\ wire[Len(wire)] = <<m, u - 1>>
    PROVE  UnitsInOrder'
<1>1. /\ wire' \in Seq(Messages \X (1..Units)) /\ Len(wire') = Len(wire) + 1 /\ Len(wire) \in Nat
      /\ \A i \in 1..Len(wire) : wire'[i] = wire[i]
      /\ wire'[Len(wire) + 1] = <<m, u>>
  BY AppendProperties, LenProperties DEF MessagesTyped
<1> SUFFICES ASSUME NEW i \in 1..Len(wire')
             PROVE \/ wire'[i][2] = 1 /\ \A j \in 1..(i - 1) : wire'[j][1] < wire'[i][1]
                   \/ wire'[i][2] > 1 /\ i > 1 /\ wire'[i - 1] = <<wire'[i][1], wire'[i][2] - 1>>
  BY DEF UnitsInOrder
<1>2. CASE i \in 1..Len(wire)
  <2>1. wire'[i] = wire[i] /\ \A j \in 1..(i - 1) : wire'[j] = wire[j]
    BY <1>1, <1>2
  <2>2. i > 1 => wire'[i - 1] = wire[i - 1]
    BY <1>1, <1>2
  <2> QED
    BY <1>2, <2>1, <2>2 DEF UnitsInOrder
<1>3. CASE i = Len(wire) + 1
  <2>1. wire'[i] = <<m, u>> /\ wire'[i][1] = m /\ wire'[i][2] = u /\ i - 1 = Len(wire)
    BY <1>1, <1>3
  <2>2. CASE u = 1 /\ \A k \in 1..Len(wire) : wire[k][1] < m
    BY <1>1, <2>1, <2>2
  <2>3. CASE u > 1 /\ Len(wire) > 0 /\ wire[Len(wire)] = <<m, u - 1>>
    BY <1>1, <2>1, <2>3
  <2> QED
    BY <2>2, <2>3
<1>4. i \in 1..Len(wire) \/ i = Len(wire) + 1
  BY <1>1
<1> QED
  BY <1>2, <1>3, <1>4

\* A step that has nothing to do with messages keeps the order.
LEMMA WireElsewhere == WireInv /\ Elsewhere => WireInv'
BY DEF WireInv, Elsewhere, Taken, UnitsInOrder, sendVars, writing

\* Taking a message: it is the one after those taken before.
LEMMA WireTake ==
    ASSUME PlacesTyped, MessagesTyped, WireInv, TakeMessage PROVE WireInv'
<1> USE FourThreads
<1>1. UNCHANGED <<pushed, wire>> /\ UnitsInOrder'
  BY DEF TakeMessage, WireInv, UnitsInOrder
<1>2. CASE write_queue_ = <<>>
  <2>1. UNCHANGED <<write_queue_, msg, sent>> /\ tpc'["writer"] = "done"
    BY <1>2, Going DEF TakeMessage
  <2> QED
    BY <1>1, <2>1 DEF WireInv, Taken
<1>3. CASE write_queue_ # <<>>
  <2>1. msg' = Head(write_queue_) /\ sent' = 0 /\ write_queue_' = Tail(write_queue_)
    BY <1>3 DEF TakeMessage
  <2>2. /\ Len(write_queue_) \in Nat \ {0} /\ Len(write_queue_') = Len(write_queue_) - 1
        /\ Head(write_queue_) = write_queue_[1]
        /\ \A i \in 1..Len(write_queue_') : write_queue_'[i] = write_queue_[i + 1]
    BY <1>3, <2>1, HeadTailProperties, LenProperties, EmptySeq DEF MessagesTyped
  <2>3. pushed \in Nat
    BY DEF MessagesTyped
  <2>4. Taken \in Nat /\ Taken' = Taken + 1
    BY <1>1, <2>2, <2>3 DEF WireInv, Taken
  <2>5. msg' = Taken'
    BY <2>1, <2>2, <2>4 DEF WireInv
  <2>6. \A i \in 1..Len(write_queue_') : write_queue_'[i] = Taken' + i
    <3> TAKE i \in 1..Len(write_queue_')
    <3>1. i + 1 \in 1..Len(write_queue_) /\ write_queue_'[i] = write_queue_[i + 1]
      BY <2>2
    <3>2. write_queue_[i + 1] = Taken + (i + 1)
      BY <3>1 DEF WireInv
    <3> QED
      BY <2>4, <3>1, <3>2
  <2>7. \A i \in 1..Len(wire) : wire[i][1] \in Nat /\ wire[i][1] <= Taken
    <3> TAKE i \in 1..Len(wire)
    <3>1. wire[i] \in Messages \X (1..Units)
      BY DEF MessagesTyped
    <3>2. wire[i][1] \in Nat
      BY <3>1 DEF Messages
    <3> QED
      BY <3>2 DEF WireInv
  <2>8. \A i \in 1..Len(wire') : wire'[i][1] < Taken'
    BY <1>1, <2>4, <2>7
  <2>9. \A i \in 1..Len(wire') : wire'[i][1] <= Taken'
    BY <1>1, <2>4, <2>7
  <2> QED
    BY <1>1, <2>1, <2>4, <2>5, <2>6, <2>8, <2>9 DEF WireInv
<1> QED
  BY <1>2, <1>3

\* A ::send that takes one more unit of the message in hand, or fails.
LEMMA WireSend ==
    ASSUME PlacesTyped, MessagesTyped, WireInv, Send PROVE WireInv'
<1> USE FourThreads
<1>1. /\ UNCHANGED <<pushed, write_queue_>> /\ tpc["writer"] = "send"
      /\ msg \in Messages /\ msg \in Nat /\ sent \in Nat /\ sent < Units /\ Taken' = Taken /\ msg = Taken
  <2>1. UNCHANGED <<pushed, write_queue_>> /\ tpc["writer"] = "send"
    BY DEF Send, sendVars
  <2>2. msg \in Messages /\ msg \in Nat /\ sent \in Nat /\ sent < Units
    BY <2>1 DEF MessagesTyped, Messages
  <2>3. Taken' = Taken /\ msg = Taken
    BY <2>1 DEF WireInv, Taken
  <2> QED
    BY <2>1, <2>2, <2>3
<1>2. CASE UNCHANGED writing /\ Go("writer", "fail")
  <2>1. tpc'["writer"] = "fail"
    BY <1>2, Going
  <2> QED
    BY <1>1, <1>2, <2>1 DEF WireInv, writing, UnitsInOrder
<1>3. CASE wire' = Append(wire, <<msg, sent + 1>>)
  <2>1. /\ Len(wire') = Len(wire) + 1 /\ Len(wire) \in Nat
        /\ \A i \in 1..Len(wire) : wire'[i] = wire[i]
        /\ wire'[Len(wire) + 1] = <<msg, sent + 1>>
    <3>1. <<msg, sent + 1>> \in Messages \X (1..Units)
      BY <1>1
    <3> QED
      BY <1>3, <3>1, AppendProperties, LenProperties DEF MessagesTyped
  <2>2. UnitsInOrder'
    <3>1. sent + 1 \in 1..Units
      BY <1>1
    <3>2. \/ sent + 1 = 1 /\ \A i \in 1..Len(wire) : wire[i][1] < msg
          \/ sent + 1 > 1 /\ Len(wire) > 0 /\ wire[Len(wire)] = <<msg, (sent + 1) - 1>>
      BY <1>1 DEF WireInv
    <3> QED
      BY <1>1, <1>3, <3>1, <3>2, UnitAppended DEF WireInv
  <2>3. \A i \in 1..Len(wire') : wire'[i][1] <= Taken'
    BY <1>1, <2>1 DEF WireInv
  <2>4. tpc'["writer"] = "send" => msg' = msg /\ sent' = sent + 1
    <3>1. \/ Go("writer", "loop")
          \/ sent' = sent + 1 /\ msg' = msg
          \/ Go("writer", "fail")
      BY DEF Send
    <3> QED
      BY <3>1, Going
  <2>5. tpc'["writer"] = "send" =>
           /\ msg' = Taken' /\ sent' # 0
           /\ Len(wire') > 0 /\ wire'[Len(wire')] = <<msg', sent'>>
    BY <1>1, <2>1, <2>4
  <2> QED
    BY <1>1, <2>2, <2>3, <2>5 DEF WireInv
<1> QED
  BY <1>2, <1>3 DEF Send

\* A caller of send pushes the next message.
LEMMA WirePush ==
    ASSUME MessagesTyped, WireInv, SendPush PROVE WireInv'
<1>1. UNCHANGED <<tpc, msg, sent, wire>> /\ UnitsInOrder'
  BY DEF SendPush, WireInv, UnitsInOrder, writing
<1>2. pushed' = pushed + 1 /\ write_queue_' = Append(write_queue_, pushed + 1) /\ pushed \in Nat
  BY DEF SendPush, MessagesTyped
<1>3. pushed + 1 \in Messages
  BY DEF SendPush, MessagesTyped, Messages
<1>4. /\ Len(write_queue_) \in Nat /\ Len(write_queue_') = Len(write_queue_) + 1
      /\ \A i \in 1..Len(write_queue_) : write_queue_'[i] = write_queue_[i]
      /\ write_queue_'[Len(write_queue_) + 1] = pushed + 1
  BY <1>2, <1>3, AppendProperties, LenProperties DEF MessagesTyped
<1>5. Taken' = Taken /\ Taken \in Nat /\ pushed + 1 = Taken + (Len(write_queue_) + 1)
  BY <1>2, <1>4 DEF WireInv, Taken
<1>6. \A i \in 1..Len(write_queue_') : write_queue_'[i] = Taken' + i
  <2> TAKE i \in 1..Len(write_queue_')
  <2>1. CASE i \in 1..Len(write_queue_)
    BY <1>4, <1>5, <2>1 DEF WireInv
  <2>2. CASE i = Len(write_queue_) + 1
    BY <1>4, <1>5, <2>2
  <2> QED
    BY <1>4, <2>1, <2>2
<1> QED
  BY <1>1, <1>5, <1>6 DEF WireInv

\* Over all the connections of a client, messages leave in the order in which
\* send pushed them, none twice, and of each a prefix without a gap.
THEOREM WireOrdered == ClientSpec => []WireInOrder
<1>1. ClientInit => WireInv
  BY DEF ClientInit, WireInv, Taken, UnitsInOrder, Threads
<1>2. TypeInv /\ WireInv /\ [ClientNext]_client_vars => WireInv'
  <2> SUFFICES ASSUME TypeInv, WireInv, [ClientNext]_client_vars PROVE WireInv'
    OBVIOUS
  <2> USE DEF TypeInv
  <2>1. CASE SendFailed
    <3>1. tpc'["writer"] = "loop"
      BY <2>1, Going, FourThreads DEF SendFailed
    <3> QED
      BY <2>1, <3>1 DEF SendFailed, WireInv, Taken, UnitsInOrder, sendVars
  <2>2. CASE SendTest
    BY <2>2 DEF SendTest, WireInv, Taken, UnitsInOrder, writing
  <2> QED
    BY <2>1, <2>2, ElsewhereSteps, WireElsewhere, WireTake, WireSend, WirePush
<1>3. TypeInv /\ WireInv => WireInOrder
  BY TypeInvImplies DEF WireInv, WireInOrder, UnitsInOrder
<1> QED
  BY <1>1, <1>2, <1>3, ClientTypeCorrect, PTL DEF ClientSpec

-----------------------------------------------------------------------------
(***************************************************************************)
(* What disconnect leaves behind.                                          *)
(***************************************************************************)

\* Between the start of a disconnect that did not race and its return, no
\* thread is in try_connect.
LEMMA NoAttempt ==
    ASSUME StoppedInv, ~running_, ~raced
    PROVE  tpc["owner"] \notin Trying /\ tpc["reconnect"] \notin Trying
BY DEF StoppedInv, Stopping, Trying

\* A step of one of the three threads that leaves sock_ and the owner alone,
\* and does not connect, keeps StoppedInv.
LEMMA StopOther ==
    ASSUME PlacesTyped, StoppedInv, NEW t \in Threads \ {"owner"}, NEW place, Go(t, place),
           tpc[t] # "done", UNCHANGED <<running_, joinable, raced, sock_>>, connected_' => connected_,
           t = "reconnect" /\ ~running_ => place \in {"loop", "check", "done"}
    PROVE  StoppedInv'
<1> USE FourThreads
<1>1. /\ tpc'[t] = place
      /\ \A u \in Threads \ {t} : tpc'[u] = tpc[u]
      /\ tpc'["owner"] = tpc["owner"]
      /\ UNCHANGED <<running_, joinable, raced, sock_>>
  BY Going
<1>2. \A u \in Threads \ {"owner"} : tpc'[u] # "done" => u \in joinable'
  BY <1>1 DEF StoppedInv
<1>3. ~running_' /\ ~raced' => tpc'["reconnect"] \in {"loop", "check", "done"}
  BY <1>1 DEF StoppedInv
<1> QED
  BY <1>1, <1>2, <1>3 DEF StoppedInv

\* A step of try_connect, in either thread, and the close in disconnect.
LEMMA StopTry ==
    ASSUME PlacesTyped, StoppedInv, NEW t \in {"owner", "reconnect"}, TryConnect(t)
    PROVE  StoppedInv'
<1> USE FourThreads
<1>1. UNCHANGED <<running_, joinable, raced>>
  BY DEF TryConnect, Socket, ConnectSucceeds, ConnectFails, Close, Clear, Publish, calls
<1>2. CASE t = "owner" /\ tpc[t] \in {"test", "unset"}
  <2>1. ~running_
    BY <1>2 DEF StoppedInv, Stopping
  <2>2. UNCHANGED connected_ /\ (Close(t) \/ Clear(t))
    BY <1>2 DEF TryConnect, Socket, ConnectSucceeds, ConnectFails, Close, Clear, Publish
  <2>3. PICK place \in {"unset", "join"} :
           Go(t, place) /\ (place = "join" => sock_' = Invalid)
    BY <1>2, <2>2 DEF Close, Clear
  <2>4. tpc'["owner"] = place /\ \A u \in Threads \ {"owner"} : tpc'[u] = tpc[u]
    BY <1>2, <2>3, Going
  <2> QED
    BY <1>1, <1>2, <2>1, <2>2, <2>3, <2>4 DEF StoppedInv, Stopping
<1>3. CASE ~(t = "owner" /\ tpc[t] \in {"test", "unset"})
  <2>1. tpc[t] \in Trying
    BY <1>3 DEF TryConnect, Socket, ConnectSucceeds, ConnectFails, Close, Clear, Publish, Trying,
               PlacesTyped
  <2>2. running_ \/ raced
    BY <2>1, NoAttempt
  <2>3. PICK place : Go(t, place) /\ place \notin Stopping /\ place # "done"
    <3>1. \A ok \in BOOLEAN : Returned(t, ok) \in {"loop", "threads", "idle"}
      BY DEF Returned
    <3> QED
      BY <2>1, <3>1 DEF TryConnect, Socket, ConnectSucceeds, ConnectFails, Close, Clear, Publish,
                        Stopping, Trying
  <2>4. tpc'[t] = place /\ \A u \in Threads \ {t} : tpc'[u] = tpc[u]
    BY <2>3, Going
  <2>5. CASE t = "owner"
    <3>1. running_
      BY <2>1, <2>5 DEF StoppedInv, Stopping, Trying
    <3> QED
      BY <1>1, <2>3, <2>4, <2>5, <3>1 DEF StoppedInv
  <2>6. CASE t = "reconnect"
    <3>1. tpc[t] # "done" /\ tpc'["owner"] = tpc["owner"]
      BY <2>1, <2>4, <2>6 DEF Trying
    <3>2. \A u \in Threads \ {"owner"} : tpc'[u] # "done" => u \in joinable'
      BY <1>1, <2>4, <2>6, <3>1 DEF StoppedInv
    <3> QED
      BY <1>1, <2>2, <3>1, <3>2 DEF StoppedInv
  <2> QED
    BY <2>5, <2>6
<1> QED
  BY <1>2, <1>3

\* OwnedInv: what the owner does in connect and disconnect.
LEMMA OwnedTry ==
    ASSUME PlacesTyped, OwnedInv, NEW t \in {"owner", "reconnect"}, TryConnect(t)
    PROVE  OwnedInv'
<1> USE FourThreads
<1>1. UNCHANGED <<joinable, retried>>
  BY DEF TryConnect, Socket, ConnectSucceeds, ConnectFails, Close, Clear, Publish, calls
<1>2. CASE t = "reconnect"
  <2>1. tpc[t] \in Trying
    BY <1>2 DEF TryConnect, Socket, ConnectSucceeds, ConnectFails, Close, Clear, Publish, Trying,
               PlacesTyped
  <2> QED
    BY <1>1, <1>2, <2>1 DEF OwnedInv
<1>3. CASE t = "owner"
  <2>1. PICK place : Go(t, place)
    BY DEF TryConnect, Socket, ConnectSucceeds, ConnectFails, Close, Clear, Publish
  <2>2. tpc'["owner"] = place /\ tpc'["reconnect"] = tpc["reconnect"]
    BY <1>3, <2>1, Going
  <2>3. CASE Socket(t)
    <3>1. \/ open' = {sock_'} \cup open /\ tpc'["owner"] = "connect"
          \/ UNCHANGED open /\ tpc'["owner"] = "idle"
      BY <1>3, <2>2, <2>3, Going DEF Socket, Returned
    <3>2. tpc["owner"] = "socket"
      BY <1>3, <2>3 DEF Socket
    <3> QED
      BY <1>1, <2>2, <3>1, <3>2 DEF OwnedInv
  <2>4. CASE ConnectSucceeds(t) \/ ConnectFails(t) \/ Publish(t)
    <3>1. UNCHANGED <<sock_, open>> /\ tpc'["owner"] \in {"publish", "close", "threads"}
      BY <1>3, <2>4, Going DEF ConnectSucceeds, ConnectFails, Publish, Returned, sockets
    <3> QED
      BY <1>1, <2>2, <3>1 DEF OwnedInv
  <2>5. CASE Close(t)
    <3>1. open' = open \ {sock_} /\ UNCHANGED sock_
      BY <2>5 DEF Close
    <3> QED
      BY <1>1, <2>2, <3>1 DEF OwnedInv
  <2>6. CASE Clear(t)
    <3>1. UNCHANGED open /\ tpc["owner"] \in {"clear", "unset"}
      BY <1>3, <2>6 DEF Clear
    <3> QED
      BY <1>1, <2>2, <3>1 DEF OwnedInv
  <2> QED
    BY <2>3, <2>4, <2>5, <2>6 DEF TryConnect
<1> QED
  BY <1>2, <1>3

\* Until the reconnect thread tries, at most the descriptor in sock_ is open.
LEMMA OwnedKept ==
    ASSUME PlacesTyped, OwnedInv, [ClientNext]_client_vars PROVE OwnedInv'
<1> USE FourThreads
<1>1. CASE TryConnect("owner") \/ TryConnect("reconnect")
  BY <1>1, OwnedTry
<1>2. CASE Connect
  <2>1. /\ tpc["owner"] = "idle" /\ joinable \cap {"reader", "writer"} = {}
        /\ tpc'["owner"] = "socket" /\ tpc'["reconnect"] \in {tpc["reconnect"], "loop"}
        /\ UNCHANGED <<sock_, open, retried>>
    BY <1>2 DEF Connect, PlacesTyped, sockets
  <2> QED
    BY <2>1 DEF OwnedInv, Trying
<1>3. CASE StartThreads
  <2>1. /\ "reader" \in joinable' /\ tpc'["owner"] = "idle" /\ tpc'["reconnect"] = tpc["reconnect"]
        /\ UNCHANGED <<sock_, open, retried>>
    BY <1>3 DEF StartThreads, PlacesTyped, sockets
  <2> QED
    BY <2>1 DEF OwnedInv
<1>4. CASE Disconnect \/ Unmark
  <2>1. /\ tpc'["owner"] \in {"mark", "test"} /\ tpc'["reconnect"] = tpc["reconnect"]
        /\ UNCHANGED <<sock_, open, retried>>
    BY <1>4, Going DEF Disconnect, Unmark, sockets, calls
  <2> QED
    BY <2>1 DEF OwnedInv
<1>5. CASE JoinAll
  <2>1. /\ tpc["owner"] = "join" /\ tpc'["owner"] = "idle" /\ tpc'["reconnect"] = tpc["reconnect"]
        /\ UNCHANGED <<sock_, open, retried>>
    BY <1>5, Going DEF JoinAll, sockets
  <2> QED
    BY <2>1 DEF OwnedInv
<1>6. CASE ReconnectLoop
  <2>1. /\ tpc'["reconnect"] \in {"check", "done"} /\ tpc'["owner"] = tpc["owner"]
        /\ UNCHANGED <<sock_, open, retried, joinable>>
    BY <1>6, Going DEF ReconnectLoop, sockets, calls
  <2> QED
    BY <2>1 DEF OwnedInv, Trying
<1>7. CASE ReconnectCheck
  <2>1. /\ tpc'["reconnect"] \in {"socket", "loop"} /\ tpc'["owner"] = tpc["owner"]
        /\ UNCHANGED <<sock_, open, joinable>>
    BY <1>7, Going DEF ReconnectCheck, sockets
  <2>2. retried' <=> retried \/ tpc'["reconnect"] = "socket"
    BY <1>7 DEF ReconnectCheck
  <2> QED
    BY <2>1, <2>2 DEF OwnedInv, Trying
<1>8. CASE ReaderStep \/ WriterStep
  <2>1. PICK t \in {"reader", "writer"} : \E place : Go(t, place)
    BY <1>8 DEF ReaderStep, ReadLoop, Recv, ReadEnds, WriterStep, WriteLoop, TakeMessage, Send,
                SendFailed
  <2>2. tpc'["owner"] = tpc["owner"] /\ tpc'["reconnect"] = tpc["reconnect"]
    BY <2>1, Going
  <2>3. UNCHANGED <<sock_, open, retried, joinable>>
    BY <1>8 DEF ReaderStep, ReadLoop, Recv, ReadEnds, WriterStep, WriteLoop, TakeMessage, Send,
                SendFailed, sockets, calls
  <2> QED
    BY <2>2, <2>3 DEF OwnedInv
<1>9. CASE SendTest \/ SendPush
  BY <1>9 DEF SendTest, SendPush, OwnedInv, sockets, calls
<1>10. ASSUME NEW s \in 1..MaxSocks, PeerCloses(s) PROVE OwnedInv'
  BY <1>10 DEF PeerCloses, OwnedInv, calls
<1>11. CASE UNCHANGED client_vars
  BY <1>11 DEF client_vars, OwnedInv
<1> QED
  BY <1>1, <1>2, <1>3, <1>4, <1>5, <1>6, <1>7, <1>8, <1>9, <1>10, <1>11
  DEF ClientNext, CallerStep, ReconnectStep

\* After disconnect has returned the client is not connected, has no socket and
\* runs no thread, unless it began during an attempt to reconnect; and no
\* descriptor is left open if there never was such an attempt.
THEOREM DisconnectClean == ClientSpec => []DisconnectLeavesNothing
<1>1. ClientInit => StoppedInv
  BY DEF ClientInit, StoppedInv, Stopping, Threads, Invalid
<1>2. TypeInv /\ StoppedInv /\ [ClientNext]_client_vars => StoppedInv'
  <2> SUFFICES ASSUME TypeInv, PlacesTyped, StoppedInv, [ClientNext]_client_vars PROVE StoppedInv'
    BY DEF TypeInv
  <2> USE FourThreads
  <2>1. CASE TryConnect("owner") \/ TryConnect("reconnect")
    BY <2>1, StopTry
  <2>2. CASE Connect
    <3>1. /\ tpc'["owner"] = "socket" /\ running_' = TRUE /\ "reconnect" \in joinable'
          /\ tpc'["reader"] = tpc["reader"] /\ tpc'["writer"] = tpc["writer"]
          /\ joinable \subseteq joinable'
      BY <2>2 DEF Connect, PlacesTyped
    <3> QED
      BY <3>1 DEF StoppedInv, Stopping
  <2>3. CASE StartThreads
    <3>1. /\ tpc["owner"] = "threads" /\ tpc'["owner"] = "idle" /\ tpc'["reconnect"] = tpc["reconnect"]
          /\ joinable' = joinable \cup {"reader", "writer"} /\ UNCHANGED <<running_, raced>>
      BY <2>3 DEF StartThreads, PlacesTyped
    <3>2. running_
      BY <3>1 DEF StoppedInv, Stopping
    <3> QED
      BY <3>1, <3>2 DEF StoppedInv, Stopping
  <2>4. CASE Disconnect
    <3>1. /\ ~running_' /\ joinable' = joinable /\ tpc'["owner"] = "mark"
          /\ \A u \in Threads \ {"owner"} : tpc'[u] = tpc[u]
      BY <2>4, Going DEF Disconnect
    <3>2. ~raced' => tpc["reconnect"] \in {"loop", "check", "done"}
      BY <2>4 DEF Disconnect, PlacesTyped
    <3> QED
      BY <3>1, <3>2 DEF StoppedInv, Stopping
  <2>5. CASE Unmark
    <3>1. /\ tpc["owner"] = "mark" /\ tpc'["owner"] = "test" /\ ~connected_'
          /\ UNCHANGED <<running_, joinable, raced>>
          /\ \A u \in Threads \ {"owner"} : tpc'[u] = tpc[u]
      BY <2>5, Going DEF Unmark, calls
    <3> QED
      BY <3>1 DEF StoppedInv, Stopping
  <2>6. CASE JoinAll
    <3>1. /\ tpc["owner"] = "join" /\ tpc'["owner"] = "idle" /\ joinable' = {}
          /\ \A u \in joinable : tpc[u] = "done"
          /\ UNCHANGED <<running_, connected_, sock_, raced>>
          /\ \A u \in Threads \ {"owner"} : tpc'[u] = tpc[u]
      BY <2>6, Going DEF JoinAll, sockets
    <3>2. \A u \in Threads \ {"owner"} : tpc'[u] = "done"
      BY <3>1 DEF StoppedInv
    <3>3. ~running_
      BY <3>1 DEF StoppedInv, Stopping
    <3> QED
      BY <3>1, <3>2, <3>3 DEF StoppedInv, Stopping
  <2>7. CASE ReconnectLoop
    BY <2>7, StopOther DEF ReconnectLoop, sockets, calls
  <2>8. CASE ReconnectCheck
    <3>1. PICK place \in {"socket", "loop"} :
             Go("reconnect", place) /\ (~running_ => place = "loop")
      BY <2>8 DEF ReconnectCheck
    <3> QED
      BY <2>8, <3>1, StopOther DEF ReconnectCheck, sockets
  <2>9. CASE ReaderStep
    <3>1. PICK place : Go("reader", place)
      BY <2>9 DEF ReaderStep, ReadLoop, Recv, ReadEnds
    <3>2. tpc["reader"] # "done" /\ UNCHANGED <<running_, joinable, raced, sock_>> /\ (connected_' => connected_)
      BY <2>9 DEF ReaderStep, ReadLoop, Recv, ReadEnds, sockets, calls
    <3> QED
      BY <3>1, <3>2, StopOther
  <2>10. CASE WriterStep
    <3>1. PICK place : Go("writer", place)
      BY <2>10 DEF WriterStep, WriteLoop, TakeMessage, Send, SendFailed
    <3>2. tpc["writer"] # "done" /\ UNCHANGED <<running_, joinable, raced, sock_>> /\ (connected_' => connected_)
      <4>1. CASE WriteLoop \/ TakeMessage
        BY <4>1 DEF WriteLoop, TakeMessage, sockets, calls
      <4>2. CASE Send \/ SendFailed
        BY <4>2 DEF Send, SendFailed, sockets, calls
      <4> QED
        BY <2>10, <4>1, <4>2 DEF WriterStep
    <3> QED
      BY <3>1, <3>2, StopOther
  <2>11. CASE SendTest \/ SendPush
    BY <2>11 DEF SendTest, SendPush, StoppedInv, sockets, calls
  <2>12. ASSUME NEW s \in 1..MaxSocks, PeerCloses(s) PROVE StoppedInv'
    BY <2>12 DEF PeerCloses, StoppedInv, calls
  <2>13. CASE UNCHANGED client_vars
    BY <2>13 DEF client_vars, StoppedInv
  <2> QED
    BY <2>1, <2>2, <2>3, <2>4, <2>5, <2>6, <2>7, <2>8, <2>9, <2>10, <2>11, <2>12, <2>13
    DEF ClientNext, CallerStep, ReconnectStep
<1>3. ClientInit => OwnedInv
  BY DEF ClientInit, OwnedInv, Threads, Trying
<1>4. TypeInv /\ OwnedInv /\ [ClientNext]_client_vars => OwnedInv'
  BY OwnedKept DEF TypeInv
<1>5. StoppedInv /\ OwnedInv => DisconnectLeavesNothing
  BY DEF StoppedInv, OwnedInv, DisconnectLeavesNothing
<1> QED
  BY <1>1, <1>2, <1>3, <1>4, <1>5, ClientTypeCorrect, PTL DEF ClientSpec

=============================================================================
