---------------------------- MODULE LoggerProofs -----------------------------
(***************************************************************************)
(* Proofs about Logger, for any number of callers, entries and levels and  *)
(* any capacity of the queue.                                              *)
(***************************************************************************)
EXTENDS Logger, SequenceTheorems, FiniteSetTheorems, TLAPS

USE LoggerAssumption

\* A caller on its way to enqueue has the entry it made, and the thread has a
\* batch only while it writes it; before init there is no thread.
PlaceInv ==
    /\ \A w \in Writers : writer[w].pc = "enqueue" =>
           writer[w].entry \in Entries /\ writer[w].entry.of = w
    /\ thread.pc # "write" => thread.batch = <<>> /\ thread.size = 0
    /\ owner = "new" => thread.pc = "none"

TypeInv == TypeOK /\ PlaceInv

InHand == {w \in Writers : writer[w].pc = "enqueue"}

-----------------------------------------------------------------------------
(***************************************************************************)
(* Order.  What has been made goes from its caller through the queue and   *)
(* the batch to the console; a flush takes it out of the queue.            *)
(***************************************************************************)

Increasing(s) ==
    \A i, j \in 1..Len(s) : i < j /\ s[i].of = s[j].of => s[i].nr < s[j].nr

\* The entries of S were made before those of T by the same caller.
Before(S, T) == \A x \in S, y \in T : x.of = y.of => x.nr < y.nr

Held == {writer[w].entry : w \in InHand}

OrderInv ==
    /\ Increasing(console) /\ Increasing(thread.batch) /\ Increasing(queue_)
    /\ Before(Lines(console), Lines(thread.batch))
    /\ Before(Lines(console), Lines(queue_))
    /\ Before(Lines(thread.batch), Lines(queue_))
    /\ Before(Lines(console) \cup Lines(thread.batch) \cup Lines(queue_) \cup Lines(flushed), Held)
    /\ \A x \in Lines(console) \cup Lines(thread.batch) \cup Lines(queue_) \cup Lines(flushed) \cup Held :
          x.nr <= made
    /\ (Lines(console) \cup Lines(thread.batch) \cup Lines(queue_)) \cap Lines(flushed) = {}

-----------------------------------------------------------------------------
(***************************************************************************)
(* The lines of a sequence.                                                *)
(***************************************************************************)

\* enqueue and the console append one entry.
LEMMA LinesAppend ==
    ASSUME NEW S, NEW s \in Seq(S), NEW e \in S
    PROVE  Lines(Append(s, e)) = Lines(s) \cup {e}
<1>1. Lines(Append(s, e)) \subseteq Lines(s) \cup {e}
  BY AppendProperties DEF Lines
<1>2. ASSUME NEW x \in Lines(s) \cup {e} PROVE x \in Lines(Append(s, e))
  <2>1. CASE x = e
    <3>1. Len(s) + 1 \in 1..Len(Append(s, e)) /\ Append(s, e)[Len(s) + 1] = e
      BY AppendProperties, LenProperties
    <3> QED
      BY <2>1, <3>1 DEF Lines
  <2>2. ASSUME NEW i \in 1..Len(s), x = s[i] PROVE x \in Lines(Append(s, e))
    <3>1. i \in 1..Len(Append(s, e)) /\ Append(s, e)[i] = x
      BY <2>2, AppendProperties, LenProperties
    <3> QED
      BY <3>1 DEF Lines
  <2> QED
    BY <1>2, <2>1, <2>2 DEF Lines
<1> QED
  BY <1>1, <1>2

\* A flush appends the whole queue to what was flushed.
LEMMA LinesConcat ==
    ASSUME NEW S, NEW s \in Seq(S), NEW t \in Seq(S)
    PROVE  Lines(s \o t) = Lines(s) \cup Lines(t)
<1>1. /\ Len(s) \in Nat /\ Len(t) \in Nat /\ Len(s \o t) = Len(s) + Len(t)
      /\ \A i \in 1..(Len(s) + Len(t)) :
            (s \o t)[i] = IF i <= Len(s) THEN s[i] ELSE t[i - Len(s)]
  BY ConcatProperties, LenProperties
<1>2. ASSUME NEW i \in 1..Len(s \o t) PROVE (s \o t)[i] \in Lines(s) \cup Lines(t)
  <2>1. CASE i <= Len(s)
    BY <1>1, <2>1 DEF Lines
  <2>2. CASE ~(i <= Len(s))
    <3>1. i - Len(s) \in 1..Len(t)
      BY <1>1, <2>2
    <3> QED
      BY <1>1, <2>2, <3>1 DEF Lines
  <2> QED
    BY <2>1, <2>2
<1>3. ASSUME NEW i \in 1..Len(s) PROVE s[i] \in Lines(s \o t)
  <2>1. i \in 1..Len(s \o t) /\ (s \o t)[i] = s[i]
    BY <1>1
  <2> QED
    BY <2>1 DEF Lines
<1>4. ASSUME NEW i \in 1..Len(t) PROVE t[i] \in Lines(s \o t)
  <2>1. Len(s) + i \in 1..Len(s \o t) /\ ~(Len(s) + i <= Len(s)) /\ (Len(s) + i) - Len(s) = i
    BY <1>1
  <2>2. (s \o t)[Len(s) + i] = t[i]
    BY <1>1, <2>1
  <2> QED
    BY <2>1, <2>2 DEF Lines
<1> QED
  BY <1>2, <1>3, <1>4 DEF Lines

\* The thread takes the entries of its batch from the front.
LEMMA LinesHeadTail ==
    ASSUME NEW S, NEW s \in Seq(S), s # <<>>
    PROVE  Lines(s) = {Head(s)} \cup Lines(Tail(s))
<1>1. /\ Len(s) \in Nat /\ Len(s) >= 1 /\ Len(Tail(s)) = Len(s) - 1 /\ Head(s) = s[1]
      /\ \A i \in 1..Len(Tail(s)) : Tail(s)[i] = s[i + 1]
  BY HeadTailProperties, LenProperties
<1>2. ASSUME NEW i \in 1..Len(s) PROVE s[i] \in {Head(s)} \cup Lines(Tail(s))
  <2>1. CASE i = 1
    BY <1>1, <2>1
  <2>2. CASE i # 1
    <3>1. i - 1 \in 1..Len(Tail(s)) /\ (i - 1) + 1 = i
      BY <1>1, <2>2
    <3> QED
      BY <1>1, <3>1 DEF Lines
  <2> QED
    BY <2>1, <2>2
<1>3. Head(s) \in Lines(s)
  BY <1>1 DEF Lines
<1>4. ASSUME NEW i \in 1..Len(Tail(s)) PROVE Tail(s)[i] \in Lines(s)
  <2>1. i + 1 \in 1..Len(s)
    BY <1>1
  <2> QED
    BY <1>1, <2>1 DEF Lines
<1> QED
  BY <1>2, <1>3, <1>4 DEF Lines

\* A queue that was moved out has no lines.
LEMMA LinesEmpty == Lines(<<>>) = {}
BY DEF Lines

\* Appending an entry made after all others keeps a sequence increasing.
LEMMA IncreasingAppend ==
    ASSUME NEW s \in Seq(Entries), NEW e \in Entries, Increasing(s), Before(Lines(s), {e})
    PROVE  Increasing(Append(s, e))
<1>1. /\ Len(s) \in Nat /\ Len(Append(s, e)) = Len(s) + 1 /\ Append(s, e)[Len(s) + 1] = e
      /\ \A i \in 1..Len(s) : Append(s, e)[i] = s[i]
  BY AppendProperties, LenProperties
<1>2. \A i \in 1..Len(s) : s[i] \in Lines(s)
  BY DEF Lines
<1>3. ASSUME NEW i \in 1..Len(Append(s, e)), NEW j \in 1..Len(Append(s, e)), i < j,
             Append(s, e)[i].of = Append(s, e)[j].of
      PROVE  Append(s, e)[i].nr < Append(s, e)[j].nr
  <2>1. i \in 1..Len(s) /\ Append(s, e)[i] = s[i]
    BY <1>1, <1>3
  <2>2. CASE j = Len(s) + 1
    BY <1>1, <1>2, <1>3, <2>1, <2>2 DEF Before
  <2>3. CASE j \in 1..Len(s)
    BY <1>1, <1>3, <2>1, <2>3 DEF Increasing
  <2> QED
    BY <1>1, <2>2, <2>3
<1> QED
  BY <1>3 DEF Increasing

\* What is left of an increasing sequence is increasing, and its head was made
\* before the rest.
LEMMA IncreasingTail ==
    ASSUME NEW s \in Seq(Entries), s # <<>>, Increasing(s)
    PROVE  Increasing(Tail(s)) /\ Before({Head(s)}, Lines(Tail(s)))
<1>1. /\ Len(s) \in Nat /\ Len(s) >= 1 /\ Len(Tail(s)) = Len(s) - 1 /\ Head(s) = s[1]
      /\ \A i \in 1..Len(Tail(s)) : Tail(s)[i] = s[i + 1]
  BY HeadTailProperties, LenProperties
<1>2. ASSUME NEW i \in 1..Len(Tail(s)), NEW j \in 1..Len(Tail(s)), i < j,
             Tail(s)[i].of = Tail(s)[j].of
      PROVE  Tail(s)[i].nr < Tail(s)[j].nr
  <2>1. i + 1 \in 1..Len(s) /\ j + 1 \in 1..Len(s) /\ i + 1 < j + 1
    BY <1>1, <1>2
  <2> QED
    BY <1>1, <1>2, <2>1 DEF Increasing
<1>3. ASSUME NEW j \in 1..Len(Tail(s)), Head(s).of = Tail(s)[j].of
      PROVE  Head(s).nr < Tail(s)[j].nr
  <2>1. 1 \in 1..Len(s) /\ j + 1 \in 1..Len(s) /\ 1 < j + 1
    BY <1>1, <1>3
  <2> QED
    BY <1>1, <1>3, <2>1 DEF Increasing
<1> QED
  BY <1>2, <1>3 DEF Increasing, Before, Lines

-----------------------------------------------------------------------------
\* The variables of the logger keep their types; in particular queue_ never
\* holds more than queue_max_ entries, and the thread has no batch but the one
\* it writes.
THEOREM TypeCorrect == Spec => []TypeInv
<1>1. Init => TypeInv
  <2> SUFFICES ASSUME Init PROVE TypeInv
    OBVIOUS
  <2>1. queue_ \in Seq(Entries) /\ console \in Seq(Entries) /\ flushed \in Seq(Entries)
    BY DEF Init
  <2>2. thread \in [pc : {"none", "test", "wait", "write"}, batch : Seq(Entries), size : 0..queue_max_]
    BY DEF Init
  <2>3. writer \in [Writers -> [pc : {"idle", "enqueue"}, entry : Entries \cup {<<>>}]]
    BY DEF Init
  <2>4. Len(queue_) <= queue_max_ /\ made \in 0..MaxWrites /\ dropped_ \in Nat /\ total_logged_ \in Nat
    BY DEF Init
  <2>5. running_ \in BOOLEAN /\ running_ = (owner = "up") /\ late \in BOOLEAN
    BY DEF Init
  <2>6. PlaceInv
    BY DEF Init, PlaceInv
  <2> QED
    BY <2>1, <2>2, <2>3, <2>4, <2>5, <2>6 DEF Init, TypeInv, TypeOK
<1>2. TypeInv /\ [Next]_vars => TypeInv'
  <2> SUFFICES ASSUME TypeInv, [Next]_vars PROVE TypeInv'
    OBVIOUS
  <2> USE DEF TypeInv, TypeOK, PlaceInv
  <2>1. CASE InitLogger \/ Shutdown \/ ShutdownJoined
    <3>1. running_' \in BOOLEAN /\ running_' = (owner' = "up")
      BY <2>1 DEF InitLogger, Shutdown, ShutdownJoined
    <3>2. thread' \in [pc : {"none", "test", "wait", "write"}, batch : Seq(Entries), size : 0..queue_max_]
      BY <2>1 DEF InitLogger, Shutdown, ShutdownJoined
    <3>3. PlaceInv'
      BY <2>1 DEF InitLogger, Shutdown, ShutdownJoined
    <3> QED
      BY <2>1, <3>1, <3>2, <3>3 DEF InitLogger, Shutdown, ShutdownJoined
  <2>2. CASE ShutdownFlush
    BY <2>2, ConcatProperties DEF ShutdownFlush, FlushQueue, TakeAll
  <2>3. CASE ThreadTest
    BY <2>3 DEF ThreadTest
  <2>4. CASE ThreadTake
    <3>1. CASE queue_ = <<>>
      BY <2>4, <3>1 DEF ThreadTake
    <3>2. CASE queue_ # <<>>
      <4>1. thread' = [pc |-> "write", batch |-> queue_, size |-> Len(queue_)] /\ queue_' = <<>>
        BY <2>4, <3>2 DEF ThreadTake
      <4>2. Len(queue_) \in 0..queue_max_
        BY LenProperties
      <4> QED
        BY <2>4, <4>1, <4>2 DEF ThreadTake
    <3> QED
      BY <3>1, <3>2
  <2>5. CASE ThreadWrite
    <3>1. Head(thread.batch) \in Entries /\ Tail(thread.batch) \in Seq(Entries)
      BY <2>5, HeadTailProperties DEF ThreadWrite
    <3>2. console' \in Seq(Entries)
      BY <2>5, <3>1, AppendProperties DEF ThreadWrite
    <3> QED
      BY <2>5, <3>1, <3>2 DEF ThreadWrite
  <2>6. CASE ThreadWritten
    <3>1. thread' = [pc |-> "test", batch |-> thread.batch, size |-> 0]
      BY <2>6 DEF ThreadWritten
    <3>2. total_logged_' \in Nat
      BY <2>6 DEF ThreadWritten
    <3>3. thread'.batch = <<>> /\ thread'.size = 0
      BY <2>6 DEF ThreadWritten
    <3> QED
      BY <2>6, <3>1, <3>2, <3>3 DEF ThreadWritten
  <2>7. ASSUME NEW lvl \in Levels, SetConsoleLevel(lvl) \/ SetFileLevel(lvl) PROVE TypeInv'
    BY <2>7 DEF SetConsoleLevel, SetFileLevel
  <2>8. ASSUME NEW w \in Writers, Enqueue(w) PROVE TypeInv'
    <3>1. queue_' \in Seq(Entries) /\ Len(queue_') <= queue_max_
      BY <2>8, AppendProperties, LenProperties DEF Enqueue, Admit
    <3>2. writer' \in [Writers -> [pc : {"idle", "enqueue"}, entry : Entries \cup {<<>>}]]
      BY <2>8 DEF Enqueue
    <3>3. dropped_' \in Nat /\ late' \in BOOLEAN
      BY <2>8 DEF Enqueue
    <3> QED
      BY <2>8, <3>1, <3>2, <3>3 DEF Enqueue
  <2>9. ASSUME NEW w \in Writers, Flush(w) PROVE TypeInv'
    BY <2>9, ConcatProperties DEF Flush, FlushQueue, TakeAll
  <2>10. ASSUME NEW w \in Writers, NEW lvl \in Levels, Write(w, lvl) PROVE TypeInv'
    <3>1. made' = made + 1 /\ made' \in 1..MaxWrites
      BY <2>10 DEF Write
    <3>2. [of |-> w, nr |-> made', level |-> lvl] \in Entries
      BY <3>1 DEF Entries
    <3> QED
      BY <2>10, <3>1, <3>2 DEF Write
  <2>11. CASE UNCHANGED vars
    BY <2>11 DEF vars
  <2> QED
    BY <2>1, <2>2, <2>3, <2>4, <2>5, <2>6, <2>7, <2>8, <2>9, <2>10, <2>11
    DEF Next, ShutdownStep, ThreadStep
<1> QED
  BY <1>1, <1>2, PTL DEF Spec

\* The thread has ended before the last flush of shutdown, and after it only a
\* late entry fills the queue.
DownInv ==
    /\ owner \in {"flushing", "down"} => thread.pc = "none"
    /\ owner = "down" /\ ~late => queue_ = <<>>

\* ShutdownFlushes: when shutdown has returned, nothing is left in the queue or
\* in a batch unless somebody logs after its last flush.
THEOREM ShutdownLeavesNothing == Spec => []ShutdownFlushes
<1>1. Init => DownInv
  BY DEF Init, DownInv
<1>2. TypeInv /\ DownInv /\ [Next]_vars => DownInv'
  <2> SUFFICES ASSUME TypeInv, DownInv, [Next]_vars PROVE DownInv'
    OBVIOUS
  <2> USE DEF DownInv
  <2>1. CASE InitLogger \/ Shutdown \/ ShutdownJoined
    BY <2>1 DEF InitLogger, Shutdown, ShutdownJoined
  <2>2. CASE ShutdownFlush
    BY <2>2 DEF ShutdownFlush, FlushQueue, TakeAll
  <2>3. CASE ThreadStep
    BY <2>3 DEF ThreadStep, ThreadTest, ThreadTake, ThreadWrite, ThreadWritten
  <2>4. ASSUME NEW lvl \in Levels, SetConsoleLevel(lvl) \/ SetFileLevel(lvl) PROVE DownInv'
    BY <2>4 DEF SetConsoleLevel, SetFileLevel
  <2>5. ASSUME NEW w \in Writers, Enqueue(w) PROVE DownInv'
    BY <2>5 DEF Enqueue, TypeInv, TypeOK
  <2>6. ASSUME NEW w \in Writers, Flush(w) PROVE DownInv'
    BY <2>6 DEF Flush, FlushQueue, TakeAll
  <2>7. ASSUME NEW w \in Writers, NEW lvl \in Levels, Write(w, lvl) PROVE DownInv'
    BY <2>7 DEF Write
  <2>8. CASE UNCHANGED vars
    BY <2>8 DEF vars
  <2> QED
    BY <2>1, <2>2, <2>3, <2>4, <2>5, <2>6, <2>7, <2>8 DEF Next, ShutdownStep
<1>3. TypeInv /\ DownInv => ShutdownFlushes
  BY DEF TypeInv, PlaceInv, DownInv, ShutdownFlushes
<1> QED
  BY <1>1, <1>2, <1>3, TypeCorrect, PTL DEF Spec

-----------------------------------------------------------------------------
(***************************************************************************)
(* Accounted.                                                              *)
(***************************************************************************)

\* The entries that have been admitted to the queue.
Admitted == Len(queue_) + thread.size + total_logged_ + Len(flushed)

CountInv == made = Cardinality(InHand) + dropped_ + Admitted

\* The callers with an entry in hand, when one makes an entry or hands it over.
LEMMA HandCount ==
    /\ IsFiniteSet(InHand) /\ Cardinality(InHand) \in Nat
    /\ \A w \in Writers :
          /\ w \notin InHand => Cardinality(InHand \cup {w}) = Cardinality(InHand) + 1
          /\ w \in InHand => Cardinality(InHand \ {w}) = Cardinality(InHand) - 1
<1>1. IsFiniteSet(InHand)
  BY FS_Subset DEF InHand
<1> QED
  BY <1>1, FS_CardinalityType, FS_AddElement, FS_RemoveElement

\* A step that leaves the callers and the counters alone and only moves entries
\* between the places where they are counted keeps the count.
LEMMA CountKept ==
    ASSUME CountInv, UNCHANGED <<writer, made, dropped_>>, Admitted' = Admitted
    PROVE  CountInv'
<1>1. InHand' = InHand
  BY DEF InHand
<1> QED
  BY <1>1 DEF CountInv

\* Accounted: every entry that passed the level test is counted once, whatever
\* the order in which callers, flushes, the thread and shutdown get the queue.
THEOREM EntriesAccounted == Spec => []Accounted
<1>1. Init => CountInv
  <2> SUFFICES ASSUME Init PROVE CountInv
    OBVIOUS
  <2>1. InHand = {}
    BY DEF Init, InHand
  <2> QED
    BY <2>1, FS_EmptySet DEF Init, CountInv, Admitted
<1>2. TypeInv /\ CountInv /\ [Next]_vars => CountInv'
  <2> SUFFICES ASSUME TypeInv, CountInv, [Next]_vars PROVE CountInv'
    OBVIOUS
  <2>1. /\ Len(queue_) \in Nat /\ thread.size \in Nat /\ total_logged_ \in Nat /\ Len(flushed) \in Nat
        /\ dropped_ \in Nat /\ made \in Nat
    BY LenProperties DEF TypeInv, TypeOK
  <2>2. CASE InitLogger \/ Shutdown \/ ShutdownJoined \/ ThreadTest \/ ThreadWrite
    <3>1. UNCHANGED <<writer, made, dropped_, queue_, total_logged_, flushed>> /\ thread'.size = thread.size
      BY <2>2 DEF InitLogger, Shutdown, ShutdownJoined, ThreadTest, ThreadWrite, TypeInv, TypeOK
    <3> QED
      BY <3>1, CountKept DEF Admitted
  <2>3. ASSUME UNCHANGED <<writer, made, dropped_, total_logged_, thread>>, FlushQueue PROVE CountInv'
    <3>1. Len(queue_') = 0 /\ Len(flushed') = Len(flushed) + Len(queue_)
      BY <2>3, ConcatProperties DEF FlushQueue, TakeAll, TypeInv, TypeOK
    <3>2. Admitted' = Admitted
      BY <2>1, <2>3, <3>1 DEF Admitted
    <3> QED
      BY <2>3, <3>2, CountKept
  <2>4. CASE ThreadTake
    <3>1. thread.size = 0 /\ UNCHANGED <<writer, made, dropped_, total_logged_, flushed>>
      BY <2>4 DEF ThreadTake, TypeInv, PlaceInv
    <3>2. Len(queue_') = 0 /\ thread'.size = Len(queue_)
      BY <2>4, <3>1 DEF ThreadTake, TypeInv, TypeOK
    <3>3. Admitted' = Admitted
      BY <2>1, <3>1, <3>2 DEF Admitted
    <3> QED
      BY <3>1, <3>3, CountKept
  <2>5. CASE ThreadWritten
    <3>1. /\ UNCHANGED <<writer, made, dropped_, queue_, flushed>>
          /\ thread'.size = 0 /\ total_logged_' = total_logged_ + thread.size
      BY <2>5 DEF ThreadWritten, TypeInv, TypeOK
    <3>2. Admitted' = Admitted
      BY <2>1, <3>1 DEF Admitted
    <3> QED
      BY <3>1, <3>2, CountKept
  <2>6. ASSUME NEW lvl \in Levels, SetConsoleLevel(lvl) \/ SetFileLevel(lvl) PROVE CountInv'
    BY <2>6, CountKept DEF SetConsoleLevel, SetFileLevel, Admitted
  <2>7. ASSUME NEW w \in Writers, Enqueue(w) PROVE CountInv'
    <3>1. w \in InHand /\ InHand' = InHand \ {w}
      BY <2>7 DEF Enqueue, InHand, TypeInv, TypeOK
    <3>2. Cardinality(InHand') = Cardinality(InHand) - 1 /\ Cardinality(InHand) \in Nat
      BY <3>1, HandCount
    <3>3. UNCHANGED <<made, thread, total_logged_, flushed>>
      BY <2>7 DEF Enqueue
    <3>4. \/ dropped_' = dropped_ + 1 /\ queue_' = queue_
          \/ dropped_' = dropped_ /\ Len(queue_') = Len(queue_) + 1
      <4>1. writer[w].entry \in Entries
        BY <2>7 DEF Enqueue, TypeInv, PlaceInv
      <4> QED
        BY <2>7, <4>1, AppendProperties DEF Enqueue, Admit, TypeInv, TypeOK
    <3>5. Admitted \in Nat
      BY <2>1 DEF Admitted
    <3>6. CASE dropped_' = dropped_ + 1 /\ queue_' = queue_
      <4>1. Admitted' = Admitted
        BY <3>3, <3>6 DEF Admitted
      <4> QED
        BY <2>1, <3>2, <3>3, <3>5, <3>6, <4>1 DEF CountInv
    <3>7. CASE dropped_' = dropped_ /\ Len(queue_') = Len(queue_) + 1
      <4>1. Admitted' = Admitted + 1
        BY <2>1, <3>3, <3>7 DEF Admitted
      <4> QED
        BY <2>1, <3>2, <3>3, <3>5, <3>7, <4>1 DEF CountInv
    <3> QED
      BY <3>4, <3>6, <3>7
  <2>8. ASSUME NEW w \in Writers, NEW lvl \in Levels, Write(w, lvl) PROVE CountInv'
    <3>1. w \notin InHand /\ InHand' = InHand \cup {w}
      BY <2>8 DEF Write, InHand, TypeInv, TypeOK
    <3>2. Cardinality(InHand') = Cardinality(InHand) + 1 /\ Cardinality(InHand) \in Nat
      BY <3>1, HandCount
    <3>3. dropped_' = dropped_ /\ Admitted' = Admitted /\ made' = made + 1
      BY <2>8 DEF Write, Admitted
    <3>4. Admitted \in Nat
      BY <2>1 DEF Admitted
    <3> QED
      BY <2>1, <3>2, <3>3, <3>4 DEF CountInv
  <2>9. CASE UNCHANGED vars
    BY <2>9, CountKept DEF vars, Admitted
  <2>10. CASE ShutdownFlush
    BY <2>3, <2>10 DEF ShutdownFlush
  <2>11. ASSUME NEW w \in Writers, Flush(w) PROVE CountInv'
    BY <2>3, <2>11 DEF Flush
  <2> QED
    BY <2>2, <2>4, <2>5, <2>6, <2>7, <2>8, <2>9, <2>10, <2>11 DEF Next, ShutdownStep, ThreadStep
<1>3. TypeInv /\ CountInv => Accounted
  <2> SUFFICES ASSUME TypeInv, CountInv PROVE Accounted
    OBVIOUS
  <2>1. /\ Len(queue_) \in Nat /\ thread.size \in Nat /\ total_logged_ \in Nat /\ Len(flushed) \in Nat
        /\ dropped_ \in Nat /\ Cardinality(InHand) \in Nat
    BY LenProperties, HandCount DEF TypeInv, TypeOK
  <2>2. made = Cardinality(InHand) + dropped_ + Len(queue_) + thread.size + total_logged_ + Len(flushed)
    BY <2>1 DEF CountInv, Admitted
  <2> QED
    BY <2>2 DEF TypeInv, Accounted, InHand
<1> QED
  BY <1>1, <1>2, <1>3, TypeCorrect, PTL DEF Spec

-----------------------------------------------------------------------------
(***************************************************************************)
(* ConsoleInOrder.                                                         *)
(***************************************************************************)

\* The lines of every place are entries, so that their numbers can be compared.
LEMMA LinesTyped ==
    ASSUME TypeInv
    PROVE  /\ Lines(console) \subseteq Entries /\ Lines(thread.batch) \subseteq Entries
           /\ Lines(queue_) \subseteq Entries /\ Lines(flushed) \subseteq Entries
           /\ Held \subseteq Entries
           /\ \A x \in Entries : x.nr \in Nat
           /\ made \in Nat
<1>1. ASSUME NEW s \in Seq(Entries) PROVE Lines(s) \subseteq Entries
  BY <1>1, ElementOfSeq DEF Lines
<1>2. Held \subseteq Entries
  BY DEF TypeInv, PlaceInv, Held, InHand
<1>3. \A x \in Entries : x.nr \in Nat
  BY DEF Entries
<1> QED
  BY <1>1, <1>2, <1>3 DEF TypeInv, TypeOK

\* Steps that move no entry.
LEMMA OrderKept ==
    ASSUME OrderInv, UNCHANGED <<console, queue_, flushed, writer, made>>, thread'.batch = thread.batch
    PROVE  OrderInv'
<1>1. Held' = Held
  BY DEF Held, InHand
<1>2. /\ Lines(console') = Lines(console) /\ Lines(queue_') = Lines(queue_)
      /\ Lines(flushed') = Lines(flushed) /\ Lines(thread'.batch) = Lines(thread.batch)
  OBVIOUS
<1>3. Increasing(console') /\ Increasing(thread'.batch) /\ Increasing(queue_')
  BY DEF OrderInv
<1> QED
  BY <1>1, <1>2, <1>3 DEF OrderInv

\* The entry that a caller makes has the highest number so far.
LEMMA OrderWrite ==
    ASSUME TypeInv, OrderInv, NEW w \in Writers, NEW lvl \in Levels, Write(w, lvl)
    PROVE  OrderInv'
<1> DEFINE e == [of |-> w, nr |-> made + 1, level |-> lvl]
<1>1. UNCHANGED <<console, queue_, flushed, thread>> /\ made' = made + 1
  BY DEF Write
<1>2. Held' \subseteq Held \cup {e}
  <2>1. \A v \in Writers : writer'[v] = IF v = w THEN [pc |-> "enqueue", entry |-> e] ELSE writer[v]
    BY <1>1 DEF Write, TypeInv, TypeOK
  <2> QED
    BY <2>1 DEF Held, InHand
<1>3. e.nr = made + 1
  OBVIOUS
<1> HIDE DEF e
<1>4. Before(Lines(console) \cup Lines(thread.batch) \cup Lines(queue_) \cup Lines(flushed), Held')
  BY <1>2, <1>3, LinesTyped DEF OrderInv, Before
<1>5. \A x \in Lines(console) \cup Lines(thread.batch) \cup Lines(queue_) \cup Lines(flushed) \cup Held' :
         x.nr <= made'
  BY <1>1, <1>2, <1>3, LinesTyped DEF OrderInv
<1> QED
  BY <1>1, <1>4, <1>5 DEF OrderInv

\* The entry that a caller hands over was made after all of its entries that
\* have left its hands; the entries in other hands are not of this caller.
LEMMA OrderEnqueue ==
    ASSUME TypeInv, OrderInv, NEW w \in Writers, Enqueue(w)
    PROVE  OrderInv'
<1> DEFINE e == writer[w].entry
<1>1. UNCHANGED <<console, flushed, thread, made>> /\ writer[w].pc = "enqueue"
  BY DEF Enqueue
<1>2. e \in Entries /\ e.of = w /\ e \in Held
  BY <1>1 DEF TypeInv, PlaceInv, Held, InHand
<1>3. Held' \subseteq Held /\ \A x \in Held' : x.of # w
  <2>1. \A v \in Writers : writer'[v] = IF v = w THEN [pc |-> "idle", entry |-> <<>>] ELSE writer[v]
    BY DEF Enqueue, TypeInv, TypeOK
  <2>2. InHand' = InHand \ {w} /\ \A v \in InHand' : writer'[v] = writer[v]
    BY <2>1 DEF InHand
  <2> QED
    BY <2>2 DEF Held, InHand, TypeInv, PlaceInv
<1> HIDE DEF e
<1>4. CASE queue_' = queue_
  <2>1. Before(Lines(console) \cup Lines(thread.batch) \cup Lines(queue_) \cup Lines(flushed), Held')
    BY <1>3 DEF OrderInv, Before
  <2> QED
    BY <1>1, <1>3, <1>4, <2>1 DEF OrderInv
<1>5. CASE queue_' = Append(queue_, e)
  <2>1. queue_ \in Seq(Entries)
    BY DEF TypeInv, TypeOK
  <2>2. Lines(queue_') = Lines(queue_) \cup {e}
    BY <1>2, <1>5, <2>1, LinesAppend
  <2>3. Before(Lines(console) \cup Lines(thread.batch) \cup Lines(queue_) \cup Lines(flushed), {e})
    BY <1>2 DEF OrderInv, Before
  <2>4. Increasing(queue_')
    <3>1. Before(Lines(queue_), {e})
      BY <2>3 DEF Before
    <3> QED
      BY <1>2, <1>5, <2>1, <3>1, IncreasingAppend DEF OrderInv
  <2>5. Before(Lines(console), Lines(queue_')) /\ Before(Lines(thread.batch), Lines(queue_'))
    BY <2>2, <2>3 DEF OrderInv, Before
  <2>6. Before(Lines(console) \cup Lines(thread.batch) \cup Lines(queue_') \cup Lines(flushed), Held')
    BY <1>2, <1>3, <2>2 DEF OrderInv, Before
  <2>7. \A x \in Lines(console) \cup Lines(thread.batch) \cup Lines(queue_') \cup Lines(flushed) \cup Held' :
           x.nr <= made
    BY <1>2, <1>3, <2>2 DEF OrderInv
  <2>8. e \notin Lines(flushed)
    <3>1. e \in Lines(flushed) => e.nr < e.nr
      BY <2>3 DEF Before
    <3> QED
      BY <1>2, <3>1, LinesTyped
  <2>9. (Lines(console) \cup Lines(thread.batch) \cup Lines(queue_')) \cap Lines(flushed) = {}
    BY <2>2, <2>8 DEF OrderInv
  <2> QED
    BY <1>1, <2>4, <2>5, <2>6, <2>7, <2>9 DEF OrderInv
<1> QED
  BY <1>4, <1>5 DEF Enqueue, Admit, e

\* A flush takes entries that are neither on the console nor in the batch.
LEMMA OrderFlush ==
    ASSUME TypeInv, OrderInv, UNCHANGED <<console, thread, writer, made>>, FlushQueue
    PROVE  OrderInv'
<1>1. Held' = Held
  BY DEF Held, InHand
<1>2. queue_' = <<>> /\ Lines(queue_') = {}
  BY LinesEmpty DEF FlushQueue, TakeAll
<1>3. Lines(flushed') = Lines(flushed) \cup Lines(queue_)
  BY LinesConcat DEF FlushQueue, TypeInv, TypeOK
<1>4. ASSUME NEW x \in Lines(console) \cup Lines(thread.batch) PROVE x \notin Lines(queue_)
  <2>1. x \in Lines(queue_) => x.nr < x.nr
    BY DEF OrderInv, Before
  <2> QED
    BY <2>1, LinesTyped
<1>5. Increasing(queue_')
  BY <1>2 DEF Increasing
<1>6. (Lines(console') \cup Lines(thread'.batch) \cup Lines(queue_')) \cap Lines(flushed') = {}
  BY <1>2, <1>3, <1>4 DEF OrderInv
<1>7. Before(Lines(console), Lines(queue_')) /\ Before(Lines(thread.batch), Lines(queue_'))
  BY <1>2 DEF Before
<1>8. Lines(console') \cup Lines(thread'.batch) \cup Lines(queue_') \cup Lines(flushed')
        = Lines(console) \cup Lines(thread.batch) \cup Lines(queue_) \cup Lines(flushed)
  BY <1>2, <1>3
<1> QED
  BY <1>1, <1>5, <1>6, <1>7, <1>8 DEF OrderInv

\* The thread has written its batch before it takes the queue as the next one.
LEMMA OrderTake == ASSUME TypeInv, OrderInv, ThreadTake PROVE OrderInv'
<1>1. UNCHANGED <<console, flushed, writer, made>> /\ queue_' = <<>> /\ thread.batch = <<>>
  BY DEF ThreadTake, TypeInv, PlaceInv
<1>2. Held' = Held
  BY <1>1 DEF Held, InHand
<1>3. thread'.batch = queue_
  <2>1. CASE queue_ = <<>>
    BY <1>1, <2>1 DEF ThreadTake, TypeInv, TypeOK
  <2>2. CASE queue_ # <<>>
    BY <2>2 DEF ThreadTake
  <2> QED
    BY <2>1, <2>2
<1>4. Lines(queue_') = {} /\ Lines(thread.batch) = {} /\ Lines(thread'.batch) = Lines(queue_)
  BY <1>1, <1>3, LinesEmpty
<1>5. Increasing(queue_') /\ Increasing(thread'.batch)
  BY <1>1, <1>3 DEF OrderInv, Increasing
<1>6. Before(Lines(console), Lines(queue_')) /\ Before(Lines(thread'.batch), Lines(queue_'))
  BY <1>4 DEF Before
<1>7. Before(Lines(console), Lines(thread'.batch))
  BY <1>4 DEF OrderInv
<1>8. Lines(console) \cup Lines(thread'.batch) \cup Lines(queue_') \cup Lines(flushed)
        = Lines(console) \cup Lines(thread.batch) \cup Lines(queue_) \cup Lines(flushed)
  BY <1>4
<1>9. (Lines(console) \cup Lines(thread'.batch) \cup Lines(queue_')) \cap Lines(flushed) = {}
  BY <1>4 DEF OrderInv
<1> QED
  BY <1>1, <1>2, <1>5, <1>6, <1>7, <1>8, <1>9 DEF OrderInv

\* The line that goes to the console, or nowhere, is the first of the batch.
LEMMA OrderConsole == ASSUME TypeInv, OrderInv, ThreadWrite PROVE OrderInv'
<1> DEFINE b == thread.batch
           e == Head(b)
<1>1. UNCHANGED <<queue_, flushed, writer, made>> /\ thread'.batch = Tail(b) /\ b # <<>>
  BY DEF ThreadWrite, TypeInv, TypeOK
<1>2. b \in Seq(Entries) /\ console \in Seq(Entries)
  BY DEF TypeInv, TypeOK
<1>3. e \in Entries
  BY <1>1, <1>2, HeadTailProperties
<1>4. Held' = Held
  BY <1>1 DEF Held, InHand
<1>5. Lines(b) = {e} \cup Lines(Tail(b))
  BY <1>1, <1>2, LinesHeadTail
<1>6. Increasing(Tail(b)) /\ Before({e}, Lines(Tail(b)))
  BY <1>1, <1>2, IncreasingTail DEF OrderInv
<1>7. console' = console \/ console' = Append(console, e)
  BY DEF ThreadWrite
<1>8. Lines(console) \subseteq Lines(console') /\ Lines(console') \subseteq Lines(console) \cup {e}
  <2>1. Lines(Append(console, e)) = Lines(console) \cup {e}
    BY <1>2, <1>3, LinesAppend
  <2> QED
    BY <1>7, <2>1
<1>9. Increasing(console')
  <2>1. Before(Lines(console), {e})
    BY <1>5 DEF OrderInv, Before
  <2> QED
    BY <1>2, <1>3, <1>7, <2>1, IncreasingAppend DEF OrderInv
<1> HIDE DEF b, e
<1>10. Before(Lines(console'), Lines(Tail(b)))
  <2>1. Before(Lines(console), Lines(b))
    BY DEF OrderInv, b
  <2> QED
    BY <1>5, <1>6, <1>8, <2>1 DEF Before
<1>11. Before(Lines(console'), Lines(queue_)) /\ Before(Lines(Tail(b)), Lines(queue_))
  <2>1. Before(Lines(console), Lines(queue_)) /\ Before(Lines(b), Lines(queue_))
    BY DEF OrderInv, b
  <2> QED
    BY <1>5, <1>8, <2>1 DEF Before
<1>12. Lines(console') \cup Lines(Tail(b)) \cup Lines(queue_) \cup Lines(flushed)
         \subseteq Lines(console) \cup Lines(b) \cup Lines(queue_) \cup Lines(flushed)
  BY <1>5, <1>8
<1>13. (Lines(console') \cup Lines(Tail(b)) \cup Lines(queue_)) \cap Lines(flushed) = {}
  <2>1. (Lines(console) \cup Lines(b) \cup Lines(queue_)) \cap Lines(flushed) = {}
    BY DEF OrderInv, b
  <2> QED
    BY <1>5, <1>8, <2>1
<1>14. /\ Before(Lines(console') \cup Lines(Tail(b)) \cup Lines(queue_) \cup Lines(flushed), Held)
       /\ \A x \in Lines(console') \cup Lines(Tail(b)) \cup Lines(queue_) \cup Lines(flushed) \cup Held :
             x.nr <= made
  <2>1. /\ Before(Lines(console) \cup Lines(b) \cup Lines(queue_) \cup Lines(flushed), Held)
        /\ \A x \in Lines(console) \cup Lines(b) \cup Lines(queue_) \cup Lines(flushed) \cup Held :
              x.nr <= made
    BY DEF OrderInv, b
  <2> QED
    BY <1>12, <2>1 DEF Before
<1>15. Increasing(queue_)
  BY DEF OrderInv
<1> QED
  BY <1>1, <1>4, <1>6, <1>9, <1>10, <1>11, <1>13, <1>14, <1>15 DEF OrderInv, b

\* ConsoleInOrder: although flushes and the thread compete for the queue, the
\* lines of a caller appear in the order of its calls, once, and not those
\* that a flush has taken.
THEOREM ConsoleOrdered == Spec => []ConsoleInOrder
<1>1. Init => OrderInv
  <2> SUFFICES ASSUME Init PROVE OrderInv
    OBVIOUS
  <2>1. console = <<>> /\ queue_ = <<>> /\ flushed = <<>> /\ thread.batch = <<>> /\ Held = {}
    BY DEF Init, Held, InHand
  <2>2. Increasing(<<>>)
    BY DEF Increasing
  <2> QED
    BY <2>1, <2>2, LinesEmpty DEF OrderInv, Before
<1>2. TypeInv /\ OrderInv /\ [Next]_vars => OrderInv'
  <2> SUFFICES ASSUME TypeInv, OrderInv, [Next]_vars PROVE OrderInv'
    OBVIOUS
  <2>1. CASE InitLogger \/ Shutdown \/ ShutdownJoined \/ ThreadTest \/ ThreadWritten
    <3>1. thread'.batch = thread.batch
      BY <2>1 DEF InitLogger, Shutdown, ShutdownJoined, ThreadTest, ThreadWritten, TypeInv, TypeOK
    <3> QED
      BY <2>1, <3>1, OrderKept DEF InitLogger, Shutdown, ShutdownJoined, ThreadTest, ThreadWritten
  <2>2. CASE ShutdownFlush
    BY <2>2, OrderFlush DEF ShutdownFlush
  <2>3. CASE ThreadTake
    BY <2>3, OrderTake
  <2>4. CASE ThreadWrite
    BY <2>4, OrderConsole
  <2>5. ASSUME NEW lvl \in Levels, SetConsoleLevel(lvl) \/ SetFileLevel(lvl) PROVE OrderInv'
    BY <2>5, OrderKept DEF SetConsoleLevel, SetFileLevel
  <2>6. ASSUME NEW w \in Writers, Enqueue(w) PROVE OrderInv'
    BY <2>6, OrderEnqueue
  <2>7. ASSUME NEW w \in Writers, Flush(w) PROVE OrderInv'
    BY <2>7, OrderFlush DEF Flush
  <2>8. ASSUME NEW w \in Writers, NEW lvl \in Levels, Write(w, lvl) PROVE OrderInv'
    BY <2>8, OrderWrite
  <2>9. CASE UNCHANGED vars
    BY <2>9, OrderKept DEF vars
  <2> QED
    BY <2>1, <2>2, <2>3, <2>4, <2>5, <2>6, <2>7, <2>8, <2>9 DEF Next, ShutdownStep, ThreadStep
<1>3. TypeInv /\ OrderInv => ConsoleInOrder
  <2> SUFFICES ASSUME TypeInv, OrderInv PROVE ConsoleInOrder
    OBVIOUS
  <2>1. ASSUME NEW x \in Lines(console) PROVE x \notin Lines(queue_) \cup Lines(thread.batch)
    <3>1. x \in Lines(queue_) \cup Lines(thread.batch) => x.nr < x.nr
      BY DEF OrderInv, Before
    <3> QED
      BY <3>1, LinesTyped
  <2> QED
    BY <2>1 DEF OrderInv, Increasing, ConsoleInOrder
<1> QED
  BY <1>1, <1>2, <1>3, TypeCorrect, PTL DEF Spec

=============================================================================
