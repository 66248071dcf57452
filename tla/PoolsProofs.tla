---------------------------- MODULE PoolsProofs -----------------------------
(***************************************************************************)
(* Proofs about ObjectPool, MemoryPool and ConnectionPool, for any numbers *)
(* of threads, chunks, blocks, connections and calls.                      *)
(***************************************************************************)
EXTENDS Pools, Sequences, Integers, WellFoundedInduction, TLAPS

-----------------------------------------------------------------------------
(***************************************************************************)
(* Facts about sequences.                                                  *)
(***************************************************************************)

\* The empty sequence.
LEMMA NoElements ==
    ASSUME NEW T
    PROVE  /\ <<>> \in Seq(T) /\ Len(<<>>) = 0
           /\ \A q \in Seq(T) : q # <<>> => Len(q) \in Nat \ {0}
OBVIOUS

\* A sequence is a function on the numbers up to its length.
LEMMA SeqFacts ==
    ASSUME NEW T, NEW q \in Seq(T)
    PROVE  Len(q) \in Nat /\ DOMAIN q = 1..Len(q) /\ \A i \in 1..Len(q) : q[i] \in T
OBVIOUS

\* A sequence over a larger set.
LEMMA WiderSeq == ASSUME NEW T, NEW W, T \subseteq W, NEW q \in Seq(T) PROVE q \in Seq(W)
<1>1. Len(q) \in Nat /\ q \in [1..Len(q) -> W]
  OBVIOUS
<1> QED
  BY <1>1

\* Two sequences one after the other.
LEMMA ConcatFacts ==
    ASSUME NEW T, NEW q \in Seq(T), NEW r \in Seq(T)
    PROVE  /\ q \o r \in Seq(T) /\ Len(q \o r) = Len(q) + Len(r)
           /\ \A i \in 1..(Len(q) + Len(r)) :
                 (q \o r)[i] = IF i <= Len(q) THEN q[i] ELSE r[i - Len(q)]
OBVIOUS

\* A part of a sequence.
LEMMA PartFacts ==
    ASSUME NEW T, NEW q, NEW m \in Int, NEW n \in Int, \A i \in m..n : q[i] \in T
    PROVE  /\ SubSeq(q, m, n) \in Seq(T)
           /\ Len(SubSeq(q, m, n)) = IF m <= n THEN n - m + 1 ELSE 0
           /\ \A i \in 1..(n - m + 1) : SubSeq(q, m, n)[i] = q[m + i - 1]
OBVIOUS

\* A sequence without its first element.
LEMMA TailFacts ==
    ASSUME NEW T, NEW q \in Seq(T), q # <<>>
    PROVE  /\ Len(q) \in Nat \ {0} /\ Head(q) = q[1] /\ Head(q) \in T /\ Tail(q) \in Seq(T)
           /\ Len(Tail(q)) = Len(q) - 1
           /\ \A i \in 1..Len(Tail(q)) : i + 1 \in 1..Len(q) /\ Tail(q)[i] = q[i + 1]
OBVIOUS

\* A sequence with an element put in front.
LEMMA FrontFacts ==
    ASSUME NEW T, NEW q \in Seq(T), NEW x \in T
    PROVE  /\ <<x>> \o q \in Seq(T) /\ Len(q) \in Nat /\ Len(<<x>> \o q) = Len(q) + 1
           /\ (<<x>> \o q)[1] = x
           /\ \A i \in 1..Len(q) : (<<x>> \o q)[i + 1] = q[i]
           /\ \A i \in 2..(Len(q) + 1) : i - 1 \in 1..Len(q) /\ (<<x>> \o q)[i] = q[i - 1]
<1>1. <<x>> \in Seq(T) /\ Len(<<x>>) = 1 /\ <<x>>[1] = x /\ Len(q) \in Nat
  BY SeqFacts
<1>2. /\ <<x>> \o q \in Seq(T) /\ Len(<<x>> \o q) = 1 + Len(q)
      /\ \A i \in 1..(1 + Len(q)) : (<<x>> \o q)[i] = IF i <= 1 THEN <<x>>[i] ELSE q[i - 1]
  BY <1>1, ConcatFacts
<1> QED
  BY <1>1, <1>2

\* A sequence with an element put behind it.
LEMMA BackFacts ==
    ASSUME NEW T, NEW q \in Seq(T), NEW x \in T
    PROVE  /\ Append(q, x) \in Seq(T) /\ Len(q) \in Nat /\ Len(Append(q, x)) = Len(q) + 1
           /\ Append(q, x)[Len(q) + 1] = x
           /\ \A i \in 1..Len(q) : Append(q, x)[i] = q[i]
OBVIOUS

\* The multiples of a number.
LEMMA MultipleFacts ==
    ASSUME NEW w \in Nat
    PROVE  \A n \in Nat : /\ n * w \in Nat /\ (n + 1) * w = n * w + w
                         /\ \A m \in Nat : n <= m => n * w <= m * w
<1>1. \A n \in Nat : n * w \in Nat /\ (n + 1) * w = n * w + w
  OBVIOUS
<1>2. ASSUME NEW n \in Nat, NEW m \in Nat, n <= m PROVE n * w <= m * w
  <2>1. PICK d \in Nat : m = n + d
    BY <1>2, m - n \in Nat
  <2>2. m * w = n * w + d * w /\ d * w \in Nat /\ n * w \in Nat
    BY <2>1
  <2> QED
    BY <2>2
<1> QED
  BY <1>1, <1>2

-----------------------------------------------------------------------------
(***************************************************************************)
(* The object pool.  A slot is at one place only, slots of chunks not made *)
(* yet at none, and a thread between its chunk and its second pop has what *)
(* is left of the chunk in the list.                                       *)
(***************************************************************************)

Chunked(n) == n * CHUNK_SIZE

\* Chunks one after another.
LEMMA ChunkedFacts ==
    \A n \in Nat : /\ Chunked(n) \in Nat /\ Chunked(n + 1) = Chunked(n) + CHUNK_SIZE
                  /\ \A m \in Nat : n <= m => Chunked(n) <= Chunked(m)
BY MultipleFacts, PoolsAssumption DEF Chunked

ObjTyped ==
    /\ made \in 0..MaxChunks
    /\ ofree \in Seq(1..Chunked(made))
    /\ pc \in [Threads -> {"out", "grow", "again", "make"}]
    /\ slot \in [Threads -> 0..Chunked(made)]
    /\ objects \in [O!Slots -> Nat]
    /\ popped \in [Threads -> 0..CHUNK_SIZE]

ObjPlaces ==
    /\ \A i, k \in 1..Len(ofree) : ofree[i] = ofree[k] => i = k
    /\ \A i \in 1..Len(ofree) : objects[ofree[i]] = 0
    /\ \A x \in O!Slots : objects[x] \in {0, 1} /\ (objects[x] > 0 => x <= Chunked(made))
    /\ \A t \in Threads : pc[t] = "make" <=> slot[t] # 0
    /\ \A t \in Threads : pc[t] = "make" =>
           /\ objects[slot[t]] = 0
           /\ \A i \in 1..Len(ofree) : ofree[i] # slot[t]
           /\ \A u \in Threads \ {t} : slot[u] # slot[t]

ObjDrained ==
    \A t \in Threads : pc[t] = "again" => Len(ofree) + popped[t] >= CHUNK_SIZE

ObjInv == ObjTyped /\ ObjPlaces /\ ObjDrained

\* The slots made so far are slots.
LEMMA SlotsMade ==
    ASSUME ObjTyped
    PROVE  /\ Chunked(made) \in Nat /\ 1..Chunked(made) \subseteq O!Slots
           /\ \A i \in 1..Len(ofree) : ofree[i] \in 1..Chunked(made)
           /\ Len(ofree) \in Nat
<1>1. made \in Nat /\ MaxChunks \in Nat /\ made <= MaxChunks
  BY PoolsAssumption DEF ObjTyped
<1>2. O!Slots = 1..Chunked(MaxChunks)
  BY DEF O!Slots, Chunked
<1>3. Chunked(made) \in Nat /\ Chunked(made) <= Chunked(MaxChunks) /\ Chunked(MaxChunks) \in Nat
  BY <1>1, ChunkedFacts
<1>4. (\A i \in 1..Len(ofree) : ofree[i] \in 1..Chunked(made)) /\ Len(ofree) \in Nat
  BY SeqFacts DEF ObjTyped
<1> QED
  BY <1>2, <1>3, <1>4

\* A pop, the first or the second: the head of the list goes to the thread.
LEMMA ObjPops ==
    ASSUME ObjInv, NEW t \in Threads, NEW e \in {"grow", "out"}, pc[t] \in {"out", "again"},
           O!pop_free(t, "make", e), UNCHANGED <<made, objects>>
    PROVE  ObjInv'
<1> USE DEF ObjInv
<1>1. CASE ofree = <<>>
  <2>1. pc' = [pc EXCEPT ![t] = e] /\ UNCHANGED <<ofree, slot, popped>>
    BY <1>1 DEF O!pop_free, O!Go
  <2>2. pc'[t] = e /\ \A u \in Threads : u # t => pc'[u] = pc[u]
    BY <2>1 DEF ObjTyped
  <2>3. ObjTyped'
    BY <2>1 DEF ObjTyped
  <2>4. ObjPlaces'
    BY <2>1, <2>2 DEF ObjPlaces
  <2>5. ObjDrained'
    BY <2>1, <2>2 DEF ObjDrained
  <2> QED
    BY <2>3, <2>4, <2>5
<1>2. CASE ofree # <<>>
  <2>1. /\ pc' = [pc EXCEPT ![t] = "make"] /\ slot' = [slot EXCEPT ![t] = Head(ofree)]
        /\ ofree' = Tail(ofree)
        /\ popped' = [u \in Threads |->
                         IF u # t /\ pc[u] = "again" /\ popped[u] < CHUNK_SIZE
                           THEN popped[u] + 1 ELSE popped[u]]
    BY <1>2 DEF O!pop_free, O!Go
  <2>2. /\ Len(ofree) \in Nat \ {0} /\ Head(ofree) = ofree[1] /\ Head(ofree) \in 1..Chunked(made)
        /\ ofree' \in Seq(1..Chunked(made)) /\ Len(ofree') = Len(ofree) - 1
        /\ \A i \in 1..Len(ofree') : i + 1 \in 1..Len(ofree) /\ ofree'[i] = ofree[i + 1]
    BY <1>2, <2>1, TailFacts DEF ObjTyped
  <2>3. /\ pc'[t] = "make" /\ slot'[t] = ofree[1] /\ ofree[1] # 0
        /\ \A u \in Threads : u # t => pc'[u] = pc[u] /\ slot'[u] = slot[u]
    BY <2>1, <2>2, SlotsMade DEF ObjTyped
  <2>4. ObjTyped'
    <3>1. popped' \in [Threads -> 0..CHUNK_SIZE]
      BY <2>1, PoolsAssumption DEF ObjTyped
    <3>2. slot' \in [Threads -> 0..Chunked(made)] /\ pc' \in [Threads -> {"out", "grow", "again", "make"}]
      BY <2>1, <2>2, SlotsMade DEF ObjTyped
    <3> QED
      BY <2>2, <3>1, <3>2 DEF ObjTyped
  <2>5. ObjPlaces'
    <3>0. \A i, k \in 1..Len(ofree) : ofree[i] = ofree[k] => i = k
      BY DEF ObjPlaces
    <3>1. \A i, k \in 1..Len(ofree') : ofree'[i] = ofree'[k] => i = k
      <4> TAKE i, k \in 1..Len(ofree')
      <4>1. i + 1 \in 1..Len(ofree) /\ ofree'[i] = ofree[i + 1]
            /\ k + 1 \in 1..Len(ofree) /\ ofree'[k] = ofree[k + 1]
        BY <2>2
      <4>2. i + 1 = k + 1 => i = k
        OBVIOUS
      <4> QED
        BY <3>0, <4>1, <4>2
    <3>2. \A i \in 1..Len(ofree') : objects[ofree'[i]] = 0 /\ ofree'[i] # ofree[1]
      BY <2>2 DEF ObjPlaces
    <3>3. \A u \in Threads : pc'[u] = "make" <=> slot'[u] # 0
      BY <2>3 DEF ObjPlaces
    <3>4. \A u \in Threads : u # t => slot[u] # ofree[1]
      BY <2>2, <2>3 DEF ObjPlaces
    <3>5. \A u \in Threads : pc'[u] = "make" =>
             /\ objects[slot'[u]] = 0
             /\ \A i \in 1..Len(ofree') : ofree'[i] # slot'[u]
             /\ \A v \in Threads \ {u} : slot'[v] # slot'[u]
      <4> SUFFICES ASSUME NEW u \in Threads, pc'[u] = "make"
                   PROVE  /\ objects[slot'[u]] = 0
                          /\ \A i \in 1..Len(ofree') : ofree'[i] # slot'[u]
                          /\ \A v \in Threads \ {u} : slot'[v] # slot'[u]
        OBVIOUS
      <4>1. CASE u = t
        BY <2>2, <2>3, <3>2, <3>4, <4>1 DEF ObjPlaces
      <4>2. CASE u # t
        BY <2>2, <2>3, <3>4, <4>2 DEF ObjPlaces
      <4> QED
        BY <4>1, <4>2
    <3> QED
      BY <3>1, <3>2, <3>3, <3>5 DEF ObjPlaces
  <2>6. ObjDrained'
    <3> SUFFICES ASSUME NEW u \in Threads, pc'[u] = "again"
                 PROVE  Len(ofree') + popped'[u] >= CHUNK_SIZE
      BY DEF ObjDrained
    <3>1. u # t /\ pc[u] = "again" /\ popped[u] \in Nat /\ CHUNK_SIZE \in Nat
      BY <2>3, PoolsAssumption DEF ObjTyped
    <3>2. Len(ofree) + popped[u] >= CHUNK_SIZE
      BY <3>1 DEF ObjDrained
    <3>3. popped'[u] = IF popped[u] < CHUNK_SIZE THEN popped[u] + 1 ELSE popped[u]
      BY <2>1, <3>1
    <3> QED
      BY <2>2, <3>1, <3>2, <3>3
  <2> QED
    BY <2>4, <2>5, <2>6
<1> QED
  BY <1>1, <1>2

\* A chunk goes in front of the list: its slots were nowhere.
LEMMA ObjGrows ==
    ASSUME ObjInv, NEW t \in Threads, O!Grow(t) PROVE ObjInv'
<1> USE DEF ObjInv
<1> DEFINE chunk == [i \in 1..CHUNK_SIZE |-> Chunked(made) + i]
<1>1. /\ pc[t] = "grow" /\ made < MaxChunks /\ ofree' = chunk \o ofree /\ made' = made + 1
      /\ popped' = [popped EXCEPT ![t] = 0] /\ pc' = [pc EXCEPT ![t] = "again"]
      /\ UNCHANGED <<slot, objects>>
  BY DEF O!Grow, O!Go, Chunked
<1>2. /\ Chunked(made) \in Nat /\ CHUNK_SIZE \in Nat
      /\ Chunked(made') = Chunked(made) + CHUNK_SIZE
      /\ made' \in 0..MaxChunks /\ 1..Chunked(made') \subseteq O!Slots
  <2>1. made \in Nat /\ MaxChunks \in Nat /\ CHUNK_SIZE \in Nat /\ made + 1 <= MaxChunks
    BY <1>1, PoolsAssumption DEF ObjTyped
  <2>2. Chunked(made + 1) <= Chunked(MaxChunks) /\ Chunked(MaxChunks) \in Nat
    BY <2>1, ChunkedFacts
  <2>3. O!Slots = 1..Chunked(MaxChunks)
    BY DEF O!Slots, Chunked
  <2>4. Chunked(made) \in Nat /\ Chunked(made + 1) = Chunked(made) + CHUNK_SIZE
    BY <2>1, ChunkedFacts
  <2>5. 1..Chunked(made + 1) \subseteq O!Slots
    BY <2>1, <2>2, <2>3, <2>4
  <2> QED
    BY <1>1, <2>1, <2>4, <2>5
<1>3. chunk \in Seq(1..Chunked(made')) /\ Len(chunk) = CHUNK_SIZE
      /\ \A i \in 1..CHUNK_SIZE : chunk[i] = Chunked(made) + i
  <2>1. \A i \in 1..CHUNK_SIZE : Chunked(made) + i \in 1..Chunked(made')
    BY <1>2
  <2>2. chunk \in Seq(1..Chunked(made'))
    BY <1>2, <2>1
  <2> QED
    BY <1>2, <2>2
<1> HIDE DEF chunk
<1>4. ofree \in Seq(1..Chunked(made')) /\ Len(ofree) \in Nat
      /\ \A i \in 1..Len(ofree) : ofree[i] \in 1..Chunked(made)
  <2>1. 1..Chunked(made) \subseteq 1..Chunked(made')
    BY <1>2
  <2> QED
    <3>1. ofree \in Seq(1..Chunked(made)) /\ Len(ofree) \in Nat
          /\ \A i \in 1..Len(ofree) : ofree[i] \in 1..Chunked(made)
      BY SlotsMade DEF ObjTyped
    <3> QED
      BY <2>1, <3>1, WiderSeq
<1>5. /\ ofree' \in Seq(1..Chunked(made')) /\ Len(ofree') = CHUNK_SIZE + Len(ofree)
      /\ \A i \in 1..(CHUNK_SIZE + Len(ofree)) :
            ofree'[i] = IF i <= CHUNK_SIZE THEN chunk[i] ELSE ofree[i - CHUNK_SIZE]
  BY <1>1, <1>3, <1>4, ConcatFacts
<1>6. \A i \in 1..Len(ofree') :
         \/ i <= CHUNK_SIZE /\ ofree'[i] = Chunked(made) + i
         \/ i > CHUNK_SIZE /\ i - CHUNK_SIZE \in 1..Len(ofree) /\ ofree'[i] = ofree[i - CHUNK_SIZE]
  BY <1>2, <1>3, <1>4, <1>5
<1>7. pc'[t] = "again" /\ popped'[t] = 0
      /\ \A u \in Threads : u # t => pc'[u] = pc[u] /\ popped'[u] = popped[u]
  BY <1>1 DEF ObjTyped
<1>8. ObjTyped'
  <2>1. slot' \in [Threads -> 0..Chunked(made')]
    BY <1>1, <1>2 DEF ObjTyped
  <2>2. popped' \in [Threads -> 0..CHUNK_SIZE] /\ pc' \in [Threads -> {"out", "grow", "again", "make"}]
    BY <1>1, <1>2 DEF ObjTyped
  <2> QED
    BY <1>1, <1>2, <1>5, <2>1, <2>2 DEF ObjTyped
<1>9. ObjPlaces'
  <2>1. \A i, k \in 1..Len(ofree') : ofree'[i] = ofree'[k] => i = k
    <3> SUFFICES ASSUME NEW i \in 1..Len(ofree'), NEW k \in 1..Len(ofree'), ofree'[i] = ofree'[k]
                 PROVE  i = k
      OBVIOUS
    <3> DEFINE New(j) == j <= CHUNK_SIZE /\ ofree'[j] = Chunked(made) + j
               Old(j) == /\ j - CHUNK_SIZE \in 1..Len(ofree)
                         /\ ofree'[j] = ofree[j - CHUNK_SIZE] /\ ofree'[j] <= Chunked(made)
    <3>0. i \in Nat \ {0} /\ k \in Nat \ {0} /\ (New(i) \/ Old(i)) /\ (New(k) \/ Old(k))
      <4>1. i \in Nat \ {0} /\ k \in Nat \ {0}
        BY <1>2, <1>4, <1>5
      <4>2. \A j \in 1..Len(ofree') : New(j) \/ Old(j)
        <5> TAKE j \in 1..Len(ofree')
        <5>1. CASE j <= CHUNK_SIZE /\ ofree'[j] = Chunked(made) + j
          BY <5>1
        <5>2. CASE j - CHUNK_SIZE \in 1..Len(ofree) /\ ofree'[j] = ofree[j - CHUNK_SIZE]
          <6>1. ofree[j - CHUNK_SIZE] \in 1..Chunked(made)
            BY <1>4, <5>2
          <6> QED
            BY <5>2, <6>1
        <5> QED
          BY <1>6, <5>1, <5>2
      <4> QED
        BY <4>1, <4>2
    <3>1. CASE New(i)
      <4>1. ~Old(k)
        BY <1>2, <3>0, <3>1
      <4> QED
        BY <1>2, <3>0, <3>1, <4>1
    <3>2. CASE Old(i)
      <4>1. Old(k)
        BY <1>2, <3>0, <3>2
      <4>2. i - CHUNK_SIZE = k - CHUNK_SIZE
        BY <3>2, <4>1 DEF ObjPlaces
      <4> QED
        BY <1>2, <3>0, <4>2
    <3> QED
      BY <3>0, <3>1, <3>2
  <2>2. \A x \in O!Slots : x > Chunked(made) => objects[x] = 0
    <3> SUFFICES ASSUME NEW x \in O!Slots, x > Chunked(made) PROVE objects[x] = 0
      OBVIOUS
    <3>1. x \in Int /\ ~(x <= Chunked(made))
      BY <1>2 DEF O!Slots
    <3> QED
      BY <3>1 DEF ObjPlaces
  <2>3. \A i \in 1..CHUNK_SIZE : Chunked(made) + i \in O!Slots /\ Chunked(made) + i > Chunked(made)
    BY <1>2
  <2>4. \A i \in 1..Len(ofree') : objects[ofree'[i]] = 0
    <3> TAKE i \in 1..Len(ofree')
    <3>1. CASE i <= CHUNK_SIZE
      <4>1. i \in 1..CHUNK_SIZE /\ ofree'[i] = Chunked(made) + i
        BY <1>2, <1>4, <1>5, <1>6, <3>1
      <4> QED
        BY <2>2, <2>3, <4>1
    <3>2. CASE ~(i <= CHUNK_SIZE)
      <4>1. i - CHUNK_SIZE \in 1..Len(ofree) /\ ofree'[i] = ofree[i - CHUNK_SIZE]
        BY <1>6, <3>2
      <4> QED
        BY <4>1 DEF ObjPlaces
    <3> QED
      BY <3>1, <3>2
  <2>5. \A x \in O!Slots : objects[x] \in {0, 1} /\ (objects[x] > 0 => x <= Chunked(made'))
    <3> SUFFICES ASSUME NEW x \in O!Slots
                 PROVE  objects[x] \in {0, 1} /\ (objects[x] > 0 => x <= Chunked(made'))
      OBVIOUS
    <3>1. x \in Int
      BY DEF O!Slots
    <3>2. objects[x] \in {0, 1} /\ (objects[x] > 0 => x <= Chunked(made))
      BY DEF ObjPlaces
    <3> QED
      BY <1>2, <3>1, <3>2
  <2>6. \A u \in Threads : slot[u] \in 0..Chunked(made)
    BY DEF ObjTyped
  <2>7. \A u \in Threads : pc'[u] = "make" => \A i \in 1..Len(ofree') : ofree'[i] # slot[u]
    <3> SUFFICES ASSUME NEW u \in Threads, pc'[u] = "make", NEW i \in 1..Len(ofree')
                 PROVE  ofree'[i] # slot[u]
      OBVIOUS
    <3>1. pc[u] = "make"
      BY <1>7
    <3> QED
      BY <1>2, <1>6, <2>6, <3>1 DEF ObjPlaces
  <2> QED
    BY <1>1, <1>7, <2>1, <2>4, <2>5, <2>7 DEF ObjPlaces
<1>10. ObjDrained'
  <2> SUFFICES ASSUME NEW u \in Threads PROVE Len(ofree') + popped'[u] >= CHUNK_SIZE
    BY DEF ObjDrained
  <2>1. popped'[u] \in Nat
    BY <1>8 DEF ObjTyped
  <2> QED
    BY <1>2, <1>4, <1>5, <2>1
<1> QED
  BY <1>8, <1>9, <1>10

\* The caller gets its object.
LEMMA ObjMakes ==
    ASSUME ObjInv, NEW t \in Threads, O!Make(t)
    PROVE  /\ ObjInv' /\ slot[t] \in O!Slots /\ objects[slot[t]] = 0
           /\ objects' = [objects EXCEPT ![slot[t]] = 1]
<1> USE DEF ObjInv
<1>1. /\ pc[t] = "make" /\ objects' = [objects EXCEPT ![slot[t]] = objects[slot[t]] + 1]
      /\ slot' = [slot EXCEPT ![t] = 0] /\ pc' = [pc EXCEPT ![t] = "out"]
      /\ UNCHANGED <<ofree, made, popped>>
  BY DEF O!Make, O!Go
<1>2. slot[t] \in 1..Chunked(made) /\ slot[t] \in O!Slots /\ objects[slot[t]] = 0
  BY <1>1, SlotsMade DEF ObjTyped, ObjPlaces
<1>3. objects' = [objects EXCEPT ![slot[t]] = 1]
  BY <1>1, <1>2
<1>4. /\ objects'[slot[t]] = 1 /\ \A x \in O!Slots : x # slot[t] => objects'[x] = objects[x]
      /\ slot'[t] = 0 /\ pc'[t] = "out"
      /\ \A u \in Threads : u # t => slot'[u] = slot[u] /\ pc'[u] = pc[u]
  BY <1>1, <1>2, <1>3 DEF ObjTyped
<1>5. ObjTyped'
  <2>1. objects' \in [O!Slots -> Nat]
    BY <1>3 DEF ObjTyped
  <2>2. slot' \in [Threads -> 0..Chunked(made)] /\ pc' \in [Threads -> {"out", "grow", "again", "make"}]
    BY <1>1, SlotsMade DEF ObjTyped
  <2> QED
    BY <1>1, <2>1, <2>2 DEF ObjTyped
<1>6. ObjPlaces'
  <2>1. \A i \in 1..Len(ofree) : ofree[i] \in O!Slots /\ ofree[i] # slot[t]
    BY <1>1, SlotsMade DEF ObjPlaces
  <2>2. \A u \in Threads : u # t /\ pc[u] = "make" => slot[u] \in O!Slots /\ slot[u] # slot[t]
    BY <1>1, SlotsMade DEF ObjTyped, ObjPlaces
  <2>3. \A x \in O!Slots : objects'[x] \in {0, 1} /\ (objects'[x] > 0 => x <= Chunked(made))
    BY <1>2, <1>4, SlotsMade DEF ObjPlaces
  <2>4. \A i \in 1..Len(ofree) : objects'[ofree[i]] = 0
    BY <1>4, <2>1 DEF ObjPlaces
  <2>5. \A u \in Threads : pc'[u] = "make" <=> slot'[u] # 0
    BY <1>4 DEF ObjPlaces
  <2>6. \A u \in Threads : pc'[u] = "make" =>
           /\ objects'[slot'[u]] = 0
           /\ \A i \in 1..Len(ofree) : ofree[i] # slot'[u]
           /\ \A v \in Threads \ {u} : slot'[v] # slot'[u]
    <3> SUFFICES ASSUME NEW u \in Threads, pc'[u] = "make"
                 PROVE  /\ objects'[slot'[u]] = 0
                        /\ \A i \in 1..Len(ofree) : ofree[i] # slot'[u]
                        /\ \A v \in Threads \ {u} : slot'[v] # slot'[u]
      OBVIOUS
    <3>1. u # t /\ pc[u] = "make" /\ slot'[u] = slot[u] /\ slot[u] # 0
      BY <1>4 DEF ObjPlaces
    <3>2. \A v \in Threads \ {u} : slot'[v] # slot'[u]
      BY <1>4, <3>1 DEF ObjPlaces
    <3>3. objects'[slot'[u]] = 0
      BY <1>4, <2>2, <3>1 DEF ObjPlaces
    <3> QED
      BY <3>1, <3>2, <3>3 DEF ObjPlaces
  <2> QED
    BY <1>1, <2>3, <2>4, <2>5, <2>6 DEF ObjPlaces
<1>7. ObjDrained'
  BY <1>1, <1>4 DEF ObjDrained
<1> QED
  BY <1>2, <1>3, <1>5, <1>6, <1>7

\* A slot that is nowhere in the list goes in front of it.
LEMMA ObjPushes ==
    ASSUME ObjInv, NEW x \in 1..Chunked(made), ofree' = <<x>> \o ofree, made' = made,
           \A i \in 1..Len(ofree) : ofree[i] # x
    PROVE  /\ ofree' \in Seq(1..Chunked(made')) /\ Len(ofree') = Len(ofree) + 1 /\ Len(ofree) \in Nat
           /\ \A i, k \in 1..Len(ofree') : ofree'[i] = ofree'[k] => i = k
           /\ \A i \in 1..Len(ofree') :
                 ofree'[i] = x \/ \E k \in 1..Len(ofree) : ofree'[i] = ofree[k]
<1>1. /\ ofree' \in Seq(1..Chunked(made)) /\ Len(ofree) \in Nat /\ Len(ofree') = Len(ofree) + 1
      /\ ofree'[1] = x
      /\ \A i \in 2..(Len(ofree) + 1) : i - 1 \in 1..Len(ofree) /\ ofree'[i] = ofree[i - 1]
  BY FrontFacts DEF ObjInv, ObjTyped
<1>2. \A i \in 1..Len(ofree') :
         \/ i = 1 /\ ofree'[i] = x
         \/ i - 1 \in 1..Len(ofree) /\ ofree'[i] = ofree[i - 1] /\ ofree'[i] # x
  BY <1>1
<1>3. \A i, k \in 1..Len(ofree') : ofree'[i] = ofree'[k] => i = k
  <2> SUFFICES ASSUME NEW i \in 1..Len(ofree'), NEW k \in 1..Len(ofree'), ofree'[i] = ofree'[k]
               PROVE  i = k
    OBVIOUS
  <2>1. CASE i = 1
    BY <1>2, <2>1
  <2>2. CASE i # 1
    <3>1. i - 1 \in 1..Len(ofree) /\ k - 1 \in 1..Len(ofree) /\ ofree[i - 1] = ofree[k - 1]
      BY <1>2, <2>2
    <3>2. i - 1 = k - 1
      BY <3>1 DEF ObjInv, ObjPlaces
    <3> QED
      BY <3>2
  <2> QED
    BY <2>1, <2>2
<1> QED
  BY <1>1, <1>2, <1>3

\* A constructor that throws gives its slot back.
LEMMA ObjThrows ==
    ASSUME ObjInv, NEW t \in Threads, O!MakeThrows(t) PROVE ObjInv'
<1>1. /\ pc[t] = "make" /\ ofree' = <<slot[t]>> \o ofree
      /\ slot' = [slot EXCEPT ![t] = 0] /\ pc' = [pc EXCEPT ![t] = "out"]
      /\ UNCHANGED <<objects, made, popped>>
  BY DEF O!MakeThrows, O!Go
<1>2. /\ slot[t] \in 1..Chunked(made) /\ objects[slot[t]] = 0
      /\ \A i \in 1..Len(ofree) : ofree[i] # slot[t]
      /\ \A u \in Threads \ {t} : slot[u] # slot[t]
  BY <1>1, SlotsMade DEF ObjInv, ObjTyped, ObjPlaces
<1>3. /\ ofree' \in Seq(1..Chunked(made')) /\ Len(ofree') = Len(ofree) + 1 /\ Len(ofree) \in Nat
      /\ \A i, k \in 1..Len(ofree') : ofree'[i] = ofree'[k] => i = k
      /\ \A i \in 1..Len(ofree') :
            ofree'[i] = slot[t] \/ \E k \in 1..Len(ofree) : ofree'[i] = ofree[k]
  BY <1>1, <1>2, ObjPushes
<1>4. /\ slot'[t] = 0 /\ pc'[t] = "out"
      /\ \A u \in Threads : u # t => slot'[u] = slot[u] /\ pc'[u] = pc[u]
  BY <1>1 DEF ObjInv, ObjTyped
<1>5. ObjTyped'
  <2>1. slot' \in [Threads -> 0..Chunked(made)] /\ pc' \in [Threads -> {"out", "grow", "again", "make"}]
    BY <1>1, SlotsMade DEF ObjInv, ObjTyped
  <2> QED
    BY <1>1, <1>3, <2>1 DEF ObjInv, ObjTyped
<1>6. ObjPlaces'
  <2>1. \A i \in 1..Len(ofree') : objects[ofree'[i]] = 0
    BY <1>2, <1>3 DEF ObjInv, ObjPlaces
  <2>2. \A u \in Threads : pc'[u] = "make" <=> slot'[u] # 0
    BY <1>4 DEF ObjInv, ObjPlaces
  <2>3. \A u \in Threads : pc'[u] = "make" =>
           /\ objects[slot'[u]] = 0
           /\ \A i \in 1..Len(ofree') : ofree'[i] # slot'[u]
           /\ \A v \in Threads \ {u} : slot'[v] # slot'[u]
    <3> SUFFICES ASSUME NEW u \in Threads, pc'[u] = "make"
                 PROVE  /\ objects[slot'[u]] = 0
                        /\ \A i \in 1..Len(ofree') : ofree'[i] # slot'[u]
                        /\ \A v \in Threads \ {u} : slot'[v] # slot'[u]
      OBVIOUS
    <3>1. u # t /\ pc[u] = "make" /\ slot'[u] = slot[u] /\ slot[u] # 0 /\ slot[u] # slot[t]
      BY <1>2, <1>4 DEF ObjInv, ObjPlaces
    <3>2. \A v \in Threads \ {u} : slot'[v] # slot'[u]
      BY <1>4, <3>1 DEF ObjInv, ObjPlaces
    <3>3. \A i \in 1..Len(ofree') : ofree'[i] # slot'[u]
      BY <1>3, <3>1 DEF ObjInv, ObjPlaces
    <3> QED
      BY <3>1, <3>2, <3>3 DEF ObjInv, ObjPlaces
  <2> QED
    BY <1>1, <1>3, <2>1, <2>2, <2>3 DEF ObjInv, ObjPlaces
<1>7. ObjDrained'
  <2> SUFFICES ASSUME NEW u \in Threads, pc'[u] = "again"
               PROVE  Len(ofree') + popped'[u] >= CHUNK_SIZE
    BY DEF ObjDrained
  <2>1. pc[u] = "again" /\ popped[u] \in Nat /\ popped'[u] = popped[u] /\ CHUNK_SIZE \in Nat
    BY <1>1, <1>4, PoolsAssumption DEF ObjInv, ObjTyped
  <2>2. Len(ofree) + popped[u] >= CHUNK_SIZE
    BY <2>1 DEF ObjInv, ObjDrained
  <2> QED
    BY <1>3, <2>1, <2>2
<1> QED
  BY <1>5, <1>6, <1>7 DEF ObjInv

\* An object that is given back: its slot was with one caller only.
LEMMA ObjReturns ==
    ASSUME ObjInv, NEW x \in O!Slots, O!Deallocate(x)
    PROVE  ObjInv' /\ objects[x] = 1 /\ objects' = [objects EXCEPT ![x] = 0]
<1>1. /\ objects[x] > 0 /\ ofree' = <<x>> \o ofree
      /\ objects' = [objects EXCEPT ![x] = objects[x] - 1]
      /\ UNCHANGED <<made, pc, slot, popped>>
  BY DEF O!Deallocate
<1>2. objects[x] = 1 /\ objects' = [objects EXCEPT ![x] = 0] /\ x \in 1..Chunked(made)
  <2>1. objects[x] = 1 /\ x <= Chunked(made)
    BY <1>1 DEF ObjInv, ObjPlaces
  <2>2. x \in Nat \ {0} /\ Chunked(made) \in Nat
    BY SlotsMade DEF O!Slots, ObjInv
  <2> QED
    BY <1>1, <2>1, <2>2
<1>3. \A i \in 1..Len(ofree) : ofree[i] # x
  BY <1>2 DEF ObjInv, ObjPlaces
<1>4. /\ ofree' \in Seq(1..Chunked(made')) /\ Len(ofree') = Len(ofree) + 1 /\ Len(ofree) \in Nat
      /\ \A i, k \in 1..Len(ofree') : ofree'[i] = ofree'[k] => i = k
      /\ \A i \in 1..Len(ofree') :
            ofree'[i] = x \/ \E k \in 1..Len(ofree) : ofree'[i] = ofree[k]
  BY <1>1, <1>2, <1>3, ObjPushes
<1>5. /\ objects' \in [O!Slots -> Nat] /\ objects'[x] = 0
      /\ \A y \in O!Slots : y # x => objects'[y] = objects[y]
  BY <1>2 DEF ObjInv, ObjTyped
<1>6. ObjTyped'
  BY <1>1, <1>4, <1>5 DEF ObjInv, ObjTyped
<1>7. ObjPlaces'
  <2>1. \A i \in 1..Len(ofree) : ofree[i] \in O!Slots
    BY SlotsMade DEF ObjInv
  <2>2. \A i \in 1..Len(ofree') : objects'[ofree'[i]] = 0
    BY <1>3, <1>4, <1>5, <2>1 DEF ObjInv, ObjPlaces
  <2>3. \A y \in O!Slots : objects'[y] \in {0, 1} /\ (objects'[y] > 0 => y <= Chunked(made'))
    BY <1>1, <1>5 DEF ObjInv, ObjPlaces
  <2>4. \A u \in Threads : pc[u] = "make" => slot[u] \in O!Slots /\ slot[u] # x
    BY <1>2, SlotsMade DEF ObjInv, ObjTyped, ObjPlaces
  <2>5. \A u \in Threads : pc[u] = "make" =>
           objects'[slot[u]] = 0 /\ \A i \in 1..Len(ofree') : ofree'[i] # slot[u]
    BY <1>4, <1>5, <2>4 DEF ObjInv, ObjPlaces
  <2> QED
    BY <1>1, <1>4, <2>2, <2>3, <2>5 DEF ObjInv, ObjPlaces
<1>8. ObjDrained'
  <2> SUFFICES ASSUME NEW u \in Threads, pc[u] = "again"
               PROVE  Len(ofree') + popped[u] >= CHUNK_SIZE
    BY <1>1 DEF ObjDrained
  <2>1. popped[u] \in Nat /\ CHUNK_SIZE \in Nat /\ Len(ofree) + popped[u] >= CHUNK_SIZE
    BY PoolsAssumption DEF ObjInv, ObjTyped, ObjDrained
  <2> QED
    BY <1>4, <2>1
<1> QED
  BY <1>2, <1>6, <1>7, <1>8 DEF ObjInv

\* clear() when everything has been given back.
LEMMA ObjClears == ASSUME ObjInv, O!Clear PROVE ObjInv'
<1>1. /\ \A x \in O!Slots : objects[x] = 0 /\ \A t \in Threads : pc[t] # "make"
      /\ ofree' = <<>> /\ popped' = [t \in Threads |-> CHUNK_SIZE]
      /\ UNCHANGED <<made, pc, slot, objects>>
  BY DEF O!Clear
<1>2. CHUNK_SIZE \in Nat /\ Len(ofree') = 0
  BY <1>1, PoolsAssumption
<1>3. ObjTyped'
  BY <1>1, <1>2, NoElements DEF ObjInv, ObjTyped
<1>4. ObjPlaces'
  BY <1>1, <1>2 DEF ObjInv, ObjPlaces
<1>5. ObjDrained'
  BY <1>1, <1>2 DEF ObjDrained
<1> QED
  BY <1>3, <1>4, <1>5 DEF ObjInv

\* Every step of the pool keeps the invariant.
LEMMA ObjSteps == ASSUME ObjInv, O!Next PROVE ObjInv'
<1>1. ASSUME NEW t \in Threads, O!Allocate(t) PROVE ObjInv'
  BY <1>1, ObjPops DEF O!Allocate
<1>2. ASSUME NEW t \in Threads, O!PopAgain(t) PROVE ObjInv'
  BY <1>2, ObjPops DEF O!PopAgain
<1> QED
  BY <1>1, <1>2, ObjGrows, ObjMakes, ObjThrows, ObjReturns, ObjClears DEF O!Next

\* The inductive invariant of the object pool: each slot is at one place, and
\* what a thread's chunk has lost since it was made is counted.
THEOREM ObjectPoolInvariant == PoolsSpec => []ObjInv
<1>1. O!Init => ObjInv
  <2> SUFFICES ASSUME O!Init PROVE ObjInv
    BY DEF O!Init
  <2>1. Chunked(0) \in Nat /\ CHUNK_SIZE \in Nat /\ MaxChunks \in Nat
    BY PoolsAssumption, ChunkedFacts
  <2>2. ObjTyped
    BY <2>1, NoElements DEF O!Init, ObjTyped
  <2>3. ObjPlaces /\ ObjDrained
    BY DEF O!Init, ObjPlaces, ObjDrained
  <2> QED
    BY <2>2, <2>3 DEF ObjInv
<1>2. ObjInv /\ [O!Next]_(O!vars) => ObjInv'
  <2> SUFFICES ASSUME ObjInv, [O!Next]_(O!vars) PROVE ObjInv'
    OBVIOUS
  <2>1. CASE O!Next
    BY <2>1, ObjSteps
  <2>2. CASE UNCHANGED O!vars
    BY <2>2 DEF O!vars, ObjInv, ObjTyped, ObjPlaces, ObjDrained
  <2> QED
    BY <2>1, <2>2 DEF O!vars
<1> QED
  BY <1>1, <1>2, PTL DEF PoolsSpec, O!Spec

\* The object pool's part of FreeListsSound: a slot is free, in the hands of
\* one thread inside allocate(), or with a caller.
THEOREM SlotsInOnePlace == PoolsSpec => []O!SlotInOnePlace
<1>1. ObjInv => O!SlotInOnePlace
  <2> SUFFICES ASSUME ObjInv PROVE O!SlotInOnePlace
    OBVIOUS
  <2>1. DOMAIN ofree = 1..Len(ofree)
    BY SeqFacts DEF ObjInv, ObjTyped
  <2>2. O!TypeOK
    BY DEF ObjInv, ObjTyped, O!TypeOK, Chunked
  <2>3. O!IsInjective(ofree)
    BY <2>1 DEF ObjInv, ObjPlaces, O!IsInjective
  <2>4. \A x : x \in O!Range(ofree) <=> \E i \in 1..Len(ofree) : ofree[i] = x
    BY <2>1 DEF O!Range
  <2>5. \A x \in O!Slots : objects[x] > 0 => x \notin O!Range(ofree)
    BY <2>4 DEF ObjInv, ObjPlaces
  <2>6. \A t \in Threads : pc[t] = "make" =>
           /\ slot[t] \notin O!Range(ofree) /\ objects[slot[t]] = 0
           /\ \A u \in Threads \ {t} : slot[u] # slot[t]
    BY <2>4 DEF ObjInv, ObjPlaces
  <2> QED
    BY <2>2, <2>3, <2>5, <2>6 DEF O!SlotInOnePlace
<1> QED
  BY <1>1, ObjectPoolInvariant, PTL

\* allocate() returns nullptr after its second pop only when other threads have
\* taken all the slots of its chunk, or the pool has been cleared.
THEOREM NullMeansDrained == PoolsSpec => NullOnlyIfDrained
<1>1. ObjInv /\ [O!Next]_(O!vars) =>
         [\A t \in Threads : pc[t] = "again" /\ pc'[t] = "out" => popped[t] >= CHUNK_SIZE]_(O!vars)
  <2> SUFFICES ASSUME ObjInv, [O!Next]_(O!vars), NEW t \in Threads, pc[t] = "again", pc'[t] = "out"
               PROVE  popped[t] >= CHUNK_SIZE
    OBVIOUS
  <2>1. ofree = <<>>
    <3>1. O!Next
      BY DEF O!vars
    <3>2. \A u \in Threads : \A place : pc' = [pc EXCEPT ![u] = place] =>
              pc'[u] = place /\ (u # t => pc'[t] = pc[t])
      BY DEF ObjInv, ObjTyped
    <3>3. ASSUME NEW u \in Threads, O!Allocate(u) \/ O!Grow(u) \/ O!Make(u) \/ O!MakeThrows(u)
          PROVE  FALSE
      <4>1. PICK place : pc' = [pc EXCEPT ![u] = place]
        BY <3>3 DEF O!Allocate, O!Grow, O!Make, O!MakeThrows, O!pop_free, O!Go
      <4>2. u = t
        BY <3>2, <4>1
      <4>3. O!Grow(u)
        BY <3>3, <4>2 DEF O!Allocate, O!Make, O!MakeThrows
      <4> QED
        BY <4>2, <4>3 DEF O!Grow
    <3>4. ASSUME NEW u \in Threads, O!PopAgain(u) PROVE ofree = <<>>
      <4> SUFFICES ASSUME ofree # <<>> PROVE FALSE
        OBVIOUS
      <4>1. pc' = [pc EXCEPT ![u] = "make"]
        BY <3>4 DEF O!PopAgain, O!pop_free, O!Go
      <4> QED
        BY <3>2, <4>1
    <3>5. ASSUME NEW x \in O!Slots, O!Deallocate(x) PROVE FALSE
      BY <3>5 DEF O!Deallocate
    <3>6. ~O!Clear
      BY DEF O!Clear
    <3> QED
      BY <3>1, <3>3, <3>4, <3>5, <3>6 DEF O!Next
  <2>2. Len(ofree) + popped[t] >= CHUNK_SIZE /\ popped[t] \in Nat
    BY DEF ObjInv, ObjDrained, ObjTyped
  <2> QED
    BY <2>1, <2>2
<1> QED
  BY <1>1, ObjectPoolInvariant, PTL DEF PoolsSpec, O!Spec, NullOnlyIfDrained, O!NullOnlyIfDrained

\* The object pool implements Lending: the holders of an object are the callers
\* that have it, and taking and giving back are Make and Deallocate.
THEOREM ObjectsLent == PoolsSpec => O!ImplementsLending
<1>1. O!Init => O!Pool!Init
  BY DEF O!Init, O!Pool!Init
<1>2. ObjInv /\ [O!Next]_(O!vars) => [O!Pool!Next]_objects
  <2> SUFFICES ASSUME ObjInv, [O!Next]_(O!vars), objects' # objects PROVE O!Pool!Next
    OBVIOUS
  <2>1. O!Next
    BY DEF O!vars
  <2>2. ASSUME NEW t \in Threads, O!Make(t) PROVE O!Pool!Next
    BY <2>2, ObjMakes DEF O!Pool!Next, O!Pool!Take
  <2>3. ASSUME NEW x \in O!Slots, O!Deallocate(x) PROVE O!Pool!Next
    BY <2>3, ObjReturns DEF O!Pool!Next, O!Pool!GiveBack
  <2>4. (\E t \in Threads : O!Make(t)) \/ \E x \in O!Slots : O!Deallocate(x)
    BY <2>1 DEF O!Next, O!Allocate, O!Grow, O!PopAgain, O!MakeThrows, O!Clear
  <2> QED
    BY <2>2, <2>3, <2>4
<1> QED
  BY <1>1, <1>2, ObjectPoolInvariant, PTL DEF PoolsSpec, O!Spec, O!ImplementsLending, O!Pool!Spec

-----------------------------------------------------------------------------
(***************************************************************************)
(* The connection pool.  What it has yet to hand out is with nobody, and   *)
(* is in free_list_ once.                                                  *)
(***************************************************************************)

ConnTyped ==
    /\ pool_ \subseteq C!Connections
    /\ cfree \in Seq(C!Connections)
    /\ given \in [C!Connections -> Nat]

QueryTyped ==
    /\ query \in [Queries -> {"new", "queued", "answered"}]
    /\ answer \in [Queries -> Seq(BOOLEAN)]

ConnPlaces ==
    /\ \A i, k \in 1..Len(cfree) : cfree[i] = cfree[k] => i = k
    /\ \A i \in 1..Len(cfree) : given[cfree[i]] = 0
    /\ \A c \in C!Connections : given[c] \in {0, 1}

ConnInv == ConnTyped /\ QueryTyped /\ ConnPlaces /\ initialized_ \in BOOLEAN

\* A connection leaves the front of free_list_, if there is one.
LEMMA ConnPops ==
    ASSUME ConnTyped, ConnPlaces, cfree # <<>>, cfree' = Tail(cfree)
    PROVE  /\ cfree' \in Seq(C!Connections) /\ Head(cfree) \in C!Connections
           /\ given[Head(cfree)] = 0
           /\ \A i, k \in 1..Len(cfree') : cfree'[i] = cfree'[k] => i = k
           /\ \A i \in 1..Len(cfree') :
                 cfree'[i] \in C!Connections /\ given[cfree'[i]] = 0 /\ cfree'[i] # Head(cfree)
<1>1. /\ Len(cfree) \in Nat \ {0} /\ Head(cfree) = cfree[1] /\ Head(cfree) \in C!Connections
      /\ cfree' \in Seq(C!Connections) /\ Len(cfree') = Len(cfree) - 1
      /\ \A i \in 1..Len(cfree') : i + 1 \in 1..Len(cfree) /\ cfree'[i] = cfree[i + 1]
  BY TailFacts DEF ConnTyped
<1>2. 1 \in 1..Len(cfree)
  BY <1>1
<1>3. \A i \in 1..Len(cfree') : cfree'[i] \in C!Connections
  BY <1>1, SeqFacts
<1>4. \A i \in 1..Len(cfree') : given[cfree'[i]] = 0 /\ cfree'[i] # Head(cfree)
  BY <1>1, <1>2 DEF ConnPlaces
<1>5. \A i, k \in 1..Len(cfree') : cfree'[i] = cfree'[k] => i = k
  BY <1>1 DEF ConnPlaces
<1> QED
  BY <1>1, <1>2, <1>3, <1>4, <1>5 DEF ConnPlaces

\* init_sqlite puts the connections it has opened into free_list_, once each.
LEMMA ConnOpens ==
    ASSUME ConnTyped, NEW X \in SUBSET C!Connections, NEW q \in C!Ascending(X)
    PROVE  /\ q \in Seq(C!Connections)
           /\ \A i, k \in 1..Len(q) : q[i] = q[k] => i = k
           /\ \A i \in 1..Len(q) : q[i] \in C!Connections
<1>1. PICK n \in Nat : /\ q \in [1..n -> X]
                      /\ \A i, k \in 1..n : i < k => q[i] < q[k]
  BY PoolsAssumption DEF C!Ascending
<1>2. q \in Seq(C!Connections) /\ Len(q) = n
  BY <1>1
<1>3. \A i \in 1..n : q[i] \in Nat /\ q[i] \in C!Connections
  <2>1. \A i \in 1..n : q[i] \in C!Connections
    BY <1>1
  <2> QED
    BY <2>1 DEF C!Connections
<1>4. \A i, k \in 1..n : q[i] = q[k] => i = k
  BY <1>1, <1>3
<1> QED
  BY <1>2, <1>3, <1>4

\* execute_sql: the connection it takes is with nobody, and stays so.
LEMMA ConnRuns ==
    ASSUME ConnInv, NEW q \in Queries, C!execute_sql(q)
    PROVE  ConnInv' /\ UNCHANGED given
<1>1. UNCHANGED <<initialized_, pool_, given>>
  BY DEF C!execute_sql
<1>2. ConnTyped' /\ ConnPlaces'
  <2>1. CASE cfree = <<>>
    <3>1. cfree' = cfree
      BY <2>1 DEF C!execute_sql
    <3> QED
      BY <1>1, <3>1 DEF ConnInv, ConnTyped, ConnPlaces
  <2>2. CASE cfree # <<>>
    <3>1. cfree' = Tail(cfree)
      BY <2>2 DEF C!execute_sql
    <3> QED
      BY <1>1, <2>2, <3>1, ConnPops DEF ConnInv, ConnTyped, ConnPlaces
  <2> QED
    BY <2>1, <2>2
<1>3. QueryTyped'
  <2>1. PICK b \in BOOLEAN : answer' = [answer EXCEPT ![q] = Append(@, b)]
    BY DEF C!execute_sql
  <2>2. Append(answer[q], b) \in Seq(BOOLEAN)
    BY BackFacts DEF ConnInv, QueryTyped
  <2>3. answer' \in [Queries -> Seq(BOOLEAN)]
    BY <2>1, <2>2 DEF ConnInv, QueryTyped
  <2>4. query' \in [Queries -> {"new", "queued", "answered"}]
    BY DEF ConnInv, QueryTyped, C!execute_sql
  <2> QED
    BY <2>3, <2>4 DEF QueryTyped
<1> QED
  BY <1>1, <1>2, <1>3 DEF ConnInv

\* get_connection hands out a connection nobody has.
LEMMA ConnGiven ==
    ASSUME ConnInv, C!get_connection
    PROVE  ConnInv' /\ (given' = given \/ \E c \in C!Connections : C!Pool!Take(c))
<1>1. UNCHANGED <<initialized_, pool_, query, answer>>
  BY DEF C!get_connection
<1>2. QueryTyped' /\ initialized_' \in BOOLEAN
  BY <1>1 DEF ConnInv, QueryTyped
<1>3. CASE cfree = <<>>
  <2>1. cfree' = cfree /\ given' = given
    BY <1>3 DEF C!get_connection
  <2>2. ConnTyped' /\ ConnPlaces'
    BY <1>1, <2>1 DEF ConnInv, ConnTyped, ConnPlaces
  <2> QED
    BY <1>2, <2>1, <2>2 DEF ConnInv
<1>4. CASE cfree # <<>>
  <2> DEFINE c == Head(cfree)
  <2>1. cfree' = Tail(cfree) /\ given' = [given EXCEPT ![c] = given[c] + 1]
    BY <1>4 DEF C!get_connection
  <2>2. /\ cfree' \in Seq(C!Connections) /\ c \in C!Connections /\ given[c] = 0
        /\ \A i, k \in 1..Len(cfree') : cfree'[i] = cfree'[k] => i = k
        /\ \A i \in 1..Len(cfree') :
              cfree'[i] \in C!Connections /\ given[cfree'[i]] = 0 /\ cfree'[i] # c
    BY <1>4, <2>1, ConnPops DEF ConnInv
  <2> HIDE DEF c
  <2>3. given' = [given EXCEPT ![c] = 1]
    BY <2>1, <2>2
  <2>4. ConnTyped'
    BY <1>1, <2>2, <2>3 DEF ConnInv, ConnTyped
  <2>5. ConnPlaces'
    BY <2>2, <2>3 DEF ConnInv, ConnTyped, ConnPlaces
  <2> QED
    BY <1>2, <2>2, <2>3, <2>4, <2>5 DEF ConnInv, C!Pool!Take
<1> QED
  BY <1>3, <1>4

\* Every other step: opening, closing, dropping a connection, queueing a query.
LEMMA ConnOthers ==
    ASSUME ConnInv, C!Next
    PROVE  ConnInv' /\ (given' = given \/ C!Pool!Next)
<1>1. ASSUME NEW opened \in SUBSET C!Connections, C!init_sqlite(opened)
      PROVE  ConnInv' /\ given' = given
  <2>1. /\ initialized_' = TRUE /\ pool_' = opened /\ cfree' \in C!Ascending(opened)
        /\ UNCHANGED <<given, query, answer>> /\ \A c \in C!Connections : given[c] = 0
    BY <1>1 DEF C!init_sqlite
  <2>2. /\ cfree' \in Seq(C!Connections)
        /\ \A i, k \in 1..Len(cfree') : cfree'[i] = cfree'[k] => i = k
        /\ \A i \in 1..Len(cfree') : cfree'[i] \in C!Connections
    BY <2>1, ConnOpens DEF ConnInv
  <2>3. ConnTyped' /\ ConnPlaces'
    BY <2>1, <2>2 DEF ConnInv, ConnTyped, ConnPlaces
  <2> QED
    BY <2>1, <2>3 DEF ConnInv, QueryTyped
<1>2. CASE C!close
  <2>1. /\ initialized_' = FALSE /\ pool_' = {} /\ cfree' = <<>>
        /\ UNCHANGED <<given, query, answer>>
    BY <1>2 DEF C!close
  <2>2. cfree' \in Seq(C!Connections) /\ Len(cfree') = 0
    BY <2>1
  <2>3. ConnTyped' /\ ConnPlaces'
    BY <2>1, <2>2 DEF ConnInv, ConnTyped, ConnPlaces
  <2> QED
    BY <2>1, <2>3 DEF ConnInv, QueryTyped
<1>3. CASE C!get_connection
  BY <1>3, ConnGiven DEF C!Pool!Next
<1>4. ASSUME NEW c \in C!Connections, C!drop_connection(c)
      PROVE  ConnInv' /\ C!Pool!GiveBack(c)
  <2>1. given[c] = 1 /\ given' = [given EXCEPT ![c] = 0]
    <3>1. given[c] > 0 /\ given' = [given EXCEPT ![c] = given[c] - 1]
      BY <1>4 DEF C!drop_connection
    <3>2. given[c] = 1
      BY <3>1 DEF ConnInv, ConnPlaces
    <3> QED
      BY <3>1, <3>2
  <2>2. UNCHANGED <<initialized_, pool_, cfree, query, answer>>
    BY <1>4 DEF C!drop_connection
  <2>3. ConnTyped'
    BY <2>1, <2>2 DEF ConnInv, ConnTyped
  <2>4. \A i \in 1..Len(cfree) : cfree[i] \in C!Connections
    BY SeqFacts DEF ConnInv, ConnTyped
  <2>5. ConnPlaces'
    BY <2>1, <2>2, <2>4 DEF ConnInv, ConnTyped, ConnPlaces
  <2> QED
    BY <2>1, <2>2, <2>3, <2>5 DEF ConnInv, QueryTyped, C!Pool!GiveBack
<1>5. ASSUME NEW q \in Queries, C!execute_sql_async(q) \/ C!run(q) \/ C!Worker(q)
      PROVE  ConnInv' /\ given' = given
  <2>1. CASE C!execute_sql(q)
    BY <2>1, ConnRuns
  <2>2. CASE /\ query' = [query EXCEPT ![q] = "queued"]
             /\ UNCHANGED <<initialized_, pool_, cfree, given, answer>>
    <3>1. QueryTyped'
      BY <2>2 DEF ConnInv, QueryTyped
    <3>2. ConnTyped' /\ ConnPlaces'
      BY <2>2 DEF ConnInv, ConnTyped, ConnPlaces
    <3> QED
      BY <2>2, <3>1, <3>2 DEF ConnInv
  <2> QED
    BY <1>5, <2>1, <2>2 DEF C!execute_sql_async, C!run, C!Worker
<1> QED
  BY <1>1, <1>2, <1>3, <1>4, <1>5 DEF C!Next, C!Pool!Next

\* The connection pool implements Lending: get_connection never hands out a
\* connection another caller still holds. And it is well typed.
THEOREM ConnectionsLent == PoolsSpec => C!ImplementsLending /\ []C!TypeOK
<1>1. C!Init => C!Pool!Init /\ ConnInv
  <2> SUFFICES ASSUME C!Init PROVE C!Pool!Init /\ ConnInv
    OBVIOUS
  <2>1. C!Init
    BY DEF C!Init
  <2>2. cfree \in Seq(C!Connections) /\ Len(cfree) = 0
    BY <2>1 DEF C!Init
  <2>3. answer \in [Queries -> Seq(BOOLEAN)]
    BY <2>1, NoElements DEF C!Init
  <2> QED
    <3>1. C!Pool!Init
      BY <2>1 DEF C!Init, C!Pool!Init
    <3>2. ConnTyped
      BY <2>1, <2>2 DEF C!Init, ConnTyped
    <3>3. QueryTyped
      BY <2>1, <2>3 DEF C!Init, QueryTyped
    <3>4. ConnPlaces
      BY <2>1, <2>2 DEF C!Init, ConnPlaces
    <3> QED
      BY <2>1, <3>1, <3>2, <3>3, <3>4 DEF C!Init, ConnInv
<1>2. ConnInv /\ [C!Next]_(C!vars) => ConnInv' /\ [C!Pool!Next]_given
  <2> SUFFICES ASSUME ConnInv, [C!Next]_(C!vars) PROVE ConnInv' /\ [C!Pool!Next]_given
    OBVIOUS
  <2>1. CASE C!Next
    BY <2>1, ConnOthers
  <2>2. CASE UNCHANGED C!vars
    BY <2>2 DEF C!vars, ConnInv, ConnTyped, QueryTyped, ConnPlaces
  <2> QED
    BY <2>1, <2>2 DEF C!vars
<1>3. ConnInv => C!TypeOK
  BY DEF ConnInv, ConnTyped, QueryTyped, C!TypeOK
<1> QED
  BY <1>1, <1>2, <1>3, PTL DEF PoolsSpec, C!Spec, C!ImplementsLending, C!Pool!Spec
-----------------------------------------------------------------------------
(***************************************************************************)
(* The memory pool.  The links of its free list are described by a         *)
(* sequence of blocks that exists, not one that is computed: q is the free *)
(* list if free_list_ is its first block and each block links to the next. *)
(***************************************************************************)

Listed(q, a) == \E i \in 1..Len(q) : q[i] = a

Linked(q, first, link) ==
    /\ \A i, k \in 1..Len(q) : q[i] = q[k] => i = k
    /\ first = IF q = <<>> THEN 0 ELSE q[1]
    /\ \A i \in 1..Len(q) : link[q[i]] = IF i = Len(q) THEN 0 ELSE q[i + 1]

\* The list without its first block, as allocate leaves it.
LEMMA LinkTail ==
    ASSUME NEW A, NEW q \in Seq(A), NEW link \in [A -> A \cup {0}], q # <<>>,
           NEW first, Linked(q, first, link)
    PROVE  /\ Tail(q) \in Seq(A) /\ Len(Tail(q)) = Len(q) - 1 /\ first \in A
           /\ Linked(Tail(q), link[first], [link EXCEPT ![first] = 0])
           /\ \A a : Listed(q, a) <=> a = first \/ Listed(Tail(q), a)
           /\ ~Listed(Tail(q), first)
<1> DEFINE r == Tail(q)
<1>1. /\ Len(q) \in Nat \ {0} /\ q[1] \in A /\ r \in Seq(A) /\ Len(r) = Len(q) - 1
      /\ \A i \in 1..Len(r) : i + 1 \in 1..Len(q) /\ r[i] = q[i + 1]
  BY TailFacts
<1>2. \A i \in 2..Len(q) : i - 1 \in 1..Len(r) /\ r[i - 1] = q[i]
  BY <1>1
<1> HIDE DEF r
<1>3. first = q[1] /\ 1 \in 1..Len(q)
  BY <1>1 DEF Linked
<1>4. \A i \in 1..Len(r) : r[i] # first /\ r[i] \in A
  BY <1>1, <1>3, SeqFacts DEF Linked
<1>5. \A i, k \in 1..Len(r) : r[i] = r[k] => i = k
  BY <1>1 DEF Linked
<1>6. link[first] = IF r = <<>> THEN 0 ELSE r[1]
  <2>1. CASE Len(q) = 1
    <3>1. r = <<>>
      BY <2>1, <1>1, NoElements
    <3> QED
      BY <2>1, <3>1, <1>3 DEF Linked
  <2>2. CASE Len(q) # 1
    <3>1. r # <<>> /\ 1 \in 1..Len(r)
      BY <2>2, <1>1, NoElements
    <3> QED
      BY <2>2, <3>1, <1>1, <1>3 DEF Linked
  <2> QED
    BY <2>1, <2>2
<1>7. ASSUME NEW i \in 1..Len(r)
      PROVE  [link EXCEPT ![first] = 0][r[i]] = IF i = Len(r) THEN 0 ELSE r[i + 1]
  <2>1. [link EXCEPT ![first] = 0][r[i]] = link[q[i + 1]]
    BY <1>1, <1>4
  <2>2. link[q[i + 1]] = IF i + 1 = Len(q) THEN 0 ELSE q[i + 2]
    BY <1>1 DEF Linked
  <2>3. i # Len(r) => i + 1 \in 1..Len(r) /\ r[i + 1] = q[i + 2]
    BY <1>1
  <2> QED
    BY <1>1, <2>1, <2>2, <2>3
<1>8. Linked(r, link[first], [link EXCEPT ![first] = 0])
  BY <1>5, <1>6, <1>7 DEF Linked
<1>9. \A a : Listed(q, a) <=> a = first \/ Listed(r, a)
  <2>1. ASSUME NEW a, Listed(q, a) PROVE a = first \/ Listed(r, a)
    <3>1. PICK i \in 1..Len(q) : q[i] = a
      BY <2>1 DEF Listed
    <3>2. i = 1 \/ i \in 2..Len(q)
      BY <1>1
    <3> QED
      BY <1>2, <1>3, <3>1, <3>2 DEF Listed
  <2>2. ASSUME NEW a, a = first \/ Listed(r, a) PROVE Listed(q, a)
    BY <2>2, <1>1, <1>3 DEF Listed
  <2> QED
    BY <2>1, <2>2
<1>10. ~Listed(r, first)
  BY <1>4 DEF Listed
<1> QED
  BY <1>1, <1>3, <1>8, <1>9, <1>10 DEF r

RunBefore(A, q, first, link, base, b, link2) ==
    /\ A \subseteq Nat /\ 0 \notin A /\ q \in Seq(A) /\ link \in [A -> A \cup {0}]
    /\ Linked(q, first, link)
    /\ base \in Nat /\ b \in Nat \ {0} /\ base..(base + b - 1) \subseteq A
    /\ \A a \in base..(base + b - 1) : ~Listed(q, a)
    /\ \A a \in A : link2[a] = IF a \in base..(base + b - 2) THEN a + 1
                               ELSE IF a = base + b - 1 THEN first ELSE link[a]

\* A run of adjacent blocks linked in front of the list, as pre_allocate and
\* allocate make them of a new chunk, and as deallocate puts back one.
LEMMA LinkRun ==
    ASSUME NEW A, NEW q, NEW first, NEW link, NEW base, NEW b, NEW link2,
           RunBefore(A, q, first, link, base, b, link2)
    PROVE  \E r \in Seq(A) :
               /\ Linked(r, base, link2) /\ Len(r) = Len(q) + b
               /\ \A a : Listed(r, a) <=> a \in base..(base + b - 1) \/ Listed(q, a)
<1>a. /\ A \subseteq Nat /\ 0 \notin A /\ q \in Seq(A) /\ link \in [A -> A \cup {0}]
      /\ Linked(q, first, link)
      /\ base \in Nat /\ b \in Nat \ {0} /\ base..(base + b - 1) \subseteq A
      /\ \A a \in base..(base + b - 1) : ~Listed(q, a)
      /\ \A a \in A : link2[a] = IF a \in base..(base + b - 2) THEN a + 1
                                 ELSE IF a = base + b - 1 THEN first ELSE link[a]
  BY DEF RunBefore
<1> USE <1>a
<1> DEFINE run == [i \in 1..b |-> base + i - 1]
           r == run \o q
<1>1. run \in Seq(A) /\ Len(run) = b /\ \A i \in 1..b : run[i] = base + i - 1
  <2>1. \A i \in 1..b : base + i - 1 \in base..(base + b - 1)
    OBVIOUS
  <2>2. run \in [1..b -> A]
    BY <2>1
  <2> QED
    BY <2>2
<1>2. /\ r \in Seq(A) /\ Len(q) \in Nat /\ Len(r) = b + Len(q)
      /\ \A i \in 1..(b + Len(q)) : r[i] = IF i <= b THEN run[i] ELSE q[i - b]
  BY <1>1, ConcatFacts, SeqFacts
<1>3. \A i \in 1..b : r[i] = base + i - 1 /\ i \in 1..Len(r)
  BY <1>1, <1>2
<1>4. \A i \in 1..Len(q) : r[i + b] = q[i] /\ i + b \in 1..Len(r) /\ q[i] \in A
  BY <1>2, SeqFacts
<1>5. \A i \in 1..Len(r) : i \in 1..b \/ \E k \in 1..Len(q) : i = k + b
  <2>1. ASSUME NEW i \in 1..Len(r), i \notin 1..b PROVE \E k \in 1..Len(q) : i = k + b
    <3>1. i - b \in 1..Len(q) /\ i = (i - b) + b
      BY <1>2, <2>1
    <3> QED
      BY <3>1
  <2> QED
    BY <2>1
<1> HIDE DEF r, run
<1>6. \A i \in 1..b, k \in 1..Len(q) : r[i] # q[k]
  <2>1. \A i \in 1..b : r[i] \in base..(base + b - 1)
    BY <1>3
  <2> QED
    BY <2>1 DEF Listed
<1>7. ASSUME NEW i \in 1..Len(r), NEW k \in 1..Len(r), r[i] = r[k] PROVE i = k
  <2>1. CASE i \in 1..b /\ k \in 1..b
    BY <2>1, <1>3, <1>7
  <2>2. CASE ~(i \in 1..b) /\ ~(k \in 1..b)
    BY <2>2, <1>4, <1>5, <1>7 DEF Linked
  <2>3. CASE (i \in 1..b) # (k \in 1..b)
    BY <2>3, <1>4, <1>5, <1>6, <1>7
  <2> QED
    BY <2>1, <2>2, <2>3
<1>8. r # <<>> /\ r[1] = base
  BY <1>2, <1>3, NoElements
<1>9. ASSUME NEW i \in 1..Len(r) PROVE link2[r[i]] = IF i = Len(r) THEN 0 ELSE r[i + 1]
  <2>1. CASE i \in 1..(b - 1)
    <3>1. r[i] \in A /\ r[i] \in base..(base + b - 2) /\ link2[r[i]] = r[i] + 1
      BY <2>1, <1>3
    <3>2. r[i + 1] = r[i] + 1 /\ i # Len(r)
      BY <2>1, <1>2, <1>3
    <3> QED
      BY <3>1, <3>2
  <2>2. CASE i = b
    <3>1. link2[r[i]] = first
      BY <2>2, <1>3
    <3>2. CASE q = <<>>
      BY <2>2, <3>1, <3>2, <1>2 DEF Linked
    <3>3. CASE q # <<>>
      <4>1. 1 \in 1..Len(q)
        BY <3>3, <1>2, NoElements
      <4>2. r[i + 1] = q[1] /\ i # Len(r)
        BY <2>2, <4>1, <1>2, <1>4
      <4> QED
        BY <3>1, <3>3, <4>2 DEF Linked
    <3> QED
      BY <3>2, <3>3
  <2>3. ASSUME NEW k \in 1..Len(q), i = k + b
        PROVE  link2[r[i]] = IF i = Len(r) THEN 0 ELSE r[i + 1]
    <3>1. r[i] = q[k] /\ q[k] \in A /\ q[k] \notin base..(base + b - 1)
      BY <2>3, <1>4 DEF Listed
    <3>2. link2[r[i]] = link[q[k]]
      <4>1. q[k] \notin base..(base + b - 2) /\ q[k] # base + b - 1
        BY <3>1
      <4> QED
        BY <3>1, <4>1
    <3>3. link[q[k]] = IF k = Len(q) THEN 0 ELSE q[k + 1]
      BY DEF Linked
    <3>4. k # Len(q) => r[i + 1] = q[k + 1]
      <4> SUFFICES ASSUME k # Len(q) PROVE r[i + 1] = q[k + 1]
        OBVIOUS
      <4>1. k + 1 \in 1..Len(q) /\ i + 1 = (k + 1) + b
        BY <2>3, <1>2
      <4>2. r[(k + 1) + b] = q[k + 1]
        BY <4>1, <1>4
      <4> QED
        BY <4>1, <4>2
    <3>5. k \in Nat /\ i = k + b /\ Len(r) = Len(q) + b
      BY <2>3, <1>2
    <3>6. CASE k = Len(q)
      BY <3>2, <3>3, <3>5, <3>6
    <3>7. CASE k # Len(q)
      <4>1. i # Len(r)
        BY <3>5, <3>7, <1>2
      <4> QED
        BY <3>2, <3>3, <3>4, <3>7, <4>1
    <3> QED
      BY <3>6, <3>7
  <2>4. i \in 1..(b - 1) \/ i = b \/ \E k \in 1..Len(q) : i = k + b
    BY <1>5
  <2> QED
    BY <2>1, <2>2, <2>3, <2>4
<1>10. Linked(r, base, link2)
  BY <1>7, <1>8, <1>9 DEF Linked
<1>11. ASSUME NEW a PROVE Listed(r, a) <=> a \in base..(base + b - 1) \/ Listed(q, a)
  <2>1. ASSUME Listed(r, a) PROVE a \in base..(base + b - 1) \/ Listed(q, a)
    <3>1. PICK i \in 1..Len(r) : r[i] = a
      BY <2>1 DEF Listed
    <3>2. CASE i \in 1..b
      BY <3>1, <3>2, <1>3
    <3>3. CASE i \notin 1..b
      BY <3>1, <3>3, <1>4, <1>5 DEF Listed
    <3> QED
      BY <3>2, <3>3
  <2>2. ASSUME a \in base..(base + b - 1) PROVE Listed(r, a)
    <3>1. a - base + 1 \in 1..b
      BY <2>2
    <3>2. r[a - base + 1] = a /\ a - base + 1 \in 1..Len(r)
      BY <2>2, <3>1, <1>3
    <3> QED
      BY <3>2 DEF Listed
  <2>3. ASSUME Listed(q, a) PROVE Listed(r, a)
    BY <2>3, <1>4 DEF Listed
  <2> QED
    BY <2>1, <2>2, <2>3
<1> QED
  BY <1>2, <1>10, <1>11

Strided(n) == n * (BlockSize + 1)

\* The chunks stand one after another, an address apart.
LEMMA StridedFacts ==
    \A n \in Nat : /\ Strided(n) \in Nat /\ Strided(n + 1) = Strided(n) + BlockSize + 1
                  /\ \A m \in Nat : n <= m => Strided(n) <= Strided(m)
<1>1. BlockSize + 1 \in Nat /\ BlockSize \in Nat
  BY PoolsAssumption
<1>2. \A n \in Nat : /\ Strided(n) \in Nat /\ Strided(n + 1) = Strided(n) + (BlockSize + 1)
                     /\ \A m \in Nat : n <= m => Strided(n) <= Strided(m)
  BY <1>1, MultipleFacts DEF Strided
<1> QED
  BY <1>1, <1>2

Top == Strided(Len(all_chunks_))

\* The blocks of the chunks.
Carved(a) == \E k \in 1..Len(all_chunks_) : a \in M!Chunk(k)

MemTyped ==
    /\ all_chunks_ \in Seq(1..BlockSize) /\ Len(all_chunks_) <= MaxBlocks
    /\ next \in [M!Addresses -> M!Addresses \cup {0}]
    /\ blocks \in [M!Addresses -> Nat]
    /\ todo \in 0..PreAlloc
    /\ \A a \in M!Addresses : blocks[a] \in {0, 1}

\* What has not been made has no link and no holder.
MemFresh ==
    /\ \A a \in M!Addresses : Carved(a) => a <= Top
    /\ \A a \in M!Addresses : a > Top => next[a] = 0

\* The free list is a list, and it lists the blocks that are not lent.
MemList(q) ==
    /\ Linked(q, mfree, next)
    /\ free_blocks_ = Len(q)
    /\ \A a \in M!Addresses : Carved(a) <=> blocks[a] = 1 \/ Listed(q, a)
    /\ \A a \in M!Addresses : ~(blocks[a] = 1 /\ Listed(q, a))

MemInv == MemTyped /\ MemFresh /\ \E q \in Seq(M!Addresses) : MemList(q)

\* The addresses, and where the next chunk goes.
LEMMA AddressFacts ==
    ASSUME MemTyped
    PROVE  /\ M!Addresses = 1..Strided(MaxBlocks) /\ M!Addresses \subseteq Nat /\ 0 \notin M!Addresses
           /\ Len(all_chunks_) \in Nat /\ Top \in Nat /\ BlockSize \in Nat /\ BlockSize > 1
           /\ M!Base(Len(all_chunks_) + 1) = Top + 1
           /\ Len(all_chunks_) < MaxBlocks =>
                 (Top + 1)..(Top + BlockSize) \subseteq M!Addresses
<1>1. Len(all_chunks_) \in Nat /\ BlockSize \in Nat /\ BlockSize > 1 /\ MaxBlocks \in Nat
  BY PoolsAssumption, SeqFacts DEF MemTyped
<1>2. M!Addresses = 1..Strided(MaxBlocks)
  BY DEF M!Addresses, M!Stride, Strided
<1>3. M!Base(Len(all_chunks_) + 1) = Top + 1
  <2>1. Len(all_chunks_) + 1 - 1 = Len(all_chunks_)
    BY <1>1
  <2> QED
    BY <2>1 DEF M!Base, M!Stride, Top, Strided
<1>4. Top \in Nat /\ Strided(MaxBlocks) \in Nat
  BY <1>1, StridedFacts DEF Top
<1>5. ASSUME Len(all_chunks_) < MaxBlocks PROVE Top + BlockSize + 1 <= Strided(MaxBlocks)
  <2>1. Len(all_chunks_) + 1 \in Nat /\ Len(all_chunks_) + 1 <= MaxBlocks
    BY <1>1, <1>5
  <2> QED
    BY <1>1, <2>1, StridedFacts DEF Top
<1>6. ASSUME Len(all_chunks_) < MaxBlocks
      PROVE  (Top + 1)..(Top + BlockSize) \subseteq M!Addresses
  BY <1>1, <1>2, <1>4, <1>5, <1>6
<1> QED
  BY <1>1, <1>2, <1>3, <1>4, <1>6

\* A new chunk of b blocks.
LEMMA ChunkMade ==
    ASSUME MemTyped, NEW b \in 1..BlockSize, Len(all_chunks_) < MaxBlocks,
           all_chunks_' = Append(all_chunks_, b)
    PROVE  /\ all_chunks_' \in Seq(1..BlockSize) /\ Len(all_chunks_') = Len(all_chunks_) + 1
           /\ Top' = Top + BlockSize + 1
           /\ \A a \in M!Addresses : Carved(a)' <=> Carved(a) \/ a \in (Top + 1)..(Top + b)
<1> DEFINE n == Len(all_chunks_)
<1>1. /\ all_chunks_' \in Seq(1..BlockSize) /\ n \in Nat /\ Len(all_chunks_') = n + 1
      /\ all_chunks_'[n + 1] = b
      /\ \A k \in 1..n : all_chunks_'[k] = all_chunks_[k]
  BY BackFacts DEF MemTyped
<1>2. Top' = Top + BlockSize + 1
  BY <1>1, StridedFacts DEF Top
<1>3. \A k \in 1..n : M!Chunk(k)' = M!Chunk(k)
  BY <1>1 DEF M!Chunk, M!Base, M!Stride
<1>4. ASSUME NEW k \in Nat, k = n + 1 PROVE M!Chunk(k)' = (Top + 1)..(Top + b)
  <2>1. M!Chunk(k)' = M!Base(k)..(M!Base(k) + b - 1)
    BY <1>1, <1>4 DEF M!Chunk, M!Base, M!Stride
  <2>2. M!Base(k) = Top + 1 /\ Top \in Nat
    BY <1>4, AddressFacts
  <2>3. Top + 1 + b - 1 = Top + b
    BY <2>2
  <2> QED
    BY <2>1, <2>2, <2>3
<1>5. \A k : k \in 1..(n + 1) <=> k \in 1..n \/ k = n + 1
  BY <1>1
<1>6. \A a : Carved(a)' <=> \E k \in 1..(n + 1) : a \in M!Chunk(k)'
  BY <1>1 DEF Carved
<1>7. \A a : Carved(a)' <=> (\E k \in 1..n : a \in M!Chunk(k)) \/ a \in (Top + 1)..(Top + b)
  <2>1. n + 1 \in Nat
    BY <1>1
  <2> QED
    BY <1>3, <1>4, <1>5, <1>6, <2>1
<1> QED
  BY <1>1, <1>2, <1>7 DEF Carved

\* allocate with a free block hands out one nobody has.
LEMMA MemAllocates ==
    ASSUME MemInv, M!allocate
    PROVE  MemInv' /\ \E x \in M!Addresses : M!Pool!Take(x)
<1>1. PICK q \in Seq(M!Addresses) : MemList(q)
  BY DEF MemInv
<1>2. mfree # 0 /\ next' = [next EXCEPT ![mfree] = 0] /\ mfree' = next[mfree]
      /\ blocks' = [blocks EXCEPT ![mfree] = blocks[mfree] + 1]
      /\ free_blocks_' = free_blocks_ - 1 /\ UNCHANGED <<all_chunks_, todo>>
  BY DEF M!allocate
<1>3. q # <<>>
  BY <1>1, <1>2 DEF MemList, Linked
<1>4. /\ Tail(q) \in Seq(M!Addresses) /\ Len(Tail(q)) = Len(q) - 1 /\ mfree \in M!Addresses
      /\ Linked(Tail(q), mfree', next')
      /\ \A a : Listed(q, a) <=> a = mfree \/ Listed(Tail(q), a)
      /\ ~Listed(Tail(q), mfree)
  BY <1>1, <1>2, <1>3, LinkTail DEF MemInv, MemTyped, MemList
<1>5. blocks[mfree] = 0
  BY <1>1, <1>4 DEF MemInv, MemTyped, MemList
<1>6. blocks' = [blocks EXCEPT ![mfree] = 1]
  BY <1>2, <1>5
<1>7. \A a : Carved(a)' <=> Carved(a)
  BY <1>2 DEF Carved, M!Chunk
<1>8. MemTyped'
  <2>1. 0 \in M!Addresses \cup {0}
    OBVIOUS
  <2>2. next' \in [M!Addresses -> M!Addresses \cup {0}]
    BY <1>2 DEF MemInv, MemTyped
  <2>3. blocks' \in [M!Addresses -> Nat] /\ \A a \in M!Addresses : blocks'[a] \in {0, 1}
    BY <1>6 DEF MemInv, MemTyped
  <2> QED
    BY <1>2, <2>2, <2>3 DEF MemInv, MemTyped
<1>9. MemFresh'
  <2>1. Top' = Top
    BY <1>2 DEF Top
  <2> QED
    BY <1>2, <1>4, <1>7, <2>1 DEF MemInv, MemTyped, MemFresh
<1>10. MemList(Tail(q))'
  <2>1. free_blocks_' = Len(Tail(q))
    BY <1>1, <1>2, <1>4 DEF MemList
  <2>2. ASSUME NEW a \in M!Addresses
        PROVE  /\ Carved(a) <=> blocks'[a] = 1 \/ Listed(Tail(q), a)
               /\ ~(blocks'[a] = 1 /\ Listed(Tail(q), a))
    <3>1. CASE a = mfree
      BY <1>1, <1>4, <1>6, <3>1 DEF MemInv, MemTyped, MemList
    <3>2. CASE a # mfree
      BY <1>1, <1>4, <1>6, <3>2 DEF MemInv, MemTyped, MemList
    <3> QED
      BY <3>1, <3>2
  <2> QED
    BY <1>4, <1>7, <2>1, <2>2 DEF MemList
<1> QED
  BY <1>4, <1>5, <1>6, <1>8, <1>9, <1>10 DEF MemInv, M!Pool!Take

\* deallocate takes a block back from its holder and puts it in front.
LEMMA MemReturns ==
    ASSUME MemInv, NEW x \in M!Addresses, M!deallocate(x)
    PROVE  MemInv' /\ M!Pool!GiveBack(x)
<1>1. PICK q \in Seq(M!Addresses) : MemList(q)
  BY DEF MemInv
<1>2. /\ blocks[x] > 0 /\ next' = [next EXCEPT ![x] = mfree] /\ mfree' = x
      /\ blocks' = [blocks EXCEPT ![x] = blocks[x] - 1]
      /\ free_blocks_' = free_blocks_ + 1 /\ UNCHANGED <<all_chunks_, todo>>
  BY DEF M!deallocate
<1>3. blocks[x] = 1
  BY <1>2 DEF MemInv, MemTyped
<1>4. blocks' = [blocks EXCEPT ![x] = 0]
  BY <1>2, <1>3
<1>5. Carved(x) /\ ~Listed(q, x)
  BY <1>1, <1>3 DEF MemList
<1>6. M!Addresses \subseteq Nat /\ 0 \notin M!Addresses /\ Top \in Nat
  BY AddressFacts DEF MemInv
<1>7. PICK r \in Seq(M!Addresses) :
          /\ Linked(r, x, next') /\ Len(r) = Len(q) + 1
          /\ \A a : Listed(r, a) <=> a \in x..(x + 1 - 1) \/ Listed(q, a)
  <2>1. x \in Nat /\ x..(x + 1 - 1) = {x} /\ x..(x + 1 - 2) = {} /\ x + 1 - 1 = x
    BY <1>6
  <2>2. \A a \in M!Addresses : next'[a] = IF a \in x..(x + 1 - 2) THEN a + 1
                                          ELSE IF a = x + 1 - 1 THEN mfree ELSE next[a]
    BY <1>2, <2>1 DEF MemInv, MemTyped
  <2>3. next \in [M!Addresses -> M!Addresses \cup {0}] /\ Linked(q, mfree, next)
    BY <1>1 DEF MemInv, MemTyped, MemList
  <2>4. x..(x + 1 - 1) \subseteq M!Addresses /\ \A a \in x..(x + 1 - 1) : ~Listed(q, a)
    BY <1>5, <2>1
  <2> QED
    <3>1. RunBefore(M!Addresses, q, mfree, next, x, 1, next')
      BY <1>6, <2>1, <2>2, <2>3, <2>4 DEF RunBefore
    <3> QED
      BY <3>1, LinkRun
<1>8. \A a : Listed(r, a) <=> a = x \/ Listed(q, a)
  BY <1>6, <1>7
<1>9. \A a : Carved(a)' <=> Carved(a)
  BY <1>2 DEF Carved, M!Chunk
<1>10. MemTyped'
  <2>1. mfree \in M!Addresses \cup {0}
    <3>1. CASE q = <<>>
      BY <1>1, <3>1 DEF MemList, Linked
    <3>2. CASE q # <<>>
      BY <1>1, <3>2, TailFacts DEF MemList, Linked
    <3> QED
      BY <3>1, <3>2
  <2>2. next' \in [M!Addresses -> M!Addresses \cup {0}]
    BY <1>2, <2>1 DEF MemInv, MemTyped
  <2>3. blocks' \in [M!Addresses -> Nat] /\ \A a \in M!Addresses : blocks'[a] \in {0, 1}
    BY <1>4 DEF MemInv, MemTyped
  <2> QED
    BY <1>2, <2>2, <2>3 DEF MemInv, MemTyped
<1>11. MemFresh'
  <2>1. Top' = Top
    BY <1>2 DEF Top
  <2>2. x <= Top
    BY <1>5 DEF MemInv, MemFresh
  <2>3. \A a \in M!Addresses : a > Top => next'[a] = next[a]
    BY <1>2, <1>6, <2>2 DEF MemInv, MemTyped
  <2> QED
    BY <1>9, <2>1, <2>3 DEF MemInv, MemFresh
<1>12. MemList(r)'
  <2>1. free_blocks_' = Len(r) /\ mfree' = x
    BY <1>1, <1>2, <1>7 DEF MemList
  <2>2. ASSUME NEW a \in M!Addresses
        PROVE  /\ Carved(a) <=> blocks'[a] = 1 \/ Listed(r, a)
               /\ ~(blocks'[a] = 1 /\ Listed(r, a))
    <3>1. CASE a = x
      BY <1>4, <1>5, <1>8, <3>1 DEF MemInv, MemTyped
    <3>2. CASE a # x
      BY <1>1, <1>4, <1>8, <3>2 DEF MemInv, MemTyped, MemList
    <3> QED
      BY <3>1, <3>2
  <2> QED
    BY <1>7, <1>9, <2>1, <2>2 DEF MemList
<1> QED
  BY <1>3, <1>4, <1>10, <1>11, <1>12 DEF MemInv, M!Pool!GiveBack

\* The blocks of a new chunk are neither lent nor in the list.
LEMMA FreshBlocks ==
    ASSUME MemInv, NEW q \in Seq(M!Addresses), MemList(q), NEW a \in M!Addresses, a > Top
    PROVE  ~Carved(a) /\ ~Listed(q, a) /\ blocks[a] = 0 /\ next[a] = 0
<1>1. Top \in Nat /\ a \in Nat
  BY AddressFacts DEF MemInv
<1>2. ~Carved(a) /\ next[a] = 0
  BY <1>1 DEF MemInv, MemFresh
<1> QED
  BY <1>2 DEF MemInv, MemTyped, MemList

\* A turn of pre_allocate links its batch in front of the list.
LEMMA MemPreAllocates ==
    ASSUME MemInv, M!pre_allocate
    PROVE  MemInv' /\ UNCHANGED blocks
<1>1. PICK q \in Seq(M!Addresses) : MemList(q)
  BY DEF MemInv
<1>2. /\ M!Addresses \subseteq Nat /\ 0 \notin M!Addresses /\ Top \in Nat
      /\ BlockSize \in Nat /\ BlockSize > 1 /\ M!Base(Len(all_chunks_) + 1) = Top + 1
      /\ Len(all_chunks_) \in Nat /\ M!Addresses = 1..Strided(MaxBlocks)
  BY AddressFacts DEF MemInv
<1>3. todo > 0 /\ Len(all_chunks_) < MaxBlocks /\ UNCHANGED blocks
  BY DEF M!pre_allocate
<1> DEFINE b == IF todo < BlockSize THEN todo ELSE BlockSize
           base == Top + 1
<1>4. /\ all_chunks_' = Append(all_chunks_, b) /\ free_blocks_' = free_blocks_ + b
      /\ next' = [a \in M!Addresses |->
                     IF a \in base..(base + b - 2) THEN a + 1
                     ELSE IF a = base + b - 1 THEN mfree ELSE next[a]]
      /\ mfree' = base /\ todo' = todo - b
  BY <1>2 DEF M!pre_allocate
<1>5. b \in 1..BlockSize /\ b <= todo /\ todo \in Nat
  BY <1>2, <1>3, PoolsAssumption DEF MemInv, MemTyped
<1> HIDE DEF b
<1>6. base..(base + b - 1) \subseteq M!Addresses /\ base \in Nat
  <2>1. (Top + 1)..(Top + BlockSize) \subseteq M!Addresses
    BY <1>3, AddressFacts DEF MemInv
  <2> QED
    BY <1>2, <1>5, <2>1
<1>7. \A a \in base..(base + b - 1) :
          a > Top /\ ~Carved(a) /\ ~Listed(q, a) /\ blocks[a] = 0
  BY <1>1, <1>2, <1>6, FreshBlocks
<1>8. PICK r \in Seq(M!Addresses) :
          /\ Linked(r, base, next') /\ Len(r) = Len(q) + b
          /\ \A a : Listed(r, a) <=> a \in base..(base + b - 1) \/ Listed(q, a)
  <2>1. \A a \in M!Addresses : next'[a] = IF a \in base..(base + b - 2) THEN a + 1
                                          ELSE IF a = base + b - 1 THEN mfree ELSE next[a]
    BY <1>4
  <2>2. next \in [M!Addresses -> M!Addresses \cup {0}] /\ Linked(q, mfree, next)
    BY <1>1 DEF MemInv, MemTyped, MemList
  <2>3. b \in Nat \ {0}
    BY <1>5
  <2> HIDE DEF base
  <2> QED
    <3>1. RunBefore(M!Addresses, q, mfree, next, base, b, next')
      BY <1>2, <1>6, <1>7, <2>1, <2>2, <2>3 DEF RunBefore
    <3> QED
      BY <3>1, LinkRun
<1>9. /\ all_chunks_' \in Seq(1..BlockSize) /\ Len(all_chunks_') = Len(all_chunks_) + 1
      /\ Top' = Top + BlockSize + 1
      /\ \A a \in M!Addresses : Carved(a)' <=> Carved(a) \/ a \in (Top + 1)..(Top + b)
  BY <1>3, <1>4, <1>5, ChunkMade DEF MemInv
<1>10. base..(base + b - 1) = (Top + 1)..(Top + b)
  BY <1>2, <1>5
<1>11. mfree \in M!Addresses \cup {0}
  <2>1. CASE q = <<>>
    BY <1>1, <2>1 DEF MemList, Linked
  <2>2. CASE q # <<>>
    BY <1>1, <2>2, TailFacts DEF MemList, Linked
  <2> QED
    BY <2>1, <2>2
<1>12. MemTyped'
  <2>1. next' \in [M!Addresses -> M!Addresses \cup {0}]
    <3>1. \A a \in base..(base + b - 2) : a + 1 \in base..(base + b - 1)
      BY <1>5, <1>6
    <3>2. \A a \in base..(base + b - 2) : a + 1 \in M!Addresses
      BY <1>6, <3>1
    <3> HIDE DEF base
    <3> QED
      BY <1>4, <1>11, <3>2 DEF MemInv, MemTyped
  <2>2. todo' \in 0..PreAlloc
    <3>1. todo \in 0..PreAlloc /\ PreAlloc \in Nat
      BY PoolsAssumption DEF MemInv, MemTyped
    <3>2. todo' = todo - b
      BY <1>4
    <3> QED
      BY <1>2, <1>5, <3>1, <3>2
  <2>3. Len(all_chunks_') <= MaxBlocks
    BY <1>2, <1>3, <1>9, PoolsAssumption
  <2> QED
    BY <1>3, <1>9, <2>1, <2>2, <2>3 DEF MemInv, MemTyped
<1>13. MemFresh'
  <2>1. ASSUME NEW a \in M!Addresses, Carved(a)' PROVE a <= Top'
    <3>1. a \in Nat /\ (a <= Top \/ a \in (Top + 1)..(Top + b))
      BY <1>2, <1>9, <2>1 DEF MemInv, MemFresh
    <3> QED
      BY <1>2, <1>5, <1>9, <3>1
  <2>2. ASSUME NEW a \in M!Addresses, a > Top' PROVE next'[a] = 0
    <3>1. a \in Nat /\ a > Top /\ a \notin base..(base + b - 2) /\ a # base + b - 1
      BY <1>2, <1>5, <1>9, <2>2
    <3> QED
      BY <1>1, <1>4, <3>1, FreshBlocks
  <2> QED
    BY <2>1, <2>2 DEF MemFresh
<1>14. MemList(r)'
  <2>1. free_blocks_' = Len(r) /\ mfree' = base
    BY <1>1, <1>4, <1>8 DEF MemList
  <2>2. ASSUME NEW a \in M!Addresses
        PROVE  /\ Carved(a)' <=> blocks'[a] = 1 \/ Listed(r, a)
               /\ ~(blocks'[a] = 1 /\ Listed(r, a))
    <3>1. CASE a \in base..(base + b - 1)
      <4>1. blocks'[a] = 0
        BY <1>3, <1>7, <3>1
      <4>2. Listed(r, a) /\ Carved(a)'
        BY <1>8, <1>9, <1>10, <3>1
      <4> QED
        BY <4>1, <4>2
    <3>2. CASE a \notin base..(base + b - 1)
      BY <1>1, <1>3, <1>8, <1>9, <1>10, <3>2 DEF MemList
    <3> QED
      BY <3>1, <3>2
  <2> HIDE DEF base
  <2> QED
    BY <1>8, <2>1, <2>2 DEF MemList
<1> QED
  BY <1>3, <1>12, <1>13, <1>14 DEF MemInv

\* allocate without a free block: of a new chunk the first block is handed out
\* and the others become the list, the last one keeping the null link it has.
LEMMA MemExpands ==
    ASSUME MemInv, M!expand
    PROVE  MemInv' /\ \E x \in M!Addresses : M!Pool!Take(x)
<1>1. PICK q \in Seq(M!Addresses) : MemList(q)
  BY DEF MemInv
<1>2. /\ M!Addresses \subseteq Nat /\ 0 \notin M!Addresses /\ Top \in Nat
      /\ BlockSize \in Nat /\ BlockSize > 1 /\ M!Base(Len(all_chunks_) + 1) = Top + 1
      /\ Len(all_chunks_) \in Nat
  BY AddressFacts DEF MemInv
<1> DEFINE x == Top + 1
           base == Top + 2
           b == BlockSize - 1
<1>3. /\ mfree = 0 /\ Len(all_chunks_) < MaxBlocks /\ UNCHANGED todo
      /\ all_chunks_' = Append(all_chunks_, BlockSize)
      /\ next' = [a \in M!Addresses |->
                     IF a \in (x + 1)..(x + BlockSize - 2) THEN a + 1 ELSE next[a]]
      /\ mfree' = x + 1
      /\ free_blocks_' = free_blocks_ + BlockSize - 1
      /\ blocks' = [blocks EXCEPT ![x] = blocks[x] + 1]
  BY <1>2 DEF M!expand
<1>4. /\ x + 1 = base /\ x + BlockSize - 2 = base + b - 2 /\ base + b - 1 = Top + BlockSize
      /\ base \in Nat /\ b \in Nat \ {0} /\ x < base
  BY <1>2
<1>5. (Top + 1)..(Top + BlockSize) \subseteq M!Addresses
  BY <1>3, AddressFacts DEF MemInv
<1>6. /\ x \in M!Addresses /\ base..(base + b - 1) \subseteq M!Addresses
      /\ \A a \in M!Addresses : a \in (Top + 1)..(Top + BlockSize) <=>
                                a = x \/ a \in base..(base + b - 1)
  BY <1>2, <1>5
<1>7. /\ \A a \in base..(base + b - 1) : a > Top /\ a # x /\ a \in M!Addresses
      /\ x > Top
  BY <1>2, <1>4, <1>6
<1>8. /\ \A a \in base..(base + b - 1) : ~Listed(q, a) /\ blocks[a] = 0 /\ next[a] = 0
      /\ ~Listed(q, x) /\ blocks[x] = 0
  BY <1>1, <1>6, <1>7, FreshBlocks
<1>9. blocks' = [blocks EXCEPT ![x] = 1]
  BY <1>3, <1>8
<1>10. \A a \in M!Addresses : next'[a] = IF a \in base..(base + b - 2) THEN a + 1
                                         ELSE IF a = base + b - 1 THEN mfree ELSE next[a]
  <2>1. base + b - 1 \in base..(base + b - 1)
    BY <1>2
  <2>2. next[base + b - 1] = mfree
    BY <1>3, <1>8, <2>1
  <2>3. \A a \in M!Addresses : next'[a] = IF a \in base..(base + b - 2) THEN a + 1 ELSE next[a]
    BY <1>3, <1>4
  <2> HIDE DEF base, b
  <2> QED
    BY <2>2, <2>3
<1>11. PICK r \in Seq(M!Addresses) :
          /\ Linked(r, base, next') /\ Len(r) = Len(q) + b
          /\ \A a : Listed(r, a) <=> a \in base..(base + b - 1) \/ Listed(q, a)
  <2>1. next \in [M!Addresses -> M!Addresses \cup {0}] /\ Linked(q, mfree, next)
    BY <1>1 DEF MemInv, MemTyped, MemList
  <2> HIDE DEF base, b
  <2>2. RunBefore(M!Addresses, q, mfree, next, base, b, next')
    BY <1>2, <1>4, <1>6, <1>8, <1>10, <2>1 DEF RunBefore
  <2> QED
    BY <2>2, LinkRun
<1>12. /\ all_chunks_' \in Seq(1..BlockSize) /\ Len(all_chunks_') = Len(all_chunks_) + 1
       /\ Top' = Top + BlockSize + 1
       /\ \A a \in M!Addresses : Carved(a)' <=> Carved(a) \/ a \in (Top + 1)..(Top + BlockSize)
  <2>1. BlockSize \in 1..BlockSize
    BY <1>2
  <2> QED
    BY <1>3, <2>1, ChunkMade DEF MemInv
<1>13. MemTyped'
  <2>1. next' \in [M!Addresses -> M!Addresses \cup {0}]
    <3>1. \A a \in base..(base + b - 2) : a + 1 \in base..(base + b - 1)
      BY <1>4
    <3>2. \A a \in base..(base + b - 2) : a + 1 \in M!Addresses
      BY <1>6, <3>1
    <3>3. next' = [a \in M!Addresses |-> IF a \in base..(base + b - 2) THEN a + 1 ELSE next[a]]
      BY <1>3, <1>4
    <3> HIDE DEF base, b
    <3> QED
      BY <3>2, <3>3 DEF MemInv, MemTyped
  <2>2. blocks' \in [M!Addresses -> Nat] /\ \A a \in M!Addresses : blocks'[a] \in {0, 1}
    BY <1>9 DEF MemInv, MemTyped
  <2>3. Len(all_chunks_') <= MaxBlocks
    BY <1>2, <1>3, <1>12, PoolsAssumption
  <2> QED
    BY <1>3, <1>12, <2>1, <2>2, <2>3 DEF MemInv, MemTyped
<1>14. MemFresh'
  <2>1. ASSUME NEW a \in M!Addresses, Carved(a)' PROVE a <= Top'
    <3>1. a \in Nat /\ (a <= Top \/ a \in (Top + 1)..(Top + BlockSize))
      BY <1>2, <1>12, <2>1 DEF MemInv, MemFresh
    <3> QED
      BY <1>2, <1>12, <3>1
  <2>2. ASSUME NEW a \in M!Addresses, a > Top' PROVE next'[a] = 0
    <3>1. a \in Nat /\ a > Top /\ a \notin (x + 1)..(x + BlockSize - 2)
      BY <1>2, <1>12, <2>2
    <3> QED
      BY <1>1, <1>3, <3>1, FreshBlocks
  <2> QED
    BY <2>1, <2>2 DEF MemFresh
<1>15. MemList(r)'
  <2>1. free_blocks_' = Len(r) /\ mfree' = base
    <3>1. Len(q) \in Nat /\ free_blocks_ = Len(q)
      BY <1>1, SeqFacts DEF MemList
    <3> QED
      BY <1>2, <1>3, <1>11, <3>1
  <2>2. ASSUME NEW a \in M!Addresses
        PROVE  /\ Carved(a)' <=> blocks'[a] = 1 \/ Listed(r, a)
               /\ ~(blocks'[a] = 1 /\ Listed(r, a))
    <3>1. CASE a \in base..(base + b - 1)
      <4>1. blocks'[a] = 0
        BY <1>7, <1>8, <1>9, <3>1 DEF MemInv, MemTyped
      <4>2. Listed(r, a) /\ Carved(a)'
        BY <1>6, <1>11, <1>12, <3>1
      <4> QED
        BY <4>1, <4>2
    <3>2. CASE a = x
      <4>1. blocks'[a] = 1 /\ Carved(a)'
        BY <1>6, <1>9, <1>12, <3>2 DEF MemInv, MemTyped
      <4>2. ~Listed(r, a)
        BY <1>7, <1>8, <1>11, <3>2
      <4> QED
        BY <4>1, <4>2
    <3>3. CASE a # x /\ a \notin base..(base + b - 1)
      <4>1. blocks'[a] = blocks[a] /\ (Listed(r, a) <=> Listed(q, a)) /\ (Carved(a)' <=> Carved(a))
        BY <1>6, <1>9, <1>11, <1>12, <3>3 DEF MemInv, MemTyped
      <4> QED
        BY <1>1, <4>1 DEF MemList
    <3> QED
      BY <3>1, <3>2, <3>3
  <2> HIDE DEF base
  <2> QED
    BY <1>11, <2>1, <2>2 DEF MemList
<1> QED
  BY <1>6, <1>8, <1>9, <1>13, <1>14, <1>15 DEF MemInv, M!Pool!Take

\* Every step of the memory pool.
LEMMA MemSteps ==
    ASSUME MemInv, M!Next
    PROVE  MemInv' /\ (blocks' = blocks \/ M!Pool!Next)
<1>1. CASE M!pre_allocate_fails
  <2>1. todo' = 0 /\ UNCHANGED <<mfree, next, all_chunks_, free_blocks_, blocks>>
    BY <1>1 DEF M!pre_allocate_fails
  <2>2. \A a : Carved(a)' <=> Carved(a)
    BY <2>1 DEF Carved, M!Chunk
  <2>3. MemTyped'
    BY <2>1, PoolsAssumption DEF MemInv, MemTyped
  <2>4. MemFresh'
    BY <2>1, <2>2 DEF MemInv, MemFresh, Top
  <2>5. \A q \in Seq(M!Addresses) : MemList(q) => MemList(q)'
    BY <2>1, <2>2 DEF MemList
  <2> QED
    BY <2>1, <2>3, <2>4, <2>5 DEF MemInv
<1> QED
  BY <1>1, MemPreAllocates, MemAllocates, MemExpands, MemReturns DEF M!Next, M!Pool!Next

\* What FreeListSound says of the links, with the list existing instead of
\* computed: for any block size and any numbers of blocks and calls there is a
\* list from free_list_ through next to nullptr that visits no block twice,
\* visits the blocks of the chunks that are not lent and no other, and has
\* free_blocks_ blocks.
THEOREM FreeBlocksLinked == PoolsSpec => []MemInv
<1>1. M!Init => MemInv
  <2> SUFFICES ASSUME M!Init PROVE MemInv
    OBVIOUS
  <2>1. M!Init
    BY DEF M!Init
  <2>2. all_chunks_ = <<>> /\ all_chunks_ \in Seq(1..BlockSize) /\ Len(all_chunks_) = 0
    BY <2>1 DEF M!Init
  <2>3. /\ \A a \in M!Addresses : next[a] = 0 /\ blocks[a] = 0
        /\ blocks \in [M!Addresses -> Nat] /\ next \in [M!Addresses -> M!Addresses \cup {0}]
        /\ todo = PreAlloc /\ mfree = 0 /\ free_blocks_ = 0
    BY <2>1 DEF M!Init
  <2>4. MemTyped
    BY <2>2, <2>3, PoolsAssumption DEF MemTyped
  <2>5. \A a : ~Carved(a)
    BY <2>2 DEF Carved
  <2>6. MemFresh
    BY <2>3, <2>5 DEF MemFresh
  <2>7. <<>> \in Seq(M!Addresses) /\ Len(<<>>) = 0
    BY NoElements
  <2>8. Linked(<<>>, mfree, next) /\ \A a : ~Listed(<<>>, a)
    BY <2>3, <2>7 DEF Linked, Listed
  <2>9. MemList(<<>>)
    BY <2>3, <2>5, <2>7, <2>8 DEF MemList
  <2> QED
    BY <2>4, <2>6, <2>7, <2>9 DEF MemInv
<1>2. MemInv /\ [M!Next]_(M!vars) => MemInv'
  <2> SUFFICES ASSUME MemInv, [M!Next]_(M!vars) PROVE MemInv'
    OBVIOUS
  <2>1. CASE M!Next
    BY <2>1, MemSteps
  <2>2. CASE UNCHANGED M!vars
    <3>1. UNCHANGED <<mfree, next, all_chunks_, free_blocks_, todo, blocks>>
      BY <2>2 DEF M!vars
    <3>2. \A a : Carved(a)' <=> Carved(a)
      BY <3>1 DEF Carved, M!Chunk
    <3>3. MemTyped' /\ MemFresh'
      BY <3>1, <3>2 DEF MemInv, MemTyped, MemFresh, Top
    <3>4. \A q \in Seq(M!Addresses) : MemList(q) => MemList(q)'
      BY <3>1, <3>2 DEF MemList
    <3> QED
      BY <3>3, <3>4 DEF MemInv
  <2> QED
    BY <2>1, <2>2 DEF M!vars
<1> QED
  BY <1>1, <1>2, PTL DEF PoolsSpec, M!Spec

\* Every block of a chunk has an address.
LEMMA CarvedAddresses == ASSUME MemTyped, NEW a, Carved(a) PROVE a \in M!Addresses
<1>1. PICK k \in 1..Len(all_chunks_) : a \in M!Chunk(k)
  BY DEF Carved
<1>2. /\ M!Addresses = 1..Strided(MaxBlocks) /\ Len(all_chunks_) \in Nat
      /\ BlockSize \in Nat /\ MaxBlocks \in Nat
  BY AddressFacts, PoolsAssumption
<1>3. all_chunks_[k] \in 1..BlockSize /\ k - 1 \in Nat /\ k \in Nat /\ k <= MaxBlocks
  BY <1>2, SeqFacts DEF MemTyped
<1>4. M!Base(k) = Strided(k - 1) + 1
  BY DEF M!Base, M!Stride, Strided
<1>5. /\ Strided(k - 1) \in Nat /\ Strided(k) = Strided(k - 1) + BlockSize + 1
      /\ Strided(k) <= Strided(MaxBlocks) /\ Strided(MaxBlocks) \in Nat
  <2>1. (k - 1) + 1 = k
    BY <1>3
  <2> QED
    BY <1>2, <1>3, <2>1, StridedFacts
<1>6. a \in (Strided(k - 1) + 1)..(Strided(k - 1) + all_chunks_[k])
  <2>1. a \in M!Base(k)..(M!Base(k) + all_chunks_[k] - 1)
    BY <1>1 DEF M!Chunk
  <2> QED
    BY <1>3, <1>4, <1>5, <2>1
<1> QED
  BY <1>2, <1>3, <1>5, <1>6

\* A set of numbers that is not empty has a least one: what takes the place of
\* induction below.
LEMMA LeastNumber ==
    ASSUME NEW X \in SUBSET Nat, X # {}
    PROVE  \E x \in X : \A y \in X : x <= y
<1> DEFINE Less == {ss \in Nat \X Nat : ss[1] < ss[2]}
<1>1. IsWellFoundedOn(Less, Nat)
  BY NatLessThanWellFounded DEF OpToRel
<1>2. \A x, y \in Nat : <<y, x>> \in Less <=> y < x
  OBVIOUS
<1> HIDE DEF Less
<1>3. PICK x \in X : \A y \in X : ~(<<y, x>> \in Less)
  BY <1>1, WFMin
<1>4. \A y \in X : x <= y
  <2> TAKE y \in X
  <2>1. x \in Nat /\ y \in Nat /\ ~(y < x)
    BY <1>2, <1>3
  <2> QED
    BY <2>1
<1> QED
  BY <1>4

\* Following the links from free_list_ gives the elements of the list in turn
\* and then nullptr.
LEMMA LinksFollowed ==
    ASSUME NEW A, NEW q \in Seq(A), 0 \notin A, Linked(q, mfree, next)
    PROVE  \A n \in Nat : M!Nth[n] = IF n < Len(q) THEN q[n + 1] ELSE 0
<1> DEFINE Follows(f) == f = [n \in Nat |-> IF n = 0 THEN mfree
                                          ELSE IF f[n - 1] = 0 THEN 0 ELSE next[f[n - 1]]]
           g == [n \in Nat |-> IF n < Len(q) THEN q[n + 1] ELSE 0]
<1>1. Len(q) \in Nat /\ \A i \in 1..Len(q) : q[i] \in A /\ q[i] # 0
  BY SeqFacts
<1>2. g[0] = mfree
  <2>1. CASE q = <<>>
    BY <2>1 DEF Linked
  <2>2. CASE q # <<>>
    BY <2>2, TailFacts DEF Linked
  <2> QED
    BY <2>1, <2>2
<1>3. ASSUME NEW n \in Nat, n # 0 PROVE g[n] = IF g[n - 1] = 0 THEN 0 ELSE next[g[n - 1]]
  <2>1. n - 1 \in Nat /\ (n - 1) + 1 = n
    BY <1>3
  <2>2. CASE n - 1 < Len(q)
    <3>1. n \in 1..Len(q) /\ g[n - 1] = q[n] /\ q[n] # 0
      BY <1>1, <1>3, <2>1, <2>2
    <3>2. next[q[n]] = IF n = Len(q) THEN 0 ELSE q[n + 1]
      BY <3>1 DEF Linked
    <3>3. n < Len(q) <=> n # Len(q)
      BY <1>1, <3>1
    <3> QED
      BY <3>1, <3>2, <3>3
  <2>3. CASE ~(n - 1 < Len(q))
    <3>1. ~(n < Len(q)) /\ g[n - 1] = 0
      BY <1>1, <2>1, <2>3
    <3> QED
      BY <3>1
  <2> QED
    BY <2>2, <2>3
<1>4. DOMAIN g = Nat /\ g = [n \in Nat |-> g[n]]
  OBVIOUS
<1> HIDE DEF g
<1>5. Follows(g)
  BY <1>2, <1>3, <1>4
<1>6. M!Nth = CHOOSE f : Follows(f)
  BY DEF M!Nth
<1>7. Follows(M!Nth)
  BY <1>5, <1>6
<1>8. M!Nth[0] = mfree
  BY <1>7
<1>9. \A n \in Nat : n # 0 =>
          M!Nth[n] = IF M!Nth[n - 1] = 0 THEN 0 ELSE next[M!Nth[n - 1]]
  BY <1>7
<1>10. \A n \in Nat : M!Nth[n] = g[n]
  <2> DEFINE X == {n \in Nat : M!Nth[n] # g[n]}
  <2> SUFFICES ASSUME X # {} PROVE FALSE
    OBVIOUS
  <2>1. X \in SUBSET Nat
    OBVIOUS
  <2>2. PICK x \in X : \A y \in X : x <= y
    BY <2>1, LeastNumber
  <2>3. x \in Nat /\ x # 0 /\ x - 1 \in Nat /\ M!Nth[x] # g[x]
    BY <1>2, <1>8
  <2>4. M!Nth[x - 1] = g[x - 1]
    BY <2>2, <2>3
  <2> QED
    BY <1>3, <1>9, <2>3, <2>4
<1> QED
  BY <1>10 DEF g

\* MemInv says what FreeListSound says.
LEMMA ListSound == ASSUME MemInv PROVE M!FreeListSound
<1>1. PICK q \in Seq(M!Addresses) : MemList(q)
  BY DEF MemInv
<1>2. M!Addresses \subseteq Nat /\ 0 \notin M!Addresses /\ Linked(q, mfree, next)
  BY <1>1, AddressFacts DEF MemInv, MemList
<1>3. free_blocks_ = Len(q) /\ Len(q) \in Nat /\ \A i \in 1..Len(q) : q[i] \in M!Addresses
  BY <1>1, SeqFacts DEF MemList
<1>4. M!Nth[Len(q)] = 0 /\ \A i \in 1..Len(q) : M!Nth[i - 1] = q[i]
  <2>1. \A n \in Nat : M!Nth[n] = IF n < Len(q) THEN q[n + 1] ELSE 0
    BY <1>2, LinksFollowed
  <2>2. \A i \in 1..Len(q) : i - 1 \in Nat /\ i - 1 < Len(q) /\ (i - 1) + 1 = i
    BY <1>3
  <2> QED
    BY <1>3, <2>1, <2>2
<1>5. M!TypeOK
  <2>1. mfree \in M!Addresses \cup {0}
    <3>1. CASE q = <<>>
      BY <1>2, <3>1 DEF Linked
    <3>2. CASE q # <<>>
      BY <1>2, <3>2, TailFacts DEF Linked
    <3> QED
      BY <3>1, <3>2
  <2> QED
    BY <1>3, <2>1 DEF MemInv, MemTyped, M!TypeOK
<1> DEFINE free == {M!Nth[n - 1] : n \in 1..free_blocks_}
           lent == {a \in M!Addresses : blocks[a] > 0}
           carved == UNION {M!Chunk(k) : k \in 1..Len(all_chunks_)}
<1>6. \A a : a \in free <=> Listed(q, a)
  BY <1>3, <1>4 DEF Listed
<1>7. \A a : a \in lent <=> a \in M!Addresses /\ blocks[a] = 1
  BY DEF MemInv, MemTyped
<1>8. \A a : a \in carved <=> Carved(a)
  BY DEF Carved
<1>9. \A a : Listed(q, a) => a \in M!Addresses
  BY <1>3 DEF Listed
<1>10. \A a : Carved(a) => a \in M!Addresses
  BY CarvedAddresses DEF MemInv
<1>11. \A m, n \in 1..free_blocks_ : M!Nth[m - 1] = M!Nth[n - 1] => m = n
  BY <1>2, <1>3, <1>4 DEF Linked
<1> HIDE DEF free, lent, carved
<1>12. free \cap lent = {}
  BY <1>1, <1>6, <1>7 DEF MemList
<1>13. free \cup lent = carved
  <2>1. \A a : a \in free \cup lent <=> a \in carved
    BY <1>1, <1>6, <1>7, <1>8, <1>9, <1>10 DEF MemList
  <2> QED
    BY <2>1
<1> QED
  BY <1>3, <1>4, <1>5, <1>11, <1>12, <1>13 DEF M!FreeListSound, free, lent, carved

\* FreeListsSound: a slot is at one place, and the links of the free list lead
\* through the free blocks, once each.
THEOREM FreeListsAreSound == PoolsSpec => []FreeListsSound
<1>1. MemInv => M!FreeListSound
  BY ListSound
<1> QED
  BY <1>1, SlotsInOnePlace, FreeBlocksLinked, PTL DEF FreeListsSound

\* The memory pool implements Lending: no block is handed out twice.
THEOREM BlocksLent == PoolsSpec => M!ImplementsLending
<1>1. M!Init => M!Pool!Init
  BY DEF M!Init, M!Pool!Init
<1>2. MemInv /\ [M!Next]_(M!vars) => [M!Pool!Next]_blocks
  <2> SUFFICES ASSUME MemInv, [M!Next]_(M!vars) PROVE [M!Pool!Next]_blocks
    OBVIOUS
  <2>1. CASE M!Next
    BY <2>1, MemSteps
  <2>2. CASE UNCHANGED M!vars
    BY <2>2 DEF M!vars
  <2> QED
    BY <2>1, <2>2 DEF M!vars
<1> QED
  BY <1>1, <1>2, FreeBlocksLinked, PTL DEF PoolsSpec, M!Spec, M!ImplementsLending, M!Pool!Spec

-----------------------------------------------------------------------------
\* The three pools implement Lending: whatever the callers and threads do, an
\* object, a block or a connection has one holder at a time.
THEOREM PoolsLend == PoolsSpec => ImplementsLending
BY ObjectsLent, BlocksLent, ConnectionsLent, PTL DEF ImplementsLending

=============================================================================
