-------------------------- MODULE TimerLoopProofs ---------------------------
(***************************************************************************)
(* Proofs about TimerLoop, for any number of clients and any delays; and   *)
(* about TcpServer, for any number of connections, any range of the clock  *)
(* and any timeout.                                                        *)
(***************************************************************************)
EXTENDS TimerLoop, TcpServer, HeapProofs, FiniteSetTheorems, TLAPS

-----------------------------------------------------------------------------
(***************************************************************************)
(* TimerLoop                                                               *)
(***************************************************************************)

\* The places of the entry of a client, as TimerLoop's Places names them.
InItems(c) == Has(items, c)
InPending(c) == Has(pending_add, c)
InFired(c) == Has(loop.fired, c)
InHand(c) == Holding /\ loop.entry.of = c

\* add of this client has pushed its entry.
Added(c) == client[c].pc \in {"added", "done"}

\* The parts of the records of the thread and of the clients.
ThreadShape ==
    /\ ThreadTypeOK
    /\ loop = [pc |-> loop.pc, fired |-> loop.fired, entry |-> loop.entry]
    /\ client = [c \in Clients |-> [pc |-> client[c].pc, entry |-> client[c].entry]]
    /\ \A c \in Clients :
          /\ client[c].pc \in {"add", "store", "push", "added", "done"}
          /\ client[c].pc \in {"store", "push"} => client[c].entry.of = c /\ ~client[c].entry.cancelled
    /\ loop.pc \in {"none", "test", "merge", "asleep"} => loop.fired = <<>>
    /\ loop.pc = "fire" => loop.fired # <<>>
    /\ owner = "idle" => loop.pc = "none"

\* What the vectors and the thread have is what add accepted: an entry in the heap
\* is marked if and only if a cancel found it, and no other entry is.
EntriesInv ==
    /\ OnceOf(items) /\ OnceOf(pending_add) /\ OnceOf(loop.fired)
    /\ \A i \in 1..Len(items) :
          /\ items[i].interval_ms = client[items[i].of].entry.interval_ms
          /\ items[i].cancelled <=> items[i].of \in marked
    /\ \A i \in 1..Len(pending_add) :
          /\ pending_add[i].interval_ms = client[pending_add[i].of].entry.interval_ms
          /\ ~pending_add[i].cancelled
    /\ \A i \in 1..Len(loop.fired) :
          /\ loop.fired[i].interval_ms = client[loop.fired[i].of].entry.interval_ms
          /\ ~loop.fired[i].cancelled
          /\ loop.fired[i].expire_at <= tick
    /\ Holding => /\ loop.entry.interval_ms = client[loop.entry.of].entry.interval_ms
                    /\ ~loop.entry.cancelled /\ Repeats(loop.entry)

\* The timer of one client is in one place or has ended, and it is in none before
\* add has pushed it.
OwnerInv(c) ==
    /\ ~Added(c) => called[c] = 0 /\ c \notin marked
    /\ InItems(c) \/ InPending(c) \/ InFired(c) \/ InHand(c) => Added(c)
    /\ InItems(c) => ~InPending(c) /\ ~InFired(c) /\ ~InHand(c)
    /\ InPending(c) => ~InFired(c) /\ ~InHand(c)
    /\ InFired(c) => ~InHand(c)
    /\ InPending(c) \/ InFired(c) \/ InHand(c) => c \notin marked
    /\ (InItems(c) \/ InPending(c) \/ InFired(c)) /\ ~Repeats(client[c].entry) => called[c] = 0
    /\ Added(c) => \/ InItems(c) \/ InPending(c) \/ InFired(c) \/ InHand(c)
                   \/ c \in marked
                   \/ ~Repeats(client[c].entry) /\ called[c] = 1

ThreadInv == ThreadShape /\ EntriesInv /\ \A c \in Clients : OwnerInv(c)

\* The entries of TimerLoop are entries for the heap.
LEMMA LoopEntries ==
    /\ Entries(EntrySet) /\ \A e \in EntrySet : Marked(e) \in EntrySet
    /\ \A e \in EntrySet : e.of \in Clients /\ e.interval_ms \in Nat /\ e.expire_at \in Nat /\ e.id \in Nat
<1>1. Delays \subseteq Nat
  BY TimerAssumption
<1>2. Entries(EntrySet)
  BY DEF Entries, EntrySet
<1>3. ASSUME NEW e \in EntrySet PROVE Marked(e) \in EntrySet
  BY DEF EntrySet, Marked
<1>4. ASSUME NEW e \in EntrySet
      PROVE  e.of \in Clients /\ e.interval_ms \in Nat /\ e.expire_at \in Nat /\ e.id \in Nat
  <2>1. e.of \in Clients /\ e.interval_ms \in {0} \cup Delays /\ e.expire_at \in Nat /\ e.id \in Nat
    BY DEF EntrySet
  <2>2. \A d \in {0} \cup Delays : d \in Nat
    BY <1>1
  <2>3. e.interval_ms \in Nat
    BY <2>1, <2>2, Zenon
  <2> QED
    BY <2>1, <2>3
<1> QED
  BY <1>2, <1>3, <1>4

\* The owner of an entry in a vector.
LEMMA OwnerOf ==
    ASSUME NEW s \in Seq(EntrySet), NEW i \in 1..Len(s)
    PROVE  s[i] \in EntrySet /\ s[i].of \in Clients /\ Has(s, s[i].of)
<1>1. s[i] \in EntrySet
  OBVIOUS
<1> QED
  BY <1>1, LoopEntries DEF Has

\* A step that leaves the entries where they are: the clock, start, stop, the test
\* of running and the two first steps of the re-entry of a repeating timer.
LEMMA QuietStep ==
    ASSUME ThreadInv, ThreadShape', tick <= tick', tick \in Int, tick' \in Int,
           UNCHANGED <<items, pending_add, client, called, marked>>,
           loop'.fired = loop.fired, Holding' = Holding,
           Holding => /\ loop'.entry.of = loop.entry.of
                        /\ loop'.entry.interval_ms = loop.entry.interval_ms
                        /\ ~loop'.entry.cancelled
    PROVE  ThreadInv'
<1>1. ASSUME NEW i \in 1..Len(loop.fired) PROVE loop.fired[i].expire_at <= tick'
  <2>1. loop.fired[i] \in EntrySet /\ loop.fired[i].expire_at <= tick
    BY DEF ThreadInv, ThreadShape, ThreadTypeOK, EntriesInv
  <2>2. loop.fired[i].expire_at \in Int
    BY <2>1, LoopEntries
  <2> QED
    BY <2>1, <2>2
<1>2. EntriesInv'
  BY <1>1 DEF ThreadInv, EntriesInv, OnceOf, Repeats
<1>3. ASSUME NEW c \in Clients PROVE OwnerInv(c)'
  <2>1. OwnerInv(c)
    BY DEF ThreadInv
  <2>2. InItems(c)' = InItems(c) /\ InPending(c)' = InPending(c) /\ InFired(c)' = InFired(c)
    BY DEF InItems, InPending, InFired, Has
  <2>3. InHand(c)' = InHand(c) /\ Added(c)' = Added(c)
    BY DEF InHand, Added
  <2> QED
    BY <2>1, <2>2, <2>3 DEF OwnerInv, Repeats
<1> QED
  BY <1>2, <1>3 DEF ThreadInv

\* The part of a record that a step of the thread does not change.
LEMMA LoopShape ==
    ASSUME ThreadShape
    PROVE  /\ tick \in 0..MaxTick /\ tick \in Nat /\ tick \in Int /\ next_id \in Nat
           /\ items \in Seq(EntrySet) /\ pending_add \in Seq(EntrySet) /\ loop.fired \in Seq(EntrySet)
           /\ Holding => loop.entry \in EntrySet
           /\ \A p : [loop EXCEPT !.pc = p] = [pc |-> p, fired |-> loop.fired, entry |-> loop.entry]
<1>1. \A p : [loop EXCEPT !.pc = p] = [pc |-> p, fired |-> loop.fired, entry |-> loop.entry]
  BY DEF ThreadShape
<1> QED
  BY <1>1, TimerAssumption DEF ThreadShape, ThreadTypeOK

\* A step of the thread that takes no client with it keeps the shape.
LEMMA ShapeKept ==
    ASSUME ThreadShape, client' = client, tick' \in 0..MaxTick, next_id' \in Nat,
           items' \in Seq(EntrySet), pending_add' \in Seq(EntrySet),
           owner' \in {"idle", "running", "joining"}, starts' \in 0..MaxStarts,
           called' \in [Clients -> Nat], marked' \subseteq Clients,
           NEW p \in {"none", "test", "merge", "asleep", "fire", "again", "againstore", "againpush"},
           NEW g \in Seq(EntrySet), NEW e, loop' = [pc |-> p, fired |-> g, entry |-> e],
           p \in {"again", "againstore", "againpush"} => e \in EntrySet,
           p \in {"none", "test", "merge", "asleep"} => g = <<>>,
           p = "fire" => g # <<>>, owner' = "idle" => p = "none"
    PROVE  ThreadShape'
<1>1. loop'.pc = p /\ loop'.fired = g /\ loop'.entry = e
  OBVIOUS
<1>2. ThreadTypeOK'
  BY <1>1 DEF ThreadShape, ThreadTypeOK, Holding
<1>3. loop' = [pc |-> loop'.pc, fired |-> loop'.fired, entry |-> loop'.entry]
  BY <1>1
<1> QED
  BY <1>1, <1>2, <1>3 DEF ThreadShape

\* The clock, start, stop and its join, the test of running, and the reading and
\* storing of next_id for a repeating timer.
LEMMA QuietSteps ==
    ASSUME ThreadInv,
           ThreadTick \/ Start \/ Stop \/ StopJoined \/ LoopTest \/ AgainRead \/ AgainStore
    PROVE  ThreadInv'
<1> DEFINE g == loop.fired
           d == loop.entry
<1>1. ThreadShape /\ g \in Seq(EntrySet) /\ tick \in 0..MaxTick /\ tick \in Nat /\ next_id \in Nat
  BY LoopShape DEF ThreadInv
<1>2. /\ items \in Seq(EntrySet) /\ pending_add \in Seq(EntrySet)
      /\ owner \in {"idle", "running", "joining"} /\ starts \in 0..MaxStarts
      /\ called \in [Clients -> Nat] /\ marked \subseteq Clients
      /\ loop.pc \in {"none", "test", "merge", "asleep", "fire", "again", "againstore", "againpush"}
      /\ loop.pc \in {"none", "test", "merge", "asleep"} => g = <<>>
      /\ loop.pc = "fire" => g # <<>>
      /\ Holding => d \in EntrySet
      /\ loop = [pc |-> loop.pc, fired |-> g, entry |-> d]
  BY <1>1 DEF ThreadShape, ThreadTypeOK
<1>3. CASE ThreadTick
  <2>1. tick' \in 0..MaxTick /\ tick <= tick' /\ tick' \in Int /\ tick \in Int
    BY <1>1, <1>3, TimerAssumption DEF ThreadTick
  <2>2. ThreadShape'
    BY <1>1, <1>3, <2>1 DEF ThreadShape, ThreadTypeOK, ThreadTick, Holding
  <2> QED
    BY <1>3, <2>1, <2>2, QuietStep DEF ThreadTick, Holding, EntriesInv, ThreadInv
<1>4. CASE Stop \/ StopJoined
  <2>1. owner' \in {"idle", "running", "joining"} /\ UNCHANGED <<tick, next_id, items, pending_add, starts, loop, client, called, marked>>
    BY <1>4 DEF Stop, StopJoined
  <2>2. ThreadShape'
    BY <1>1, <1>4, <2>1 DEF ThreadShape, ThreadTypeOK, Holding, Stop, StopJoined
  <2>3. tick \in Int /\ tick' \in Int /\ tick <= tick'
    BY <1>1, <2>1
  <2> QED
    BY <2>1, <2>2, <2>3, QuietStep DEF Holding, EntriesInv, ThreadInv
<1>5. ASSUME NEW p \in {"none", "test", "merge"}, loop' = [loop EXCEPT !.pc = p],
             loop.pc \in {"none", "test"},
             UNCHANGED <<tick, next_id, items, pending_add, client, called, marked>>,
             owner' \in {"running", "joining"}, starts' \in 0..MaxStarts
      PROVE  ThreadInv'
  <2>1. loop' = [pc |-> p, fired |-> g, entry |-> d]
    BY <1>1, <1>5, LoopShape
  <2>2. g = <<>>
    BY <1>2, <1>5
  <2>3. ThreadShape'
    BY <1>1, <1>2, <1>5, <2>1, <2>2, ShapeKept
  <2>4. ~Holding /\ ~Holding' /\ loop'.fired = loop.fired /\ tick \in Int /\ tick' \in Int /\ tick <= tick'
    BY <1>1, <1>5, <2>1 DEF Holding
  <2>5. UNCHANGED <<items, pending_add, client, called, marked>> /\ Holding' = Holding
    BY <1>5, <2>4 DEF Holding
  <2> QED
    BY <2>3, <2>4, <2>5, QuietStep
<1>6. CASE LoopTest
  <2>1. owner' \in {"running", "joining"} /\ loop.pc \in {"none", "test"}
    BY <1>1, <1>2, <1>6 DEF LoopTest, ThreadShape
  <2> QED
    BY <1>2, <1>5, <1>6, <2>1 DEF LoopTest
<1>7. CASE Start
  <2>1. loop.pc \in {"none", "test"}
    BY <1>1, <1>7 DEF Start, ThreadShape
  <2>2. starts' \in 0..MaxStarts
    BY <1>2, <1>7, StartsAssumption DEF Start
  <2> QED
    BY <1>2, <1>5, <1>7, <2>1, <2>2 DEF Start
<1>8. CASE AgainStore
  <2>1. loop' = [pc |-> "againpush", fired |-> g, entry |-> d] /\ loop.pc = "againstore"
    BY <1>1, <1>8, LoopShape DEF AgainStore
  <2>2. d \in EntrySet /\ Holding /\ ~d.cancelled
    BY <1>2, <2>1 DEF Holding, ThreadInv, EntriesInv
  <2>3. next_id' \in Nat
    BY <1>8, <2>2, LoopEntries DEF AgainStore
  <2>4. UNCHANGED <<tick, items, pending_add, owner, starts, client, called, marked>>
    BY <1>8 DEF AgainStore
  <2>5. ThreadShape'
    <3>1. owner' # "idle"
      BY <1>1, <2>1, <2>4 DEF ThreadShape
    <3> QED
      BY <1>1, <1>2, <2>1, <2>2, <2>3, <2>4, <3>1, ShapeKept
  <2>6. Holding' /\ loop'.fired = loop.fired /\ loop'.entry = d /\ tick \in Int /\ tick' \in Int /\ tick <= tick'
    BY <1>1, <2>1, <2>4 DEF Holding
  <2> QED
    BY <2>2, <2>4, <2>5, <2>6, QuietStep
<1>9. CASE AgainRead
  <2>1. loop.pc = "again" /\ Holding
    BY <1>9 DEF AgainRead, Holding
  <2>2. d \in EntrySet
    BY <1>2, <2>1
  <2>3. PICK e : e = Entry(d.of, next_id + 1, tick + d.interval_ms, d.interval_ms)
    OBVIOUS
  <2>4. e \in EntrySet /\ e.of = d.of /\ e.interval_ms = d.interval_ms /\ ~e.cancelled
    <3>1. d.of \in Clients /\ d.interval_ms \in {0} \cup Delays /\ d.interval_ms \in Nat
      BY <2>2, LoopEntries DEF EntrySet
    <3> QED
      BY <1>1, <2>3, <3>1 DEF Entry, EntrySet
  <2>5. loop' = [pc |-> "againstore", fired |-> g, entry |-> e]
    BY <1>2, <1>9, <2>3 DEF AgainRead
  <2>6. UNCHANGED <<tick, next_id, items, pending_add, owner, starts, client, called, marked>>
    BY <1>9 DEF AgainRead
  <2>7. ThreadShape'
    <3>1. owner' # "idle"
      BY <1>1, <2>1, <2>6 DEF ThreadShape
    <3> QED
      BY <1>1, <1>2, <2>4, <2>5, <2>6, <3>1, ShapeKept
  <2>8. Holding' /\ loop'.fired = loop.fired /\ loop'.entry = e /\ tick \in Int /\ tick' \in Int /\ tick <= tick'
    BY <1>1, <2>5, <2>6 DEF Holding
  <2> QED
    BY <2>1, <2>4, <2>6, <2>7, <2>8, QuietStep
<1> QED
  BY <1>3, <1>4, <1>6, <1>7, <1>8, <1>9

\* A client's step: its record, and the shape of the rest.
LEMMA ClientShape ==
    ASSUME ThreadShape, NEW c \in Clients, NEW p \in {"store", "push", "added", "done"},
           NEW e \in EntrySet, p \in {"store", "push"} => e.of = c /\ ~e.cancelled,
           client' = [client EXCEPT ![c] = [pc |-> p, entry |-> e]],
           UNCHANGED <<tick, owner, starts, loop, called>>, next_id' \in Nat,
           items' \in Seq(EntrySet), pending_add' \in Seq(EntrySet), marked' \subseteq Clients
    PROVE  /\ ThreadShape' /\ client'[c].pc = p /\ client'[c].entry = e
           /\ \A d \in Clients : d # c => client'[d] = client[d]
<1>1. DOMAIN client = Clients
  BY DEF ThreadShape
<1>2. client'[c] = [pc |-> p, entry |-> e] /\ \A d \in Clients : d # c => client'[d] = client[d]
  BY <1>1
<1>3. client'[c].pc = p /\ client'[c].entry = e
  BY <1>2
<1>4. ASSUME NEW d \in Clients
      PROVE  /\ client'[d] = [pc |-> client'[d].pc, entry |-> client'[d].entry]
             /\ client'[d].pc \in {"add", "store", "push", "added", "done"}
             /\ client'[d].pc # "add" => client'[d].entry \in EntrySet
             /\ client'[d].pc \in {"store", "push"} => client'[d].entry.of = d /\ ~client'[d].entry.cancelled
  <2>1. CASE d = c
    BY <1>2, <1>3, <2>1
  <2>2. CASE d # c
    <3>1. client[d] = [pc |-> client[d].pc, entry |-> client[d].entry]
      BY DEF ThreadShape
    <3> QED
      BY <1>2, <2>2, <3>1 DEF ThreadShape, ThreadTypeOK
  <2> QED
    BY <2>1, <2>2
<1>5. client' = [d \in Clients |-> [pc |-> client'[d].pc, entry |-> client'[d].entry]]
  <2>1. DOMAIN client' = Clients /\ client' = [d \in DOMAIN client' |-> client'[d]]
    BY <1>1
  <2> QED
    BY <1>4, <2>1
<1>6. ThreadTypeOK'
  BY <1>4 DEF ThreadShape, ThreadTypeOK, Holding
<1> QED
  BY <1>2, <1>3, <1>4, <1>5, <1>6 DEF ThreadShape

\* Before add has pushed it, no entry of the client is anywhere.
LEMMA Absent ==
    ASSUME ThreadInv, NEW c \in Clients, ~Added(c)
    PROVE  /\ \A i \in 1..Len(items) : items[i].of # c
           /\ \A i \in 1..Len(pending_add) : pending_add[i].of # c
           /\ \A i \in 1..Len(loop.fired) : loop.fired[i].of # c
           /\ Holding => loop.entry.of # c
           /\ ~InItems(c) /\ ~InPending(c) /\ ~InFired(c) /\ ~InHand(c)
<1>1. OwnerInv(c)
  BY DEF ThreadInv
<1>2. ~InItems(c) /\ ~InPending(c) /\ ~InFired(c) /\ ~InHand(c)
  BY <1>1 DEF OwnerInv
<1> QED
  BY <1>2 DEF InItems, InPending, InFired, InHand, Has

\* The owners of all entries are clients.
LEMMA Owners ==
    ASSUME ThreadShape
    PROVE  /\ \A i \in 1..Len(items) : items[i] \in EntrySet /\ items[i].of \in Clients
           /\ \A i \in 1..Len(pending_add) : pending_add[i] \in EntrySet /\ pending_add[i].of \in Clients
           /\ \A i \in 1..Len(loop.fired) : loop.fired[i] \in EntrySet /\ loop.fired[i].of \in Clients
           /\ Holding => loop.entry \in EntrySet /\ loop.entry.of \in Clients
BY OwnerOf, LoopEntries DEF ThreadShape, ThreadTypeOK

\* While add of one client is on its way, the entries of the others are as they were.
LEMMA OthersKept ==
    ASSUME ThreadInv, NEW c \in Clients, ~Added(c),
           \A d \in Clients : d # c => client'[d] = client[d]
    PROVE  /\ \A i \in 1..Len(items) : items[i].interval_ms = client'[items[i].of].entry.interval_ms
           /\ \A i \in 1..Len(pending_add) :
                 pending_add[i].interval_ms = client'[pending_add[i].of].entry.interval_ms
           /\ \A i \in 1..Len(loop.fired) :
                 loop.fired[i].interval_ms = client'[loop.fired[i].of].entry.interval_ms
           /\ Holding => loop.entry.interval_ms = client'[loop.entry.of].entry.interval_ms
<1>1. EntriesInv /\ ThreadShape
  BY DEF ThreadInv
<1>2. ASSUME NEW i \in 1..Len(items)
      PROVE  items[i].interval_ms = client'[items[i].of].entry.interval_ms
  <2>1. items[i].of \in Clients /\ items[i].of # c
    BY <1>1, Owners, Absent
  <2> QED
    BY <1>1, <2>1 DEF EntriesInv
<1>3. ASSUME NEW i \in 1..Len(pending_add)
      PROVE  pending_add[i].interval_ms = client'[pending_add[i].of].entry.interval_ms
  <2>1. pending_add[i].of \in Clients /\ pending_add[i].of # c
    BY <1>1, Owners, Absent
  <2> QED
    BY <1>1, <2>1 DEF EntriesInv
<1>4. ASSUME NEW i \in 1..Len(loop.fired)
      PROVE  loop.fired[i].interval_ms = client'[loop.fired[i].of].entry.interval_ms
  <2>1. loop.fired[i].of \in Clients /\ loop.fired[i].of # c
    BY <1>1, Owners, Absent
  <2> QED
    BY <1>1, <2>1 DEF EntriesInv
<1>5. ASSUME Holding PROVE loop.entry.interval_ms = client'[loop.entry.of].entry.interval_ms
  <2>1. loop.entry.of \in Clients /\ loop.entry.of # c
    BY <1>1, <1>5, Owners, Absent
  <2> QED
    BY <1>1, <1>5, <2>1 DEF EntriesInv
<1> QED
  BY <1>2, <1>3, <1>4, <1>5

\* The clock and next_id are read, and next_id is stored.
LEMMA AddBegun ==
    ASSUME ThreadInv, NEW c \in Clients, AddRead(c) \/ AddStore(c)
    PROVE  ThreadInv'
<1>1. ThreadShape /\ client[c].pc \in {"add", "store"} /\ ~Added(c)
  BY DEF ThreadInv, AddRead, AddStore, Added
<1>2. PICK p \in {"store", "push"}, e \in EntrySet :
        /\ e.of = c /\ ~e.cancelled /\ next_id' \in Nat
        /\ client' = [client EXCEPT ![c] = [pc |-> p, entry |-> e]]
        /\ UNCHANGED <<tick, owner, starts, loop, called, items, pending_add, marked>>
  <2>1. CASE AddRead(c)
    <3>1. PICK d \in Delays : \E interval \in {0, d} :
            client' = [client EXCEPT ![c] = [pc |-> "store", entry |-> Entry(c, next_id + 1, tick + d, interval)]]
      BY <2>1 DEF AddRead
    <3>2. PICK interval \in {0, d} :
            client' = [client EXCEPT ![c] = [pc |-> "store", entry |-> Entry(c, next_id + 1, tick + d, interval)]]
      BY <3>1
    <3>3. PICK e : e = Entry(c, next_id + 1, tick + d, interval)
      OBVIOUS
    <3>4. d \in Nat /\ tick \in Nat /\ next_id \in Nat
      BY <1>1, LoopShape, TimerAssumption
    <3>5. e \in EntrySet /\ e.of = c /\ ~e.cancelled
      BY <3>3, <3>4 DEF Entry, EntrySet
    <3> QED
      BY <2>1, <3>2, <3>3, <3>4, <3>5 DEF AddRead
  <2>2. CASE AddStore(c)
    <3> DEFINE e == client[c].entry
    <3>1. client[c].pc = "store" /\ e \in EntrySet /\ e.of = c /\ ~e.cancelled
      BY <1>1, <2>2 DEF AddStore, ThreadShape, ThreadTypeOK
    <3>2. client[c] = [pc |-> client[c].pc, entry |-> e]
      BY <1>1 DEF ThreadShape
    <3>3. [client[c] EXCEPT !.pc = "push"] = [pc |-> "push", entry |-> e]
      BY <3>2
    <3>4. client' = [client EXCEPT ![c] = [client[c] EXCEPT !.pc = "push"]]
      BY <2>2 DEF AddStore
    <3>5. next_id' \in Nat
      BY <2>2, <3>1, LoopEntries DEF AddStore
    <3> QED
      BY <2>2, <3>1, <3>3, <3>4, <3>5 DEF AddStore
  <2> QED
    BY <2>1, <2>2
<1>3. /\ ThreadShape' /\ client'[c].pc = p
      /\ \A d \in Clients : d # c => client'[d] = client[d]
  <2>1. items' \in Seq(EntrySet) /\ pending_add' \in Seq(EntrySet) /\ marked' \subseteq Clients
    BY <1>1, <1>2 DEF ThreadShape, ThreadTypeOK
  <2> QED
    BY <1>1, <1>2, <2>1, ClientShape
<1>4. Holding' = Holding
  BY <1>2 DEF Holding
<1>5. EntriesInv'
  <2>1. /\ \A i \in 1..Len(items) : items[i].interval_ms = client'[items[i].of].entry.interval_ms
        /\ \A i \in 1..Len(pending_add) :
              pending_add[i].interval_ms = client'[pending_add[i].of].entry.interval_ms
        /\ \A i \in 1..Len(loop.fired) :
              loop.fired[i].interval_ms = client'[loop.fired[i].of].entry.interval_ms
        /\ Holding => loop.entry.interval_ms = client'[loop.entry.of].entry.interval_ms
    BY <1>1, <1>3, OthersKept
  <2>2. UNCHANGED <<tick, items, pending_add, loop, marked>>
    BY <1>2
  <2>3. EntriesInv
    BY DEF ThreadInv
  <2> QED
    BY <1>4, <2>1, <2>2, <2>3 DEF EntriesInv, OnceOf, Repeats
<1>6. ASSUME NEW d \in Clients PROVE OwnerInv(d)'
  <2>1. OwnerInv(d)
    BY DEF ThreadInv
  <2>2. /\ InItems(d)' = InItems(d) /\ InPending(d)' = InPending(d) /\ InFired(d)' = InFired(d)
        /\ InHand(d)' = InHand(d)
    BY <1>2, <1>4 DEF InItems, InPending, InFired, InHand, Has
  <2>3. CASE d = c
    <3>1. ~Added(c)'
      BY <1>2, <1>3 DEF Added
    <3> QED
      BY <1>1, <1>2, <2>1, <2>2, <2>3, <3>1, Absent DEF OwnerInv
  <2>4. CASE d # c
    <3>1. client'[d] = client[d] /\ Added(d)' = Added(d)
      BY <1>3, <2>4 DEF Added
    <3> QED
      BY <1>2, <2>1, <2>2, <3>1 DEF OwnerInv
  <2> QED
    BY <2>3, <2>4
<1> QED
  BY <1>3, <1>5, <1>6 DEF ThreadInv

\* add pushes the entry: the client's timer is now in pending_add.
LEMMA AddPushed ==
    ASSUME ThreadInv, NEW c \in Clients, AddPush(c)
    PROVE  ThreadInv'
<1> DEFINE e == client[c].entry
           s == pending_add
           w == Append(s, e)
<1>1. ThreadShape /\ client[c].pc = "push" /\ ~Added(c)
  BY DEF ThreadInv, AddPush, Added
<1>2. e \in EntrySet /\ e.of = c /\ ~e.cancelled
  BY <1>1 DEF ThreadShape, ThreadTypeOK
<1>3. client' = [client EXCEPT ![c] = [pc |-> "added", entry |-> e]]
  <2>1. client[c] = [pc |-> client[c].pc, entry |-> e]
    BY <1>1 DEF ThreadShape
  <2>2. [client[c] EXCEPT !.pc = "added"] = [pc |-> "added", entry |-> e]
    BY <2>1
  <2>3. client' = [client EXCEPT ![c] = [client[c] EXCEPT !.pc = "added"]]
    BY DEF AddPush
  <2> QED
    BY <2>2, <2>3
<1>4. /\ UNCHANGED <<tick, owner, starts, loop, called, items, marked, next_id>>
      /\ pending_add' = w
  BY DEF AddPush
<1>5. s \in Seq(EntrySet) /\ OnceOf(s) /\ ~Has(s, e.of)
  <2>1. s \in Seq(EntrySet)
    BY <1>1 DEF ThreadShape, ThreadTypeOK
  <2>2. OnceOf(s)
    BY DEF ThreadInv, EntriesInv
  <2>3. ~Has(s, c)
    BY <1>1, Absent DEF InPending
  <2> QED
    BY <1>2, <2>1, <2>2, <2>3
<1>6. /\ w \in Seq(EntrySet) /\ OnceOf(w)
      /\ \A i \in 1..Len(w) : w[i] = e \/ \E k \in 1..Len(s) : w[i] = s[k]
  <2> HIDE DEF e, s
  <2>1. w \in Seq(EntrySet)
    BY <1>2, <1>5, AppendedEntries
  <2>2. OnceOf(w)
    BY <1>2, <1>5, AppendedEntries
  <2>3. OneMore(w, s, e)
    BY <1>2, <1>5, AppendedEntries
  <2> QED
    BY <2>1, <2>2, <2>3 DEF OneMore
<1>7. \A t : Has(w, t) <=> Has(s, t) \/ t = c
  <2> HIDE DEF e, s
  <2>1. OneMore(w, s, e)
    BY <1>2, <1>5, AppendedEntries
  <2> QED
    BY <1>2, <2>1 DEF OneMore
<1> HIDE DEF w
<1>8. /\ ThreadShape' /\ client'[c].pc = "added" /\ client'[c].entry = e
      /\ \A d \in Clients : d # c => client'[d] = client[d]
  <2>1. items' \in Seq(EntrySet) /\ pending_add' \in Seq(EntrySet) /\ marked' \subseteq Clients /\ next_id' \in Nat
    BY <1>1, <1>4, <1>6 DEF ThreadShape, ThreadTypeOK
  <2> HIDE DEF e, s
  <2> QED
    BY <1>1, <1>2, <1>3, <1>4, <2>1, ClientShape
<1>9. Holding' = Holding
  BY <1>4 DEF Holding
<1>10. ASSUME NEW i \in 1..Len(w)
       PROVE  w[i].interval_ms = client'[w[i].of].entry.interval_ms /\ ~w[i].cancelled
  <2>1. CASE w[i] = e
    BY <1>2, <1>8, <2>1
  <2>2. CASE \E k \in 1..Len(s) : w[i] = s[k]
    <3>1. PICK k \in 1..Len(s) : w[i] = s[k]
      BY <2>2
    <3>2. s[k].of \in Clients /\ s[k].of # c
      BY <1>1, Owners, Absent
    <3> QED
      BY <1>8, <3>1, <3>2 DEF ThreadInv, EntriesInv
  <2> QED
    BY <1>6, <2>1, <2>2
<1>11. EntriesInv'
  <2>1. OnceOf(pending_add') /\ \A i \in 1..Len(pending_add') :
           pending_add'[i].interval_ms = client'[pending_add'[i].of].entry.interval_ms /\ ~pending_add'[i].cancelled
    BY <1>4, <1>6, <1>10
  <2>2. /\ \A i \in 1..Len(items) : items[i].interval_ms = client'[items[i].of].entry.interval_ms
        /\ \A i \in 1..Len(loop.fired) :
              loop.fired[i].interval_ms = client'[loop.fired[i].of].entry.interval_ms
        /\ Holding => loop.entry.interval_ms = client'[loop.entry.of].entry.interval_ms
    BY <1>1, <1>8, OthersKept
  <2>3. EntriesInv /\ UNCHANGED <<tick, items, loop, marked>>
    BY <1>4 DEF ThreadInv
  <2> HIDE DEF e, s
  <2> QED
    BY <1>9, <2>1, <2>2, <2>3 DEF EntriesInv, OnceOf, Repeats
<1>12. ASSUME NEW d \in Clients PROVE OwnerInv(d)'
  <2>1. OwnerInv(d)
    BY DEF ThreadInv
  <2>2. /\ InItems(d)' = InItems(d) /\ InFired(d)' = InFired(d) /\ InHand(d)' = InHand(d)
        /\ InPending(d)' <=> InPending(d) \/ d = c
    BY <1>4, <1>7, <1>9 DEF InItems, InPending, InFired, InHand, Has
  <2>3. CASE d = c
    <3>1. Added(c)'
      BY <1>8 DEF Added
    <3>2. ~InItems(c) /\ ~InPending(c) /\ ~InFired(c) /\ ~InHand(c)
      BY <1>1, Absent
    <3> QED
      BY <1>1, <1>4, <2>1, <2>2, <2>3, <3>1, <3>2 DEF OwnerInv
  <2>4. CASE d # c
    <3>1. client'[d] = client[d] /\ Added(d)' = Added(d)
      BY <1>8, <2>4 DEF Added
    <3> QED
      BY <1>4, <2>1, <2>2, <2>4, <3>1 DEF OwnerInv
  <2> QED
    BY <2>3, <2>4
<1> QED
  BY <1>8, <1>11, <1>12 DEF ThreadInv

\* A cancel that finds no entry changes nothing but the client, one that finds an
\* entry in the heap marks it.
LEMMA Cancelled ==
    ASSUME ThreadInv, NEW c \in Clients, Cancel(c)
    PROVE  ThreadInv'
<1> DEFINE e == client[c].entry
           s == items
<1>1. ThreadShape /\ client[c].pc = "added" /\ s \in Seq(EntrySet) /\ e \in EntrySet
  BY DEF ThreadInv, ThreadShape, ThreadTypeOK, Cancel
<1>2. client' = [client EXCEPT ![c] = [pc |-> "done", entry |-> e]]
  <2>1. client[c] = [pc |-> client[c].pc, entry |-> e]
    BY <1>1 DEF ThreadShape
  <2>2. [client[c] EXCEPT !.pc = "done"] = [pc |-> "done", entry |-> e]
    BY <2>1
  <2>3. client' = [client EXCEPT ![c] = [client[c] EXCEPT !.pc = "done"]]
    BY DEF Cancel
  <2> QED
    BY <2>2, <2>3
<1>3. UNCHANGED <<tick, owner, starts, loop, called, pending_add, next_id>>
  BY DEF Cancel
<1>4. OnceOf(s) /\ marked \subseteq Clients
  BY <1>1 DEF ThreadInv, EntriesInv, ThreadShape, ThreadTypeOK
<1>5. /\ items' \in Seq(EntrySet) /\ Len(items') = Len(s) /\ marked \subseteq marked' /\ marked' \subseteq Clients
      /\ \A k \in 1..Len(s) : /\ items'[k].of = s[k].of /\ items'[k].interval_ms = s[k].interval_ms
                              /\ items'[k].cancelled <=> items'[k].of \in marked'
      /\ \A d \in marked' : d \notin marked => InItems(d)
  <2>1. CASE ~Found(s, e.id)
    <3>1. items' = s /\ marked' = marked
      BY <2>1 DEF Cancel
    <3> QED
      BY <1>1, <1>4, <3>1 DEF ThreadInv, EntriesInv
  <2>2. CASE Found(s, e.id)
    <3> DEFINE n == First(s, e.id)
               q == MarkFirst(s, e.id)
               o == s[n].of
    <3>1. items' = q /\ marked' = marked \cup {o}
      BY <2>2 DEF Cancel
    <3>2. /\ n \in 1..Len(s) /\ q \in Seq(EntrySet) /\ Len(q) = Len(s)
          /\ \A k \in 1..Len(s) : q[k] = IF k = n THEN Marked(s[k]) ELSE s[k]
      <4> HIDE DEF e, s
      <4>1. s \in Seq(EntrySet) /\ \A x \in EntrySet : Marked(x) \in EntrySet
        BY <1>1, LoopEntries
      <4> QED
        BY <2>2, <4>1, MarkFacts
    <3> HIDE DEF q, n
    <3>3. o \in Clients /\ Has(s, o)
      BY <1>1, <3>2, OwnerOf
    <3>4. ASSUME NEW k \in 1..Len(s)
          PROVE  /\ q[k].of = s[k].of /\ q[k].interval_ms = s[k].interval_ms
                 /\ q[k].cancelled <=> q[k].of \in marked \cup {o}
      <4>1. s[k] \in EntrySet
        BY <1>1
      <4>2. CASE k = n
        <5>1. q[k] = Marked(s[k])
          BY <3>2, <4>2
        <5>2. q[k].of = s[k].of /\ q[k].interval_ms = s[k].interval_ms /\ q[k].cancelled
          BY <4>1, <5>1 DEF Marked, EntrySet
        <5> QED
          BY <4>2, <5>2
      <4>3. CASE k # n
        <5>1. q[k] = s[k]
          BY <3>2, <4>3
        <5>2. s[k].of # o
          BY <1>4, <3>2, <4>3 DEF OnceOf
        <5>3. s[k].cancelled <=> s[k].of \in marked
          BY DEF ThreadInv, EntriesInv
        <5> QED
          BY <5>1, <5>2, <5>3
      <4> QED
        BY <4>2, <4>3
    <3> HIDE DEF o
    <3> QED
      BY <1>4, <3>1, <3>2, <3>3, <3>4 DEF InItems
  <2> QED
    BY <2>1, <2>2
<1>6. /\ ThreadShape' /\ client'[c].pc = "done" /\ client'[c].entry = e
      /\ \A d \in Clients : d # c => client'[d] = client[d]
  <2>1. pending_add' \in Seq(EntrySet) /\ next_id' \in Nat
    BY <1>1, <1>3 DEF ThreadShape, ThreadTypeOK
  <2> HIDE DEF e
  <2> QED
    BY <1>1, <1>2, <1>3, <1>5, <2>1, ClientShape
<1>7. ASSUME NEW d \in Clients PROVE client'[d].entry = client[d].entry /\ Added(d)' = Added(d)
  BY <1>1, <1>6 DEF Added
<1>8. Holding' = Holding
  BY <1>3 DEF Holding
<1>9. EntriesInv'
  <2>1. /\ OnceOf(items')
        /\ \A i \in 1..Len(items') :
              /\ items'[i].interval_ms = client'[items'[i].of].entry.interval_ms
              /\ items'[i].cancelled <=> items'[i].of \in marked'
    <3>1. OnceOf(items')
      BY <1>4, <1>5 DEF OnceOf
    <3>2. ASSUME NEW i \in 1..Len(items')
          PROVE  /\ items'[i].interval_ms = client'[items'[i].of].entry.interval_ms
                 /\ items'[i].cancelled <=> items'[i].of \in marked'
      <4>1. i \in 1..Len(items) /\ items[i].of \in Clients
        BY <1>1, <1>5, Owners
      <4>2. items[i].interval_ms = client[items[i].of].entry.interval_ms
        BY <4>1 DEF ThreadInv, EntriesInv
      <4>3. /\ items'[i].of = items[i].of /\ items'[i].interval_ms = items[i].interval_ms
            /\ items'[i].cancelled <=> items'[i].of \in marked'
        BY <1>5, <4>1
      <4> QED
        BY <1>7, <4>1, <4>2, <4>3
    <3> QED
      BY <3>1, <3>2
  <2>2. ASSUME NEW i \in 1..Len(pending_add)
        PROVE  pending_add[i].interval_ms = client'[pending_add[i].of].entry.interval_ms /\ ~pending_add[i].cancelled
    BY <1>1, <1>7, Owners DEF ThreadInv, EntriesInv
  <2>3. ASSUME NEW i \in 1..Len(loop.fired)
        PROVE  /\ loop.fired[i].interval_ms = client'[loop.fired[i].of].entry.interval_ms
               /\ ~loop.fired[i].cancelled /\ loop.fired[i].expire_at <= tick
    BY <1>1, <1>7, Owners DEF ThreadInv, EntriesInv
  <2>4. ASSUME Holding
        PROVE  /\ loop.entry.interval_ms = client'[loop.entry.of].entry.interval_ms
               /\ ~loop.entry.cancelled /\ loop.entry.interval_ms > 0
    BY <1>1, <1>7, <2>4, Owners DEF ThreadInv, EntriesInv, Repeats
  <2>5. OnceOf(pending_add) /\ OnceOf(loop.fired)
    BY DEF ThreadInv, EntriesInv
  <2>6. pending_add' = pending_add /\ loop' = loop /\ tick' = tick
    BY <1>3
  <2>7. \A i \in 1..Len(pending_add') :
           /\ pending_add'[i].interval_ms = client'[pending_add'[i].of].entry.interval_ms
           /\ ~pending_add'[i].cancelled
    BY <2>2, <2>6
  <2>8. \A i \in 1..Len(loop'.fired) :
           /\ loop'.fired[i].interval_ms = client'[loop'.fired[i].of].entry.interval_ms
           /\ ~loop'.fired[i].cancelled /\ loop'.fired[i].expire_at <= tick'
    BY <2>3, <2>6
  <2>9. Holding' => /\ loop'.entry.interval_ms = client'[loop'.entry.of].entry.interval_ms
                      /\ ~loop'.entry.cancelled /\ loop'.entry.interval_ms > 0
    BY <1>8, <2>4, <2>6
  <2>10. OnceOf(pending_add') /\ OnceOf(loop'.fired)
    BY <2>5, <2>6
  <2> QED
    BY <2>1, <2>7, <2>8, <2>9, <2>10 DEF EntriesInv, OnceOf, Repeats
<1>10. ASSUME NEW d \in Clients PROVE OwnerInv(d)'
  <2>1. OwnerInv(d)
    BY DEF ThreadInv
  <2>2. InFired(d)' = InFired(d) /\ InHand(d)' = InHand(d) /\ InPending(d)' = InPending(d)
    BY <1>3, <1>8 DEF InPending, InFired, InHand, Has
  <2>3. InItems(d)' <=> InItems(d)
    BY <1>5 DEF InItems, Has
  <2>4. /\ d \in marked => d \in marked'
        /\ d \in marked' => d \in marked \/ InItems(d)
    BY <1>5
  <2> QED
    BY <1>3, <1>7, <2>1, <2>2, <2>3, <2>4 DEF OwnerInv
<1> QED
  BY <1>6, <1>9, <1>10 DEF ThreadInv

\* Two vectors of different timers, one behind the other.
LEMMA JoinedEntries ==
    ASSUME NEW E, NEW s \in Seq(E), NEW t \in Seq(E), OnceOf(s), OnceOf(t), \A x : ~(Has(s, x) /\ Has(t, x))
    PROVE  LET w == s \o t
           IN  /\ w \in Seq(E) /\ Len(w) = Len(s) + Len(t) /\ OnceOf(w)
               /\ \A i \in 1..Len(w) : (\E k \in 1..Len(s) : w[i] = s[k]) \/ (\E k \in 1..Len(t) : w[i] = t[k])
               /\ \A x : Has(w, x) <=> Has(s, x) \/ Has(t, x)
<1> DEFINE w == s \o t
<1>1. /\ w \in Seq(E) /\ Len(s) \in Nat /\ Len(t) \in Nat /\ Len(w) = Len(s) + Len(t)
      /\ \A i \in 1..(Len(s) + Len(t)) : w[i] = IF i <= Len(s) THEN s[i] ELSE t[i - Len(s)]
  OBVIOUS
<1> HIDE DEF w
<1>2. ASSUME NEW i \in 1..Len(w)
      PROVE  (i \in 1..Len(s) /\ w[i] = s[i]) \/ (i - Len(s) \in 1..Len(t) /\ w[i] = t[i - Len(s)])
  BY <1>1
<1>3. ASSUME NEW i \in 1..Len(s) PROVE i \in 1..Len(w) /\ w[i] = s[i]
  BY <1>1
<1>4. ASSUME NEW i \in 1..Len(t) PROVE Len(s) + i \in 1..Len(w) /\ w[Len(s) + i] = t[i]
  BY <1>1
<1>5. ASSUME NEW i \in 1..Len(w), NEW j \in 1..Len(w), w[i].of = w[j].of PROVE i = j
  <2>1. CASE i \in 1..Len(s) /\ w[i] = s[i] /\ j \in 1..Len(s) /\ w[j] = s[j]
    BY <1>5, <2>1 DEF OnceOf
  <2>2. CASE i - Len(s) \in 1..Len(t) /\ w[i] = t[i - Len(s)] /\ j - Len(s) \in 1..Len(t) /\ w[j] = t[j - Len(s)]
    <3>1. i - Len(s) = j - Len(s)
      BY <1>5, <2>2 DEF OnceOf
    <3> QED
      BY <1>1, <3>1
  <2>3. CASE i \in 1..Len(s) /\ w[i] = s[i] /\ j - Len(s) \in 1..Len(t) /\ w[j] = t[j - Len(s)]
    BY <1>5, <2>3 DEF Has
  <2>4. CASE j \in 1..Len(s) /\ w[j] = s[j] /\ i - Len(s) \in 1..Len(t) /\ w[i] = t[i - Len(s)]
    BY <1>5, <2>4 DEF Has
  <2> QED
    BY <1>2, <2>1, <2>2, <2>3, <2>4
<1>6. ASSUME NEW x PROVE Has(w, x) <=> Has(s, x) \/ Has(t, x)
  <2>1. ASSUME Has(w, x) PROVE Has(s, x) \/ Has(t, x)
    BY <1>2, <2>1 DEF Has
  <2>2. ASSUME Has(s, x) PROVE Has(w, x)
    BY <1>3, <2>2 DEF Has
  <2>3. ASSUME Has(t, x) PROVE Has(w, x)
    BY <1>4, <2>3 DEF Has
  <2> QED
    BY <2>1, <2>2, <2>3
<1>7. OnceOf(w)
  BY <1>5 DEF OnceOf
<1>8. \A i \in 1..Len(w) : (\E k \in 1..Len(s) : w[i] = s[k]) \/ (\E k \in 1..Len(t) : w[i] = t[k])
  BY <1>2
<1> QED
  BY <1>1, <1>6, <1>7, <1>8 DEF w

\* What the thread has after it has taken pending_add over, whose order the single
\* push_heap leaves open.
LEMMA MergedFacts ==
    ASSUME ThreadInv
    PROVE  LET m == Merged
           IN  /\ m \in Seq(EntrySet) /\ OnceOf(m)
               /\ \A i \in 1..Len(m) : \/ \E k \in 1..Len(items) : m[i] = items[k]
                                       \/ \E k \in 1..Len(pending_add) : m[i] = pending_add[k]
               /\ \A x : Has(m, x) <=> Has(items, x) \/ Has(pending_add, x)
<1> DEFINE s == items
           t == pending_add
           w == s \o t
           m == Merged
<1>1. ThreadShape /\ s \in Seq(EntrySet) /\ t \in Seq(EntrySet) /\ OnceOf(s) /\ OnceOf(t)
  BY DEF ThreadInv, ThreadShape, ThreadTypeOK, EntriesInv
<1>2. ASSUME NEW x PROVE ~(Has(s, x) /\ Has(t, x))
  <2>1. CASE x \in Clients
    BY <2>1 DEF ThreadInv, OwnerInv, InItems, InPending
  <2>2. CASE x \notin Clients
    BY <1>1, <2>2, Owners DEF Has
  <2> QED
    BY <2>1, <2>2
<1>3. /\ w \in Seq(EntrySet) /\ Len(w) = Len(s) + Len(t) /\ OnceOf(w)
      /\ \A i \in 1..Len(w) : (\E k \in 1..Len(s) : w[i] = s[k]) \/ (\E k \in 1..Len(t) : w[i] = t[k])
      /\ \A x : Has(w, x) <=> Has(s, x) \/ Has(t, x)
  <2> HIDE DEF s, t
  <2>1. w \in Seq(EntrySet) /\ Len(w) = Len(s) + Len(t) /\ OnceOf(w)
    BY <1>1, <1>2, JoinedEntries
  <2>2. \A i \in 1..Len(w) : (\E k \in 1..Len(s) : w[i] = s[k]) \/ (\E k \in 1..Len(t) : w[i] = t[k])
    BY <1>1, <1>2, JoinedEntries
  <2>3. \A x : Has(w, x) <=> Has(s, x) \/ Has(t, x)
    BY <1>1, <1>2, JoinedEntries
  <2> QED
    BY <2>1, <2>2, <2>3
<1>4. CASE t = <<>>
  <2>1. m = s /\ 1..Len(t) = {}
    BY <1>4 DEF Merged
  <2>2. \A i \in 1..Len(s) : \E k \in 1..Len(s) : s[i] = s[k]
    OBVIOUS
  <2> HIDE DEF m
  <2> QED
    BY <1>1, <2>1, <2>2 DEF Has, m
<1>5. CASE t # <<>>
  <2>1. m = SiftUp(w, Len(w))
    BY <1>5 DEF Merged, PushHeap
  <2>2. Len(w) \in 1..Len(w)
    BY <1>1, <1>3, <1>5
  <2> HIDE DEF w, m
  <2>3. m \in Seq(EntrySet) /\ Permuted(m, w)
    BY <1>3, <2>1, <2>2, LoopEntries, SiftUpFacts
  <2>4. From(m, w) /\ OnceOf(m) /\ \A x : Has(m, x) <=> Has(w, x)
    <3>1. From(m, w)
      BY <1>3, <2>3, PermutedEntries
    <3>2. OnceOf(m)
      BY <1>3, <2>3, PermutedEntries
    <3>3. \A x : Has(m, x) <=> Has(w, x)
      BY <1>3, <2>3, PermutedEntries
    <3> QED
      BY <3>1, <3>2, <3>3
  <2>5. \A i \in 1..Len(m) : (\E k \in 1..Len(s) : m[i] = s[k]) \/ (\E k \in 1..Len(t) : m[i] = t[k])
    <3> TAKE i \in 1..Len(m)
    <3>1. PICK n \in 1..Len(w) : m[i] = w[n]
      BY <2>4 DEF From
    <3> HIDE DEF s, t
    <3> QED
      BY <1>3, <3>1
  <2> QED
    BY <1>3, <2>3, <2>4, <2>5 DEF m
<1> QED
  BY <1>4, <1>5

\* The thread takes pending_add over.
LEMMA MergeStep ==
    ASSUME ThreadInv, LoopMerge PROVE ThreadInv'
<1> DEFINE m == Merged
           d == loop.entry
<1>1. ThreadShape /\ loop.pc = "merge" /\ loop.fired = <<>> /\ owner # "idle"
  BY DEF ThreadInv, ThreadShape, LoopMerge
<1>2. loop' = [pc |-> "asleep", fired |-> <<>>, entry |-> d]
  BY <1>1, LoopShape DEF LoopMerge
<1>3. /\ items' = m /\ pending_add' = <<>>
      /\ UNCHANGED <<tick, next_id, owner, starts, client, called, marked>>
  BY DEF LoopMerge
<1>4. /\ m \in Seq(EntrySet) /\ OnceOf(m)
      /\ \A i \in 1..Len(m) : \/ \E k \in 1..Len(items) : m[i] = items[k]
                              \/ \E k \in 1..Len(pending_add) : m[i] = pending_add[k]
      /\ \A x : Has(m, x) <=> Has(items, x) \/ Has(pending_add, x)
  BY MergedFacts
<1> HIDE DEF m
<1>5. ThreadShape'
  <2>1. /\ tick' \in 0..MaxTick /\ next_id' \in Nat /\ items' \in Seq(EntrySet) /\ pending_add' \in Seq(EntrySet)
        /\ owner' \in {"idle", "running", "joining"} /\ starts' \in 0..MaxStarts
        /\ called' \in [Clients -> Nat] /\ marked' \subseteq Clients /\ <<>> \in Seq(EntrySet)
    BY <1>1, <1>3, <1>4 DEF ThreadShape, ThreadTypeOK
  <2> QED
    BY <1>1, <1>2, <1>3, <2>1, ShapeKept
<1>6. ~Holding /\ ~Holding' /\ loop'.fired = <<>> /\ 1..Len(<<>>) = {}
  BY <1>1, <1>2 DEF Holding
<1>7. ASSUME NEW i \in 1..Len(m)
      PROVE  /\ m[i].interval_ms = client[m[i].of].entry.interval_ms
             /\ m[i].cancelled <=> m[i].of \in marked
  <2>1. ASSUME NEW k \in 1..Len(pending_add) PROVE pending_add[k].of \notin marked
    <3>1. pending_add[k].of \in Clients /\ InPending(pending_add[k].of)
      BY <1>1, Owners DEF InPending, Has
    <3> QED
      BY <3>1 DEF ThreadInv, OwnerInv
  <2>2. CASE \E k \in 1..Len(items) : m[i] = items[k]
    BY <2>2 DEF ThreadInv, EntriesInv
  <2>3. CASE \E k \in 1..Len(pending_add) : m[i] = pending_add[k]
    BY <2>1, <2>3 DEF ThreadInv, EntriesInv
  <2> QED
    BY <1>4, <2>2, <2>3
<1>8. EntriesInv'
  BY <1>3, <1>4, <1>6, <1>7 DEF EntriesInv, OnceOf
<1>9. ASSUME NEW c \in Clients PROVE OwnerInv(c)'
  <2>1. OwnerInv(c)
    BY DEF ThreadInv
  <2>2. ~InFired(c) /\ ~InFired(c)' /\ ~InHand(c) /\ ~InHand(c)' /\ ~InPending(c)'
    BY <1>1, <1>3, <1>6 DEF InFired, InHand, InPending, Has
  <2>3. InItems(c)' <=> InItems(c) \/ InPending(c)
    BY <1>3, <1>4 DEF InItems, InPending
  <2>4. Added(c)' = Added(c)
    BY <1>3 DEF Added
  <2> QED
    BY <1>3, <2>1, <2>2, <2>3, <2>4 DEF OwnerInv
<1> QED
  BY <1>5, <1>8, <1>9 DEF ThreadInv

\* The thread takes out what is due, and drops cancelled entries in front.
LEMMA CollectStep ==
    ASSUME ThreadInv, LoopCollect PROVE ThreadInv'
<1> DEFINE s == items
           q == PopDue(s, tick).rest
           g == PopDue(s, tick).fired
           d == loop.entry
           p == After(g)
<1>1. ThreadShape /\ loop.pc = "asleep" /\ loop.fired = <<>> /\ owner # "idle"
  BY DEF ThreadInv, ThreadShape, LoopCollect
<1>2. s \in Seq(EntrySet) /\ OnceOf(s) /\ tick \in Int
  BY <1>1, LoopShape DEF ThreadInv, EntriesInv
<1>3. q \in Seq(EntrySet) /\ g \in Seq(EntrySet) /\ \E a, f : Scanned(a, f, q, g, s, tick)
  <2> HIDE DEF s
  <2> QED
    BY <1>2, LoopEntries, PopDueFacts
<1>4. items' = q /\ loop' = [pc |-> p, fired |-> g, entry |-> d]
  <2>1. loop' = [loop EXCEPT !.pc = p, !.fired = g] /\ items' = q
    BY DEF LoopCollect
  <2>2. PICK a, b : loop = [pc |-> a, fired |-> b, entry |-> d]
    BY <1>1 DEF ThreadShape
  <2> HIDE DEF p, g, d, q
  <2> QED
    BY <2>1, <2>2
<1>5. UNCHANGED <<tick, next_id, pending_add, owner, starts, client, called, marked>>
  BY DEF LoopCollect
<1> HIDE DEF q, g
<1>6. /\ From(q, s) /\ From(g, s)
      /\ \A i \in 1..Len(g) : ~g[i].cancelled /\ g[i].expire_at <= tick
  <2> HIDE DEF s
  <2>1. From(q, s)
    BY <1>2, <1>3, ScannedEntries
  <2>2. From(g, s)
    BY <1>2, <1>3, ScannedEntries
  <2>3. \A i \in 1..Len(g) : ~g[i].cancelled /\ g[i].expire_at <= tick
    BY <1>2, <1>3, ScannedEntries
  <2> QED
    BY <2>1, <2>2, <2>3
<1>7. Parted(q, g, s)
  <2> HIDE DEF s
  <2> QED
    BY <1>2, <1>3, ScannedEntries
<1>8. OnceOf(q) /\ OnceOf(g) /\ \A t : ~(Has(q, t) /\ Has(g, t))
  <2> HIDE DEF s
  <2> QED
    BY <1>2, <1>3, ScannedEntries
<1>9. p \in {"test", "fire"} /\ (p = "test" => g = <<>>) /\ (p = "fire" => g # <<>>)
  BY DEF After
<1>10. ThreadShape'
  <2>1. /\ tick' \in 0..MaxTick /\ next_id' \in Nat /\ items' \in Seq(EntrySet) /\ pending_add' \in Seq(EntrySet)
        /\ owner' \in {"running", "joining"} /\ starts' \in 0..MaxStarts
        /\ called' \in [Clients -> Nat] /\ marked' \subseteq Clients /\ client' = client
    BY <1>1, <1>3, <1>4, <1>5 DEF ThreadShape, ThreadTypeOK
  <2> HIDE DEF p, d
  <2> QED
    BY <1>1, <1>3, <1>4, <1>9, <2>1, ShapeKept
<1>11. ~Holding /\ ~Holding' /\ loop'.fired = g
  BY <1>1, <1>4, <1>9 DEF Holding
<1>12. ASSUME NEW i \in 1..Len(q)
       PROVE  /\ q[i].interval_ms = client[q[i].of].entry.interval_ms
              /\ q[i].cancelled <=> q[i].of \in marked
  BY <1>6 DEF From, ThreadInv, EntriesInv
<1>13. ASSUME NEW i \in 1..Len(g)
       PROVE  g[i].interval_ms = client[g[i].of].entry.interval_ms /\ g[i].of \notin marked
  BY <1>6 DEF From, ThreadInv, EntriesInv
<1>14. EntriesInv'
  <2>1. OnceOf(pending_add) /\ \A i \in 1..Len(pending_add) :
           pending_add[i].interval_ms = client[pending_add[i].of].entry.interval_ms /\ ~pending_add[i].cancelled
    BY DEF ThreadInv, EntriesInv
  <2> HIDE DEF s, d, p
  <2> QED
    BY <1>4, <1>5, <1>6, <1>8, <1>11, <1>12, <1>13, <2>1 DEF EntriesInv, OnceOf
<1>15. ASSUME NEW c \in Clients PROVE OwnerInv(c)'
  <2>1. OwnerInv(c)
    BY DEF ThreadInv
  <2>2. /\ ~InFired(c) /\ ~InHand(c) /\ ~InHand(c)' /\ InPending(c)' = InPending(c)
        /\ Added(c)' = Added(c)
    <3>1. ~InFired(c)
      BY <1>1 DEF InFired, Has
    <3>2. ~InHand(c) /\ ~InHand(c)'
      BY <1>11 DEF InHand
    <3>3. InPending(c)' = InPending(c) /\ Added(c)' = Added(c)
      BY <1>5 DEF InPending, Added, Has
    <3> QED
      BY <3>1, <3>2, <3>3
  <2>3. (InItems(c)' <=> Has(q, c)) /\ (InFired(c)' <=> Has(g, c))
    BY <1>4, <1>11 DEF InItems, InFired, Has
  <2>4. /\ Has(q, c) \/ Has(g, c) => InItems(c)
        /\ Has(g, c) => c \notin marked
    BY <1>6, <1>13 DEF InItems, Has, From
  <2>5. InItems(c) => c \in marked \/ Has(q, c) \/ Has(g, c)
    <3> SUFFICES ASSUME InItems(c), c \notin marked PROVE Has(q, c) \/ Has(g, c)
      OBVIOUS
    <3>1. PICK k \in 1..Len(s) : s[k].of = c
      BY DEF InItems, Has
    <3>2. ~s[k].cancelled
      BY <3>1 DEF ThreadInv, EntriesInv
    <3> QED
      BY <1>7, <3>1, <3>2 DEF Has, Parted
  <2> QED
    BY <1>5, <1>8, <2>1, <2>2, <2>3, <2>4, <2>5 DEF OwnerInv
<1> QED
  BY <1>10, <1>14, <1>15 DEF ThreadInv

\* A callback runs.  A timer that repeats is then in the hands of the thread, one
\* that does not has ended.
LEMMA FireStep ==
    ASSUME ThreadInv, LoopFire
    PROVE  /\ ThreadInv'
           /\ \A c \in Clients : called'[c] # called[c] =>
                 c \notin marked /\ Head(loop.fired).expire_at <= tick
<1> DEFINE g == loop.fired
           t == Head(g)
           h == Tail(g)
           o == t.of
           p == IF Repeats(t) THEN "again" ELSE After(h)
           e == IF Repeats(t) THEN t ELSE <<>>
<1>1. ThreadShape /\ loop.pc = "fire" /\ g # <<>> /\ g \in Seq(EntrySet) /\ owner # "idle" /\ OnceOf(g)
  BY DEF ThreadInv, ThreadShape, LoopFire, ThreadTypeOK, EntriesInv
<1>2. /\ 1 \in 1..Len(g) /\ t = g[1] /\ h \in Seq(EntrySet) /\ Len(h) = Len(g) - 1 /\ Len(g) \in Nat
      /\ \A i \in 1..Len(h) : h[i] = g[i + 1]
  <2> HIDE DEF g
  <2> QED
    BY <1>1
<1>3. /\ t \in EntrySet /\ o \in Clients /\ Has(g, o)
      /\ t.interval_ms = client[o].entry.interval_ms /\ ~t.cancelled /\ t.expire_at <= tick
  <2>1. g[1] \in EntrySet /\ g[1].of \in Clients /\ Has(g, g[1].of)
    BY <1>1, <1>2, OwnerOf
  <2>2. g[1].interval_ms = client[g[1].of].entry.interval_ms /\ ~g[1].cancelled /\ g[1].expire_at <= tick
    BY <1>2 DEF ThreadInv, EntriesInv
  <2> HIDE DEF g
  <2> QED
    BY <1>2, <2>1, <2>2
<1>4. loop' = [pc |-> p, fired |-> h, entry |-> e]
  <2>1. loop' = [loop EXCEPT !.fired = h, !.pc = p, !.entry = e]
    BY DEF LoopFire
  <2>2. loop = [pc |-> loop.pc, fired |-> g, entry |-> loop.entry]
    BY <1>1 DEF ThreadShape
  <2> HIDE DEF p, g, e, h
  <2> QED
    BY <2>1, <2>2
<1>5. /\ called' = [called EXCEPT ![o] = @ + 1]
      /\ UNCHANGED <<tick, next_id, items, pending_add, owner, starts, client, marked>>
  BY DEF LoopFire
<1>6. called \in [Clients -> Nat]
  BY <1>1 DEF ThreadShape, ThreadTypeOK
<1>7. called' \in [Clients -> Nat] /\ called'[o] = called[o] + 1 /\ \A c \in Clients : c # o => called'[c] = called[c]
  <2> HIDE DEF o
  <2> QED
    BY <1>3, <1>5, <1>6
<1>8. \A i \in 1..Len(h) : i + 1 \in 1..Len(g) /\ h[i] = g[i + 1]
  BY <1>2
<1>9. OnceOf(h) /\ ~Has(h, o) /\ \A c : Has(g, c) <=> Has(h, c) \/ c = o
  <2>1. ASSUME NEW i \in 1..Len(h), NEW j \in 1..Len(h), h[i].of = h[j].of PROVE i = j
    <3>1. i + 1 = j + 1
      BY <1>1, <1>8, <2>1 DEF OnceOf
    <3> QED
      BY <3>1
  <2>2. ASSUME NEW i \in 1..Len(h), h[i].of = o PROVE FALSE
    <3>1. i + 1 = 1
      BY <1>1, <1>2, <1>8, <2>2 DEF OnceOf
    <3> QED
      BY <3>1
  <2>3. ASSUME NEW c, Has(h, c) PROVE Has(g, c)
    BY <1>8, <2>3 DEF Has
  <2>4. ASSUME NEW c, Has(g, c), c # o PROVE Has(h, c)
    <3>1. PICK k \in 1..Len(g) : g[k].of = c
      BY <2>4 DEF Has
    <3>2. k # 1
      BY <1>2, <2>4, <3>1
    <3>3. k - 1 \in 1..Len(h) /\ (k - 1) + 1 = k
      BY <1>2, <3>2
    <3>4. h[k - 1] = g[k]
      BY <1>2, <3>3
    <3> QED
      BY <3>1, <3>3, <3>4 DEF Has
  <2>5. Has(g, o)
    BY <1>3
  <2> QED
    BY <2>1, <2>2, <2>3, <2>4, <2>5 DEF OnceOf, Has
<1>10. /\ p \in {"test", "fire", "again"}
       /\ p = "test" => h = <<>>
       /\ p = "fire" => h # <<>>
       /\ p = "again" <=> Repeats(t)
       /\ p = "again" => e = t
  BY DEF After
<1> HIDE DEF p, e, h, t
<1>11. ThreadShape'
  <2>1. /\ tick' \in 0..MaxTick /\ next_id' \in Nat /\ items' \in Seq(EntrySet) /\ pending_add' \in Seq(EntrySet)
        /\ owner' \in {"running", "joining"} /\ starts' \in 0..MaxStarts
        /\ marked' \subseteq Clients /\ client' = client
    BY <1>1, <1>5 DEF ThreadShape, ThreadTypeOK
  <2>2. p = "again" => e \in EntrySet
    BY <1>3, <1>10
  <2> QED
    BY <1>1, <1>2, <1>4, <1>7, <1>10, <2>1, <2>2, ShapeKept
<1>12. /\ ~Holding /\ (Holding' <=> Repeats(t))
       /\ loop'.fired = h /\ (Repeats(t) => loop'.entry = t)
  BY <1>1, <1>4, <1>10 DEF Holding
<1>13. EntriesInv'
  <2>1. /\ OnceOf(items) /\ OnceOf(pending_add)
        /\ \A i \in 1..Len(items) :
              /\ items[i].interval_ms = client[items[i].of].entry.interval_ms
              /\ items[i].cancelled <=> items[i].of \in marked
        /\ \A i \in 1..Len(pending_add) :
              /\ pending_add[i].interval_ms = client[pending_add[i].of].entry.interval_ms
              /\ ~pending_add[i].cancelled
    BY DEF ThreadInv, EntriesInv
  <2>2. \A i \in 1..Len(h) :
           /\ h[i].interval_ms = client[h[i].of].entry.interval_ms
           /\ ~h[i].cancelled
           /\ h[i].expire_at <= tick
    <3>1. \A i \in 1..Len(g) :
             /\ g[i].interval_ms = client[g[i].of].entry.interval_ms
             /\ ~g[i].cancelled
             /\ g[i].expire_at <= tick
      BY DEF ThreadInv, EntriesInv
    <3> HIDE DEF g
    <3> QED
      BY <1>8, <3>1
  <2>3. Holding' => /\ loop'.entry.interval_ms = client[loop'.entry.of].entry.interval_ms
                      /\ ~loop'.entry.cancelled /\ loop'.entry.interval_ms > 0
    BY <1>3, <1>12 DEF Repeats
  <2> HIDE DEF g, o
  <2> QED
    BY <1>5, <1>9, <1>12, <2>1, <2>2, <2>3 DEF EntriesInv, OnceOf, Repeats
<1>14. OwnerInv(o) /\ InFired(o)
  BY <1>3 DEF ThreadInv, InFired
<1>15. ASSUME NEW c \in Clients PROVE OwnerInv(c)'
  <2>1. OwnerInv(c)
    BY DEF ThreadInv
  <2>2. /\ InItems(c)' = InItems(c) /\ InPending(c)' = InPending(c) /\ ~InHand(c)
        /\ Added(c)' = Added(c)
    BY <1>5, <1>12 DEF InItems, InPending, InHand, Added, Has
  <2>3. (InFired(c)' <=> Has(h, c)) /\ (InHand(c)' <=> Repeats(t) /\ c = o)
    BY <1>12 DEF InFired, InHand, Has
  <2>4. client' = client /\ marked' = marked
    BY <1>5
  <2>5. CASE c = o
    <3>1. InFired(c) /\ ~InFired(c)'
      BY <1>9, <1>14, <2>3, <2>5
    <3>2. Repeats(client[c].entry) <=> Repeats(t)
      BY <1>3, <2>5 DEF Repeats
    <3>3. Added(c) /\ ~InItems(c) /\ ~InPending(c) /\ c \notin marked /\ (~Repeats(t) => called[c] = 0)
      BY <2>1, <3>1, <3>2 DEF OwnerInv
    <3>4. ~Repeats(t) => called'[c] = 1
      BY <1>7, <2>5, <3>3
    <3> QED
      BY <2>2, <2>3, <2>4, <2>5, <3>1, <3>2, <3>3, <3>4 DEF OwnerInv
  <2>6. CASE c # o
    <3>1. called'[c] = called[c] /\ (InFired(c)' <=> InFired(c)) /\ ~InHand(c)'
      BY <1>7, <1>9, <2>3, <2>6 DEF InFired
    <3> QED
      BY <2>1, <2>2, <2>4, <3>1 DEF OwnerInv
  <2> QED
    BY <2>5, <2>6
<1>16. ASSUME NEW c \in Clients, called'[c] # called[c] PROVE c \notin marked /\ t.expire_at <= tick
  <2>1. c = o
    BY <1>7, <1>16
  <2> QED
    BY <1>3, <1>14, <2>1 DEF OwnerInv
<1> QED
  BY <1>11, <1>13, <1>15, <1>16 DEF ThreadInv, t

\* A repeating timer goes back into the heap.
LEMMA AgainStep ==
    ASSUME ThreadInv, AgainPush PROVE ThreadInv'
<1> DEFINE e == loop.entry
           s == items
           g == loop.fired
           q == PushHeap(Append(s, e))
           p == After(g)
<1>1. ThreadShape /\ loop.pc = "againpush" /\ owner # "idle" /\ Holding
  BY DEF ThreadInv, ThreadShape, AgainPush, Holding
<1>2. s \in Seq(EntrySet) /\ e \in EntrySet /\ g \in Seq(EntrySet) /\ e.of \in Clients
  BY <1>1, LoopShape, Owners
<1>3. /\ OnceOf(s) /\ ~Has(s, e.of) /\ e.of \notin marked
      /\ e.interval_ms = client[e.of].entry.interval_ms /\ ~e.cancelled /\ Repeats(e)
  <2>1. InHand(e.of)
    BY <1>1 DEF InHand
  <2> QED
    BY <1>1, <1>2, <2>1 DEF ThreadInv, OwnerInv, EntriesInv, InItems
<1>4. items' = q /\ loop' = [pc |-> p, fired |-> g, entry |-> <<>>]
  <2>1. loop' = [loop EXCEPT !.pc = p, !.entry = <<>>] /\ items' = q
    BY DEF AgainPush
  <2>2. PICK a, b : loop = [pc |-> a, fired |-> g, entry |-> b]
    BY <1>1 DEF ThreadShape
  <2> HIDE DEF p, g, e, q
  <2> QED
    BY <2>1, <2>2
<1>5. UNCHANGED <<tick, next_id, pending_add, owner, starts, client, called, marked>>
  BY DEF AgainPush
<1>6. /\ q \in Seq(EntrySet) /\ OnceOf(q)
      /\ \A i \in 1..Len(q) : q[i] = e \/ \E k \in 1..Len(s) : q[i] = s[k]
      /\ \A c : Has(q, c) <=> Has(s, c) \/ c = e.of
  <2>1. Entries(EntrySet) /\ s \in Seq(EntrySet) /\ e \in EntrySet /\ OnceOf(s) /\ ~Has(s, e.of)
    BY <1>2, <1>3, LoopEntries
  <2> HIDE DEF e, s
  <2>2. q \in Seq(EntrySet)
    BY <2>1, PushedEntries
  <2>3. OnceOf(q)
    BY <2>1, PushedEntries
  <2>4. OneMore(q, s, e)
    BY <2>1, PushedEntries
  <2> QED
    BY <2>2, <2>3, <2>4 DEF OneMore
<1> HIDE DEF q
<1>7. p \in {"test", "fire"} /\ (p = "test" => g = <<>>) /\ (p = "fire" => g # <<>>)
  BY DEF After
<1>8. ThreadShape'
  <2>1. /\ tick' \in 0..MaxTick /\ next_id' \in Nat /\ items' \in Seq(EntrySet) /\ pending_add' \in Seq(EntrySet)
        /\ owner' \in {"running", "joining"} /\ starts' \in 0..MaxStarts
        /\ called' \in [Clients -> Nat] /\ marked' \subseteq Clients /\ client' = client
    BY <1>1, <1>4, <1>5, <1>6 DEF ThreadShape, ThreadTypeOK
  <2> HIDE DEF p, g, e, s
  <2> QED
    BY <1>1, <1>2, <1>4, <1>7, <2>1, ShapeKept
<1>9. ~Holding' /\ loop'.fired = g
  BY <1>4, <1>7 DEF Holding
<1>10. ASSUME NEW i \in 1..Len(q)
       PROVE  /\ q[i].interval_ms = client[q[i].of].entry.interval_ms
              /\ q[i].cancelled <=> q[i].of \in marked
  <2>1. CASE q[i] = e
    BY <1>3, <2>1
  <2>2. CASE \E k \in 1..Len(s) : q[i] = s[k]
    BY <2>2 DEF ThreadInv, EntriesInv
  <2> QED
    BY <1>6, <2>1, <2>2
<1>11. EntriesInv'
  <2>1. /\ OnceOf(pending_add) /\ OnceOf(g)
        /\ \A i \in 1..Len(pending_add) :
              /\ pending_add[i].interval_ms = client[pending_add[i].of].entry.interval_ms
              /\ ~pending_add[i].cancelled
        /\ \A i \in 1..Len(g) :
              /\ g[i].interval_ms = client[g[i].of].entry.interval_ms
              /\ ~g[i].cancelled
              /\ g[i].expire_at <= tick
    BY DEF ThreadInv, EntriesInv
  <2> HIDE DEF p, g, e, s
  <2> QED
    BY <1>4, <1>5, <1>6, <1>9, <1>10, <2>1 DEF EntriesInv, OnceOf
<1>12. ASSUME NEW c \in Clients PROVE OwnerInv(c)'
  <2>1. OwnerInv(c)
    BY DEF ThreadInv
  <2>2. /\ InFired(c)' = InFired(c) /\ InPending(c)' = InPending(c) /\ ~InHand(c)'
        /\ Added(c)' = Added(c)
    BY <1>5, <1>9 DEF InFired, InHand, InPending, Added, Has
  <2>3. InHand(c) <=> c = e.of
    BY <1>1 DEF InHand
  <2>4. InItems(c)' <=> InItems(c) \/ InHand(c)
    BY <1>4, <1>6, <2>3 DEF InItems
  <2>5. c = e.of => Repeats(client[c].entry)
    BY <1>3 DEF Repeats
  <2>6. client' = client /\ marked' = marked /\ called' = called
    BY <1>5
  <2> HIDE DEF p, g, e, s
  <2> QED
    BY <2>1, <2>2, <2>3, <2>4, <2>5, <2>6 DEF OwnerInv
<1> QED
  BY <1>8, <1>11, <1>12 DEF ThreadInv

\* Every step of TimerLoop.
LEMMA ThreadKeeps ==
    ASSUME ThreadInv, ThreadNext PROVE ThreadInv'
<1>1. CASE ThreadTick \/ Start \/ Stop \/ StopJoined
  BY <1>1, QuietSteps
<1>2. CASE ThreadStep
  BY <1>2, QuietSteps, MergeStep, CollectStep, FireStep, AgainStep DEF ThreadStep
<1>3. ASSUME NEW c \in Clients, AddStep(c) \/ Cancel(c) PROVE ThreadInv'
  BY <1>3, AddBegun, AddPushed, Cancelled DEF AddStep
<1> QED
  BY <1>1, <1>2, <1>3 DEF ThreadNext

\* Only LoopFire runs a callback.
LEMMA OnlyFire ==
    ASSUME ThreadInv, [ThreadNext]_thread_vars
    PROVE  \A c \in Clients : called'[c] # called[c] =>
              c \notin marked /\ Head(loop.fired).expire_at <= tick
<1>1. CASE LoopFire
  BY <1>1, FireStep
<1>2. CASE called' = called
  BY <1>2
<1> QED
  BY <1>1, <1>2
     DEF ThreadNext, thread_vars, ThreadTick, Start, Stop, StopJoined, ThreadStep, LoopTest, LoopMerge,
         LoopCollect, AgainRead, AgainStore, AgainPush, AddStep, AddRead, AddStore,
         AddPush, Cancel

\* The places of a client in one vector.
PlacesIn(name, s, c) == {<<name, i>> : i \in {j \in 1..Len(s) : s[j].of = c}}

\* There is one or none.
LEMMA OnePlace ==
    ASSUME NEW name, NEW s, NEW c, OnceOf(s)
    PROVE  /\ Has(s, c) => \E p : PlacesIn(name, s, c) = {p}
           /\ ~Has(s, c) => PlacesIn(name, s, c) = {}
<1>1. ASSUME Has(s, c) PROVE \E p : PlacesIn(name, s, c) = {p}
  <2>1. PICK i \in 1..Len(s) : s[i].of = c
    BY <1>1 DEF Has
  <2>2. {j \in 1..Len(s) : s[j].of = c} = {i}
    BY <2>1 DEF OnceOf
  <2>3. PlacesIn(name, s, c) = {<<name, i>>}
    BY <2>2 DEF PlacesIn
  <2> QED
    BY <2>3
<1>2. ASSUME ~Has(s, c) PROVE PlacesIn(name, s, c) = {}
  <2>1. {j \in 1..Len(s) : s[j].of = c} = {}
    BY <1>2 DEF Has
  <2> QED
    BY <2>1 DEF PlacesIn
<1> QED
  BY <1>1, <1>2

\* The invariant says what EntryConserved says.
LEMMA Conserved ==
    ASSUME ThreadInv PROVE EntryConserved
<1> SUFFICES ASSUME NEW c \in Clients, client[c].pc \in {"added", "done"}
             PROVE  \/ \E p \in Places(c) : Places(c) = {p}
                    \/ Places(c) = {} /\ (c \in marked \/ (~Repeats(client[c].entry) /\ called[c] = 1))
  BY DEF EntryConserved, ThreadInv, ThreadShape
<1> DEFINE A == PlacesIn("items", items, c)
           B == PlacesIn("pending_add", pending_add, c)
           D == PlacesIn("fired", loop.fired, c)
           H == {p \in {<<"thread", 1>>} : Holding /\ loop.entry.of = c}
<1>1. Places(c) = A \cup B \cup D \cup H
  BY DEF Places, PlacesIn
<1>2. OnceOf(items) /\ OnceOf(pending_add) /\ OnceOf(loop.fired)
  BY DEF ThreadInv, EntriesInv
<1>3. (InItems(c) => \E p : A = {p}) /\ (~InItems(c) => A = {})
  BY <1>2, OnePlace DEF InItems
<1>4. (InPending(c) => \E p : B = {p}) /\ (~InPending(c) => B = {})
  BY <1>2, OnePlace DEF InPending
<1>5. (InFired(c) => \E p : D = {p}) /\ (~InFired(c) => D = {})
  BY <1>2, OnePlace DEF InFired
<1>6. (InHand(c) => H = {<<"thread", 1>>}) /\ (~InHand(c) => H = {})
  BY DEF InHand
<1> HIDE DEF A, B, D, H
<1>7. OwnerInv(c) /\ Added(c)
  BY DEF ThreadInv, Added
<1>8. CASE InItems(c)
  BY <1>1, <1>3, <1>4, <1>5, <1>6, <1>7, <1>8 DEF OwnerInv
<1>9. CASE InPending(c)
  BY <1>1, <1>3, <1>4, <1>5, <1>6, <1>7, <1>9 DEF OwnerInv
<1>10. CASE InFired(c)
  BY <1>1, <1>3, <1>4, <1>5, <1>6, <1>7, <1>10 DEF OwnerInv
<1>11. CASE InHand(c)
  BY <1>1, <1>3, <1>4, <1>5, <1>6, <1>7, <1>11 DEF OwnerInv
<1>12. CASE ~InItems(c) /\ ~InPending(c) /\ ~InFired(c) /\ ~InHand(c)
  BY <1>1, <1>3, <1>4, <1>5, <1>6, <1>7, <1>12 DEF OwnerInv
<1> QED
  BY <1>8, <1>9, <1>10, <1>11, <1>12

\* Before anything has happened.
LEMMA ThreadBegins ==
    ASSUME ThreadInit PROVE ThreadInv
<1>1. /\ <<>> \in Seq(EntrySet) /\ 1..Len(<<>>) = {} /\ 0 \in 0..MaxTick /\ 0 \in 0..MaxStarts
      /\ loop.pc = "none" /\ loop.fired = <<>> /\ loop.entry = <<>>
  BY TimerAssumption, StartsAssumption DEF ThreadInit
<1>2. \A c \in Clients : client[c].pc = "add" /\ client[c].entry = <<>>
  BY DEF ThreadInit
<1>3. ThreadShape
  BY <1>1, <1>2 DEF ThreadInit, ThreadShape, ThreadTypeOK, Holding
<1>4. ~Holding
  BY <1>1 DEF Holding
<1>5. EntriesInv
  BY <1>1, <1>4 DEF ThreadInit, EntriesInv, OnceOf
<1>6. ASSUME NEW c \in Clients PROVE OwnerInv(c)
  <2>1. ~InItems(c) /\ ~InPending(c) /\ ~InFired(c) /\ ~InHand(c)
    BY <1>1, <1>4 DEF ThreadInit, InItems, InPending, InFired, InHand, Has
  <2>2. ~Added(c)
    BY <1>2 DEF Added
  <2>3. called[c] = 0 /\ c \notin marked
    BY DEF ThreadInit
  <2> QED
    BY <2>1, <2>2, <2>3 DEF OwnerInv
<1> QED
  BY <1>3, <1>5, <1>6 DEF ThreadInv

\* The invariant of TimerLoop.
LEMMA ThreadInvariant == ThreadSpec => []ThreadInv
<1>1. ThreadInit => ThreadInv
  BY ThreadBegins
<1>2. ASSUME ThreadInv, [ThreadNext]_thread_vars PROVE ThreadInv'
  <2>1. CASE ThreadNext
    BY <1>2, <2>1, ThreadKeeps
  <2>2. CASE UNCHANGED thread_vars
    <3>1. UNCHANGED <<tick, next_id, items, pending_add, owner, starts, loop, client, called, marked>>
      BY <2>2 DEF thread_vars
    <3>2. ThreadShape'
      BY <1>2, <3>1 DEF ThreadInv, ThreadShape, ThreadTypeOK, Holding
    <3>3. Holding' = Holding /\ tick \in Int /\ tick' \in Int /\ tick <= tick'
      BY <1>2, <3>1, LoopShape DEF Holding, ThreadInv
    <3> QED
      BY <1>2, <3>1, <3>2, <3>3, QuietStep DEF ThreadInv, EntriesInv
  <2> QED
    BY <1>2, <2>1, <2>2
<1> QED
  BY <1>1, <1>2, PTL DEF ThreadSpec

\* A timer that add accepted is in one place until it fires for the last time or is
\* cancelled: see TimerLoop.
THEOREM TimerEntryConserved == ThreadSpec => []EntryConserved
BY ThreadInvariant, Conserved, PTL

\* A callback of TimerLoop runs only when it is due, and never after a cancel that
\* found it: see TimerLoop.
THEOREM ThreadFiresRightly == ThreadSpec => FiresRightly
<1> DEFINE Right == \A c \in Clients : called'[c] # called[c] =>
                        /\ c \notin marked
                        /\ Head(loop.fired).expire_at <= tick
<1>1. ASSUME ThreadInv, [ThreadNext]_thread_vars PROVE [Right]_thread_vars
  BY <1>1, OnlyFire
<1> QED
  BY <1>1, ThreadInvariant, PTL DEF ThreadSpec, FiresRightly

-----------------------------------------------------------------------------
(***************************************************************************)
(* TcpServer.                                                              *)
(*                                                                         *)
(* MapSound is not inductive.  A connection that is inserted must not have *)
(* a read thread that has come to its end: MapInv says that no read thread *)
(* runs before AcceptStart.  And erasing a session must not leave an open  *)
(* connection behind: MapInv says that a read thread that gets to its      *)
(* callback has closed the connection.                                     *)
(***************************************************************************)

USE ServerAssumption

TypeInv ==
    /\ TypeOK
    /\ acceptor = "insert" => next_session_id_ <= MaxSessions
    /\ acceptor = "start" => next_session_id_ >= 2
    /\ heartbeat = "compare" => probe.conn \in Sessions

\* The connections that conn->start() has not been called for.
NotStarted ==
    {s \in Sessions : s >= next_session_id_ \/ (acceptor = "start" /\ s = next_session_id_ - 1)}

MapInv ==
    /\ \A s \in NotStarted : reader[s] = "none"
    /\ \A s \in Sessions : reader[s] \in {"erase", "handler", "done"} => s \in closed_
    /\ NoGhostSession
    /\ OpenIsRegistered

\* The accept thread that was past its test of running_ when stop cleared the
\* map may still insert one connection, the last, and then tests running_.
StopInv ==
    /\ stopper = "idle" <=> running_
    /\ stopper \in {"socket", "stopped"} =>
           Open = {} \/ (acceptor \in {"start", "test", "done"} /\ Open \subseteq {next_session_id_ - 1})

Scanning == heartbeat \in {"scan", "compare"}

\* A scan holds conn_mutex_ from its beginning, so that no connection comes in:
\* one that is open has still to be looked at, is being looked at, or has been
\* found in time.
ScanInv ==
    /\ Scanning => conn_mutex_ = "heartbeat"
    /\ since <= now
    /\ heartbeat = "compare" => since <= probe.tick
    /\ Scanning => \A s \in Open :
          \/ s \in scan
          \/ heartbeat = "compare" /\ s = probe.conn
          \/ since - last_recv_time_[s] <= idle_timeout_ms_

-----------------------------------------------------------------------------
\* The variables of the server keep their types; in particular session ids
\* and probes stay within the connections there are.
THEOREM TypeCorrect == Spec => []TypeInv
<1>1. Init => TypeInv
  <2> SUFFICES ASSUME Init PROVE TypeInv
    OBVIOUS
  <2>1. probe \in [conn : 0..MaxSessions, tick : 0..MaxClock]
    BY DEF Init, NoProbe
  <2>2. /\ reader \in [Sessions -> ReaderPC] /\ last_recv_time_ \in [Sessions -> 0..MaxClock]
        /\ peer \in [Sessions -> {"here", "gone"}]
    BY DEF Init, ReaderPC
  <2>3. next_session_id_ \in 1..MaxSessions + 1 /\ now \in 0..MaxClock /\ since \in 0..MaxClock
    BY DEF Init
  <2> QED
    BY <2>1, <2>2, <2>3 DEF Init, TypeInv, TypeOK
<1>2. TypeInv /\ [Next]_vars => TypeInv'
  <2> SUFFICES ASSUME TypeInv, [Next]_vars PROVE TypeInv'
    OBVIOUS
  <2> USE DEF TypeInv, TypeOK, mapVars, hbVars, connVars, world
  <2>1. CASE AcceptTest \/ AcceptConnection
    BY <2>1 DEF AcceptTest, AcceptConnection
  <2>2. CASE AcceptInsert
    BY <2>2 DEF AcceptInsert, Sessions
  <2>3. CASE AcceptStart
    BY <2>3 DEF AcceptStart, Sessions, ReaderPC
  <2>4. CASE HeartbeatTest \/ HeartbeatLock \/ HeartbeatUnlock
    BY <2>4 DEF HeartbeatTest, HeartbeatLock, HeartbeatUnlock
  <2>5. CASE HeartbeatTick
    <3>1. PICK s \in scan : probe' = [conn |-> s, tick |-> now] /\ scan' = scan \ {s}
      BY <2>5 DEF HeartbeatTick
    <3>2. s \in Sessions /\ s \in 0..MaxSessions
      BY DEF Sessions
    <3> QED
      BY <2>5, <3>1, <3>2 DEF HeartbeatTick
  <2>6. CASE HeartbeatCompare
    <3>1. probe' \in [conn : 0..MaxSessions, tick : 0..MaxClock]
      BY <2>6 DEF HeartbeatCompare, NoProbe
    <3> QED
      BY <2>6, <3>1 DEF HeartbeatCompare
  <2>7. CASE StopFlag \/ StopStep
    <3>1. CASE StopFlag
      BY <3>1 DEF StopFlag
    <3>2. CASE StopConnections
      BY <3>2 DEF StopConnections
    <3>3. CASE StopSocket
      BY <3>3 DEF StopSocket
    <3> QED
      BY <2>7, <3>1, <3>2, <3>3 DEF StopStep
  <2>8. ASSUME NEW s \in Sessions, CloseSession(s) PROVE TypeInv'
    BY <2>8 DEF CloseSession
  <2>9. ASSUME NEW s \in Sessions, RecvData(s) \/ RecvNothing(s) \/ ReaderEnd(s) \/ PeerLeaves(s)
        PROVE  TypeInv'
    <3>1. CASE RecvData(s)
      BY <3>1 DEF RecvData
    <3>2. CASE RecvNothing(s)
      BY <3>2 DEF RecvNothing, ReaderPC
    <3>3. CASE ReaderClose(s)
      BY <3>3 DEF ReaderClose, ReaderPC
    <3>4. CASE ReaderErase(s)
      BY <3>4 DEF ReaderErase, ReaderPC
    <3>5. CASE ReaderHandler(s)
      BY <3>5 DEF ReaderHandler, ReaderPC
    <3>6. CASE PeerLeaves(s)
      BY <3>6 DEF PeerLeaves
    <3> QED
      BY <2>9, <3>1, <3>2, <3>3, <3>4, <3>5, <3>6 DEF ReaderEnd
  <2>10. CASE Tick
    BY <2>10 DEF Tick
  <2>11. CASE UNCHANGED vars
    BY <2>11 DEF vars
  <2> QED
    BY <2>1, <2>2, <2>3, <2>4, <2>5, <2>6, <2>7, <2>8, <2>9, <2>10, <2>11
    DEF Next, AcceptStep, HeartbeatScan
<1> QED
  BY <1>1, <1>2, PTL DEF Spec

-----------------------------------------------------------------------------
\* MapSound: whoever inserts, erases and closes, a session whose close handler
\* may run is not in the map, and a connection that is not closed is.
THEOREM MapIsSound == Spec => []MapSound
<1>1. Init => MapInv
  BY DEF Init, MapInv, NotStarted, NoGhostSession, OpenIsRegistered, Open, Accepted
<1>2. TypeInv /\ MapInv /\ [Next]_vars => MapInv'
  <2> SUFFICES ASSUME TypeInv, MapInv, [Next]_vars PROVE MapInv'
    OBVIOUS
  <2> USE DEF MapInv, NotStarted, NoGhostSession, OpenIsRegistered, Open, Accepted,
              mapVars, hbVars, connVars, world
  <2>1. CASE AcceptTest \/ AcceptConnection
    BY <2>1 DEF AcceptTest, AcceptConnection
  <2>2. CASE AcceptInsert
    <3> DEFINE n == next_session_id_
    <3>1. n \in Sessions /\ n' = n + 1 /\ n \in NotStarted /\ reader[n] = "none"
      BY <2>2 DEF AcceptInsert, TypeInv, TypeOK, Sessions
    <3>2. NotStarted' \subseteq NotStarted
      BY <2>2, <3>1 DEF AcceptInsert, Sessions
    <3>3. Accepted' = Accepted \cup {n}
      BY <3>1 DEF Sessions
    <3> QED
      BY <2>2, <3>1, <3>2, <3>3 DEF AcceptInsert
  <2>3. CASE AcceptStart
    <3>1. next_session_id_ - 1 \in Sessions
      BY <2>3 DEF AcceptStart, TypeInv, TypeOK, Sessions
    <3> QED
      BY <2>3, <3>1 DEF AcceptStart, TypeInv, TypeOK, Sessions
  <2>4. CASE HeartbeatTest \/ HeartbeatLock \/ HeartbeatTick \/ HeartbeatUnlock \/ Tick
    BY <2>4 DEF HeartbeatTest, HeartbeatLock, HeartbeatTick, HeartbeatUnlock, Tick
  <2>5. CASE HeartbeatCompare
    BY <2>5 DEF HeartbeatCompare
  <2>6. CASE StopFlag \/ StopSocket
    BY <2>6 DEF StopFlag, StopSocket
  <2>7. CASE StopConnections
    BY <2>7 DEF StopConnections
  <2>8. ASSUME NEW s \in Sessions, CloseSession(s) PROVE MapInv'
    BY <2>8 DEF CloseSession
  <2>9. ASSUME NEW s \in Sessions, RecvData(s) \/ PeerLeaves(s) PROVE MapInv'
    BY <2>9 DEF RecvData, PeerLeaves
  <2>10. ASSUME NEW s \in Sessions, RecvNothing(s) PROVE MapInv'
    BY <2>10 DEF RecvNothing, TypeInv, TypeOK
  <2>11. ASSUME NEW s \in Sessions, ReaderClose(s) PROVE MapInv'
    BY <2>11 DEF ReaderClose, TypeInv, TypeOK
  <2>12. ASSUME NEW s \in Sessions, ReaderErase(s) PROVE MapInv'
    BY <2>12 DEF ReaderErase, TypeInv, TypeOK
  <2>13. ASSUME NEW s \in Sessions, ReaderHandler(s) PROVE MapInv'
    BY <2>13 DEF ReaderHandler, TypeInv, TypeOK
  <2>14. CASE UNCHANGED vars
    BY <2>14 DEF vars
  <2> QED
    BY <2>1, <2>2, <2>3, <2>4, <2>5, <2>6, <2>7, <2>8, <2>9, <2>10, <2>11, <2>12, <2>13, <2>14
    DEF Next, AcceptStep, HeartbeatScan, StopStep, ReaderEnd
<1>3. TypeInv /\ MapInv => MapSound
  BY DEF TypeInv, MapInv, MapSound
<1> QED
  BY <1>1, <1>2, <1>3, TypeCorrect, PTL DEF Spec

\* The same invariant, for the theorem on stop: every connection that is not
\* closed is in the map, so that clearing the map closes them all.
COROLLARY OpenRegistered == Spec => []OpenIsRegistered
<1>1. MapSound => OpenIsRegistered
  BY DEF MapSound
<1> QED
  BY <1>1, MapIsSound, PTL

\* StopLeavesAtMostOne: stop closes what it finds in the map before it closes
\* the listening socket, and the accept thread can slip in one connection only.
THEOREM StopLeavesOne == Spec => []StopLeavesAtMostOne
<1>1. Init => StopInv
  BY DEF Init, StopInv
<1>2. TypeInv /\ OpenIsRegistered /\ StopInv /\ [Next]_vars => StopInv'
  <2> SUFFICES ASSUME TypeInv, OpenIsRegistered, StopInv, [Next]_vars PROVE StopInv'
    OBVIOUS
  <2> USE DEF StopInv, Open, Accepted, mapVars, hbVars, connVars, world
  <2>1. CASE AcceptTest
    BY <2>1 DEF AcceptTest
  <2>2. CASE AcceptConnection
    BY <2>2 DEF AcceptConnection
  <2>3. CASE AcceptInsert
    <3>1. next_session_id_ \in Nat \ {0} /\ next_session_id_' = next_session_id_ + 1
      BY <2>3 DEF AcceptInsert, TypeInv, TypeOK
    <3>2. Open' \subseteq Open \cup {next_session_id_}
      BY <2>3, <3>1 DEF AcceptInsert
    <3> QED
      BY <2>3, <3>1, <3>2 DEF AcceptInsert
  <2>4. CASE AcceptStart
    BY <2>4 DEF AcceptStart
  <2>5. CASE HeartbeatTest \/ HeartbeatLock \/ HeartbeatTick \/ HeartbeatUnlock \/ Tick
    <3>1. UNCHANGED <<stopper, running_, acceptor, next_session_id_, closed_>>
      BY <2>5 DEF HeartbeatTest, HeartbeatLock, HeartbeatTick, HeartbeatUnlock, Tick
    <3> QED
      BY <3>1
  <2>6. CASE HeartbeatCompare
    BY <2>6 DEF HeartbeatCompare
  <2>7. CASE StopFlag
    BY <2>7 DEF StopFlag
  <2>8. CASE StopConnections
    <3>1. Open' = {}
      BY <2>8 DEF StopConnections, OpenIsRegistered
    <3> QED
      BY <2>8, <3>1 DEF StopConnections
  <2>9. CASE StopSocket
    BY <2>9 DEF StopSocket
  <2>10. ASSUME NEW s \in Sessions,
                CloseSession(s) \/ RecvData(s) \/ RecvNothing(s) \/ PeerLeaves(s) \/ ReaderEnd(s)
         PROVE  StopInv'
    <3>1. UNCHANGED <<stopper, running_, acceptor, next_session_id_>> /\ Open' \subseteq Open
      BY <2>10 DEF CloseSession, RecvData, RecvNothing, PeerLeaves, ReaderEnd, ReaderClose,
                   ReaderErase, ReaderHandler
    <3> QED
      BY <3>1
  <2>11. CASE UNCHANGED vars
    BY <2>11 DEF vars
  <2> QED
    BY <2>1, <2>2, <2>3, <2>4, <2>5, <2>6, <2>7, <2>8, <2>9, <2>10, <2>11
    DEF Next, AcceptStep, HeartbeatScan, StopStep
<1>3. StopInv => StopLeavesAtMostOne
  <2> SUFFICES ASSUME StopInv, stopper = "stopped" PROVE Cardinality(Open) <= 1
    BY DEF StopLeavesAtMostOne
  <2>1. Open \subseteq {next_session_id_ - 1}
    BY DEF StopInv
  <2>2. IsFiniteSet({next_session_id_ - 1}) /\ Cardinality({next_session_id_ - 1}) = 1
    BY FS_Singleton
  <2> QED
    BY <2>1, <2>2, FS_Subset
<1> QED
  BY <1>1, <1>2, <1>3, TypeCorrect, OpenRegistered, PTL DEF Spec

-----------------------------------------------------------------------------
\* IdleSwept, for every timeout and every width of the tick: the unsigned
\* difference is the true one unless data came in after the clock was read, and
\* then the connection is not silent.
THEOREM IdleAreSwept == Spec => IdleSwept
<1>1. Init => ScanInv
  BY DEF Init, ScanInv, Scanning
<1>2. TypeInv /\ OpenIsRegistered /\ ScanInv /\ [Next]_vars => ScanInv'
  <2> SUFFICES ASSUME TypeInv, OpenIsRegistered, ScanInv, [Next]_vars PROVE ScanInv'
    OBVIOUS
  <2> USE DEF ScanInv, Scanning, Open, Accepted, mapVars, hbVars, connVars, world
  <2>1. CASE AcceptTest \/ AcceptConnection \/ AcceptStart
    BY <2>1 DEF AcceptTest, AcceptConnection, AcceptStart
  <2>2. CASE AcceptInsert
    BY <2>2 DEF AcceptInsert, MutexFree
  <2>3. CASE HeartbeatTest
    BY <2>3 DEF HeartbeatTest
  <2>4. CASE HeartbeatLock
    BY <2>4 DEF HeartbeatLock, OpenIsRegistered, TypeInv, TypeOK
  <2>5. CASE HeartbeatTick
    <3>1. PICK s \in scan : probe' = [conn |-> s, tick |-> now] /\ scan' = scan \ {s}
      BY <2>5 DEF HeartbeatTick
    <3> QED
      BY <2>5, <3>1 DEF HeartbeatTick
  <2>6. CASE HeartbeatCompare
    <3>1. probe.conn \in Sessions /\ probe.tick \in 0..MaxClock /\ since \in 0..MaxClock
          /\ last_recv_time_[probe.conn] \in 0..MaxClock /\ since <= probe.tick
      BY <2>6 DEF HeartbeatCompare, TypeInv, TypeOK
    <3>2. ~IsIdle => since - last_recv_time_[probe.conn] <= idle_timeout_ms_
      <4>1. CASE last_recv_time_[probe.conn] <= probe.tick
        <5>1. (probe.tick - last_recv_time_[probe.conn]) % TickMod
                = probe.tick - last_recv_time_[probe.conn]
          BY <3>1, <4>1
        <5> QED
          BY <3>1, <5>1 DEF IsIdle
      <4>2. CASE last_recv_time_[probe.conn] > probe.tick
        BY <3>1, <4>2
      <4> QED
        BY <3>1, <4>1, <4>2
    <3>3. UNCHANGED <<conn_mutex_, since, now, scan, last_recv_time_, next_session_id_>>
          /\ heartbeat = "compare" /\ heartbeat' = "scan"
          /\ closed_' = IF IsIdle THEN closed_ \cup {probe.conn} ELSE closed_
      BY <2>6 DEF HeartbeatCompare
    <3> QED
      BY <3>2, <3>3
  <2>7. CASE HeartbeatUnlock
    BY <2>7 DEF HeartbeatUnlock, TypeInv, TypeOK
  <2>8. CASE StopFlag \/ StopConnections \/ StopSocket
    BY <2>8 DEF StopFlag, StopConnections, StopSocket
  <2>9. ASSUME NEW s \in Sessions, RecvData(s) PROVE ScanInv'
    <3>1. last_recv_time_' = [last_recv_time_ EXCEPT ![s] = now]
          /\ last_recv_time_ \in [Sessions -> 0..MaxClock]
      BY <2>9 DEF RecvData, TypeInv, TypeOK
    <3>2. since - now <= idle_timeout_ms_
      BY DEF TypeInv, TypeOK
    <3> QED
      BY <2>9, <3>1, <3>2 DEF RecvData
  <2>10. ASSUME NEW s \in Sessions,
                CloseSession(s) \/ RecvNothing(s) \/ PeerLeaves(s) \/ ReaderEnd(s)
         PROVE  ScanInv'
    <3>1. UNCHANGED <<conn_mutex_, hbVars, now, last_recv_time_, next_session_id_>>
          /\ closed_ \subseteq closed_'
      BY <2>10 DEF CloseSession, RecvNothing, PeerLeaves, ReaderEnd, ReaderClose, ReaderErase,
                   ReaderHandler
    <3> QED
      BY <3>1
  <2>11. CASE Tick
    BY <2>11 DEF Tick, TypeInv, TypeOK
  <2>12. CASE UNCHANGED vars
    BY <2>12 DEF vars
  <2> QED
    BY <2>1, <2>2, <2>3, <2>4, <2>5, <2>6, <2>7, <2>8, <2>9, <2>10, <2>11, <2>12
    DEF Next, AcceptStep, HeartbeatScan, StopStep
<1>3. ScanInv =>
        [HeartbeatUnlock => \A s \in Open : since - last_recv_time_[s] <= idle_timeout_ms_]_vars
  BY DEF ScanInv, Scanning, HeartbeatUnlock
<1> QED
  BY <1>1, <1>2, <1>3, TypeCorrect, OpenRegistered, PTL DEF Spec, IdleSwept

=============================================================================
