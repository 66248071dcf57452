----------------------------- MODULE ObjectPool -----------------------------
(***************************************************************************)
(* ObjectPool (src/base/object_pool/object_pool.h): a free list of slots   *)
(* that grows by a chunk. allocate() pops, pushes a chunk and pops again   *)
(* in three critical sections of mtx_. The counters, which no operation    *)
(* reads, are left out. Clearing the pool is left to callers that have     *)
(* given everything back: clear() frees the chunks under lent objects too. *)
(***************************************************************************)
EXTENDS Naturals, Sequences, Functions

CONSTANTS Threads,     \* threads that allocate
          CHUNK_SIZE,  \* 64 in the code
          MaxChunks    \* bound: chunks ever made

VARIABLES free_list_, \* slots, the head first
          made,       \* chunks made so far; slot numbers are never reused
          pc,         \* thread -> its place in allocate
          slot,       \* thread -> its local slot, 0 for nullptr
          objects,    \* slot -> how many callers hold the object in it
          popped      \* history: thread -> slots taken by others since its chunk, up to a chunk

vars == <<free_list_, made, pc, slot, objects, popped>>

Slots == 1..(MaxChunks * CHUNK_SIZE)

Init ==
    /\ free_list_ = <<>>
    /\ made = 0
    /\ pc = [t \in Threads |-> "out"]
    /\ slot = [t \in Threads |-> 0]
    /\ objects = [x \in Slots |-> 0]
    /\ popped = [t \in Threads |-> 0]

Go(t, place) == pc' = [pc EXCEPT ![t] = place]

\* pop_free by t, which goes on at found or at empty.
pop_free(t, found, empty) ==
    IF free_list_ = <<>> THEN Go(t, empty) /\ UNCHANGED <<free_list_, slot, popped>>
    ELSE /\ Go(t, found)
         /\ slot' = [slot EXCEPT ![t] = Head(free_list_)]
         /\ free_list_' = Tail(free_list_)
         /\ popped' = [u \in Threads |->
                          IF u # t /\ pc[u] = "again" /\ popped[u] < CHUNK_SIZE
                            THEN popped[u] + 1 ELSE popped[u]]

\* allocate(): the first pop.
Allocate(t) ==
    /\ pc[t] = "out"
    /\ pop_free(t, "make", "grow")
    /\ UNCHANGED <<made, objects>>

\* Fault: the chunk replaces the list instead of going in front of it.
GrowOver(t) ==
    /\ pc[t] = "grow" /\ made < MaxChunks
    /\ free_list_' = [i \in 1..(CHUNK_SIZE - 1) |-> made * CHUNK_SIZE + i]
    /\ made' = made + 1
    /\ popped' = [popped EXCEPT ![t] = 0]
    /\ Go(t, "again")
    /\ UNCHANGED <<slot, objects>>

\* A new chunk, linked in front of what is free by now.
Grow(t) ==
    /\ pc[t] = "grow" /\ made < MaxChunks
    /\ free_list_' = [i \in 1..CHUNK_SIZE |-> made * CHUNK_SIZE + i] \o free_list_
    /\ made' = made + 1
    /\ popped' = [popped EXCEPT ![t] = 0]
    /\ Go(t, "again")
    /\ UNCHANGED <<slot, objects>>

\* The second pop; without a slot allocate() returns nullptr.
PopAgain(t) ==
    /\ pc[t] = "again"
    /\ pop_free(t, "make", "out")
    /\ UNCHANGED <<made, objects>>

\* The constructor succeeds and the caller has the object.
Make(t) ==
    /\ pc[t] = "make"
    /\ objects' = [objects EXCEPT ![slot[t]] = @ + 1]
    /\ slot' = [slot EXCEPT ![t] = 0]
    /\ Go(t, "out")
    /\ UNCHANGED <<free_list_, made, popped>>

\* The constructor throws: the slot goes back and allocate() returns nullptr.
MakeThrows(t) ==
    /\ pc[t] = "make"
    /\ free_list_' = <<slot[t]>> \o free_list_
    /\ slot' = [slot EXCEPT ![t] = 0]
    /\ Go(t, "out")
    /\ UNCHANGED <<made, objects, popped>>

Deallocate(x) ==
    /\ objects[x] > 0
    /\ free_list_' = <<x>> \o free_list_
    /\ objects' = [objects EXCEPT ![x] = @ - 1]
    /\ UNCHANGED <<made, pc, slot, popped>>

Clear ==
    /\ \A x \in Slots : objects[x] = 0
    /\ \A t \in Threads : pc[t] # "make"
    /\ free_list_' = <<>>
    /\ popped' = [t \in Threads |-> CHUNK_SIZE]
    /\ UNCHANGED <<made, pc, slot, objects>>

Next ==
    \/ \E t \in Threads : Allocate(t) \/ Grow(t) \/ PopAgain(t) \/ Make(t) \/ MakeThrows(t)
    \/ \E x \in Slots : Deallocate(x)
    \/ Clear

Spec == Init /\ [][Next]_vars

-----------------------------------------------------------------------------
(***************************************************************************)
(* Properties                                                              *)
(***************************************************************************)

\* Type invariant.
TypeOK ==
    /\ free_list_ \in Seq(1..(made * CHUNK_SIZE))
    /\ made \in 0..MaxChunks
    /\ pc \in [Threads -> {"out", "grow", "again", "make"}]
    /\ slot \in [Threads -> 0..(made * CHUNK_SIZE)]
    /\ objects \in [Slots -> Nat]
    /\ popped \in [Threads -> 0..CHUNK_SIZE]

\* A slot is at one place only: free, in the hands of one thread inside
\* allocate(), or with a caller.
SlotInOnePlace ==
    /\ TypeOK
    /\ IsInjective(free_list_)
    /\ \A x \in Slots : objects[x] > 0 => x \notin Range(free_list_)
    /\ \A t \in Threads : pc[t] = "make" =>
           /\ slot[t] \notin Range(free_list_) /\ objects[slot[t]] = 0
           /\ \A u \in Threads \ {t} : slot[u] # slot[t]

\* The nullptr after the second pop, which the code says cannot be, comes only
\* when other threads have taken all slots of the chunk, or the pool has been
\* cleared, between the two critical sections.
NullOnlyIfDrained ==
    [][\A t \in Threads : pc[t] = "again" /\ pc'[t] = "out" => popped[t] >= CHUNK_SIZE]_vars

\* An object has one holder at a time.
Pool == INSTANCE Lending WITH Items <- Slots, holders <- objects
ImplementsLending == Pool!Spec

=============================================================================
