----------------------------- MODULE MemoryPool -----------------------------
(***************************************************************************)
(* MemoryPool (src/base/memory/memory_pool.cpp): fixed-size blocks carved  *)
(* out of chunks, the free ones linked through their first word. An        *)
(* address is a number; a chunk is followed by an address that belongs to  *)
(* no chunk, so that a link past its end is seen. allocate and deallocate  *)
(* hold mtx_ throughout; pre_allocate takes no lock and is run by the      *)
(* constructor, before the pool is shared.                                 *)
(***************************************************************************)
EXTENDS Naturals, Sequences

CONSTANTS BlockSize,   \* block_size_, at least 2
          PreAlloc,    \* blocks asked of the constructor
          MaxBlocks    \* bound: chunks ever made

VARIABLES free_list_,   \* the first free block, 0 for nullptr
          next,         \* address -> the link stored in it
          all_chunks_,  \* sequence of sizes: chunk k starts at Base(k)
          free_blocks_, \* the counter
          todo,         \* what the constructor has yet to allocate
          blocks        \* address -> how many callers hold the block

vars == <<free_list_, next, all_chunks_, free_blocks_, todo, blocks>>

Stride == BlockSize + 1
Base(k) == (k - 1) * Stride + 1
Addresses == 1..(MaxBlocks * Stride)
Chunk(k) == Base(k)..(Base(k) + all_chunks_[k] - 1)

Init ==
    /\ free_list_ = 0
    /\ next = [a \in Addresses |-> 0]
    /\ all_chunks_ = <<>>
    /\ free_blocks_ = 0
    /\ todo = PreAlloc
    /\ blocks = [a \in Addresses |-> 0]

\* A turn of the loop of pre_allocate: a batch linked in front of the list.
pre_allocate ==
    LET batch == IF todo < BlockSize THEN todo ELSE BlockSize
        base == Base(Len(all_chunks_) + 1)
    IN  /\ todo > 0 /\ Len(all_chunks_) < MaxBlocks
        /\ all_chunks_' = Append(all_chunks_, batch)
        /\ free_blocks_' = free_blocks_ + batch
        /\ next' = [a \in Addresses |->
                       IF a \in base..(base + batch - 2) THEN a + 1
                       ELSE IF a = base + batch - 1 THEN free_list_ ELSE next[a]]
        /\ free_list_' = base
        /\ todo' = todo - batch
        /\ UNCHANGED blocks

\* malloc fails in the constructor: the pool is smaller than asked for.
pre_allocate_fails == todo > 0 /\ todo' = 0
    /\ UNCHANGED <<free_list_, next, all_chunks_, free_blocks_, blocks>>

\* allocate with a free block.
allocate ==
    /\ todo = 0 /\ free_list_ # 0
    /\ blocks' = [blocks EXCEPT ![free_list_] = @ + 1]
    /\ free_list_' = next[free_list_]
    /\ next' = [next EXCEPT ![free_list_] = 0]
    /\ free_blocks_' = free_blocks_ - 1
    /\ UNCHANGED <<all_chunks_, todo>>

\* Fault: the loop that links the blocks goes one too far and the end of the
\* list is not marked.
ExpandTooFar ==
    LET base == Base(Len(all_chunks_) + 1)
    IN  /\ todo = 0 /\ free_list_ = 0 /\ Len(all_chunks_) < MaxBlocks
        /\ all_chunks_' = Append(all_chunks_, BlockSize)
        /\ next' = [a \in Addresses |->
                       IF a \in (base + 1)..(base + BlockSize - 1) THEN a + 1 ELSE next[a]]
        /\ free_list_' = base + 1
        /\ free_blocks_' = free_blocks_ + BlockSize - 1
        /\ blocks' = [blocks EXCEPT ![base] = @ + 1]
        /\ UNCHANGED todo

\* allocate without one: the first block of a new chunk is returned, the others
\* become the list. Its first word is cleared.
expand ==
    LET base == Base(Len(all_chunks_) + 1)
    IN  /\ todo = 0 /\ free_list_ = 0 /\ Len(all_chunks_) < MaxBlocks
        /\ all_chunks_' = Append(all_chunks_, BlockSize)
        /\ next' = [a \in Addresses |->
                       IF a \in (base + 1)..(base + BlockSize - 2) THEN a + 1 ELSE next[a]]
        /\ free_list_' = base + 1
        /\ free_blocks_' = free_blocks_ + BlockSize - 1
        /\ blocks' = [blocks EXCEPT ![base] = @ + 1]
        /\ UNCHANGED todo

deallocate(x) ==
    /\ blocks[x] > 0
    /\ next' = [next EXCEPT ![x] = free_list_]
    /\ free_list_' = x
    /\ free_blocks_' = free_blocks_ + 1
    /\ blocks' = [blocks EXCEPT ![x] = @ - 1]
    /\ UNCHANGED <<all_chunks_, todo>>

Next ==
    \/ pre_allocate \/ pre_allocate_fails \/ allocate \/ expand
    \/ \E x \in Addresses : deallocate(x)

Spec == Init /\ [][Next]_vars

-----------------------------------------------------------------------------
(***************************************************************************)
(* Properties                                                              *)
(***************************************************************************)

\* Type invariant.
TypeOK ==
    /\ free_list_ \in Addresses \cup {0}
    /\ next \in [Addresses -> Addresses \cup {0}]
    /\ all_chunks_ \in Seq(1..BlockSize)
    /\ free_blocks_ \in Nat
    /\ todo \in 0..PreAlloc
    /\ blocks \in [Addresses -> Nat]

\* The n-th block of the list, 0 behind its end.
Nth[n \in Nat] ==
    IF n = 0 THEN free_list_
    ELSE LET a == Nth[n - 1] IN IF a = 0 THEN 0 ELSE next[a]

\* The links from free_list_ visit every block that is not lent exactly once,
\* nothing but blocks of the chunks, and free_blocks_ counts them.
FreeListSound ==
    LET free == {Nth[n - 1] : n \in 1..free_blocks_}
        lent == {a \in Addresses : blocks[a] > 0}
    IN  /\ TypeOK
        /\ \A m, n \in 1..free_blocks_ : Nth[m - 1] = Nth[n - 1] => m = n
        /\ Nth[free_blocks_] = 0
        /\ free \cap lent = {}
        /\ free \cup lent = UNION {Chunk(k) : k \in 1..Len(all_chunks_)}

\* A block has one holder at a time.
Pool == INSTANCE Lending WITH Items <- Addresses, holders <- blocks
ImplementsLending == Pool!Spec

=============================================================================
