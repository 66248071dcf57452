------------------------------- MODULE Pools --------------------------------
(***************************************************************************)
(* The object pool, the memory pool and the connection pool side by side.  *)
(* They share nothing but what is promised of them: see Lending.           *)
(***************************************************************************)
EXTENDS Naturals

CONSTANTS Threads, CHUNK_SIZE, MaxChunks,
          BlockSize, PreAlloc, MaxBlocks,
          PoolSize, Queries

\* MemoryPool::allocate takes a chunk of one block for one of two.
ASSUME PoolsAssumption ==
    /\ {CHUNK_SIZE, MaxChunks, PreAlloc, MaxBlocks, PoolSize} \subseteq Nat
    /\ BlockSize \in Nat \ {0, 1}

VARIABLES ofree, made, pc, slot, objects, popped,
          mfree, next, all_chunks_, free_blocks_, todo, blocks,
          initialized_, pool_, cfree, given, query, answer

O == INSTANCE ObjectPool WITH free_list_ <- ofree
M == INSTANCE MemoryPool WITH free_list_ <- mfree
C == INSTANCE ConnectionPool WITH free_list_ <- cfree

PoolsSpec == O!Spec /\ M!Spec /\ C!Spec

\* See ObjectPool: when allocate() returns nullptr after it has grown.
NullOnlyIfDrained == O!NullOnlyIfDrained

\* See ObjectPool and MemoryPool: a slot is at one place only, and the links of
\* the free list lead through the free blocks.
FreeListsSound == O!SlotInOnePlace /\ M!FreeListSound

\* The three pools implement Lending: an object, a block or a connection of
\* get_connection has one holder at a time.
ImplementsLending ==
    O!ImplementsLending /\ M!ImplementsLending /\ C!ImplementsLending /\ []C!TypeOK

=============================================================================
