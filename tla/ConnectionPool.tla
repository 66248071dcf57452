--------------------------- MODULE ConnectionPool ---------------------------
(***************************************************************************)
(* ConnectionPool (src/db/connection_pool.cpp), built with USE_SQLITE. The *)
(* pool hands connections out and has no operation that takes one back:    *)
(* free_list_ never grows after init_sqlite. execute_sql takes one and     *)
(* forgets it, and opens a connection of its own. Statements and results   *)
(* are reduced to whether they have been answered.                         *)
(***************************************************************************)
EXTENDS Naturals, Sequences

CONSTANTS PoolSize, Queries

VARIABLES initialized_,
          pool_,      \* the connections the pool owns
          free_list_, \* those it has not handed out
          given,      \* connection -> how many callers of get_connection hold it
          query,      \* query -> its place
          answer      \* query -> the results its callback was given

vars == <<initialized_, pool_, free_list_, given, query, answer>>

Connections == 1..PoolSize

Init ==
    /\ initialized_ = FALSE
    /\ pool_ = {} /\ free_list_ = <<>>
    /\ given = [c \in Connections |-> 0]
    /\ query = [q \in Queries |-> "new"]
    /\ answer = [q \in Queries |-> <<>>]

\* The sequences of the members of a set in the order of their numbers: there
\* is one.
Ascending(X) ==
    {q \in UNION {[1..n -> X] : n \in 0..PoolSize} :
        /\ \A i, k \in DOMAIN q : i < k => q[i] < q[k]
        /\ \A x \in X : \E i \in DOMAIN q : q[i] = x}

\* init_sqlite: a connection that cannot be opened is left out.
init_sqlite(opened) ==
    /\ ~initialized_ /\ pool_ = {} /\ \A c \in Connections : given[c] = 0
    /\ initialized_' = TRUE
    /\ pool_' = opened
    /\ free_list_' \in Ascending(opened)
    /\ UNCHANGED <<given, query, answer>>

close ==
    /\ initialized_' = FALSE
    /\ pool_' = {} /\ free_list_' = <<>>
    /\ UNCHANGED <<given, query, answer>>

\* Fault: the connection stays in free_list_.
GetWithoutPop ==
    /\ given' = IF free_list_ = <<>> THEN given ELSE [given EXCEPT ![Head(free_list_)] = @ + 1]
    /\ UNCHANGED <<initialized_, pool_, free_list_, query, answer>>

\* A null pointer when none is free: it does not wait.
get_connection ==
    /\ free_list_' = IF free_list_ = <<>> THEN <<>> ELSE Tail(free_list_)
    /\ given' = IF free_list_ = <<>> THEN given ELSE [given EXCEPT ![Head(free_list_)] = @ + 1]
    /\ UNCHANGED <<initialized_, pool_, query, answer>>

\* The caller drops its shared_ptr: the connection does not come back.
drop_connection(c) ==
    /\ given[c] > 0
    /\ given' = [given EXCEPT ![c] = @ - 1]
    /\ UNCHANGED <<initialized_, pool_, free_list_, query, answer>>

\* execute_sql and the callback of q. It looks at neither initialized_ nor
\* done_; the statement succeeds or fails.
execute_sql(q) ==
    /\ free_list_' = IF free_list_ = <<>> THEN <<>> ELSE Tail(free_list_)
    /\ \E success \in BOOLEAN : answer' = [answer EXCEPT ![q] = Append(@, success)]
    /\ query' = [query EXCEPT ![q] = "answered"]
    /\ UNCHANGED <<initialized_, pool_, given>>

\* With a thread pool the statement becomes a job of it, without one it runs
\* at once.
execute_sql_async(q) ==
    /\ query[q] = "new"
    /\ \/ /\ query' = [query EXCEPT ![q] = "queued"]
          /\ UNCHANGED <<initialized_, pool_, free_list_, given, answer>>
       \/ execute_sql(q)

\* QueryTask::run, or a caller of execute_sql.
run(q) == query[q] = "new" /\ execute_sql(q)

\* A worker runs the job. External: see ThreadPool.
Worker(q) == query[q] = "queued" /\ execute_sql(q)

Next ==
    \/ \E opened \in SUBSET Connections : init_sqlite(opened)
    \/ close \/ get_connection
    \/ \E c \in Connections : drop_connection(c)
    \/ \E q \in Queries : execute_sql_async(q) \/ run(q) \/ Worker(q)

Spec == Init /\ [][Next]_vars

-----------------------------------------------------------------------------
(***************************************************************************)
(* Properties                                                              *)
(***************************************************************************)

\* Type invariant.
TypeOK ==
    /\ initialized_ \in BOOLEAN
    /\ pool_ \subseteq Connections
    /\ free_list_ \in Seq(Connections)
    /\ given \in [Connections -> Nat]
    /\ query \in [Queries -> {"new", "queued", "answered"}]
    /\ answer \in [Queries -> Seq(BOOLEAN)]

\* A connection of the pool has one holder at a time.
Pool == INSTANCE Lending WITH Items <- Connections, holders <- given
ImplementsLending == Pool!Spec

=============================================================================
