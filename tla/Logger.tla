------------------------------- MODULE Logger -------------------------------
(* Logger (base/logger/logger.cpp): callers format an entry and put it in a   *)
(* bounded queue, one thread takes the whole queue as a batch and writes it,  *)
(* flush takes the queue away from that thread, and shutdown joins the thread *)
(* and flushes.  The thread waits at most 100 ms at a time, so a notification *)
(* only shortens its wait and is not state.  current_log_path_ is assigned    *)
(* nowhere: the file branch of the thread never writes.                       *)
EXTENDS Integers, Sequences, FiniteSets

CONSTANTS
    Writers,      \* threads that log, and may flush
    MaxWrites,    \* bound on the entries of all of them
    queue_max_,   \* capacity of queue_ (8192 in the code)
    Levels        \* the log levels in use, integers in the order of LogLevel

ASSUME LoggerAssumption ==
    /\ IsFiniteSet(Writers) /\ Levels \subseteq Nat
    /\ MaxWrites \in Nat /\ queue_max_ \in Nat \ {0}

VARIABLES
    queue_, dropped_, total_logged_,
    console_level_, file_level_,
    running_,
    thread,       \* log_thread_: where it is, what is left of its batch, the batch's size
    owner,        \* init and shutdown: "new", "up", "joining", "flushing" or "down"
    writer,       \* each writer: where it is and its entry
    made,         \* history: the entries made so far, which numbers them
    console,      \* the lines on the console
    flushed,      \* history: the entries that a flush took out
    late          \* history: an entry was queued after shutdown's last flush

vars == <<queue_, dropped_, total_logged_, console_level_, file_level_, running_,
          thread, owner, writer, made, console, flushed, late>>

LevelOn(lvl) == lvl >= console_level_ \/ lvl >= file_level_

Init ==
    /\ queue_ = <<>> /\ dropped_ = 0 /\ total_logged_ = 0
    /\ console_level_ \in Levels /\ file_level_ \in Levels
    /\ running_ = FALSE
    /\ thread = [pc |-> "none", batch |-> <<>>, size |-> 0]
    /\ owner = "new"
    /\ writer = [w \in Writers |-> [pc |-> "idle", entry |-> <<>>]] /\ made = 0
    /\ console = <<>> /\ flushed = <<>> /\ late = FALSE

-----------------------------------------------------------------------------
(* init, and the setters; set_level is one call of each. *)
InitLogger ==
    /\ owner = "new" /\ owner' = "up"
    /\ running_' = TRUE
    /\ thread' = [thread EXCEPT !.pc = "test"]
    /\ UNCHANGED <<queue_, dropped_, total_logged_, console_level_, file_level_,
                   writer, made, console, flushed, late>>

SetConsoleLevel(lvl) ==
    /\ console_level_' = lvl
    /\ UNCHANGED <<queue_, dropped_, total_logged_, file_level_, running_, thread, owner,
                   writer, made, console, flushed, late>>

SetFileLevel(lvl) ==
    /\ file_level_' = lvl
    /\ UNCHANGED <<queue_, dropped_, total_logged_, console_level_, running_, thread, owner,
                   writer, made, console, flushed, late>>

-----------------------------------------------------------------------------
(* write: the level test, then enqueue under queue_mtx_. *)

Write(w, lvl) ==
    /\ writer[w].pc = "idle" /\ made < MaxWrites
    /\ LevelOn(lvl)
    /\ made' = made + 1
    /\ writer' = [writer EXCEPT ![w] = [pc |-> "enqueue",
                                        entry |-> [of |-> w, nr |-> made', level |-> lvl]]]
    /\ UNCHANGED <<queue_, dropped_, total_logged_, console_level_, file_level_, running_,
                   thread, owner, console, flushed, late>>

\* A full queue drops the new entry.
Admit(q, e) == IF Len(q) >= queue_max_ THEN q ELSE Append(q, e)

Enqueue(w) ==
    /\ writer[w].pc = "enqueue"
    /\ queue_' = Admit(queue_, writer[w].entry)
    /\ dropped_' = IF Len(queue_) >= queue_max_ THEN dropped_ + 1 ELSE dropped_
    /\ writer' = [writer EXCEPT ![w] = [pc |-> "idle", entry |-> <<>>]]
    /\ late' = (late \/ owner = "down")
    /\ UNCHANGED <<total_logged_, console_level_, file_level_, running_, thread, owner,
                   made, console, flushed>>

-----------------------------------------------------------------------------
(* flush: queue_ is moved out under the mutex.  Its lines are for the file    *)
(* whose name is the sink's path (init makes a directory of it if it is not   *)
(* there); none goes to the console.                                          *)

\* Fault: flush copies the queue instead of moving it out.
TakeCopy(q) == q

TakeAll(q) == <<>>

FlushQueue ==
    /\ queue_' = TakeAll(queue_)
    /\ flushed' = flushed \o queue_

Flush(w) ==
    /\ writer[w].pc = "idle"
    /\ FlushQueue
    /\ UNCHANGED <<dropped_, total_logged_, console_level_, file_level_, running_, thread,
                   owner, writer, made, console, late>>

Shutdown ==
    /\ owner = "up" /\ running_
    /\ running_' = FALSE /\ owner' = "joining"
    /\ UNCHANGED <<queue_, dropped_, total_logged_, console_level_, file_level_, thread,
                   writer, made, console, flushed, late>>

ShutdownJoined ==
    /\ owner = "joining" /\ thread.pc = "none" /\ owner' = "flushing"
    /\ UNCHANGED <<queue_, dropped_, total_logged_, console_level_, file_level_, running_,
                   thread, writer, made, console, flushed, late>>

\* Fault: shutdown ends without its flush.
ShutdownFlushNot ==
    /\ owner = "flushing" /\ owner' = "down"
    /\ UNCHANGED <<queue_, dropped_, total_logged_, console_level_, file_level_, running_,
                   thread, writer, made, console, flushed, late>>

ShutdownFlush ==
    /\ owner = "flushing" /\ owner' = "down"
    /\ FlushQueue
    /\ UNCHANGED <<dropped_, total_logged_, console_level_, file_level_, running_, thread,
                   writer, made, console, late>>

-----------------------------------------------------------------------------
(* log_thread_loop. *)

ThreadTest ==
    /\ thread.pc = "test"
    /\ thread' = [thread EXCEPT !.pc = IF running_ THEN "wait" ELSE "none"]
    /\ UNCHANGED <<queue_, dropped_, total_logged_, console_level_, file_level_, running_,
                   owner, writer, made, console, flushed, late>>

\* Fault: the queue is cleared before it is moved out.
ThreadTakeCleared ==
    /\ thread.pc = "wait"
    /\ queue_' = <<>>
    /\ thread' = [thread EXCEPT !.pc = "test"]
    /\ UNCHANGED <<dropped_, total_logged_, console_level_, file_level_, running_,
                   owner, writer, made, console, flushed, late>>

\* The wait ends by its predicate or its timeout; an empty queue starts over.
ThreadTake ==
    /\ thread.pc = "wait"
    /\ queue_' = <<>>
    /\ thread' = IF queue_ = <<>> THEN [thread EXCEPT !.pc = "test"]
                                  ELSE [pc |-> "write", batch |-> queue_, size |-> Len(queue_)]
    /\ UNCHANGED <<dropped_, total_logged_, console_level_, file_level_, running_,
                   owner, writer, made, console, flushed, late>>

\* Fault: the batch is written from its end.
ThreadWriteBack ==
    /\ thread.pc = "write" /\ thread.batch # <<>>
    /\ LET n == Len(thread.batch)
           e == thread.batch[n]
       IN  /\ console' = IF e.level >= console_level_ THEN Append(console, e) ELSE console
           /\ thread' = [thread EXCEPT !.batch = SubSeq(@, 1, n - 1)]
    /\ UNCHANGED <<queue_, dropped_, total_logged_, console_level_, file_level_, running_,
                   owner, writer, made, flushed, late>>

\* One entry of the batch: the console if its level is on now, and no file.
ThreadWrite ==
    /\ thread.pc = "write" /\ thread.batch # <<>>
    /\ LET e == Head(thread.batch)
       IN  /\ console' = IF e.level >= console_level_ THEN Append(console, e) ELSE console
           /\ thread' = [thread EXCEPT !.batch = Tail(@)]
    /\ UNCHANGED <<queue_, dropped_, total_logged_, console_level_, file_level_, running_,
                   owner, writer, made, flushed, late>>

ThreadWritten ==
    /\ thread.pc = "write" /\ thread.batch = <<>>
    /\ thread' = [thread EXCEPT !.pc = "test", !.size = 0]
    /\ total_logged_' = total_logged_ + thread.size
    /\ UNCHANGED <<queue_, dropped_, console_level_, file_level_, running_,
                   owner, writer, made, console, flushed, late>>

-----------------------------------------------------------------------------

ThreadStep == ThreadTest \/ ThreadTake \/ ThreadWrite \/ ThreadWritten

ShutdownStep == ShutdownJoined \/ ShutdownFlush

Next ==
    \/ InitLogger \/ Shutdown \/ ShutdownStep \/ ThreadStep
    \/ \E lvl \in Levels : SetConsoleLevel(lvl) \/ SetFileLevel(lvl)
    \/ \E w \in Writers : Enqueue(w) \/ Flush(w) \/ \E lvl \in Levels : Write(w, lvl)

Spec == Init /\ [][Next]_vars

(* The log thread is scheduled, and a shutdown that was called goes on.       *)
FairSpec == Spec /\ WF_vars(ThreadStep) /\ WF_vars(ShutdownStep)

-----------------------------------------------------------------------------
Entries == [of : Writers, nr : 1..MaxWrites, level : Levels]

Lines(s) == {s[i] : i \in 1..Len(s)}

\* The shape of the state; queue_ never holds more than queue_max_ entries.
TypeOK ==
    /\ queue_ \in Seq(Entries) /\ Len(queue_) <= queue_max_
    /\ dropped_ \in Nat /\ total_logged_ \in Nat
    /\ console_level_ \in Levels /\ file_level_ \in Levels
    /\ running_ \in BOOLEAN /\ running_ = (owner = "up")
    /\ thread \in [pc : {"none", "test", "wait", "write"}, batch : Seq(Entries), size : 0..queue_max_]
    /\ owner \in {"new", "up", "joining", "flushing", "down"}
    /\ writer \in [Writers -> [pc : {"idle", "enqueue"}, entry : Entries \cup {<<>>}]]
    /\ made \in 0..MaxWrites
    /\ console \in Seq(Entries) /\ flushed \in Seq(Entries) /\ late \in BOOLEAN

(* Every entry that passed the level test is accounted for once: in the hands *)
(* of its caller, dropped, queued, in the thread's batch, counted as logged,  *)
(* or taken by a flush, although flush and the thread compete for the queue.  *)
Accounted ==
    TypeOK /\ made =
        Cardinality({w \in Writers : writer[w].pc = "enqueue"})
          + dropped_ + Len(queue_) + thread.size + total_logged_ + Len(flushed)

(* The lines of one caller appear on the console in the order of its calls,   *)
(* each at most once, and none that a flush has taken.                        *)
ConsoleInOrder ==
    /\ \A i, j \in 1..Len(console) :
          i < j /\ console[i].of = console[j].of => console[i].nr < console[j].nr
    /\ Lines(console) \cap (Lines(flushed) \cup Lines(queue_) \cup Lines(thread.batch)) = {}

(* shutdown leaves nothing behind: when it has returned, the queue and the    *)
(* batch are empty unless somebody logs after its last flush.                 *)
ShutdownFlushes == owner = "down" /\ ~late => queue_ = <<>> /\ thread.batch = <<>>

(* A queued entry reaches the console or a flush, also when shutdown is       *)
(* called, unless the console level rises above it.                           *)
QueuedAppears ==
    \A e \in Entries :
        (e \in Lines(queue_) /\ owner \in {"up", "joining", "flushing"})
            ~> (e \in Lines(console) \/ e \in Lines(flushed) \/ e.level < console_level_)

(* shutdown returns: its notification may be lost, but the thread waits no    *)
(* longer than 100 ms before it tests running_ again.                         *)
LoggerStops == (owner = "joining") ~> (owner = "down")

\* The thread serves its callers: both of these.
LoggerServes == QueuedAppears /\ LoggerStops

=============================================================================
