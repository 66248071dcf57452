----------------------------- MODULE FdHandlers -----------------------------
(***************************************************************************)
(* The descriptors of EventLoop (src/base/event/event_loop.cpp): add_fd,   *)
(* del_fd and mod_fd keep fd_handlers_ beside the interest list of epoll.  *)
(* Several threads call them and no mutex is taken, so that each access to *)
(* the table and each epoll_ctl is a step of its own. That the table is an *)
(* unordered_map, which a race may damage, is left out, as are the event   *)
(* masks. Closing a descriptor takes it off the list of epoll without      *)
(* telling the loop, and its number may come back.                         *)
(***************************************************************************)
CONSTANTS Fds, Handlers, Callers, None

ASSUME FdAssumption == None \notin Fds /\ None \notin Handlers

VARIABLES open,         \* the descriptors in use (external)
          interest,     \* descriptor -> handler that epoll reports, or None (external)
          fd_handlers_, \* descriptor -> handler, or None
          call,         \* caller -> where its call is, its descriptor, handler and op
          stale,        \* history: descriptors closed while they were registered
          raced         \* history: descriptors on which calls have overlapped

fd_vars == <<open, interest, fd_handlers_, call, stale, raced>>

Idle == [pc |-> "out", fd |-> None, handler |-> None, op |-> None]

FdInit ==
    /\ open = {} /\ stale = {} /\ raced = {} /\ call = [c \in Callers |-> Idle]
    /\ interest = [f \in Fds |-> None] /\ fd_handlers_ = [f \in Fds |-> None]

Open(f) ==
    /\ f \notin open /\ open' = open \cup {f}
    /\ UNCHANGED <<interest, fd_handlers_, call, stale, raced>>

Close(f) ==
    /\ f \in open /\ open' = open \ {f}
    /\ interest' = [interest EXCEPT ![f] = None]
    /\ stale' = IF interest[f] = None THEN stale ELSE stale \cup {f}
    /\ UNCHANGED <<fd_handlers_, call, raced>>

\* epoll_ctl: ADD wants an open descriptor that is not on the list, MOD one that
\* is.
CtlSucceeds(f, op) ==
    IF op = "ADD" THEN f \in open /\ interest[f] = None ELSE interest[f] # None

\* A call on f is under way.
Busy(f) == \E c \in Callers : call[c].fd = f

\* add_fd modifies a descriptor it has a handler for and adds any other.
Op(f) == IF fd_handlers_[f] # None THEN "MOD" ELSE "ADD"

\* A call begins at pc.
Begin(c, pc, f, h, op) ==
    /\ call[c].pc = "out"
    /\ call' = [call EXCEPT ![c] = [pc |-> pc, fd |-> f, handler |-> h, op |-> op]]

Overlaps(f) == raced' = IF Busy(f) THEN raced \cup {f} ELSE raced

add_fd(c, f, h) ==
    /\ Begin(c, "ctl", f, h, Op(f)) /\ Overlaps(f)
    /\ UNCHANGED <<open, interest, fd_handlers_, stale>>

\* Fault: the handler is noted although epoll_ctl has failed.
CtlAnyway(c) ==
    LET f == call[c].fd
    IN  /\ call[c].pc = "ctl"
        /\ call' = [call EXCEPT ![c].pc = "store"]
        /\ interest' = IF CtlSucceeds(f, call[c].op)
                       THEN [interest EXCEPT ![f] = call[c].handler] ELSE interest
        /\ UNCHANGED <<open, fd_handlers_, stale, raced>>

\* When epoll_ctl fails add_fd returns.
Ctl(c) ==
    LET f == call[c].fd
    IN  /\ call[c].pc = "ctl"
        /\ IF CtlSucceeds(f, call[c].op)
           THEN /\ interest' = [interest EXCEPT ![f] = call[c].handler]
                /\ call' = [call EXCEPT ![c].pc = "store"]
           ELSE call' = [call EXCEPT ![c] = Idle] /\ UNCHANGED interest
        /\ UNCHANGED <<open, fd_handlers_, stale, raced>>

Store(c) ==
    /\ call[c].pc = "store"
    /\ fd_handlers_' = [fd_handlers_ EXCEPT ![call[c].fd] = call[c].handler]
    /\ call' = [call EXCEPT ![c] = Idle]
    /\ UNCHANGED <<open, interest, stale, raced>>

\* del_fd does not look at the result of epoll_ctl. If no other call is under way
\* it ends what calls that overlapped have left.
del_fd(c, f) ==
    /\ Begin(c, "erase", f, None, None)
    /\ interest' = [interest EXCEPT ![f] = None]
    /\ raced' = IF Busy(f) THEN raced \cup {f} ELSE raced \ {f}
    /\ UNCHANGED <<open, fd_handlers_, stale>>

Erase(c) ==
    LET f == call[c].fd
    IN  /\ call[c].pc = "erase"
        /\ fd_handlers_' = [fd_handlers_ EXCEPT ![f] = None]
        /\ stale' = stale \ {f}
        /\ call' = [call EXCEPT ![c] = Idle]
        /\ UNCHANGED <<open, interest, raced>>

\* mod_fd finds the handler and calls add_fd.
mod_fd(c, f) ==
    /\ fd_handlers_[f] # None
    /\ Begin(c, "count", f, fd_handlers_[f], None) /\ Overlaps(f)
    /\ UNCHANGED <<open, interest, fd_handlers_, stale>>

Count(c) ==
    /\ call[c].pc = "count"
    /\ call' = [call EXCEPT ![c].pc = "ctl", ![c].op = Op(call[c].fd)]
    /\ UNCHANGED <<open, interest, fd_handlers_, stale, raced>>

AddFdStep(c) == Ctl(c) \/ Store(c) \/ \E f \in Fds, h \in Handlers : add_fd(c, f, h)

FdNext ==
    \/ \E f \in Fds : Open(f) \/ Close(f)
    \/ \E c \in Callers :
        \/ AddFdStep(c) \/ Count(c) \/ Erase(c)
        \/ \E f \in Fds : del_fd(c, f) \/ mod_fd(c, f)

FdSpec == FdInit /\ [][FdNext]_fd_vars

\* Threads that open descriptors and call add_fd only.
AddNext == (\E f \in Fds : Open(f)) \/ (\E c \in Callers : AddFdStep(c))

AddSpec == FdInit /\ [][AddNext]_fd_vars

-----------------------------------------------------------------------------
(***************************************************************************)
(* Properties                                                              *)
(***************************************************************************)

\* Type invariant.
FdTypeOK ==
    /\ open \subseteq Fds /\ stale \subseteq Fds /\ raced \subseteq Fds
    /\ interest \in [Fds -> Handlers \cup {None}]
    /\ fd_handlers_ \in [Fds -> Handlers \cup {None}]
    /\ call \in [Callers -> [pc : {"out", "count", "ctl", "store", "erase"}, fd : Fds \cup {None},
                              handler : Handlers \cup {None}, op : {"ADD", "MOD", None}]]

\* epoll reports a descriptor to the handler the loop has for it and never to
\* one it has forgotten, once no add_fd, del_fd or mod_fd on it is under way,
\* with two exceptions. One is a descriptor that was closed without del_fd: its
\* number is then in fd_handlers_, and add_fd refuses it until del_fd, also when
\* it names another connection. The other is one on which two calls have
\* overlapped since the last del_fd that met no other call.
HandlersAgree ==
    /\ FdTypeOK
    /\ \A f \in Fds : ~Busy(f) /\ f \notin raced =>
          /\ fd_handlers_[f] # interest[f] => interest[f] = None /\ f \in stale
          /\ f \in stale => ~CtlSucceeds(f, Op(f))

\* API.md says of add_fd that other threads may call it and that it locks: when no
\* call is under way epoll and the table have the same handler, whatever calls of
\* add_fd came together.
AddsLocked == \A f \in Fds : ~Busy(f) => fd_handlers_[f] = interest[f]

=============================================================================
