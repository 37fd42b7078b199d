------------------------------ MODULE CrowServer ------------------------------
(***************************************************************************)
(* How Crow's server (crow_all.h: Server, Connection, task_timer) gives    *)
(* connections to its worker threads and closes those that are idle.  The  *)
(* acceptor makes the object of the next connection ahead, on the worker   *)
(* with the fewest live objects, and posts its start to that worker.  Each *)
(* worker has a timer: once a second it closes the connections whose       *)
(* deadline has passed.  A connection puts its deadline off whenever data  *)
(* comes, and drops it when a page's request makes it a WebSocket.         *)
(*                                                                         *)
(* The completion of a read that a deadline aborted is queued behind what  *)
(* the worker already has to do, starts included, and before its next      *)
(* tick.  Responses are complete when their handler returns, as they are   *)
(* in the engine.                                                          *)
(***************************************************************************)
EXTENDS Naturals, FiniteSets, Folds

CONSTANTS Workers,      \* the number of worker threads
          Connection,   \* bound: connections there are at a time
          Timeout,      \* ticks a connection may be idle, app.timeout
          MaxId         \* bound: identifiers a timer issues before it starts again

ASSUME ServerAssumption ==
    /\ Workers \in Nat \ {0} /\ IsFiniteSet(Connection)
    /\ Timeout \in Nat \ {0} /\ MaxId \in Nat

VARIABLES
    phase,       \* what has become of a connection
    home,        \* its worker, counted from 0
    task_id_,    \* the timer's identifier of its deadline, 0 at first
    tasks_,      \* of a worker's timer: identifier, connection and ticks left
    highest_id_, \* of a worker's timer
    idle         \* auxiliary: the ticks since the connection started or got data

crowVars == <<phase, home, task_id_, tasks_, highest_id_, idle>>

Worker == 0..(Workers - 1)

\* none; created for the next accept; accepted, its start posted; reading; aborted,
\* its socket closed and its read not yet told; upgraded to a WebSocket.
Phases == {"none", "created", "accepted", "reading", "aborted", "upgraded"}

-----------------------------------------------------------------------------
(* The acceptor.                                                           *)

\* task_queue_length_pool_: a connection's object lives while the acceptor, a posted
\* start, a read or a deadline refers to it.  An upgraded one counts no longer.
QueueLength(w) ==
    Cardinality({c \in Connection : home[c] = w /\
        \/ phase[c] \in {"created", "accepted", "reading", "aborted"}
        \/ \E t \in tasks_[w] : t.conn = c})

\* The search for the worker with the shortest queue; it stops at one with nothing to do.
pick_io_context_idx(length) ==
    MapThenFoldSet(LAMBDA i, min : IF length[min] > 0 /\ length[i] < length[min] THEN i ELSE min,
                   0, LAMBDA i : i, LAMBDA S : CHOOSE i \in S : \A j \in S : i >= j,
                   Worker \ {0})

\* async_accept completes: the connection's start is posted to its worker, and the
\* object of the next connection is made.
Accept ==
    \E c, d \in Connection, w \in Worker :
        /\ phase[c] = "created" /\ phase[d] = "none"
        /\ \A v \in Worker : \A t \in tasks_[v] : t.conn # d
        /\ w = pick_io_context_idx([v \in Worker |-> QueueLength(v)])
        /\ phase' = [phase EXCEPT ![c] = "accepted", ![d] = "created"]
        /\ home' = [home EXCEPT ![d] = w]
        /\ task_id_' = [task_id_ EXCEPT ![d] = 0]
        /\ idle' = [idle EXCEPT ![d] = 0]
        /\ UNCHANGED <<tasks_, highest_id_>>

-----------------------------------------------------------------------------
(* Deadlines.                                                              *)

\* What task_timer.cancel leaves of a timer's tasks.
Without(tasks, id) == {t \in tasks : t.id # id}

cancel_deadline_timer(c) ==
    tasks_' = [tasks_ EXCEPT ![home[c]] = Without(@, task_id_[c])]

\* Slip: a new deadline with the old one left in the timer.
StartDeadlineTwice(c) ==
    LET w == home[c]
        id == highest_id_[w] + 1
    IN /\ id <= MaxId
       /\ tasks_' = [tasks_ EXCEPT ![w] = @ \cup {[id |-> id, conn |-> c, left |-> Timeout]}]
       /\ highest_id_' = [highest_id_ EXCEPT ![w] = id]
       /\ task_id_' = [task_id_ EXCEPT ![c] = id]

\* start_deadline: the old deadline is cancelled and a new one scheduled.  The timer's
\* map keeps what it has when the identifier is taken.
start_deadline(c) ==
    LET w == home[c]
        kept == Without(tasks_[w], task_id_[c])
        id == highest_id_[w] + 1
        new == {[id |-> id, conn |-> c, left |-> Timeout]}
    IN /\ id <= MaxId
       /\ tasks_' = [tasks_ EXCEPT ![w] = IF \E t \in kept : t.id = id THEN kept ELSE kept \cup new]
       /\ highest_id_' = [highest_id_ EXCEPT ![w] = id]
       /\ task_id_' = [task_id_ EXCEPT ![c] = id]

Start ==
    \E c \in Connection :
        /\ phase[c] = "accepted"
        /\ phase' = [phase EXCEPT ![c] = "reading"]
        /\ start_deadline(c)
        /\ UNCHANGED <<home, idle>>

\* Data, with a whole request that is answered or with a part of one.
Data ==
    \E c \in Connection :
        /\ phase[c] = "reading"
        /\ start_deadline(c)
        /\ idle' = [idle EXCEPT ![c] = 0]
        /\ UNCHANGED <<phase, home>>

\* Slip: the deadline is left to run out.
ReadEndsOnly ==
    \E c \in Connection :
        /\ phase[c] = "reading"
        /\ phase' = [phase EXCEPT ![c] = "none"]
        /\ UNCHANGED <<home, task_id_, tasks_, highest_id_, idle>>

\* The peer's end, an error in what it sent, or a request that closes the connection.
ReadEnds ==
    \E c \in Connection :
        /\ phase[c] = "reading"
        /\ cancel_deadline_timer(c)
        /\ phase' = [phase EXCEPT ![c] = "none"]
        /\ UNCHANGED <<home, task_id_, highest_id_, idle>>

\* A request for a WebSocket: it takes the socket, and the connection's object ends.
Upgrade ==
    \E c \in Connection :
        /\ phase[c] = "reading"
        /\ cancel_deadline_timer(c)
        /\ phase' = [phase EXCEPT ![c] = "upgraded"]
        /\ UNCHANGED <<home, task_id_, highest_id_, idle>>

WebSocketEnds ==
    \E c \in Connection :
        /\ phase[c] = "upgraded"
        /\ phase' = [phase EXCEPT ![c] = "none"]
        /\ UNCHANGED <<home, task_id_, tasks_, highest_id_, idle>>

\* The aborted read's completion cancels the connection's deadline, which has run.
ReadAborted ==
    \E c \in Connection :
        /\ phase[c] = "aborted"
        /\ cancel_deadline_timer(c)
        /\ phase' = [phase EXCEPT ![c] = "none"]
        /\ UNCHANGED <<home, task_id_, highest_id_, idle>>

\* The identifiers start again when no task is left.
NextHighest(w, left) == IF left = {} THEN 0 ELSE highest_id_[w]

Passed(t) == t.left = 0

\* tick_handler: a deadline that has passed closes its connection's socket, if that is
\* still open, and is taken out.
Tick ==
    \E w \in Worker :
        LET finished == {t \in tasks_[w] : Passed(t)}
            left == {[t EXCEPT !.left = @ - 1] : t \in tasks_[w] \ finished}
            closes(c) == phase[c] = "reading" /\ \E t \in finished : t.conn = c
            waits(c) == home[c] = w /\ phase[c] = "reading" /\ ~closes(c)
        IN /\ \A c \in Connection : ~(home[c] = w /\ phase[c] = "aborted")
           /\ tasks_' = [tasks_ EXCEPT ![w] = left]
           /\ highest_id_' = [highest_id_ EXCEPT ![w] = NextHighest(w, left)]
           /\ phase' = [c \in Connection |-> IF closes(c) THEN "aborted" ELSE phase[c]]
           /\ idle' = [c \in Connection |->
                        IF waits(c) /\ idle[c] <= Timeout THEN idle[c] + 1 ELSE idle[c]]
    /\ UNCHANGED <<home, task_id_>>

\* do_accept makes the first object before any connection has come.
CrowInit ==
    \E first \in Connection :
        /\ phase = [c \in Connection |-> IF c = first THEN "created" ELSE "none"]
        /\ home = [c \in Connection |-> 0] /\ task_id_ = [c \in Connection |-> 0]
        /\ tasks_ = [w \in Worker |-> {}] /\ highest_id_ = [w \in Worker |-> 0]
        /\ idle = [c \in Connection |-> 0]

CrowNext ==
    \/ Accept \/ Start \/ Data \/ ReadEnds \/ Upgrade \/ WebSocketEnds
    \/ ReadAborted \/ Tick

CrowSpec == CrowInit /\ [][CrowNext]_crowVars

-----------------------------------------------------------------------------
(* Properties.                                                             *)

CrowTypeOK ==
    /\ phase \in [Connection -> Phases] /\ home \in [Connection -> Worker]
    /\ task_id_ \in [Connection -> Nat] /\ highest_id_ \in [Worker -> Nat]
    /\ idle \in [Connection -> 0..(Timeout + 1)]
    /\ \A w \in Worker : tasks_[w] \subseteq
        [id : Nat, conn : Connection, left : 0..Timeout]

\* A new identifier is never that of a task in the timer, though they start again:
\* the map would keep the old task and drop the new connection's deadline.
IdentifiersFresh == \A w \in Worker : \A t \in tasks_[w] : t.id <= highest_id_[w]

\* A timer's tasks are the deadlines of connections that read, each with the identifier
\* its connection knows: none keeps a finished connection's object alive, in the queue
\* length the acceptor goes by, and none can run for a connection that has a later one.
DeadlinesAreLive ==
    \A w \in Worker : \A t \in tasks_[w] :
        phase[t.conn] = "reading" /\ home[t.conn] = w /\ task_id_[t.conn] = t.id

\* The timer closes a connection only when it has been idle for the whole timeout: not
\* one that has just got data, and never a page's WebSocket.
OnlyIdleTimedOut ==
    [][\A c \in Connection :
        phase[c] # "aborted" /\ phase'[c] = "aborted"
            => phase[c] = "reading" /\ idle[c] = Timeout]_crowVars

\* The acceptor puts a connection on a worker with no more live objects than another.
ShortestQueue ==
    [][\A c \in Connection : phase[c] = "none" /\ phase'[c] = "created"
        => \A w \in Worker : QueueLength(home'[c]) <= QueueLength(w)]_crowVars

\* crow_all.h:14278 "Set the connection timeout in seconds (default is 5)": a connection
\* that stays idle past the timeout is closed.  The late cancel of a connection that
\* timed out takes away the deadline of one that got its identifier since.
IdleIsClosed == \A c \in Connection : phase[c] = "reading" => idle[c] <= Timeout
=============================================================================
