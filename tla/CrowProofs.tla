----------------------------- MODULE CrowProofs -----------------------------
(***************************************************************************)
(* Crow's server loop and the event loop of Asio that its threads run.     *)
(*                                                                         *)
(* The deadlines of the connections, for any number of workers and         *)
(* connections and any timeout.  The argument is one inductive invariant:  *)
(* a timer holds at most one task under an identifier, that task is the    *)
(* deadline its connection knows, and what it has left is what the         *)
(* connection may still be idle.                                           *)
(*                                                                         *)
(* The event loop, for any number of threads, posts and pieces of data.  No*)
(* waiting read is left without an event to come: the next read is tried   *)
(* at once for as long as the stream has not ended.  The descriptor is     *)
(* never in the queue while a thread is in the reactor: the reactor is one,*)
(* in the queue or with a thread, and behind every descriptor queued.  And *)
(* no wake-up is lost: a thread blocked in epoll that counts as interrupted*)
(* has been, and a signal not yet given counts for as long as somebody     *)
(* waits for it and the event stays set.                                   *)
(***************************************************************************)
EXTENDS CrowServer, Scheduler, TLAPS

(* The deadlines *)

DeadlineTask == [id : Nat, conn : Connection, left : 0..Timeout]

Types ==
    /\ phase \in [Connection -> Phases] /\ home \in [Connection -> Worker]
    /\ task_id_ \in [Connection -> Nat] /\ highest_id_ \in [Worker -> Nat]
    /\ idle \in [Connection -> 0..(Timeout + 1)]
    /\ tasks_ \in [Worker -> SUBSET DeadlineTask]

OneTaskPerIdentifier ==
    \A w \in Worker : \A t, u \in tasks_[w] : t.id = u.id => t = u

LeftIsToIdle == \A w \in Worker : \A t \in tasks_[w] : t.left + idle[t.conn] = Timeout

FreshIsNotIdle == \A c \in Connection : phase[c] \in {"created", "accepted"} => idle[c] = 0

CrowInv ==
    Types /\ IdentifiersFresh /\ DeadlinesAreLive /\ OneTaskPerIdentifier
    /\ LeftIsToIdle /\ FreshIsNotIdle

\* Initially the timers are empty.
LEMMA CrowInvInit == CrowInit => CrowInv
<1> SUFFICES ASSUME CrowInit PROVE CrowInv
  OBVIOUS
<1>1. PICK first \in Connection :
        phase = [c \in Connection |-> IF c = first THEN "created" ELSE "none"]
  BY DEF CrowInit
<1>2. /\ home = [c \in Connection |-> 0] /\ 0 \in Worker
      /\ task_id_ = [c \in Connection |-> 0]
      /\ tasks_ = [w \in Worker |-> {}] /\ highest_id_ = [w \in Worker |-> 0]
      /\ idle = [c \in Connection |-> 0]
  BY ServerAssumption DEF CrowInit, Worker
<1>3. Types
  BY <1>1, <1>2, ServerAssumption DEF Types, Phases
<1> QED
  BY <1>2, <1>3 DEF CrowInv, IdentifiersFresh, DeadlinesAreLive, OneTaskPerIdentifier,
       LeftIsToIdle, FreshIsNotIdle

\* A step that ends a connection and cancels the deadline it knows: every task of the
\* connection goes with it, whatever else the identifier takes along.
LEMMA CancelKeeps ==
    ASSUME CrowInv, NEW c \in Connection, NEW next \in Phases \ {"created", "accepted", "reading"},
           phase' = [phase EXCEPT ![c] = next], cancel_deadline_timer(c),
           UNCHANGED <<home, task_id_, highest_id_, idle>>
    PROVE  CrowInv'
<1> USE DEF CrowInv
<1>1. tasks_' \in [Worker -> SUBSET DeadlineTask]
  BY DEF Types, cancel_deadline_timer, Without
<1>2. \A w \in Worker : \A t \in tasks_'[w] : t \in tasks_[w] /\ t \in DeadlineTask
  BY DEF Types, cancel_deadline_timer, Without
<1>3. \A w \in Worker : \A t \in tasks_'[w] : t.conn # c
  <2> SUFFICES ASSUME NEW w \in Worker, NEW t \in tasks_'[w], t.conn = c PROVE FALSE
    OBVIOUS
  <2>1. home[c] = w /\ task_id_[c] = t.id
    BY <1>2 DEF DeadlinesAreLive
  <2>2. tasks_'[w] = Without(tasks_[w], t.id)
    BY <2>1 DEF cancel_deadline_timer, Types
  <2> QED
    BY <2>2 DEF Without
<1>4. Types'
  BY <1>1 DEF Types
<1>5. IdentifiersFresh'
  BY <1>2 DEF IdentifiersFresh
<1>6. DeadlinesAreLive'
  BY <1>2, <1>3 DEF DeadlinesAreLive, Types, DeadlineTask
<1>7. OneTaskPerIdentifier'
  BY <1>2 DEF OneTaskPerIdentifier
<1>8. LeftIsToIdle'
  BY <1>2 DEF LeftIsToIdle
<1>9. FreshIsNotIdle'
  BY DEF FreshIsNotIdle, Types
<1> QED
  BY <1>4, <1>5, <1>6, <1>7, <1>8, <1>9

\* A step that puts a connection's deadline off, or gives it its first: the task it
\* knew is gone, and the new identifier is above every one in the timer.
LEMMA DeadlineKeeps ==
    ASSUME CrowInv, NEW c \in Connection, phase[c] \in {"accepted", "reading"},
           phase' = [phase EXCEPT ![c] = "reading"], start_deadline(c),
           idle' = [idle EXCEPT ![c] = 0], UNCHANGED home
    PROVE  CrowInv'
<1> USE DEF CrowInv
<1> DEFINE v == home[c]
           kept == Without(tasks_[v], task_id_[c])
           id == highest_id_[v] + 1
           new == [id |-> id, conn |-> c, left |-> Timeout]
<1>1. v \in Worker /\ id \in Nat /\ new \in DeadlineTask /\ kept \subseteq DeadlineTask
  BY ServerAssumption DEF Types, DeadlineTask, Without
<1>2. \A t \in kept : t \in tasks_[v] /\ t.id < id /\ t.conn # c
  <2> SUFFICES ASSUME NEW t \in kept PROVE t \in tasks_[v] /\ t.id < id /\ t.conn # c
    OBVIOUS
  <2>1. t \in tasks_[v] /\ t.id # task_id_[c] /\ t \in DeadlineTask
    BY <1>1 DEF Without
  <2>2. t.id <= highest_id_[v]
    BY <1>1, <2>1 DEF IdentifiersFresh
  <2>3. t.conn # c
    BY <1>1, <2>1 DEF DeadlinesAreLive
  <2> QED
    BY <1>1, <2>1, <2>2, <2>3 DEF Types, DeadlineTask
<1>3. tasks_' = [tasks_ EXCEPT ![v] = kept \cup {new}]
  <2>1. ~\E t \in kept : t.id = id
    BY <1>1, <1>2 DEF DeadlineTask
  <2> QED
    BY <2>1 DEF start_deadline
<1>4. /\ highest_id_' = [highest_id_ EXCEPT ![v] = id]
      /\ task_id_' = [task_id_ EXCEPT ![c] = id]
  BY DEF start_deadline
<1>5. \A w \in Worker : tasks_'[w] = IF w = v THEN kept \cup {new} ELSE tasks_[w]
  BY <1>1, <1>3 DEF Types
<1>6. \A w \in Worker : w # v => \A t \in tasks_[w] : t.conn # c /\ t \in DeadlineTask
  BY DEF DeadlinesAreLive, Types
<1>7. Types'
  BY <1>1, <1>3, <1>4, ServerAssumption DEF Types, Phases
<1>8. IdentifiersFresh'
  <2>1. \A w \in Worker : highest_id_'[w] = IF w = v THEN id ELSE highest_id_[w]
    BY <1>1, <1>4 DEF Types
  <2>2. \A t \in kept \cup {new} : t.id <= id
    BY <1>1, <1>2 DEF DeadlineTask
  <2> QED
    BY <1>5, <2>1, <2>2 DEF IdentifiersFresh
<1>9. DeadlinesAreLive'
  <2> SUFFICES ASSUME NEW w \in Worker, NEW t \in tasks_'[w]
               PROVE  phase'[t.conn] = "reading" /\ home[t.conn] = w /\ task_id_'[t.conn] = t.id
    BY DEF DeadlinesAreLive
  <2>1. CASE w = v /\ t = new
    BY <2>1, <1>1, <1>4 DEF Types
  <2>2. CASE ~(w = v /\ t = new)
    <3>1. t \in tasks_[w] /\ t.conn # c /\ t.conn \in Connection
      BY <2>2, <1>1, <1>2, <1>5, <1>6 DEF DeadlineTask
    <3> QED
      BY <3>1, <1>4 DEF DeadlinesAreLive, Types
  <2> QED
    BY <2>1, <2>2
<1>10. OneTaskPerIdentifier'
  <2>1. \A t, u \in kept \cup {new} : t.id = u.id => t = u
    BY <1>1, <1>2 DEF OneTaskPerIdentifier, DeadlineTask
  <2> QED
    BY <1>5, <2>1 DEF OneTaskPerIdentifier
<1>11. LeftIsToIdle'
  <2> SUFFICES ASSUME NEW w \in Worker, NEW t \in tasks_'[w]
               PROVE  t.left + idle'[t.conn] = Timeout
    BY DEF LeftIsToIdle
  <2>1. CASE w = v /\ t = new
    BY <2>1, ServerAssumption DEF Types
  <2>2. CASE ~(w = v /\ t = new)
    <3>1. t \in tasks_[w] /\ t.conn # c /\ t.conn \in Connection
      BY <2>2, <1>1, <1>2, <1>5, <1>6 DEF DeadlineTask
    <3> QED
      BY <3>1 DEF LeftIsToIdle, Types
  <2> QED
    BY <2>1, <2>2
<1>12. FreshIsNotIdle'
  BY DEF FreshIsNotIdle, Types
<1> QED
  BY <1>7, <1>8, <1>9, <1>10, <1>11, <1>12

\* A tick takes one second from every task of its worker; those with none left close
\* their connections and are gone.
LEMMA TickKeeps ==
    ASSUME CrowInv, Tick
    PROVE  CrowInv'
<1> USE DEF CrowInv
<1>1. PICK w \in Worker :
        LET finished == {t \in tasks_[w] : Passed(t)}
            left == {[t EXCEPT !.left = @ - 1] : t \in tasks_[w] \ finished}
            closes(c) == phase[c] = "reading" /\ \E t \in finished : t.conn = c
            waits(c) == home[c] = w /\ phase[c] = "reading" /\ ~closes(c)
        IN /\ \A c \in Connection : ~(home[c] = w /\ phase[c] = "aborted")
           /\ tasks_' = [tasks_ EXCEPT ![w] = left]
           /\ highest_id_' = [highest_id_ EXCEPT ![w] = NextHighest(w, left)]
           /\ phase' = [c \in Connection |-> IF closes(c) THEN "aborted" ELSE phase[c]]
           /\ idle' = [c \in Connection |->
                        IF waits(c) /\ idle[c] <= Timeout THEN idle[c] + 1 ELSE idle[c]]
  BY DEF Tick
<1> DEFINE finished == {t \in tasks_[w] : t.left = 0}
           later(t) == [t EXCEPT !.left = @ - 1]
           left == {later(t) : t \in tasks_[w] \ finished}
           closes(c) == phase[c] = "reading" /\ \E t \in finished : t.conn = c
           waits(c) == home[c] = w /\ phase[c] = "reading" /\ ~closes(c)
<1>2. /\ tasks_' = [tasks_ EXCEPT ![w] = left]
      /\ highest_id_' = [highest_id_ EXCEPT ![w] = NextHighest(w, left)]
      /\ phase' = [c \in Connection |-> IF closes(c) THEN "aborted" ELSE phase[c]]
      /\ idle' = [c \in Connection |->
                    IF waits(c) /\ idle[c] <= Timeout THEN idle[c] + 1 ELSE idle[c]]
      /\ home' = home /\ task_id_' = task_id_
  BY <1>1 DEF Tick, Passed
<1>3. \A t \in tasks_[w] \ finished :
        /\ t \in DeadlineTask /\ later(t) \in DeadlineTask
        /\ later(t).id = t.id /\ later(t).conn = t.conn /\ later(t).left = t.left - 1
  <2> SUFFICES ASSUME NEW t \in tasks_[w], t.left # 0
               PROVE  /\ t \in DeadlineTask /\ later(t) \in DeadlineTask
                      /\ later(t).id = t.id /\ later(t).conn = t.conn
                      /\ later(t).left = t.left - 1
    OBVIOUS
  <2>1. t \in DeadlineTask
    BY DEF Types
  <2> QED
    BY <2>1, ServerAssumption DEF DeadlineTask
<1>4. \A v \in Worker : tasks_'[v] = IF v = w THEN left ELSE tasks_[v]
  BY <1>2 DEF Types
\* A connection with a task left is not closed: the task that ran is its only one.
<1>5. \A v \in Worker : \A t \in tasks_[v] : ~(v = w /\ t \in finished) => ~closes(t.conn)
  <2> SUFFICES ASSUME NEW v \in Worker, NEW t \in tasks_[v], NEW u \in finished,
                      u.conn = t.conn, ~(v = w /\ t \in finished)
               PROVE  FALSE
    OBVIOUS
  <2>1. home[t.conn] = v /\ home[u.conn] = w /\ task_id_[t.conn] = t.id /\ task_id_[u.conn] = u.id
    BY DEF DeadlinesAreLive
  <2>2. v = w /\ t.id = u.id
    BY <2>1
  <2> QED
    BY <2>2 DEF OneTaskPerIdentifier
<1>6. Types'
  <2>1. left \subseteq DeadlineTask
    BY <1>3
  <2>2. tasks_' \in [Worker -> SUBSET DeadlineTask]
    BY <1>2, <2>1 DEF Types
  <2>3. NextHighest(w, left) \in Nat
    BY DEF NextHighest, Types
  <2>4. phase' \in [Connection -> Phases]
    BY <1>2 DEF Types, Phases
  <2>5. idle' \in [Connection -> 0..(Timeout + 1)]
    BY <1>2, ServerAssumption DEF Types
  <2> QED
    BY <1>2, <2>2, <2>3, <2>4, <2>5 DEF Types
<1>7. IdentifiersFresh'
  <2> SUFFICES ASSUME NEW v \in Worker, NEW t \in tasks_'[v] PROVE t.id <= highest_id_'[v]
    BY DEF IdentifiersFresh
  <2>1. CASE v = w
    <3>1. PICK u \in tasks_[w] \ finished : t = later(u)
      BY <1>4, <2>1
    <3>2. highest_id_'[v] = highest_id_[w]
      BY <1>2, <1>4, <2>1 DEF NextHighest, Types
    <3> QED
      BY <3>1, <3>2, <1>3 DEF IdentifiersFresh
  <2>2. CASE v # w
    BY <2>2, <1>2, <1>4 DEF IdentifiersFresh, Types
  <2> QED
    BY <2>1, <2>2
<1>8. DeadlinesAreLive'
  <2> SUFFICES ASSUME NEW v \in Worker, NEW t \in tasks_'[v]
               PROVE  phase'[t.conn] = "reading" /\ home[t.conn] = v /\ task_id_[t.conn] = t.id
    BY <1>2 DEF DeadlinesAreLive
  <2>1. PICK u \in tasks_[v] : ~(v = w /\ u \in finished) /\ t.conn = u.conn /\ t.id = u.id
    <3>1. CASE v = w
      <4>1. PICK u \in tasks_[w] \ finished : t = later(u)
        BY <1>4, <3>1
      <4> QED
        BY <4>1, <3>1, <1>3
    <3>2. CASE v # w
      BY <3>2, <1>4
    <3> QED
      BY <3>1, <3>2
  <2>2. ~closes(u.conn) /\ u.conn \in Connection
    BY <2>1, <1>5 DEF Types, DeadlineTask
  <2> QED
    BY <2>1, <2>2, <1>2 DEF DeadlinesAreLive
<1>9. OneTaskPerIdentifier'
  <2>1. ASSUME NEW t \in left, NEW u \in left, t.id = u.id PROVE t = u
    <3>1. PICK s \in tasks_[w] \ finished : t = later(s)
      OBVIOUS
    <3>2. PICK r \in tasks_[w] \ finished : u = later(r)
      OBVIOUS
    <3>3. s.id = r.id
      BY <2>1, <3>1, <3>2, <1>3
    <3> QED
      BY <3>1, <3>2, <3>3 DEF OneTaskPerIdentifier
  <2> QED
    BY <1>4, <2>1 DEF OneTaskPerIdentifier
<1>10. LeftIsToIdle'
  <2> SUFFICES ASSUME NEW v \in Worker, NEW t \in tasks_'[v]
               PROVE  t.left + idle'[t.conn] = Timeout
    BY DEF LeftIsToIdle
  <2>1. CASE v = w
    <3>1. PICK u \in tasks_[w] \ finished : t = later(u)
      BY <1>4, <2>1
    <3>2. u.left + idle[u.conn] = Timeout /\ u.conn \in Connection /\ u.left \in 1..Timeout
      BY <3>1, <1>3 DEF LeftIsToIdle, DeadlineTask
    <3>3. home[u.conn] = w /\ phase[u.conn] = "reading" /\ ~closes(u.conn)
      BY <3>1, <1>5 DEF DeadlinesAreLive
    <3>4. idle'[u.conn] = idle[u.conn] + 1
      BY <3>2, <3>3, <1>2, ServerAssumption DEF Types
    <3> QED
      BY <3>1, <3>2, <3>4, <1>3, ServerAssumption DEF Types
  <2>2. CASE v # w
    <3>1. t \in tasks_[v] /\ t \in DeadlineTask
      BY <2>2, <1>4 DEF Types
    <3>2. t.conn \in Connection /\ home[t.conn] = v
      BY <3>1 DEF DeadlinesAreLive, DeadlineTask
    <3>3. idle'[t.conn] = idle[t.conn]
      BY <3>2, <2>2, <1>2
    <3> QED
      BY <3>1, <3>3 DEF LeftIsToIdle
  <2> QED
    BY <2>1, <2>2
<1>11. FreshIsNotIdle'
  BY <1>2 DEF FreshIsNotIdle
<1> QED
  BY <1>6, <1>7, <1>8, <1>9, <1>10, <1>11

\* Every step of the server keeps the invariant.
LEMMA CrowInvStep == CrowInv /\ [CrowNext]_crowVars => CrowInv'
<1> SUFFICES ASSUME CrowInv, [CrowNext]_crowVars PROVE CrowInv'
  OBVIOUS
<1>1. CASE Accept
  <2>1. PICK c, d \in Connection, w \in Worker :
          /\ phase[c] = "created" /\ phase[d] = "none"
          /\ phase' = [phase EXCEPT ![c] = "accepted", ![d] = "created"]
          /\ home' = [home EXCEPT ![d] = w]
          /\ task_id_' = [task_id_ EXCEPT ![d] = 0]
          /\ idle' = [idle EXCEPT ![d] = 0]
          /\ UNCHANGED <<tasks_, highest_id_>>
    BY <1>1 DEF Accept
  <2>2. \A v \in Worker : \A t \in tasks_[v] :
          t.conn \in Connection /\ t.conn # c /\ t.conn # d
    BY <2>1 DEF CrowInv, DeadlinesAreLive, Types, DeadlineTask
  <2>3. Types'
    BY <2>1, ServerAssumption DEF CrowInv, Types, Phases
  <2>4. IdentifiersFresh' /\ OneTaskPerIdentifier'
    BY <2>1 DEF CrowInv, IdentifiersFresh, OneTaskPerIdentifier
  <2>5. DeadlinesAreLive' /\ LeftIsToIdle'
    BY <2>1, <2>2 DEF CrowInv, DeadlinesAreLive, LeftIsToIdle, Types
  <2>6. FreshIsNotIdle'
    BY <2>1 DEF CrowInv, FreshIsNotIdle, Types
  <2> QED
    BY <2>3, <2>4, <2>5, <2>6 DEF CrowInv
<1>2. CASE Start
  <2>1. PICK c \in Connection :
          /\ phase[c] = "accepted" /\ phase' = [phase EXCEPT ![c] = "reading"]
          /\ start_deadline(c) /\ UNCHANGED <<home, idle>>
    BY <1>2 DEF Start
  <2>2. idle' = [idle EXCEPT ![c] = 0]
    BY <2>1 DEF CrowInv, FreshIsNotIdle, Types
  <2> QED
    BY <2>1, <2>2, DeadlineKeeps
<1>3. CASE Data
  <2>1. PICK c \in Connection :
          /\ phase[c] = "reading" /\ start_deadline(c)
          /\ idle' = [idle EXCEPT ![c] = 0] /\ UNCHANGED <<phase, home>>
    BY <1>3 DEF Data
  <2>2. phase' = [phase EXCEPT ![c] = "reading"]
    BY <2>1 DEF CrowInv, Types
  <2> QED
    BY <2>1, <2>2, DeadlineKeeps
<1>4. CASE ReadEnds
  BY <1>4, CancelKeeps DEF ReadEnds, Phases
<1>5. CASE Upgrade
  BY <1>5, CancelKeeps DEF Upgrade, Phases
<1>6. CASE WebSocketEnds
  <2>1. PICK c \in Connection :
          /\ phase[c] = "upgraded" /\ phase' = [phase EXCEPT ![c] = "none"]
          /\ UNCHANGED <<home, task_id_, tasks_, highest_id_, idle>>
    BY <1>6 DEF WebSocketEnds
  <2> QED
    BY <2>1 DEF CrowInv, Types, Phases, IdentifiersFresh, DeadlinesAreLive, DeadlineTask,
         OneTaskPerIdentifier, LeftIsToIdle, FreshIsNotIdle
<1>7. CASE ReadAborted
  BY <1>7, CancelKeeps DEF ReadAborted, Phases
<1>8. CASE Tick
  BY <1>8, TickKeeps
<1>9. CASE UNCHANGED crowVars
  BY <1>9 DEF crowVars, CrowInv, Types, IdentifiersFresh, DeadlinesAreLive,
       OneTaskPerIdentifier, LeftIsToIdle, FreshIsNotIdle
<1> QED
  BY <1>1, <1>2, <1>3, <1>4, <1>5, <1>6, <1>7, <1>8, <1>9 DEF CrowNext

\* The invariant holds in every state the server reaches.
LEMMA CrowInvariant == CrowSpec => []CrowInv
<1> QED
  BY CrowInvInit, CrowInvStep, PTL DEF CrowSpec

\* Every variable keeps its type; a task's time is never past its end.
THEOREM CrowTypeCorrect == CrowSpec => []CrowTypeOK
<1>1. CrowInv => CrowTypeOK
  BY DEF CrowInv, Types, CrowTypeOK, DeadlineTask
<1> QED
  BY <1>1, CrowInvariant, PTL

\* A timer never issues an identifier that a task in it still has, though it starts
\* again at one whenever it is empty: no connection's deadline is dropped by the map.
THEOREM CrowIdentifiersFresh == CrowSpec => []IdentifiersFresh
<1>1. CrowInv => IdentifiersFresh
  BY DEF CrowInv
<1> QED
  BY <1>1, CrowInvariant, PTL

\* Every deadline in a timer is the one a reading connection of that worker knows,
\* however late cancels, reused identifiers, upgrades and timeouts interleave.
THEOREM CrowDeadlinesAreLive == CrowSpec => []DeadlinesAreLive
<1>1. CrowInv => DeadlinesAreLive
  BY DEF CrowInv
<1> QED
  BY <1>1, CrowInvariant, PTL

\* What a tick closes has been idle for the whole timeout.
LEMMA TickClosesIdle ==
    ASSUME CrowInv, Tick, NEW c \in Connection, phase[c] # "aborted", phase'[c] = "aborted"
    PROVE  phase[c] = "reading" /\ idle[c] = Timeout
<1>1. PICK w \in Worker :
        phase' = [d \in Connection |->
                    IF phase[d] = "reading"
                       /\ \E t \in {s \in tasks_[w] : Passed(s)} : t.conn = d
                    THEN "aborted" ELSE phase[d]]
  BY DEF Tick
<1>2. PICK t \in tasks_[w] : Passed(t) /\ t.conn = c /\ phase[c] = "reading"
  BY <1>1
<1>3. t.left = 0 /\ t.left + idle[c] = Timeout
  BY <1>2 DEF CrowInv, LeftIsToIdle, Passed
<1> QED
  BY <1>2, <1>3 DEF CrowInv, Types

\* The timer closes no connection but one that has been idle for the whole timeout, and
\* no WebSocket.
THEOREM CrowOnlyIdleTimedOut == CrowSpec => OnlyIdleTimedOut
<1> DEFINE Step == \A c \in Connection :
                     phase[c] # "aborted" /\ phase'[c] = "aborted"
                       => phase[c] = "reading" /\ idle[c] = Timeout
<1>1. CrowInv /\ [CrowNext]_crowVars => [Step]_crowVars
  <2> SUFFICES ASSUME CrowInv, CrowNext, NEW c \in Connection,
                      phase[c] # "aborted", phase'[c] = "aborted"
               PROVE  phase[c] = "reading" /\ idle[c] = Timeout
    OBVIOUS
  <2>1. CASE Tick
    BY <2>1, TickClosesIdle
  <2>2. CASE Accept \/ Start \/ Data \/ ReadEnds \/ Upgrade \/ WebSocketEnds \/ ReadAborted
    BY <2>2 DEF Accept, Start, Data, ReadEnds, Upgrade, WebSocketEnds, ReadAborted, CrowInv, Types
  <2> QED
    BY <2>1, <2>2 DEF CrowNext
<1> QED
  BY <1>1, CrowInvariant, PTL DEF CrowSpec, OnlyIdleTimedOut

-----------------------------------------------------------------------------
(* The event loop *)

Kind == {"task", "descriptor", "read", "handler", "compensated", "nothing"}
Op == [kind : Kind, id : Nat]
Place == {"loop", "waiting", "woken", "poll", "epoll", "cleanup", "handler", "done"}

Typed ==
    /\ op_queue_ \in Seq(Op) /\ private_op_queue \in [Thread -> Seq(Op)]
    /\ pc \in [Thread -> Place] /\ running \in [Thread -> Op]
    /\ posted \in Nat /\ counting \in Nat /\ data \in Nat

\* A read is not tried only after the end of the stream.
TriedUntilEnd == ~try_speculative_ => peer = "told"

\* A descriptor is run by a thread that is in a handler.
RunInHandler == \A t \in Thread : running[t] = Descriptor => pc[t] = "handler"

ReadInv == Typed /\ RunInHandler /\ TriedUntilEnd /\ ReadNotStuck

-----------------------------------------------------------------------------
(* What a queue contains after each way it changes.                        *)

\* What is appended, and nothing else, is new in the queue.
LEMMA AppendContains ==
    ASSUME NEW s \in Seq(Op), NEW op \in Op, NEW x
    PROVE  /\ Append(s, op) \in Seq(Op)
           /\ Contains(Append(s, op), x) <=> Contains(s, x) \/ x = op
<1>1. Contains(s, x) => Contains(Append(s, op), x)
  BY DEF Contains
<1>2. Append(s, op)[Len(s) + 1] = op /\ Len(s) + 1 \in 1..Len(Append(s, op))
  OBVIOUS
<1>3. Contains(Append(s, op), x) => Contains(s, x) \/ x = op
  BY DEF Contains
<1> QED
  BY <1>1, <1>2, <1>3 DEF Contains

\* Two queues joined contain what either did.
LEMMA ConcatContains ==
    ASSUME NEW s \in Seq(Op), NEW p \in Seq(Op), NEW x
    PROVE  /\ s \o p \in Seq(Op)
           /\ Contains(s \o p, x) <=> Contains(s, x) \/ Contains(p, x)
<1>1. Contains(s, x) => Contains(s \o p, x)
  BY DEF Contains
<1>2. ASSUME Contains(p, x) PROVE Contains(s \o p, x)
  <2>1. PICK k \in 1..Len(p) : p[k] = x
    BY <1>2 DEF Contains
  <2>2. Len(s) + k \in 1..Len(s \o p) /\ (s \o p)[Len(s) + k] = x
    BY <2>1
  <2> QED
    BY <2>2 DEF Contains
<1>3. ASSUME Contains(s \o p, x) PROVE Contains(s, x) \/ Contains(p, x)
  <2>1. PICK k \in 1..Len(s \o p) : (s \o p)[k] = x
    BY <1>3 DEF Contains
  <2>2. CASE k \in 1..Len(s)
    BY <2>1, <2>2 DEF Contains
  <2>3. CASE k \notin 1..Len(s)
    <3>1. k - Len(s) \in 1..Len(p) /\ p[k - Len(s)] = x
      BY <2>1, <2>3
    <3> QED
      BY <3>1 DEF Contains
  <2> QED
    BY <2>2, <2>3
<1> QED
  BY <1>1, <1>2, <1>3

\* A queue contains its head and what its tail does.
LEMMA TailContains ==
    ASSUME NEW s \in Seq(Op), s # <<>>, NEW x
    PROVE  /\ Tail(s) \in Seq(Op) /\ Head(s) \in Op
           /\ Contains(s, x) <=> Contains(Tail(s), x) \/ x = Head(s)
<1>1. Len(s) \in Nat /\ Len(s) >= 1 /\ Head(s) = s[1] /\ Len(Tail(s)) = Len(s) - 1
  OBVIOUS
<1>2. ASSUME Contains(Tail(s), x) PROVE Contains(s, x)
  <2>1. PICK k \in 1..Len(Tail(s)) : Tail(s)[k] = x
    BY <1>2 DEF Contains
  <2>2. k + 1 \in 1..Len(s) /\ s[k + 1] = x
    BY <2>1, <1>1
  <2> QED
    BY <2>2 DEF Contains
<1>3. ASSUME Contains(s, x), x # Head(s) PROVE Contains(Tail(s), x)
  <2>1. PICK k \in 1..Len(s) : s[k] = x
    BY <1>3 DEF Contains
  <2>2. k - 1 \in 1..Len(Tail(s)) /\ Tail(s)[k - 1] = x
    BY <2>1, <1>1, <1>3
  <2> QED
    BY <2>2 DEF Contains
<1>4. Contains(s, Head(s))
  <2>1. 1 \in 1..Len(s) /\ s[1] = Head(s)
    BY <1>1
  <2> QED
    BY <2>1 DEF Contains
<1>5. Tail(s) \in Seq(Op) /\ Head(s) \in Op
  OBVIOUS
<1> QED
  BY <1>2, <1>3, <1>4, <1>5

\* The operations are operations, and the ones that matter differ.
LEMMA OpTypes ==
    /\ Task \in Op /\ Descriptor \in Op /\ ReadOp \in Op /\ Compensated \in Op /\ Nothing \in Op
    /\ \A n \in Nat : Handler(n) \in Op /\ Handler(n) # Descriptor /\ Handler(n) # Task
    /\ Task # Descriptor /\ ReadOp # Descriptor /\ ReadOp # Task
    /\ Compensated # Descriptor /\ Nothing # Descriptor
<1>1. Task \in Op /\ Descriptor \in Op /\ ReadOp \in Op /\ Compensated \in Op /\ Nothing \in Op
  BY DEF Op, Kind, Task, Descriptor, ReadOp, Compensated, Nothing
<1>2. \A n \in Nat : Handler(n) \in Op
  BY DEF Op, Kind, Handler
<1>3. \A n \in Nat : Handler(n).kind = "handler"
  BY DEF Handler
<1>4. /\ Task.kind = "task" /\ Descriptor.kind = "descriptor" /\ ReadOp.kind = "read"
      /\ Compensated.kind = "compensated" /\ Nothing.kind = "nothing"
  BY DEF Task, Descriptor, ReadOp, Compensated, Nothing
<1>5. \A n \in Nat : Handler(n) # Descriptor /\ Handler(n) # Task
  BY <1>3, <1>4
<1>6. /\ Task # Descriptor /\ ReadOp # Descriptor /\ ReadOp # Task
      /\ Compensated # Descriptor /\ Nothing # Descriptor
  BY <1>4
<1> QED
  BY <1>1, <1>2, <1>5, <1>6

-----------------------------------------------------------------------------
(* Types.                                                                  *)

\* A thread moves to another place.
LEMMA MoveTypes ==
    ASSUME NEW f \in [Thread -> Place], NEW t \in Thread, NEW to \in Place
    PROVE  [f EXCEPT ![t] = to] \in [Thread -> Place]
<1> QED
  OBVIOUS

\* A thread's private queue is replaced by another.
LEMMA PrivateTypes ==
    ASSUME Typed, NEW t \in Thread, NEW p \in Seq(Op)
    PROVE  [private_op_queue EXCEPT ![t] = p] \in [Thread -> Seq(Op)]
<1> QED
  BY DEF Typed

\* Waking one thread or all leaves every thread somewhere.
LEMMA WakeTypes ==
    ASSUME NEW by, NEW pcs \in [Thread -> Place], Wake(by, pcs)
    PROVE  pc' \in [Thread -> Place]
<1> QED
  BY DEF Wake

\* As for one thread woken.
LEMMA StopAllTypes ==
    ASSUME NEW pcs \in [Thread -> Place], StopAll(pcs)
    PROVE  pc' \in [Thread -> Place]
<1> QED
  BY DEF StopAll, Place

\* The first state is typed.
LEMMA TypesInit == Init => Typed
<1> SUFFICES ASSUME Init PROVE Typed
  OBVIOUS
<1>1. op_queue_ \in Seq(Op)
  BY OpTypes DEF Init
<1>2. private_op_queue \in [Thread -> Seq(Op)] /\ pc \in [Thread -> Place]
  BY DEF Init, Place
<1>3. running \in [Thread -> Op] /\ posted \in Nat /\ counting \in Nat /\ data \in Nat
  BY OpTypes DEF Init
<1> QED
  BY <1>1, <1>2, <1>3 DEF Typed

\* A read leaves the next one to be tried, or has returned the end.
LEMMA ReadsTypes ==
    ASSUME data \in Nat, Reads
    PROVE  data' \in Nat /\ ((peer' = peer /\ try_speculative_') \/ peer' = "told")
<1> QED
  BY DEF Reads

\* Every step keeps the types.
LEMMA TypesNext == Typed /\ [Next]_schedVars => Typed'
<1> SUFFICES ASSUME Typed, [Next]_schedVars PROVE Typed'
  OBVIOUS
<1>0. UNCHANGED schedVars => Typed'
  BY DEF schedVars, queueVars, privateVars, socketVars, postVars, Typed
<1>1. ASSUME NEW t \in Thread, WakeSpuriously(t) \/ WaitEnds(t) \/ LeavesRun(t) \/ Waits(t)
      PROVE  Typed'
  <2>1. pc' \in [Thread -> Place]
    BY <1>1, MoveTypes DEF WakeSpuriously, WaitEnds, LeavesRun, Waits, Typed, Place
  <2>2. UNCHANGED <<queueVars, running, privateVars, socketVars, postVars>>
    BY <1>1 DEF WakeSpuriously, WaitEnds, LeavesRun, Waits
  <2> QED
    BY <2>1, <2>2 DEF Typed, queueVars, privateVars, socketVars, postVars
<1>2. ASSUME NEW t \in Thread, RunsTask(t) PROVE Typed'
  <2>1. pc' \in [Thread -> Place]
    BY <1>2, MoveTypes DEF RunsTask, Typed, Place
  <2>2. op_queue_' \in Seq(Op)
    BY <1>2, TailContains DEF RunsTask, Typed
  <2>3. UNCHANGED <<running, privateVars, socketVars, postVars>>
    BY <1>2 DEF RunsTask
  <2> QED
    BY <2>1, <2>2, <2>3 DEF Typed, privateVars, socketVars, postVars
<1>3. ASSUME NEW t \in Thread, RunsOperation(t) PROVE Typed'
  <2> DEFINE pcs == [pc EXCEPT ![t] = "handler"]
  <2>1. pcs \in [Thread -> Place]
    BY MoveTypes DEF Typed, Place
  <2>2. Wake(t, pcs) \/ pc' = pcs
    BY <1>3 DEF RunsOperation
  <2>3. pc' \in [Thread -> Place]
    BY <2>1, <2>2, WakeTypes
  <2>4. op_queue_' \in Seq(Op) /\ Head(op_queue_) \in Op
    BY <1>3, TailContains DEF RunsOperation, Typed
  <2>5. running' \in [Thread -> Op]
    BY <1>3, <2>4 DEF RunsOperation, Typed
  <2>6. UNCHANGED <<privateVars, socketVars, counting, posted>>
    BY <1>3 DEF RunsOperation
  <2> QED
    BY <2>3, <2>4, <2>5, <2>6 DEF Typed, privateVars, socketVars
<1>4. ASSUME NEW t \in Thread, EpollReturns(t) PROVE Typed'
  <2>1. Append(private_op_queue[t], Descriptor) \in Seq(Op)
    BY AppendContains, OpTypes DEF Typed
  <2>2. private_op_queue' \in [Thread -> Seq(Op)]
    BY <1>4, <2>1, PrivateTypes DEF EpollReturns, Typed
  <2>3. pc' \in [Thread -> Place]
    BY <1>4, MoveTypes DEF EpollReturns, Typed, Place
  <2> QED
    BY <1>4, <2>2, <2>3 DEF EpollReturns, Typed, queueVars, postVars
<1>5. ASSUME NEW t \in Thread, TaskCleanup(t) PROVE Typed'
  <2>1. op_queue_ \o private_op_queue[t] \in Seq(Op) /\ <<Task>> \in Seq(Op)
    BY ConcatContains, OpTypes DEF Typed
  <2>2. op_queue_' \in Seq(Op)
    BY <1>5, <2>1, ConcatContains DEF TaskCleanup
  <2>3. private_op_queue' \in [Thread -> Seq(Op)]
    <3>1. <<>> \in Seq(Op)
      OBVIOUS
    <3> QED
      BY <1>5, <3>1, PrivateTypes DEF TaskCleanup
  <2>4. pc' \in [Thread -> Place]
    BY <1>5, MoveTypes DEF TaskCleanup, Typed, Place
  <2> QED
    BY <1>5, <2>2, <2>3, <2>4 DEF TaskCleanup, Typed, socketVars, postVars
<1>6. ASSUME NEW t \in Thread, RunsDescriptor(t) PROVE Typed'
  <2>1. data' \in Nat
    BY <1>6, ReadsTypes DEF RunsDescriptor, Typed
  <2>2. running' \in [Thread -> Op]
    BY <1>6, OpTypes DEF RunsDescriptor, Typed
  <2> QED
    BY <1>6, <2>1, <2>2 DEF RunsDescriptor, Typed, queueVars, postVars
<1>7. ASSUME NEW t \in Thread, HandlerPosts(t) PROVE Typed'
  <2>1. posted' \in Nat
    BY <1>7 DEF HandlerPosts, Typed
  <2>2. op_queue_' \in Seq(Op)
    BY <1>7, <2>1, AppendContains, OpTypes DEF HandlerPosts, Typed
  <2>3. pc' \in [Thread -> Place]
    BY <1>7, WakeTypes DEF HandlerPosts, Typed
  <2> QED
    BY <1>7, <2>1, <2>2, <2>3 DEF HandlerPosts, Typed, privateVars, socketVars
<1>8. ASSUME NEW t \in Thread, HandlerContinues(t) PROVE Typed'
  <2>1. posted' \in Nat
    BY <1>8 DEF HandlerContinues, Typed
  <2>2. Append(private_op_queue[t], Handler(posted')) \in Seq(Op)
    BY <2>1, AppendContains, OpTypes DEF Typed
  <2>3. private_op_queue' \in [Thread -> Seq(Op)]
    BY <1>8, <2>2, PrivateTypes DEF HandlerContinues
  <2> QED
    BY <1>8, <2>1, <2>3 DEF HandlerContinues, Typed, queueVars, socketVars
<1>9. ASSUME NEW t \in Thread, HandlerStartsRead(t) PROVE Typed'
  <2>1. data' \in Nat
    BY <1>9, ReadsTypes DEF HandlerStartsRead, Typed
  <2>2. op_queue_' \in Seq(Op)
    BY <1>9, AppendContains, OpTypes DEF HandlerStartsRead, Typed
  <2>3. pc' \in [Thread -> Place]
    BY <1>9, WakeTypes DEF HandlerStartsRead, Typed
  <2> QED
    BY <1>9, <2>1, <2>2, <2>3 DEF HandlerStartsRead, Typed, privateVars, postVars
<1>10. ASSUME NEW t \in Thread, HandlerEnds(t) PROVE Typed'
  <2> DEFINE pcs == [pc EXCEPT ![t] = "loop"]
  <2>1. pcs \in [Thread -> Place]
    BY MoveTypes DEF Typed, Place
  <2>2. StopAll(pcs) \/ pc' = pcs
    BY <1>10 DEF HandlerEnds
  <2>3. pc' \in [Thread -> Place]
    BY <2>1, <2>2, StopAllTypes
  <2>4. op_queue_' \in Seq(Op)
    BY <1>10, ConcatContains DEF HandlerEnds, Typed
  <2>5. private_op_queue' \in [Thread -> Seq(Op)]
    <3>1. <<>> \in Seq(Op)
      OBVIOUS
    <3> QED
      BY <1>10, <3>1, PrivateTypes DEF HandlerEnds
  <2>6. running' \in [Thread -> Op]
    BY <1>10, OpTypes DEF HandlerEnds, Typed
  <2> QED
    BY <1>10, <2>3, <2>4, <2>5, <2>6 DEF HandlerEnds, Typed, socketVars, postVars
<1>11. ASSUME NEW by, Signal(by) PROVE Typed'
  <2>1. pc' \in [Thread -> Place]
    <3>1. CASE UNCHANGED pc
      BY <3>1 DEF Typed
    <3>2. CASE \E t \in Thread : pc' = [pc EXCEPT ![t] = "woken"]
      BY <3>2, MoveTypes DEF Typed, Place
    <3> QED
      BY <1>11, <3>1, <3>2 DEF Signal
  <2> QED
    BY <1>11, <2>1 DEF Signal, Typed, queueVars, privateVars, socketVars, postVars
<1>12. CASE AcceptorCounts
  BY <1>12 DEF AcceptorCounts, Typed, privateVars, socketVars
<1>13. CASE AcceptorQueues
  <2>1. op_queue_' \in Seq(Op)
    BY <1>13, AppendContains, OpTypes DEF AcceptorQueues, Typed
  <2>2. pc' \in [Thread -> Place]
    BY <1>13, WakeTypes DEF AcceptorQueues, Typed
  <2> QED
    BY <1>13, <2>1, <2>2 DEF AcceptorQueues, Typed, privateVars, socketVars
<1>14. CASE DataArrives \/ PeerEnds
  BY <1>14 DEF DataArrives, PeerEnds, Typed, queueVars, privateVars, postVars
<1>15. CASE Stop
  <2>1. pc' \in [Thread -> Place]
    BY <1>15, StopAllTypes DEF Stop, Typed
  <2> QED
    BY <1>15, <2>1 DEF Stop, Typed, queueVars, privateVars, socketVars, postVars
<1> QED
  BY <1>0, <1>1, <1>2, <1>3, <1>4, <1>5, <1>6, <1>7, <1>8, <1>9, <1>10, <1>11, <1>12, <1>13,
     <1>14, <1>15 DEF Next

\* Every step keeps a thread that runs a descriptor where it is.
LEMMA RunInHandlerNext == Typed /\ RunInHandler /\ [Next]_schedVars => RunInHandler'
<1> SUFFICES ASSUME Typed, RunInHandler, [Next]_schedVars PROVE RunInHandler'
  OBVIOUS
<1>0. ASSUME UNCHANGED running, \A t \in Thread : pc[t] = "handler" => pc'[t] = "handler"
      PROVE  RunInHandler'
  BY <1>0 DEF RunInHandler
<1>1. CASE UNCHANGED schedVars
  BY <1>0, <1>1 DEF schedVars
<1>2. ASSUME NEW t \in Thread, WakeSpuriously(t) \/ WaitEnds(t) \/ LeavesRun(t) \/ Waits(t)
      PROVE  RunInHandler'
  BY <1>0, <1>2 DEF WakeSpuriously, WaitEnds, LeavesRun, Waits, AtLoop, Typed
<1>3. ASSUME NEW t \in Thread, RunsTask(t) \/ EpollReturns(t) \/ TaskCleanup(t)
      PROVE  RunInHandler'
  BY <1>0, <1>3 DEF RunsTask, EpollReturns, TaskCleanup, AtLoop, Typed
<1>4. ASSUME NEW t \in Thread, RunsOperation(t) PROVE RunInHandler'
  <2>1. pc' = [pc EXCEPT ![t] = "handler"]
    BY <1>4 DEF RunsOperation, Wake
  <2>2. \A u \in Thread \ {t} : running'[u] = running[u]
    BY <1>4 DEF RunsOperation, Typed
  <2> QED
    BY <2>1, <2>2 DEF RunInHandler, Typed
<1>5. ASSUME NEW t \in Thread, RunsDescriptor(t) PROVE RunInHandler'
  <2>1. \A u \in Thread \ {t} : running'[u] = running[u]
    BY <1>5 DEF RunsDescriptor, Typed
  <2> QED
    BY <1>5, <2>1 DEF RunsDescriptor, RunInHandler
<1>6. ASSUME NEW t \in Thread, HandlerPosts(t) \/ HandlerContinues(t) \/ HandlerStartsRead(t)
      PROVE  RunInHandler'
  BY <1>0, <1>6 DEF HandlerPosts, HandlerContinues, HandlerStartsRead, Wake
<1>7. ASSUME NEW t \in Thread, HandlerEnds(t) PROVE RunInHandler'
  <2> DEFINE pcs == [pc EXCEPT ![t] = "loop"]
  <2>1. StopAll(pcs) \/ pc' = pcs
    BY <1>7 DEF HandlerEnds
  <2>2. \A u \in Thread \ {t} : pc[u] = "handler" => pc'[u] = "handler"
    BY <2>1 DEF StopAll, Typed
  <2>3. running'[t] # Descriptor /\ \A u \in Thread \ {t} : running'[u] = running[u]
    BY <1>7, OpTypes DEF HandlerEnds, Typed
  <2> QED
    BY <2>2, <2>3 DEF RunInHandler
<1>8. ASSUME NEW by, Signal(by) PROVE RunInHandler'
  BY <1>0, <1>8 DEF Signal, Typed
<1>9. CASE AcceptorCounts \/ AcceptorQueues \/ DataArrives \/ PeerEnds
  BY <1>0, <1>9 DEF AcceptorCounts, AcceptorQueues, DataArrives, PeerEnds, Wake
<1>10. CASE Stop
  BY <1>0, <1>10 DEF Stop, StopAll
<1> QED
  BY <1>1, <1>2, <1>3, <1>4, <1>5, <1>6, <1>7, <1>8, <1>9, <1>10 DEF Next

-----------------------------------------------------------------------------
(* No waiting read is left without an event to come.                       *)

\* The descriptor's event is known: in epoll, queued, or being handled.
Known(e, q, p, r) ==
    \/ e \/ Contains(q, Descriptor)
    \/ \E t \in Thread : r[t] = Descriptor \/ Contains(p[t], Descriptor)

\* A step that leaves the socket alone only has to keep the event known.
LEMMA KnownKeeps ==
    ASSUME ReadInv, UNCHANGED socketVars,
           Known(edge, op_queue_, private_op_queue, running) =>
             Known(edge', op_queue_', private_op_queue', running')
    PROVE  (TriedUntilEnd /\ ReadNotStuck)'
<1> QED
  BY DEF ReadInv, TriedUntilEnd, ReadNotStuck, Readable, socketVars, Known

\* Every step keeps the event of a waiting read known.
LEMMA ReadNext == ReadInv /\ [Next]_schedVars => (TriedUntilEnd /\ ReadNotStuck)'
<1> SUFFICES ASSUME ReadInv, [Next]_schedVars PROVE (TriedUntilEnd /\ ReadNotStuck)'
  OBVIOUS
<1> USE DEF ReadInv
<1>0. ASSUME UNCHANGED <<op_queue_, private_op_queue, running, socketVars>>
      PROVE  (TriedUntilEnd /\ ReadNotStuck)'
  BY <1>0, KnownKeeps DEF Known, socketVars
<1>1. CASE UNCHANGED schedVars
  BY <1>0, <1>1 DEF schedVars, queueVars, privateVars
<1>2. ASSUME NEW t \in Thread, WakeSpuriously(t) \/ WaitEnds(t) \/ LeavesRun(t) \/ Waits(t)
      PROVE  (TriedUntilEnd /\ ReadNotStuck)'
  BY <1>0, <1>2 DEF WakeSpuriously, WaitEnds, LeavesRun, Waits, queueVars, privateVars
<1>3. ASSUME NEW t \in Thread, RunsTask(t) PROVE (TriedUntilEnd /\ ReadNotStuck)'
  <2>1. Contains(op_queue_, Descriptor) => Contains(op_queue_', Descriptor)
    BY <1>3, TailContains, OpTypes DEF RunsTask, Typed
  <2>2. UNCHANGED <<running, privateVars, socketVars>>
    BY <1>3 DEF RunsTask
  <2> QED
    BY <2>1, <2>2, KnownKeeps DEF Known, privateVars, socketVars
<1>4. ASSUME NEW t \in Thread, RunsOperation(t) PROVE (TriedUntilEnd /\ ReadNotStuck)'
  <2>1. CASE Head(op_queue_) = Descriptor
    <3>1. running'[t] = Descriptor /\ UNCHANGED socketVars
      BY <1>4, <2>1 DEF RunsOperation, Typed
    <3> QED
      BY <3>1, KnownKeeps DEF Known
  <2>2. CASE Head(op_queue_) # Descriptor
    <3>1. Contains(op_queue_, Descriptor) => Contains(op_queue_', Descriptor)
      BY <1>4, <2>2, TailContains DEF RunsOperation, Typed
    <3>2. \A u \in Thread : running[u] = Descriptor => running'[u] = Descriptor
      BY <1>4, <2>2 DEF RunsOperation, AtLoop, RunInHandler, Typed
    <3>3. UNCHANGED <<privateVars, socketVars>>
      BY <1>4 DEF RunsOperation
    <3> QED
      BY <3>1, <3>2, <3>3, KnownKeeps DEF Known, privateVars, socketVars
  <2> QED
    BY <2>1, <2>2
<1>5. ASSUME NEW t \in Thread, EpollReturns(t) PROVE (TriedUntilEnd /\ ReadNotStuck)'
  <2>1. UNCHANGED <<op_queue_, running, data, peer, readOps, try_speculative_>>
    BY <1>5 DEF EpollReturns, queueVars
  <2>2. \A u \in Thread : Contains(private_op_queue[u], Descriptor)
                           => Contains(private_op_queue'[u], Descriptor)
    BY <1>5, AppendContains, OpTypes DEF EpollReturns, Typed
  <2>3. edge => Contains(private_op_queue'[t], Descriptor)
    BY <1>5, AppendContains, OpTypes DEF EpollReturns, Typed
  <2> QED
    BY <2>1, <2>2, <2>3 DEF TriedUntilEnd, ReadNotStuck, Readable
<1>6. ASSUME NEW t \in Thread, TaskCleanup(t) PROVE (TriedUntilEnd /\ ReadNotStuck)'
  <2>1. op_queue_ \o private_op_queue[t] \in Seq(Op) /\ <<Task>> \in Seq(Op)
    BY ConcatContains, OpTypes DEF Typed
  <2>2. Contains(op_queue_, Descriptor) \/ Contains(private_op_queue[t], Descriptor)
          => Contains(op_queue_', Descriptor)
    BY <1>6, <2>1, ConcatContains DEF TaskCleanup, Typed
  <2>3. \A u \in Thread \ {t} : private_op_queue'[u] = private_op_queue[u]
    BY <1>6 DEF TaskCleanup, Typed
  <2>4. UNCHANGED <<running, socketVars>>
    BY <1>6 DEF TaskCleanup
  <2> QED
    BY <2>2, <2>3, <2>4, KnownKeeps DEF Known, socketVars
<1>7. ASSUME NEW t \in Thread, RunsDescriptor(t) PROVE (TriedUntilEnd /\ ReadNotStuck)'
  <2>1. CASE readOps /\ Readable
    <3>1. ~readOps' /\ TriedUntilEnd'
      BY <1>7, <2>1, ReadsTypes DEF RunsDescriptor, TriedUntilEnd, Typed
    <3> QED
      BY <3>1 DEF ReadNotStuck
  <2>2. CASE ~(readOps /\ Readable)
    BY <1>7, <2>2 DEF RunsDescriptor, TriedUntilEnd, ReadNotStuck, Readable
  <2> QED
    BY <2>1, <2>2
<1>8. ASSUME NEW t \in Thread, HandlerPosts(t) PROVE (TriedUntilEnd /\ ReadNotStuck)'
  <2>1. posted' \in Nat
    BY <1>8 DEF HandlerPosts, Typed
  <2>2. Contains(op_queue_, Descriptor) => Contains(op_queue_', Descriptor)
    BY <1>8, <2>1, AppendContains, OpTypes DEF HandlerPosts, Typed
  <2>3. UNCHANGED <<running, privateVars, socketVars>>
    BY <1>8 DEF HandlerPosts
  <2> QED
    BY <2>2, <2>3, KnownKeeps DEF Known, privateVars, socketVars
<1>9. ASSUME NEW t \in Thread, HandlerContinues(t) PROVE (TriedUntilEnd /\ ReadNotStuck)'
  <2>1. posted' \in Nat
    BY <1>9 DEF HandlerContinues, Typed
  <2>2. \A u \in Thread : Contains(private_op_queue[u], Descriptor)
                           => Contains(private_op_queue'[u], Descriptor)
    BY <1>9, <2>1, AppendContains, OpTypes DEF HandlerContinues, Typed
  <2>3. UNCHANGED <<op_queue_, running, socketVars>>
    BY <1>9 DEF HandlerContinues, queueVars
  <2> QED
    BY <2>2, <2>3, KnownKeeps DEF Known, socketVars
<1>10. ASSUME NEW t \in Thread, HandlerStartsRead(t) PROVE (TriedUntilEnd /\ ReadNotStuck)'
  <2>1. CASE try_speculative_ /\ Readable
    <3>1. ~readOps' /\ TriedUntilEnd'
      BY <1>10, <2>1, ReadsTypes DEF HandlerStartsRead, MayRead, TriedUntilEnd, Typed
    <3> QED
      BY <3>1 DEF ReadNotStuck
  <2>2. CASE ~(try_speculative_ /\ Readable)
    <3>1. try_speculative_ /\ ~Readable
      BY <1>10, <2>2 DEF HandlerStartsRead, MayRead, TriedUntilEnd
    <3>2. UNCHANGED <<data, peer, try_speculative_>>
      BY <1>10, <2>2 DEF HandlerStartsRead
    <3> QED
      BY <3>1, <3>2 DEF TriedUntilEnd, ReadNotStuck, Readable
  <2> QED
    BY <2>1, <2>2
<1>11. ASSUME NEW t \in Thread, HandlerEnds(t) PROVE (TriedUntilEnd /\ ReadNotStuck)'
  <2>1. Contains(op_queue_, Descriptor) \/ Contains(private_op_queue[t], Descriptor)
          => Contains(op_queue_', Descriptor)
    BY <1>11, ConcatContains DEF HandlerEnds, Typed
  <2>2. \A u \in Thread \ {t} : private_op_queue'[u] = private_op_queue[u]
    BY <1>11 DEF HandlerEnds, Typed
  <2>3. \A u \in Thread : running[u] = Descriptor => running'[u] = Descriptor
    BY <1>11 DEF HandlerEnds, Typed
  <2>4. UNCHANGED socketVars
    BY <1>11 DEF HandlerEnds
  <2> QED
    BY <2>1, <2>2, <2>3, <2>4, KnownKeeps DEF Known, socketVars
<1>12. ASSUME NEW by, Signal(by) PROVE (TriedUntilEnd /\ ReadNotStuck)'
  BY <1>0, <1>12 DEF Signal, queueVars, privateVars
<1>13. CASE AcceptorCounts
  BY <1>0, <1>13 DEF AcceptorCounts, privateVars
<1>14. CASE AcceptorQueues
  <2>1. Contains(op_queue_, Descriptor) => Contains(op_queue_', Descriptor)
    BY <1>14, AppendContains, OpTypes DEF AcceptorQueues, Typed
  <2>2. UNCHANGED <<running, privateVars, socketVars>>
    BY <1>14 DEF AcceptorQueues
  <2> QED
    BY <2>1, <2>2, KnownKeeps DEF Known, privateVars, socketVars
<1>15. CASE DataArrives \/ PeerEnds
  <2>1. edge' /\ UNCHANGED try_speculative_ /\ (peer = "told" => peer' = "told")
    BY <1>15 DEF DataArrives, PeerEnds
  <2> QED
    BY <2>1 DEF TriedUntilEnd, ReadNotStuck
<1>16. CASE Stop
  BY <1>0, <1>16 DEF Stop, queueVars, privateVars
<1> QED
  BY <1>1, <1>2, <1>3, <1>4, <1>5, <1>6, <1>7, <1>8, <1>9, <1>10, <1>11, <1>12, <1>13, <1>14,
     <1>15, <1>16 DEF Next

\* A read that waits while there is something to read has an event coming, however many
\* threads run the loop and whatever is posted meanwhile.
THEOREM SchedReadNotStuck == Spec => []ReadNotStuck
<1>1. Init => ReadInv
  BY TypesInit, OpTypes DEF Init, ReadInv, RunInHandler, TriedUntilEnd, ReadNotStuck
<1>2. ReadInv /\ [Next]_schedVars => ReadInv'
  BY TypesNext, RunInHandlerNext, ReadNext DEF ReadInv
<1>3. ReadInv => ReadNotStuck
  BY DEF ReadInv
<1> QED
  BY <1>1, <1>2, <1>3, PTL DEF Spec

-----------------------------------------------------------------------------
(* The descriptor is not queued while a thread is in the reactor.          *)

InReactor(t) == pc[t] \in {"poll", "epoll", "cleanup"}

\* Behind every descriptor of a queue comes the reactor, which is there once.
Behind(s) == \A i \in 1..Len(s) : s[i] = Descriptor => \E j \in 1..Len(s) : i < j /\ s[j] = Task
Once(s) == \A i, j \in 1..Len(s) : s[i] = Task /\ s[j] = Task => i = j

OneReactor ==
    /\ Behind(op_queue_) /\ Once(op_queue_)
    /\ \A t, u \in Thread : InReactor(t) /\ InReactor(u) => t = u
    /\ \A t \in Thread : InReactor(t) => ~Contains(op_queue_, Task)

PrivateClean ==
    \A t \in Thread :
        /\ ~Contains(private_op_queue[t], Task)
        /\ Contains(private_op_queue[t], Descriptor) => pc[t] = "cleanup"

QueueInv == Typed /\ OneReactor /\ PrivateClean

\* Anything but a descriptor and the reactor may be appended.
LEMMA AppendShape ==
    ASSUME NEW s \in Seq(Op), NEW op \in Op, op # Task, op # Descriptor, Behind(s), Once(s)
    PROVE  Behind(Append(s, op)) /\ Once(Append(s, op))
<1>1. /\ Len(Append(s, op)) = Len(s) + 1 /\ Append(s, op)[Len(s) + 1] = op
      /\ \A i \in 1..Len(s) : Append(s, op)[i] = s[i]
  OBVIOUS
<1>2. \A i \in 1..(Len(s) + 1) : i \in 1..Len(s) \/ i = Len(s) + 1
  OBVIOUS
<1>3. Once(Append(s, op))
  BY <1>1, <1>2 DEF Once
<1>4. ASSUME NEW i \in 1..(Len(s) + 1), Append(s, op)[i] = Descriptor
      PROVE  \E j \in 1..(Len(s) + 1) : i < j /\ Append(s, op)[j] = Task
  <2>1. i \in 1..Len(s) /\ s[i] = Descriptor
    BY <1>1, <1>2, <1>4
  <2>2. PICK j \in 1..Len(s) : i < j /\ s[j] = Task
    BY <2>1 DEF Behind
  <2> QED
    BY <1>1, <2>2
<1> QED
  BY <1>1, <1>3, <1>4 DEF Behind

\* A queue without the reactor gets it at the end.
LEMMA AppendTask ==
    ASSUME NEW s \in Seq(Op), ~Contains(s, Task)
    PROVE  Behind(Append(s, Task)) /\ Once(Append(s, Task))
<1>1. /\ Len(Append(s, Task)) = Len(s) + 1 /\ Append(s, Task)[Len(s) + 1] = Task
      /\ \A i \in 1..Len(s) : Append(s, Task)[i] # Task
  BY DEF Contains
<1>2. \A i \in 1..(Len(s) + 1) : i \in 1..Len(s) \/ i = Len(s) + 1
  OBVIOUS
<1>3. Once(Append(s, Task))
  BY <1>1, <1>2 DEF Once
<1>4. Behind(Append(s, Task))
  BY <1>1, <1>2, OpTypes DEF Behind
<1> QED
  BY <1>3, <1>4

\* A queue without either is appended whole.
LEMMA ConcatShape ==
    ASSUME NEW s \in Seq(Op), NEW p \in Seq(Op), ~Contains(p, Task), ~Contains(p, Descriptor),
           Behind(s), Once(s)
    PROVE  Behind(s \o p) /\ Once(s \o p)
<1>1. /\ Len(s \o p) = Len(s) + Len(p)
      /\ \A i \in 1..Len(s) : (s \o p)[i] = s[i]
  OBVIOUS
<1>2. ASSUME NEW i \in 1..(Len(s) + Len(p)), (s \o p)[i] \in {Task, Descriptor}
      PROVE  i \in 1..Len(s)
  <2> SUFFICES ASSUME i \notin 1..Len(s) PROVE FALSE
    OBVIOUS
  <2>1. i - Len(s) \in 1..Len(p) /\ p[i - Len(s)] = (s \o p)[i]
    OBVIOUS
  <2> QED
    BY <1>2, <2>1 DEF Contains
<1>3. Once(s \o p)
  BY <1>1, <1>2 DEF Once
<1>4. ASSUME NEW i \in 1..(Len(s) + Len(p)), (s \o p)[i] = Descriptor
      PROVE  \E j \in 1..(Len(s) + Len(p)) : i < j /\ (s \o p)[j] = Task
  <2>1. i \in 1..Len(s) /\ s[i] = Descriptor
    BY <1>1, <1>2, <1>4
  <2>2. PICK j \in 1..Len(s) : i < j /\ s[j] = Task
    BY <2>1 DEF Behind
  <2> QED
    BY <1>1, <2>2
<1> QED
  BY <1>1, <1>3, <1>4 DEF Behind

\* Taking the head keeps the shape, and takes the reactor whole.
LEMMA TailShape ==
    ASSUME NEW s \in Seq(Op), s # <<>>, Behind(s), Once(s)
    PROVE  /\ Behind(Tail(s)) /\ Once(Tail(s))
           /\ Head(s) = Task => ~Contains(Tail(s), Task)
<1>1. /\ Len(s) \in Nat /\ Len(s) >= 1 /\ Head(s) = s[1] /\ Len(Tail(s)) = Len(s) - 1
      /\ \A i \in 1..(Len(s) - 1) : Tail(s)[i] = s[i + 1]
  OBVIOUS
<1>2. Once(Tail(s))
  <2> SUFFICES ASSUME NEW i \in 1..(Len(s) - 1), NEW j \in 1..(Len(s) - 1),
                      Tail(s)[i] = Task, Tail(s)[j] = Task
               PROVE  i = j
    BY <1>1 DEF Once
  <2>1. i + 1 \in 1..Len(s) /\ j + 1 \in 1..Len(s) /\ s[i + 1] = Task /\ s[j + 1] = Task
    BY <1>1
  <2>2. i + 1 = j + 1
    BY <2>1 DEF Once
  <2> QED
    BY <2>2
<1>3. Behind(Tail(s))
  <2> SUFFICES ASSUME NEW i \in 1..(Len(s) - 1), Tail(s)[i] = Descriptor
               PROVE  \E j \in 1..(Len(s) - 1) : i < j /\ Tail(s)[j] = Task
    BY <1>1 DEF Behind
  <2>1. i + 1 \in 1..Len(s) /\ s[i + 1] = Descriptor
    BY <1>1
  <2>2. PICK j \in 1..Len(s) : i + 1 < j /\ s[j] = Task
    BY <2>1 DEF Behind
  <2>3. j - 1 \in 1..(Len(s) - 1) /\ i < j - 1 /\ Tail(s)[j - 1] = Task
    BY <1>1, <2>2
  <2> QED
    BY <2>3
<1>4. ASSUME Head(s) = Task, Contains(Tail(s), Task) PROVE FALSE
  <2>1. PICK k \in 1..(Len(s) - 1) : Tail(s)[k] = Task
    BY <1>1, <1>4 DEF Contains
  <2>2. s[1] = Task /\ s[k + 1] = Task /\ 1 \in 1..Len(s) /\ k + 1 \in 1..Len(s)
    BY <1>1, <1>4, <2>1
  <2>3. k + 1 = 1
    BY <2>2 DEF Once
  <2> QED
    BY <2>3
<1> QED
  BY <1>2, <1>3, <1>4

\* Where the threads that are in the reactor stay, and no other gets there.
SameReactor ==
    \A t \in Thread : /\ pc'[t] \in {"poll", "epoll", "cleanup"} => InReactor(t)
                      /\ pc[t] = "cleanup" => pc'[t] = "cleanup"

\* A step outside the reactor only has to keep the queue in shape.
LEMMA OutsideKeeps ==
    ASSUME QueueInv, SameReactor, UNCHANGED private_op_queue,
           Behind(op_queue_'), Once(op_queue_'),
           Contains(op_queue_', Task) => Contains(op_queue_, Task)
    PROVE  (OneReactor /\ PrivateClean)'
<1>1. OneReactor'
  BY DEF QueueInv, OneReactor, SameReactor, InReactor, Behind, Once, Contains
<1>2. PrivateClean'
  BY DEF QueueInv, PrivateClean, SameReactor, Contains
<1> QED
  BY <1>1, <1>2

\* A step that leaves the queue as it is has nothing else to keep.
LEMMA AsideKeeps ==
    ASSUME QueueInv, SameReactor, UNCHANGED <<op_queue_, private_op_queue>>
    PROVE  (OneReactor /\ PrivateClean)'
<1> QED
  BY OutsideKeeps DEF QueueInv, OneReactor

\* An operation appended is a step outside the reactor.
LEMMA PostKeeps ==
    ASSUME QueueInv, SameReactor, UNCHANGED private_op_queue,
           NEW op \in Op, op # Task, op # Descriptor, op_queue_' = Append(op_queue_, op)
    PROVE  (OneReactor /\ PrivateClean)'
<1>1. op_queue_ \in Seq(Op) /\ Behind(op_queue_) /\ Once(op_queue_)
  BY DEF QueueInv, Typed, OneReactor
<1>2. Behind(op_queue_') /\ Once(op_queue_')
  BY <1>1, AppendShape
<1>3. Contains(op_queue_', Task) => Contains(op_queue_, Task)
  BY <1>1, AppendContains
<1> QED
  BY <1>2, <1>3, OutsideKeeps

\* Every step keeps the reactor one, and behind every descriptor queued.
LEMMA QueueNext == QueueInv /\ [Next]_schedVars => (OneReactor /\ PrivateClean)'
<1> SUFFICES ASSUME QueueInv, [Next]_schedVars PROVE (OneReactor /\ PrivateClean)'
  OBVIOUS
<1>0. /\ op_queue_ \in Seq(Op) /\ Behind(op_queue_) /\ Once(op_queue_)
      /\ private_op_queue \in [Thread -> Seq(Op)] /\ pc \in [Thread -> Place]
      /\ counting \in Nat /\ posted \in Nat
  BY DEF QueueInv, Typed, OneReactor
<1>1. CASE UNCHANGED schedVars
  BY <1>1, AsideKeeps DEF schedVars, queueVars, privateVars, SameReactor, InReactor
<1>2. ASSUME NEW t \in Thread, WakeSpuriously(t) \/ WaitEnds(t) \/ LeavesRun(t) \/ Waits(t)
      PROVE  (OneReactor /\ PrivateClean)'
  <2>1. SameReactor
    BY <1>0, <1>2
       DEF WakeSpuriously, WaitEnds, LeavesRun, Waits, AtLoop, SameReactor, InReactor
  <2>2. UNCHANGED <<op_queue_, private_op_queue>>
    BY <1>2 DEF WakeSpuriously, WaitEnds, LeavesRun, Waits, queueVars, privateVars
  <2> QED
    BY <2>1, <2>2, AsideKeeps
<1>3. ASSUME NEW t \in Thread, RunsTask(t) PROVE (OneReactor /\ PrivateClean)'
  <2>1. op_queue_ # <<>> /\ Head(op_queue_) = Task /\ op_queue_' = Tail(op_queue_)
    BY <1>3 DEF RunsTask
  <2>2. Behind(op_queue_') /\ Once(op_queue_') /\ ~Contains(op_queue_', Task)
    BY <1>0, <2>1, TailShape
  <2>3. \A u \in Thread : ~InReactor(u)
    BY <1>0, <2>1, TailContains DEF QueueInv, OneReactor
  <2>4. \A u \in Thread \ {t} : pc'[u] = pc[u]
    BY <1>0, <1>3 DEF RunsTask
  <2>5. UNCHANGED private_op_queue
    BY <1>3 DEF RunsTask, privateVars
  <2>6. OneReactor'
    BY <2>2, <2>3, <2>4 DEF OneReactor, InReactor, Behind, Once, Contains
  <2>7. PrivateClean'
    BY <2>3, <2>5 DEF QueueInv, PrivateClean, InReactor, Contains
  <2> QED
    BY <2>6, <2>7
<1>4. ASSUME NEW t \in Thread, RunsOperation(t) PROVE (OneReactor /\ PrivateClean)'
  <2>1. op_queue_ # <<>> /\ op_queue_' = Tail(op_queue_) /\ UNCHANGED private_op_queue
    BY <1>4 DEF RunsOperation, privateVars
  <2>2. pc' = [pc EXCEPT ![t] = "handler"] /\ pc[t] = "loop"
    BY <1>4 DEF RunsOperation, Wake, AtLoop
  <2>3. SameReactor
    BY <1>0, <2>2 DEF SameReactor, InReactor
  <2>4. Behind(op_queue_') /\ Once(op_queue_')
    BY <1>0, <2>1, TailShape
  <2>5. Contains(op_queue_', Task) => Contains(op_queue_, Task)
    BY <1>0, <2>1, TailContains
  <2> QED
    BY <2>1, <2>3, <2>4, <2>5, OutsideKeeps
<1>5. ASSUME NEW t \in Thread, EpollReturns(t) PROVE (OneReactor /\ PrivateClean)'
  <2>1. UNCHANGED op_queue_ /\ InReactor(t) /\ pc' = [pc EXCEPT ![t] = "cleanup"]
    BY <1>5 DEF EpollReturns, queueVars, InReactor
  <2>2. OneReactor'
    BY <1>0, <2>1 DEF QueueInv, OneReactor, InReactor, Behind, Once, Contains
  <2>3. ~Contains(private_op_queue'[t], Task)
    BY <1>0, <1>5, AppendContains, OpTypes DEF EpollReturns, QueueInv, PrivateClean
  <2>4. \A u \in Thread \ {t} : private_op_queue'[u] = private_op_queue[u] /\ pc'[u] = pc[u]
    BY <1>0, <1>5 DEF EpollReturns
  <2>5. pc'[t] = "cleanup"
    BY <1>0, <2>1
  <2>6. PrivateClean'
    BY <2>3, <2>4, <2>5 DEF QueueInv, PrivateClean, Contains
  <2> QED
    BY <2>2, <2>6
<1>6. ASSUME NEW t \in Thread, TaskCleanup(t) PROVE (OneReactor /\ PrivateClean)'
  <2> DEFINE q == op_queue_ \o private_op_queue[t]
  <2>1. pc[t] = "cleanup" /\ pc' = [pc EXCEPT ![t] = "loop"] /\ op_queue_' = q \o <<Task>>
    BY <1>6 DEF TaskCleanup
  <2>2. q \in Seq(Op) /\ ~Contains(q, Task)
    BY <1>0, <2>1, ConcatContains DEF QueueInv, OneReactor, InReactor, PrivateClean
  <2>3. q \o <<Task>> = Append(q, Task)
    <3> HIDE DEF q
    <3> QED
      BY <2>2, OpTypes
  <2>4. Behind(op_queue_') /\ Once(op_queue_')
    <3> HIDE DEF q
    <3> QED
      BY <2>1, <2>2, <2>3, AppendTask
  <2>5. \A u \in Thread : pc'[u] \notin {"poll", "epoll", "cleanup"}
    BY <1>0, <2>1 DEF QueueInv, OneReactor, InReactor
  <2>6. OneReactor'
    BY <2>4, <2>5 DEF OneReactor, InReactor, Behind, Once, Contains
  <2>7. private_op_queue'[t] = <<>>
        /\ \A u \in Thread \ {t} : private_op_queue'[u] = private_op_queue[u] /\ pc'[u] = pc[u]
    BY <1>0, <1>6 DEF TaskCleanup
  <2>8. PrivateClean'
    BY <2>7 DEF QueueInv, PrivateClean, Contains
  <2> QED
    BY <2>6, <2>8
<1>7. ASSUME NEW t \in Thread, RunsDescriptor(t) PROVE (OneReactor /\ PrivateClean)'
  <2>1. SameReactor
    BY <1>7 DEF RunsDescriptor, SameReactor, InReactor
  <2> QED
    BY <1>7, <2>1, AsideKeeps DEF RunsDescriptor, queueVars
<1>8. ASSUME NEW t \in Thread, HandlerPosts(t) PROVE (OneReactor /\ PrivateClean)'
  <2>1. SameReactor /\ posted' \in Nat /\ UNCHANGED private_op_queue
    BY <1>0, <1>8 DEF HandlerPosts, Wake, SameReactor, InReactor, privateVars
  <2>2. op_queue_' = Append(op_queue_, Handler(posted'))
    BY <1>8 DEF HandlerPosts
  <2> QED
    BY <2>1, <2>2, PostKeeps, OpTypes
<1>9. ASSUME NEW t \in Thread, HandlerContinues(t) PROVE (OneReactor /\ PrivateClean)'
  <2>1. UNCHANGED <<op_queue_, pc>> /\ posted' \in Nat
    BY <1>0, <1>9 DEF HandlerContinues, queueVars
  <2>2. OneReactor'
    BY <2>1 DEF QueueInv, OneReactor, InReactor, Behind, Once, Contains
  <2>3. \A x \in {Task, Descriptor} :
          Contains(private_op_queue'[t], x) => Contains(private_op_queue[t], x)
    BY <1>0, <1>9, <2>1, AppendContains, OpTypes DEF HandlerContinues
  <2>4. \A u \in Thread \ {t} : private_op_queue'[u] = private_op_queue[u]
    BY <1>0, <1>9 DEF HandlerContinues
  <2>5. PrivateClean'
    BY <2>1, <2>3, <2>4 DEF QueueInv, PrivateClean, Contains
  <2> QED
    BY <2>2, <2>5
<1>10. ASSUME NEW t \in Thread, HandlerStartsRead(t) PROVE (OneReactor /\ PrivateClean)'
  <2>1. SameReactor /\ UNCHANGED private_op_queue
    BY <1>10 DEF HandlerStartsRead, Wake, SameReactor, InReactor, privateVars
  <2>2. UNCHANGED op_queue_ \/ op_queue_' = Append(op_queue_, ReadOp)
    BY <1>10 DEF HandlerStartsRead
  <2> QED
    BY <2>1, <2>2, AsideKeeps, PostKeeps, OpTypes
<1>11. ASSUME NEW t \in Thread, HandlerEnds(t) PROVE (OneReactor /\ PrivateClean)'
  <2> DEFINE pcs == [pc EXCEPT ![t] = "loop"]
  <2>1. pc[t] = "handler" /\ op_queue_' = op_queue_ \o private_op_queue[t]
    BY <1>11 DEF HandlerEnds
  <2>2. ~Contains(private_op_queue[t], Task) /\ ~Contains(private_op_queue[t], Descriptor)
    BY <2>1 DEF QueueInv, PrivateClean
  <2>3. Behind(op_queue_') /\ Once(op_queue_')
    BY <1>0, <2>1, <2>2, ConcatShape
  <2>4. Contains(op_queue_', Task) => Contains(op_queue_, Task)
    BY <1>0, <2>1, <2>2, ConcatContains
  <2>5. StopAll(pcs) \/ pc' = pcs
    BY <1>11 DEF HandlerEnds
  <2>6. SameReactor
    BY <1>0, <2>1, <2>5 DEF StopAll, SameReactor, InReactor
  <2>7. OneReactor'
    BY <2>3, <2>4, <2>6 DEF QueueInv, OneReactor, SameReactor, InReactor, Behind, Once, Contains
  <2>8. private_op_queue'[t] = <<>>
        /\ \A u \in Thread \ {t} : private_op_queue'[u] = private_op_queue[u]
    BY <1>0, <1>11 DEF HandlerEnds
  <2>9. PrivateClean'
    BY <2>6, <2>8 DEF QueueInv, PrivateClean, SameReactor, Contains
  <2> QED
    BY <2>7, <2>9
<1>12. ASSUME NEW by, Signal(by) PROVE (OneReactor /\ PrivateClean)'
  <2>1. SameReactor
    BY <1>0, <1>12 DEF Signal, SameReactor, InReactor
  <2> QED
    BY <1>12, <2>1, AsideKeeps DEF Signal, queueVars, privateVars
<1>13. CASE AcceptorCounts \/ DataArrives \/ PeerEnds
  <2>1. SameReactor /\ UNCHANGED <<op_queue_, private_op_queue>>
    BY <1>13 DEF AcceptorCounts, DataArrives, PeerEnds, SameReactor, InReactor, queueVars,
       privateVars
  <2> QED
    BY <2>1, AsideKeeps
<1>14. CASE AcceptorQueues
  <2>1. SameReactor /\ UNCHANGED private_op_queue
    BY <1>14 DEF AcceptorQueues, Wake, SameReactor, InReactor, privateVars
  <2>2. op_queue_' = Append(op_queue_, Handler(counting))
    BY <1>14 DEF AcceptorQueues
  <2> QED
    BY <1>0, <2>1, <2>2, PostKeeps, OpTypes
<1>15. CASE Stop
  <2>1. SameReactor
    BY <1>0, <1>15 DEF Stop, StopAll, SameReactor, InReactor
  <2> QED
    BY <1>15, <2>1, AsideKeeps DEF Stop, queueVars, privateVars
<1> QED
  BY <1>1, <1>2, <1>3, <1>4, <1>5, <1>6, <1>7, <1>8, <1>9, <1>10, <1>11, <1>12, <1>13, <1>14,
     <1>15 DEF Next

\* The loop starts with the reactor alone in its queue.
LEMMA QueueInit == Init => QueueInv
<1> SUFFICES ASSUME Init PROVE QueueInv
  OBVIOUS
<1>1. Typed
  BY TypesInit
<1>2. op_queue_ = <<Task>> /\ Len(op_queue_) = 1 /\ op_queue_[1] = Task
  BY DEF Init
<1>3. \A t \in Thread : private_op_queue[t] = <<>> /\ pc[t] = "loop"
  BY DEF Init
<1>4. OneReactor
  BY <1>2, <1>3, OpTypes DEF OneReactor, InReactor, Behind, Once
<1>5. PrivateClean
  BY <1>3 DEF PrivateClean, Contains
<1> QED
  BY <1>1, <1>4, <1>5 DEF QueueInv

\* No descriptor waits in the queue while a thread is in the reactor, which it would be
\* behind.
LEMMA NoneBeside ==
    ASSUME QueueInv, NEW t \in Thread, InReactor(t)
    PROVE  ~Linked(op_queue_)
<1> SUFFICES ASSUME Contains(op_queue_, Descriptor) PROVE FALSE
  BY DEF Linked
<1>1. PICK i \in 1..Len(op_queue_) : op_queue_[i] = Descriptor
  BY DEF Contains
<1>2. PICK j \in 1..Len(op_queue_) : op_queue_[j] = Task
  BY <1>1 DEF QueueInv, OneReactor, Behind
<1>3. Contains(op_queue_, Task)
  BY <1>2 DEF Contains
<1> QED
  BY <1>3 DEF QueueInv, OneReactor

\* One operation appended keeps a queue with one link: another operation, or the first
\* link.
LEMMA AppendLinked ==
    ASSUME NEW s \in Seq(Op), NEW op \in Op, LinkedOnce(s), op = Descriptor => ~Linked(s)
    PROVE  LinkedOnce(Append(s, op))
<1>1. /\ Len(Append(s, op)) = Len(s) + 1 /\ Append(s, op)[Len(s) + 1] = op
      /\ \A i \in 1..Len(s) : Append(s, op)[i] = s[i]
  OBVIOUS
<1>2. \A i \in 1..(Len(s) + 1) : i \in 1..Len(s) \/ i = Len(s) + 1
  OBVIOUS
<1>3. op = Descriptor => \A i \in 1..Len(s) : s[i] # Descriptor
  BY DEF Linked, Contains
<1> QED
  BY <1>1, <1>2, <1>3 DEF LinkedOnce

\* Two queues, one of them without a link, make one.
LEMMA ConcatLinked ==
    ASSUME NEW s \in Seq(Op), NEW p \in Seq(Op), LinkedOnce(s), LinkedOnce(p),
           ~Linked(s) \/ ~Linked(p)
    PROVE  LinkedOnce(s \o p)
<1>1. /\ Len(s) \in Nat /\ Len(p) \in Nat /\ Len(s \o p) = Len(s) + Len(p)
      /\ \A i \in 1..Len(s) : (s \o p)[i] = s[i]
      /\ \A i \in 1..(Len(s) + Len(p)) :
           i \notin 1..Len(s) => i - Len(s) \in 1..Len(p) /\ (s \o p)[i] = p[i - Len(s)]
  OBVIOUS
<1>2. CASE ~Linked(s)
  <2>1. \A i \in 1..(Len(s) + Len(p)) :
          (s \o p)[i] = Descriptor => i - Len(s) \in 1..Len(p) /\ p[i - Len(s)] = Descriptor
    BY <1>1, <1>2 DEF Linked, Contains
  <2>2. \A i, j \in 1..(Len(s) + Len(p)) :
          (s \o p)[i] = Descriptor /\ (s \o p)[j] = Descriptor => i - Len(s) = j - Len(s)
    BY <2>1 DEF LinkedOnce
  <2> QED
    BY <1>1, <2>2 DEF LinkedOnce
<1>3. CASE ~Linked(p)
  <2>1. \A i \in 1..(Len(s) + Len(p)) :
          (s \o p)[i] = Descriptor => i \in 1..Len(s) /\ s[i] = Descriptor
    BY <1>1, <1>3 DEF Linked, Contains
  <2> QED
    BY <1>1, <2>1 DEF LinkedOnce
<1> QED
  BY <1>2, <1>3

\* Taking the head adds no link.
LEMMA TailLinked ==
    ASSUME NEW s \in Seq(Op), s # <<>>, LinkedOnce(s)
    PROVE  LinkedOnce(Tail(s))
<1>1. /\ Len(s) \in Nat /\ Len(s) >= 1 /\ Len(Tail(s)) = Len(s) - 1
      /\ \A i \in 1..(Len(s) - 1) : Tail(s)[i] = s[i + 1]
  OBVIOUS
<1> SUFFICES ASSUME NEW i \in 1..(Len(s) - 1), NEW j \in 1..(Len(s) - 1),
                    Tail(s)[i] = Descriptor, Tail(s)[j] = Descriptor
             PROVE  i = j
  BY <1>1 DEF LinkedOnce
<1>2. /\ i + 1 \in 1..Len(s) /\ j + 1 \in 1..Len(s)
      /\ s[i + 1] = Descriptor /\ s[j + 1] = Descriptor
  BY <1>1
<1>3. i + 1 = j + 1
  BY <1>2 DEF LinkedOnce
<1> QED
  BY <1>3

LinkInv ==
    LinkedOnce(op_queue_) /\ \A t \in Thread : LinkedOnce(private_op_queue[t])

\* Every step keeps the descriptor's one place in each queue.
LEMMA LinkNext == QueueInv /\ LinkInv /\ [Next]_schedVars => LinkInv'
<1> SUFFICES ASSUME QueueInv, LinkInv, [Next]_schedVars PROVE LinkInv'
  OBVIOUS
<1>0. /\ op_queue_ \in Seq(Op) /\ private_op_queue \in [Thread -> Seq(Op)]
      /\ LinkedOnce(op_queue_) /\ \A t \in Thread : LinkedOnce(private_op_queue[t])
      /\ counting \in Nat /\ posted \in Nat
  BY DEF QueueInv, Typed, LinkInv
<1>1. ASSUME UNCHANGED <<op_queue_, private_op_queue>> PROVE LinkInv'
  BY <1>1 DEF LinkInv, LinkedOnce
<1>2. ASSUME NEW op \in Op, op # Descriptor, op_queue_' = Append(op_queue_, op),
             UNCHANGED private_op_queue
      PROVE  LinkInv'
  <2>1. LinkedOnce(op_queue_')
    BY <1>0, <1>2, AppendLinked
  <2> QED
    BY <1>2, <2>1 DEF LinkInv, LinkedOnce
<1>3. CASE UNCHANGED schedVars
  BY <1>1, <1>3 DEF schedVars, queueVars, privateVars
<1>4. ASSUME NEW t \in Thread,
             \/ WakeSpuriously(t) \/ WaitEnds(t) \/ LeavesRun(t) \/ Waits(t)
             \/ RunsDescriptor(t)
      PROVE  LinkInv'
  BY <1>1, <1>4
     DEF WakeSpuriously, WaitEnds, LeavesRun, Waits, RunsDescriptor, queueVars, privateVars
<1>5. ASSUME NEW t \in Thread, RunsTask(t) \/ RunsOperation(t) PROVE LinkInv'
  <2>1. op_queue_ # <<>> /\ op_queue_' = Tail(op_queue_) /\ UNCHANGED private_op_queue
    BY <1>5 DEF RunsTask, RunsOperation, privateVars
  <2>2. LinkedOnce(op_queue_')
    BY <1>0, <2>1, TailLinked
  <2> QED
    BY <2>1, <2>2 DEF LinkInv, LinkedOnce
<1>6. ASSUME NEW t \in Thread, EpollReturns(t) PROVE LinkInv'
  <2>1. UNCHANGED op_queue_ /\ pc[t] # "cleanup"
    BY <1>6 DEF EpollReturns, queueVars
  <2>2. private_op_queue' = [private_op_queue EXCEPT
          ![t] = IF edge THEN Append(@, Descriptor) ELSE @]
    BY <1>6 DEF EpollReturns
  <2>3. ~Linked(private_op_queue[t])
    BY <2>1 DEF QueueInv, PrivateClean, Linked
  <2>4. LinkedOnce(private_op_queue'[t])
    BY <1>0, <2>2, <2>3, AppendLinked, OpTypes
  <2>5. \A u \in Thread \ {t} : private_op_queue'[u] = private_op_queue[u]
    BY <1>0, <2>2
  <2> QED
    BY <1>0, <2>1, <2>4, <2>5 DEF LinkInv, LinkedOnce
<1>7. ASSUME NEW t \in Thread, TaskCleanup(t) PROVE LinkInv'
  <2> DEFINE q == op_queue_ \o private_op_queue[t]
  <2>1. InReactor(t) /\ op_queue_' = q \o <<Task>>
    BY <1>7 DEF TaskCleanup, InReactor
  <2>2. q \in Seq(Op) /\ LinkedOnce(q)
    BY <1>0, <2>1, NoneBeside, ConcatLinked
  <2>3. LinkedOnce(op_queue_')
    <3> HIDE DEF q
    <3>1. q \o <<Task>> = Append(q, Task)
      BY <2>2, OpTypes
    <3> QED
      BY <2>1, <2>2, <3>1, AppendLinked, OpTypes
  <2>4. private_op_queue'[t] = <<>>
        /\ \A u \in Thread \ {t} : private_op_queue'[u] = private_op_queue[u]
    BY <1>0, <1>7 DEF TaskCleanup
  <2> QED
    BY <1>0, <2>3, <2>4 DEF LinkInv, LinkedOnce
<1>8. ASSUME NEW t \in Thread, HandlerPosts(t) PROVE LinkInv'
  <2>1. /\ posted' \in Nat /\ UNCHANGED private_op_queue
        /\ op_queue_' = Append(op_queue_, Handler(posted'))
    BY <1>0, <1>8 DEF HandlerPosts, privateVars
  <2> QED
    BY <1>2, <2>1, OpTypes
<1>9. ASSUME NEW t \in Thread, HandlerContinues(t) PROVE LinkInv'
  <2>1. UNCHANGED op_queue_ /\ posted' \in Nat
    BY <1>0, <1>9 DEF HandlerContinues, queueVars
  <2>2. private_op_queue' = [private_op_queue EXCEPT ![t] = Append(@, Handler(posted'))]
    BY <1>9 DEF HandlerContinues
  <2>3. LinkedOnce(private_op_queue'[t])
    BY <1>0, <2>1, <2>2, AppendLinked, OpTypes
  <2>4. \A u \in Thread \ {t} : private_op_queue'[u] = private_op_queue[u]
    BY <1>0, <2>2
  <2> QED
    BY <1>0, <2>1, <2>3, <2>4 DEF LinkInv, LinkedOnce
<1>10. ASSUME NEW t \in Thread, HandlerStartsRead(t) PROVE LinkInv'
  <2>1. UNCHANGED private_op_queue
    BY <1>10 DEF HandlerStartsRead, privateVars
  <2>2. UNCHANGED op_queue_ \/ op_queue_' = Append(op_queue_, ReadOp)
    BY <1>10 DEF HandlerStartsRead
  <2> QED
    BY <1>1, <1>2, <2>1, <2>2, OpTypes
<1>11. ASSUME NEW t \in Thread, HandlerEnds(t) PROVE LinkInv'
  <2>1. pc[t] = "handler" /\ op_queue_' = op_queue_ \o private_op_queue[t]
    BY <1>11 DEF HandlerEnds
  <2>2. ~Linked(private_op_queue[t])
    BY <2>1 DEF QueueInv, PrivateClean, Linked
  <2>3. LinkedOnce(op_queue_')
    BY <1>0, <2>1, <2>2, ConcatLinked
  <2>4. private_op_queue'[t] = <<>>
        /\ \A u \in Thread \ {t} : private_op_queue'[u] = private_op_queue[u]
    BY <1>0, <1>11 DEF HandlerEnds
  <2> QED
    BY <1>0, <2>3, <2>4 DEF LinkInv, LinkedOnce
<1>12. ASSUME NEW by, Signal(by) PROVE LinkInv'
  BY <1>1, <1>12 DEF Signal, queueVars, privateVars
<1>13. CASE AcceptorCounts \/ DataArrives \/ PeerEnds \/ Stop
  BY <1>1, <1>13
     DEF AcceptorCounts, DataArrives, PeerEnds, Stop, queueVars, privateVars
<1>14. CASE AcceptorQueues
  BY <1>0, <1>2, <1>14, OpTypes DEF AcceptorQueues, privateVars
<1> QED
  BY <1>3, <1>4, <1>5, <1>6, <1>7, <1>8, <1>9, <1>10, <1>11, <1>12, <1>13, <1>14 DEF Next

\* The descriptor is in one place of one queue at most, and in none while a thread takes
\* its events from epoll, so that the reactor may link it again: what the comment in
\* epoll_reactor::run relies on.
THEOREM SchedDescriptorOnce == Spec => []DescriptorOnce
<1>1. Init => QueueInv /\ LinkInv
  BY QueueInit DEF Init, LinkInv, LinkedOnce, Task, Descriptor
<1>2. QueueInv /\ LinkInv /\ [Next]_schedVars => (QueueInv /\ LinkInv)'
  BY TypesNext, QueueNext, LinkNext DEF QueueInv
<1>3. QueueInv /\ LinkInv => DescriptorOnce
  <2> SUFFICES ASSUME QueueInv, LinkInv PROVE DescriptorOnce
    OBVIOUS
  <2>1. \A u \in Thread : Linked(private_op_queue[u]) => pc[u] = "cleanup"
    BY DEF QueueInv, PrivateClean, Linked
  <2>2. \A t, u \in Thread : InReactor(t) /\ InReactor(u) => t = u
    BY DEF QueueInv, OneReactor
  <2>3. \A t \in Thread : InReactor(t) => ~Linked(op_queue_)
    BY NoneBeside
  <2> QED
    BY <2>1, <2>2, <2>3 DEF DescriptorOnce, LinkInv, InReactor
<1> QED
  BY <1>1, <1>2, <1>3, PTL DEF Spec

-----------------------------------------------------------------------------
(* No wake-up is lost.                                                     *)

\* A thread blocked in epoll that counts as interrupted has been.
InterruptSeen == \A t \in Thread : pc[t] = "epoll" /\ task_interrupted_ => interrupter

Awake(t) ==
    \/ pc[t] \in {"loop", "poll", "cleanup"}
    \/ pc[t] = "woken" /\ signalled
    \/ pc[t] = "epoll" /\ (interrupter \/ edge)

\* Besides the threads that are awake, a signal still to be given counts, if somebody
\* waits for it and the event stays set.
SomeoneComes ==
    \/ op_queue_ = <<>> \/ stopped_
    \/ \E t \in Thread : Awake(t)
    \/ signalled /\ signalling # {} /\ \E t \in Thread : pc[t] \in {"waiting", "woken"}
    \/ \A t \in Thread : pc[t] \in {"handler", "done"}

AwakeInv == QueueInv /\ InterruptSeen /\ SomeoneComes

\* A wake-up reaches somebody, when there is anybody who is not busy.
LEMMA WakeReaches ==
    ASSUME InterruptSeen, pc \in [Thread -> Place], NEW by,
           NEW pcs \in [Thread -> Place], Wake(by, pcs),
           \A t \in Thread : pcs[t] = "epoll" => pc[t] = "epoll"
    PROVE  (InterruptSeen /\ SomeoneComes)'
<1>1. pc' = pcs /\ signalled'
  BY DEF Wake
<1>2. CASE Waiters(pcs) # {}
  <2>1. signalling' # {} /\ UNCHANGED <<task_interrupted_, interrupter>>
    BY <1>2 DEF Wake
  <2>2. \E t \in Thread : pc'[t] \in {"waiting", "woken"}
    BY <1>1, <1>2 DEF Waiters
  <2> QED
    BY <1>1, <2>1, <2>2 DEF InterruptSeen, SomeoneComes
<1>3. CASE Waiters(pcs) = {}
  <2>1. interrupter' = (interrupter \/ ~task_interrupted_)
    BY <1>3 DEF Wake
  <2>2. \A t \in Thread : pc'[t] = "epoll" => interrupter'
    BY <1>1, <2>1 DEF InterruptSeen
  <2>3. \A t \in Thread : pc'[t] \notin {"waiting", "woken"}
    BY <1>1, <1>3 DEF Waiters
  <2>4. \A t \in Thread : pc'[t] \in {"handler", "done"} \/ Awake(t)'
    BY <1>1, <2>2, <2>3 DEF Awake, Place
  <2> QED
    BY <2>2, <2>4 DEF InterruptSeen, SomeoneComes
<1> QED
  BY <1>2, <1>3

\* Every step leaves somebody on the way to what is queued.
LEMMA AwakeNext == AwakeInv /\ [Next]_schedVars => (InterruptSeen /\ SomeoneComes)'
<1> SUFFICES ASSUME AwakeInv, [Next]_schedVars PROVE (InterruptSeen /\ SomeoneComes)'
  OBVIOUS
<1>0. pc \in [Thread -> Place] /\ InterruptSeen /\ SomeoneComes /\ OneReactor
      /\ op_queue_ \in Seq(Op)
  BY DEF AwakeInv, QueueInv, Typed
<1>1. ASSUME UNCHANGED <<op_queue_, stopped_, pc, signalled, signalling, interrupter,
                         task_interrupted_>>, edge => edge'
      PROVE  (InterruptSeen /\ SomeoneComes)'
  BY <1>0, <1>1 DEF InterruptSeen, SomeoneComes, Awake
<1>2. CASE UNCHANGED schedVars
  BY <1>1, <1>2 DEF schedVars, queueVars, eventVars, socketVars
<1>3. ASSUME NEW t \in Thread, WakeSpuriously(t) \/ WaitEnds(t)
      PROVE  (InterruptSeen /\ SomeoneComes)'
  <2>1. /\ pc' = [pc EXCEPT ![t] = pc'[t]]
        /\ pc[t] \in {"waiting", "woken"}
        /\ pc'[t] \in {"waiting", "woken"} \/ pc'[t] = "loop"
        /\ pc[t] = "woken" /\ signalled => pc'[t] = "loop"
    BY <1>0, <1>3 DEF WakeSpuriously, WaitEnds
  <2>2. UNCHANGED <<op_queue_, stopped_, signalled, signalling, interrupter,
                    task_interrupted_, edge>>
    BY <1>3 DEF WakeSpuriously, WaitEnds, queueVars, eventVars, socketVars
  <2>3. \A u \in Thread \ {t} : pc'[u] = pc[u]
    BY <1>0, <2>1
  <2>4. InterruptSeen'
    BY <1>0, <2>1, <2>2, <2>3 DEF InterruptSeen
  <2>5. \A u \in Thread : Awake(u) => Awake(u)'
    BY <2>1, <2>2, <2>3 DEF Awake
  <2>6. SomeoneComes'
    <3>1. CASE pc'[t] = "loop"
      BY <3>1 DEF SomeoneComes, Awake
    <3>2. CASE pc'[t] \in {"waiting", "woken"}
      BY <1>0, <2>1, <2>2, <2>5, <3>2 DEF SomeoneComes
    <3> QED
      BY <2>1, <3>1, <3>2
  <2> QED
    BY <2>4, <2>6
<1>4. ASSUME NEW t \in Thread, LeavesRun(t) \/ Waits(t) PROVE (InterruptSeen /\ SomeoneComes)'
  <2>1. (stopped_ \/ op_queue_ = <<>>) /\ UNCHANGED <<stopped_, op_queue_>>
    BY <1>4 DEF LeavesRun, Waits, queueVars
  <2>2. UNCHANGED <<interrupter, task_interrupted_>>
        /\ \A u \in Thread : pc'[u] = "epoll" => pc[u] = "epoll"
    BY <1>0, <1>4 DEF LeavesRun, Waits, eventVars
  <2> QED
    BY <1>0, <2>1, <2>2 DEF InterruptSeen, SomeoneComes
<1>5. ASSUME NEW t \in Thread, RunsTask(t) PROVE (InterruptSeen /\ SomeoneComes)'
  <2>1. op_queue_ # <<>> /\ Head(op_queue_) = Task /\ op_queue_' = Tail(op_queue_)
    BY <1>5 DEF RunsTask
  <2>2. \A u \in Thread : ~InReactor(u)
    BY <1>0, <2>1, TailContains DEF OneReactor
  <2>3. CASE Len(op_queue_) > 1
    <3>1. pc' = [pc EXCEPT ![t] = "poll"]
      BY <1>5, <2>3 DEF RunsTask
    <3> QED
      BY <1>0, <2>2, <3>1 DEF InterruptSeen, SomeoneComes, Awake, InReactor
  <2>4. CASE ~(Len(op_queue_) > 1)
    <3>1. ~task_interrupted_'
      BY <1>5, <2>4 DEF RunsTask
    <3>2. op_queue_' = <<>>
      BY <1>0, <2>1, <2>4
    <3> QED
      BY <3>1, <3>2 DEF InterruptSeen, SomeoneComes
  <2> QED
    BY <2>3, <2>4
<1>6. ASSUME NEW t \in Thread, RunsOperation(t) PROVE (InterruptSeen /\ SomeoneComes)'
  <2> DEFINE pcs == [pc EXCEPT ![t] = "handler"]
  <2>1. pcs \in [Thread -> Place] /\ \A u \in Thread : pcs[u] = "epoll" => pc[u] = "epoll"
    BY <1>0 DEF Place
  <2>2. CASE Len(op_queue_) > 1
    <3>1. Wake(t, pcs)
      BY <1>6, <2>2 DEF RunsOperation
    <3> HIDE DEF pcs
    <3> QED
      BY <1>0, <2>1, <3>1, WakeReaches
  <2>3. CASE ~(Len(op_queue_) > 1)
    <3>1. op_queue_' = <<>> /\ pc' = pcs /\ UNCHANGED <<interrupter, task_interrupted_>>
      BY <1>0, <1>6, <2>3 DEF RunsOperation, eventVars
    <3> QED
      BY <1>0, <2>1, <3>1 DEF InterruptSeen, SomeoneComes
  <2> QED
    BY <2>2, <2>3
<1>7. ASSUME NEW t \in Thread, EpollReturns(t) \/ TaskCleanup(t)
      PROVE  (InterruptSeen /\ SomeoneComes)'
  <2>1. InReactor(t) /\ pc'[t] \in {"cleanup", "loop"}
        /\ \A u \in Thread \ {t} : pc'[u] = pc[u]
    BY <1>0, <1>7 DEF EpollReturns, TaskCleanup, InReactor
  <2>2. \A u \in Thread : pc'[u] # "epoll"
    BY <1>0, <2>1 DEF OneReactor, InReactor
  <2> QED
    BY <2>1, <2>2 DEF InterruptSeen, SomeoneComes, Awake
<1>8. ASSUME NEW t \in Thread, RunsDescriptor(t) \/ HandlerContinues(t)
      PROVE  (InterruptSeen /\ SomeoneComes)'
  BY <1>1, <1>8 DEF RunsDescriptor, HandlerContinues, queueVars, eventVars, socketVars
<1>9. ASSUME NEW t \in Thread, HandlerPosts(t) PROVE (InterruptSeen /\ SomeoneComes)'
  BY <1>0, <1>9, WakeReaches DEF HandlerPosts
<1>10. ASSUME NEW t \in Thread, HandlerStartsRead(t) PROVE (InterruptSeen /\ SomeoneComes)'
  <2>1. CASE try_speculative_ /\ Readable
    BY <1>0, <1>10, <2>1, WakeReaches DEF HandlerStartsRead
  <2>2. CASE ~(try_speculative_ /\ Readable)
    BY <1>1, <1>10, <2>2 DEF HandlerStartsRead, eventVars
  <2> QED
    BY <2>1, <2>2
<1>11. ASSUME NEW t \in Thread, HandlerEnds(t) PROVE (InterruptSeen /\ SomeoneComes)'
  <2> DEFINE pcs == [pc EXCEPT ![t] = "loop"]
  <2>1. pcs \in [Thread -> Place] /\ pcs[t] = "loop"
        /\ \A u \in Thread : pcs[u] = "epoll" => pc[u] = "epoll"
    BY <1>0 DEF Place
  <2>2. CASE outstanding_work_' = 0
    <3>1. StopAll(pcs)
      BY <1>11, <2>2 DEF HandlerEnds
    <3> HIDE DEF pcs
    <3>2. stopped_' /\ interrupter' = (interrupter \/ ~task_interrupted_)
          /\ \A u \in Thread : pc'[u] = "epoll" => pc[u] = "epoll"
      BY <2>1, <3>1 DEF StopAll
    <3> QED
      BY <1>0, <3>2 DEF InterruptSeen, SomeoneComes
  <2>3. CASE outstanding_work_' # 0
    <3>1. pc' = pcs /\ UNCHANGED <<interrupter, task_interrupted_>>
      BY <1>11, <2>3 DEF HandlerEnds, eventVars
    <3> QED
      BY <1>0, <2>1, <3>1 DEF InterruptSeen, SomeoneComes, Awake
  <2> QED
    BY <2>2, <2>3
<1>12. ASSUME NEW by, Signal(by) PROVE (InterruptSeen /\ SomeoneComes)'
  <2>1. UNCHANGED <<op_queue_, stopped_, signalled, interrupter, task_interrupted_, edge>>
    BY <1>12 DEF Signal, queueVars, socketVars
  <2>2. CASE \E t \in Thread : pc[t] = "waiting"
    <3>1. PICK t \in Thread : pc[t] = "waiting" /\ pc' = [pc EXCEPT ![t] = "woken"]
      BY <1>12, <2>2 DEF Signal
    <3>2. pc'[t] = "woken" /\ \A u \in Thread \ {t} : pc'[u] = pc[u]
      BY <1>0, <3>1
    <3>3. \A u \in Thread : Awake(u) => Awake(u)'
      BY <2>1, <3>1, <3>2 DEF Awake
    <3>4. signalled => Awake(t)'
      BY <2>1, <3>2 DEF Awake
    <3> QED
      BY <1>0, <2>1, <3>1, <3>2, <3>3, <3>4 DEF InterruptSeen, SomeoneComes
  <2>3. CASE ~\E t \in Thread : pc[t] = "waiting"
    <3>1. UNCHANGED pc
      BY <1>12, <2>3 DEF Signal
    <3> QED
      BY <1>0, <2>1, <2>3, <3>1 DEF InterruptSeen, SomeoneComes, Awake
  <2> QED
    BY <2>2, <2>3
<1>13. CASE AcceptorCounts \/ DataArrives \/ PeerEnds
  BY <1>1, <1>13 DEF AcceptorCounts, DataArrives, PeerEnds, queueVars, eventVars, socketVars
<1>14. CASE AcceptorQueues
  BY <1>0, <1>14, WakeReaches DEF AcceptorQueues
<1>15. CASE Stop
  <2>1. stopped_' /\ interrupter' = (interrupter \/ ~task_interrupted_)
        /\ \A u \in Thread : pc'[u] = "epoll" => pc[u] = "epoll"
    BY <1>0, <1>15 DEF Stop, StopAll
  <2> QED
    BY <1>0, <2>1 DEF InterruptSeen, SomeoneComes
<1> QED
  BY <1>2, <1>3, <1>4, <1>5, <1>6, <1>7, <1>8, <1>9, <1>10, <1>11, <1>12, <1>13, <1>14, <1>15
     DEF Next

\* With an operation queued, some thread that is not busy is awake, however posts, stops,
\* signals and spurious wake-ups fall: the event and the reactor together lose none.
THEOREM SchedNobodySleepsOnWork == Spec => []NobodySleepsOnWork
<1>1. Init => AwakeInv
  BY QueueInit DEF Init, AwakeInv, InterruptSeen, SomeoneComes, Awake, QueueInv
<1>2. AwakeInv /\ [Next]_schedVars => AwakeInv'
  BY TypesNext, QueueNext, AwakeNext DEF AwakeInv, QueueInv
<1>3. AwakeInv => NobodySleepsOnWork
  BY DEF AwakeInv, SomeoneComes, Awake, NobodySleepsOnWork
<1> QED
  BY <1>1, <1>2, <1>3, PTL DEF Spec
=============================================================================
