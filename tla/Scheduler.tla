------------------------------ MODULE Scheduler ------------------------------
(***************************************************************************)
(* The loop of an Asio io_context (scheduler, posix_event, epoll_reactor), *)
(* which runs the handlers of a Crow worker: threads in run() take         *)
(* operations from one queue; the reactor is itself an operation of the    *)
(* queue, and whoever takes it waits in epoll for all.  The acceptor posts *)
(* from a thread of its own.  One socket stands for them all; its events   *)
(* are edge-triggered, and a new read is tried at once unless the last one *)
(* found the end of the stream, after which Crow reads no more.            *)
(*                                                                         *)
(* What a thread does while it holds the mutex is one step.  The worker's  *)
(* task_timer always waits, so the count of work has one unit more than    *)
(* the operations here.                                                    *)
(***************************************************************************)
EXTENDS Naturals, Integers, Sequences, FiniteSets, SequencesExt, FiniteSetsExt

CONSTANTS Thread,    \* threads in run(); Crow has one for each io_context
          Acceptor,  \* the thread that posts from outside
          MaxPosts,  \* bound: handlers that are posted
          MaxData    \* bound: pieces of data that arrive

ASSUME SchedulerAssumption ==
    /\ Thread # {} /\ IsFiniteSet(Thread) /\ Acceptor \notin Thread
    /\ MaxPosts \in Nat /\ MaxData \in Nat

VARIABLES
    op_queue_, task_interrupted_, stopped_, outstanding_work_,
    signalled,   \* posix_event's lowest bit; the rest counts the waiters
    signalling,  \* threads that have unlocked and are about to signal the condition
    pc,          \* where a thread is in do_run_one
    running,     \* the operation a thread runs
    private_op_queue, private_outstanding_work,
    interrupter, \* the reactor has been interrupted and epoll has not told
    edge,        \* the socket became readable and epoll has not told
    data,        \* pieces of data in the socket
    peer,        \* "open", "ended", or "told" when a read has returned the end
    readOps,     \* a read waits in the descriptor's op_queue_
    try_speculative_,
    counting,    \* the post whose work the acceptor has counted, not yet queued; or 0
    \* auxiliary
    posted, ran, \* handlers posted, and the numbers of those that were run
    arrived      \* pieces of data that have arrived

queueVars == <<op_queue_, outstanding_work_>>
eventVars == <<signalled, signalling, task_interrupted_, interrupter>>
privateVars == <<private_op_queue, private_outstanding_work>>
socketVars == <<edge, data, peer, readOps, try_speculative_, arrived>>
postVars == <<counting, posted, ran>>
schedVars == <<queueVars, eventVars, stopped_, pc, running, privateVars, socketVars, postVars>>

Task == [kind |-> "task", id |-> 0]
Descriptor == [kind |-> "descriptor", id |-> 0]
ReadOp == [kind |-> "read", id |-> 0]
Handler(n) == [kind |-> "handler", id |-> n]
\* A descriptor's run that completed no read.
Compensated == [kind |-> "compensated", id |-> 0]
Nothing == [kind |-> "nothing", id |-> 0]

-----------------------------------------------------------------------------
(* Waking.                                                                 *)

Waiters(pcs) == {t \in Thread : pcs[t] \in {"waiting", "woken"}}

\* Slip: a task that is to poll only is taken for one that was interrupted already.
WakeNever(by, pcs) ==
    /\ pc' = pcs
    /\ signalled' = TRUE
    /\ signalling' = IF Waiters(pcs) # {} THEN signalling \cup {by} ELSE signalling
    /\ UNCHANGED <<task_interrupted_, interrupter>>

\* wake_one_thread_and_unlock: signal a thread that waits for the event, or else
\* interrupt the one in epoll, once.
Wake(by, pcs) ==
    /\ pc' = pcs
    /\ signalled' = TRUE
    /\ IF Waiters(pcs) # {}
       THEN signalling' = signalling \cup {by} /\ UNCHANGED <<task_interrupted_, interrupter>>
       ELSE /\ task_interrupted_' = TRUE
            /\ interrupter' = (interrupter \/ ~task_interrupted_)
            /\ UNCHANGED signalling

\* stop_all_threads: everyone who waits is woken, and the reactor is interrupted.
StopAll(pcs) ==
    /\ stopped_' = TRUE
    /\ signalled' = TRUE
    /\ pc' = [t \in Thread |-> IF pcs[t] = "waiting" THEN "woken" ELSE pcs[t]]
    /\ task_interrupted_' = TRUE
    /\ interrupter' = (interrupter \/ ~task_interrupted_)
    /\ UNCHANGED signalling

\* pthread_cond_signal, after the unlock: it wakes one thread, if one still waits.
Signal(by) ==
    /\ by \in signalling
    /\ signalling' = signalling \ {by}
    /\ IF \E t \in Thread : pc[t] = "waiting"
       THEN \E t \in Thread : pc[t] = "waiting" /\ pc' = [pc EXCEPT ![t] = "woken"]
       ELSE UNCHANGED pc
    /\ UNCHANGED <<queueVars, signalled, task_interrupted_, interrupter, stopped_, running,
                   privateVars, socketVars, postVars>>

\* A condition may wake with nobody having signalled it.
WakeSpuriously(t) ==
    /\ pc[t] = "waiting"
    /\ pc' = [pc EXCEPT ![t] = "woken"]
    /\ UNCHANGED <<queueVars, eventVars, stopped_, running, privateVars, socketVars, postVars>>

\* posix_event::wait once the mutex is had again.
WaitEnds(t) ==
    /\ pc[t] = "woken"
    /\ pc' = [pc EXCEPT ![t] = IF signalled THEN "loop" ELSE "waiting"]
    /\ UNCHANGED <<queueVars, eventVars, stopped_, running, privateVars, socketVars, postVars>>

-----------------------------------------------------------------------------
(* do_run_one.                                                             *)

AtLoop(t) == pc[t] = "loop" /\ t \notin signalling

LeavesRun(t) ==
    /\ AtLoop(t) /\ stopped_
    /\ pc' = [pc EXCEPT ![t] = "done"]
    /\ UNCHANGED <<queueVars, eventVars, stopped_, running, privateVars, socketVars, postVars>>

Waits(t) ==
    /\ AtLoop(t) /\ ~stopped_ /\ op_queue_ = <<>>
    /\ signalled' = FALSE
    /\ pc' = [pc EXCEPT ![t] = "waiting"]
    /\ UNCHANGED <<queueVars, signalling, task_interrupted_, interrupter, stopped_, running,
                   privateVars, socketVars, postVars>>

\* The reactor: with more to do it only polls, which task_interrupted_ says as well.
RunsTask(t) ==
    /\ AtLoop(t) /\ ~stopped_ /\ op_queue_ # <<>> /\ Head(op_queue_) = Task
    /\ op_queue_' = Tail(op_queue_)
    /\ LET more_handlers == Len(op_queue_) > 1
           pcs == [pc EXCEPT ![t] = IF more_handlers THEN "poll" ELSE "epoll"]
       IN /\ task_interrupted_' = more_handlers
          /\ pc' = pcs
          /\ signalled' = (signalled \/ more_handlers)
          /\ signalling' = IF more_handlers /\ Waiters(pcs) # {}
                           THEN signalling \cup {t} ELSE signalling
    /\ UNCHANGED <<outstanding_work_, interrupter, stopped_, running, privateVars, socketVars,
                   postVars>>

\* An operation: with more to do another thread is woken for it.
RunsOperation(t) ==
    /\ AtLoop(t) /\ ~stopped_ /\ op_queue_ # <<>> /\ Head(op_queue_) # Task
    /\ op_queue_' = Tail(op_queue_)
    /\ running' = [running EXCEPT ![t] = Head(op_queue_)]
    /\ ran' = IF Head(op_queue_).kind = "handler" THEN ran \cup {Head(op_queue_).id} ELSE ran
    /\ LET pcs == [pc EXCEPT ![t] = "handler"]
       IN IF Len(op_queue_) > 1 THEN Wake(t, pcs) ELSE pc' = pcs /\ UNCHANGED eventVars
    /\ UNCHANGED <<outstanding_work_, stopped_, privateVars, socketVars, counting, posted>>

-----------------------------------------------------------------------------
(* The reactor.                                                            *)

\* epoll_reactor::run: epoll_wait blocks until there is an event, unless it polls.  The
\* descriptor is queued for its events.
EpollReturns(t) ==
    /\ pc[t] \in {"poll", "epoll"} /\ t \notin signalling
    /\ pc[t] = "epoll" => interrupter \/ edge
    /\ interrupter' = FALSE /\ edge' = FALSE
    /\ private_op_queue' = [private_op_queue EXCEPT
         ![t] = IF edge THEN Append(@, Descriptor) ELSE @]
    /\ pc' = [pc EXCEPT ![t] = "cleanup"]
    /\ UNCHANGED <<queueVars, signalled, signalling, task_interrupted_, stopped_, running,
                   private_outstanding_work, data, peer, readOps, try_speculative_, arrived, postVars>>

\* task_cleanup: what the reactor found, and then the reactor, go to the queue.
TaskCleanup(t) ==
    /\ pc[t] = "cleanup"
    /\ outstanding_work_' = outstanding_work_ + private_outstanding_work[t]
    /\ private_outstanding_work' = [private_outstanding_work EXCEPT ![t] = 0]
    /\ task_interrupted_' = TRUE
    /\ op_queue_' = (op_queue_ \o private_op_queue[t]) \o <<Task>>
    /\ private_op_queue' = [private_op_queue EXCEPT ![t] = <<>>]
    /\ pc' = [pc EXCEPT ![t] = "loop"]
    /\ UNCHANGED <<signalled, signalling, interrupter, stopped_, running, socketVars, postVars>>

Readable == data > 0 \/ peer = "ended"

\* Slip: a read that leaves data behind waits for an event the next time.
ReadsExhausting ==
    /\ Readable
    /\ try_speculative_' = FALSE
    /\ IF data > 0
       THEN data' \in 0..(data - 1) /\ UNCHANGED peer
       ELSE peer' = "told" /\ UNCHANGED data

\* non_blocking_recv: some of the data, or the end of the stream; with the end nothing
\* more is tried (done_and_exhausted: no byte was read).
Reads ==
    /\ Readable
    /\ IF data > 0
       THEN data' \in 0..(data - 1) /\ try_speculative_' = TRUE /\ UNCHANGED peer
       ELSE peer' = "told" /\ try_speculative_' = FALSE /\ UNCHANGED data

\* descriptor_state: the waiting read is done and its handler run; or there was none, or
\* nothing to read, and work is made up for.
RunsDescriptor(t) ==
    /\ pc[t] = "handler" /\ running[t] = Descriptor /\ t \notin signalling
    /\ IF readOps /\ Readable
       THEN /\ Reads /\ readOps' = FALSE
            /\ running' = [running EXCEPT ![t] = ReadOp]
            /\ UNCHANGED private_outstanding_work
       ELSE /\ try_speculative_' = TRUE /\ UNCHANGED <<data, peer, readOps>>
            /\ running' = [running EXCEPT ![t] = Compensated]
            /\ private_outstanding_work' = [private_outstanding_work EXCEPT ![t] = @ + 1]
    /\ UNCHANGED <<queueVars, eventVars, stopped_, pc, private_op_queue, edge, arrived, postVars>>

-----------------------------------------------------------------------------
(* What handlers do, and their end.                                        *)

InHandler(t) ==
    pc[t] = "handler" /\ t \notin signalling /\ running[t].kind \in {"handler", "read"}

\* asio::post.
HandlerPosts(t) ==
    /\ InHandler(t) /\ posted < MaxPosts
    /\ posted' = posted + 1
    /\ outstanding_work_' = outstanding_work_ + 1
    /\ op_queue_' = Append(op_queue_, Handler(posted'))
    /\ Wake(t, pc)
    /\ UNCHANGED <<stopped_, running, privateVars, socketVars, counting, ran>>

\* An operation in several parts goes on: its next part is queued privately.
HandlerContinues(t) ==
    /\ InHandler(t) /\ posted < MaxPosts
    /\ posted' = posted + 1
    /\ private_outstanding_work' = [private_outstanding_work EXCEPT ![t] = @ + 1]
    /\ private_op_queue' = [private_op_queue EXCEPT ![t] = Append(@, Handler(posted'))]
    /\ UNCHANGED <<queueVars, eventVars, stopped_, pc, running, socketVars, counting, ran>>

\* The connection has at most one read waiting, done or being handled, and a read's own
\* handler starts the next.
MayRead(t) ==
    /\ peer # "told" /\ ~readOps /\ ~Contains(op_queue_, ReadOp)
    /\ \A u \in Thread \ {t} : running[u] # ReadOp

\* async_read_some: the read is tried, and queued when it is done at once; otherwise it
\* waits for an event.
HandlerStartsRead(t) ==
    /\ InHandler(t) /\ MayRead(t)
    /\ outstanding_work_' = outstanding_work_ + 1
    /\ IF try_speculative_ /\ Readable
       THEN Reads /\ op_queue_' = Append(op_queue_, ReadOp) /\ Wake(t, pc) /\ UNCHANGED readOps
       ELSE /\ readOps' = TRUE
            /\ UNCHANGED <<op_queue_, data, peer, try_speculative_, pc, eventVars>>
    /\ UNCHANGED <<stopped_, running, privateVars, edge, arrived, postVars>>

\* work_cleanup, whether the handler returned or threw.
HandlerEnds(t) ==
    /\ pc[t] = "handler" /\ running[t] # Descriptor /\ t \notin signalling
    /\ outstanding_work_' = outstanding_work_ + private_outstanding_work[t] - 1
    /\ private_outstanding_work' = [private_outstanding_work EXCEPT ![t] = 0]
    /\ op_queue_' = op_queue_ \o private_op_queue[t]
    /\ private_op_queue' = [private_op_queue EXCEPT ![t] = <<>>]
    /\ running' = [running EXCEPT ![t] = Nothing]
    /\ LET pcs == [pc EXCEPT ![t] = "loop"]
       IN IF outstanding_work_' = 0
          THEN StopAll(pcs)
          ELSE pc' = pcs /\ UNCHANGED <<eventVars, stopped_>>
    /\ UNCHANGED <<socketVars, postVars>>

-----------------------------------------------------------------------------
(* Outside.                                                                *)

\* The acceptor posts a connection's start: the work is counted before the mutex is
\* taken.
AcceptorCounts ==
    /\ counting = 0 /\ posted < MaxPosts
    /\ posted' = posted + 1
    /\ counting' = posted'
    /\ outstanding_work_' = outstanding_work_ + 1
    /\ UNCHANGED <<op_queue_, eventVars, stopped_, pc, running, privateVars, socketVars, ran>>

AcceptorQueues ==
    /\ counting > 0 /\ Acceptor \notin signalling
    /\ counting' = 0
    /\ op_queue_' = Append(op_queue_, Handler(counting))
    /\ Wake(Acceptor, pc)
    /\ UNCHANGED <<outstanding_work_, stopped_, running, privateVars, socketVars, posted, ran>>

DataArrives ==
    /\ peer = "open" /\ arrived < MaxData
    /\ arrived' = arrived + 1
    /\ data' = data + 1
    /\ edge' = TRUE
    /\ UNCHANGED <<queueVars, eventVars, stopped_, pc, running, privateVars, peer, readOps,
                   try_speculative_, postVars>>

PeerEnds ==
    /\ peer = "open"
    /\ peer' = "ended"
    /\ edge' = TRUE
    /\ UNCHANGED <<queueVars, eventVars, stopped_, pc, running, privateVars, data, readOps,
                   try_speculative_, arrived, postVars>>

\* Server::stop, from the signal's handler on another thread.
Stop ==
    /\ ~stopped_
    /\ StopAll(pc)
    /\ UNCHANGED <<queueVars, running, privateVars, socketVars, postVars>>

-----------------------------------------------------------------------------
(* The specification.                                                      *)

\* The workers enter run(), with their timer started and nothing else to do.
Init ==
    /\ op_queue_ = <<Task>> /\ outstanding_work_ = 1
    /\ task_interrupted_ = TRUE /\ stopped_ = FALSE
    /\ signalled = FALSE /\ signalling = {} /\ interrupter = FALSE
    /\ pc = [t \in Thread |-> "loop"] /\ running = [t \in Thread |-> Nothing]
    /\ private_op_queue = [t \in Thread |-> <<>>]
    /\ private_outstanding_work = [t \in Thread |-> 0]
    /\ edge = FALSE /\ data = 0 /\ peer = "open" /\ arrived = 0
    /\ readOps = FALSE /\ try_speculative_ = TRUE
    /\ counting = 0 /\ posted = 0 /\ ran = {}

Next ==
    \/ \E t \in Thread :
         \/ WakeSpuriously(t) \/ WaitEnds(t)
         \/ LeavesRun(t) \/ Waits(t) \/ RunsTask(t) \/ RunsOperation(t)
         \/ EpollReturns(t) \/ TaskCleanup(t) \/ RunsDescriptor(t)
         \/ HandlerPosts(t) \/ HandlerContinues(t) \/ HandlerStartsRead(t) \/ HandlerEnds(t)
    \/ \E by \in Thread \cup {Acceptor} : Signal(by)
    \/ AcceptorCounts \/ AcceptorQueues \/ DataArrives \/ PeerEnds \/ Stop

Spec == Init /\ [][Next]_schedVars

\* The system schedules every thread that may run, and every handler returns.
Fairness ==
    /\ \A t \in Thread :
         /\ WF_schedVars(LeavesRun(t) \/ Waits(t) \/ RunsTask(t) \/ RunsOperation(t))
         /\ WF_schedVars(WaitEnds(t))
         /\ WF_schedVars(EpollReturns(t) \/ TaskCleanup(t))
         /\ WF_schedVars(RunsDescriptor(t))
         /\ WF_schedVars(HandlerEnds(t))
    /\ \A by \in Thread \cup {Acceptor} : WF_schedVars(Signal(by))
    /\ WF_schedVars(AcceptorQueues)

FairSpec == Spec /\ Fairness

-----------------------------------------------------------------------------
(* Properties.                                                             *)

Operation ==
    {Task, Descriptor, ReadOp} \cup {Handler(n) : n \in 1..MaxPosts}

\* Types of the loop's state.
SchedTypeOK ==
    /\ op_queue_ \in Seq(Operation) /\ outstanding_work_ \in Int
    /\ {task_interrupted_, stopped_, signalled, interrupter, edge, readOps, try_speculative_}
         \subseteq BOOLEAN
    /\ signalling \subseteq Thread \cup {Acceptor}
    /\ pc \in [Thread ->
         {"loop", "waiting", "woken", "poll", "epoll", "cleanup", "handler", "done"}]
    /\ running \in [Thread -> (Operation \ {Task}) \cup {Compensated, Nothing}]
    /\ private_op_queue \in [Thread -> Seq(Operation \ {Task, ReadOp})]
    /\ private_outstanding_work \in [Thread -> Nat]
    /\ data \in 0..MaxData /\ arrived \in 0..MaxData /\ peer \in {"open", "ended", "told"}
    /\ posted \in 0..MaxPosts /\ counting \in 0..MaxPosts /\ ran \subseteq 1..MaxPosts

IsWork(op) == op.kind \in {"read", "handler"}
OneIf(b) == IF b THEN 1 ELSE 0

\* The count of work is the timer, plus every operation that is queued, waits in the
\* descriptor or runs, with what the threads have yet to add.  A unit less and the
\* worker's run() returns while there are connections (scheduler.ipp, work_cleanup and
\* compensating_work_started).
WorkCounted ==
    outstanding_work_ + MapThenSumSet(LAMBDA t : private_outstanding_work[t], Thread)
      = 1 + Len(SelectSeq(op_queue_, IsWork)) + OneIf(readOps) + OneIf(counting > 0)
        + MapThenSumSet(LAMBDA t : Len(SelectSeq(private_op_queue[t], IsWork)), Thread)
        + Cardinality({t \in Thread : running[t] \notin {Nothing, Descriptor}})

\* With an operation queued, a thread that is free is on its way to it: none sleeps in
\* the event or in epoll without a call that will wake it or another (scheduler.ipp,
\* wake_one_thread_and_unlock: either the event or the reactor is signalled).
NobodySleepsOnWork ==
    op_queue_ # <<>> /\ ~stopped_ /\ signalling = {} =>
      \/ \E t \in Thread :
           \/ pc[t] \in {"loop", "poll", "cleanup"}
           \/ pc[t] = "woken" /\ signalled
           \/ pc[t] = "epoll" /\ (interrupter \/ edge)
      \/ \A t \in Thread : pc[t] \in {"handler", "done"}

\* A read that waits while the socket has data, or its end, has an event coming: on its
\* way out of epoll, queued, or being handled.  Events are edge-triggered, so one that is
\* lost is not repeated (epoll_reactor.ipp, start_op and perform_io).
ReadNotStuck ==
    readOps /\ Readable =>
      \/ edge \/ Contains(op_queue_, Descriptor)
      \/ \E t \in Thread : running[t] = Descriptor \/ Contains(private_op_queue[t], Descriptor)

Linked(s) == Contains(s, Descriptor)
LinkedOnce(s) ==
    \A i, j \in 1..Len(s) : s[i] = Descriptor /\ s[j] = Descriptor => i = j

\* The descriptor has one link, so it is in one place of one queue at most, the loop's or
\* a thread's own; and in none while a thread is about to take its events from epoll and
\* to link it again: "by the time we reach this point, any previously returned descriptor
\* operations have already been dequeued" (epoll_reactor.ipp:506-510).  Dequeued is not
\* done: another thread may still run it.
DescriptorOnce ==
    /\ LinkedOnce(op_queue_)
    /\ \A t \in Thread :
         /\ LinkedOnce(private_op_queue[t])
         /\ Linked(private_op_queue[t]) =>
              ~Linked(op_queue_) /\ \A u \in Thread \ {t} : ~Linked(private_op_queue[u])
         /\ pc[t] \in {"poll", "epoll"} =>
              ~Linked(op_queue_) /\ \A u \in Thread : ~Linked(private_op_queue[u])

\* Whatever is posted is run, unless the server is stopped (scheduler.ipp,
\* post_immediate_completion).
PostedRuns == \A n \in 1..MaxPosts : posted >= n ~> (n \in ran \/ stopped_)

\* A waiting read is done once there is something to read, unless the server is stopped.
DataRead == (readOps /\ Readable) ~> (~readOps \/ stopped_)
=============================================================================
