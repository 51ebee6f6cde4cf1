------------------------------- MODULE Workers -------------------------------
(***************************************************************************)
(* The workers of the JS shell (shell/jsworkers.cpp): a pool of threads     *)
(* that run worker scripts, the queue of workers with pending events, the   *)
(* main thread's queue of the events sent back to it, termination of a      *)
(* worker, of all workers, and of the pool.                                 *)
(*                                                                         *)
(* Each queue and each worker has a lock of its own.  One action is one     *)
(* region run with a lock held; a region that nests locks (MainQueue lock,  *)
(* then WorkerQueue lock; Worker lock, then WorkerQueue lock) is one action *)
(* too, except Worker tree notification, which holds the MainQueue lock     *)
(* while it takes one worker lock after the other.                          *)
(*                                                                         *)
(* Abstraction.  An event is its position in a queue: a worker has a number *)
(* of pending events, the main queue is the sequence of the workers whose   *)
(* message or error waits there.  WorkerQueue::busy is the set of workers   *)
(* the threads hold.  The parent of every worker is the main queue:         *)
(* createContext leaves the reserved slot of a worker's own Worker          *)
(* constructor undefined, so a nested construction uses a wild ThreadPool   *)
(* pointer (NestedConstruct).                                               *)
(***************************************************************************)
EXTENDS Integers, Sequences, FiniteSets

CONSTANTS
  Workers,         \* bound: the workers that are ever constructed
  Threads,         \* ThreadPool::threads
  NoWorker,        \* NULL
  MaxQueue,        \* bound: events pending in one queue
  InlineCapacity,  \* elements a Vector holds before it allocates (4)
  MallocFails,     \* an allocation may fail
  CollectsGarbage, \* the main runtime runs its collector
  HasWatchdog,     \* a timeout or a worker's quit() calls terminateAll
  ScriptsLoop,     \* a worker script may run until it is interrupted
  Nests            \* a worker script may construct a worker

WorkersAssumption ==
  /\ NoWorker \notin Workers
  /\ MaxQueue \in Nat
  /\ InlineCapacity \in Nat
  /\ {MallocFails, CollectsGarbage, HasWatchdog, ScriptsLoop, Nests} \subseteq BOOLEAN

VARIABLES
  mq,            \* tp->mq and tp->wq are not NULL
  mqQueue,       \* MainQueue::queue: senders of the pending events
  children,      \* MainQueue::children
  wqQueue,       \* WorkerQueue::queue
  wqClosed,      \* WorkerQueue::closed
  terminating,   \* ThreadPool::terminating
  life,          \* the C++ Worker object of each worker
  pending,       \* Worker::events: how many
  current,       \* Worker::current is not NULL
  terminated,    \* Worker::terminated
  terminateFlag, \* Worker::terminateFlag
  interrupt,     \* the worker's runtime was asked for an operation callback
  pc,            \* of each pool thread
  mine,          \* local of WorkerQueue::work: the worker the thread took
  loops,         \* the script the thread runs does not end by itself
  waiting,       \* threads blocked on WorkerQueue::condvar
  mainPc,        \* of the main thread
  mainWaits,     \* the main thread is blocked on MainQueue::condvar
  mainCurrent,   \* sender of the event the main thread processes
  creating,      \* local of Worker::create: the new worker
  finishing,     \* js::workers::finish was called
  refs,          \* workers whose JSObject the main script can reach
  marked,        \* workers marked by the collection in progress
  dogPc,         \* of a thread in terminateAll
  dogTodo        \* children that notifyTerminating has still to visit

mqVars     == <<mq, mqQueue, children, mainWaits>>
wqVars     == <<wqQueue, wqClosed, waiting>>
stopVars   == <<terminated, terminateFlag, pending>>
workerVars == <<life, current, interrupt, stopVars>>
threadVars == <<pc, mine, loops>>
jsVars     == <<mainCurrent, creating, finishing, refs, marked>>
dogVars    == <<dogPc, dogTodo>>
vars == <<mqVars, wqVars, workerVars, threadVars, jsVars, dogVars, terminating,
          mainPc>>

Lives == {"none", "initializing", "live", "disposed", "deleted"}

\* A thread that has taken a worker: between take() and drop().
Holding == {"start", "run", "post", "failed", "postError", "end", "drop"}
\* A thread inside processOneEvent with Worker::current set.
Processing == {"run", "post", "failed", "postError", "end"}
Pcs == Holding \cup {"off", "take", "wake", "exit"}

MainPcs == {"js", "quit", "create", "post", "createFailed", "traceMain", "traceWorkers",
            "sweep", "take", "close", "join", "finished", "undefined"}

Busy == {mine[t] : t \in {u \in Threads : pc[u] \in Holding}}
Elements(s) == {s[i] : i \in 1..Len(s)}

\* The type invariant.
TypeOK ==
  /\ {mq, wqClosed, terminating, mainWaits, finishing} \subseteq BOOLEAN
  /\ mqQueue \in Seq(Workers) /\ wqQueue \in Seq(Workers)
  /\ children \in SUBSET Workers /\ refs \in SUBSET Workers
  /\ marked \in SUBSET Workers /\ dogTodo \in SUBSET Workers
  /\ life \in [Workers -> Lives]
  /\ pending \in [Workers -> Nat]
  /\ \A f \in {current, terminated, terminateFlag, interrupt} :
       f \in [Workers -> BOOLEAN]
  /\ pc \in [Threads -> Pcs]
  /\ mine \in [Threads -> Workers \cup {NoWorker}]
  /\ loops \in [Threads -> BOOLEAN]
  /\ waiting \in SUBSET Threads
  /\ mainPc \in MainPcs
  /\ mainCurrent \in Workers \cup {NoWorker}
  /\ creating \in Workers \cup {NoWorker}
  /\ dogPc \in {"idle", "lock", "notify", "done"}

Init ==
  /\ mq = FALSE /\ mqQueue = << >> /\ children = {} /\ mainWaits = FALSE
  /\ wqQueue = << >> /\ wqClosed = FALSE /\ waiting = {}
  /\ terminating = FALSE
  /\ life = [w \in Workers |-> "none"]
  /\ pending = [w \in Workers |-> 0]
  /\ current = [w \in Workers |-> FALSE]
  /\ terminated = [w \in Workers |-> FALSE]
  /\ terminateFlag = [w \in Workers |-> FALSE]
  /\ interrupt = [w \in Workers |-> FALSE]
  /\ pc = [t \in Threads |-> "off"]
  /\ mine = [t \in Threads |-> NoWorker]
  /\ loops = [t \in Threads |-> FALSE]
  /\ mainPc = "js" /\ mainCurrent = NoWorker /\ creating = NoWorker
  /\ finishing = FALSE /\ refs = {} /\ marked = {}
  /\ dogPc = "idle" /\ dogTodo = {}

-----------------------------------------------------------------------------
(* Queues and locks.                                                        *)

\* The MainQueue lock is free (notifyTerminating keeps it over several steps).
MqLockFree == dogPc # "notify"

\* A Vector append can fail only once the inline storage is used up.
AppendFails(n) == MallocFails /\ n >= InlineCapacity

\* ThreadSafeQueue::post of the worker queue, which is open.
PostWorker(w) ==
  /\ wqQueue' = Append(wqQueue, w)
  /\ waiting' = IF wqQueue = << >> THEN {} ELSE waiting

\* ThreadSafeQueue::post of the main queue, which is never closed.
PostMain(w) ==
  /\ mqQueue' = Append(mqQueue, w)
  /\ mainWaits' = IF mqQueue = << >> THEN FALSE ELSE mainWaits

\* ThreadSafeQueue::lockedIsIdle of the worker queue.
LockedIsIdle(q, busy) == q = << >> /\ busy = {}

\* Worker::lockedCheckTermination and terminateSelf, for a worker that has
\* the given number of events.
CheckTermination(w, events) ==
  LET stop == terminateFlag[w] \/ terminating IN
  /\ terminated' = [terminated EXCEPT ![w] = @ \/ stop]
  /\ terminateFlag' = [terminateFlag EXCEPT ![w] = FALSE]
  /\ pending' = [pending EXCEPT ![w] = IF stop THEN 0 ELSE events]

\* Worker::setTerminateFlag.
SetTerminateFlag(ws) ==
  /\ terminateFlag' = [w \in Workers |-> terminateFlag[w] \/ w \in ws]
  /\ interrupt' = [w \in Workers |-> interrupt[w] \/ (w \in ws /\ current[w])]

-----------------------------------------------------------------------------
(* The threads of the pool: WorkerQueue::work, Worker::processOneEvent and   *)
(* the natives a worker script can call.                                    *)

\* ThreadSafeQueue::take, the lock held: the thread waits, ends, or takes a
\* worker.
Take(t) ==
  \/ /\ wqQueue = << >> /\ wqClosed
     /\ pc' = [pc EXCEPT ![t] = "exit"]
     /\ mine' = [mine EXCEPT ![t] = NoWorker]
     /\ UNCHANGED <<wqQueue, waiting>>
  \/ /\ wqQueue = << >> /\ ~wqClosed
     /\ pc' = [pc EXCEPT ![t] = "take"]
     /\ mine' = [mine EXCEPT ![t] = NoWorker]
     /\ waiting' = waiting \cup {t}
     /\ UNCHANGED wqQueue
  \/ /\ wqQueue # << >>
     /\ pc' = [pc EXCEPT ![t] = "start"]
     /\ mine' = [mine EXCEPT ![t] = Head(wqQueue)]
     /\ wqQueue' = Tail(wqQueue)
     /\ UNCHANGED waiting

WorkTake(t) ==
  /\ pc[t] = "take" /\ t \notin waiting
  /\ Take(t)
  /\ UNCHANGED <<mqVars, wqClosed, workerVars, loops, jsVars, dogVars,
                 terminating, mainPc>>

\* The first locked region of processOneEvent.
StartEvent(t) ==
  LET w == mine[t] IN
  /\ pc[t] = "start"
  /\ CheckTermination(w, IF pending[w] > 0 THEN pending[w] - 1 ELSE 0)
  /\ IF terminated'[w] \/ pending[w] = 0
     THEN /\ pc' = [pc EXCEPT ![t] = "drop"]
          /\ UNCHANGED <<current, loops>>
     ELSE /\ pc' = [pc EXCEPT ![t] = "run"]
          /\ current' = [current EXCEPT ![w] = TRUE]
          /\ loops' \in {[loops EXCEPT ![t] = b] : b \in {FALSE, ScriptsLoop}}
  /\ UNCHANGED <<mqVars, wqVars, life, interrupt, mine, jsVars, dogVars,
                 terminating, mainPc>>

\* The script ends: with a value, or (bounded) with an error.
ScriptEnds(t) ==
  /\ pc[t] = "run" /\ ~loops[t]
  /\ \/ pc' = [pc EXCEPT ![t] = "end"]
     \/ Len(mqQueue) < MaxQueue /\ pc' = [pc EXCEPT ![t] = "failed"]
  /\ UNCHANGED <<mqVars, wqVars, workerVars, mine, loops, jsVars, dogVars,
                 terminating, mainPc>>

\* jsOperationCallback.
OperationCallback(t) ==
  LET w == mine[t] IN
  /\ pc[t] = "run" /\ interrupt[w]
  /\ interrupt' = [interrupt EXCEPT ![w] = FALSE]
  /\ CheckTermination(w, pending[w])
  /\ pc' = IF terminated'[w] THEN [pc EXCEPT ![t] = "failed"] ELSE pc
  /\ UNCHANGED <<mqVars, wqVars, life, current, mine, loops, jsVars, dogVars,
                 terminating, mainPc>>

\* jsPostMessageToParent (bounded): the check, then the event is posted.
PostMessageToParent(t) ==
  LET w == mine[t] IN
  /\ pc[t] = "run" /\ Len(mqQueue) < MaxQueue
  /\ CheckTermination(w, pending[w])
  /\ pc' = [pc EXCEPT ![t] = IF terminated'[w] THEN "failed" ELSE "post"]
  /\ UNCHANGED <<mqVars, wqVars, life, current, interrupt, mine, loops, jsVars,
                 dogVars, terminating, mainPc>>

PostUpMessage(t) ==
  /\ pc[t] = "post" /\ MqLockFree
  /\ \/ /\ PostMain(mine[t])
        /\ pc' = [pc EXCEPT ![t] = "run"]
     \/ /\ AppendFails(Len(mqQueue))
        /\ pc' = [pc EXCEPT ![t] = "failed"]
        /\ UNCHANGED <<mqQueue, mainWaits>>
  /\ UNCHANGED <<mq, children, wqVars, workerVars, mine, loops, jsVars, dogVars,
                 terminating, mainPc>>

\* new Worker in a worker script: the reserved slots of the constructor hold
\* no ThreadPool, and the program goes on with a wild pointer.
NestedConstruct(t) ==
  /\ pc[t] = "run" /\ Nests
  /\ mainPc' = "undefined"
  /\ UNCHANGED <<mqVars, wqVars, workerVars, threadVars, jsVars, dogVars,
                 terminating>>

\* processOneEvent after a failure: an error event unless terminated.
Failed(t) ==
  LET w == mine[t] IN
  /\ pc[t] = "failed"
  /\ CheckTermination(w, pending[w])
  /\ pc' = [pc EXCEPT ![t] = IF terminated'[w] THEN "end" ELSE "postError"]
  /\ UNCHANGED <<mqVars, wqVars, life, current, interrupt, mine, loops, jsVars,
                 dogVars, terminating, mainPc>>

PostErrorEvent(t) ==
  /\ pc[t] = "postError" /\ MqLockFree
  /\ \/ PostMain(mine[t])
     \/ /\ MallocFails
        /\ UNCHANGED <<mqQueue, mainWaits>>
  /\ pc' = [pc EXCEPT ![t] = "end"]
  /\ UNCHANGED <<mq, children, wqVars, workerVars, mine, loops, jsVars, dogVars,
                 terminating, mainPc>>

\* Mutant: the worker is not queued again.
RequeueNever(w) == FALSE

\* The worker has more events to run.
Requeue(w) == ~terminated'[w] /\ pending'[w] > 0

\* The last locked region of processOneEvent.
EndEvent(t) ==
  LET w == mine[t] IN
  /\ pc[t] = "end"
  /\ current' = [current EXCEPT ![w] = FALSE]
  /\ CheckTermination(w, pending[w])
  /\ \/ Requeue(w) /\ ~wqClosed /\ PostWorker(w)
     \/ /\ ~Requeue(w) \/ wqClosed \/ AppendFails(Len(wqQueue))
        /\ UNCHANGED <<wqQueue, waiting>>
  /\ pc' = [pc EXCEPT ![t] = "drop"]
  /\ loops' = [loops EXCEPT ![t] = FALSE]
  /\ UNCHANGED <<mqVars, wqClosed, life, interrupt, mine, jsVars, dogVars,
                 terminating, mainPc>>

\* work() after processOneEvent: drop(w), and take() in the same region unless
\* everybody is idle and the main thread has to be told.
Drop(t) ==
  /\ pc[t] = "drop"
  /\ IF LockedIsIdle(wqQueue, {mine[u] : u \in {v \in Threads \ {t} : pc[v] \in Holding}})
     THEN /\ pc' = [pc EXCEPT ![t] = "wake"]
          /\ mine' = [mine EXCEPT ![t] = NoWorker]
          /\ UNCHANGED <<wqQueue, waiting>>
     ELSE Take(t)
  /\ UNCHANGED <<mqVars, wqClosed, workerVars, loops, jsVars, dogVars, terminating,
                 mainPc>>

\* Mutant: nobody is told that the threads became idle.
NoWake == UNCHANGED mainWaits

\* ThreadSafeQueue::wake of the main queue.
Wake == mainWaits' = FALSE

WakeMain(t) ==
  /\ pc[t] = "wake" /\ MqLockFree
  /\ Wake
  /\ pc' = [pc EXCEPT ![t] = "take"]
  /\ UNCHANGED <<mq, mqQueue, children, wqVars, workerVars, mine, loops, jsVars,
                 dogVars, terminating, mainPc>>

-----------------------------------------------------------------------------
(* The main thread: the script and the handlers of the events sent to it.   *)

\* ThreadPool::start, at the first construction of a worker.  A thread that
\* cannot be created ends the pool again.
StartPool ==
  /\ mainPc = "js" /\ ~mq
  /\ mq' = TRUE
  /\ \E created \in SUBSET Threads :
       /\ created = Threads \/ MallocFails
       /\ pc' = [t \in Threads |-> IF t \in created THEN "take" ELSE "off"]
       /\ mainPc' = IF created = Threads THEN "js" ELSE "close"
  /\ UNCHANGED <<mqQueue, children, mainWaits, wqVars, workerVars, mine, loops,
                 jsVars, dogVars, terminating>>

\* Worker::create up to addChild, called by jsConstruct.
AddChild(w) ==
  /\ mainPc = "js" /\ mq /\ life[w] = "none" /\ MqLockFree
  /\ children' = children \cup {w}
  /\ life' = [life EXCEPT ![w] = "initializing"]
  /\ creating' = w
  /\ mainPc' = "create"
  /\ UNCHANGED <<mq, mqQueue, mainWaits, wqVars, current, interrupt, stopVars,
                 threadVars, mainCurrent, finishing, refs, marked, dogVars,
                 terminating>>

\* The rest of Worker::init: the lock, the runtime and the context, or the
\* new worker is deleted (removeChild takes no lock).
InitWorker ==
  /\ mainPc = "create"
  /\ \/ /\ life' = [life EXCEPT ![creating] = "live"]
        /\ mainPc' = "post"
        /\ UNCHANGED <<children, creating>>
     \/ /\ MallocFails
        /\ life' = [life EXCEPT ![creating] = "deleted"]
        /\ children' = children \ {creating}
        /\ creating' = NoWorker
        /\ mainPc' = "js"
  /\ UNCHANGED <<mq, mqQueue, mainWaits, wqVars, current, interrupt, stopVars,
                 threadVars, mainCurrent, finishing, refs, marked, dogVars,
                 terminating>>

\* The InitEvent is pushed and the worker posted.
PostInitEvent ==
  /\ mainPc = "post"
  /\ pending' = [pending EXCEPT ![creating] = 1]
  /\ \/ /\ PostWorker(creating)
        /\ refs' = refs \cup {creating}
        /\ creating' = NoWorker
        /\ mainPc' = "js"
     \/ /\ AppendFails(Len(wqQueue))
        /\ mainPc' = "createFailed"
        /\ UNCHANGED <<wqQueue, waiting, refs, creating>>
  /\ UNCHANGED <<mqVars, wqClosed, life, current, interrupt, terminated,
                 terminateFlag, threadVars, mainCurrent, finishing, marked,
                 dogVars, terminating>>

\* The path of the script cannot be resolved or its InitEvent not be made: NULL
\* is returned, and the worker, which init() has set up, stays a child without
\* events until it is collected.
NoInitEvent ==
  /\ mainPc = "post" /\ MallocFails
  /\ creating' = NoWorker
  /\ mainPc' = "js"
  /\ UNCHANGED <<mqVars, wqVars, workerVars, threadVars, mainCurrent, finishing, refs,
                 marked, dogVars, terminating>>

\* The event is destroyed; then dispose() destroys the events the worker
\* still has.  The worker stays among the children.
DisposeNewWorker ==
  /\ mainPc = "createFailed"
  /\ pending' = [pending EXCEPT ![creating] = 0]
  /\ life' = [life EXCEPT ![creating] = "disposed"]
  /\ creating' = NoWorker
  /\ mainPc' = "js"
  /\ UNCHANGED <<mqVars, wqVars, current, interrupt, terminated, terminateFlag,
                 threadVars, mainCurrent, finishing, refs, marked, dogVars,
                 terminating>>

\* Mutant: the worker is queued for every event that is posted.
PostToWorkerAlways(w) ==
  /\ pending' = [pending EXCEPT ![w] = @ + 1]
  /\ PostWorker(w)

\* Worker::post of a worker that is not terminated, when nothing fails.
PostToWorker(w) ==
  /\ pending' = [pending EXCEPT ![w] = @ + 1]
  /\ IF ~current[w] /\ pending[w] = 0 THEN PostWorker(w)
     ELSE UNCHANGED <<wqQueue, waiting>>

\* jsPostMessageToChild.  (A post that fails changes nothing.)
PostMessageToChild(w) ==
  /\ mainPc = "js" /\ w \in refs
  /\ ~terminated[w] /\ pending[w] < MaxQueue
  /\ PostToWorker(w)
  /\ UNCHANGED <<mqVars, wqClosed, life, current, interrupt, terminated,
                 terminateFlag, threadVars, jsVars, dogVars, terminating, mainPc>>

\* jsTerminate.
Terminate(w) ==
  /\ mainPc = "js" /\ w \in refs
  /\ SetTerminateFlag({w})
  /\ UNCHANGED <<mqVars, wqVars, life, current, terminated, pending, threadVars,
                 jsVars, dogVars, terminating, mainPc>>

\* quit() in the main script: terminateAll on the main thread; the script or
\* the handler ends.
Quit ==
  /\ mainPc = "js" /\ MqLockFree
  /\ terminating' = TRUE
  /\ SetTerminateFlag(children)
  /\ mainPc' = "quit"
  /\ UNCHANGED <<mqVars, wqVars, life, current, terminated, pending, threadVars,
                 jsVars, dogVars>>

\* The script lets go of a worker (the handler's own worker stays reachable).
DropReference(w) ==
  /\ mainPc = "js" /\ w \in refs /\ w # mainCurrent
  /\ refs' = refs \ {w}
  /\ UNCHANGED <<mqVars, wqVars, workerVars, threadVars, mainCurrent, creating,
                 finishing, marked, dogVars, terminating, mainPc>>

\* A collection of the main runtime.  jsTraceThreadPool traces the main queue
\* and then the worker queue, each with its lock; the pool threads go on.
CollectBegin ==
  /\ mainPc = "js" /\ CollectsGarbage /\ mq
  /\ marked' = refs
  /\ mainPc' = "traceMain"
  /\ UNCHANGED <<mqVars, wqVars, workerVars, threadVars, mainCurrent, creating,
                 finishing, refs, dogVars, terminating>>

\* What ThreadSafeQueue::trace marks in the main queue: busy and queue.
TracedInMain == Elements(mqQueue) \cup ({mainCurrent} \ {NoWorker})

TraceMain ==
  /\ mainPc = "traceMain" /\ MqLockFree
  /\ marked' = marked \cup TracedInMain
  /\ mainPc' = "traceWorkers"
  /\ UNCHANGED <<mqVars, wqVars, workerVars, threadVars, mainCurrent, creating,
                 finishing, refs, dogVars, terminating>>

\* Mutant: busy workers are not traced.
TraceWaitingWorkers == Elements(wqQueue)

\* What it marks in the worker queue.
TracedInWorkers == Elements(wqQueue) \cup Busy

TraceWorkers ==
  /\ mainPc = "traceWorkers"
  /\ marked' = marked \cup TracedInWorkers
  /\ mainPc' = "sweep"
  /\ UNCHANGED <<mqVars, wqVars, workerVars, threadVars, mainCurrent, creating,
                 finishing, refs, dogVars, terminating>>

\* jsFinalize of every worker that was not marked.  One that was disposed of
\* has no parent any more and is not removed from the children.
Sweep ==
  /\ mainPc = "sweep"
  /\ LET dead == {w \in Workers : life[w] \in {"live", "disposed"}} \ marked IN
     /\ children' = children \ {w \in dead : life[w] = "live"}
     /\ life' = [w \in Workers |-> IF w \in dead THEN "deleted" ELSE life[w]]
     /\ pending' = [w \in Workers |-> IF w \in dead THEN 0 ELSE pending[w]]
  /\ marked' = {}
  /\ mainPc' = "js"
  /\ UNCHANGED <<mq, mqQueue, mainWaits, wqVars, current, interrupt, terminated,
                 terminateFlag, threadVars, mainCurrent, creating, finishing,
                 refs, dogVars, terminating>>

\* ThreadSafeQueue::take and MainQueue::shouldStop on the main thread.  An
\* event whose sender is gone is undefined behaviour.
MainTake ==
  \/ /\ mqQueue = << >>
     /\ IF LockedIsIdle(wqQueue, Busy)
        THEN mainPc' = "close" /\ UNCHANGED mainWaits
        ELSE mainPc' = "take" /\ mainWaits' = TRUE
     /\ mainCurrent' = NoWorker
     /\ UNCHANGED <<mqQueue, refs>>
  \/ /\ mqQueue # << >>
     /\ mainCurrent' = Head(mqQueue)
     /\ mqQueue' = Tail(mqQueue)
     /\ refs' = refs \cup {Head(mqQueue)}
     /\ mainPc' = IF life[Head(mqQueue)] = "live" THEN "js" ELSE "undefined"
     /\ UNCHANGED mainWaits

\* The main script ends: finish() runs mainThreadWork.
Finish ==
  /\ mainPc \in {"js", "quit"} /\ ~finishing
  /\ finishing' = TRUE
  /\ mainPc' = IF mq THEN "take" ELSE "finished"
  /\ UNCHANGED <<mqVars, wqVars, workerVars, threadVars, mainCurrent, creating,
                 refs, marked, dogVars, terminating>>

MainTakes ==
  /\ mainPc = "take" /\ ~mainWaits /\ MqLockFree
  /\ MainTake
  /\ UNCHANGED <<mq, children, wqVars, workerVars, threadVars, creating,
                 finishing, marked, dogVars, terminating>>

\* A handler returns: drop, destroy and take in one region.
HandlerEnds ==
  /\ mainPc \in {"js", "quit"} /\ finishing /\ MqLockFree
  /\ MainTake
  /\ UNCHANGED <<mq, children, wqVars, workerVars, threadVars, creating,
                 finishing, marked, dogVars, terminating>>

\* ThreadPool::shutdown: close the worker queue and join the threads.
Close ==
  /\ mainPc = "close"
  /\ wqClosed' = TRUE /\ wqQueue' = << >> /\ waiting' = {}
  /\ mainPc' = "join"
  /\ UNCHANGED <<mqVars, workerVars, threadVars, jsVars, dogVars, terminating>>

\* The threads have ended; the queues and the children are disposed of.
Shutdown ==
  /\ mainPc = "join"
  /\ \A t \in Threads : pc[t] \in {"off", "exit"}
  /\ mq' = FALSE /\ mqQueue' = << >> /\ children' = {}
  /\ life' = [w \in Workers |-> IF w \in children THEN "disposed" ELSE life[w]]
  /\ pending' = [w \in Workers |-> IF w \in children THEN 0 ELSE pending[w]]
  /\ terminating' = FALSE
  /\ wqClosed' = FALSE
  /\ pc' = [t \in Threads |-> "off"]
  /\ mainPc' = IF finishing THEN "finished" ELSE "js"
  /\ UNCHANGED <<mainWaits, wqQueue, waiting, current, interrupt, terminated,
                 terminateFlag, mine, loops, jsVars, dogVars>>

-----------------------------------------------------------------------------
(* terminateAll on another thread: the watchdog, or quit() in a worker.     *)

TerminateAll ==
  /\ dogPc = "idle" /\ HasWatchdog
  /\ terminating' = TRUE
  /\ dogPc' = IF mq THEN "lock" ELSE "done"
  /\ UNCHANGED <<mqVars, wqVars, workerVars, threadVars, jsVars, dogTodo, mainPc>>

\* MainQueue::notifyTerminating takes the lock and looks at the children.
NotifyTerminating ==
  /\ dogPc = "lock" /\ mq
  /\ dogPc' = "notify"
  /\ dogTodo' = children
  /\ UNCHANGED <<mqVars, wqVars, workerVars, threadVars, jsVars, terminating,
                 mainPc>>

NotifyChild(w) ==
  /\ dogPc = "notify" /\ w \in dogTodo /\ life[w] = "live"
  /\ SetTerminateFlag({w})
  /\ dogTodo' = dogTodo \ {w}
  /\ UNCHANGED <<mqVars, wqVars, life, current, terminated, pending, threadVars,
                 jsVars, dogPc, terminating, mainPc>>

NotifyEnds ==
  /\ dogPc = "notify" /\ dogTodo = {}
  /\ dogPc' = "done"
  /\ UNCHANGED <<mqVars, wqVars, workerVars, threadVars, jsVars, dogTodo,
                 terminating, mainPc>>

\* A condition variable may wake a waiter without a notification.
SpuriousWakeup ==
  /\ \/ \E t \in waiting : waiting' = waiting \ {t} /\ UNCHANGED mainWaits
     \/ mainWaits /\ mainWaits' = FALSE /\ UNCHANGED waiting
  /\ UNCHANGED <<mq, mqQueue, children, wqQueue, wqClosed, workerVars, threadVars,
                 jsVars, dogVars, terminating, mainPc>>

\* The shell has left finish(), or the program is in undefined behaviour.
Stopped == mainPc \in {"finished", "undefined"} /\ UNCHANGED vars

-----------------------------------------------------------------------------
Thread(t) ==
  \/ WorkTake(t) \/ StartEvent(t) \/ ScriptEnds(t) \/ OperationCallback(t)
  \/ PostUpMessage(t) \/ Failed(t) \/ PostErrorEvent(t) \/ EndEvent(t)
  \/ Drop(t) \/ WakeMain(t)

ThreadSteps == \E t \in Threads : Thread(t)

Script ==
  \E t \in Threads : PostMessageToParent(t) \/ NestedConstruct(t)

MainScript ==
  \/ StartPool \/ Quit \/ Finish \/ CollectBegin
  \/ \E w \in Workers : AddChild(w) \/ PostMessageToChild(w) \/ Terminate(w)
                        \/ DropReference(w)

MainContinues ==
  \/ InitWorker \/ PostInitEvent \/ NoInitEvent \/ DisposeNewWorker
  \/ TraceMain \/ TraceWorkers \/ Sweep
  \/ MainTakes \/ HandlerEnds \/ Close \/ Shutdown

Watchdog == NotifyTerminating \/ NotifyEnds \/ \E w \in Workers : NotifyChild(w)

Next ==
  \/ ThreadSteps \/ Script \/ MainScript \/ MainContinues \/ Watchdog
  \/ TerminateAll \/ SpuriousWakeup \/ Stopped

Spec == Init /\ [][Next]_vars

\* The threads run; a script that does not loop ends, and one that loops gets
\* to its operation callback.  Main-thread handlers return.
Fairness ==
  /\ \A t \in Threads :
       WF_vars(Thread(t)) /\ SF_vars(ScriptEnds(t)) /\ SF_vars(OperationCallback(t))
  /\ WF_vars(MainContinues) /\ WF_vars(Watchdog)

LiveSpec == Spec /\ Fairness

-----------------------------------------------------------------------------
(* Safety.                                                                  *)

\* The comment of WorkerQueue: two threads never run a worker at the same
\* time.  A worker is in the queue at most once, and not while a thread that
\* holds it can still look at its events.
OneThreadPerWorker ==
  /\ \A t, u \in Threads :
       t # u /\ mine[t] = mine[u] /\ pc[t] \in Holding \ {"drop"}
         => pc[u] \notin Holding \ {"drop"}
  /\ \A t \in Threads, i \in 1..Len(wqQueue) :
       mine[t] = wqQueue[i] => pc[t] \notin Holding \ {"drop"}
  /\ \A i, j \in 1..Len(wqQueue) : wqQueue[i] = wqQueue[j] => i = j

\* Worker::post and the end of processOneEvent: a worker with events that does
\* not run one is in the queue or with a thread about to look.  Nothing is
\* stranded by the order in which posts, ends of events and terminations come.
NoEventStranded ==
  \A w \in Workers :
    life[w] = "live" /\ pending[w] > 0 /\ ~current[w] /\ ~wqClosed =>
      \/ w \in Elements(wqQueue)
      \/ \E t \in Threads : mine[t] = w /\ pc[t] = "start"

\* Worker::current is set exactly while one thread processes an event of the
\* worker, and a terminated worker has no events: post() refuses them.
CurrentIffProcessing ==
  \A w \in Workers :
    /\ current[w] <=> \E t \in Threads : mine[t] = w /\ pc[t] \in Processing
    /\ terminated[w] => pending[w] = 0

\* The condition variables: a pool thread sleeps only when the open queue is
\* empty; the main thread only when no event waits for it and some thread
\* holds a worker or is about to wake it (MainQueue::shouldStop's comment).
NoLostWakeup ==
  /\ waiting # {} => wqQueue = << >> /\ ~wqClosed
  /\ mainWaits => /\ mqQueue = << >>
                  /\ \/ ~LockedIsIdle(wqQueue, Busy)
                     \/ \E t \in Threads : pc[t] = "wake"

\* finish() "continues to wait for events until all threads are idle": when
\* it closes the queue nothing is running and no event is pending anywhere.
FinishWaitsForAll ==
  mainPc \in {"close", "join"} /\ finishing =>
    /\ Busy = {} /\ wqQueue = << >> /\ mqQueue = << >>
    /\ \A w \in Workers : ~current[w] /\ pending[w] = 0

\* Rule (b) of the object lifetime rules: a worker that is queued, held by a
\* thread, or whose event the main thread handles is not collected, however
\* the two traces of jsTraceThreadPool interleave with the threads.
BusyWorkerAlive ==
  mainPc # "undefined" =>
    \A w \in Elements(wqQueue) \cup Busy \cup ({mainCurrent} \ {NoWorker}) :
      life[w] = "live"

\* Nothing that was posted waits for nobody.  (A worker whose allocation of a
\* queue entry fails is not queued: nobody runs its events.)
NothingStranded == NoLostWakeup /\ (~MallocFails => NoEventStranded)

\* A worker is not collected while it is used, nor the pool while one is.
LifetimesKept == BusyWorkerAlive /\ (~MallocFails => FinishWaitsForAll)

\* A worker belongs to one thread at a time.
WorkersOwned == TypeOK /\ OneThreadPerWorker /\ CurrentIffProcessing

\* A terminated worker starts no other event and is never revived.
TerminatedRunsNothing ==
  [][\A w \in Workers : terminated[w] =>
       terminated'[w] /\ (current'[w] => current[w])]_vars

(* Liveness.                                                                *)

\* terminate() stops a script, even one that loops.
TerminateInterrupts ==
  \A w \in Workers : (terminateFlag[w] /\ current[w]) ~> ~current[w]

\* jsworkers.h: terminateAll before finish() shuts down without waiting for
\* all messages.
FinishCompletes == (finishing /\ terminating) ~> (mainPc = "finished")

(* What the comments say and the code does not.                             *)

\* Rule (c): a worker with an event pending at its parent is live.
PendingEventAlive == \A w \in Elements(mqQueue) : life[w] = "live"

\* The four states of the comment before class Worker.
OneOfFourStates ==
  \A w \in Workers : life[w] = "live" /\ mainPc # "post" =>
    \/ ~terminated[w]
    \/ terminated[w] /\ ~current[w] /\ pending[w] = 0

\* Children are removed, and the main queue deleted, only when no other thread
\* looks at them.
NotifiedChildrenAlive ==
  /\ dogPc \in {"lock", "notify"} => mq
  /\ \A w \in dogTodo : life[w] = "live"

\* Worker::events owns its events: none of them was destroyed already.
OwnedEventsAlive == mainPc = "createFailed" => pending[creating] = 0

\* A worker script can construct workers.
NestedWorkersStart == mainPc # "undefined"

=============================================================================
