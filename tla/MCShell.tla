------------------------------- MODULE MCShell -------------------------------
(* The threads of the JS shell.  A behaviour is either one of Watchdog, on a *)
(* clock that wraps around quickly, or one of Workers with a small pool.     *)
EXTENDS Watchdog, Sequences

CONSTANTS
  Checked,      \* "watchdog" and the pools that a run checks
  w1, w2, t1, t2, NoWorker

VARIABLES
  part, mq, mqQueue, children, mainWaits, wqQueue, wqClosed, waiting, life, current,
  poolInterrupt, terminated, terminateFlag, pending, pc, mine, loops, mainCurrent, creating,
  finishing, refs, marked, poolDogPc, dogTodo, terminating, poolMainPc

poolVars == <<
  mq, mqQueue, children, mainWaits, wqQueue, wqClosed, waiting, life, current,
  poolInterrupt, terminated, terminateFlag, pending, pc, mine, loops, mainCurrent, creating,
  finishing, refs, marked, poolDogPc, dogTodo, terminating, poolMainPc>>

(* ends: a pool with a watchdog and scripts that loop.  two: two workers for *)
(* two threads.  gc: the main runtime collects garbage.  oom: allocations    *)
(* fail, and a worker constructs a worker.                                   *)
Pools ==
  [ends |-> [workers |-> {w1}, threads |-> {t1, t2}, queue |-> 1, inline |-> 4, malloc |-> FALSE,
             gc |-> FALSE, dog |-> TRUE, loop |-> TRUE, nests |-> FALSE],
   two |-> [workers |-> {w1, w2}, threads |-> {t1}, queue |-> 1, inline |-> 4, malloc |-> FALSE,
            gc |-> FALSE, dog |-> FALSE, loop |-> FALSE, nests |-> FALSE],
   gc |-> [workers |-> {w1}, threads |-> {t1, t2}, queue |-> 2, inline |-> 4, malloc |-> FALSE,
           gc |-> TRUE, dog |-> FALSE, loop |-> FALSE, nests |-> FALSE],
   oom |-> [workers |-> {w1}, threads |-> {t1, t2}, queue |-> 2, inline |-> 1, malloc |-> TRUE,
            gc |-> FALSE, dog |-> FALSE, loop |-> FALSE, nests |-> TRUE]]

Pool(k) == INSTANCE Workers WITH
  interrupt <- poolInterrupt, dogPc <- poolDogPc, mainPc <- poolMainPc,
  Workers <- Pools[k].workers, Threads <- Pools[k].threads, MaxQueue <- Pools[k].queue,
  InlineCapacity <- Pools[k].inline, MallocFails <- Pools[k].malloc,
  CollectsGarbage <- Pools[k].gc, HasWatchdog <- Pools[k].dog, ScriptsLoop <- Pools[k].loop,
  Nests <- Pools[k].nests

Kinds == Checked \ {"watchdog"}

ASSUME PoolsAssumption == \A k \in Kinds : Pool(k)!WorkersAssumption

\* The part that does not run stays where it begins.
MCInit ==
  /\ Init
  /\ \E k \in Checked : part = k /\ Pool(IF k = "watchdog" THEN "ends" ELSE k)!Init

MCNext ==
  /\ \/ part = "watchdog" /\ Next /\ UNCHANGED poolVars
     \/ \E k \in Kinds : part = k /\ Pool(k)!Next /\ UNCHANGED vars
  /\ UNCHANGED part

\* The fairness of Watchdog, and that of Workers for the pool that is to end: it
\* has one worker, so one script at a time is to end or meet its callback.
DogFairness ==
  /\ WF_vars(part = "watchdog" /\ Tick) /\ WF_vars(part = "watchdog" /\ Dog)
  /\ WF_vars(part = "watchdog" /\ Main)
  /\ SF_vars(part = "watchdog" /\ OperationCallback)

PoolFairness ==
  /\ \A t \in {t1, t2} : WF_poolVars(part = "ends" /\ Pool("ends")!Thread(t))
  /\ SF_poolVars(part = "ends" /\ \E t \in {t1, t2} :
                   Pool("ends")!ScriptEnds(t) \/ Pool("ends")!OperationCallback(t))
  /\ WF_poolVars(part = "ends" /\ Pool("ends")!MainContinues)
  /\ WF_poolVars(part = "ends" /\ Pool("ends")!Watchdog)

MCSpec == MCInit /\ [][MCNext]_<<vars, poolVars, part>> /\ DogFairness /\ PoolFairness

(* The properties of Workers, for each pool.                                *)

\* Two threads never run a worker at the same time; Worker::current is set
\* exactly while a thread processes an event.
WorkersOwned == \A k \in Kinds : part = k => Pool(k)!WorkersOwned

\* A worker with events is queued or about to be looked at, and threads sleep
\* only when there is nothing to do and someone will wake them.
NothingStranded == \A k \in Kinds : part = k => Pool(k)!NothingStranded

\* finish() waits until nothing runs, and a worker that is queued, held by a
\* thread or being answered is not collected.
LifetimesKept == \A k \in Kinds : part = k => Pool(k)!LifetimesKept

\* terminate() stops a script, even one that loops; terminateAll before
\* finish() shuts down without waiting for all messages.
PoolProgress ==
  /\ (part = "ends" /\ terminateFlag[w1] /\ current[w1]) ~> ~current[w1]
  /\ (part = "ends" /\ finishing /\ terminating) ~> (poolMainPc = "finished")
=============================================================================
