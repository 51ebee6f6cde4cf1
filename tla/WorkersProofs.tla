---------------------------- MODULE WorkersProofs ----------------------------
(***************************************************************************)
(* The safety properties of Workers, for every set of workers and threads,  *)
(* every bound on the queues, with or without a collector, a watchdog and    *)
(* allocations that fail.  IndInv is the inductive invariant.               *)
(***************************************************************************)
EXTENDS Workers, TLAPS

-----------------------------------------------------------------------------
(* The inductive invariant.                                                 *)

\* A worker waits in a queue; it waits there once.
Queued(q, w) == w \in Elements(q)
Distinct(q) == \A i, j \in 1..Len(q) : q[i] = q[j] => i = j

\* A thread holds a worker and can still look at its events.
Holds(t, w) == pc[t] \in Holding \ {"drop"} /\ mine[t] = w

\* What a thread knows of the worker it holds.
ThreadInv ==
  /\ \A t \in Threads : pc[t] \in Holding => mine[t] \in Workers
  /\ \A t \in Threads :
       pc[t] = "start" => pending[mine[t]] > 0 /\ ~current[mine[t]]
  /\ \A t \in Threads : pc[t] \in Processing => current[mine[t]]
  /\ \A w \in Workers : current[w] => \E t \in Threads : Holds(t, w)

\* A worker belongs to one thread, or waits in the queue once.
OwnedOnce ==
  /\ \A t, u \in Threads, w \in Workers : Holds(t, w) /\ Holds(u, w) => t = u
  /\ \A t \in Threads, w \in Workers : Holds(t, w) => ~Queued(wqQueue, w)
  /\ Distinct(wqQueue)

\* The queue of workers: those in it have events and run none.
QueueInv ==
  /\ \A w \in Workers : Queued(wqQueue, w) => pending[w] > 0 /\ ~current[w]
  /\ \A w \in Workers : terminated[w] => pending[w] = 0
  /\ wqClosed => wqQueue = << >> /\ waiting = {} /\ mainPc \in {"join", "undefined"}
  /\ mainPc = "join" => wqClosed
  /\ waiting # {} => wqQueue = << >>

\* The main thread's place.
MainInv ==
  /\ mainPc \in {"create", "post", "createFailed", "traceMain", "traceWorkers",
                 "sweep", "take", "close", "join"} => mq
  /\ mainPc \in {"take", "finished"} => finishing
  /\ finishing /\ mainPc \in {"js", "quit"} => mq
  /\ ~finishing \/ mainPc \in {"take", "close", "join", "finished"} =>
       mainCurrent = NoWorker
  /\ mainPc \in {"create", "post", "createFailed"} => creating \in Workers
  /\ ~mq => mqQueue = << >> /\ wqQueue = << >> /\ \A t \in Threads : pc[t] = "off"

\* The main thread sleeps while a thread will wake it.
WaitInv ==
  mainWaits =>
    /\ mainPc \in {"take", "undefined"} /\ mqQueue = << >>
    /\ \/ wqQueue # << >>
       \/ \E t \in Threads : pc[t] \in Holding \cup {"wake"}

\* A worker that is being created is known to nobody else.
CreateInv ==
  mainPc # "undefined" =>
  /\ \A w \in Workers : life[w] = "initializing" => mainPc = "create" /\ w = creating
  /\ mainPc = "create" => life[creating] = "initializing"
  /\ mainPc \in {"post", "createFailed"} =>
       /\ life[creating] = "live" /\ ~Queued(wqQueue, creating)
       /\ ~terminated[creating] /\ creating \notin refs /\ mainCurrent # creating
       /\ mainPc = "post" => pending[creating] = 0
       /\ \A t \in Threads : pc[t] \in Holding => mine[t] # creating
  /\ \A w \in Workers : life[w] \in {"none", "initializing"} => ~terminated[w]

\* A worker that is used is live, and a live one is a child of the main queue.
LifeInv ==
  mainPc # "undefined" =>
  /\ \A w \in Workers : life[w] # "live" => pending[w] = 0
  /\ \A w \in Workers : life[w] \in {"initializing", "live"} => w \in children /\ mq
  /\ \A w \in Workers : Queued(wqQueue, w) \/ w = mainCurrent => life[w] = "live"
  /\ \A t \in Threads : pc[t] \in Holding => life[mine[t]] = "live"
  /\ mainPc # "finished" => \A w \in refs : life[w] = "live"

\* What the collection in progress has marked.
MarkInv ==
  /\ mainPc \in {"traceMain", "traceWorkers", "sweep"} => refs \subseteq marked
  /\ mainPc \in {"traceWorkers", "sweep"} => \A w \in Workers : w = mainCurrent => w \in marked
  /\ mainPc = "sweep" =>
       /\ \A w \in Workers : Queued(wqQueue, w) => w \in marked
       /\ \A t \in Threads : pc[t] \in Holding => mine[t] \in marked

\* Nothing is left to do once the main thread closes the queue.
EndInv ==
  mainPc \in {"close", "join"} =>
    /\ wqQueue = << >> /\ mqQueue = << >>
    /\ \A t \in Threads : pc[t] \notin Holding
    /\ ~MallocFails => \A w \in Workers : pending[w] = 0
    /\ ~finishing => \A w \in Workers : life[w] # "live"

\* A worker with events is queued or held, if no allocation fails.
StrandInv ==
  ~MallocFails => \A w \in Workers :
    life[w] = "live" /\ pending[w] > 0 /\ ~current[w] /\ ~wqClosed =>
      Queued(wqQueue, w) \/ \E t \in Threads : Holds(t, w)

IndInv ==
  /\ TypeOK /\ ThreadInv /\ OwnedOnce /\ QueueInv /\ MainInv /\ WaitInv
  /\ CreateInv /\ LifeInv /\ MarkInv /\ EndInv /\ StrandInv

-----------------------------------------------------------------------------
(* The queues.                                                              *)

\* What an append, a tail and an empty queue hold.
LEMMA AppendQueue ==
  ASSUME NEW S, NEW q \in Seq(S), NEW w \in S
  PROVE  /\ Append(q, w) \in Seq(S) /\ Append(q, w) # << >>
         /\ \A v : Queued(Append(q, w), v) <=> Queued(q, v) \/ v = w
         /\ Distinct(q) /\ ~Queued(q, w) => Distinct(Append(q, w))
<1>1. /\ Append(q, w) \in Seq(S) /\ Append(q, w) # << >>
      /\ Len(Append(q, w)) = Len(q) + 1 /\ Len(q) \in Nat
      /\ \A i \in 1..Len(q) : Append(q, w)[i] = q[i]
      /\ Append(q, w)[Len(q) + 1] = w
  OBVIOUS
<1>2. ASSUME NEW v
      PROVE  Queued(Append(q, w), v) <=> Queued(q, v) \/ v = w
  <2>1. Queued(Append(q, w), v) <=> \E i \in 1..(Len(q) + 1) : Append(q, w)[i] = v
    BY <1>1, Zenon DEF Queued, Elements
  <2>2. Queued(q, v) <=> \E i \in 1..Len(q) : q[i] = v
    BY Zenon DEF Queued, Elements
  <2>3. \A i : i \in 1..(Len(q) + 1) <=> i \in 1..Len(q) \/ i = Len(q) + 1
    BY <1>1
  <2> QED
    BY <1>1, <2>1, <2>2, <2>3, Zenon
<1>3. ASSUME Distinct(q), ~Queued(q, w)
      PROVE  Distinct(Append(q, w))
  <2>1. \A i \in 1..Len(q) : q[i] # w
    BY <1>3 DEF Queued, Elements
  <2> QED
    BY <1>1, <1>3, <2>1 DEF Distinct
<1> QED
  BY <1>1, <1>2, <1>3

\* The first of a queue, and the rest of it.
LEMMA TailQueue ==
  ASSUME NEW S, NEW q \in Seq(S), q # << >>, Distinct(q)
  PROVE  /\ Head(q) \in S /\ Tail(q) \in Seq(S) /\ Distinct(Tail(q))
         /\ \A v : Queued(q, v) <=> Queued(Tail(q), v) \/ v = Head(q)
         /\ ~Queued(Tail(q), Head(q))
<1>1. /\ Head(q) \in S /\ Tail(q) \in Seq(S) /\ Head(q) = q[1]
      /\ Len(q) \in Nat \ {0} /\ Len(Tail(q)) = Len(q) - 1
      /\ \A i \in 1..(Len(q) - 1) : Tail(q)[i] = q[i + 1]
  OBVIOUS
<1>2. ASSUME NEW v
      PROVE  Queued(q, v) <=> Queued(Tail(q), v) \/ v = Head(q)
  <2>1. Queued(Tail(q), v) <=> \E i \in 1..(Len(q) - 1) : Tail(q)[i] = v
    BY <1>1, Zenon DEF Queued, Elements
  <2>2. Queued(q, v) <=> \E i \in 1..Len(q) : q[i] = v
    BY Zenon DEF Queued, Elements
  <2>3. \A i \in 1..Len(q) : i = 1 \/ (i - 1 \in 1..(Len(q) - 1) /\ (i - 1) + 1 = i)
    BY <1>1
  <2>4. \A i \in 1..(Len(q) - 1) : i + 1 \in 1..Len(q)
    BY <1>1
  <2>5. 1 \in 1..Len(q)
    BY <1>1
  <2>6. Queued(q, v) => Queued(Tail(q), v) \/ v = Head(q)
    <3> SUFFICES ASSUME NEW i \in 1..Len(q), q[i] = v, i # 1
                 PROVE  Queued(Tail(q), v)
      BY <1>1, <2>2
    <3>1. i - 1 \in 1..(Len(q) - 1) /\ Tail(q)[i - 1] = q[i]
      BY <1>1, <2>3
    <3> QED
      BY <2>1, <3>1
  <2> QED
    BY <1>1, <2>1, <2>2, <2>4, <2>5, <2>6
<1>3. Distinct(Tail(q)) /\ ~Queued(Tail(q), Head(q))
  <2>1. \A i \in 1..(Len(q) - 1) : i + 1 \in 1..Len(q) /\ i + 1 # 1
    BY <1>1
  <2>2. \A i, j \in 1..(Len(q) - 1) : i + 1 = j + 1 => i = j
    BY <1>1
  <2>3. ~Queued(Tail(q), Head(q))
    <3> SUFFICES ASSUME NEW i \in 1..(Len(q) - 1), Tail(q)[i] = Head(q)
                 PROVE  FALSE
      BY <1>1, Zenon DEF Queued, Elements
    <3> QED
      BY <1>1, <2>1 DEF Distinct
  <2> QED
    BY <1>1, <2>1, <2>2, <2>3 DEF Distinct
<1> QED
  BY <1>1, <1>2, <1>3

\* Nothing waits in an empty queue.
LEMMA EmptyQueue ==
  /\ Distinct(<< >>)
  /\ \A v : ~Queued(<< >>, v)
  /\ \A S : << >> \in Seq(S)
<1> QED
  BY DEF Distinct, Queued, Elements

\* A queue that is not empty has a worker in it.
LEMMA SomeQueued ==
  ASSUME NEW S, NEW q \in Seq(S), \A v \in S : ~Queued(q, v)
  PROVE  q = << >>
<1>1. q # << >> => q[1] \in S /\ Len(q) \in Nat \ {0}
  OBVIOUS
<1>2. q # << >> => Queued(q, q[1])
  BY <1>1 DEF Queued, Elements
<1> QED
  BY <1>1, <1>2

-----------------------------------------------------------------------------
(* What the shared operations do.                                           *)

USE DEF Lives, Pcs, Holding, Processing, MainPcs

\* ThreadSafeQueue::post of the worker queue: the worker waits in it, and the
\* threads that slept are woken.
LEMMA PostWorkerQueue ==
  ASSUME TypeOK, QueueInv, NEW w \in Workers, PostWorker(w)
  PROVE  /\ wqQueue' \in Seq(Workers) /\ wqQueue' # << >> /\ waiting' = {}
         /\ \A v : Queued(wqQueue', v) <=> Queued(wqQueue, v) \/ v = w
         /\ Distinct(wqQueue) /\ ~Queued(wqQueue, w) => Distinct(wqQueue')
<1>1. wqQueue \in Seq(Workers) /\ wqQueue' = Append(wqQueue, w)
  BY DEF TypeOK, PostWorker
<1>2. waiting' = {}
  BY DEF QueueInv, PostWorker
<1> QED
  BY <1>1, <1>2, AppendQueue

\* ThreadSafeQueue::post of the main queue wakes the main thread.
LEMMA PostMainQueue ==
  ASSUME TypeOK, WaitInv, NEW w \in Workers, PostMain(w)
  PROVE  mqQueue' \in Seq(Workers) /\ mqQueue' # << >> /\ mainWaits' = FALSE
<1>1. mqQueue \in Seq(Workers) /\ mqQueue' = Append(mqQueue, w) /\ mainWaits \in BOOLEAN
  BY DEF TypeOK, PostMain
<1>2. mainWaits' = FALSE
  BY <1>1 DEF WaitInv, PostMain
<1> QED
  BY <1>1, <1>2, AppendQueue

\* A thread in take() ends, waits, or holds what was the first of the queue.
LEMMA TakeQueue ==
  ASSUME TypeOK, QueueInv, OwnedOnce, NEW t \in Threads, Take(t)
  PROVE  /\ wqQueue' \in Seq(Workers) /\ Distinct(wqQueue')
         /\ waiting' \in SUBSET Threads
         /\ pc' \in [Threads -> Pcs] /\ mine' \in [Threads -> Workers \cup {NoWorker}]
         /\ \A u \in Threads : u # t => pc'[u] = pc[u] /\ mine'[u] = mine[u]
         /\ \/ /\ pc'[t] = "exit" /\ wqClosed /\ waiting' = waiting
               /\ wqQueue = << >> /\ wqQueue' = << >>
            \/ /\ pc'[t] = "take" /\ ~wqClosed
               /\ wqQueue = << >> /\ wqQueue' = << >>
            \/ /\ pc'[t] = "start" /\ mine'[t] \in Workers /\ wqQueue # << >>
               /\ waiting' = waiting
               /\ Queued(wqQueue, mine'[t]) /\ ~Queued(wqQueue', mine'[t])
               /\ \A v : v # mine'[t] => (Queued(wqQueue', v) <=> Queued(wqQueue, v))
<1> USE DEF TypeOK
<1>1. CASE wqQueue = << >>
  BY <1>1 DEF Take, OwnedOnce
<1>2. CASE wqQueue # << >>
  <2>1. /\ Head(wqQueue) \in Workers /\ Tail(wqQueue) \in Seq(Workers)
        /\ Distinct(Tail(wqQueue)) /\ ~Queued(Tail(wqQueue), Head(wqQueue))
        /\ \A v : Queued(wqQueue, v) <=> Queued(Tail(wqQueue), v) \/ v = Head(wqQueue)
    BY <1>2, TailQueue DEF OwnedOnce
  <2>2. /\ pc' = [pc EXCEPT ![t] = "start"]
        /\ mine' = [mine EXCEPT ![t] = Head(wqQueue)]
        /\ wqQueue' = Tail(wqQueue) /\ waiting' = waiting
    BY <1>2 DEF Take
  <2>3. mine'[t] = Head(wqQueue) /\ pc'[t] = "start"
    BY <2>2
  <2> QED
    BY <1>2, <2>1, <2>2, <2>3
<1> QED
  BY <1>1, <1>2

\* lockedIsIdle says that nothing is queued and no thread holds a worker.
LEMMA IdleQueue ==
  ASSUME NEW T \in SUBSET Threads
  PROVE  LockedIsIdle(wqQueue, {mine[u] : u \in {v \in T : pc[v] \in Holding}})
           <=> wqQueue = << >> /\ \A t \in T : pc[t] \notin Holding
<1> QED
  BY DEF LockedIsIdle

\* A worker keeps its events or, told to terminate, has none.
LEMMA CheckedTermination ==
  ASSUME TypeOK, NEW w \in Workers, NEW n \in Nat, CheckTermination(w, n)
  PROVE  /\ terminated' \in [Workers -> BOOLEAN] /\ terminateFlag' \in [Workers -> BOOLEAN]
         /\ pending' \in [Workers -> Nat]
         /\ \A v \in Workers :
              v # w => terminated'[v] = terminated[v] /\ pending'[v] = pending[v]
         /\ \/ terminated'[w] = terminated[w] /\ pending'[w] = n
            \/ terminated'[w] /\ pending'[w] = 0
<1> DEFINE stop == terminateFlag[w] \/ terminating
<1>1. /\ terminated' = [terminated EXCEPT ![w] = @ \/ stop]
      /\ terminateFlag' = [terminateFlag EXCEPT ![w] = FALSE]
      /\ pending' = [pending EXCEPT ![w] = IF stop THEN 0 ELSE n]
  BY Zenon DEF CheckTermination
<1>2. /\ terminated \in [Workers -> BOOLEAN] /\ terminateFlag \in [Workers -> BOOLEAN]
      /\ pending \in [Workers -> Nat] /\ stop \in BOOLEAN
  BY DEF TypeOK
<1>3. CASE stop
  <2>1. terminated' = [terminated EXCEPT ![w] = TRUE]
    BY <1>1, <1>2, <1>3
  <2> QED
    BY <1>1, <1>2, <1>3, <2>1
<1>4. CASE ~stop
  <2>1. terminated'[w] = terminated[w]
    BY <1>1, <1>2, <1>4
  <2> QED
    BY <1>1, <1>2, <1>4, <2>1
<1> QED
  BY <1>3, <1>4

\* A thread goes on with the worker whose event it processes.
GoesOn(t) ==
  /\ pc[t] \in Processing /\ pc'[t] \in Processing
  /\ pc' \in [Threads -> Pcs] /\ UNCHANGED mine
  /\ \A u \in Threads : u # t => pc'[u] = pc[u]

\* It keeps the worker, and no other thread notices.
LEMMA GoesOnWithWorker ==
  ASSUME ThreadInv, OwnedOnce, NEW t \in Threads, GoesOn(t),
         UNCHANGED <<current, wqQueue>>,
         \A w \in Workers : w # mine[t] => pending'[w] = pending[w]
  PROVE  /\ ThreadInv' /\ OwnedOnce'
         /\ mine[t] \in Workers /\ Holds(t, mine[t]) /\ current[mine[t]]
         /\ \A u \in Threads : pc'[u] \in Holding <=> pc[u] \in Holding
         /\ \A u \in Threads, w \in Workers : Holds(u, w)' <=> Holds(u, w)
<1> USE DEF GoesOn
<1>1. /\ mine[t] \in Workers /\ Holds(t, mine[t]) /\ current[mine[t]]
      /\ \A u \in Threads : pc'[u] \in Holding <=> pc[u] \in Holding
  BY DEF ThreadInv, Holds
<1>2. \A u \in Threads, w \in Workers : Holds(u, w)' <=> Holds(u, w)
  BY DEF Holds
<1>3. OwnedOnce'
  BY <1>2 DEF OwnedOnce
<1>4. ASSUME NEW u \in Threads, pc'[u] = "start"
      PROVE  pending'[mine'[u]] > 0 /\ ~current'[mine'[u]]
  <2>1. u # t /\ pc[u] = "start"
    BY <1>4
  <2>2. mine[u] \in Workers /\ mine[u] # mine[t]
    BY <1>1, <2>1 DEF ThreadInv
  <2> QED
    BY <2>1, <2>2 DEF ThreadInv
<1>5. ThreadInv'
  BY <1>1, <1>2, <1>4 DEF ThreadInv
<1> QED
  BY <1>1, <1>2, <1>3, <1>5

\* The main thread in take() and shouldStop(): it closes the queue when nobody
\* is busy, waits when somebody is, or handles the next event.
LEMMA MainTakeQueue ==
  ASSUME TypeOK, MainTake
  PROVE  \/ /\ mqQueue = << >> /\ UNCHANGED <<mqQueue, refs>> /\ mainCurrent' = NoWorker
            /\ \/ /\ mainPc' = "close" /\ UNCHANGED mainWaits
                  /\ wqQueue = << >> /\ \A t \in Threads : pc[t] \notin Holding
               \/ /\ mainPc' = "take" /\ mainWaits' = TRUE
                  /\ wqQueue # << >> \/ \E t \in Threads : pc[t] \in Holding
         \/ /\ mqQueue # << >> /\ mqQueue' \in Seq(Workers) /\ mainCurrent' \in Workers
            /\ refs' = refs \cup {mainCurrent'} /\ UNCHANGED mainWaits
            /\ \/ mainPc' = "js" /\ life[mainCurrent'] = "live"
               \/ mainPc' = "undefined"
<1>1. CASE mqQueue = << >>
  <2>1. LockedIsIdle(wqQueue, {mine[u] : u \in {v \in Threads : pc[v] \in Holding}})
          <=> wqQueue = << >> /\ \A t \in Threads : pc[t] \notin Holding
    BY IdleQueue
  <2>2. LockedIsIdle(wqQueue, Busy)
          <=> wqQueue = << >> /\ \A t \in Threads : pc[t] \notin Holding
    BY <2>1 DEF Busy
  <2> QED
    BY <1>1, <2>2 DEF MainTake
<1>2. CASE mqQueue # << >>
  <2>1. mqQueue \in Seq(Workers)
    BY DEF TypeOK
  <2>2. Head(mqQueue) \in Workers /\ Tail(mqQueue) \in Seq(Workers)
    BY <1>2, <2>1
  <2>3. /\ mainCurrent' = Head(mqQueue) /\ mqQueue' = Tail(mqQueue)
        /\ refs' = refs \cup {Head(mqQueue)} /\ UNCHANGED mainWaits
        /\ mainPc' = IF life[Head(mqQueue)] = "live" THEN "js" ELSE "undefined"
    BY <1>2, Zenon DEF MainTake
  <2>4. refs' = refs \cup {mainCurrent'} /\ mqQueue' \in Seq(Workers)
        /\ mainCurrent' \in Workers
    BY <2>2, <2>3, Zenon
  <2>5. \/ mainPc' = "js" /\ life[mainCurrent'] = "live"
        \/ mainPc' = "undefined"
    BY <2>3, Zenon
  <2> QED
    BY <1>2, <2>3, <2>4, <2>5
<1> QED
  BY <1>1, <1>2

\* What trace() visits of a queue are the workers that wait in it.
LEMMA ElementsQueued ==
  ASSUME NEW S, NEW q \in Seq(S)
  PROVE  Elements(q) \subseteq S /\ \A v : v \in Elements(q) <=> Queued(q, v)
<1> QED
  BY DEF Elements, Queued

-----------------------------------------------------------------------------
(* One lemma per action: it preserves the invariant.                        *)

\* WorkTake: WorkerQueue::work.
LEMMA WorkTakeInv ==
  ASSUME IndInv, NEW t \in Threads, WorkTake(t)
  PROVE  IndInv'
<1> USE DEF IndInv, WorkTake, mqVars, wqVars, stopVars, workerVars,
    threadVars, jsVars, dogVars
<1>a. /\ wqQueue' \in Seq(Workers) /\ Distinct(wqQueue') /\ waiting' \in SUBSET Threads
      /\ pc' \in [Threads -> Pcs] /\ mine' \in [Threads -> Workers \cup {NoWorker}]
      /\ \A u \in Threads : u # t => pc'[u] = pc[u] /\ mine'[u] = mine[u]
      /\ \/ /\ pc'[t] = "exit" /\ wqClosed /\ waiting' = waiting
            /\ wqQueue = << >> /\ wqQueue' = << >>
         \/ /\ pc'[t] = "take" /\ ~wqClosed
            /\ wqQueue = << >> /\ wqQueue' = << >>
         \/ /\ pc'[t] = "start" /\ mine'[t] \in Workers /\ wqQueue # << >>
            /\ waiting' = waiting
            /\ Queued(wqQueue, mine'[t]) /\ ~Queued(wqQueue', mine'[t])
            /\ \A v : v # mine'[t] => (Queued(wqQueue', v) <=> Queued(wqQueue, v))
  BY TakeQueue
<1>b. /\ pc[t] = "take"
      /\ UNCHANGED <<mqVars, wqClosed, workerVars, loops, jsVars, dogVars, terminating,
                     mainPc>>
  OBVIOUS
<1>w. mainWaits => wqQueue # << >> \/ \E u \in Threads : u # t /\ pc[u] \in Holding \cup {"wake"}
  BY <1>b DEF WaitInv
<1>q. \A v \in Workers : Queued(wqQueue', v) <=>
        Queued(wqQueue, v) /\ ~(pc'[t] = "start" /\ v = mine'[t])
  BY <1>a, EmptyQueue
<1>h. /\ \A u \in Threads, v \in Workers :
           Holds(u, v)' <=> Holds(u, v) \/ (u = t /\ pc'[t] = "start" /\ v = mine'[t])
      /\ \A v \in Workers : ~Holds(t, v)
  BY <1>a, <1>b DEF Holds
<1>p. pc'[t] = "start" => /\ pending[mine'[t]] > 0 /\ ~current[mine'[t]]
                          /\ \A u \in Threads : ~Holds(u, mine'[t])
                          /\ mainPc # "undefined" => life[mine'[t]] = "live"
  BY <1>a DEF QueueInv, OwnedOnce, LifeInv
<1>1. TypeOK'
  BY <1>a, <1>b DEF TypeOK
<1>2. ThreadInv'
  <2>1. \A v \in Workers : current'[v] => \E u \in Threads : Holds(u, v)'
    BY <1>b, <1>h DEF ThreadInv
  <2> QED
    BY <1>a, <1>b, <1>p, <2>1 DEF ThreadInv
<1>3. OwnedOnce'
  <2>1. \A u, x \in Threads, v \in Workers : Holds(u, v)' /\ Holds(x, v)' => u = x
    BY <1>a, <1>h, <1>p DEF OwnedOnce
  <2>2. \A u \in Threads, v \in Workers : Holds(u, v)' => ~Queued(wqQueue', v)
    BY <1>a, <1>h, <1>q DEF OwnedOnce
  <2> QED
    BY <1>a, <2>1, <2>2 DEF OwnedOnce
<1>4. QueueInv'
  BY <1>a, <1>b, <1>q DEF QueueInv
<1>5. MainInv'
  BY <1>a, <1>b DEF MainInv
<1>6. WaitInv'
  BY <1>a, <1>b, <1>w DEF WaitInv
<1>7. CreateInv'
  BY <1>a, <1>b, <1>q, <1>p DEF CreateInv, MainInv
<1>8. LifeInv'
  BY <1>a, <1>b, <1>q, <1>p DEF LifeInv
<1>9. MarkInv'
  BY <1>a, <1>b, <1>q, <1>p DEF MarkInv
<1>10. EndInv'
  BY <1>a, <1>b, <1>w DEF EndInv
<1>11. StrandInv'
  BY <1>a, <1>b, <1>q, <1>h DEF StrandInv
<1> QED
  BY <1>1, <1>2, <1>3, <1>4, <1>5, <1>6, <1>7, <1>8, <1>9, <1>10, <1>11

\* StartEvent: Worker::processOneEvent.
LEMMA StartEventInv ==
  ASSUME WorkersAssumption, IndInv, NEW t \in Threads, StartEvent(t)
  PROVE  IndInv'
<1> USE DEF IndInv, StartEvent, mqVars, wqVars, stopVars, workerVars,
    threadVars, jsVars, dogVars
<1>a. /\ mine[t] \in Workers /\ pending[mine[t]] > 0 /\ ~current[mine[t]]
      /\ Holds(t, mine[t]) /\ pc[t] = "start" /\ UNCHANGED mine
  BY DEF ThreadInv, Holds
<1>c. /\ terminated' \in [Workers -> BOOLEAN] /\ terminateFlag' \in [Workers -> BOOLEAN]
      /\ pending' \in [Workers -> Nat]
      /\ \A v \in Workers : v # mine[t] =>
           terminated'[v] = terminated[v] /\ pending'[v] = pending[v]
      /\ \/ ~terminated'[mine[t]] /\ pending'[mine[t]] = pending[mine[t]] - 1
         \/ terminated'[mine[t]] /\ pending'[mine[t]] = 0
  <2>1. pending[mine[t]] \in Nat /\ pending[mine[t]] - 1 \in Nat
    BY <1>a DEF TypeOK
  <2>2. CheckTermination(mine[t], pending[mine[t]] - 1)
    BY <1>a
  <2>3. terminated[mine[t]] => pending[mine[t]] = 0
    <3>1. \A w \in Workers : terminated[w] => pending[w] = 0
      BY DEF QueueInv, TypeOK
    <3> QED
      BY <1>a, <3>1, Zenon
  <2> QED
    BY <1>a, <2>1, <2>2, <2>3, CheckedTermination DEF TypeOK
<1>d. /\ pc' \in [Threads -> Pcs] /\ current' \in [Workers -> BOOLEAN]
      /\ \A u \in Threads : u # t => pc'[u] = pc[u]
      /\ \A v \in Workers : v # mine[t] => current'[v] = current[v]
      /\ \/ pc'[t] = "drop" /\ ~current'[mine[t]] /\ terminated'[mine[t]]
         \/ pc'[t] = "run" /\ current'[mine[t]] /\ ~terminated'[mine[t]]
  <2>0. pending[mine[t]] # 0 /\ pc \in [Threads -> Pcs] /\ current \in [Workers -> BOOLEAN]
    BY <1>a DEF TypeOK
  <2>1. CASE terminated'[mine[t]]
    <3>1. pc' = [pc EXCEPT ![t] = "drop"] /\ current' = current
      BY <2>1, Zenon
    <3> QED
      BY <1>a, <2>0, <2>1, <3>1
  <2>2. CASE ~terminated'[mine[t]]
    <3>1. pc' = [pc EXCEPT ![t] = "run"] /\ current' = [current EXCEPT ![mine[t]] = TRUE]
      BY <2>0, <2>2, Zenon
    <3> QED
      BY <1>a, <2>0, <2>2, <3>1
  <2> QED
    BY <2>1, <2>2
<1>e. loops' \in [Threads -> BOOLEAN]
  <2>1. loops \in [Threads -> BOOLEAN] /\ ScriptsLoop \in BOOLEAN
    BY DEF TypeOK, WorkersAssumption
  <2>2. \/ loops' = loops
        \/ \E b \in {FALSE, ScriptsLoop} : loops' = [loops EXCEPT ![t] = b]
    BY Zenon
  <2>3. \A b \in {FALSE, ScriptsLoop} : b \in BOOLEAN
    BY <2>1
  <2> QED
    BY <2>1, <2>2, <2>3
<1>h. /\ \A u \in Threads, v \in Workers :
           Holds(u, v)' <=> Holds(u, v) /\ (u = t => pc'[t] = "run")
      /\ \A u \in Threads : pc'[u] \in Holding <=> pc[u] \in Holding
  BY <1>a, <1>d DEF Holds
<1>q. \A v \in Workers : Queued(wqQueue, v) => v # mine[t]
  BY <1>a DEF OwnedOnce
<1>o. \A u \in Threads : u # t /\ Holds(u, mine[u]) => mine[u] # mine[t]
  <2>1. \A u \in Threads : Holds(u, mine[u]) => mine[u] \in Workers
    BY DEF Holds, ThreadInv
  <2> QED
    BY <1>a, <2>1 DEF OwnedOnce, Holds
<1>1. TypeOK'
  BY <1>a, <1>c, <1>d, <1>e DEF TypeOK
<1>2. ThreadInv'
  <2>1. \A u \in Threads : u # t /\ pc[u] \in Holding \ {"drop"} => mine[u] # mine[t] /\ mine[u] \in Workers
    BY <1>o DEF Holds, ThreadInv
  <2>2. \A u \in Threads : pc'[u] = "start" => pending'[mine[u]] > 0 /\ ~current'[mine[u]]
    BY <1>a, <1>c, <1>d, <2>1 DEF ThreadInv
  <2>3. \A u \in Threads : pc'[u] \in Processing => current'[mine[u]]
    BY <1>a, <1>d, <2>1 DEF ThreadInv
  <2>4. ASSUME NEW v \in Workers, current'[v]
        PROVE  \E u \in Threads : Holds(u, v)'
    <3>1. CASE v = mine[t]
      BY <1>a, <1>d, <1>h, <2>4, <3>1
    <3>2. CASE v # mine[t]
      <4>1. PICK u \in Threads : Holds(u, v)
        BY <1>d, <2>4, <3>2 DEF ThreadInv
      <4> QED
        BY <1>h, <3>2, <4>1 DEF Holds
    <3> QED
      BY <3>1, <3>2
  <2> QED
    BY <1>a, <1>h, <2>2, <2>3, <2>4 DEF ThreadInv
<1>3. OwnedOnce'
  BY <1>h DEF OwnedOnce
<1>4. QueueInv'
  <2>1. \A w \in Workers : Queued(wqQueue, w) => pending'[w] > 0 /\ ~current'[w]
    BY <1>c, <1>d, <1>q DEF QueueInv
  <2>2. \A w \in Workers : terminated'[w] => pending'[w] = 0
    BY <1>c DEF QueueInv
  <2> QED
    BY <2>1, <2>2 DEF QueueInv
<1>5. MainInv'
  BY <1>a, <1>h DEF MainInv
<1>6. WaitInv'
  BY <1>a, <1>h DEF WaitInv
<1>7. CreateInv'
  <2>1. mainPc # "undefined" => life[mine[t]] = "live" /\ (mainPc \in {"post", "createFailed"} => mine[t] # creating)
    BY <1>a DEF LifeInv, CreateInv
  <2> QED
    BY <1>a, <1>c, <1>h, <2>1 DEF CreateInv, MainInv
<1>8. LifeInv'
  BY <1>a, <1>c, <1>h DEF LifeInv
<1>9. MarkInv'
  BY <1>a, <1>h DEF MarkInv
<1>10. EndInv'
  BY <1>a, <1>h, <1>d DEF EndInv
<1>11. StrandInv'
  <2> SUFFICES ASSUME ~MallocFails, NEW v \in Workers, life[v] = "live", pending'[v] > 0,
                      ~current'[v], ~wqClosed
               PROVE  Queued(wqQueue, v) \/ \E u \in Threads : Holds(u, v)'
    BY DEF StrandInv
  <2>1. v # mine[t]
    BY <1>c, <1>d
  <2>2. Queued(wqQueue, v) \/ \E u \in Threads : Holds(u, v)
    BY <1>c, <1>d, <2>1 DEF StrandInv
  <2> QED
    BY <1>h, <2>1, <2>2 DEF Holds
<1> QED
  BY <1>1, <1>2, <1>3, <1>4, <1>5, <1>6, <1>7, <1>8, <1>9, <1>10, <1>11

\* ScriptEnds: InitEvent::process, DownMessageEvent::process.
LEMMA ScriptEndsInv ==
  ASSUME IndInv, NEW t \in Threads, ScriptEnds(t)
  PROVE  IndInv'
<1> USE DEF IndInv, ScriptEnds, mqVars, wqVars, stopVars, workerVars,
    threadVars, jsVars, dogVars
<1>g. GoesOn(t) /\ mine[t] \in Workers
  BY DEF TypeOK, ThreadInv, GoesOn
<1>h. /\ ThreadInv' /\ OwnedOnce' /\ Holds(t, mine[t]) /\ current[mine[t]]
      /\ \A u \in Threads : pc'[u] \in Holding <=> pc[u] \in Holding
      /\ \A u \in Threads, w \in Workers : Holds(u, w)' <=> Holds(u, w)
  BY <1>g, GoesOnWithWorker
<1>1. TypeOK'
  BY <1>g, <1>h DEF TypeOK, GoesOn
<1>2. ThreadInv'
  BY <1>h
<1>3. OwnedOnce'
  BY <1>h
<1>4. QueueInv'
  BY <1>g, <1>h DEF TypeOK, OwnedOnce, QueueInv
<1>5. MainInv'
  BY <1>g, <1>h DEF MainInv
<1>6. WaitInv'
  BY <1>g, <1>h DEF WaitInv
<1>7. CreateInv'
  BY <1>g, <1>h DEF CreateInv
<1>8. LifeInv'
  BY <1>g, <1>h DEF LifeInv
<1>9. MarkInv'
  BY <1>g, <1>h DEF MarkInv
<1>10. EndInv'
  BY <1>g, <1>h DEF EndInv
<1>11. StrandInv'
  BY <1>g, <1>h DEF TypeOK, StrandInv, OwnedOnce
<1> QED
  BY <1>1, <1>2, <1>3, <1>4, <1>5, <1>6, <1>7, <1>8, <1>9, <1>10, <1>11

\* OperationCallback: Worker::jsOperationCallback.
LEMMA OperationCallbackInv ==
  ASSUME IndInv, NEW t \in Threads, OperationCallback(t)
  PROVE  IndInv'
<1> USE DEF IndInv, OperationCallback, mqVars, wqVars, stopVars, workerVars,
    threadVars, jsVars, dogVars
<1>g. GoesOn(t) /\ mine[t] \in Workers
  BY DEF TypeOK, ThreadInv, GoesOn
<1>c. /\ terminated' \in [Workers -> BOOLEAN] /\ terminateFlag' \in [Workers -> BOOLEAN]
      /\ pending' \in [Workers -> Nat]
      /\ \A v \in Workers : v # mine[t] =>
           terminated'[v] = terminated[v] /\ pending'[v] = pending[v]
      /\ \/ terminated'[mine[t]] = terminated[mine[t]] /\ pending'[mine[t]] = pending[mine[t]]
         \/ terminated'[mine[t]] /\ pending'[mine[t]] = 0
  <2>1. pending[mine[t]] \in Nat
    BY <1>g DEF TypeOK
  <2>2. CheckTermination(mine[t], pending[mine[t]])
    OBVIOUS
  <2> QED
    BY <1>g, <2>1, <2>2, CheckedTermination
<1>h. /\ ThreadInv' /\ OwnedOnce' /\ Holds(t, mine[t]) /\ current[mine[t]]
      /\ \A u \in Threads : pc'[u] \in Holding <=> pc[u] \in Holding
      /\ \A u \in Threads, w \in Workers : Holds(u, w)' <=> Holds(u, w)
  BY <1>g, <1>c, GoesOnWithWorker
<1>1. TypeOK'
  <2>1. interrupt' \in [Workers -> BOOLEAN]
    BY <1>g DEF TypeOK
  <2> QED
    BY <1>g, <1>c, <2>1 DEF TypeOK, GoesOn
<1>2. ThreadInv'
  BY <1>h
<1>3. OwnedOnce'
  BY <1>h
<1>4. QueueInv'
  <2>1. \A w \in Workers : Queued(wqQueue, w) => w # mine[t]
    BY <1>h, <1>g DEF OwnedOnce
  <2>2. \A w \in Workers : terminated'[w] => pending'[w] = 0
    BY <1>g, <1>c, <1>h DEF QueueInv
  <2>3. \A w \in Workers : Queued(wqQueue, w) => pending'[w] > 0 /\ ~current[w]
    BY <1>g, <1>c, <1>h, <2>1 DEF QueueInv
  <2> QED
    BY <2>2, <2>3 DEF QueueInv
<1>5. MainInv'
  BY <1>g, <1>c, <1>h DEF MainInv
<1>6. WaitInv'
  BY <1>g, <1>c, <1>h DEF WaitInv
<1>7. CreateInv'
  BY <1>g, <1>c, <1>h DEF TypeOK, CreateInv, LifeInv, MainInv, ThreadInv
<1>8. LifeInv'
  BY <1>g, <1>c, <1>h DEF LifeInv
<1>9. MarkInv'
  BY <1>g, <1>c, <1>h DEF MarkInv
<1>10. EndInv'
  BY <1>g, <1>c, <1>h DEF EndInv
<1>11. StrandInv'
  BY <1>g, <1>c, <1>h DEF TypeOK, StrandInv, OwnedOnce
<1> QED
  BY <1>1, <1>2, <1>3, <1>4, <1>5, <1>6, <1>7, <1>8, <1>9, <1>10, <1>11

\* PostMessageToParent: Worker::jsPostMessageToParent.
LEMMA PostMessageToParentInv ==
  ASSUME IndInv, NEW t \in Threads, PostMessageToParent(t)
  PROVE  IndInv'
<1> USE DEF IndInv, PostMessageToParent, mqVars, wqVars, stopVars, workerVars,
    threadVars, jsVars, dogVars
<1>g. GoesOn(t) /\ mine[t] \in Workers
  BY DEF TypeOK, ThreadInv, GoesOn
<1>c. /\ terminated' \in [Workers -> BOOLEAN] /\ terminateFlag' \in [Workers -> BOOLEAN]
      /\ pending' \in [Workers -> Nat]
      /\ \A v \in Workers : v # mine[t] =>
           terminated'[v] = terminated[v] /\ pending'[v] = pending[v]
      /\ \/ terminated'[mine[t]] = terminated[mine[t]] /\ pending'[mine[t]] = pending[mine[t]]
         \/ terminated'[mine[t]] /\ pending'[mine[t]] = 0
  <2>1. pending[mine[t]] \in Nat
    BY <1>g DEF TypeOK
  <2>2. CheckTermination(mine[t], pending[mine[t]])
    OBVIOUS
  <2> QED
    BY <1>g, <2>1, <2>2, CheckedTermination
<1>h. /\ ThreadInv' /\ OwnedOnce' /\ Holds(t, mine[t]) /\ current[mine[t]]
      /\ \A u \in Threads : pc'[u] \in Holding <=> pc[u] \in Holding
      /\ \A u \in Threads, w \in Workers : Holds(u, w)' <=> Holds(u, w)
  BY <1>g, <1>c, GoesOnWithWorker
<1>1. TypeOK'
  BY <1>g, <1>c, <1>h DEF TypeOK, GoesOn
<1>2. ThreadInv'
  BY <1>h
<1>3. OwnedOnce'
  BY <1>h
<1>4. QueueInv'
  <2>1. \A w \in Workers : Queued(wqQueue, w) => w # mine[t]
    BY <1>h, <1>g DEF OwnedOnce
  <2>2. \A w \in Workers : terminated'[w] => pending'[w] = 0
    BY <1>g, <1>c, <1>h DEF QueueInv
  <2>3. \A w \in Workers : Queued(wqQueue, w) => pending'[w] > 0 /\ ~current[w]
    BY <1>g, <1>c, <1>h, <2>1 DEF QueueInv
  <2> QED
    BY <2>2, <2>3 DEF QueueInv
<1>5. MainInv'
  BY <1>g, <1>c, <1>h DEF MainInv
<1>6. WaitInv'
  BY <1>g, <1>c, <1>h DEF WaitInv
<1>7. CreateInv'
  BY <1>g, <1>c, <1>h DEF TypeOK, CreateInv, LifeInv, MainInv, ThreadInv
<1>8. LifeInv'
  BY <1>g, <1>c, <1>h DEF LifeInv
<1>9. MarkInv'
  BY <1>g, <1>c, <1>h DEF MarkInv
<1>10. EndInv'
  BY <1>g, <1>c, <1>h DEF EndInv
<1>11. StrandInv'
  BY <1>g, <1>c, <1>h DEF TypeOK, StrandInv, OwnedOnce
<1> QED
  BY <1>1, <1>2, <1>3, <1>4, <1>5, <1>6, <1>7, <1>8, <1>9, <1>10, <1>11

\* PostUpMessage: Worker::jsPostMessageToParent.
LEMMA PostUpMessageInv ==
  ASSUME IndInv, NEW t \in Threads, PostUpMessage(t)
  PROVE  IndInv'
<1> USE DEF IndInv, PostUpMessage, mqVars, wqVars, stopVars, workerVars,
    threadVars, jsVars, dogVars
<1>g. GoesOn(t) /\ mine[t] \in Workers
  BY DEF TypeOK, ThreadInv, GoesOn
<1>h. /\ ThreadInv' /\ OwnedOnce' /\ Holds(t, mine[t]) /\ current[mine[t]]
      /\ \A u \in Threads : pc'[u] \in Holding <=> pc[u] \in Holding
      /\ \A u \in Threads, w \in Workers : Holds(u, w)' <=> Holds(u, w)
  BY <1>g, GoesOnWithWorker
<1>m. /\ mqQueue' \in Seq(Workers) /\ mainWaits' \in BOOLEAN
      /\ mainWaits' => mqQueue' = mqQueue /\ mainWaits
  <2>1. CASE PostMain(mine[t])
    BY <1>g, <2>1, PostMainQueue
  <2>2. CASE UNCHANGED <<mqQueue, mainWaits>>
    BY <2>2 DEF TypeOK
  <2> QED
    BY <2>1, <2>2
<1>1. TypeOK'
  BY <1>g, <1>h, <1>m DEF TypeOK, GoesOn
<1>2. ThreadInv'
  BY <1>h
<1>3. OwnedOnce'
  BY <1>h
<1>4. QueueInv'
  BY <1>g, <1>h, <1>m DEF TypeOK, OwnedOnce, QueueInv
<1>5. MainInv'
  BY <1>g DEF GoesOn, MainInv
<1>6. WaitInv'
  BY <1>g, <1>m, <1>h DEF WaitInv, MainInv
<1>7. CreateInv'
  BY <1>g, <1>h, <1>m DEF CreateInv
<1>8. LifeInv'
  BY <1>g, <1>h, <1>m DEF LifeInv
<1>9. MarkInv'
  BY <1>g, <1>h, <1>m DEF MarkInv
<1>10. EndInv'
  BY <1>g, <1>m, <1>h DEF GoesOn, EndInv
<1>11. StrandInv'
  BY <1>g, <1>h, <1>m DEF TypeOK, StrandInv, OwnedOnce
<1> QED
  BY <1>1, <1>2, <1>3, <1>4, <1>5, <1>6, <1>7, <1>8, <1>9, <1>10, <1>11

\* NestedConstruct: Worker::getWorkerParentFromConstructor.
LEMMA NestedConstructInv ==
  ASSUME IndInv, NEW t \in Threads, NestedConstruct(t)
  PROVE  IndInv'
<1> USE DEF IndInv, NestedConstruct, mqVars, wqVars, stopVars, workerVars,
    threadVars, jsVars, dogVars
<1>1. TypeOK'
  BY DEF TypeOK
<1>2. ThreadInv'
  BY DEF TypeOK, ThreadInv, Holds
<1>3. OwnedOnce'
  BY DEF OwnedOnce, Holds
<1>4. QueueInv'
  BY DEF TypeOK, QueueInv
<1>5. MainInv'
  BY DEF MainInv
<1>6. WaitInv'
  BY DEF WaitInv
<1>7. CreateInv'
  BY DEF CreateInv
<1>8. LifeInv'
  BY DEF LifeInv
<1>9. MarkInv'
  BY DEF MarkInv
<1>10. EndInv'
  BY DEF EndInv
<1>11. StrandInv'
  BY DEF StrandInv, Holds
<1> QED
  BY <1>1, <1>2, <1>3, <1>4, <1>5, <1>6, <1>7, <1>8, <1>9, <1>10, <1>11

\* Failed: Worker::processOneEvent.
LEMMA FailedInv ==
  ASSUME IndInv, NEW t \in Threads, Failed(t)
  PROVE  IndInv'
<1> USE DEF IndInv, Failed, mqVars, wqVars, stopVars, workerVars,
    threadVars, jsVars, dogVars
<1>g. GoesOn(t) /\ mine[t] \in Workers
  BY DEF TypeOK, ThreadInv, GoesOn
<1>c. /\ terminated' \in [Workers -> BOOLEAN] /\ terminateFlag' \in [Workers -> BOOLEAN]
      /\ pending' \in [Workers -> Nat]
      /\ \A v \in Workers : v # mine[t] =>
           terminated'[v] = terminated[v] /\ pending'[v] = pending[v]
      /\ \/ terminated'[mine[t]] = terminated[mine[t]] /\ pending'[mine[t]] = pending[mine[t]]
         \/ terminated'[mine[t]] /\ pending'[mine[t]] = 0
  <2>1. pending[mine[t]] \in Nat
    BY <1>g DEF TypeOK
  <2>2. CheckTermination(mine[t], pending[mine[t]])
    OBVIOUS
  <2> QED
    BY <1>g, <2>1, <2>2, CheckedTermination
<1>h. /\ ThreadInv' /\ OwnedOnce' /\ Holds(t, mine[t]) /\ current[mine[t]]
      /\ \A u \in Threads : pc'[u] \in Holding <=> pc[u] \in Holding
      /\ \A u \in Threads, w \in Workers : Holds(u, w)' <=> Holds(u, w)
  BY <1>g, <1>c, GoesOnWithWorker
<1>1. TypeOK'
  BY <1>g, <1>c, <1>h DEF TypeOK, GoesOn
<1>2. ThreadInv'
  BY <1>h
<1>3. OwnedOnce'
  BY <1>h
<1>4. QueueInv'
  <2>1. \A w \in Workers : Queued(wqQueue, w) => w # mine[t]
    BY <1>h, <1>g DEF OwnedOnce
  <2>2. \A w \in Workers : terminated'[w] => pending'[w] = 0
    BY <1>g, <1>c, <1>h DEF QueueInv
  <2>3. \A w \in Workers : Queued(wqQueue, w) => pending'[w] > 0 /\ ~current[w]
    BY <1>g, <1>c, <1>h, <2>1 DEF QueueInv
  <2> QED
    BY <2>2, <2>3 DEF QueueInv
<1>5. MainInv'
  BY <1>g, <1>c, <1>h DEF MainInv
<1>6. WaitInv'
  BY <1>g, <1>c, <1>h DEF WaitInv
<1>7. CreateInv'
  BY <1>g, <1>c, <1>h DEF TypeOK, CreateInv, LifeInv, MainInv, ThreadInv
<1>8. LifeInv'
  BY <1>g, <1>c, <1>h DEF LifeInv
<1>9. MarkInv'
  BY <1>g, <1>c, <1>h DEF MarkInv
<1>10. EndInv'
  BY <1>g, <1>c, <1>h DEF EndInv
<1>11. StrandInv'
  BY <1>g, <1>c, <1>h DEF TypeOK, StrandInv, OwnedOnce
<1> QED
  BY <1>1, <1>2, <1>3, <1>4, <1>5, <1>6, <1>7, <1>8, <1>9, <1>10, <1>11

\* PostErrorEvent: Worker::processOneEvent.
LEMMA PostErrorEventInv ==
  ASSUME IndInv, NEW t \in Threads, PostErrorEvent(t)
  PROVE  IndInv'
<1> USE DEF IndInv, PostErrorEvent, mqVars, wqVars, stopVars, workerVars,
    threadVars, jsVars, dogVars
<1>g. GoesOn(t) /\ mine[t] \in Workers
  BY DEF TypeOK, ThreadInv, GoesOn
<1>h. /\ ThreadInv' /\ OwnedOnce' /\ Holds(t, mine[t]) /\ current[mine[t]]
      /\ \A u \in Threads : pc'[u] \in Holding <=> pc[u] \in Holding
      /\ \A u \in Threads, w \in Workers : Holds(u, w)' <=> Holds(u, w)
  BY <1>g, GoesOnWithWorker
<1>m. /\ mqQueue' \in Seq(Workers) /\ mainWaits' \in BOOLEAN
      /\ mainWaits' => mqQueue' = mqQueue /\ mainWaits
  <2>1. CASE PostMain(mine[t])
    BY <1>g, <2>1, PostMainQueue
  <2>2. CASE UNCHANGED <<mqQueue, mainWaits>>
    BY <2>2 DEF TypeOK
  <2> QED
    BY <2>1, <2>2
<1>1. TypeOK'
  BY <1>g, <1>h, <1>m DEF TypeOK, GoesOn
<1>2. ThreadInv'
  BY <1>h
<1>3. OwnedOnce'
  BY <1>h
<1>4. QueueInv'
  BY <1>g, <1>h, <1>m DEF TypeOK, OwnedOnce, QueueInv
<1>5. MainInv'
  BY <1>g DEF GoesOn, MainInv
<1>6. WaitInv'
  BY <1>g, <1>m, <1>h DEF WaitInv, MainInv
<1>7. CreateInv'
  BY <1>g, <1>h, <1>m DEF CreateInv
<1>8. LifeInv'
  BY <1>g, <1>h, <1>m DEF LifeInv
<1>9. MarkInv'
  BY <1>g, <1>h, <1>m DEF MarkInv
<1>10. EndInv'
  BY <1>g, <1>m, <1>h DEF GoesOn, EndInv
<1>11. StrandInv'
  BY <1>g, <1>h, <1>m DEF TypeOK, StrandInv, OwnedOnce
<1> QED
  BY <1>1, <1>2, <1>3, <1>4, <1>5, <1>6, <1>7, <1>8, <1>9, <1>10, <1>11

\* EndEvent: Worker::processOneEvent.
LEMMA EndEventInv ==
  ASSUME IndInv, NEW t \in Threads, EndEvent(t)
  PROVE  IndInv'
<1> USE DEF IndInv, EndEvent, mqVars, wqVars, stopVars, workerVars,
    threadVars, jsVars, dogVars
<1>a. /\ mine[t] \in Workers /\ current[mine[t]] /\ UNCHANGED mine
      /\ Holds(t, mine[t]) /\ pc[t] = "end"
  BY DEF ThreadInv, Holds
<1>b. /\ terminated' \in [Workers -> BOOLEAN] /\ terminateFlag' \in [Workers -> BOOLEAN]
      /\ pending' \in [Workers -> Nat]
      /\ \A v \in Workers : v # mine[t] =>
           terminated'[v] = terminated[v] /\ pending'[v] = pending[v]
      /\ pending'[mine[t]] \in {0, pending[mine[t]]}
      /\ terminated'[mine[t]] => pending'[mine[t]] = 0
  <2>1. pending[mine[t]] \in Nat
    BY <1>a DEF TypeOK
  <2>2. CheckTermination(mine[t], pending[mine[t]])
    BY <1>a
  <2>3. terminated[mine[t]] => pending[mine[t]] = 0
    BY <1>a DEF QueueInv, TypeOK
  <2>4. /\ terminated' \in [Workers -> BOOLEAN] /\ terminateFlag' \in [Workers -> BOOLEAN]
        /\ pending' \in [Workers -> Nat]
        /\ \A v \in Workers : v # mine[t] =>
             terminated'[v] = terminated[v] /\ pending'[v] = pending[v]
        /\ \/ /\ terminated'[mine[t]] = terminated[mine[t]]
              /\ pending'[mine[t]] = pending[mine[t]]
           \/ terminated'[mine[t]] /\ pending'[mine[t]] = 0
    BY <1>a, <2>1, <2>2, CheckedTermination
  <2> QED
    BY <1>a, <2>3, <2>4
<1>d. /\ pc' \in [Threads -> Pcs] /\ current' \in [Workers -> BOOLEAN]
      /\ loops' \in [Threads -> BOOLEAN] /\ pc'[t] = "drop"
      /\ \A u \in Threads : u # t => pc'[u] = pc[u]
      /\ \A v \in Workers : current'[v] <=> current[v] /\ v # mine[t]
  BY <1>a DEF TypeOK
<1>q. \A v \in Workers : Queued(wqQueue, v) => v # mine[t]
  BY <1>a DEF OwnedOnce
<1>f. /\ wqQueue' \in Seq(Workers) /\ waiting' \in SUBSET Threads
      /\ waiting' # {} => wqQueue' = << >>
      /\ \A v \in Workers :
           Queued(wqQueue', v) <=>
             Queued(wqQueue, v) \/ (v = mine[t] /\ wqQueue' # wqQueue)
      /\ wqQueue' # wqQueue => pending'[mine[t]] > 0 /\ ~wqClosed
      /\ wqQueue # << >> => wqQueue' # << >>
      /\ Distinct(wqQueue')
      /\ wqClosed => wqQueue' = << >> /\ waiting' = {}
      /\ ~MallocFails /\ ~wqClosed /\ pending'[mine[t]] > 0 => wqQueue' # wqQueue
  <2>0. /\ wqQueue \in Seq(Workers) /\ waiting \in SUBSET Threads
        /\ waiting # {} => wqQueue = << >>
        /\ wqClosed => wqQueue = << >> /\ waiting = {}
        /\ Distinct(wqQueue) /\ ~Queued(wqQueue, mine[t])
    BY <1>a, <1>q DEF TypeOK, QueueInv, OwnedOnce
  <2>1. CASE Requeue(mine[t]) /\ ~wqClosed /\ PostWorker(mine[t])
    <3>1. pending'[mine[t]] > 0
      BY <2>1 DEF Requeue
    <3>2. /\ wqQueue' \in Seq(Workers) /\ wqQueue' # << >> /\ waiting' = {}
          /\ \A v : Queued(wqQueue', v) <=> Queued(wqQueue, v) \/ v = mine[t]
          /\ Distinct(wqQueue')
      BY <1>a, <2>0, <2>1, PostWorkerQueue
    <3>3. wqQueue' # wqQueue
      <4>1. Queued(wqQueue', mine[t])
        BY <3>2
      <4> QED
        BY <2>0, <4>1, Zenon
    <3> QED
      BY <2>0, <2>1, <3>1, <3>2, <3>3
  <2>2. CASE /\ ~Requeue(mine[t]) \/ wqClosed \/ AppendFails(Len(wqQueue))
             /\ UNCHANGED <<wqQueue, waiting>>
    <3>1. wqQueue' = wqQueue /\ waiting' = waiting
      BY <2>2
    <3>2. ~MallocFails /\ ~wqClosed => ~(pending'[mine[t]] > 0)
      <4>1. ~MallocFails /\ ~wqClosed => ~Requeue(mine[t])
        BY <2>2 DEF AppendFails
      <4> QED
        BY <1>a, <1>b, <4>1 DEF Requeue
    <3> QED
      BY <1>q, <2>0, <3>1, <3>2
  <2> QED
    BY <2>1, <2>2
<1>h. /\ \A u \in Threads, v \in Workers : Holds(u, v)' <=> Holds(u, v) /\ u # t
      /\ \A u \in Threads : pc'[u] \in Holding <=> pc[u] \in Holding
  BY <1>a, <1>d DEF Holds
<1>o. \A u \in Threads : u # t /\ pc[u] \in Holding \ {"drop"} =>
        mine[u] \in Workers /\ mine[u] # mine[t]
  <2>1. \A u \in Threads : pc[u] \in Holding \ {"drop"} =>
          mine[u] \in Workers /\ Holds(u, mine[u])
    BY DEF Holds, ThreadInv
  <2> QED
    BY <1>a, <2>1 DEF OwnedOnce
<1>l. mainPc # "undefined" =>
        /\ life[mine[t]] = "live"
        /\ mainPc \in {"post", "createFailed"} => mine[t] # creating
  BY <1>a DEF LifeInv, CreateInv
<1>1. TypeOK'
  <2>1. /\ interrupt' \in [Workers -> BOOLEAN] /\ mine' \in [Threads -> Workers \cup {NoWorker}]
        /\ wqClosed' \in BOOLEAN
    BY <1>a DEF TypeOK
  <2> QED
    BY <1>b, <1>d, <1>f, <2>1 DEF TypeOK
<1>2. ThreadInv'
  <2>1. \A u \in Threads :
          pc'[u] = "start" => pending'[mine[u]] > 0 /\ ~current'[mine[u]]
    BY <1>a, <1>b, <1>d, <1>o DEF ThreadInv
  <2>2. \A u \in Threads : pc'[u] \in Processing => current'[mine[u]]
    BY <1>a, <1>d, <1>o DEF ThreadInv
  <2>3. ASSUME NEW v \in Workers, current'[v]
        PROVE  \E u \in Threads : Holds(u, v)'
    <3>1. PICK u \in Threads : Holds(u, v)
      BY <1>d, <2>3 DEF ThreadInv
    <3> QED
      BY <1>d, <1>h, <2>3, <3>1 DEF Holds
  <2> QED
    BY <1>a, <1>h, <2>1, <2>2, <2>3 DEF ThreadInv
<1>3. OwnedOnce'
  <2>1. \A u \in Threads, v \in Workers : Holds(u, v)' => ~Queued(wqQueue', v)
    BY <1>a, <1>h, <1>f DEF OwnedOnce
  <2> QED
    BY <1>h, <1>f, <2>1 DEF OwnedOnce
<1>4. QueueInv'
  <2>1. \A v \in Workers : Queued(wqQueue', v) => pending'[v] > 0 /\ ~current'[v]
    BY <1>b, <1>d, <1>f, <1>q DEF QueueInv
  <2>2. \A v \in Workers : terminated'[v] => pending'[v] = 0
    BY <1>b DEF QueueInv
  <2> QED
    BY <1>f, <2>1, <2>2 DEF QueueInv
<1>5. MainInv'
  BY <1>a, <1>h DEF MainInv
<1>6. WaitInv'
  BY <1>a, <1>h, <1>f DEF WaitInv
<1>7. CreateInv'
  BY <1>a, <1>b, <1>h, <1>l, <1>f DEF CreateInv, MainInv
<1>8. LifeInv'
  <2> SUFFICES ASSUME mainPc # "undefined"
               PROVE  LifeInv'
    BY DEF LifeInv
  <2>1. \A v \in Workers : life[v] # "live" => pending'[v] = 0
    BY <1>b, <1>l DEF LifeInv
  <2>2. \A v \in Workers : Queued(wqQueue', v) => life[v] = "live"
    BY <1>f, <1>l DEF LifeInv
  <2>3. \A u \in Threads : pc'[u] \in Holding => life[mine[u]] = "live"
    BY <1>h DEF LifeInv
  <2> QED
    BY <1>a, <2>1, <2>2, <2>3 DEF LifeInv
<1>9. MarkInv'
  BY <1>a, <1>h, <1>f DEF MarkInv
<1>10. EndInv'
  BY <1>a, <1>h, <1>d DEF EndInv
<1>11. StrandInv'
  <2> SUFFICES ASSUME ~MallocFails, NEW v \in Workers, life[v] = "live", pending'[v] > 0,
                      ~current'[v], ~wqClosed
               PROVE  Queued(wqQueue', v) \/ \E u \in Threads : Holds(u, v)'
    BY DEF StrandInv
  <2>1. CASE v = mine[t]
    BY <1>f, <2>1
  <2>2. CASE v # mine[t]
    <3>1. Queued(wqQueue, v) \/ \E u \in Threads : Holds(u, v)
      BY <1>b, <1>d, <2>2 DEF StrandInv
    <3>2. CASE Queued(wqQueue, v)
      BY <1>f, <3>2
    <3>3. CASE \E u \in Threads : Holds(u, v)
      <4>1. PICK u \in Threads : Holds(u, v)
        BY <3>3
      <4>2. u # t
        BY <2>2, <4>1 DEF Holds
      <4> QED
        BY <1>h, <4>1, <4>2
    <3> QED
      BY <3>1, <3>2, <3>3
  <2> QED
    BY <2>1, <2>2
<1> QED
  BY <1>1, <1>2, <1>3, <1>4, <1>5, <1>6, <1>7, <1>8, <1>9, <1>10, <1>11

\* Drop: WorkerQueue::work.
LEMMA DropInv ==
  ASSUME IndInv, NEW t \in Threads, Drop(t)
  PROVE  IndInv'
<1> USE DEF IndInv, Drop, mqVars, wqVars, stopVars, workerVars,
    threadVars, jsVars, dogVars
<1>b. /\ pc[t] = "drop" /\ mine[t] \in Workers
      /\ UNCHANGED <<mqVars, wqClosed, workerVars, loops, jsVars, dogVars, terminating,
                     mainPc>>
  BY DEF ThreadInv
<1>i. LockedIsIdle(wqQueue, {mine[u] : u \in {v \in Threads \ {t} : pc[v] \in Holding}})
        <=> wqQueue = << >> /\ \A u \in Threads \ {t} : pc[u] \notin Holding
  BY IdleQueue
<1>a. \/ /\ wqQueue' \in Seq(Workers) /\ Distinct(wqQueue') /\ waiting' \in SUBSET Threads
         /\ pc' \in [Threads -> Pcs] /\ mine' \in [Threads -> Workers \cup {NoWorker}]
         /\ \A u \in Threads : u # t => pc'[u] = pc[u] /\ mine'[u] = mine[u]
         /\ wqQueue # << >> \/ \E u \in Threads : u # t /\ pc[u] \in Holding
         /\ \/ /\ pc'[t] = "exit" /\ wqClosed /\ waiting' = waiting
               /\ wqQueue = << >> /\ wqQueue' = << >>
            \/ /\ pc'[t] = "take" /\ ~wqClosed
               /\ wqQueue = << >> /\ wqQueue' = << >>
            \/ /\ pc'[t] = "start" /\ mine'[t] \in Workers /\ wqQueue # << >>
               /\ waiting' = waiting
               /\ Queued(wqQueue, mine'[t]) /\ ~Queued(wqQueue', mine'[t])
               /\ \A v : v # mine'[t] => (Queued(wqQueue', v) <=> Queued(wqQueue, v))
      \/ /\ wqQueue = << >> /\ UNCHANGED <<wqQueue, waiting>>
         /\ pc' = [pc EXCEPT ![t] = "wake"] /\ mine' = [mine EXCEPT ![t] = NoWorker]
  <2>1. CASE LockedIsIdle(wqQueue, {mine[u] : u \in {v \in Threads \ {t} : pc[v] \in Holding}})
    BY <1>i, <2>1
  <2>2. CASE ~LockedIsIdle(wqQueue, {mine[u] : u \in {v \in Threads \ {t} : pc[v] \in Holding}})
    <3>1. Take(t)
      BY <2>2
    <3>2. wqQueue # << >> \/ \E u \in Threads : u # t /\ pc[u] \in Holding
      BY <1>i, <2>2
    <3> QED
      BY <3>1, <3>2, TakeQueue
  <2> QED
    BY <2>1, <2>2
<1>c. /\ wqQueue' \in Seq(Workers) /\ Distinct(wqQueue') /\ waiting' \in SUBSET Threads
      /\ pc' \in [Threads -> Pcs] /\ mine' \in [Threads -> Workers \cup {NoWorker}]
      /\ \A u \in Threads : u # t => pc'[u] = pc[u] /\ mine'[u] = mine[u]
      /\ pc'[t] \in {"exit", "take", "wake", "start"}
      /\ pc'[t] = "start" => mine'[t] \in Workers
  BY <1>a DEF TypeOK, OwnedOnce
<1>q. \A v \in Workers : Queued(wqQueue', v) <=>
        Queued(wqQueue, v) /\ ~(pc'[t] = "start" /\ v = mine'[t])
  BY <1>a, EmptyQueue
<1>h. /\ \A u \in Threads, v \in Workers :
           Holds(u, v)' <=> Holds(u, v) \/ (u = t /\ pc'[t] = "start" /\ v = mine'[t])
      /\ \A v \in Workers : ~Holds(t, v)
  BY <1>b, <1>c DEF Holds
<1>p. pc'[t] = "start" => /\ Queued(wqQueue, mine'[t])
                          /\ pending[mine'[t]] > 0 /\ ~current[mine'[t]]
                          /\ \A u \in Threads : ~Holds(u, mine'[t])
                          /\ mainPc # "undefined" => life[mine'[t]] = "live"
  <2>1. pc'[t] = "start" => mine'[t] \in Workers /\ Queued(wqQueue, mine'[t])
    BY <1>a, <1>b DEF TypeOK
  <2> QED
    BY <2>1 DEF QueueInv, OwnedOnce, LifeInv
<1>w. wqClosed => wqQueue = << >> /\ waiting = {} /\ wqQueue' = << >> /\ waiting' = {}
  BY <1>a DEF QueueInv
<1>1. TypeOK'
  BY <1>b, <1>c DEF TypeOK
<1>2. ThreadInv'
  <2>1. \A v \in Workers : current'[v] => \E u \in Threads : Holds(u, v)'
    BY <1>b, <1>h DEF ThreadInv
  <2> QED
    BY <1>c, <1>b, <1>p, <2>1 DEF ThreadInv
<1>3. OwnedOnce'
  <2>1. \A u, x \in Threads, v \in Workers : Holds(u, v)' /\ Holds(x, v)' => u = x
    BY <1>c, <1>h, <1>p DEF OwnedOnce
  <2>2. \A u \in Threads, v \in Workers : Holds(u, v)' => ~Queued(wqQueue', v)
    BY <1>c, <1>h, <1>q DEF OwnedOnce
  <2> QED
    BY <1>c, <2>1, <2>2 DEF OwnedOnce
<1>4. QueueInv'
  <2>1. waiting' # {} => wqQueue' = << >>
    BY <1>a DEF QueueInv
  <2> QED
    BY <1>b, <1>q, <1>w, <2>1 DEF QueueInv
<1>5. MainInv'
  BY <1>b DEF MainInv
<1>6. WaitInv'
  <2> SUFFICES ASSUME mainWaits
               PROVE  wqQueue' # << >> \/ \E u \in Threads : pc'[u] \in Holding \cup {"wake"}
    BY <1>b DEF WaitInv
  <2>1. CASE \E u \in Threads : u # t /\ pc[u] \in Holding
    BY <1>c, <2>1
  <2>2. CASE wqQueue # << >>
    BY <1>a, <2>2
  <2>3. CASE pc'[t] = "wake"
    BY <2>3
  <2> QED
    BY <1>a, <2>1, <2>2, <2>3 DEF TypeOK
<1>7. CreateInv'
  BY <1>c, <1>b, <1>q, <1>p DEF CreateInv, MainInv
<1>8. LifeInv'
  BY <1>c, <1>b, <1>q, <1>p DEF LifeInv
<1>9. MarkInv'
  BY <1>c, <1>b, <1>q, <1>p DEF MarkInv
<1>10. EndInv'
  BY <1>b DEF EndInv
<1>11. StrandInv'
  BY <1>b, <1>q, <1>h DEF StrandInv
<1> QED
  BY <1>1, <1>2, <1>3, <1>4, <1>5, <1>6, <1>7, <1>8, <1>9, <1>10, <1>11

\* WakeMain: WorkerQueue::work.
LEMMA WakeMainInv ==
  ASSUME IndInv, NEW t \in Threads, WakeMain(t)
  PROVE  IndInv'
<1> USE DEF IndInv, WakeMain, Wake, mqVars, wqVars, stopVars, workerVars,
    threadVars, jsVars, dogVars
<1>a. /\ pc' \in [Threads -> Pcs] /\ pc[t] = "wake" /\ pc'[t] = "take" /\ UNCHANGED mine
      /\ \A u \in Threads : u # t => pc'[u] = pc[u]
  BY DEF TypeOK
<1>h. \A u \in Threads, v \in Workers : Holds(u, v)' <=> Holds(u, v)
  BY <1>a DEF Holds
<1>1. TypeOK'
  BY DEF TypeOK
<1>2. ThreadInv'
  BY <1>a, <1>h DEF ThreadInv
<1>3. OwnedOnce'
  BY <1>h DEF OwnedOnce
<1>4. QueueInv'
  BY DEF TypeOK, QueueInv
<1>5. MainInv'
  BY DEF MainInv
<1>6. WaitInv'
  BY DEF WaitInv
<1>7. CreateInv'
  BY DEF CreateInv
<1>8. LifeInv'
  BY DEF LifeInv
<1>9. MarkInv'
  BY DEF MarkInv
<1>10. EndInv'
  BY DEF EndInv
<1>11. StrandInv'
  BY <1>h DEF StrandInv
<1> QED
  BY <1>1, <1>2, <1>3, <1>4, <1>5, <1>6, <1>7, <1>8, <1>9, <1>10, <1>11

\* StartPool: ThreadPool::start.
LEMMA StartPoolInv ==
  ASSUME IndInv, StartPool
  PROVE  IndInv'
<1> USE DEF IndInv, StartPool, mqVars, wqVars, stopVars, workerVars,
    threadVars, jsVars, dogVars
<1>1. TypeOK'
  BY DEF TypeOK
<1>2. ThreadInv'
  BY DEF TypeOK, ThreadInv, OwnedOnce, QueueInv, MainInv, WaitInv, CreateInv, LifeInv, MarkInv, EndInv, StrandInv, Holds
<1>3. OwnedOnce'
  BY DEF OwnedOnce, Holds
<1>4. QueueInv'
  BY DEF TypeOK, QueueInv
<1>5. MainInv'
  BY DEF MainInv
<1>6. WaitInv'
  BY DEF WaitInv
<1>7. CreateInv'
  BY DEF CreateInv
<1>8. LifeInv'
  BY DEF LifeInv
<1>9. MarkInv'
  BY DEF MarkInv
<1>10. EndInv'
  BY DEF TypeOK, EndInv, MainInv, LifeInv, QueueInv
<1>11. StrandInv'
  BY DEF TypeOK, StrandInv, CreateInv, LifeInv, MainInv, Holds
<1> QED
  BY <1>1, <1>2, <1>3, <1>4, <1>5, <1>6, <1>7, <1>8, <1>9, <1>10, <1>11

\* AddChild: WorkerParent::addChild.
LEMMA AddChildInv ==
  ASSUME IndInv, NEW w \in Workers, AddChild(w)
  PROVE  IndInv'
<1> USE DEF IndInv, AddChild, mqVars, wqVars, stopVars, workerVars,
    threadVars, jsVars, dogVars
<1>1. TypeOK'
  BY DEF TypeOK
<1>2. ThreadInv'
  BY DEF TypeOK, ThreadInv, Holds
<1>3. OwnedOnce'
  BY DEF OwnedOnce, Holds
<1>4. QueueInv'
  BY DEF TypeOK, QueueInv
<1>5. MainInv'
  BY DEF MainInv
<1>6. WaitInv'
  BY DEF WaitInv
<1>7. CreateInv'
  BY DEF TypeOK, CreateInv, LifeInv, MainInv, ThreadInv
<1>8. LifeInv'
  BY DEF LifeInv
<1>9. MarkInv'
  BY DEF MarkInv
<1>10. EndInv'
  BY DEF EndInv
<1>11. StrandInv'
  BY DEF StrandInv, Holds
<1> QED
  BY <1>1, <1>2, <1>3, <1>4, <1>5, <1>6, <1>7, <1>8, <1>9, <1>10, <1>11

\* InitWorker: Worker::init, Worker::createContext.
LEMMA InitWorkerInv ==
  ASSUME IndInv, InitWorker
  PROVE  IndInv'
<1> USE DEF IndInv, InitWorker, mqVars, wqVars, stopVars, workerVars,
    threadVars, jsVars, dogVars
<1>a. /\ creating \in Workers /\ life[creating] = "initializing" /\ mainPc = "create"
      /\ ~terminated[creating]
  BY DEF CreateInv, MainInv
<1>b. /\ ~Queued(wqQueue, creating) /\ pending[creating] = 0 /\ creating \notin refs
      /\ mainCurrent # creating
      /\ \A u \in Threads : pc[u] \in Holding => mine[u] # creating
  BY <1>a DEF LifeInv
<1>c. /\ \A v \in Workers : v # creating => life'[v] = life[v]
      /\ \/ /\ life'[creating] = "live" /\ mainPc' = "post"
            /\ UNCHANGED <<children, creating>>
         \/ /\ life'[creating] = "deleted" /\ mainPc' = "js"
            /\ children' = children \ {creating}
  BY <1>a DEF TypeOK
<1>l. creating \in children /\ mq
  BY <1>a DEF LifeInv
<1>d. UNCHANGED <<mq, mqQueue, mainWaits, wqVars, current, interrupt, stopVars,
                  threadVars, mainCurrent, finishing, refs, marked, dogVars, terminating>>
  BY Zenon
<1>1. TypeOK'
  <2>1. life' \in [Workers -> Lives] /\ mainPc' \in MainPcs /\ children' \in SUBSET Workers
    BY <1>c DEF TypeOK
  <2>2. creating' \in Workers \cup {NoWorker}
    BY <1>a
  <2> QED
    BY <1>d, <2>1, <2>2 DEF TypeOK
<1>2. ThreadInv'
  BY <1>a, <1>b, <1>c DEF TypeOK, ThreadInv, Holds
<1>3. OwnedOnce'
  BY <1>a, <1>b, <1>c DEF OwnedOnce, Holds
<1>4. QueueInv'
  BY <1>a, <1>b, <1>c DEF TypeOK, QueueInv
<1>5. MainInv'
  BY <1>a, <1>b, <1>c DEF MainInv
<1>6. WaitInv'
  BY <1>a, <1>b, <1>c DEF WaitInv
<1>7. CreateInv'
  <2>1. CASE /\ life'[creating] = "live" /\ mainPc' = "post" /\ creating' = creating
    BY <1>a, <1>b, <1>c, <1>d, <2>1 DEF CreateInv
  <2>2. CASE life'[creating] = "deleted" /\ mainPc' = "js"
    BY <1>a, <1>b, <1>c, <1>d, <2>2 DEF CreateInv
  <2> QED
    BY <1>c, <2>1, <2>2
<1>8. LifeInv'
  <2>1. \A v \in Workers : v # creating => life'[v] = life[v]
    BY <1>c
  <2>2. \A v \in Workers : life'[v] \in {"initializing", "live"} => v \in children'
    BY <1>a, <1>c, <1>l DEF LifeInv
  <2>3. \A v \in Workers : Queued(wqQueue, v) \/ v = mainCurrent => life'[v] = "live"
    BY <1>a, <1>b, <1>c DEF LifeInv
  <2>4. \A u \in Threads : pc[u] \in Holding => life'[mine[u]] = "live"
    BY <1>a, <1>b, <1>c DEF LifeInv, ThreadInv
  <2>5. \A v \in refs : life'[v] = "live"
    BY <1>a, <1>b, <1>c DEF LifeInv, TypeOK
  <2>6. \A v \in Workers : life'[v] # "live" => pending[v] = 0
    BY <1>a, <1>b, <1>c DEF LifeInv
  <2> QED
    BY <1>d, <1>l, <2>2, <2>3, <2>4, <2>5, <2>6 DEF LifeInv
<1>9. MarkInv'
  BY <1>c, <1>d DEF MarkInv
<1>10. EndInv'
  BY <1>a, <1>b, <1>c DEF EndInv
<1>11. StrandInv'
  BY <1>a, <1>b, <1>c, <1>d DEF StrandInv, Holds
<1> QED
  BY <1>1, <1>2, <1>3, <1>4, <1>5, <1>6, <1>7, <1>8, <1>9, <1>10, <1>11

\* PostInitEvent: Worker::create.
LEMMA PostInitEventInv ==
  ASSUME IndInv, PostInitEvent
  PROVE  IndInv'
<1> USE DEF IndInv, PostInitEvent, mqVars, wqVars, stopVars, workerVars,
    threadVars, jsVars, dogVars
<1>a. /\ creating \in Workers /\ life[creating] = "live" /\ ~terminated[creating]
      /\ pending[creating] = 0 /\ ~Queued(wqQueue, creating)
      /\ \A u \in Threads : pc[u] \in Holding => mine[u] # creating
  BY DEF CreateInv, MainInv
<1>b. ~current[creating] /\ \A u \in Threads : ~Holds(u, creating)
  BY <1>a DEF ThreadInv, Holds
<1>c. /\ pending' \in [Workers -> Nat] /\ pending'[creating] = 1
      /\ \A v \in Workers : v # creating => pending'[v] = pending[v]
  BY <1>a DEF TypeOK
<1>d. UNCHANGED <<mqVars, wqClosed, life, current, interrupt, terminated, terminateFlag,
                  threadVars, mainCurrent, finishing, marked, dogVars, terminating>>
  BY Zenon
<1>h. \A u \in Threads, v \in Workers : Holds(u, v)' <=> Holds(u, v)
  BY <1>d DEF Holds
<1>k. \/ /\ wqQueue' \in Seq(Workers) /\ wqQueue' # << >> /\ waiting' = {}
         /\ \A v : Queued(wqQueue', v) <=> Queued(wqQueue, v) \/ v = creating
         /\ Distinct(wqQueue')
         /\ refs' = refs \cup {creating} /\ creating' = NoWorker /\ mainPc' = "js"
      \/ /\ MallocFails /\ mainPc' = "createFailed"
         /\ UNCHANGED <<wqQueue, waiting, refs, creating>>
  <2>1. CASE /\ PostWorker(creating) /\ refs' = refs \cup {creating}
             /\ creating' = NoWorker /\ mainPc' = "js"
    BY <1>a, <2>1, PostWorkerQueue DEF OwnedOnce
  <2>2. CASE /\ AppendFails(Len(wqQueue)) /\ mainPc' = "createFailed"
             /\ UNCHANGED <<wqQueue, waiting, refs, creating>>
    BY <2>2 DEF AppendFails
  <2> QED
    BY <2>1, <2>2
<1>1. TypeOK'
  BY <1>a, <1>b, <1>c, <1>d, <1>h, <1>k DEF TypeOK
<1>2. ThreadInv'
  BY <1>a, <1>b, <1>c, <1>d, <1>h, <1>k DEF TypeOK, ThreadInv, Holds
<1>3. OwnedOnce'
  BY <1>a, <1>b, <1>d, <1>h, <1>k DEF OwnedOnce
<1>4. QueueInv'
  BY <1>a, <1>b, <1>c, <1>d, <1>h, <1>k DEF TypeOK, QueueInv
<1>5. MainInv'
  BY <1>a, <1>b, <1>c, <1>d, <1>h, <1>k DEF MainInv
<1>6. WaitInv'
  BY <1>a, <1>b, <1>c, <1>d, <1>h, <1>k DEF WaitInv
<1>7. CreateInv'
  BY <1>a, <1>b, <1>c, <1>d, <1>h, <1>k DEF CreateInv
<1>8. LifeInv'
  BY <1>a, <1>b, <1>c, <1>d, <1>h, <1>k DEF LifeInv
<1>9. MarkInv'
  BY <1>a, <1>b, <1>c, <1>d, <1>h, <1>k DEF MarkInv
<1>10. EndInv'
  BY <1>a, <1>b, <1>c, <1>d, <1>h, <1>k DEF EndInv
<1>11. StrandInv'
  BY <1>a, <1>c, <1>d, <1>h, <1>k DEF StrandInv
<1> QED
  BY <1>1, <1>2, <1>3, <1>4, <1>5, <1>6, <1>7, <1>8, <1>9, <1>10, <1>11

\* NoInitEvent: Worker::create.
LEMMA NoInitEventInv ==
  ASSUME IndInv, NoInitEvent
  PROVE  IndInv'
<1> USE DEF IndInv, NoInitEvent, mqVars, wqVars, stopVars, workerVars, threadVars,
    dogVars
<1>1. TypeOK'
  BY DEF TypeOK
<1>2. ThreadInv'
  BY DEF ThreadInv, CreateInv, Holds
<1>3. OwnedOnce'
  BY DEF OwnedOnce, Holds
<1>4. QueueInv'
  BY DEF QueueInv, CreateInv
<1>5. MainInv'
  BY DEF MainInv, CreateInv
<1>6. WaitInv'
  BY DEF WaitInv
<1>7. CreateInv'
  BY DEF CreateInv
<1>8. LifeInv'
  BY DEF LifeInv, CreateInv
<1>9. MarkInv'
  BY DEF MarkInv
<1>10. EndInv'
  BY DEF EndInv
<1>11. StrandInv'
  BY DEF StrandInv, Holds
<1> QED
  BY <1>1, <1>2, <1>3, <1>4, <1>5, <1>6, <1>7, <1>8, <1>9, <1>10, <1>11

\* DisposeNewWorker: Worker::create.
LEMMA DisposeNewWorkerInv ==
  ASSUME IndInv, DisposeNewWorker
  PROVE  IndInv'
<1> USE DEF IndInv, DisposeNewWorker, mqVars, wqVars, stopVars, workerVars,
    threadVars, jsVars, dogVars
<1>1. TypeOK'
  BY DEF TypeOK
<1>2. ThreadInv'
  BY DEF TypeOK, ThreadInv, OwnedOnce, QueueInv, MainInv, WaitInv, CreateInv, LifeInv, MarkInv, EndInv, StrandInv, Holds
<1>3. OwnedOnce'
  BY DEF OwnedOnce, Holds
<1>4. QueueInv'
  BY DEF TypeOK, ThreadInv, OwnedOnce, QueueInv, MainInv, WaitInv, CreateInv, LifeInv, MarkInv, EndInv, StrandInv
<1>5. MainInv'
  BY DEF MainInv
<1>6. WaitInv'
  BY DEF WaitInv
<1>7. CreateInv'
  BY DEF CreateInv
<1>8. LifeInv'
  BY DEF TypeOK, LifeInv, CreateInv, MainInv, MarkInv
<1>9. MarkInv'
  BY DEF MarkInv
<1>10. EndInv'
  BY DEF EndInv
<1>11. StrandInv'
  BY DEF StrandInv, Holds
<1> QED
  BY <1>1, <1>2, <1>3, <1>4, <1>5, <1>6, <1>7, <1>8, <1>9, <1>10, <1>11

\* PostMessageToChild: Worker::jsPostMessageToChild.
LEMMA PostMessageToChildInv ==
  ASSUME IndInv, NEW w \in Workers, PostMessageToChild(w)
  PROVE  IndInv'
<1> USE DEF IndInv, PostMessageToChild, mqVars, wqVars, stopVars, workerVars,
    threadVars, jsVars, dogVars
<1>a. /\ w \in Workers /\ mainPc = "js" /\ life[w] = "live" /\ ~terminated[w]
      /\ UNCHANGED <<mqVars, wqClosed, life, current, interrupt, terminated, terminateFlag,
                     threadVars, jsVars, dogVars, terminating, mainPc>>
  BY DEF LifeInv
<1>c. /\ pending' \in [Workers -> Nat] /\ pending'[w] > 0
      /\ \A v \in Workers : v # w => pending'[v] = pending[v]
  BY DEF TypeOK, PostToWorker
<1>h. \A u \in Threads, v \in Workers : Holds(u, v)' <=> Holds(u, v)
  BY <1>a DEF Holds
<1>k. \/ /\ wqQueue' \in Seq(Workers) /\ wqQueue' # << >> /\ waiting' = {}
         /\ \A v : Queued(wqQueue', v) <=> Queued(wqQueue, v) \/ v = w
         /\ Distinct(wqQueue')
         /\ ~current[w] /\ \A u \in Threads : ~Holds(u, w)
      \/ /\ UNCHANGED <<wqQueue, waiting>>
         /\ current[w] \/ pending[w] > 0
  <2>1. CASE ~current[w] /\ pending[w] = 0
    <3>1. ~Queued(wqQueue, w)
      BY <2>1 DEF QueueInv
    <3>2. ASSUME NEW u \in Threads, Holds(u, w)
          PROVE  FALSE
      BY <2>1, <3>2 DEF Holds, ThreadInv
    <3>3. PostWorker(w)
      BY <2>1 DEF PostToWorker
    <3> QED
      BY <2>1, <3>1, <3>2, <3>3, PostWorkerQueue DEF OwnedOnce
  <2>2. CASE ~(~current[w] /\ pending[w] = 0)
    BY <2>2 DEF PostToWorker, TypeOK
  <2> QED
    BY <2>1, <2>2
<1>1. TypeOK'
  <2>1. wqQueue' \in Seq(Workers) /\ waiting' \in SUBSET Threads
    BY <1>k DEF TypeOK
  <2> QED
    BY <1>a, <1>c, <2>1 DEF TypeOK
<1>2. ThreadInv'
  <2>1. \A u \in Threads :
          pc[u] = "start" => pending'[mine[u]] > 0 /\ ~current[mine[u]]
    BY <1>c DEF ThreadInv
  <2> QED
    BY <1>a, <1>h, <2>1 DEF ThreadInv
<1>3. OwnedOnce'
  BY <1>a, <1>h, <1>k DEF OwnedOnce
<1>4. QueueInv'
  <2>0. current[w] => ~Queued(wqQueue, w)
    BY DEF QueueInv
  <2>1. \A v \in Workers : Queued(wqQueue', v) => pending'[v] > 0 /\ ~current[v]
    BY <1>c, <1>k, <2>0 DEF QueueInv
  <2>2. \A v \in Workers : terminated[v] => pending'[v] = 0
    BY <1>a, <1>c DEF QueueInv
  <2>3. waiting' # {} => wqQueue' = << >>
    BY <1>k DEF QueueInv
  <2>4. ~wqClosed
    BY <1>a DEF QueueInv
  <2> QED
    BY <1>a, <2>1, <2>2, <2>3, <2>4 DEF QueueInv
<1>5. MainInv'
  BY <1>a, <1>c, <1>h, <1>k DEF TypeOK, ThreadInv, OwnedOnce, QueueInv, MainInv, WaitInv, CreateInv, LifeInv, MarkInv, EndInv, StrandInv
<1>6. WaitInv'
  BY <1>a, <1>c, <1>h, <1>k DEF WaitInv
<1>7. CreateInv'
  BY <1>a, <1>c, <1>h, <1>k DEF CreateInv
<1>8. LifeInv'
  BY <1>a, <1>c, <1>h, <1>k DEF LifeInv
<1>9. MarkInv'
  BY <1>a, <1>c, <1>h, <1>k DEF MarkInv
<1>10. EndInv'
  BY <1>a, <1>c, <1>h, <1>k DEF EndInv
<1>11. StrandInv'
  BY <1>a, <1>c, <1>h, <1>k DEF StrandInv
<1> QED
  BY <1>1, <1>2, <1>3, <1>4, <1>5, <1>6, <1>7, <1>8, <1>9, <1>10, <1>11

\* Terminate: Worker::jsTerminate.
LEMMA TerminateInv ==
  ASSUME IndInv, NEW w \in Workers, Terminate(w)
  PROVE  IndInv'
<1> USE DEF IndInv, Terminate, SetTerminateFlag, mqVars, wqVars, stopVars, workerVars,
    threadVars, jsVars, dogVars
<1>1. TypeOK'
  BY DEF TypeOK
<1>2. ThreadInv'
  BY DEF TypeOK, ThreadInv, Holds
<1>3. OwnedOnce'
  BY DEF OwnedOnce, Holds
<1>4. QueueInv'
  BY DEF TypeOK, QueueInv
<1>5. MainInv'
  BY DEF MainInv
<1>6. WaitInv'
  BY DEF WaitInv
<1>7. CreateInv'
  BY DEF CreateInv
<1>8. LifeInv'
  BY DEF LifeInv
<1>9. MarkInv'
  BY DEF MarkInv
<1>10. EndInv'
  BY DEF EndInv
<1>11. StrandInv'
  BY DEF StrandInv, Holds
<1> QED
  BY <1>1, <1>2, <1>3, <1>4, <1>5, <1>6, <1>7, <1>8, <1>9, <1>10, <1>11

\* Quit: Quit.
LEMMA QuitInv ==
  ASSUME IndInv, Quit
  PROVE  IndInv'
<1> USE DEF IndInv, Quit, SetTerminateFlag, mqVars, wqVars, stopVars, workerVars,
    threadVars, jsVars, dogVars
<1>1. TypeOK'
  BY DEF TypeOK
<1>2. ThreadInv'
  BY DEF TypeOK, ThreadInv, Holds
<1>3. OwnedOnce'
  BY DEF OwnedOnce, Holds
<1>4. QueueInv'
  BY DEF TypeOK, QueueInv
<1>5. MainInv'
  BY DEF MainInv
<1>6. WaitInv'
  BY DEF WaitInv
<1>7. CreateInv'
  BY DEF CreateInv
<1>8. LifeInv'
  BY DEF LifeInv
<1>9. MarkInv'
  BY DEF MarkInv
<1>10. EndInv'
  BY DEF EndInv
<1>11. StrandInv'
  BY DEF StrandInv, Holds
<1> QED
  BY <1>1, <1>2, <1>3, <1>4, <1>5, <1>6, <1>7, <1>8, <1>9, <1>10, <1>11

\* DropReference: Worker::jsTraceWorker.
LEMMA DropReferenceInv ==
  ASSUME IndInv, NEW w \in Workers, DropReference(w)
  PROVE  IndInv'
<1> USE DEF IndInv, DropReference, mqVars, wqVars, stopVars, workerVars,
    threadVars, jsVars, dogVars
<1>1. TypeOK'
  BY DEF TypeOK
<1>2. ThreadInv'
  BY DEF TypeOK, ThreadInv, Holds
<1>3. OwnedOnce'
  BY DEF OwnedOnce, Holds
<1>4. QueueInv'
  BY DEF TypeOK, QueueInv
<1>5. MainInv'
  BY DEF MainInv
<1>6. WaitInv'
  BY DEF WaitInv
<1>7. CreateInv'
  BY DEF CreateInv
<1>8. LifeInv'
  BY DEF LifeInv
<1>9. MarkInv'
  BY DEF MarkInv
<1>10. EndInv'
  BY DEF EndInv
<1>11. StrandInv'
  BY DEF StrandInv, Holds
<1> QED
  BY <1>1, <1>2, <1>3, <1>4, <1>5, <1>6, <1>7, <1>8, <1>9, <1>10, <1>11

\* CollectBegin: ThreadPool::jsTraceThreadPool.
LEMMA CollectBeginInv ==
  ASSUME IndInv, CollectBegin
  PROVE  IndInv'
<1> USE DEF IndInv, CollectBegin, mqVars, wqVars, stopVars, workerVars,
    threadVars, jsVars, dogVars
<1>1. TypeOK'
  BY DEF TypeOK
<1>2. ThreadInv'
  BY DEF TypeOK, ThreadInv, Holds
<1>3. OwnedOnce'
  BY DEF OwnedOnce, Holds
<1>4. QueueInv'
  BY DEF TypeOK, QueueInv
<1>5. MainInv'
  BY DEF MainInv
<1>6. WaitInv'
  BY DEF WaitInv
<1>7. CreateInv'
  BY DEF CreateInv
<1>8. LifeInv'
  BY DEF LifeInv
<1>9. MarkInv'
  BY DEF MarkInv
<1>10. EndInv'
  BY DEF EndInv
<1>11. StrandInv'
  BY DEF StrandInv, Holds
<1> QED
  BY <1>1, <1>2, <1>3, <1>4, <1>5, <1>6, <1>7, <1>8, <1>9, <1>10, <1>11

\* TraceMain: ThreadPool::jsTraceThreadPool.
LEMMA TraceMainInv ==
  ASSUME WorkersAssumption, IndInv, TraceMain
  PROVE  IndInv'
<1> USE DEF IndInv, TraceMain, TracedInMain, mqVars, wqVars, stopVars, workerVars,
    threadVars, jsVars, dogVars
<1>a. /\ Elements(mqQueue) \subseteq Workers
      /\ \A v : v \in Elements(mqQueue) <=> Queued(mqQueue, v)
  BY ElementsQueued DEF TypeOK
<1>b. marked' \in SUBSET Workers
  BY <1>a DEF TypeOK
<1>1. TypeOK'
  BY <1>b DEF TypeOK
<1>2. ThreadInv'
  BY DEF TypeOK, ThreadInv, Holds
<1>3. OwnedOnce'
  BY DEF OwnedOnce, Holds
<1>4. QueueInv'
  BY DEF TypeOK, QueueInv
<1>5. MainInv'
  BY DEF MainInv
<1>6. WaitInv'
  BY DEF WaitInv
<1>7. CreateInv'
  BY DEF CreateInv
<1>8. LifeInv'
  BY DEF LifeInv
<1>9. MarkInv'
  <2>1. NoWorker \notin Workers
    BY DEF WorkersAssumption
  <2> QED
    BY <2>1 DEF MarkInv
<1>10. EndInv'
  BY DEF EndInv
<1>11. StrandInv'
  BY DEF StrandInv, Holds
<1> QED
  BY <1>1, <1>2, <1>3, <1>4, <1>5, <1>6, <1>7, <1>8, <1>9, <1>10, <1>11

\* TraceWorkers: ThreadPool::jsTraceThreadPool.
LEMMA TraceWorkersInv ==
  ASSUME IndInv, TraceWorkers
  PROVE  IndInv'
<1> USE DEF IndInv, TraceWorkers, mqVars, wqVars, stopVars, workerVars,
    threadVars, jsVars, dogVars
<1>a. /\ Elements(wqQueue) \subseteq Workers
      /\ \A v : v \in Elements(wqQueue) <=> Queued(wqQueue, v)
  BY ElementsQueued DEF TypeOK
<1>b. /\ Busy \subseteq Workers
      /\ \A u \in Threads : pc[u] \in Holding => mine[u] \in Busy
  BY DEF Busy, ThreadInv
<1>c. marked' = marked \cup (Elements(wqQueue) \cup Busy)
  BY DEF TracedInWorkers
<1>d. marked' \in SUBSET Workers
  BY <1>a, <1>b, <1>c DEF TypeOK
<1>1. TypeOK'
  BY <1>d DEF TypeOK
<1>2. ThreadInv'
  BY DEF TypeOK, ThreadInv, Holds
<1>3. OwnedOnce'
  BY DEF OwnedOnce, Holds
<1>4. QueueInv'
  BY DEF TypeOK, QueueInv
<1>5. MainInv'
  BY DEF MainInv
<1>6. WaitInv'
  BY DEF WaitInv
<1>7. CreateInv'
  BY DEF CreateInv
<1>8. LifeInv'
  BY DEF LifeInv
<1>9. MarkInv'
  <2>1. marked \subseteq marked'
    BY <1>c
  <2>2. \A v \in Workers : Queued(wqQueue, v) => v \in marked'
    BY <1>a, <1>c
  <2>3. \A u \in Threads : pc[u] \in Holding => mine[u] \in marked'
    BY <1>b, <1>c
  <2> QED
    BY <2>1, <2>2, <2>3 DEF MarkInv
<1>10. EndInv'
  BY DEF EndInv
<1>11. StrandInv'
  BY DEF StrandInv, Holds
<1> QED
  BY <1>1, <1>2, <1>3, <1>4, <1>5, <1>6, <1>7, <1>8, <1>9, <1>10, <1>11

\* Sweep: Worker::jsFinalize.
LEMMA SweepInv ==
  ASSUME IndInv, Sweep
  PROVE  IndInv'
<1> USE DEF IndInv, Sweep, mqVars, wqVars, stopVars, workerVars,
    threadVars, jsVars, dogVars
<1>1. TypeOK'
  BY DEF TypeOK
<1>2. ThreadInv'
  BY DEF TypeOK, ThreadInv, OwnedOnce, QueueInv, MainInv, WaitInv, CreateInv, LifeInv, MarkInv, EndInv, StrandInv, Holds
<1>3. OwnedOnce'
  BY DEF OwnedOnce, Holds
<1>4. QueueInv'
  BY DEF TypeOK, ThreadInv, OwnedOnce, QueueInv, MainInv, WaitInv, CreateInv, LifeInv, MarkInv, EndInv, StrandInv
<1>5. MainInv'
  BY DEF MainInv
<1>6. WaitInv'
  BY DEF WaitInv
<1>7. CreateInv'
  BY DEF CreateInv
<1>8. LifeInv'
  BY DEF TypeOK, LifeInv, CreateInv, MainInv, MarkInv
<1>9. MarkInv'
  BY DEF MarkInv
<1>10. EndInv'
  BY DEF EndInv
<1>11. StrandInv'
  BY DEF StrandInv, Holds
<1> QED
  BY <1>1, <1>2, <1>3, <1>4, <1>5, <1>6, <1>7, <1>8, <1>9, <1>10, <1>11

\* Finish: js::workers::finish.
LEMMA FinishInv ==
  ASSUME IndInv, Finish
  PROVE  IndInv'
<1> USE DEF IndInv, Finish, mqVars, wqVars, stopVars, workerVars,
    threadVars, jsVars, dogVars
<1>1. TypeOK'
  BY DEF TypeOK
<1>2. ThreadInv'
  BY DEF TypeOK, ThreadInv, Holds
<1>3. OwnedOnce'
  BY DEF OwnedOnce, Holds
<1>4. QueueInv'
  BY DEF TypeOK, QueueInv
<1>5. MainInv'
  BY DEF MainInv
<1>6. WaitInv'
  BY DEF WaitInv
<1>7. CreateInv'
  BY DEF CreateInv
<1>8. LifeInv'
  BY DEF LifeInv
<1>9. MarkInv'
  BY DEF MarkInv
<1>10. EndInv'
  BY DEF EndInv
<1>11. StrandInv'
  BY DEF StrandInv, Holds
<1> QED
  BY <1>1, <1>2, <1>3, <1>4, <1>5, <1>6, <1>7, <1>8, <1>9, <1>10, <1>11

\* MainTakes: MainQueue::mainThreadWork.
LEMMA MainTakesInv ==
  ASSUME WorkersAssumption, IndInv, MainTakes
  PROVE  IndInv'
<1> USE DEF IndInv, MainTakes, mqVars, wqVars, stopVars, workerVars,
    threadVars, jsVars, dogVars
<1>a. /\ UNCHANGED <<mq, children, wqVars, workerVars, threadVars, creating, finishing,
                     marked, dogVars, terminating>>
      /\ ~mainWaits /\ finishing /\ mq /\ mainPc # "undefined"
  BY DEF MainInv, WaitInv
<1>b. MainTake
  BY Zenon
<1>c. \/ /\ mqQueue = << >> /\ UNCHANGED <<mqQueue, refs>> /\ mainCurrent' = NoWorker
         /\ \/ /\ mainPc' = "close" /\ UNCHANGED mainWaits
               /\ wqQueue = << >> /\ \A t \in Threads : pc[t] \notin Holding
            \/ /\ mainPc' = "take" /\ mainWaits' = TRUE
               /\ wqQueue # << >> \/ \E t \in Threads : pc[t] \in Holding
      \/ /\ mqQueue # << >> /\ mqQueue' \in Seq(Workers) /\ mainCurrent' \in Workers
         /\ refs' = refs \cup {mainCurrent'} /\ UNCHANGED mainWaits
         /\ \/ mainPc' = "js" /\ life[mainCurrent'] = "live"
            \/ mainPc' = "undefined"
  BY <1>b, MainTakeQueue
<1>n. NoWorker \notin Workers
  BY DEF WorkersAssumption
<1>e. /\ ~wqClosed
  BY DEF QueueInv
<1>f. mainPc' = "close" /\ ~MallocFails => \A v \in Workers : pending[v] = 0
  <2> SUFFICES ASSUME mainPc' = "close", ~MallocFails, NEW v \in Workers, pending[v] # 0
               PROVE  FALSE
    OBVIOUS
  <2>1. ~Queued(wqQueue, v) /\ \A t \in Threads : ~Holds(t, v)
    BY <1>c, EmptyQueue DEF Holds
  <2>2. ~current[v]
    BY <2>1 DEF ThreadInv
  <2>3. pending[v] > 0
    BY DEF TypeOK
  <2>4. life[v] = "live"
    BY <1>a DEF LifeInv
  <2> QED
    BY <1>e, <2>1, <2>2, <2>3, <2>4 DEF StrandInv
<1>1. TypeOK'
  BY <1>a, <1>c DEF TypeOK
<1>2. ThreadInv'
  BY <1>a, <1>c DEF TypeOK, ThreadInv, Holds
<1>3. OwnedOnce'
  BY <1>a, <1>c DEF OwnedOnce, Holds
<1>4. QueueInv'
  BY <1>a, <1>c DEF TypeOK, QueueInv
<1>5. MainInv'
  BY <1>a, <1>c DEF MainInv
<1>6. WaitInv'
  BY <1>a, <1>c DEF WaitInv
<1>7. CreateInv'
  BY <1>a, <1>c DEF CreateInv
<1>8. LifeInv'
  BY <1>a, <1>c, <1>n DEF LifeInv
<1>9. MarkInv'
  BY <1>a, <1>c DEF MarkInv
<1>10. EndInv'
  BY <1>a, <1>c, <1>f DEF EndInv
<1>11. StrandInv'
  BY <1>a, <1>c DEF StrandInv, Holds
<1> QED
  BY <1>1, <1>2, <1>3, <1>4, <1>5, <1>6, <1>7, <1>8, <1>9, <1>10, <1>11

\* HandlerEnds: MainQueue::mainThreadWork.
LEMMA HandlerEndsInv ==
  ASSUME WorkersAssumption, IndInv, HandlerEnds
  PROVE  IndInv'
<1> USE DEF IndInv, HandlerEnds, mqVars, wqVars, stopVars, workerVars,
    threadVars, jsVars, dogVars
<1>a. /\ UNCHANGED <<mq, children, wqVars, workerVars, threadVars, creating, finishing,
                     marked, dogVars, terminating>>
      /\ ~mainWaits /\ finishing /\ mq /\ mainPc # "undefined"
  BY DEF MainInv, WaitInv
<1>b. MainTake
  BY Zenon
<1>c. \/ /\ mqQueue = << >> /\ UNCHANGED <<mqQueue, refs>> /\ mainCurrent' = NoWorker
         /\ \/ /\ mainPc' = "close" /\ UNCHANGED mainWaits
               /\ wqQueue = << >> /\ \A t \in Threads : pc[t] \notin Holding
            \/ /\ mainPc' = "take" /\ mainWaits' = TRUE
               /\ wqQueue # << >> \/ \E t \in Threads : pc[t] \in Holding
      \/ /\ mqQueue # << >> /\ mqQueue' \in Seq(Workers) /\ mainCurrent' \in Workers
         /\ refs' = refs \cup {mainCurrent'} /\ UNCHANGED mainWaits
         /\ \/ mainPc' = "js" /\ life[mainCurrent'] = "live"
            \/ mainPc' = "undefined"
  BY <1>b, MainTakeQueue
<1>n. NoWorker \notin Workers
  BY DEF WorkersAssumption
<1>e. /\ ~wqClosed
  BY DEF QueueInv
<1>f. mainPc' = "close" /\ ~MallocFails => \A v \in Workers : pending[v] = 0
  <2> SUFFICES ASSUME mainPc' = "close", ~MallocFails, NEW v \in Workers, pending[v] # 0
               PROVE  FALSE
    OBVIOUS
  <2>1. ~Queued(wqQueue, v) /\ \A t \in Threads : ~Holds(t, v)
    BY <1>c, EmptyQueue DEF Holds
  <2>2. ~current[v]
    BY <2>1 DEF ThreadInv
  <2>3. pending[v] > 0
    BY DEF TypeOK
  <2>4. life[v] = "live"
    BY <1>a DEF LifeInv
  <2> QED
    BY <1>e, <2>1, <2>2, <2>3, <2>4 DEF StrandInv
<1>1. TypeOK'
  BY <1>a, <1>c DEF TypeOK
<1>2. ThreadInv'
  BY <1>a, <1>c DEF TypeOK, ThreadInv, Holds
<1>3. OwnedOnce'
  BY <1>a, <1>c DEF OwnedOnce, Holds
<1>4. QueueInv'
  BY <1>a, <1>c DEF TypeOK, QueueInv
<1>5. MainInv'
  BY <1>a, <1>c DEF MainInv
<1>6. WaitInv'
  BY <1>a, <1>c DEF WaitInv
<1>7. CreateInv'
  BY <1>a, <1>c DEF CreateInv
<1>8. LifeInv'
  BY <1>a, <1>c, <1>n DEF LifeInv
<1>9. MarkInv'
  BY <1>a, <1>c DEF MarkInv
<1>10. EndInv'
  BY <1>a, <1>c, <1>f DEF EndInv
<1>11. StrandInv'
  BY <1>a, <1>c DEF StrandInv, Holds
<1> QED
  BY <1>1, <1>2, <1>3, <1>4, <1>5, <1>6, <1>7, <1>8, <1>9, <1>10, <1>11

\* Close: ThreadSafeQueue::close.
LEMMA CloseInv ==
  ASSUME IndInv, Close
  PROVE  IndInv'
<1> USE DEF IndInv, Close, mqVars, wqVars, stopVars, workerVars,
    threadVars, jsVars, dogVars
<1>1. TypeOK'
  BY DEF TypeOK
<1>2. ThreadInv'
  BY DEF TypeOK, ThreadInv, Holds
<1>3. OwnedOnce'
  BY DEF TypeOK, ThreadInv, OwnedOnce, QueueInv, MainInv, WaitInv, CreateInv, LifeInv, MarkInv, EndInv, StrandInv, Holds
<1>4. QueueInv'
  BY DEF TypeOK, QueueInv, MainInv, EndInv
<1>5. MainInv'
  BY DEF MainInv
<1>6. WaitInv'
  BY DEF WaitInv
<1>7. CreateInv'
  BY DEF CreateInv
<1>8. LifeInv'
  BY DEF TypeOK, ThreadInv, OwnedOnce, QueueInv, MainInv, WaitInv, CreateInv, LifeInv, MarkInv, EndInv, StrandInv
<1>9. MarkInv'
  BY DEF MarkInv
<1>10. EndInv'
  BY DEF EndInv
<1>11. StrandInv'
  BY DEF StrandInv, Holds
<1> QED
  BY <1>1, <1>2, <1>3, <1>4, <1>5, <1>6, <1>7, <1>8, <1>9, <1>10, <1>11

\* Shutdown: ThreadPool::shutdown.
LEMMA ShutdownInv ==
  ASSUME WorkersAssumption, IndInv, Shutdown
  PROVE  IndInv'
<1> USE DEF IndInv, Shutdown, mqVars, wqVars, stopVars, workerVars,
    threadVars, jsVars, dogVars
<1>a. /\ wqClosed /\ wqQueue = << >> /\ waiting = {} /\ mainPc = "join" /\ mq
      /\ \A u \in Threads : pc[u] \notin Holding
      /\ mainCurrent = NoWorker
  BY DEF QueueInv, EndInv, MainInv
<1>b. \A v \in Workers : life'[v] # "live" /\ life'[v] # "initializing"
  <2>1. \A v \in Workers : life[v] \in {"initializing", "live"} => v \in children
    BY <1>a DEF LifeInv
  <2>2. \A v \in Workers : life'[v] = IF v \in children THEN "disposed" ELSE life[v]
    OBVIOUS
  <2> QED
    BY <2>1, <2>2
<1>c. /\ \A v \in Workers : pending'[v] = IF v \in children THEN 0 ELSE pending[v]
      /\ pending' \in [Workers -> Nat]
  BY DEF TypeOK
<1>d. \A v \in Workers : pending'[v] = 0 \/ pending'[v] = pending[v]
  BY <1>c
<1>e. \A v \in Workers : pending'[v] = 0
  <2>1. \A v \in Workers : v \notin children => life[v] # "live"
    BY <1>a DEF LifeInv
  <2> QED
    BY <1>a, <1>c, <2>1 DEF LifeInv
<1>n. NoWorker \notin Workers
  BY DEF WorkersAssumption
<1>r. mainPc' # "finished" => refs = {}
  BY <1>a DEF LifeInv, EndInv, TypeOK
<1>1. TypeOK'
  BY DEF TypeOK, ThreadInv, OwnedOnce, QueueInv, MainInv, WaitInv, CreateInv, LifeInv, MarkInv, EndInv, StrandInv
<1>2. ThreadInv'
  BY DEF TypeOK, ThreadInv, Holds
<1>3. OwnedOnce'
  BY DEF OwnedOnce, Holds
<1>4. QueueInv'
  <2>1. \A v \in Workers : ~Queued(wqQueue, v)
    BY <1>a, EmptyQueue
  <2> QED
    BY <1>a, <1>e, <2>1 DEF QueueInv
<1>5. MainInv'
  BY DEF TypeOK, MainInv, QueueInv, EndInv
<1>6. WaitInv'
  BY DEF WaitInv
<1>7. CreateInv'
  BY DEF CreateInv
<1>8. LifeInv'
  <2>1. \A v \in Workers : ~Queued(wqQueue, v)
    BY <1>a, EmptyQueue
  <2>2. \A v \in Workers : v # mainCurrent
    BY <1>a, <1>n
  <2> QED
    BY <1>a, <1>b, <1>e, <1>r, <2>1, <2>2 DEF LifeInv
<1>9. MarkInv'
  BY DEF MarkInv
<1>10. EndInv'
  BY DEF EndInv
<1>11. StrandInv'
  BY DEF TypeOK, StrandInv, CreateInv, LifeInv, MainInv, Holds
<1> QED
  BY <1>1, <1>2, <1>3, <1>4, <1>5, <1>6, <1>7, <1>8, <1>9, <1>10, <1>11

\* TerminateAll: ThreadPool::terminateAll.
LEMMA TerminateAllInv ==
  ASSUME IndInv, TerminateAll
  PROVE  IndInv'
<1> USE DEF IndInv, TerminateAll, mqVars, wqVars, stopVars, workerVars,
    threadVars, jsVars, dogVars
<1>1. TypeOK'
  BY DEF TypeOK
<1>2. ThreadInv'
  BY DEF TypeOK, ThreadInv, Holds
<1>3. OwnedOnce'
  BY DEF OwnedOnce, Holds
<1>4. QueueInv'
  BY DEF TypeOK, QueueInv
<1>5. MainInv'
  BY DEF MainInv
<1>6. WaitInv'
  BY DEF WaitInv
<1>7. CreateInv'
  BY DEF CreateInv
<1>8. LifeInv'
  BY DEF LifeInv
<1>9. MarkInv'
  BY DEF MarkInv
<1>10. EndInv'
  BY DEF EndInv
<1>11. StrandInv'
  BY DEF StrandInv, Holds
<1> QED
  BY <1>1, <1>2, <1>3, <1>4, <1>5, <1>6, <1>7, <1>8, <1>9, <1>10, <1>11

\* NotifyTerminating: WorkerParent::notifyTerminating.
LEMMA NotifyTerminatingInv ==
  ASSUME IndInv, NotifyTerminating
  PROVE  IndInv'
<1> USE DEF IndInv, NotifyTerminating, mqVars, wqVars, stopVars, workerVars,
    threadVars, jsVars, dogVars
<1>1. TypeOK'
  BY DEF TypeOK
<1>2. ThreadInv'
  BY DEF TypeOK, ThreadInv, Holds
<1>3. OwnedOnce'
  BY DEF OwnedOnce, Holds
<1>4. QueueInv'
  BY DEF TypeOK, QueueInv
<1>5. MainInv'
  BY DEF MainInv
<1>6. WaitInv'
  BY DEF WaitInv
<1>7. CreateInv'
  BY DEF CreateInv
<1>8. LifeInv'
  BY DEF LifeInv
<1>9. MarkInv'
  BY DEF MarkInv
<1>10. EndInv'
  BY DEF EndInv
<1>11. StrandInv'
  BY DEF StrandInv, Holds
<1> QED
  BY <1>1, <1>2, <1>3, <1>4, <1>5, <1>6, <1>7, <1>8, <1>9, <1>10, <1>11

\* NotifyChild: Worker::notifyTerminating.
LEMMA NotifyChildInv ==
  ASSUME IndInv, NEW w \in Workers, NotifyChild(w)
  PROVE  IndInv'
<1> USE DEF IndInv, NotifyChild, SetTerminateFlag, mqVars, wqVars, stopVars, workerVars,
    threadVars, jsVars, dogVars
<1>1. TypeOK'
  BY DEF TypeOK
<1>2. ThreadInv'
  BY DEF TypeOK, ThreadInv, Holds
<1>3. OwnedOnce'
  BY DEF OwnedOnce, Holds
<1>4. QueueInv'
  BY DEF TypeOK, QueueInv
<1>5. MainInv'
  BY DEF MainInv
<1>6. WaitInv'
  BY DEF WaitInv
<1>7. CreateInv'
  BY DEF CreateInv
<1>8. LifeInv'
  BY DEF LifeInv
<1>9. MarkInv'
  BY DEF MarkInv
<1>10. EndInv'
  BY DEF EndInv
<1>11. StrandInv'
  BY DEF StrandInv, Holds
<1> QED
  BY <1>1, <1>2, <1>3, <1>4, <1>5, <1>6, <1>7, <1>8, <1>9, <1>10, <1>11

\* NotifyEnds: WorkerParent::notifyTerminating.
LEMMA NotifyEndsInv ==
  ASSUME IndInv, NotifyEnds
  PROVE  IndInv'
<1> USE DEF IndInv, NotifyEnds, mqVars, wqVars, stopVars, workerVars,
    threadVars, jsVars, dogVars
<1>1. TypeOK'
  BY DEF TypeOK
<1>2. ThreadInv'
  BY DEF TypeOK, ThreadInv, Holds
<1>3. OwnedOnce'
  BY DEF OwnedOnce, Holds
<1>4. QueueInv'
  BY DEF TypeOK, QueueInv
<1>5. MainInv'
  BY DEF MainInv
<1>6. WaitInv'
  BY DEF WaitInv
<1>7. CreateInv'
  BY DEF CreateInv
<1>8. LifeInv'
  BY DEF LifeInv
<1>9. MarkInv'
  BY DEF MarkInv
<1>10. EndInv'
  BY DEF EndInv
<1>11. StrandInv'
  BY DEF StrandInv, Holds
<1> QED
  BY <1>1, <1>2, <1>3, <1>4, <1>5, <1>6, <1>7, <1>8, <1>9, <1>10, <1>11

\* SpuriousWakeup: PR_WaitCondVar.
LEMMA SpuriousWakeupInv ==
  ASSUME IndInv, SpuriousWakeup
  PROVE  IndInv'
<1> USE DEF IndInv, SpuriousWakeup, mqVars, wqVars, stopVars, workerVars,
    threadVars, jsVars, dogVars
<1>1. TypeOK'
  BY DEF TypeOK
<1>2. ThreadInv'
  BY DEF TypeOK, ThreadInv, Holds
<1>3. OwnedOnce'
  BY DEF OwnedOnce, Holds
<1>4. QueueInv'
  BY DEF TypeOK, QueueInv
<1>5. MainInv'
  BY DEF MainInv
<1>6. WaitInv'
  BY DEF WaitInv
<1>7. CreateInv'
  BY DEF CreateInv
<1>8. LifeInv'
  BY DEF LifeInv
<1>9. MarkInv'
  BY DEF MarkInv
<1>10. EndInv'
  BY DEF EndInv
<1>11. StrandInv'
  BY DEF StrandInv, Holds
<1> QED
  BY <1>1, <1>2, <1>3, <1>4, <1>5, <1>6, <1>7, <1>8, <1>9, <1>10, <1>11

-----------------------------------------------------------------------------
(* The theorems.                                                            *)

\* The shell starts with no pool and no worker.
LEMMA InitIndInv == WorkersAssumption /\ Init => IndInv
<1> SUFFICES ASSUME WorkersAssumption, Init
             PROVE  IndInv
  OBVIOUS
<1>1. NoWorker \notin Workers
  BY DEF WorkersAssumption
<1>2. TypeOK
  <2>1. /\ \A f \in {current, terminated, terminateFlag, interrupt} : f \in [Workers -> BOOLEAN]
        /\ life \in [Workers -> Lives] /\ pending \in [Workers -> Nat]
    BY DEF Init
  <2>2. /\ pc \in [Threads -> Pcs] /\ loops \in [Threads -> BOOLEAN]
        /\ mine \in [Threads -> Workers \cup {NoWorker}]
    BY DEF Init
  <2> QED
    BY <2>1, <2>2, EmptyQueue DEF Init, TypeOK
<1>3. ThreadInv /\ OwnedOnce /\ StrandInv
  BY EmptyQueue DEF Init, ThreadInv, OwnedOnce, StrandInv, Holds
<1>4. QueueInv /\ MainInv /\ WaitInv
  BY EmptyQueue DEF Init, QueueInv, MainInv, WaitInv
<1>5. CreateInv /\ MarkInv /\ EndInv
  BY DEF Init, CreateInv, MarkInv, EndInv
<1>6. LifeInv
  BY <1>1, EmptyQueue DEF Init, LifeInv
<1> QED
  BY <1>2, <1>3, <1>4, <1>5, <1>6 DEF IndInv

\* A step that changes nothing preserves the invariant.
LEMMA StutterIndInv ==
  ASSUME IndInv, UNCHANGED vars
  PROVE  IndInv'
<1> USE DEF IndInv, vars, mqVars, wqVars, stopVars, workerVars, threadVars, jsVars, dogVars
<1>1. TypeOK' /\ MainInv' /\ WaitInv'
  BY DEF TypeOK, MainInv, WaitInv
<1>2. ThreadInv' /\ OwnedOnce' /\ StrandInv'
  BY DEF ThreadInv, OwnedOnce, StrandInv, Holds
<1>3. QueueInv' /\ CreateInv' /\ LifeInv' /\ MarkInv' /\ EndInv'
  BY DEF QueueInv, CreateInv, LifeInv, MarkInv, EndInv
<1> QED
  BY <1>1, <1>2, <1>3

\* Every step preserves the invariant.
LEMMA NextIndInv == WorkersAssumption /\ IndInv /\ [Next]_vars => IndInv'
<1> SUFFICES ASSUME WorkersAssumption, IndInv, [Next]_vars
             PROVE  IndInv'
  OBVIOUS
<1>1. ASSUME NEW t \in Threads, Thread(t)
      PROVE  IndInv'
  BY <1>1, WorkTakeInv, StartEventInv, ScriptEndsInv, OperationCallbackInv,
     PostUpMessageInv, FailedInv, PostErrorEventInv, EndEventInv, DropInv, WakeMainInv
     DEF Thread
<1>2. CASE Script
  BY <1>2, PostMessageToParentInv, NestedConstructInv DEF Script
<1>3. CASE MainScript
  BY <1>3, StartPoolInv, QuitInv, FinishInv, CollectBeginInv, AddChildInv,
     PostMessageToChildInv, TerminateInv, DropReferenceInv DEF MainScript
<1>4. CASE MainContinues
  BY <1>4, InitWorkerInv, PostInitEventInv, NoInitEventInv, DisposeNewWorkerInv, TraceMainInv,
     TraceWorkersInv, SweepInv, MainTakesInv, HandlerEndsInv, CloseInv, ShutdownInv
     DEF MainContinues
<1>5. CASE Watchdog
  BY <1>5, NotifyTerminatingInv, NotifyEndsInv, NotifyChildInv DEF Watchdog
<1>6. CASE TerminateAll \/ SpuriousWakeup \/ Stopped \/ UNCHANGED vars
  BY <1>6, TerminateAllInv, SpuriousWakeupInv, StutterIndInv DEF Stopped
<1> QED
  BY <1>1, <1>2, <1>3, <1>4, <1>5, <1>6 DEF Next, ThreadSteps

\* IndInv is an invariant of the workers.
THEOREM Invariance == WorkersAssumption => (Spec => []IndInv)
<1> SUFFICES ASSUME WorkersAssumption
             PROVE  Spec => []IndInv
  OBVIOUS
<1>1. Init => IndInv
  BY InitIndInv
<1>2. IndInv /\ [Next]_vars => IndInv'
  BY NextIndInv
<1> QED
  BY <1>1, <1>2, PTL DEF Spec

\* Two threads never run a worker at the same time, as the comment of
\* WorkerQueue promises; Worker::current is set exactly while a thread is in
\* processOneEvent with it, and a terminated worker has no events.
THEOREM WorkersHaveOneOwner == WorkersAssumption => (Spec => []WorkersOwned)
<1>1. IndInv => WorkersOwned
  <2> SUFFICES ASSUME IndInv
               PROVE  WorkersOwned
    OBVIOUS
  <2>1. ASSUME NEW t \in Threads, pc[t] \in Holding \ {"drop"}
        PROVE  mine[t] \in Workers /\ Holds(t, mine[t])
    BY <2>1 DEF IndInv, ThreadInv, Holds
  <2>2. \A i \in 1..Len(wqQueue) : Queued(wqQueue, wqQueue[i])
    BY DEF Queued, Elements
  <2>3. ASSUME NEW t \in Threads, NEW u \in Threads, t # u, mine[t] = mine[u],
               pc[t] \in Holding \ {"drop"}, pc[u] \in Holding \ {"drop"}
        PROVE  FALSE
    BY <2>1, <2>3 DEF IndInv, OwnedOnce
  <2>4. ASSUME NEW t \in Threads, NEW i \in 1..Len(wqQueue), mine[t] = wqQueue[i],
               pc[t] \in Holding \ {"drop"}
        PROVE  FALSE
    BY <2>1, <2>2, <2>4 DEF IndInv, OwnedOnce
  <2>5. OneThreadPerWorker
    BY <2>3, <2>4 DEF IndInv, OwnedOnce, Distinct, OneThreadPerWorker
  <2>6. ASSUME NEW w \in Workers
        PROVE  /\ current[w] <=> \E t \in Threads : mine[t] = w /\ pc[t] \in Processing
               /\ terminated[w] => pending[w] = 0
    <3>1. ASSUME current[w]
          PROVE  \E t \in Threads : mine[t] = w /\ pc[t] \in Processing
      <4>1. PICK t \in Threads : Holds(t, w)
        BY <3>1 DEF IndInv, ThreadInv
      <4>2. mine[t] = w /\ pc[t] \in Processing
        BY <3>1, <4>1 DEF IndInv, ThreadInv, Holds
      <4> QED
        BY <4>2
    <3> QED
      BY <3>1 DEF IndInv, ThreadInv, QueueInv, TypeOK
  <2> QED
    BY <2>5, <2>6 DEF IndInv, WorkersOwned, CurrentIffProcessing
<1>2. WorkersAssumption => (Spec => []IndInv)
  BY Invariance
<1> QED
  BY <1>1, <1>2, PTL

\* A thread sleeps only when the open queue is empty, the main thread only
\* while somebody will wake it; and a worker with events is queued or about to
\* be looked at, if no allocation fails.
THEOREM NothingIsStranded == WorkersAssumption => (Spec => []NothingStranded)
<1>1. IndInv => NothingStranded
  <2> SUFFICES ASSUME IndInv
               PROVE  NothingStranded
    OBVIOUS
  <2>1. LockedIsIdle(wqQueue, {mine[u] : u \in {v \in Threads : pc[v] \in Holding}})
          <=> wqQueue = << >> /\ \A t \in Threads : pc[t] \notin Holding
    BY IdleQueue
  <2>2. NoLostWakeup
    BY <2>1 DEF Busy, IndInv, QueueInv, WaitInv, NoLostWakeup
  <2>3. ASSUME ~MallocFails, NEW w \in Workers, life[w] = "live", pending[w] > 0,
               ~current[w], ~wqClosed
        PROVE  \/ w \in Elements(wqQueue)
               \/ \E t \in Threads : mine[t] = w /\ pc[t] = "start"
    <3>1. CASE Queued(wqQueue, w)
      BY <3>1 DEF Queued
    <3>2. ASSUME NEW t \in Threads, Holds(t, w)
          PROVE  mine[t] = w /\ pc[t] = "start"
      BY <2>3, <3>2 DEF IndInv, ThreadInv, Holds
    <3> QED
      BY <2>3, <3>1, <3>2 DEF IndInv, StrandInv
  <2> QED
    BY <2>2, <2>3 DEF NothingStranded, NoEventStranded
<1>2. WorkersAssumption => (Spec => []IndInv)
  BY Invariance
<1> QED
  BY <1>1, <1>2, PTL

\* Rule (b) of the lifetime rules: a worker in the queue, with a thread or with
\* the main thread's handler is not collected; and finish() closes the queue
\* only when no event is pending anywhere, if no allocation fails.
THEOREM LifetimesAreKept == WorkersAssumption => (Spec => []LifetimesKept)
<1>1. IndInv => LifetimesKept
  <2> SUFFICES ASSUME IndInv
               PROVE  LifetimesKept
    OBVIOUS
  <2>1. wqQueue \in Seq(Workers)
    BY DEF IndInv, TypeOK
  <2>2. \A v : v \in Elements(wqQueue) <=> Queued(wqQueue, v)
    BY <2>1, ElementsQueued
  <2>3. Elements(wqQueue) \subseteq Workers
    BY <2>1, ElementsQueued
  <2>4. BusyWorkerAlive
    BY <2>2, <2>3 DEF Busy, BusyWorkerAlive, IndInv, LifeInv, TypeOK
  <2>5. ASSUME mainPc \in {"close", "join"}
        PROVE  Busy = {} /\ \A w \in Workers : ~current[w]
    BY <2>5 DEF Busy, IndInv, EndInv, ThreadInv, Holds
  <2>6. ~MallocFails => FinishWaitsForAll
    BY <2>5 DEF FinishWaitsForAll, IndInv, EndInv
  <2> QED
    BY <2>4, <2>6 DEF LifetimesKept
<1>2. WorkersAssumption => (Spec => []IndInv)
  BY Invariance
<1> QED
  BY <1>1, <1>2, PTL

\* A terminated worker starts no other event and is never revived.
LEMMA TerminatedStep ==
  ASSUME IndInv, [Next]_vars, NEW w \in Workers, terminated[w]
  PROVE  terminated'[w] /\ (current'[w] => current[w])
<1> USE DEF IndInv, TypeOK, mqVars, wqVars, stopVars, workerVars, threadVars, jsVars,
            dogVars
<1>1. \A v \in Workers : \A n : CheckTermination(v, n) => terminated'[w]
  BY DEF CheckTermination
<1>2. ASSUME NEW t \in Threads, Thread(t)
      PROVE  terminated'[w] /\ (current'[w] => current[w])
  <2>1. CASE StartEvent(t)
    <3>1. mine[t] \in Workers /\ terminated'[w]
      BY <1>1, <2>1 DEF StartEvent, ThreadInv
    <3> QED
      BY <2>1, <3>1 DEF StartEvent
  <2>2. CASE OperationCallback(t) \/ Failed(t) \/ EndEvent(t)
    <3>1. mine[t] \in Workers
      BY <2>2 DEF OperationCallback, Failed, EndEvent, ThreadInv
    <3>2. CheckTermination(mine[t], pending[mine[t]])
      BY <2>2, Zenon DEF OperationCallback, Failed, EndEvent
    <3>4. terminated'[w]
      BY <1>1, <3>1, <3>2
    <3>3. current' = current \/ current' = [current EXCEPT ![mine[t]] = FALSE]
      BY <2>2 DEF OperationCallback, Failed, EndEvent
    <3> QED
      BY <3>1, <3>3, <3>4
  <2>3. CASE WorkTake(t) \/ ScriptEnds(t) \/ PostUpMessage(t) \/ PostErrorEvent(t)
             \/ Drop(t) \/ WakeMain(t)
    BY <2>3 DEF WorkTake, ScriptEnds, PostUpMessage, PostErrorEvent, Drop, WakeMain
  <2> QED
    BY <1>2, <2>1, <2>2, <2>3 DEF Thread
<1>3. CASE Script
  <2>1. ASSUME NEW t \in Threads, PostMessageToParent(t)
        PROVE  terminated'[w] /\ current' = current
    BY <1>1, <2>1 DEF PostMessageToParent, ThreadInv
  <2> QED
    BY <1>3, <2>1 DEF Script, NestedConstruct
<1>4. ~Script /\ (\A t \in Threads : ~Thread(t)) => UNCHANGED <<terminated, current>>
  <2> SUFFICES ASSUME ~Script, \A t \in Threads : ~Thread(t)
               PROVE  UNCHANGED <<terminated, current>>
    OBVIOUS
  <2>1. CASE MainScript
    BY <2>1 DEF MainScript, StartPool, Quit, Finish, CollectBegin, AddChild,
       PostMessageToChild, Terminate, DropReference
  <2>2. CASE MainContinues
    BY <2>2 DEF MainContinues, InitWorker, PostInitEvent, NoInitEvent, DisposeNewWorker, TraceMain,
       TraceWorkers, Sweep, MainTakes, HandlerEnds, Close, Shutdown
  <2>3. CASE Watchdog \/ TerminateAll \/ SpuriousWakeup \/ Stopped \/ UNCHANGED vars
    BY <2>3 DEF Watchdog, NotifyTerminating, NotifyEnds, NotifyChild, TerminateAll,
       SpuriousWakeup, Stopped, vars
  <2> QED
    BY <2>1, <2>2, <2>3 DEF Next, ThreadSteps
<1> QED
  BY <1>2, <1>3, <1>4

\* lockedCheckTermination: once terminated a worker stays so, and starts no
\* other event.
THEOREM TerminatedStaysSo == WorkersAssumption => (Spec => TerminatedRunsNothing)
<1>1. IndInv /\ [Next]_vars =>
        [\A w \in Workers : terminated[w] =>
            terminated'[w] /\ (current'[w] => current[w])]_vars
  BY TerminatedStep
<1>2. WorkersAssumption => (Spec => []IndInv)
  BY Invariance
<1> QED
  BY <1>1, <1>2, PTL DEF Spec, TerminatedRunsNothing

=============================================================================
