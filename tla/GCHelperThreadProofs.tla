------------------------ MODULE GCHelperThreadProofs ------------------------
(***************************************************************************)
(* The safety properties of GCHelperThread, for every number of kinds and   *)
(* every set of chunks.  IndInv is the inductive invariant; its parts say   *)
(* what the two program counters and the state of the helper tell about     *)
(* each other, about the queue of arena lists and about the chunks.         *)
(***************************************************************************)
EXTENDS GCHelperThread, TLAPS

-----------------------------------------------------------------------------
(* The inductive invariant.                                                 *)

\* The helper's place, and what the state of the request allows it to do.
HelperInv ==
  /\ helperPc = "finalize" => state = "SWEEPING"
  /\ helperPc \in {"unmap", "decommit"} => state \in {"SWEEPING", "SHUTDOWN"}
  /\ helperPc = "allocate" => state \in {"ALLOCATING", "CANCEL_ALLOCATION"}
  /\ helperPc = "exit" => state = "SHUTDOWN"
  /\ sweepFlag => state = "SWEEPING" /\ helperPc = "loop"
  /\ helperWaits => state = "IDLE" /\ helperPc = "loop"

\* The main thread's place, and the states it can find the helper in.
MainInv ==
  /\ state = "SHUTDOWN" <=> mainPc \in {"join", "done"}
  /\ mainPc = "done" => helperPc = "exit"
  /\ mainPc \in {"gc", "gcSweep", "retry"} => state = "IDLE"
  /\ mainPc = "heap" => state \in {"IDLE", "ALLOCATING"}
  /\ mainPc \in {"gcWait", "iterWait", "oomWait"} =>
       state \in {"IDLE", "SWEEPING", "CANCEL_ALLOCATION"}
  /\ mainPc \in {"heapWait", "allocWait"} => state \in {"IDLE", "SWEEPING"}
  /\ state = "CANCEL_ALLOCATION" => mainPc \in {"gcWait", "iterWait", "oomWait"}
  /\ mainWaits => /\ mainPc \in {"gcWait", "iterWait", "oomWait", "heapWait",
                                 "allocWait"}
                  /\ state \in {"SWEEPING", "CANCEL_ALLOCATION"}

\* Without contexts nothing is finalized in the background or allocated, once
\* the last collection has waited for the helper.
ContextInv ==
  /\ mainPc # "gcSweep" => sweepNext = 1 /\ ~background
  /\ background => contexts
  /\ mainPc \in {"join", "done"} => ~contexts
  /\ ~contexts /\ mainPc # "gcWait" =>
       /\ helperPc # "finalize" /\ ~sweepFlag
       /\ state \in {"IDLE", "SWEEPING", "SHUTDOWN"}

\* The queue of arena lists.
QueueInv ==
  /\ finalized <= Len(finalizeVector)
  /\ helperPc # "finalize" => finalized = 0
  /\ (helperPc # "finalize" /\ ~sweepFlag /\ ~background) =>
       finalizeVector = << >> /\ ~freeLater
  /\ mainPc = "gcSweep" =>
       \A i \in 1..Len(finalizeVector) : finalizeVector[i] < sweepNext

\* The last collection, which is full, leaves every kind BFS_DONE.
LastGCInv ==
  ~contexts => \A k \in Kinds :
    \/ bfs[k] = "DONE"
    \/ mainPc \in {"gcWait", "gc"} /\ collecting = Kinds
    \/ mainPc = "gcSweep" /\ collecting = Kinds /\ sweepNext <= k

\* The pool of empty chunks, the expired chunks and the request to shrink.
ShrinkInv ==
  /\ helperPc # "unmap" => toFree = {}
  /\ shrinking => helperPc \in {"unmap", "decommit"} /\ pool = {}
  /\ helperPc = "decommit" => shrinking
  /\ shrinkAsked => shrinkFlag \/ shrinking

IndInv ==
  /\ TypeOK /\ HelperInv /\ MainInv /\ ContextInv /\ QueueInv
  /\ RunIffQueued /\ JustFinishedHasArenas /\ LastGCInv
  /\ ChunkOwnership /\ ShrinkInv


-----------------------------------------------------------------------------
(* One lemma per action: it preserves each part of the invariant.           *)

USE ConstantsAssumption DEF Kinds, Ages, States, BFS, MainPcs, HelperPcs

\* A request to shrink preserves the invariant (startBackgroundShrink).
LEMMA ShrinkGCBuffersStep ==
  ASSUME IndInv, ShrinkGCBuffers
  PROVE  IndInv'
<1> USE DEF IndInv, ShrinkGCBuffers, StartBackgroundShrink, NotifyWakeup,
        requestVars, listVars, chunkVars, gcVars, mainVars,
        helperVars
<1>0. FlagsOK'
  <2>1. shrinkFlag' \in BOOLEAN
    BY Zenon DEF TypeOK, FlagsOK
  <2>2. shrinkAsked' \in BOOLEAN
    BY Zenon DEF TypeOK, FlagsOK
  <2>3. helperWaits' \in BOOLEAN
    BY Zenon DEF TypeOK, FlagsOK
  <2> QED
    BY <2>1, <2>2, <2>3 DEF TypeOK, FlagsOK
<1>1. TypeOK'
  BY <1>0 DEF TypeOK
<1>2. HelperInv'
  BY DEF TypeOK, HelperInv, MainInv, ContextInv
<1>3. MainInv'
  BY DEF TypeOK, HelperInv, MainInv, ContextInv
<1>4. ContextInv'
  BY DEF TypeOK, HelperInv, MainInv, ContextInv
<1>5. QueueInv'
  BY DEF TypeOK, HelperInv, MainInv, ContextInv, QueueInv
<1>6. RunIffQueued'
  BY DEF TypeOK, HelperInv, MainInv, QueueInv, RunIffQueued
<1>7. JustFinishedHasArenas'
  BY DEF TypeOK, JustFinishedHasArenas
<1>8. LastGCInv'
  BY DEF TypeOK, HelperInv, MainInv, ContextInv, LastGCInv
<1>9. ChunkOwnership'
  BY DEF TypeOK, HelperInv, ShrinkInv, ChunkOwnership
<1>10. ShrinkInv'
  BY DEF TypeOK, HelperInv, MainInv, ShrinkInv
<1> QED
  BY <1>1, <1>2, <1>3, <1>4, <1>5, <1>6, <1>7, <1>8, <1>9, <1>10

\* Allocation preserves the invariant (allocateFromArena, PickChunk).
LEMMA AllocateFromArenaStep ==
  ASSUME NEW k \in Kinds, IndInv, AllocateFromArena(k)
  PROVE  IndInv'
<1> USE DEF IndInv, AllocateFromArena, PickChunk, WantBackgroundAllocation,
        Heads, Unmapped, MoreFree, NotifyWakeup, requestVars,
        listVars, chunkVars, gcVars, mainVars,         helperVars
<1>0. FlagsOK'
  <2>1. chunkAllocation' \in BOOLEAN
    BY Zenon DEF TypeOK, FlagsOK
  <2>2. helperWaits' \in BOOLEAN
    BY Zenon DEF TypeOK, FlagsOK
  <2> QED
    BY <2>1, <2>2 DEF TypeOK, FlagsOK
<1>1. TypeOK'
  <2>1. bfs' \in [Kinds -> BFS] /\ arenas' \in SUBSET Kinds
    BY DEF TypeOK
  <2>2. state' \in States /\ pool' \in SUBSET Chunks /\ chunkSet' \in SUBSET Chunks
    BY DEF TypeOK
  <2>3. freeCommitted' \in Nat
    BY DEF TypeOK
  <2>4. age' \in [Chunks -> Ages]
    <3>1. CASE UNCHANGED age
      BY <3>1 DEF TypeOK
    <3>2. CASE PickChunk
      BY <3>2 DEF TypeOK
    <3> QED
      BY <3>1, <3>2
  <2> QED
    BY <1>0, <2>1, <2>2, <2>3, <2>4 DEF TypeOK
<1>2. HelperInv'
  BY DEF TypeOK, HelperInv, MainInv, ContextInv
<1>3. MainInv'
  BY DEF TypeOK, HelperInv, MainInv, ContextInv
<1>4. ContextInv'
  BY DEF TypeOK, HelperInv, MainInv, ContextInv
<1>5. QueueInv'
  BY DEF TypeOK, HelperInv, MainInv, ContextInv, QueueInv
<1>6. RunIffQueued'
  BY DEF TypeOK, HelperInv, MainInv, QueueInv, RunIffQueued
<1>7. JustFinishedHasArenas'
  BY DEF TypeOK, JustFinishedHasArenas
<1>8. LastGCInv'
  BY DEF TypeOK, HelperInv, MainInv, ContextInv, LastGCInv
<1>9. ChunkOwnership'
  BY DEF TypeOK, HelperInv, ShrinkInv, ChunkOwnership
<1>10. ShrinkInv'
  BY DEF TypeOK, HelperInv, MainInv, ShrinkInv
<1> QED
  BY <1>1, <1>2, <1>3, <1>4, <1>5, <1>6, <1>7, <1>8, <1>9, <1>10

\* Waiting for the sweep in refillFreeList preserves the invariant.
LEMMA RefillWaitStep ==
  ASSUME IndInv, RefillWait
  PROVE  IndInv'
<1> USE DEF IndInv, RefillWait, WaitBackgroundSweepEnd, WaitDone, requestVars,
        listVars, chunkVars, gcVars, mainVars,         helperVars
<1>0. FlagsOK'
  BY DEF TypeOK, FlagsOK
<1>1. TypeOK'
  BY <1>0 DEF TypeOK
<1>2. HelperInv'
  BY DEF TypeOK, HelperInv, MainInv, ContextInv
<1>3. MainInv'
  BY DEF TypeOK, HelperInv, MainInv, ContextInv
<1>4. ContextInv'
  BY DEF TypeOK, HelperInv, MainInv, ContextInv
<1>5. QueueInv'
  BY DEF TypeOK, HelperInv, MainInv, ContextInv, QueueInv
<1>6. RunIffQueued'
  BY DEF TypeOK, HelperInv, MainInv, QueueInv, RunIffQueued
<1>7. JustFinishedHasArenas'
  BY DEF TypeOK, JustFinishedHasArenas
<1>8. LastGCInv'
  BY DEF TypeOK, HelperInv, MainInv, ContextInv, LastGCInv
<1>9. ChunkOwnership'
  BY DEF TypeOK, HelperInv, ShrinkInv, ChunkOwnership
<1>10. ShrinkInv'
  BY DEF TypeOK, HelperInv, MainInv, ShrinkInv
<1> QED
  BY <1>1, <1>2, <1>3, <1>4, <1>5, <1>6, <1>7, <1>8, <1>9, <1>10

\* The shrink of onOutOfMemory preserves the invariant.
LEMMA OnOutOfMemoryStep ==
  ASSUME IndInv, OnOutOfMemory
  PROVE  IndInv'
<1> USE DEF IndInv, OnOutOfMemory, StartBackgroundShrink, NotifyWakeup,
        requestVars, listVars, chunkVars, gcVars, mainVars,
        helperVars
<1>0. FlagsOK'
  <2>1. shrinkFlag' \in BOOLEAN
    BY Zenon DEF TypeOK, FlagsOK
  <2>2. shrinkAsked' \in BOOLEAN
    BY Zenon DEF TypeOK, FlagsOK
  <2>3. helperWaits' \in BOOLEAN
    BY Zenon DEF TypeOK, FlagsOK
  <2> QED
    BY <2>1, <2>2, <2>3 DEF TypeOK, FlagsOK
<1>1. TypeOK'
  BY <1>0 DEF TypeOK
<1>2. HelperInv'
  BY DEF TypeOK, HelperInv, MainInv, ContextInv
<1>3. MainInv'
  BY DEF TypeOK, HelperInv, MainInv, ContextInv
<1>4. ContextInv'
  BY DEF TypeOK, HelperInv, MainInv, ContextInv
<1>5. QueueInv'
  BY DEF TypeOK, HelperInv, MainInv, ContextInv, QueueInv
<1>6. RunIffQueued'
  BY DEF TypeOK, HelperInv, MainInv, QueueInv, RunIffQueued
<1>7. JustFinishedHasArenas'
  BY DEF TypeOK, JustFinishedHasArenas
<1>8. LastGCInv'
  BY DEF TypeOK, HelperInv, MainInv, ContextInv, LastGCInv
<1>9. ChunkOwnership'
  BY DEF TypeOK, HelperInv, ShrinkInv, ChunkOwnership
<1>10. ShrinkInv'
  BY DEF TypeOK, HelperInv, MainInv, ShrinkInv
<1> QED
  BY <1>1, <1>2, <1>3, <1>4, <1>5, <1>6, <1>7, <1>8, <1>9, <1>10

\* The wait of onOutOfMemory preserves the invariant.
LEMMA OnOutOfMemoryWaitStep ==
  ASSUME IndInv, OnOutOfMemoryWait
  PROVE  IndInv'
<1> USE DEF IndInv, OnOutOfMemoryWait, WaitBackgroundSweepOrAllocEnd, WaitDone,
        requestVars, listVars, chunkVars, gcVars, mainVars,
        helperVars
<1>0. FlagsOK'
  BY DEF TypeOK, FlagsOK
<1>1. TypeOK'
  BY <1>0 DEF TypeOK
<1>2. HelperInv'
  BY DEF TypeOK, HelperInv, MainInv, ContextInv
<1>3. MainInv'
  BY DEF TypeOK, HelperInv, MainInv, ContextInv
<1>4. ContextInv'
  BY DEF TypeOK, HelperInv, MainInv, ContextInv
<1>5. QueueInv'
  BY DEF TypeOK, HelperInv, MainInv, ContextInv, QueueInv
<1>6. RunIffQueued'
  BY DEF TypeOK, HelperInv, MainInv, QueueInv, RunIffQueued
<1>7. JustFinishedHasArenas'
  BY DEF TypeOK, JustFinishedHasArenas
<1>8. LastGCInv'
  BY DEF TypeOK, HelperInv, MainInv, ContextInv, LastGCInv
<1>9. ChunkOwnership'
  BY DEF TypeOK, HelperInv, ShrinkInv, ChunkOwnership
<1>10. ShrinkInv'
  BY DEF TypeOK, HelperInv, MainInv, ShrinkInv
<1> QED
  BY <1>1, <1>2, <1>3, <1>4, <1>5, <1>6, <1>7, <1>8, <1>9, <1>10

\* The end of onOutOfMemory preserves the invariant.
LEMMA OnOutOfMemoryRetryStep ==
  ASSUME IndInv, OnOutOfMemoryRetry
  PROVE  IndInv'
<1> USE DEF IndInv, OnOutOfMemoryRetry, requestVars, listVars, chunkVars,
        gcVars, mainVars,         helperVars
<1>0. FlagsOK'
  BY DEF TypeOK, FlagsOK
<1>1. TypeOK'
  BY <1>0 DEF TypeOK
<1>2. HelperInv'
  BY DEF TypeOK, HelperInv, MainInv, ContextInv
<1>3. MainInv'
  BY DEF TypeOK, HelperInv, MainInv, ContextInv
<1>4. ContextInv'
  BY DEF TypeOK, HelperInv, MainInv, ContextInv
<1>5. QueueInv'
  BY DEF TypeOK, HelperInv, MainInv, ContextInv, QueueInv
<1>6. RunIffQueued'
  BY DEF TypeOK, HelperInv, MainInv, QueueInv, RunIffQueued
<1>7. JustFinishedHasArenas'
  BY DEF TypeOK, JustFinishedHasArenas
<1>8. LastGCInv'
  BY DEF TypeOK, HelperInv, MainInv, ContextInv, LastGCInv
<1>9. ChunkOwnership'
  BY DEF TypeOK, HelperInv, ShrinkInv, ChunkOwnership
<1>10. ShrinkInv'
  BY DEF TypeOK, HelperInv, MainInv, ShrinkInv
<1> QED
  BY <1>1, <1>2, <1>3, <1>4, <1>5, <1>6, <1>7, <1>8, <1>9, <1>10

\* The start of a heap session preserves the invariant.
LEMMA BeginHeapSessionStep ==
  ASSUME NEW stop \in BOOLEAN, IndInv, BeginHeapSession(stop)
  PROVE  IndInv'
<1> USE DEF IndInv, BeginHeapSession, WaitBackgroundSweepEnd, WaitDone,
        WaitBackgroundSweepOrAllocEnd, requestVars, listVars,
        chunkVars, gcVars, mainVars,         helperVars
<1>0. FlagsOK'
  <2>1. gcRunning' \in BOOLEAN
    BY Zenon DEF TypeOK, FlagsOK
  <2>2. mainWaits' \in BOOLEAN
    BY Zenon DEF TypeOK, FlagsOK
  <2> QED
    BY <2>1, <2>2 DEF TypeOK, FlagsOK
<1>1. TypeOK'
  BY <1>0 DEF TypeOK
<1>2. HelperInv'
  BY DEF TypeOK, HelperInv, MainInv, ContextInv
<1>3. MainInv'
  BY DEF TypeOK, HelperInv, MainInv, ContextInv
<1>4. ContextInv'
  BY DEF TypeOK, HelperInv, MainInv, ContextInv
<1>5. QueueInv'
  BY DEF TypeOK, HelperInv, MainInv, ContextInv, QueueInv
<1>6. RunIffQueued'
  BY DEF TypeOK, HelperInv, MainInv, QueueInv, RunIffQueued
<1>7. JustFinishedHasArenas'
  BY DEF TypeOK, JustFinishedHasArenas
<1>8. LastGCInv'
  BY DEF TypeOK, HelperInv, MainInv, ContextInv, LastGCInv
<1>9. ChunkOwnership'
  BY DEF TypeOK, HelperInv, ShrinkInv, ChunkOwnership
<1>10. ShrinkInv'
  BY DEF TypeOK, HelperInv, MainInv, ShrinkInv
<1> QED
  BY <1>1, <1>2, <1>3, <1>4, <1>5, <1>6, <1>7, <1>8, <1>9, <1>10

\* The end of a heap session preserves the invariant.
LEMMA EndHeapSessionStep ==
  ASSUME IndInv, EndHeapSession
  PROVE  IndInv'
<1> USE DEF IndInv, EndHeapSession, requestVars, listVars, chunkVars, gcVars,
        mainVars,         helperVars
<1>0. FlagsOK'
  BY DEF TypeOK, FlagsOK
<1>1. TypeOK'
  BY <1>0 DEF TypeOK
<1>2. HelperInv'
  BY DEF TypeOK, HelperInv, MainInv, ContextInv
<1>3. MainInv'
  BY DEF TypeOK, HelperInv, MainInv, ContextInv
<1>4. ContextInv'
  BY DEF TypeOK, HelperInv, MainInv, ContextInv
<1>5. QueueInv'
  BY DEF TypeOK, HelperInv, MainInv, ContextInv, QueueInv
<1>6. RunIffQueued'
  BY DEF TypeOK, HelperInv, MainInv, QueueInv, RunIffQueued
<1>7. JustFinishedHasArenas'
  BY DEF TypeOK, JustFinishedHasArenas
<1>8. LastGCInv'
  BY DEF TypeOK, HelperInv, MainInv, ContextInv, LastGCInv
<1>9. ChunkOwnership'
  BY DEF TypeOK, HelperInv, ShrinkInv, ChunkOwnership
<1>10. ShrinkInv'
  BY DEF TypeOK, HelperInv, MainInv, ShrinkInv
<1> QED
  BY <1>1, <1>2, <1>3, <1>4, <1>5, <1>6, <1>7, <1>8, <1>9, <1>10

\* A first context preserves the invariant (NewContext).
LEMMA NewContextStep ==
  ASSUME IndInv, NewContext
  PROVE  IndInv'
<1> USE DEF IndInv, NewContext, requestVars, listVars, chunkVars, gcVars,
        mainVars,         helperVars
<1>0. FlagsOK'
  BY DEF TypeOK, FlagsOK
<1>1. TypeOK'
  BY <1>0 DEF TypeOK
<1>2. HelperInv'
  BY DEF TypeOK, HelperInv, MainInv, ContextInv
<1>3. MainInv'
  BY DEF TypeOK, HelperInv, MainInv, ContextInv
<1>4. ContextInv'
  BY DEF TypeOK, HelperInv, MainInv, ContextInv
<1>5. QueueInv'
  BY DEF TypeOK, HelperInv, MainInv, ContextInv, QueueInv
<1>6. RunIffQueued'
  BY DEF TypeOK, HelperInv, MainInv, QueueInv, RunIffQueued
<1>7. JustFinishedHasArenas'
  BY DEF TypeOK, JustFinishedHasArenas
<1>8. LastGCInv'
  BY DEF TypeOK, HelperInv, MainInv, ContextInv, LastGCInv
<1>9. ChunkOwnership'
  BY DEF TypeOK, HelperInv, ShrinkInv, ChunkOwnership
<1>10. ShrinkInv'
  BY DEF TypeOK, HelperInv, MainInv, ShrinkInv
<1> QED
  BY <1>1, <1>2, <1>3, <1>4, <1>5, <1>6, <1>7, <1>8, <1>9, <1>10

\* The start of a collection preserves the invariant (GCCycle).
LEMMA CollectSomeStep ==
  ASSUME IndInv, CollectSome
  PROVE  IndInv'
<1> USE DEF IndInv, CollectSome, GCCycle, WaitBackgroundSweepOrAllocEnd,
        WaitDone, requestVars, listVars, chunkVars, gcVars,
        mainVars,         helperVars
<1>0. FlagsOK'
  BY DEF TypeOK, FlagsOK
<1>1. TypeOK'
  BY <1>0 DEF TypeOK
<1>2. HelperInv'
  BY DEF TypeOK, HelperInv, MainInv, ContextInv
<1>3. MainInv'
  BY DEF TypeOK, HelperInv, MainInv, ContextInv
<1>4. ContextInv'
  BY DEF TypeOK, HelperInv, MainInv, ContextInv
<1>5. QueueInv'
  BY DEF TypeOK, HelperInv, MainInv, ContextInv, QueueInv
<1>6. RunIffQueued'
  BY DEF TypeOK, HelperInv, MainInv, QueueInv, RunIffQueued
<1>7. JustFinishedHasArenas'
  BY DEF TypeOK, JustFinishedHasArenas
<1>8. LastGCInv'
  BY DEF TypeOK, HelperInv, MainInv, ContextInv, LastGCInv
<1>9. ChunkOwnership'
  BY DEF TypeOK, HelperInv, ShrinkInv, ChunkOwnership
<1>10. ShrinkInv'
  BY DEF TypeOK, HelperInv, MainInv, ShrinkInv
<1> QED
  BY <1>1, <1>2, <1>3, <1>4, <1>5, <1>6, <1>7, <1>8, <1>9, <1>10

\* The start of the last collection does so too (DestroyContext).
LEMMA CollectLastStep ==
  ASSUME IndInv, CollectLast
  PROVE  IndInv'
<1> USE DEF IndInv, CollectLast, GCCycle, WaitBackgroundSweepOrAllocEnd,
        WaitDone, requestVars, listVars, chunkVars, gcVars,
        mainVars,         helperVars
<1>0. FlagsOK'
  BY DEF TypeOK, FlagsOK
<1>1. TypeOK'
  BY <1>0 DEF TypeOK
<1>2. HelperInv'
  BY DEF TypeOK, HelperInv, MainInv, ContextInv
<1>3. MainInv'
  BY DEF TypeOK, HelperInv, MainInv, ContextInv
<1>4. ContextInv'
  BY DEF TypeOK, HelperInv, MainInv, ContextInv
<1>5. QueueInv'
  BY DEF TypeOK, HelperInv, MainInv, ContextInv, QueueInv
<1>6. RunIffQueued'
  BY DEF TypeOK, HelperInv, MainInv, QueueInv, RunIffQueued
<1>7. JustFinishedHasArenas'
  BY DEF TypeOK, JustFinishedHasArenas
<1>8. LastGCInv'
  BY DEF TypeOK, HelperInv, MainInv, ContextInv, LastGCInv
<1>9. ChunkOwnership'
  BY DEF TypeOK, HelperInv, ShrinkInv, ChunkOwnership
<1>10. ShrinkInv'
  BY DEF TypeOK, HelperInv, MainInv, ShrinkInv
<1> QED
  BY <1>1, <1>2, <1>3, <1>4, <1>5, <1>6, <1>7, <1>8, <1>9, <1>10

\* A wait of the main thread that ends or goes on preserves it.
LEMMA MainWakesStep ==
  ASSUME IndInv, MainWakes
  PROVE  IndInv'
<1> USE DEF IndInv, MainWakes, WaitBackgroundSweepOrAllocEnd, WaitDone,
        WaitBackgroundSweepEnd, requestVars, listVars, chunkVars,
        gcVars, mainVars,         helperVars
<1>0. FlagsOK'
  <2>1. mainWaits' \in BOOLEAN
    BY Zenon DEF TypeOK, FlagsOK
  <2> QED
    BY <2>1 DEF TypeOK, FlagsOK
<1>1. TypeOK'
  BY <1>0 DEF TypeOK
<1>2. HelperInv'
  BY DEF TypeOK, HelperInv, MainInv, ContextInv
<1>3. MainInv'
  BY DEF TypeOK, HelperInv, MainInv, ContextInv
<1>4. ContextInv'
  BY DEF TypeOK, HelperInv, MainInv, ContextInv
<1>5. QueueInv'
  BY DEF TypeOK, HelperInv, MainInv, ContextInv, QueueInv
<1>6. RunIffQueued'
  BY DEF TypeOK, HelperInv, MainInv, QueueInv, RunIffQueued
<1>7. JustFinishedHasArenas'
  BY DEF TypeOK, JustFinishedHasArenas
<1>8. LastGCInv'
  BY DEF TypeOK, HelperInv, MainInv, ContextInv, LastGCInv
<1>9. ChunkOwnership'
  BY DEF TypeOK, HelperInv, ShrinkInv, ChunkOwnership
<1>10. ShrinkInv'
  BY DEF TypeOK, HelperInv, MainInv, ShrinkInv
<1> QED
  BY <1>1, <1>2, <1>3, <1>4, <1>5, <1>6, <1>7, <1>8, <1>9, <1>10

\* A slice that does not sweep preserves the invariant (GCCycle).
LEMMA EndSliceStep ==
  ASSUME IndInv, EndSlice
  PROVE  IndInv'
<1> USE DEF IndInv, EndSlice, EndSession, requestVars, listVars, chunkVars,
        gcVars, mainVars,         helperVars
<1>0. FlagsOK'
  BY DEF TypeOK, FlagsOK
<1>1. TypeOK'
  BY <1>0 DEF TypeOK
<1>2. HelperInv'
  BY DEF TypeOK, HelperInv, MainInv, ContextInv
<1>3. MainInv'
  BY DEF TypeOK, HelperInv, MainInv, ContextInv
<1>4. ContextInv'
  BY DEF TypeOK, HelperInv, MainInv, ContextInv
<1>5. QueueInv'
  BY DEF TypeOK, HelperInv, MainInv, ContextInv, QueueInv
<1>6. RunIffQueued'
  BY DEF TypeOK, HelperInv, MainInv, QueueInv, RunIffQueued
<1>7. JustFinishedHasArenas'
  BY DEF TypeOK, JustFinishedHasArenas
<1>8. LastGCInv'
  BY DEF TypeOK, HelperInv, MainInv, ContextInv, LastGCInv
<1>9. ChunkOwnership'
  BY DEF TypeOK, HelperInv, ShrinkInv, ChunkOwnership
<1>10. ShrinkInv'
  BY DEF TypeOK, HelperInv, MainInv, ShrinkInv
<1> QED
  BY <1>1, <1>2, <1>3, <1>4, <1>5, <1>6, <1>7, <1>8, <1>9, <1>10

\* The foreground part of the sweep preserves it (SweepPhase).
LEMMA SweepPhaseStep ==
  ASSUME IndInv, SweepPhase
  PROVE  IndInv'
<1> USE DEF IndInv, SweepPhase, PrepareForBackgroundSweep, ReleaseArenas,
        FreeAfter, MoreFree, Put, requestVars, listVars, chunkVars,
        gcVars, mainVars,         helperVars
<1>0. FlagsOK'
  BY DEF TypeOK, FlagsOK
<1>1. TypeOK'
  BY <1>0 DEF TypeOK
<1>2. HelperInv'
  BY DEF TypeOK, HelperInv, MainInv, ContextInv
<1>3. MainInv'
  BY DEF TypeOK, HelperInv, MainInv, ContextInv
<1>4. ContextInv'
  BY DEF TypeOK, HelperInv, MainInv, ContextInv
<1>5. QueueInv'
  BY DEF TypeOK, HelperInv, MainInv, ContextInv, QueueInv
<1>6. RunIffQueued'
  BY DEF TypeOK, HelperInv, MainInv, QueueInv, RunIffQueued
<1>7. JustFinishedHasArenas'
  BY DEF TypeOK, JustFinishedHasArenas
<1>8. LastGCInv'
  BY DEF TypeOK, HelperInv, MainInv, ContextInv, LastGCInv
<1>9. ChunkOwnership'
  BY DEF TypeOK, HelperInv, ShrinkInv, ChunkOwnership
<1>10. ShrinkInv'
  BY DEF TypeOK, HelperInv, MainInv, ShrinkInv
<1> QED
  BY <1>1, <1>2, <1>3, <1>4, <1>5, <1>6, <1>7, <1>8, <1>9, <1>10

\* Queueing or finalizing one kind preserves it (finalizeLater).
LEMMA FinalizeLaterStep ==
  ASSUME IndInv, FinalizeLater
  PROVE  IndInv'
<1> USE DEF IndInv, FinalizeLater, ReleaseArenas, FreeAfter, MoreFree, Put,
        requestVars, listVars, chunkVars, gcVars, mainVars,
        helperVars
<1>0. FlagsOK'
  BY DEF TypeOK, FlagsOK
<1>1. TypeOK'
  <2>1. sweepNext \in Kinds /\ sweepNext' \in 1..(NumKinds + 1)
    BY DEF TypeOK
  <2>2. finalizeVector' \in Seq(Kinds)
    <3>1. CASE UNCHANGED finalizeVector
      BY <3>1 DEF TypeOK
    <3>2. CASE finalizeVector' = Append(finalizeVector, sweepNext)
      BY <2>1, <3>2 DEF TypeOK
    <3> QED
      BY <3>1, <3>2
  <2>3. bfs' \in [Kinds -> BFS] /\ arenas' \in SUBSET Kinds
    BY <2>1 DEF TypeOK
  <2>4. /\ age' \in [Chunks -> Ages] /\ pool' \in SUBSET Chunks
        /\ chunkSet' \in SUBSET Chunks
    BY DEF TypeOK
  <2>5. freeCommitted' \in Nat
    BY DEF TypeOK
  <2> QED
    BY <1>0, <2>1, <2>2, <2>3, <2>4, <2>5 DEF TypeOK
<1>2. HelperInv'
  BY DEF TypeOK, HelperInv, MainInv, ContextInv
<1>3. MainInv'
  BY DEF TypeOK, HelperInv, MainInv, ContextInv
<1>4. ContextInv'
  BY DEF TypeOK, HelperInv, MainInv, ContextInv
<1>5. QueueInv'
  <2> USE DEF TypeOK, HelperInv, MainInv, ContextInv, QueueInv
  <2>1. CASE finalizeVector' = finalizeVector /\ freeLater' = freeLater
    BY <2>1
  <2>2. CASE background /\ finalizeVector' = Append(finalizeVector, sweepNext)
    BY <2>2
  <2> QED
    BY <2>1, <2>2
<1>6. RunIffQueued'
  <2> USE DEF TypeOK, HelperInv, MainInv, QueueInv, RunIffQueued
  <2>0. finalized = 0 /\ sweepNext \in Kinds
    OBVIOUS
  <2>1. CASE UNCHANGED listVars
    BY <2>1
  <2>2. CASE /\ finalizeVector' = Append(finalizeVector, sweepNext)
             /\ bfs' = [bfs EXCEPT ![sweepNext] = "RUN"]
             /\ finalized' = finalized
    BY <2>0, <2>2
  <2>3. CASE ~background /\ bfs' = [bfs EXCEPT ![sweepNext] = "DONE"]
             /\ finalizeVector' = finalizeVector /\ finalized' = finalized
    BY <2>0, <2>3 DEF ContextInv
  <2> QED
    BY <2>1, <2>2, <2>3
<1>7. JustFinishedHasArenas'
  BY DEF TypeOK, JustFinishedHasArenas
<1>8. LastGCInv'
  <2> SUFFICES ASSUME ~contexts, NEW k \in Kinds
               PROVE  \/ bfs'[k] = "DONE"
                      \/ collecting = Kinds /\ sweepNext' <= k
    BY DEF LastGCInv
  <2> USE DEF TypeOK, HelperInv, MainInv, ContextInv, LastGCInv, QueueInv
  <2>0. ~background /\ sweepNext \in Kinds /\ finalizeVector = << >>
    OBVIOUS
  <2>1. CASE k # sweepNext
    BY <2>0, <2>1
  <2>2. CASE k = sweepNext /\ k \in collecting \cap arenas
    BY <2>0, <2>2
  <2>3. CASE k = sweepNext /\ k \notin collecting \cap arenas
    <3>1. bfs[k] # "RUN"
      BY <2>0 DEF RunIffQueued
    <3>2. bfs[k] = "DONE" \/ k \notin arenas
      BY <2>3
    <3> QED
      BY <2>0, <2>3, <3>1, <3>2 DEF JustFinishedHasArenas
  <2> QED
    BY <2>1, <2>2, <2>3
<1>9. ChunkOwnership'
  BY DEF TypeOK, HelperInv, ShrinkInv, ChunkOwnership
<1>10. ShrinkInv'
  BY DEF TypeOK, HelperInv, MainInv, ShrinkInv
<1> QED
  BY <1>1, <1>2, <1>3, <1>4, <1>5, <1>6, <1>7, <1>8, <1>9, <1>10

\* Handing the queue to the helper preserves it (startBackgroundSweep).
LEMMA StartBackgroundSweepStep ==
  ASSUME NEW shouldShrink \in BOOLEAN, IndInv, StartBackgroundSweep(shouldShrink)
  PROVE  IndInv'
<1> USE DEF IndInv, StartBackgroundSweep, EndSession, NotifyWakeup, requestVars,
        listVars, chunkVars, gcVars, mainVars,         helperVars
<1>0. FlagsOK'
  BY DEF TypeOK, FlagsOK
<1>1. TypeOK'
  BY <1>0 DEF TypeOK
<1>2. HelperInv'
  BY DEF TypeOK, HelperInv, MainInv, ContextInv
<1>3. MainInv'
  BY DEF TypeOK, HelperInv, MainInv, ContextInv
<1>4. ContextInv'
  BY DEF TypeOK, HelperInv, MainInv, ContextInv
<1>5. QueueInv'
  BY DEF TypeOK, HelperInv, MainInv, ContextInv, QueueInv
<1>6. RunIffQueued'
  BY DEF TypeOK, HelperInv, MainInv, QueueInv, RunIffQueued
<1>7. JustFinishedHasArenas'
  BY DEF TypeOK, JustFinishedHasArenas
<1>8. LastGCInv'
  BY DEF TypeOK, HelperInv, MainInv, ContextInv, LastGCInv
<1>9. ChunkOwnership'
  BY DEF TypeOK, HelperInv, ShrinkInv, ChunkOwnership
<1>10. ShrinkInv'
  BY DEF TypeOK, HelperInv, MainInv, ShrinkInv
<1> QED
  BY <1>1, <1>2, <1>3, <1>4, <1>5, <1>6, <1>7, <1>8, <1>9, <1>10

\* The request to shut down preserves the invariant (finish).
LEMMA FinishStep ==
  ASSUME IndInv, Finish
  PROVE  IndInv'
<1> USE DEF IndInv, Finish, NotifyWakeup, requestVars, listVars, chunkVars,
        gcVars, mainVars,         helperVars
<1>0. FlagsOK'
  <2>1. helperWaits' \in BOOLEAN
    BY Zenon DEF TypeOK, FlagsOK
  <2> QED
    BY <2>1 DEF TypeOK, FlagsOK
<1>1. TypeOK'
  BY <1>0 DEF TypeOK
<1>2. HelperInv'
  BY DEF TypeOK, HelperInv, MainInv, ContextInv
<1>3. MainInv'
  BY DEF TypeOK, HelperInv, MainInv, ContextInv
<1>4. ContextInv'
  BY DEF TypeOK, HelperInv, MainInv, ContextInv
<1>5. QueueInv'
  BY DEF TypeOK, HelperInv, MainInv, ContextInv, QueueInv
<1>6. RunIffQueued'
  BY DEF TypeOK, HelperInv, MainInv, QueueInv, RunIffQueued
<1>7. JustFinishedHasArenas'
  BY DEF TypeOK, JustFinishedHasArenas
<1>8. LastGCInv'
  BY DEF TypeOK, HelperInv, MainInv, ContextInv, LastGCInv
<1>9. ChunkOwnership'
  BY DEF TypeOK, HelperInv, ShrinkInv, ChunkOwnership
<1>10. ShrinkInv'
  BY DEF TypeOK, HelperInv, MainInv, ShrinkInv
<1> QED
  BY <1>1, <1>2, <1>3, <1>4, <1>5, <1>6, <1>7, <1>8, <1>9, <1>10

\* The end of PR_JoinThread preserves the invariant (finish).
LEMMA JoinStep ==
  ASSUME IndInv, Join
  PROVE  IndInv'
<1> USE DEF IndInv, Join, requestVars, listVars, chunkVars, gcVars, mainVars,
        helperVars
<1>0. FlagsOK'
  BY DEF TypeOK, FlagsOK
<1>1. TypeOK'
  BY <1>0 DEF TypeOK
<1>2. HelperInv'
  BY DEF TypeOK, HelperInv, MainInv, ContextInv
<1>3. MainInv'
  BY DEF TypeOK, HelperInv, MainInv, ContextInv
<1>4. ContextInv'
  BY DEF TypeOK, HelperInv, MainInv, ContextInv
<1>5. QueueInv'
  BY DEF TypeOK, HelperInv, MainInv, ContextInv, QueueInv
<1>6. RunIffQueued'
  BY DEF TypeOK, HelperInv, MainInv, QueueInv, RunIffQueued
<1>7. JustFinishedHasArenas'
  BY DEF TypeOK, JustFinishedHasArenas
<1>8. LastGCInv'
  BY DEF TypeOK, HelperInv, MainInv, ContextInv, LastGCInv
<1>9. ChunkOwnership'
  BY DEF TypeOK, HelperInv, ShrinkInv, ChunkOwnership
<1>10. ShrinkInv'
  BY DEF TypeOK, HelperInv, MainInv, ShrinkInv
<1> QED
  BY <1>1, <1>2, <1>3, <1>4, <1>5, <1>6, <1>7, <1>8, <1>9, <1>10

\* The helper going to sleep preserves the invariant (threadLoop).
LEMMA HelperWaitsStep ==
  ASSUME IndInv, HelperWaits
  PROVE  IndInv'
<1> USE DEF IndInv, HelperWaits, requestVars, listVars, chunkVars, gcVars,
        mainVars,         helperVars
<1>0. FlagsOK'
  BY DEF TypeOK, FlagsOK
<1>1. TypeOK'
  BY <1>0 DEF TypeOK
<1>2. HelperInv'
  BY DEF TypeOK, HelperInv, MainInv, ContextInv
<1>3. MainInv'
  BY DEF TypeOK, HelperInv, MainInv, ContextInv
<1>4. ContextInv'
  BY DEF TypeOK, HelperInv, MainInv, ContextInv
<1>5. QueueInv'
  BY DEF TypeOK, HelperInv, MainInv, ContextInv, QueueInv
<1>6. RunIffQueued'
  BY DEF TypeOK, HelperInv, MainInv, QueueInv, RunIffQueued
<1>7. JustFinishedHasArenas'
  BY DEF TypeOK, JustFinishedHasArenas
<1>8. LastGCInv'
  BY DEF TypeOK, HelperInv, MainInv, ContextInv, LastGCInv
<1>9. ChunkOwnership'
  BY DEF TypeOK, HelperInv, ShrinkInv, ChunkOwnership
<1>10. ShrinkInv'
  BY DEF TypeOK, HelperInv, MainInv, ShrinkInv
<1> QED
  BY <1>1, <1>2, <1>3, <1>4, <1>5, <1>6, <1>7, <1>8, <1>9, <1>10

\* The start of a sweep preserves the invariant (doSweep).
LEMMA DoSweepFinalizeStep ==
  ASSUME IndInv, DoSweepFinalize
  PROVE  IndInv'
<1> USE DEF IndInv, DoSweepFinalize, requestVars, listVars, chunkVars, gcVars,
        mainVars,         helperVars
<1>0. FlagsOK'
  BY DEF TypeOK, FlagsOK
<1>1. TypeOK'
  BY <1>0 DEF TypeOK
<1>2. HelperInv'
  BY DEF TypeOK, HelperInv, MainInv, ContextInv
<1>3. MainInv'
  BY DEF TypeOK, HelperInv, MainInv, ContextInv
<1>4. ContextInv'
  BY DEF TypeOK, HelperInv, MainInv, ContextInv
<1>5. QueueInv'
  BY DEF TypeOK, HelperInv, MainInv, ContextInv, QueueInv
<1>6. RunIffQueued'
  BY DEF TypeOK, HelperInv, MainInv, QueueInv, RunIffQueued
<1>7. JustFinishedHasArenas'
  BY DEF TypeOK, JustFinishedHasArenas
<1>8. LastGCInv'
  BY DEF TypeOK, HelperInv, MainInv, ContextInv, LastGCInv
<1>9. ChunkOwnership'
  BY DEF TypeOK, HelperInv, ShrinkInv, ChunkOwnership
<1>10. ShrinkInv'
  BY DEF TypeOK, HelperInv, MainInv, ShrinkInv
<1> QED
  BY <1>1, <1>2, <1>3, <1>4, <1>5, <1>6, <1>7, <1>8, <1>9, <1>10

\* A shrink without finalization preserves the invariant (doSweep).
LEMMA DoSweepShrinkStep ==
  ASSUME IndInv, DoSweepShrink
  PROVE  IndInv'
<1> USE DEF IndInv, DoSweepShrink, ExpireChunksAndArenas, Expire, Expired,
        Decommit, EndSweep, NotifyDone, requestVars, listVars,
        chunkVars, gcVars, mainVars,         helperVars
<1>0. FlagsOK'
  BY DEF TypeOK, FlagsOK
<1>1. TypeOK'
  BY <1>0 DEF TypeOK
<1>2. HelperInv'
  BY DEF TypeOK, HelperInv, MainInv, ContextInv
<1>3. MainInv'
  BY DEF TypeOK, HelperInv, MainInv, ContextInv
<1>4. ContextInv'
  BY DEF TypeOK, HelperInv, MainInv, ContextInv
<1>5. QueueInv'
  BY DEF TypeOK, HelperInv, MainInv, ContextInv, QueueInv
<1>6. RunIffQueued'
  BY DEF TypeOK, HelperInv, MainInv, QueueInv, RunIffQueued
<1>7. JustFinishedHasArenas'
  BY DEF TypeOK, JustFinishedHasArenas
<1>8. LastGCInv'
  BY DEF TypeOK, HelperInv, MainInv, ContextInv, LastGCInv
<1>9. ChunkOwnership'
  BY DEF TypeOK, HelperInv, ShrinkInv, ChunkOwnership
<1>10. ShrinkInv'
  BY DEF TypeOK, HelperInv, MainInv, ShrinkInv
<1> QED
  BY <1>1, <1>2, <1>3, <1>4, <1>5, <1>6, <1>7, <1>8, <1>9, <1>10

\* An arena released by the helper preserves it (releaseArena).
LEMMA BackgroundReleaseArenaStep ==
  ASSUME IndInv, BackgroundReleaseArena
  PROVE  IndInv'
<1> USE DEF IndInv, BackgroundReleaseArena, ReleaseArenas, FreeAfter, MoreFree,
        Put, requestVars, listVars, chunkVars, gcVars, mainVars,
        helperVars
<1>0. FlagsOK'
  BY DEF TypeOK, FlagsOK
<1>1. TypeOK'
  BY <1>0 DEF TypeOK
<1>2. HelperInv'
  BY DEF TypeOK, HelperInv, MainInv, ContextInv
<1>3. MainInv'
  BY DEF TypeOK, HelperInv, MainInv, ContextInv
<1>4. ContextInv'
  BY DEF TypeOK, HelperInv, MainInv, ContextInv
<1>5. QueueInv'
  BY DEF TypeOK, HelperInv, MainInv, ContextInv, QueueInv
<1>6. RunIffQueued'
  BY DEF TypeOK, HelperInv, MainInv, QueueInv, RunIffQueued
<1>7. JustFinishedHasArenas'
  BY DEF TypeOK, JustFinishedHasArenas
<1>8. LastGCInv'
  BY DEF TypeOK, HelperInv, MainInv, ContextInv, LastGCInv
<1>9. ChunkOwnership'
  BY DEF TypeOK, HelperInv, ShrinkInv, ChunkOwnership
<1>10. ShrinkInv'
  BY DEF TypeOK, HelperInv, MainInv, ShrinkInv
<1> QED
  BY <1>1, <1>2, <1>3, <1>4, <1>5, <1>6, <1>7, <1>8, <1>9, <1>10

\* The end of one list preserves the invariant (backgroundFinalize).
LEMMA BackgroundFinalizeStep ==
  ASSUME IndInv, BackgroundFinalize
  PROVE  IndInv'
<1> USE DEF IndInv, BackgroundFinalize, AddFinalized, requestVars, listVars,
        chunkVars, gcVars, mainVars,         helperVars
<1>0. FlagsOK'
  BY DEF TypeOK, FlagsOK
<1>1. TypeOK'
  <2>1. finalizeVector[finalized + 1] \in Kinds
    BY DEF TypeOK
  <2>2. bfs' \in [Kinds -> BFS] /\ arenas' \in SUBSET Kinds
    BY <2>1 DEF TypeOK
  <2> QED
    BY <1>0, <2>2 DEF TypeOK
<1>2. HelperInv'
  BY DEF TypeOK, HelperInv, MainInv, ContextInv
<1>3. MainInv'
  BY DEF TypeOK, HelperInv, MainInv, ContextInv
<1>4. ContextInv'
  BY DEF TypeOK, HelperInv, MainInv, ContextInv
<1>5. QueueInv'
  BY DEF TypeOK, HelperInv, MainInv, ContextInv, QueueInv
<1>6. RunIffQueued'
  BY DEF TypeOK, HelperInv, MainInv, QueueInv, RunIffQueued
<1>7. JustFinishedHasArenas'
  BY DEF TypeOK, JustFinishedHasArenas
<1>8. LastGCInv'
  <2>1. finalizeVector[finalized + 1] \in Kinds
    BY DEF TypeOK
  <2>2. bfs[finalizeVector[finalized + 1]] = "RUN"
    BY <2>1 DEF TypeOK, RunIffQueued
  <2> QED
    BY <2>1, <2>2 DEF TypeOK, HelperInv, MainInv, ContextInv, LastGCInv
<1>9. ChunkOwnership'
  BY DEF TypeOK, HelperInv, ShrinkInv, ChunkOwnership
<1>10. ShrinkInv'
  BY DEF TypeOK, HelperInv, MainInv, ShrinkInv
<1> QED
  BY <1>1, <1>2, <1>3, <1>4, <1>5, <1>6, <1>7, <1>8, <1>9, <1>10

\* The end of the finalization preserves the invariant (doSweep).
LEMMA DoSweepExpireStep ==
  ASSUME IndInv, DoSweepExpire
  PROVE  IndInv'
<1> USE DEF IndInv, DoSweepExpire, ExpireChunksAndArenas, Expire, Expired,
        Decommit, EndSweep, NotifyDone, requestVars, listVars,
        chunkVars, gcVars, mainVars,         helperVars
<1>0. FlagsOK'
  BY DEF TypeOK, FlagsOK
<1>1. TypeOK'
  BY <1>0 DEF TypeOK
<1>2. HelperInv'
  BY DEF TypeOK, HelperInv, MainInv, ContextInv
<1>3. MainInv'
  BY DEF TypeOK, HelperInv, MainInv, ContextInv
<1>4. ContextInv'
  BY DEF TypeOK, HelperInv, MainInv, ContextInv
<1>5. QueueInv'
  BY DEF TypeOK, HelperInv, MainInv, ContextInv, QueueInv
<1>6. RunIffQueued'
  BY DEF TypeOK, HelperInv, MainInv, QueueInv, RunIffQueued
<1>7. JustFinishedHasArenas'
  BY DEF TypeOK, JustFinishedHasArenas
<1>8. LastGCInv'
  BY DEF TypeOK, HelperInv, MainInv, ContextInv, LastGCInv
<1>9. ChunkOwnership'
  BY DEF TypeOK, HelperInv, ShrinkInv, ChunkOwnership
<1>10. ShrinkInv'
  BY DEF TypeOK, HelperInv, MainInv, ShrinkInv
<1> QED
  BY <1>1, <1>2, <1>3, <1>4, <1>5, <1>6, <1>7, <1>8, <1>9, <1>10

\* The end of FreeChunkList, with the recheck of shrinkFlag, does so too.
LEMMA UnmapDoneStep ==
  ASSUME IndInv, UnmapDone
  PROVE  IndInv'
<1> USE DEF IndInv, UnmapDone, RecheckShrink, ExpireChunksAndArenas, Expire,
        Expired, Decommit, EndSweep, NotifyDone, requestVars,
        listVars, chunkVars, gcVars, mainVars,         helperVars
<1>0. FlagsOK'
  <2>1. shrinkFlag' \in BOOLEAN
    BY Zenon DEF TypeOK, FlagsOK
  <2>2. shrinkAsked' \in BOOLEAN
    BY Zenon DEF TypeOK, FlagsOK
  <2>3. shrinking' \in BOOLEAN
    BY Zenon DEF TypeOK, FlagsOK
  <2>4. mainWaits' \in BOOLEAN
    BY Zenon DEF TypeOK, FlagsOK
  <2> QED
    BY <2>1, <2>2, <2>3, <2>4 DEF TypeOK, FlagsOK
<1>1. TypeOK'
  BY <1>0 DEF TypeOK
<1>2. HelperInv'
  BY DEF TypeOK, HelperInv, MainInv, ContextInv
<1>3. MainInv'
  BY DEF TypeOK, HelperInv, MainInv, ContextInv
<1>4. ContextInv'
  BY DEF TypeOK, HelperInv, MainInv, ContextInv
<1>5. QueueInv'
  BY DEF TypeOK, HelperInv, MainInv, ContextInv, QueueInv
<1>6. RunIffQueued'
  BY DEF TypeOK, HelperInv, MainInv, QueueInv, RunIffQueued
<1>7. JustFinishedHasArenas'
  BY DEF TypeOK, JustFinishedHasArenas
<1>8. LastGCInv'
  BY DEF TypeOK, HelperInv, MainInv, ContextInv, LastGCInv
<1>9. ChunkOwnership'
  BY DEF TypeOK, HelperInv, ShrinkInv, ChunkOwnership
<1>10. ShrinkInv'
  BY DEF TypeOK, HelperInv, MainInv, ShrinkInv
<1> QED
  BY <1>1, <1>2, <1>3, <1>4, <1>5, <1>6, <1>7, <1>8, <1>9, <1>10

\* A decommit that ends preserves it (DecommitArenasFromAvailableList).
LEMMA DecommittedStep ==
  ASSUME NEW ok \in BOOLEAN, IndInv, Decommitted(ok)
  PROVE  IndInv'
<1> USE DEF IndInv, Decommitted, Decommit, EndSweep, NotifyDone, requestVars,
        listVars, chunkVars, gcVars, mainVars,         helperVars
<1>0. FlagsOK'
  <2>1. retry' \in BOOLEAN
    BY Zenon DEF TypeOK, FlagsOK
  <2> QED
    BY <2>1 DEF TypeOK, FlagsOK
<1>1. TypeOK'
  BY <1>0 DEF TypeOK
<1>2. HelperInv'
  BY DEF TypeOK, HelperInv, MainInv, ContextInv
<1>3. MainInv'
  BY DEF TypeOK, HelperInv, MainInv, ContextInv
<1>4. ContextInv'
  BY DEF TypeOK, HelperInv, MainInv, ContextInv
<1>5. QueueInv'
  BY DEF TypeOK, HelperInv, MainInv, ContextInv, QueueInv
<1>6. RunIffQueued'
  BY DEF TypeOK, HelperInv, MainInv, QueueInv, RunIffQueued
<1>7. JustFinishedHasArenas'
  BY DEF TypeOK, JustFinishedHasArenas
<1>8. LastGCInv'
  BY DEF TypeOK, HelperInv, MainInv, ContextInv, LastGCInv
<1>9. ChunkOwnership'
  BY DEF TypeOK, HelperInv, ShrinkInv, ChunkOwnership
<1>10. ShrinkInv'
  BY DEF TypeOK, HelperInv, MainInv, ShrinkInv
<1> QED
  BY <1>1, <1>2, <1>3, <1>4, <1>5, <1>6, <1>7, <1>8, <1>9, <1>10

\* The start of an allocation preserves the invariant (threadLoop).
LEMMA StartAllocateStep ==
  ASSUME IndInv, StartAllocate
  PROVE  IndInv'
<1> USE DEF IndInv, StartAllocate, requestVars, listVars, chunkVars, gcVars,
        mainVars,         helperVars
<1>0. FlagsOK'
  BY DEF TypeOK, FlagsOK
<1>1. TypeOK'
  BY <1>0 DEF TypeOK
<1>2. HelperInv'
  BY DEF TypeOK, HelperInv, MainInv, ContextInv
<1>3. MainInv'
  BY DEF TypeOK, HelperInv, MainInv, ContextInv
<1>4. ContextInv'
  BY DEF TypeOK, HelperInv, MainInv, ContextInv
<1>5. QueueInv'
  BY DEF TypeOK, HelperInv, MainInv, ContextInv, QueueInv
<1>6. RunIffQueued'
  BY DEF TypeOK, HelperInv, MainInv, QueueInv, RunIffQueued
<1>7. JustFinishedHasArenas'
  BY DEF TypeOK, JustFinishedHasArenas
<1>8. LastGCInv'
  BY DEF TypeOK, HelperInv, MainInv, ContextInv, LastGCInv
<1>9. ChunkOwnership'
  BY DEF TypeOK, HelperInv, ShrinkInv, ChunkOwnership
<1>10. ShrinkInv'
  BY DEF TypeOK, HelperInv, MainInv, ShrinkInv
<1> QED
  BY <1>1, <1>2, <1>3, <1>4, <1>5, <1>6, <1>7, <1>8, <1>9, <1>10

\* A chunk mapped in the background preserves the invariant (threadLoop).
LEMMA AllocatedStep ==
  ASSUME IndInv, Allocated
  PROVE  IndInv'
<1> USE DEF IndInv, Allocated, Put, Unmapped, requestVars, listVars, chunkVars,
        gcVars, mainVars,         helperVars
<1>0. FlagsOK'
  BY DEF TypeOK, FlagsOK
<1>1. TypeOK'
  BY <1>0 DEF TypeOK
<1>2. HelperInv'
  BY DEF TypeOK, HelperInv, MainInv, ContextInv
<1>3. MainInv'
  BY DEF TypeOK, HelperInv, MainInv, ContextInv
<1>4. ContextInv'
  BY DEF TypeOK, HelperInv, MainInv, ContextInv
<1>5. QueueInv'
  BY DEF TypeOK, HelperInv, MainInv, ContextInv, QueueInv
<1>6. RunIffQueued'
  BY DEF TypeOK, HelperInv, MainInv, QueueInv, RunIffQueued
<1>7. JustFinishedHasArenas'
  BY DEF TypeOK, JustFinishedHasArenas
<1>8. LastGCInv'
  BY DEF TypeOK, HelperInv, MainInv, ContextInv, LastGCInv
<1>9. ChunkOwnership'
  BY DEF TypeOK, HelperInv, ShrinkInv, ChunkOwnership
<1>10. ShrinkInv'
  BY DEF TypeOK, HelperInv, MainInv, ShrinkInv
<1> QED
  BY <1>1, <1>2, <1>3, <1>4, <1>5, <1>6, <1>7, <1>8, <1>9, <1>10

\* The acknowledged cancellation preserves the invariant (threadLoop).
LEMMA AllocationCancelledStep ==
  ASSUME IndInv, AllocationCancelled
  PROVE  IndInv'
<1> USE DEF IndInv, AllocationCancelled, NotifyDone, requestVars, listVars,
        chunkVars, gcVars, mainVars,         helperVars
<1>0. FlagsOK'
  BY DEF TypeOK, FlagsOK
<1>1. TypeOK'
  BY <1>0 DEF TypeOK
<1>2. HelperInv'
  BY DEF TypeOK, HelperInv, MainInv, ContextInv
<1>3. MainInv'
  BY DEF TypeOK, HelperInv, MainInv, ContextInv
<1>4. ContextInv'
  BY DEF TypeOK, HelperInv, MainInv, ContextInv
<1>5. QueueInv'
  BY DEF TypeOK, HelperInv, MainInv, ContextInv, QueueInv
<1>6. RunIffQueued'
  BY DEF TypeOK, HelperInv, MainInv, QueueInv, RunIffQueued
<1>7. JustFinishedHasArenas'
  BY DEF TypeOK, JustFinishedHasArenas
<1>8. LastGCInv'
  BY DEF TypeOK, HelperInv, MainInv, ContextInv, LastGCInv
<1>9. ChunkOwnership'
  BY DEF TypeOK, HelperInv, ShrinkInv, ChunkOwnership
<1>10. ShrinkInv'
  BY DEF TypeOK, HelperInv, MainInv, ShrinkInv
<1> QED
  BY <1>1, <1>2, <1>3, <1>4, <1>5, <1>6, <1>7, <1>8, <1>9, <1>10

\* The end of the helper preserves the invariant (threadLoop).
LEMMA HelperExitStep ==
  ASSUME IndInv, HelperExit
  PROVE  IndInv'
<1> USE DEF IndInv, HelperExit, requestVars, listVars, chunkVars, gcVars,
        mainVars,         helperVars
<1>0. FlagsOK'
  BY DEF TypeOK, FlagsOK
<1>1. TypeOK'
  BY <1>0 DEF TypeOK
<1>2. HelperInv'
  BY DEF TypeOK, HelperInv, MainInv, ContextInv
<1>3. MainInv'
  BY DEF TypeOK, HelperInv, MainInv, ContextInv
<1>4. ContextInv'
  BY DEF TypeOK, HelperInv, MainInv, ContextInv
<1>5. QueueInv'
  BY DEF TypeOK, HelperInv, MainInv, ContextInv, QueueInv
<1>6. RunIffQueued'
  BY DEF TypeOK, HelperInv, MainInv, QueueInv, RunIffQueued
<1>7. JustFinishedHasArenas'
  BY DEF TypeOK, JustFinishedHasArenas
<1>8. LastGCInv'
  BY DEF TypeOK, HelperInv, MainInv, ContextInv, LastGCInv
<1>9. ChunkOwnership'
  BY DEF TypeOK, HelperInv, ShrinkInv, ChunkOwnership
<1>10. ShrinkInv'
  BY DEF TypeOK, HelperInv, MainInv, ShrinkInv
<1> QED
  BY <1>1, <1>2, <1>3, <1>4, <1>5, <1>6, <1>7, <1>8, <1>9, <1>10

\* A wakeup nobody asked for preserves the invariant (PR_WaitCondVar).
LEMMA SpuriousWakeupStep ==
  ASSUME IndInv, SpuriousWakeup
  PROVE  IndInv'
<1> USE DEF IndInv, SpuriousWakeup, requestVars, listVars, chunkVars, gcVars,
        mainVars,         helperVars
<1>0. FlagsOK'
  <2>1. mainWaits' \in BOOLEAN
    BY Zenon DEF TypeOK, FlagsOK
  <2>2. helperWaits' \in BOOLEAN
    BY Zenon DEF TypeOK, FlagsOK
  <2> QED
    BY <2>1, <2>2 DEF TypeOK, FlagsOK
<1>1. TypeOK'
  BY <1>0 DEF TypeOK
<1>2. HelperInv'
  BY DEF TypeOK, HelperInv, MainInv, ContextInv
<1>3. MainInv'
  BY DEF TypeOK, HelperInv, MainInv, ContextInv
<1>4. ContextInv'
  BY DEF TypeOK, HelperInv, MainInv, ContextInv
<1>5. QueueInv'
  BY DEF TypeOK, HelperInv, MainInv, ContextInv, QueueInv
<1>6. RunIffQueued'
  BY DEF TypeOK, HelperInv, MainInv, QueueInv, RunIffQueued
<1>7. JustFinishedHasArenas'
  BY DEF TypeOK, JustFinishedHasArenas
<1>8. LastGCInv'
  BY DEF TypeOK, HelperInv, MainInv, ContextInv, LastGCInv
<1>9. ChunkOwnership'
  BY DEF TypeOK, HelperInv, ShrinkInv, ChunkOwnership
<1>10. ShrinkInv'
  BY DEF TypeOK, HelperInv, MainInv, ShrinkInv
<1> QED
  BY <1>1, <1>2, <1>3, <1>4, <1>5, <1>6, <1>7, <1>8, <1>9, <1>10

-----------------------------------------------------------------------------
(* The theorems.                                                            *)

\* The initial state of the runtime and of GCHelperThread satisfies IndInv.
LEMMA InitIndInv == Init => IndInv
<1> SUFFICES ASSUME Init PROVE IndInv
  OBVIOUS
<1>0. FlagsOK
  BY Zenon DEF Init, FlagsOK
<1>1. TypeOK
  BY <1>0 DEF Init, TypeOK
<1>2. HelperInv /\ MainInv /\ ContextInv
  BY DEF Init, HelperInv, MainInv, ContextInv
<1>3. QueueInv /\ RunIffQueued /\ JustFinishedHasArenas /\ LastGCInv
  BY DEF Init, QueueInv, RunIffQueued, JustFinishedHasArenas, LastGCInv
<1>4. ChunkOwnership /\ ShrinkInv
  BY DEF Init, ChunkOwnership, ShrinkInv
<1> QED
  BY <1>1, <1>2, <1>3, <1>4 DEF IndInv

\* Every step of the two threads preserves IndInv.
LEMMA NextIndInv == IndInv /\ [Next]_vars => IndInv'
<1> SUFFICES ASSUME IndInv, [Next]_vars PROVE IndInv'
  OBVIOUS
<1>1. CASE Mutator
  BY <1>1, ShrinkGCBuffersStep, OnOutOfMemoryStep, CollectSomeStep,
     CollectLastStep, RefillWaitStep, NewContextStep, FinishStep,
     AllocateFromArenaStep, BeginHeapSessionStep, Zenon
  DEF Mutator
<1>2. CASE MainContinues
  BY <1>2, MainWakesStep, OnOutOfMemoryWaitStep, OnOutOfMemoryRetryStep,
     EndHeapSessionStep, EndSliceStep, SweepPhaseStep, FinalizeLaterStep,
     JoinStep, StartBackgroundSweepStep, Zenon
  DEF MainContinues
<1>3. CASE Helper
  BY <1>3, HelperWaitsStep, DoSweepFinalizeStep, DoSweepShrinkStep,
     BackgroundFinalizeStep, DoSweepExpireStep, UnmapDoneStep,
     StartAllocateStep, AllocatedStep, AllocationCancelledStep,
     HelperExitStep, Zenon
  DEF Helper
<1>4. CASE BackgroundReleaseArena \/ (\E ok \in BOOLEAN : Decommitted(ok))
           \/ SpuriousWakeup
  BY <1>4, BackgroundReleaseArenaStep, DecommittedStep, SpuriousWakeupStep, Zenon
<1>5. CASE UNCHANGED vars
  <2> USE <1>5 DEF IndInv, vars, requestVars, listVars, chunkVars, gcVars,
                   mainVars, helperVars
  <2>1. TypeOK'
    BY DEF TypeOK, FlagsOK
  <2>2. HelperInv' /\ MainInv' /\ ContextInv' /\ ShrinkInv'
    BY DEF HelperInv, MainInv, ContextInv, ShrinkInv
  <2>3. QueueInv' /\ RunIffQueued' /\ JustFinishedHasArenas' /\ LastGCInv'
    BY DEF QueueInv, RunIffQueued, JustFinishedHasArenas, LastGCInv
  <2>4. ChunkOwnership'
    BY DEF ChunkOwnership
  <2> QED
    BY <2>1, <2>2, <2>3, <2>4
<1> QED
  BY <1>1, <1>2, <1>3, <1>4, <1>5, Zenon DEF Next, Terminated

\* IndInv is an invariant of the helper-thread protocol.
THEOREM Invariance == Spec => []IndInv
<1> QED
  BY InitIndInv, NextIndInv, PTL DEF Spec

\* Every variable keeps its type; in particular no empty chunk of the pool
\* grows older than MAX_EMPTY_CHUNK_AGE, which ChunkPool::expire asserts.
THEOREM TypeCorrect == Spec => []TypeOK
<1>1. IndInv => TypeOK
  BY DEF IndInv
<1> QED
  BY <1>1, Invariance, PTL

\* The helper is outside its unlocked regions whenever the collector or the
\* retry of onOutOfMemory relies on waitBackgroundSweepOrAllocEnd.
THEOREM ExclusiveHeap == Spec => []HeapExclusive
<1>1. IndInv => HeapExclusive
  BY DEF IndInv, TypeOK, HelperPcs, HelperInv, MainInv, HeapExclusive
<1> QED
  BY <1>1, Invariance, PTL

\* backgroundFinalizeState is BFS_RUN exactly for the kinds whose lists are
\* queued, and no kind is queued twice.
THEOREM QueueMatchesState == Spec => []RunIffQueued
<1>1. IndInv => RunIffQueued
  BY DEF IndInv
<1> QED
  BY <1>1, Invariance, PTL

\* A list in state BFS_JUST_FINISHED has arenas, as finalizeLater asserts.
THEOREM FinishedListHasArenas == Spec => []JustFinishedHasArenas
<1>1. IndInv => JustFinishedHasArenas
  BY DEF IndInv
<1> QED
  BY <1>1, Invariance, PTL

\* Neither thread sleeps on a condition variable nobody is going to notify.
THEOREM WakeupsNotLost == Spec => []NoLostWakeup
<1>1. IndInv => NoLostWakeup
  BY DEF IndInv, TypeOK, States, HelperInv, MainInv, NoLostWakeup
<1> QED
  BY <1>1, Invariance, PTL

\* The assertions of the GCHelperThread methods about their callers hold.
THEOREM AssertionsHold == Spec => []CallerAssertions
<1>1. IndInv => CallerAssertions
  BY DEF IndInv, HelperInv, MainInv, ContextInv, CallerAssertions
<1> QED
  BY <1>1, Invariance, PTL

\* After the shutdown nothing is queued, nothing waits to be unmapped and
\* every kind is BFS_DONE, as ~ArenaLists asserts.
THEOREM CleanShutdown == Spec => []NothingLeftBehind
<1>1. IndInv => NothingLeftBehind
  <2> SUFFICES ASSUME IndInv, mainPc = "done"
               PROVE  /\ \A k \in Kinds : bfs[k] = "DONE"
                      /\ finalizeVector = << >> /\ toFree = {}
                      /\ ~sweepFlag /\ ~freeLater
    BY DEF NothingLeftBehind
  <2>1. helperPc = "exit" /\ ~sweepFlag /\ ~background
    BY DEF IndInv, HelperInv, MainInv, ContextInv
  <2>2. toFree = {} /\ finalizeVector = << >> /\ ~freeLater
    BY <2>1 DEF IndInv, QueueInv, ShrinkInv
  <2>3. \A k \in Kinds : bfs[k] = "DONE"
    BY DEF IndInv, LastGCInv, ContextInv
  <2> QED
    BY <2>1, <2>2, <2>3
<1> QED
  BY <1>1, Invariance, PTL

\* releaseArena takes the lock whenever the helper calls it.
THEOREM ReleaseLocked == Spec => []ReleaseArenaLocked
<1>1. IndInv => ReleaseArenaLocked
  BY DEF IndInv, HelperInv, ReleaseArenaLocked
<1> QED
  BY <1>1, Invariance, PTL

\* A chunk is in gcChunkSet, in the pool or about to be unmapped, never two.
THEOREM ChunksHaveOneOwner == Spec => []ChunkOwnership
<1>1. IndInv => ChunkOwnership
  BY DEF IndInv
<1> QED
  BY <1>1, Invariance, PTL

\* The state word, the lists of the kinds and the chunks of both threads agree
\* at every step of the sweep, as the assertions of jsgc.cpp require.
THEOREM StatesAreCoherent == Spec => []StatesCoherent
<1>1. IndInv => StatesCoherent
  <2>1. IndInv => CallerAssertions
    BY DEF IndInv, HelperInv, MainInv, ContextInv, CallerAssertions
  <2>2. IndInv => ReleaseArenaLocked
    BY DEF IndInv, HelperInv, ReleaseArenaLocked
  <2> QED
    BY <2>1, <2>2 DEF IndInv, StatesCoherent
<1> QED
  BY <1>1, Invariance, PTL

\* A sweep that ends after a shrink was accepted leaves no empty chunk: the
\* helper was shrinking from the start or has rechecked shrinkFlag (doSweep).
LEMMA ShrinkStep ==
  ASSUME IndInv, [Next]_vars, state = "SWEEPING", state' = "IDLE", shrinkAsked
  PROVE  pool' = {}
<1> USE DEF IndInv, ShrinkInv, MainInv, HelperInv, requestVars
<1>1. CASE Mutator
  BY <1>1 DEF Mutator, ShrinkGCBuffers, OnOutOfMemory, StartBackgroundShrink,
     CollectSome, CollectLast, GCCycle, RefillWait, NewContext, Finish,
     AllocateFromArena, PickChunk, BeginHeapSession, WaitBackgroundSweepEnd,
     WaitBackgroundSweepOrAllocEnd
<1>2. CASE MainContinues
  BY <1>2 DEF MainContinues, MainWakes, WaitBackgroundSweepEnd,
     WaitBackgroundSweepOrAllocEnd, OnOutOfMemoryWait, OnOutOfMemoryRetry,
     EndHeapSession, EndSlice, SweepPhase, FinalizeLater, Join,
     StartBackgroundSweep
<1>3. CASE DoSweepShrink \/ DoSweepExpire
  <2>1. helperPc \in {"loop", "finalize"} /\ Expire(shrinkFlag)
    BY <1>3 DEF DoSweepShrink, DoSweepExpire, ExpireChunksAndArenas
  <2>2. shrinkFlag
    BY <2>1
  <2> QED
    BY <2>1, <2>2 DEF Expire, Expired
<1>4. CASE UnmapDone
  <2>1. CASE shrinking
    BY <1>4, <2>1 DEF UnmapDone
  <2>2. CASE ~shrinking
    BY <1>4, <2>2 DEF UnmapDone, RecheckShrink, ExpireChunksAndArenas, Expire,
       Expired
  <2> QED
    BY <2>1, <2>2
<1>5. ASSUME NEW ok \in BOOLEAN, Decommitted(ok)
      PROVE  pool' = {}
  BY <1>5 DEF Decommitted
<1>6. CASE \/ HelperWaits \/ DoSweepFinalize \/ BackgroundFinalize
           \/ StartAllocate \/ Allocated \/ AllocationCancelled \/ HelperExit
           \/ BackgroundReleaseArena \/ SpuriousWakeup \/ UNCHANGED vars
  BY <1>6 DEF HelperWaits, DoSweepFinalize, BackgroundFinalize, StartAllocate,
     Allocated, AllocationCancelled, HelperExit, BackgroundReleaseArena,
     SpuriousWakeup, vars
<1> QED
  BY <1>1, <1>2, <1>3, <1>4, <1>5, <1>6, Zenon DEF Next, Helper, Terminated

\* A shrink accepted while the helper sweeps is carried out before the sweep
\* ends (startBackgroundShrink and the end of doSweep).
THEOREM ShrinksAreHonoured == Spec => ShrinkHonoured
<1>1. IndInv /\ [Next]_vars =>
        [state = "SWEEPING" /\ state' = "IDLE" /\ shrinkAsked => pool' = {}]_vars
  BY ShrinkStep
<1> QED
  BY <1>1, Invariance, PTL DEF Spec, ShrinkHonoured
=============================================================================
