--------------------------- MODULE GCHelperThread ---------------------------
(***************************************************************************)
(* The GC helper thread of a JSRuntime (jsgc.h: class GCHelperThread) and   *)
(* the main thread that drives it: the mutator, the collector, heap         *)
(* sessions, out-of-memory recovery and the shutdown of the runtime.        *)
(*                                                                         *)
(* Everything the two threads share is protected by rt->gcLock, so one      *)
(* action is one region of code run with the lock held: it starts where a   *)
(* thread takes the lock (or returns from PR_WaitCondVar) and ends where    *)
(* the thread gives it up.  A thread that is inside an unlocked region      *)
(* says so in its program counter (mainPc, helperPc).                       *)
(*                                                                         *)
(* Abstraction.  A kind is one (compartment, AllocKind) pair whose things   *)
(* are finalized in the background; of its arena list the model keeps       *)
(* whether it is empty.  The list of empty chunks is a set with ages:       *)
(* put() adds a chunk of age 0 at the head and expire() ages all of them    *)
(* alike, so the list is sorted by age and its head is a youngest chunk.    *)
(***************************************************************************)
EXTENDS Integers, Sequences, FiniteSets

CONSTANTS
  NumKinds,          \* background-finalized (compartment, AllocKind) pairs
  Chunks,            \* bound: the chunks the system can map
  MaxFree,           \* bound: free committed arenas in the available chunks
  CanBackgroundAllocate, \* backgroundAllocation: there are two CPUs or more
  MinChunkSet,       \* chunks in use before allocation in the background (4)
  MaxEmptyChunkAge   \* MAX_EMPTY_CHUNK_AGE

ASSUME ConstantsAssumption ==
  /\ NumKinds \in Nat
  /\ MaxFree \in Nat
  /\ CanBackgroundAllocate \in BOOLEAN
  /\ MinChunkSet \in Nat
  /\ MaxEmptyChunkAge \in Nat

Kinds == 1..NumKinds
Ages  == 0..MaxEmptyChunkAge

VARIABLES
  state,           \* GCHelperThread::state
  sweepFlag,       \* GCHelperThread::sweepFlag
  shrinkFlag,      \* GCHelperThread::shrinkFlag
  finalizeVector,  \* arena lists handed to the helper, in insertion order
  finalized,       \* how many of them backgroundFinalize has processed
  freeLater,       \* pointers wait in freeVector or before freeCursor
  bfs,             \* backgroundFinalizeState of each kind
  arenas,          \* kinds whose arena list has a head
  gcRunning,       \* rt->gcRunning
  contexts,        \* rt->hasContexts()
  chunkSet,        \* rt->gcChunkSet: the chunks in use
  pool,            \* rt->gcChunkPool: the empty chunks
  age,             \* info.age of the chunks in the pool
  toFree,          \* chunks taken by expire() and not yet unmapped
  freeCommitted,   \* rt->gcNumArenasFreeCommitted outside the pool
  chunkAllocation, \* rt->gcChunkAllocationSinceLastGC
  shrinking,       \* local of doSweep: the flag ExpireChunksAndArenas was given
  collecting,      \* kinds of the compartments that are collected
  sweepNext,       \* next kind the sweep phase looks at
  background,      \* local of GCCycle: startBackgroundSweep
  shrinkAsked,     \* history: a shrink was accepted since the sweep started
  retry,           \* history: flips when a decommit fails, so that an attempt
                   \* that changes nothing is still a step
  mainPc,
  mainWaits,       \* the main thread is blocked on the condvar done
  helperPc,
  helperWaits      \* the helper is blocked on the condvar wakeup

requestVars == <<state, sweepFlag, shrinkFlag, shrinkAsked>>
listVars    == <<finalizeVector, finalized, freeLater, bfs, arenas>>
chunkVars   == <<chunkSet, pool, age, toFree, freeCommitted>>
gcVars      == <<gcRunning, contexts, collecting, sweepNext, background,
                 chunkAllocation>>
mainVars    == <<mainPc, mainWaits>>
helperVars  == <<helperPc, helperWaits, shrinking, retry>>
vars == <<requestVars, listVars, chunkVars, gcVars, mainVars, helperVars>>

States == {"IDLE", "SWEEPING", "ALLOCATING", "CANCEL_ALLOCATION", "SHUTDOWN"}
BFS    == {"DONE", "RUN", "JUST_FINISHED"}

\* Where the main thread can wait for the helper, and where it goes then.
MainPcs == {"run", "gcWait", "gc", "gcSweep", "allocWait", "heapWait", "iterWait",
            "heap", "oomShrunk", "oomWait", "retry", "join", "done"}

\* Unlocked regions of the helper: finalizing, unmapping chunks, decommitting
\* and mapping a chunk.  In "loop" it is about to look at the state.
HelperPcs == {"loop", "finalize", "unmap", "decommit", "allocate", "exit"}

FlagsOK ==
  /\ sweepFlag \in BOOLEAN /\ shrinkFlag \in BOOLEAN /\ shrinkAsked \in BOOLEAN
  /\ freeLater \in BOOLEAN /\ gcRunning \in BOOLEAN /\ contexts \in BOOLEAN
  /\ chunkAllocation \in BOOLEAN /\ background \in BOOLEAN
  /\ shrinking \in BOOLEAN /\ retry \in BOOLEAN
  /\ mainWaits \in BOOLEAN /\ helperWaits \in BOOLEAN

\* The type invariant.
TypeOK ==
  /\ state \in States
  /\ FlagsOK
  /\ finalizeVector \in Seq(Kinds)
  /\ finalized \in Nat
  /\ bfs \in [Kinds -> BFS]
  /\ arenas \in SUBSET Kinds
  /\ chunkSet \in SUBSET Chunks /\ pool \in SUBSET Chunks
  /\ toFree \in SUBSET Chunks
  /\ age \in [Chunks -> Ages]
  /\ freeCommitted \in Nat
  /\ collecting \in SUBSET Kinds
  /\ sweepNext \in 1..(NumKinds + 1)
  /\ mainPc \in MainPcs
  /\ helperPc \in HelperPcs

Init ==
  /\ state = "IDLE"
  /\ sweepFlag = FALSE /\ shrinkFlag = FALSE /\ shrinkAsked = FALSE
  /\ finalizeVector = << >> /\ finalized = 0 /\ freeLater = FALSE
  /\ bfs = [k \in Kinds |-> "DONE"]
  /\ arenas = {}
  /\ gcRunning = FALSE /\ contexts = FALSE
  /\ chunkSet = {} /\ pool = {} /\ toFree = {} /\ freeCommitted = 0
  /\ age = [c \in Chunks |-> 0]
  /\ chunkAllocation = FALSE /\ shrinking = FALSE /\ retry = FALSE
  /\ collecting = {} /\ sweepNext = 1 /\ background = FALSE
  /\ mainPc = "run" /\ mainWaits = FALSE
  /\ helperPc = "loop" /\ helperWaits = FALSE

-----------------------------------------------------------------------------
(* Chunks.                                                                  *)

Unmapped == Chunks \ (chunkSet \cup pool \cup toFree)

\* ChunkPool::put: the chunk becomes the head of the list, with age 0.
Put(cs) ==
  /\ pool' = pool \cup cs
  /\ age' = [c \in Chunks |-> IF c \in cs THEN 0 ELSE age[c]]

\* A chunk at the head of the list.
Heads == {c \in pool : \A d \in pool : age[c] <= age[d]}

\* The chunks ChunkPool::expire takes out of the pool.
Expired(releaseAll) ==
  {c \in pool : releaseAll \/ age[c] = MaxEmptyChunkAge}

\* ExpireChunksAndArenas up to the point where it gives up the lock.
Expire(releaseAll) ==
  /\ pool' = pool \ Expired(releaseAll)
  /\ toFree' = Expired(releaseAll)
  /\ age' = [c \in Chunks |-> IF c \in pool \ Expired(releaseAll)
                              THEN age[c] + 1 ELSE 0]

\* rt->gcChunkPool.wantBackgroundAllocation(rt).
WantBackgroundAllocation(emptyChunks) ==
  /\ CanBackgroundAllocate
  /\ emptyChunks = {}
  /\ Cardinality(chunkSet) >= MinChunkSet

\* What freeCommitted can be after arenas became free (an arena whose decommit
\* failed is put back even at the bound).
MoreFree == {freeCommitted} \cup freeCommitted..MaxFree

\* What it can be when the chunks cs have left gcChunkSet.
FreeAfter(cs) ==
  IF cs = {} THEN (IF chunkSet = {} THEN {0} ELSE MoreFree)
  ELSE IF cs = chunkSet THEN {0} ELSE 0..MaxFree

\* Finalization gives arenas back: committed arenas become free, and a chunk
\* whose arenas are all free moves to the pool (Chunk::releaseArena).
ReleaseArenas ==
  \E cs \in SUBSET chunkSet :
    /\ chunkSet' = chunkSet \ cs
    /\ Put(cs)
    /\ freeCommitted' \in FreeAfter(cs)

-----------------------------------------------------------------------------
(* Condition variables.                                                     *)

\* PR_NotifyCondVar(wakeup): the helper is the only thread that waits on it.
NotifyWakeup == helperWaits' = FALSE

\* Mutant: the notification is forgotten.
NoNotifyDone == UNCHANGED mainWaits

\* PR_NotifyAllCondVar(done): the main thread is the only one that waits.
NotifyDone == mainWaits' = FALSE

\* while (state is in busy) PR_WaitCondVar(done, PR_INTERVAL_NO_TIMEOUT);
WaitDone(busy, waiting, next) ==
  IF state' \in busy
  THEN mainWaits' = TRUE /\ mainPc' = waiting
  ELSE mainWaits' = FALSE /\ mainPc' = next

\* GCHelperThread::waitBackgroundSweepEnd()
WaitBackgroundSweepEnd(waiting, next) ==
  /\ UNCHANGED state
  /\ WaitDone({"SWEEPING"}, waiting, next)

\* Mutants: the wait ends while a cancelled allocation, or a sweep, goes on;
\* the allocation is waited for and not cancelled, and notifies nobody.
WaitForSweepOnly(waiting, next) ==
  /\ state' = IF state = "ALLOCATING" THEN "CANCEL_ALLOCATION" ELSE state
  /\ WaitDone({"SWEEPING"}, waiting, next)

WaitForAllocOnly(waiting, next) ==
  /\ state' = IF state = "ALLOCATING" THEN "CANCEL_ALLOCATION" ELSE state
  /\ WaitDone({"CANCEL_ALLOCATION"}, waiting, next)

WaitWithoutCancel(waiting, next) ==
  /\ UNCHANGED state
  /\ WaitDone({"SWEEPING", "ALLOCATING"}, waiting, next)

\* GCHelperThread::waitBackgroundSweepOrAllocEnd()
WaitBackgroundSweepOrAllocEnd(waiting, next) ==
  /\ state' = IF state = "ALLOCATING" THEN "CANCEL_ALLOCATION" ELSE state
  /\ WaitDone({"SWEEPING", "CANCEL_ALLOCATION"}, waiting, next)

-----------------------------------------------------------------------------
(* The main thread.                                                         *)

\* ShrinkGCBuffers and, inlined, GCHelperThread::startBackgroundShrink.
StartBackgroundShrink ==
  \/ /\ state = "IDLE"
     /\ state' = "SWEEPING" /\ shrinkFlag' = TRUE /\ shrinkAsked' = TRUE
     /\ NotifyWakeup
  \/ /\ state = "SWEEPING"
     /\ shrinkFlag' = TRUE /\ shrinkAsked' = TRUE
     /\ UNCHANGED <<state, helperWaits>>
  \/ /\ state \in {"ALLOCATING", "CANCEL_ALLOCATION"}
     /\ UNCHANGED <<state, shrinkFlag, shrinkAsked, helperWaits>>

ShrinkGCBuffers ==
  /\ mainPc = "run"
  /\ StartBackgroundShrink
  /\ UNCHANGED <<sweepFlag, listVars, chunkVars, gcVars, mainVars, helperPc,
                 shrinking, retry>>

\* PickChunk when no chunk has an available arena: ChunkPool::get takes an
\* empty chunk or maps one, and may start allocation in the background; the
\* chunk is unmapped again when gcChunkSet.add fails.
PickChunk ==
  \E c \in IF pool = {} THEN Unmapped ELSE Heads, added \in BOOLEAN :
    /\ pool' = pool \ {c} /\ age' = [age EXCEPT ![c] = 0]
    /\ chunkSet' = IF added THEN chunkSet \cup {c} ELSE chunkSet
    /\ chunkAllocation' = TRUE
    /\ IF WantBackgroundAllocation(pool \ {c}) /\ state = "IDLE"
       THEN state' = "ALLOCATING" /\ NotifyWakeup
       ELSE UNCHANGED <<state, helperWaits>>

\* ArenaLists::allocateFromArena for one kind: with the lock held the first
\* allocation after a background finalization sets JUST_FINISHED to DONE.
AllocateFromArena(k) ==
  /\ mainPc = "run" /\ contexts
  /\ bfs' = [bfs EXCEPT ![k] = IF @ = "JUST_FINISHED" THEN "DONE" ELSE @]
  /\ \/ \* A free thing of the list, or no memory for another arena.
        /\ UNCHANGED <<arenas, state, helperWaits, pool, chunkSet, age,
                       freeCommitted, chunkAllocation>>
     \/ \* An arena, committed or not, of a chunk with available arenas.
        /\ chunkSet # {}
        /\ arenas' = arenas \cup {k}
        /\ freeCommitted' \in {freeCommitted, freeCommitted - 1} \cap Nat
        /\ UNCHANGED <<state, helperWaits, pool, chunkSet, age, chunkAllocation>>
     \/ \* Another chunk, and an arena of it unless gcMaxBytes is reached.
        /\ PickChunk
        /\ arenas' \in IF chunkSet' = chunkSet THEN {arenas}
                       ELSE {arenas, arenas \cup {k}}
        /\ freeCommitted' \in IF chunkSet' = chunkSet THEN {freeCommitted}
                              ELSE MoreFree
  /\ UNCHANGED <<sweepFlag, shrinkFlag, shrinkAsked, finalizeVector, finalized,
                 freeLater, toFree, gcRunning, contexts, collecting, sweepNext,
                 background, mainVars, helperPc, shrinking, retry>>

\* ArenaLists::refillFreeList after a failed attempt: wait for the sweep and
\* try again (the second attempt and the GC after it start from "run").
RefillWait ==
  /\ mainPc = "run" /\ contexts
  /\ WaitBackgroundSweepEnd("allocWait", "run")
  /\ UNCHANGED <<sweepFlag, shrinkFlag, shrinkAsked, listVars, chunkVars, gcVars,
                 helperVars>>

\* JSRuntime::onOutOfMemory, up to the wait.
OnOutOfMemory ==
  /\ mainPc = "run"
  /\ StartBackgroundShrink
  /\ mainPc' = "oomShrunk"
  /\ UNCHANGED <<sweepFlag, listVars, chunkVars, gcVars, mainWaits, helperPc,
                 shrinking, retry>>

OnOutOfMemoryWait ==
  /\ mainPc = "oomShrunk"
  /\ WaitBackgroundSweepOrAllocEnd("oomWait", "retry")
  /\ UNCHANGED <<sweepFlag, shrinkFlag, shrinkAsked, listVars, chunkVars, gcVars,
                 helperVars>>

\* The allocation is tried a second time and onOutOfMemory returns.
OnOutOfMemoryRetry ==
  /\ mainPc = "retry"
  /\ mainPc' = "run"
  /\ UNCHANGED <<requestVars, listVars, chunkVars, gcVars, mainWaits, helperVars>>

\* TraceRuntime, IterateCells, IterateChunks, IterateCompartmentsArenasCells
\* wait for the sweep only; JS_IterateCompartments, StartVerifyBarriers and
\* EndVerifyBarriers also stop the background allocation.
BeginHeapSession(stopAllocation) ==
  /\ mainPc = "run"
  /\ gcRunning' = TRUE
  /\ IF stopAllocation
     THEN WaitBackgroundSweepOrAllocEnd("iterWait", "heap")
     ELSE WaitBackgroundSweepEnd("heapWait", "heap")
  /\ UNCHANGED <<sweepFlag, shrinkFlag, shrinkAsked, listVars, chunkVars, contexts,
                 collecting, sweepNext, background, chunkAllocation, helperVars>>

EndHeapSession ==
  /\ mainPc = "heap"
  /\ gcRunning' = FALSE
  /\ mainPc' = "run"
  /\ UNCHANGED <<requestVars, listVars, chunkVars, contexts, collecting, sweepNext,
                 background, chunkAllocation, mainWaits, helperVars>>

\* GCCycle up to the end of waitBackgroundSweepOrAllocEnd.
GCCycle(ks) ==
  /\ mainPc = "run"
  /\ gcRunning' = TRUE
  /\ collecting' = ks
  /\ WaitBackgroundSweepOrAllocEnd("gcWait", "gc")
  /\ UNCHANGED <<sweepFlag, shrinkFlag, shrinkAsked, listVars, chunkVars,
                 sweepNext, background, chunkAllocation, helperVars>>

CollectSome == UNCHANGED contexts /\ \E ks \in (SUBSET Kinds) \ {{}} : GCCycle(ks)

\* NewContext: the first context of the runtime, or one made after the last
\* was destroyed.
NewContext ==
  /\ mainPc = "run" /\ ~contexts
  /\ contexts' = TRUE
  /\ UNCHANGED <<requestVars, listVars, chunkVars, gcRunning, collecting,
                 sweepNext, background, chunkAllocation, mainVars, helperVars>>

\* DestroyContext of the last context: a full, non-incremental collection.
\* JSGC_END callbacks may ask for more of them (the gcPoke loop of Collect).
CollectLast == contexts' = FALSE /\ GCCycle(Kinds)

\* The main thread returns from PR_WaitCondVar(done) and tests the state.
MainWakes ==
  /\ ~mainWaits
  /\ \/ mainPc = "gcWait" /\ WaitBackgroundSweepOrAllocEnd("gcWait", "gc")
     \/ mainPc = "iterWait" /\ WaitBackgroundSweepOrAllocEnd("iterWait", "heap")
     \/ mainPc = "heapWait" /\ WaitBackgroundSweepEnd("heapWait", "heap")
     \/ mainPc = "allocWait" /\ WaitBackgroundSweepEnd("allocWait", "run")
     \/ mainPc = "oomWait" /\ WaitBackgroundSweepOrAllocEnd("oomWait", "retry")
  /\ UNCHANGED <<sweepFlag, shrinkFlag, shrinkAsked, listVars, chunkVars, gcVars,
                 helperVars>>

EndSession ==
  /\ gcRunning' = FALSE
  /\ collecting' = {}
  /\ chunkAllocation' = FALSE
  /\ sweepNext' = 1 /\ background' = FALSE
  /\ mainPc' = "run"

\* A slice that leaves marking unfinished does not sweep.
EndSlice ==
  /\ mainPc = "gc" /\ contexts
  /\ EndSession
  /\ UNCHANGED <<requestVars, listVars, chunkVars, contexts, mainWaits,
                 helperVars>>

\* Mutant: the last collection may sweep in the background too.
PrepareAlways == BOOLEAN

\* Values of startBackgroundSweep: prepareForBackgroundSweep fails when it
\* cannot reserve memory, and is not called without contexts.
PrepareForBackgroundSweep == IF contexts THEN BOOLEAN ELSE {FALSE}

\* SweepPhase, before the kinds that are finalized in the background.
\* The finalizers of the kinds finalized in the foreground give arenas back
\* and, with a background sweep ahead, leave pointers to be freed by it.
SweepPhase ==
  /\ mainPc = "gc"
  /\ background' \in PrepareForBackgroundSweep
  /\ mainPc' = "gcSweep"
  /\ ReleaseArenas
  /\ freeLater' \in IF background' THEN BOOLEAN ELSE {freeLater}
  /\ UNCHANGED <<requestVars, finalizeVector, finalized, bfs, arenas, toFree,
                 gcRunning, contexts, collecting, sweepNext, chunkAllocation, mainWaits, helperVars>>

\* ArenaLists::finalizeLater for the next kind.
FinalizeLater ==
  /\ mainPc = "gcSweep" /\ sweepNext <= NumKinds
  /\ sweepNext' = sweepNext + 1
  /\ \/ /\ sweepNext \notin collecting \cap arenas
        /\ UNCHANGED <<listVars, chunkVars>>
     \/ /\ sweepNext \in collecting \cap arenas /\ background
        /\ finalizeVector' = Append(finalizeVector, sweepNext)
        /\ arenas' = arenas \ {sweepNext}
        /\ bfs' = [bfs EXCEPT ![sweepNext] = "RUN"]
        /\ UNCHANGED <<finalized, freeLater, chunkVars>>
     \/ /\ sweepNext \in collecting \cap arenas /\ ~background
        /\ ReleaseArenas
        /\ arenas' \in {arenas, arenas \ {sweepNext}}
        /\ bfs' = [bfs EXCEPT ![sweepNext] = "DONE"]
        /\ UNCHANGED <<finalizeVector, finalized, freeLater, toFree>>
  /\ UNCHANGED <<requestVars, gcRunning, contexts, collecting, background,
                 chunkAllocation, mainVars, helperVars>>

\* The end of GCCycle: startBackgroundSweep(gckind == GC_SHRINK).
StartBackgroundSweep(shouldShrink) ==
  /\ mainPc = "gcSweep" /\ sweepNext > NumKinds
  /\ IF background
     THEN /\ sweepFlag' = TRUE
          /\ shrinkFlag' = shouldShrink
          /\ shrinkAsked' = shouldShrink
          /\ state' = "SWEEPING"
          /\ NotifyWakeup
     ELSE UNCHANGED <<requestVars, helperWaits>>
  /\ EndSession
  /\ UNCHANGED <<listVars, chunkVars, contexts, mainWaits, helperPc, shrinking, retry>>

\* GCHelperThread::finish, called when the runtime is destroyed.
Finish ==
  /\ mainPc = "run" /\ ~contexts
  /\ IF state = "IDLE" THEN NotifyWakeup ELSE UNCHANGED helperWaits
  /\ state' = "SHUTDOWN"
  /\ mainPc' = "join"
  /\ UNCHANGED <<sweepFlag, shrinkFlag, shrinkAsked, listVars, chunkVars, gcVars,
                 mainWaits, helperPc, shrinking, retry>>

\* PR_JoinThread returns; js_FinishGC deletes the compartments.
Join ==
  /\ mainPc = "join" /\ helperPc = "exit"
  /\ mainPc' = "done"
  /\ UNCHANGED <<requestVars, listVars, chunkVars, gcVars, mainWaits, helperVars>>

-----------------------------------------------------------------------------
(* The helper thread: threadLoop and doSweep.                               *)

\* The end of the SWEEPING case of threadLoop.
EndSweep ==
  /\ state' = IF state = "SWEEPING" THEN "IDLE" ELSE state
  /\ shrinkAsked' = FALSE
  /\ shrinking' = FALSE
  /\ NotifyDone
  /\ helperPc' = "loop"

\* DecommitArenas: fetch the next free committed arena and give up the lock
\* to decommit it.  (With gcRunning set the lock is kept, but then the main
\* thread is waiting for the sweep to end and the difference is not seen.)
Decommit(free) ==
  IF free > 0
  THEN /\ freeCommitted' = free - 1
       /\ helperPc' = "decommit"
       /\ shrinking' = TRUE
       /\ UNCHANGED <<state, shrinkAsked, mainWaits>>
  ELSE freeCommitted' = free /\ EndSweep

\* ExpireChunksAndArenas, until the lock is given up or the sweep ends.
ExpireChunksAndArenas(shouldShrink) ==
  /\ Expire(shouldShrink)
  /\ IF Expired(shouldShrink) # {}
     THEN /\ helperPc' = "unmap"
          /\ shrinking' = shouldShrink
          /\ UNCHANGED <<state, shrinkAsked, mainWaits, freeCommitted>>
     ELSE IF shouldShrink
     THEN Decommit(freeCommitted)
     ELSE EndSweep /\ UNCHANGED freeCommitted

HelperWaits ==
  /\ helperPc = "loop" /\ ~helperWaits /\ state = "IDLE"
  /\ helperWaits' = TRUE
  /\ UNCHANGED <<requestVars, listVars, chunkVars, gcVars, mainVars, helperPc,
                 shrinking, retry>>

\* doSweep with sweepFlag set: finalize without the lock.
DoSweepFinalize ==
  /\ helperPc = "loop" /\ ~helperWaits /\ state = "SWEEPING" /\ sweepFlag
  /\ sweepFlag' = FALSE
  /\ helperPc' = "finalize"
  /\ UNCHANGED <<state, shrinkFlag, shrinkAsked, listVars, chunkVars, gcVars,
                 mainVars, helperWaits, shrinking, retry>>

\* doSweep for a shrink alone.
DoSweepShrink ==
  /\ helperPc = "loop" /\ ~helperWaits /\ state = "SWEEPING" /\ ~sweepFlag
  /\ ExpireChunksAndArenas(shrinkFlag)
  /\ UNCHANGED <<sweepFlag, shrinkFlag, listVars, chunkSet, gcVars, mainPc,
                 helperWaits, retry>>

\* FinalizeArenas releases arenas of the list one by one, each with the lock.
BackgroundReleaseArena ==
  /\ helperPc = "finalize" /\ finalized < Len(finalizeVector)
  /\ ReleaseArenas
  /\ UNCHANGED <<requestVars, listVars, toFree, gcVars, mainVars, helperVars>>

\* What is left of a finalized list is added to the arenas allocated meanwhile.
AddFinalized(k) ==
  \/ /\ arenas' = arenas \cup {k}
     /\ bfs' = [bfs EXCEPT ![k] = "JUST_FINISHED"]
  \/ /\ UNCHANGED arenas
     /\ bfs' = [bfs EXCEPT ![k] = "DONE"]

\* The locked end of ArenaLists::backgroundFinalize.
BackgroundFinalize ==
  /\ helperPc = "finalize" /\ finalized < Len(finalizeVector)
  /\ AddFinalized(finalizeVector[finalized + 1])
  /\ finalized' = finalized + 1
  /\ UNCHANGED <<requestVars, finalizeVector, freeLater, chunkVars, gcVars,
                 mainVars, helperVars>>

\* finalizeVector.resize(0), the pointers of freeLater are freed; the lock is
\* taken again and the pool expires.
DoSweepExpire ==
  /\ helperPc = "finalize" /\ finalized = Len(finalizeVector)
  /\ finalizeVector' = << >> /\ finalized' = 0 /\ freeLater' = FALSE
  /\ ExpireChunksAndArenas(shrinkFlag)
  /\ UNCHANGED <<sweepFlag, shrinkFlag, bfs, arenas, chunkSet, gcVars, mainPc,
                 helperWaits, retry>>

\* Mutant: the flag is not looked at again.
NoRecheck == FALSE

\* A shrink was asked for after doSweep read shrinkFlag.
RecheckShrink == shrinkFlag

\* FreeChunkList is done.  A shrink asked for while the lock was free during
\* the first, non-shrinking call is seen by the recheck of shrinkFlag.
UnmapDone ==
  /\ helperPc = "unmap"
  /\ IF shrinking
     THEN /\ toFree' = {}
          /\ Decommit(freeCommitted)
          /\ UNCHANGED <<pool, age, shrinkFlag>>
     ELSE IF RecheckShrink
     THEN /\ shrinkFlag' = FALSE
          /\ ExpireChunksAndArenas(TRUE)
     ELSE /\ toFree' = {}
          /\ EndSweep
          /\ UNCHANGED <<pool, age, shrinkFlag, freeCommitted>>
  /\ UNCHANGED <<sweepFlag, listVars, chunkSet, gcVars, mainPc, helperWaits,
                 retry>>

\* MarkPagesUnused is done and the lock retaken.  A failure puts the arena
\* back on the free list.  A chunk allocated meanwhile ends the walk over one
\* of the two available lists, which was the last or is followed by the other.
Decommitted(ok) ==
  /\ helperPc = "decommit"
  /\ LET free == IF ok THEN freeCommitted ELSE freeCommitted + 1 IN
       \/ chunkAllocation /\ freeCommitted' = free /\ EndSweep
       \/ Decommit(free)
  /\ retry' = (helperPc' = "decommit" /\ (ok <=> retry))
  /\ UNCHANGED <<sweepFlag, shrinkFlag, listVars, chunkSet, pool, age, toFree,
                 gcVars, mainPc, helperWaits>>

\* The ALLOCATING case: map a chunk without the lock.
StartAllocate ==
  /\ helperPc = "loop" /\ ~helperWaits /\ state = "ALLOCATING"
  /\ helperPc' = "allocate"
  /\ UNCHANGED <<requestVars, listVars, chunkVars, gcVars, mainVars, helperWaits,
                 shrinking, retry>>

\* A chunk was mapped and goes to the pool, or the system is out of memory.
Allocated ==
  /\ helperPc = "allocate"
  /\ \E cs \in {{}} \cup {{c} : c \in Unmapped} :
       /\ Put(cs)
       /\ IF state = "ALLOCATING" /\ (cs = {} \/ ~WantBackgroundAllocation(pool \cup cs))
          THEN state' = "IDLE" ELSE UNCHANGED state
       /\ helperPc' = IF cs # {} /\ state = "ALLOCATING"
                                 /\ WantBackgroundAllocation(pool \cup cs)
                      THEN "allocate" ELSE "loop"
  /\ UNCHANGED <<sweepFlag, shrinkFlag, shrinkAsked, listVars, chunkSet, toFree,
                 freeCommitted, gcVars, mainVars, helperWaits, shrinking, retry>>

AllocationCancelled ==
  /\ helperPc = "loop" /\ ~helperWaits /\ state = "CANCEL_ALLOCATION"
  /\ state' = "IDLE"
  /\ NotifyDone
  /\ UNCHANGED <<sweepFlag, shrinkFlag, shrinkAsked, listVars, chunkVars, gcVars,
                 mainPc, helperVars>>

HelperExit ==
  /\ helperPc = "loop" /\ ~helperWaits /\ state = "SHUTDOWN"
  /\ helperPc' = "exit"
  /\ UNCHANGED <<requestVars, listVars, chunkVars, gcVars, mainVars, helperWaits,
                 shrinking, retry>>

\* A condition variable may wake its waiter without a notification.
SpuriousWakeup ==
  /\ \/ helperWaits /\ helperWaits' = FALSE /\ UNCHANGED mainWaits
     \/ mainWaits /\ mainWaits' = FALSE /\ UNCHANGED helperWaits
  /\ UNCHANGED <<requestVars, listVars, chunkVars, gcVars, mainPc, helperPc,
                 shrinking, retry>>

\* The runtime is gone and both threads have ended.
Terminated == mainPc = "done" /\ helperPc = "exit" /\ UNCHANGED vars

-----------------------------------------------------------------------------
Mutator ==
  \/ ShrinkGCBuffers \/ OnOutOfMemory \/ CollectSome \/ CollectLast
  \/ RefillWait \/ NewContext \/ Finish
  \/ \E k \in Kinds : AllocateFromArena(k)
  \/ \E stop \in BOOLEAN : BeginHeapSession(stop)

MainContinues ==
  \/ MainWakes \/ OnOutOfMemoryWait \/ OnOutOfMemoryRetry \/ EndHeapSession
  \/ EndSlice \/ SweepPhase \/ FinalizeLater \/ Join
  \/ \E shrink \in BOOLEAN : StartBackgroundSweep(shrink)

Helper ==
  \/ HelperWaits \/ DoSweepFinalize \/ DoSweepShrink
  \/ BackgroundFinalize \/ DoSweepExpire \/ UnmapDone
  \/ StartAllocate \/ Allocated \/ AllocationCancelled \/ HelperExit

Next ==
  \/ Mutator \/ MainContinues \/ Helper \/ BackgroundReleaseArena
  \/ \E ok \in BOOLEAN : Decommitted(ok)
  \/ SpuriousWakeup \/ Terminated

Spec == Init /\ [][Next]_vars

\* Threads that can run do run; a collection and a heap session end.  The
\* mutator owes nothing.  MarkPagesUnused may fail, but not for ever.
Fairness ==
  /\ WF_vars(MainContinues) /\ WF_vars(Helper)
  /\ WF_vars(Decommitted(TRUE))

LiveSpec == Spec /\ Fairness

\* The same threads when the system may refuse to decommit again and again.
FaultySpec ==
  /\ Spec
  /\ WF_vars(MainContinues) /\ WF_vars(Helper)
  /\ WF_vars(\E ok \in BOOLEAN : Decommitted(ok))

-----------------------------------------------------------------------------
(* Safety.                                                                  *)

\* While the collector works without the lock (GCCycle inside AutoUnlockGC)
\* and when onOutOfMemory retries, the helper is in none of its unlocked
\* regions; while a heap session iterates, it may at most be mapping a chunk.
HeapExclusive ==
  /\ mainPc \in {"gc", "gcSweep", "retry"} => helperPc = "loop"
  /\ mainPc = "heap" => helperPc \in {"loop", "allocate"}

\* A kind is in state BFS_RUN exactly when its arenas are still queued in
\* finalizeVector, where each kind is queued once: allocateFromArena takes
\* the lock for as long as the helper can add arenas, and no longer.
RunIffQueued ==
  /\ \A k \in Kinds :
       bfs[k] = "RUN" <=>
         \E i \in (finalized + 1)..Len(finalizeVector) : finalizeVector[i] = k
  /\ \A i, j \in 1..Len(finalizeVector) :
       finalizeVector[i] = finalizeVector[j] => i = j

\* finalizeLater asserts that a kind without arenas is BFS_DONE.
JustFinishedHasArenas ==
  \A k \in Kinds : bfs[k] = "JUST_FINISHED" => k \in arenas

\* Neither thread sleeps on a condition variable that nobody will notify: the
\* helper sleeps only when there is nothing to do, the main thread only while
\* the helper still has to notify it.
NoLostWakeup ==
  /\ helperWaits => state = "IDLE" /\ helperPc = "loop"
  /\ mainWaits => state \in {"SWEEPING", "CANCEL_ALLOCATION"}
  /\ mainWaits /\ mainPc \in {"allocWait", "heapWait"} => state = "SWEEPING"

\* The assertions of prepareForBackgroundSweep, startBackgroundSweep,
\* startBackgroundShrink and finish about the state they are called in.
CallerAssertions ==
  /\ mainPc \in {"gc", "gcSweep"} => state = "IDLE" /\ ~sweepFlag
  /\ mainPc = "run" => state # "SHUTDOWN"
  /\ state = "IDLE" => ~sweepFlag
  /\ mainPc = "run" /\ ~contexts => state \in {"IDLE", "SWEEPING"}

\* Once finish() has joined the helper every queued list has been finalized
\* and every expired chunk unmapped: ~ArenaLists asserts BFS_DONE.
NothingLeftBehind ==
  mainPc = "done" =>
    /\ \A k \in Kinds : bfs[k] = "DONE"
    /\ finalizeVector = << >> /\ toFree = {} /\ ~sweepFlag /\ ~freeLater

\* releaseArena takes the lock only if it reads the state SWEEPING: whenever
\* the helper releases arenas it does, also while finish() asks it to end.
ReleaseArenaLocked == helperPc = "finalize" => state = "SWEEPING"

\* A chunk has one owner: in use, in the pool, or about to be unmapped.
ChunkOwnership ==
  /\ chunkSet \cap pool = {}
  /\ chunkSet \cap toFree = {}
  /\ pool \cap toFree = {}

\* The states the two threads publish to each other fit together: every kind's
\* BFS_* state, the helper's state as its callers assert it, and the owner of
\* every chunk.
StatesCoherent ==
  /\ TypeOK /\ RunIffQueued /\ JustFinishedHasArenas
  /\ CallerAssertions /\ ReleaseArenaLocked /\ ChunkOwnership

\* A shrink asked for while the helper sweeps is not forgotten: when the
\* sweep ends the pool of empty chunks is empty.
ShrinkHonoured ==
  [][state = "SWEEPING" /\ state' = "IDLE" /\ shrinkAsked => pool' = {}]_vars

(* Liveness.                                                                *)

\* waitBackgroundSweepEnd and waitBackgroundSweepOrAllocEnd return.
WaitsEnd ==
  (mainPc \in {"gcWait", "iterWait", "heapWait", "allocWait", "oomWait"}) ~>
  (mainPc \in {"gc", "heap", "run", "retry"})

\* js_FinishGC: the background finalization stops and the helper shuts down.
ShutdownCompletes == (mainPc = "join") ~> (mainPc = "done")

\* Whoever waits for the helper goes on: nobody waits for a state that is
\* never reached.
HelperProgress == WaitsEnd /\ ShutdownCompletes

\* The comment of onOutOfMemory: the allocation is retried when the sweeping
\* is done and the empty GC chunks have been released.
RetryWithPoolReleased == mainPc = "retry" => pool = {}

=============================================================================
