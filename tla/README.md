# A verification development for SpiderMonkey with IonMonkey's range analysis

The repository is the `js/src` tree of Mozilla's SpiderMonkey in the first half
of 2012, with the IonMonkey compiler and an early range analysis
(`ion/RangeAnalysis.cpp`).  This directory holds TLA+ models of the parts of it
whose correctness is hard to test, TLC configurations that check them on small
instances, and proofs, checked by TLAPS, that hold for every instance.

| Module | What it models | Instances | Proofs |
|---|---|---|---|
| `GCHelperThread` | the collector's background thread and the main thread that drives it | `MCGCHelperThread`, `GCHelperThread.cfg` | `GCHelperThreadProofs` |
| `AvailableChunks`, `ArenaHeap` | the list of chunks with free arenas, the decommit loop; the heap they implement | `MCAvailableChunks`, `AvailableChunks.cfg` | `AvailableChunksProofs` |
| `IncrementalGC` | incremental marking: slices, barriers, mark stack, gray roots | `MCIncrementalGC`, `IncrementalGC.cfg` | `IncrementalGCProofs` |
| `WeakMarking` | weak maps, watchpoints and debuggers in a collection | `MCWeakMarking`, `WeakMarking.cfg` | `WeakMarkingProofs` |
| `IonScripts` | Ion code entered, called, invalidated, bailed out of, unwound | `MCIonCode`, `IonCode.cfg` | `IonScriptsProofs` |
| `MoveResolver` | parallel moves and the x86 move emitter | `MCIonCode`, `IonCode.cfg` | |
| `RangeAnalysis` | the Ion passes that remove checks from int32 arithmetic | `MCRangeAnalysis`, `RangeAnalysis.cfg`, `RangeQuotients.cfg` | |
| `ValueNumbering` | global value numbering of a loop | `MCValueNumbering`, `ValueNumbering.cfg` | |
| `LoopMotion`, `BoundsChecks` | alias analysis and LICM; bounds checks in loops | `MCIonLoops`, `IonLoops.cfg` | |
| `TypeInference` | type sets, constraints, barriers, recompilation | `MCTypeInference`, `TypeInference.cfg` | `TypeInferenceProofs` |
| `DHash`, `KeySet` | the double-hashing table; the set it implements | `MCDHash`, `DHash.cfg` | |
| `Watchdog` | the shell's watchdog thread, `timeout()` and `sleep()` | `MCShell`, `Shell.cfg` | `WatchdogProofs` |
| `Workers` | the shell's worker threads | `MCShell`, `Shell.cfg` | `WorkersProofs` |

`PROJECT.json` lists the components, runs, mutants, the map from definitions to
source lines, findings, hazards and theorems.  To repeat a check: `tlc -config
X.cfg MCX` for a run, `tlapm XProofs.tla` for proofs (some minutes each,
`TypeInferenceProofs` about ten).

An `MC` module may hold several instances ("families") of a module, or of two
modules that do not interact; the constant `Checked` of the cfg names those a
run takes, and a behaviour is one of one family.  A family that is defined and
not named in the cfg is one where the code breaks its promise (section 6).

## 1. The system and its components

**GC helper thread** (`jsgc.cpp` 2606-2885, `jsgc.h` 555-690).  State: a state
word (IDLE, SWEEPING, ALLOCATING, CANCEL_ALLOCATION, SHUTDOWN), two request
flags, a vector of arena lists to finalize, buffers of pointers to free, all
under `rt->gcLock`, and two condition variables.  Operations: start a sweep, a
shrink or a background allocation; wait for the end of a sweep or of an
allocation; finish.  Hard: the lock is released in the middle of every one of
them.  Correct when the two threads never work on the same heap data, no
request, arena list, chunk or wakeup gets lost, and every wait ends.

**Arena lists and chunk heap** (`jsgc.cpp` 367-870, 1437-1770, 2499-2626).
State: per compartment and kind an arena list and a `backgroundFinalizeState`;
per runtime the chunks in use, two lists of chunks with available arenas, and a
pool of empty chunks.  Correct when a chunk has one owner, an arena is handed
out once, and a list is handed to the helper once.

**Incremental marking** (`jsgc.cpp` 3398-3700, `gc/Barrier*.h`,
`gc/Marking.cpp`).  State: mark bits, mark stack, delayed arenas, gray roots,
`needsBarrier_` per compartment, the incremental state.  Hard: the script runs
between slices; a collection can be reset; the stack can overflow.  Correct
when nothing reachable is swept.

**Weak maps, watchpoints, debuggers** (`jsweakmap.*`, `jswatchpoint.cpp`,
`vm/Debugger.cpp`, `jscompartment.cpp`).  Each is live because something else
is; compartments are collected separately.  Correct when what they can still
use survives, and what is alive refers to nothing that is dead.

**Ion pass pipeline** (`ion/Ion.cpp`, `TestCompiler`).  A script becomes an SSA
graph, over which run critical edge splitting, renumbering, dominators, phi
elimination, type application, alias analysis, *early range analysis*, *global
value numbering*, *dead code elimination*, *LICM*, *late range analysis*,
lowering, register allocation, code generation.  Hard: a flag is set by one
pass from the uses it sees, later passes change the uses, and the code generator
reads the flag.  Correct when the code computes what the interpreter computes or
bails out before the difference is visible.

**Ion lifecycle** (`ion/Ion.cpp`, `Bailouts.cpp`, `IonFrames.cpp`).  Code is
discarded while frames of it are on the stack.  Correct when a frame never
outlives its code and code does not outlive its frames.

**Register allocation** (`MoveResolver.cpp`, move emitters).

**Type inference** (`jsinfer.cpp`): constraints between type sets, and code that
relies on them.  **Method JIT**: the loop of compiling and being invalidated.

**Shell**: a watchdog thread (`shell/js.cpp` 2780-2970) and workers with event
queues and a thread pool (`shell/jsworkers.cpp`).

**Libraries and the rest**: `jsdhash`; the interpreter, frontend, object model
and debugger API, which are sequential; vendored code, assemblers, build files.

The components interact through the heap: the helper thread finalizes what
`IncrementalGC` and `WeakMarking` leave unmarked, in arenas `AvailableChunks`
hands out; a collection discards the code of `IonScripts` and the types of
`TypeInference`, whose recompilations invalidate that code; the watchdog ends
scripts and, through `terminateAll`, workers.  Each module models its neighbours
by what they may do to its state at any time (a collection in `IonScripts`, a
compilation in `TypeInference`, the sweep in `AvailableChunks`).

`PROJECT.json` gives every component its status, and under `hazards` what is
hard to test, at its line, with the properties that cover it.

## 2. Threads and memory

### GCHelperThread (run `helper`)

Everything the two threads share is protected by `rt->gcLock`, so an action is
one region of code run with the lock held; `mainPc` and `helperPc` say in which
unlocked region a thread is.  The condition variables are the flags `mainWaits`
and `helperWaits`; `SpuriousWakeup` clears either at any time.

| Code | Actions |
|---|---|
| `allocateFromArena`, `PickChunk`, `ChunkPool::get` | `AllocateFromArena` |
| `refillFreeList` | `RefillWait` |
| `onOutOfMemory` | `OnOutOfMemory`, `OnOutOfMemoryWait`, `OnOutOfMemoryRetry` |
| `ShrinkGCBuffers`, `startBackgroundShrink` | `ShrinkGCBuffers` |
| `AutoHeapSession` and the iterators | `BeginHeapSession`, `EndHeapSession` |
| `GCCycle`, `SweepPhase`, `finalizeLater`, `startBackgroundSweep` | `CollectSome`, `CollectLast`, `EndSlice`, `SweepPhase`, `FinalizeLater`, `StartBackgroundSweep` |
| `NewContext`, `DestroyContext`, `finish` | `NewContext`, `CollectLast`, `Finish`, `Join` |
| `threadLoop` | `HelperWaits`, `StartAllocate`, `Allocated`, `AllocationCancelled`, `HelperExit` |
| `doSweep`, `backgroundFinalize`, `expire`, decommit | `DoSweepFinalize`, `BackgroundReleaseArena`, `BackgroundFinalize`, `DoSweepExpire`, `DoSweepShrink`, `UnmapDone`, `Decommitted` |

A kind is one (compartment, AllocKind) pair finalized in the background; of its
list the model keeps whether it has arenas.  The pool is a set with ages.  The
free committed arenas are one counter, capped by `MaxFree`; which chunks a
finalization empties is nondeterministic.

The run has two kinds (a queue whose first list is done and whose second is
not), two chunks (one in use while another is in the pool, being unmapped or
mapped) and one age step; 299 927 states.  `HeapExclusive`, `NoLostWakeup`,
`NothingLeftBehind` and `ShrinkHonoured` (an action property: a shrink accepted
during a sweep leaves the pool empty) are what the names say.  `StatesCoherent`
joins the type invariant, `RunIffQueued` and `JustFinishedHasArenas`
(`backgroundFinalizeState`, which `allocateFromArena` reads without the lock, is
exactly the state of the queue), `CallerAssertions`, `ReleaseArenaLocked` (the
conditional lock of `releaseArena` is taken when it is needed) and
`ChunkOwnership`.  `HelperProgress`: every wait for the helper ends, and so does
the shutdown.

Fairness: weak fairness of the main thread inside a call and of the helper,
because both are preemptively scheduled and nobody holds the lock for ever;
nothing is assumed of the mutator, which may never collect or shut down.
`WF(Decommitted(TRUE))` says that giving back an arena succeeds in the end:
without it `FaultySpec` refutes `ShutdownCompletes` (section 6).

### AvailableChunks and ArenaHeap (run `chunks`)

The doubly linked list of chunks (`head`, `next`, `prevp`), allocation from its
head, release by the sweeping thread, and `DecommitArenasFromAvailableList`,
which walks the list from its tail, takes an arena off it, gives up the lock to
decommit the arena's pages, and puts the chunk back at a pointer it remembered
(`savedPrevp`) if the allocator has used it up meanwhile.  One action is one
region with the lock held; `scan` is the part of the loop that keeps the lock
from one step to the next.  The system and the user list share no chunk and are
one; a chunk's arenas are sets.  The run has three chunks of two arenas and an
allocation limit of four; 302 657 states.

`ListCoherent`: the list is the chunks in use with a free arena, each once, and
every `prevp` points at the pointer to its chunk.  `ArenasAccounted`: each arena
is allocated, free, decommitted or held by the loop, and the counters agree.
`ImplementsHeap`: the module implements `ArenaHeap`, an abstract heap in which a
free arena of a chunk in use is found before another chunk is taken and a chunk
leaves with its last used arena, under the refinement mapping `HeapArena`.
`DecommitEnds` assumes weak fairness of the helper, of its releases and of the
end of a collection, and strong fairness of a successful decommit: if
`MarkPagesUnused` failed for ever, the loop would take the same arena for ever.

### IncrementalGC (run `incremental`)

Everything runs on one thread: while `pc` is `"js"` the script runs (`Write`,
`Read`, `DropRoot`, `ChangeGrayRoots`, `AllocateFromFreeList`,
`AllocateFromArena`), else a slice does (`Collect`, `Scan`,
`MarkDelayedChildren`, `OverBudget`, `EndSlice`, `MarkGray`, `GrayFinished`,
`Sweep`).  An object is a cell of an arena with pointer slots; any entry of the
mark stack may be next, and a limited slice may run out of budget after any.
The mark stack overflows at `StackLimit`; the arena is then put off
(`delayed`, `overflow`), as are arenas allocated from (`fresh`).  Sweeping is
one step; what it leaves to the helper thread is in `GCHelperThread`.

The run takes the heap `wide` (three objects in two arenas, one with a list of
pointers) and the families `comps` (two compartments, collected together or one
at a time) and `gray` (gray roots whose buffer may fail, triggers); the stack
has room for one entry, so overflow is the rule; 315 022 states.
`NothingLiveSwept` and `SnapshotMarked` are stated with `Reachable`, the least
closed set that contains the roots.  `MarkerCoherent`: barriers are on exactly
while a collection is under way, and arenas with a flag are on the list that
will be looked at.  `HeapsSound` is the three for the families.  `SlicesEnd`: a
slice, being a call, runs to its end (weak fairness of its steps).

### WeakMarking (run `weak`)

`MarkWeakReferences` with its passes over watchpoints, weak maps and debuggees,
each repeated from the first when one has marked something (`WatchPass`,
`MapPass`, `DebugPass`, `PassMarked`, `Drained`, `PassDone`), the two rounds of
`MarkGrayAndWeak`, the sweeps of all four tables, and the script between slices
(maps, watchpoints, handlers, `setEnabled`, `removeDebuggee`).  The strong heap
is a constant graph, for `IncrementalGC` has its barriers.  `Reach` is the
reference definition of what is live: the least set with the roots that `Keeps`
nothing else alive.

`MarkingExact`: nothing live is finalized, and nothing is kept that was not live
when the collection began, however the passes order things.  `ReferencesLive`:
no entry of a live map, watchpoint, breakpoint, nor the list of weak maps refers
to something dead.  The families are chains of map entries (`maps`), entries
changed between slices (`puts`), watchpoints (`watch`), a debugger collected
with its debuggee (`debug`) or without it (`debugComps`, `hooks`);
`BreakpointDebuggerLive` is left out for `debugComps` and `BreakpointHandlerLive`
for `debug`, where the code does not keep them (section 6).  636 790 states.
`WeakMarkingEnds` (with `LiveSpec`) is stated for longer runs and is in none.

### Watchdog and Workers (run `shell`)

`Watchdog`: `WatchdogMain` is `DogLoop`, `CancelExecution`,
`TriggerOperationCallback`, `NotifyAndLoop`; the main thread is `Prompt`, `Arm`,
`ScheduleWatchdog`, `Timeout`, `Sleep`, `SleepWakes`, `OperationCallback`,
`CommandEnds`, `KillWatchdog`, `Join`.  `PRIntervalTime` is a counter modulo
`Modulus`; the history variable `left` counts the ticks until the deadline
without wrapping.  `Tick` does not pass a deadline somebody sleeps for by more
than `Slack`: the scheduler is that prompt.  With `Modulus = 7` the clock wraps
around within every behaviour.  `SleepersWoken`: the thread never sleeps past the
deadline that is set, and a script asleep when it is canceled is notified.
`NeverDecidesEarly`: the watchdog decides to cancel, with its lock held, only when
the deadline armed at that moment has passed, whatever the clock shows.  It says
nothing of `CancelExecution`, which follows without the lock and may meet a
deadline that was armed in between (`CanceledWhenDue`, section 6).
`WatchdogProgress`: a limit takes effect, and `KillWatchdog` returns.

`Workers`: one action is one region with a lock held; `pc[t]` is the region of
`processOneEvent` a thread is in, `mainPc` that of the main thread.  An event is
its position in a queue.  `Workers` is checked for four pools: `ends` (a
watchdog and looping scripts), `two` (two workers for one thread), `gc` (the
collector of the main runtime), `oom` (failing allocations, nested workers).
`WorkersOwned`: one thread per worker, a worker is queued once,
`Worker::current` is set exactly while a thread processes an event.
`NothingStranded`: nobody sleeps while there is work, and no event waits for
nobody.  `LifetimesKept`: no worker in use is collected, however the two traces
of `jsTraceThreadPool` interleave with the threads; `finish` closes the queue
only when nothing is left.  `PoolProgress`: `terminate()` stops a looping
script, `terminateAll` lets `finish` end.

Fairness: weak fairness of the clock, the watchdog, the main thread's handlers
and every pool thread; strong fairness of the operation callback, which a script
meets again and again, and of the ends of scripts.  For the pool, which has one
worker, the latter is one strong fairness condition over its threads.  167 653
states in all.

## 3. Ion and type inference

### IonScripts (run `code`)

`stack` is the native stack: an `entry` opens an `IonActivation`, a `js` element
is a frame of Ion code, an `exit` is C++ code called by the frame below it or
running in place of one that has bailed out.  One thread runs, so this stack is
all the concurrency there is; what is hard is invalidation below a frame that
goes on later.

| Code | Actions |
|---|---|
| `Compile`, `CanEnter`, `Cannon`, `EnterIon` | `Compile`, `CanEnter`, `Skip`, `Cannon` |
| calls, VM calls and their returns | `CallIon`, `CallVM`, `Return`, `VMReturn`, `VMFail` |
| `ion::Invalidate`, `processPendingRecompiles` | `ProcessPendingRecompiles` with `Invalidate` |
| `InvalidateAll`, `FinishInvalidation`, `ReleaseAllJITCode` | `Collect`, `ReleaseAllJITCode` |
| `Bailout`, `InvalidationBailout` | `Bailout`, `InvalidationBailout` |
| `HandleException`, `CloseLiveIterators` | `HandleExceptionFrame`, `HandleExceptionEntry` |

`FramesHeld`: no frame that will run, bail out, be unwound or be traced is one
of a destroyed IonScript.  `CountsExact`: `refcount_` is the number of patched
frames still to be left, and nothing unused is kept.  `FramesCoherent`:
`checkInvalidation` answers TRUE exactly for patched frames, code that runs is
the code its script has, and a return override waits only for those that take
it.  Three scripts in two compartments, three addresses, eight elements of
stack.  `CHECK_DEADLOCK FALSE`: at the bound of the stack, and when the run
outside the model goes on, nothing in it does.

### MoveResolver (run `code`)

`AddMove`, then `resolve` (`PickRoot`, `PushBlocking` with `FindBlockingMove`,
`OrderMove`, `Resolved`), then the x86 emitter (`Emit`, `Finish`), which runs on a
small machine: every location holds at first a value of its own.  `MovesSound`: in
the end every destination holds what its source held before the group and all else
what it held itself; no move is put before one that still reads what it
overwrites; cycles have two marked moves and do not nest.  Families: `group` (registers, slots, doubles, up to five
moves), `call` (arguments of a call with failing allocations), `temp` (the
evicted register is in the group).  Together with IonScripts 1 338 545 states;
a group that has been emitted is an end, hence `CHECK_DEADLOCK FALSE`.

### RangeAnalysis (runs `range`, `range_quotients`)

A straight-line block of int32 instructions is built, every shape of it
(`BuildSome`), and the passes then visit it one instruction per action, in the
order of their iterators.

| Code | Actions and operators |
|---|---|
| `analyzeEarly`, `AllUsesTruncate` | `AnalyzeTruncateBackward`, `AllUsesTruncate` |
| `ValueNumberer::simplify`, `foldsTo` | `FoldToConstant`, `FoldToOperand`; `ArithFoldsTo`, `BitwiseFoldsTo`, `BitNotFoldsTo` |
| `computeValueNumbers`, `congruentTo` | `NumberDefinition`, `Congruent` |
| `eliminateRedundancies`, `updateForReplacement` | `EliminateRedundancy`, `KeepDefinition`, `UpdateForReplacement` |
| `EliminateDeadCode` | `EliminateDeadCode` |
| `analyzeLate`, `NeedNegativeZeroCheck` | `AnalyzeRangeForward`, `AnalyzeRangeBackward`, `NeedNegativeZeroCheck` |
| the interpreter's arithmetic | `Evaluate`, `Interpreted` |
| `visitAddI` ... `visitModI`, `visitBitOpI` | `Int32Code`, `Code`, `BailsOut` |

An int32 has `W` bits; `W = 3` has overflow, the asymmetric minimum and values of
both signs.  Numbers are exact fractions with a separate -0 and NaN; in the
families a fraction goes no further than a bit operation or a bailout, so the
rounding of doubles would change nothing.  `captured` is the definition that
stands for an instruction in resume points; the last one is always captured.

`AgreesWithInterpreter` holds at every step of every pass: if the graph in hand
were compiled with the flags in hand, then on every input each captured value
would equal the interpreter's number unless the code has bailed out before.
`TruncationComplete`: a single backward sweep reaches the fixed point of
`AllUsesTruncate`, and the graph is what `AssertGraphCoherency` asserts.
`NoDivideTrap`: `idiv` never sees a zero divisor or the minimum over -1.
Families: `truncate`, `merge` (five instructions, the least in which a truncated
addition is merged with one that is observed), `zero`, `divide`, `modulo`;
633 343 states.  `range_quotients` is section 6's.

### ValueNumbering (run `numbering`)

The optimistic (and the pessimistic) numbering of a loop with two phis: the
worklist, the hash table whose entries go stale, congruence classes as linked
lists, and the elimination along the dominator tree.  `Optimism` is the set of
settings of `gvnIsOptimistic` a run takes.  `CongruentIsEqual`: when the worklist
is empty, definitions with one number are equal on every run of the loop.
`EliminationSound`: the class lists are linked both ways, what is eliminated is
replaced by a definition that dominates its uses, and the loop computes what it
computed.  All choices of operands of two phis and three additions, four of the
multiplication; three trips; 786 020 states.  The pass ends: `CHECK_DEADLOCK
FALSE`.

### LoopMotion and BoundsChecks (run `loops`)

`LoopMotion`: alias analysis over two nested loops, value numbering of loads
with one dependency, LICM's worklist and the hoisting.  `MotionSound`: the
program reads what it read before, an instruction comes behind its operands, and
what could be moved was.  All programs of six instructions from a menu of loads,
stores and computations.  `BoundsChecks`: MBoundsCheck's merging, LICM's checks
before the loop, and the code generated for them, on integers of four bits.
`ChecksSound`: no element outside the array is accessed, and a merged check
covers those it stands for.  1 097 992 states; the passes end, hence
`CHECK_DEADLOCK FALSE`.

### TypeInference (run `types`)

Type sets, subset, barrier, freeze and tag constraints, the worklist (last in,
first out), barriers at reads, the compilers' reads of the sets, recompilation,
failed allocations (`nuke`), collections.  `TypesFlow`: between activations every
set has the types its constraints promise, or they are behind a barrier.
`CodeSound`: code that scripts may run relies only on what still holds: a frozen
set has the types it had, a set read for its tag has that tag, and no property
read without a check has a type that is not in the read's own set (which is
itself frozen or read for its tag where the code uses it).
`InferenceProgress`: the worklist is emptied, and `CanMethodJIT` gives an answer
(when no allocation fails).  Two scripts that feed each other; the families vary
what is written and what fails; weak fairness of the inference's own steps, for
the families `objects`, `ooms`, `answers`; 595 378 states.  The families reach
what the limits are for: `objects` widens a set to any object, `contributed`
does so for an object that is in too many sets already (the contribution limit is
reached from the start or never), `limit` gives up the barriers of a read that has
seen too many.  Sets only grow and the bounds (`MaxCompiles`, `MaxGCs`, `MaxOoms`)
are used up: `CHECK_DEADLOCK FALSE`.

### DHash and KeySet (run `hash_table`)

`jsdhash.cpp`, every call one step: probing, the removed entry, the collision
flag, growing, shrinking, compressing, failing allocations.  `TableCoherent`: a
free entry ends every search, the counters are right, every key is found where
it is.  `ImplementsKeySet`: the table implements `KeySet`, and entries move only
when `generation` changes.  Five keys, four of them on one probe path, sizes four
and eight; 17 641 states.

## 4. Properties, bounds and mutants

Several of a module's invariants may be one property of a run (`StatesCoherent`,
`MarkerCoherent`, `FramesCoherent`, ...): the parts have names and comments of
their own.  `W`, `Modulus`, `MaxUsed`, `MaxStack`, `MaxQueue`, `MaxTrips`, `MaxOps`,
`MaxCompiles` and their like, and the sizes of the sets, are bounds; where they
are chosen for a particular case to happen the module or the cfg says so.
Every property of every passing run has a mutant in `PROJECT.json`: a plausible
slip in the code, written as an operator next to the one it would replace.  TLC
finds the property violated under the run's own configuration.

## 5. What is proved

Each `Proofs` module states an inductive invariant, proves that `Init` implies
it and, one lemma per action, that each step preserves it, and derives the
properties.  TLC has checked every invariant on the run's instance before.

**GCHelperThread** (from `ConstantsAssumption`: the numbers are naturals, the
flag is a Boolean).  All its safety properties, `ShrinkHonoured` included, for
every number of kinds, every set of chunks and every bound.  `IndInv` adds which
states of the request word go with which place of either thread (`HelperInv`,
`MainInv`), that without contexts nothing is finalized in the background once
the last collection has waited (`ContextInv`), that the queue is empty unless a
sweep is prepared or running (`QueueInv`), that the last collection leaves each
kind BFS_DONE (`LastGCInv`), and that an accepted shrink is in the flag or in the
local of `doSweep` (`ShrinkInv`).

**Watchdog** (from `WatchdogAssumption`: the limit and the lateness together are
less than half the clock).  `SleepersWoken` and `NeverDecidesEarly`.  Every deadline
somebody looks at lies in a window around the clock that is shorter than half of
it (`DeadlineInv`), so `IsBefore`, which compares modulo the clock, orders
deadlines by the ticks that are left (`WindowOrder`); a tick moves the window.

**AvailableChunks** (from `AvailableChunksAssumption`: finite sets, at least two
arenas per chunk).  `ListCoherent`, `ArenasAccounted`, the type invariant, and
`ImplementsHeap`: initial states map to initial states and every step to a step
of `ArenaHeap` or a stutter.  The proof first shows what `Insert` and `Remove` do
to pointers that hold a set of chunks in some order (`Links`, `Linked`), then
that numbers of free arenas follow the sets (`ArenaCount`).  The invariant says
that the list holds exactly the chunks in use with a free arena, how the arenas
of a chunk are divided, which of the three places owns a chunk (`Owners`), that
the collector and the loop exclude each other, and that `savedPrevp` is the
address of a chunk in use or of the head while the lock is released (`Phases`).

**Workers** (from `WorkersAssumption`).  `WorkersOwned`, `NothingStranded`,
`LifetimesKept` and `TerminatedRunsNothing` of the module, for any number of
workers and threads, any bound on the queues, with or without a collector, a
watchdog and failing allocations.  `IndInv` says what a thread knows of the
worker it holds (`ThreadInv`), that a worker in use is live and known to its
parent (`LifeInv`), what the two traces of a collection in progress have
marked (`MarkInv`: what moves from the queue to a thread moves under the lock the
second trace takes), that a worker being created is known to nobody
(`CreateInv`), and what is left when the queue is closed (`EndInv`).  The run
checks the four on pools, as properties of `MCShell`.

**IncrementalGC** (from `IncrementalGCAssumption` and `TriggersHarmless`: either no
compartment is over its trigger or there is one compartment, without which
`SnapshotMarked` is false, section 6).  `MarkerCoherent`, `SnapshotMarked`,
`NothingLiveSwept`, for every heap, mark stack, number of compartments and of
slices.  What will be marked depends on the whole graph behind what is pending,
so it is stated by the sets marking may end with: `Covers(K)` says that `K`
contains what is marked, the gray roots and the cells of arenas allocated from,
and is closed under the slots that are still to be scanned.  `SnapshotCovered`:
every such `K` contains the snapshot and all that is reachable.  A step of the
marker or of the script never makes a set covering that was not; the pre-barrier
is what makes this true of a write.  When nothing is pending the marked objects
are such a `K`.  The remaining parts say that `overflow` and `fresh` arenas are
delayed, that stack entries are marked, and that the free lists of compartments
under collection are of `fresh` arenas.

**IonScripts** (from `ConstantsAssumption` and `Sound`: `CheckFrame` refuses no
frame of compiled code, scripts have one form of method JIT code, and no frame
that is unwound has a generator as an open iterator; each of the three is
necessary, section 6).  `FramesHeld`, `CountsExact`, `FramesCoherent` and
`InvalidatedNeverEntered` (an IonScript that was invalidated gets no new frame;
in no run), for any number of scripts, compartments and addresses and a stack of
any depth.  The invariant adds that an IonScript belongs to one script and the
frames of no other (`IonsOwned`), that the stack is made of activations, with the
entry of its compartment below every frame (`Activations`), and that C++ code
that watches for the invalidation of its caller has that caller below it
(`CallersKnown`).  The steps fall into five sorts, each with lemmas of its own:
those that leave IonScripts and frames alone, push a frame, compile, leave a
frame, and drop the code of some scripts while patching their frames.

**WeakMarking** (from `WeakMarkingAssumption`, the types of the constants and that
a breakpoint's handler is of its debugger's compartment).  `NothingLiveFinalized`,
`WatchpointsLive`, `ListSound` and the type invariant for every heap, every set of
weak maps, watchpoints and debuggers, and collections of any compartments.  With
`NoForeignKeys` also `NoDanglingEntry` and `OnlySnapshotMarked`; with collections
of all compartments `BreakpointDebuggerLive`; with debuggers that stay attached
`BreakpointHandlerLive`.  Without its condition each of the four is false (section
6).  `Closed(K)` says that `K` keeps nothing else alive, one kind of reference at a
time, and `Reach` is in every closed set that has the roots, so it is enough that
what is live is closed (`LiveClosed`) and that what the sweep would leave is
(`SurvivorsClosed`).  For the second, `Traced` covers the strong references;
`Passes` says what a pass that has marked nothing has established, and stays true
while the later passes mark nothing either; the values of maps, closures and
handlers that are not collected are saved by being of their owner's compartment
(`Local`).  What the script holds is covered as in IncrementalGC (`Covered`): every
set that has all that is marked and is closed under what the script can follow has
the roots, and the barriers of `put`, `remove`, `watch` and `unwatch` keep it so.
The values of a live map are live even where a key is not (`ReferentsLive`).  The
run checks these properties on families, as `MarkingExact` and `ReferencesLive`.

**TypeInference** (from `ProgramAssumption`: an analysis adds subset and barrier
constraints and types, a compiler asks about its own script's reads, whose
barrier constraints that script's analysis has left, the limit of barriers is
below that of objects and neither is 0).  For every program, every set of types,
any bounds and failing allocations: the type invariant; `TypesFlow`; `CodeSound`
when no constructor's barriers are broken all at once (`Breaks = {}`); without
that condition `UntaggedSound`, which is `CodeSound` for every use but tags; and
`NukedAtOnce` when the sweep's allocations succeed.  Without their conditions
`CodeSound` and `NukedAtOnce` are false (section 6).

The invariant has two halves.  `Flowing`: at every moment a type of a set is where
a constraint of that set should have put it, or an item of the worklist still owes
it (`Owed`); an owed `double` stands for `int` too, and `anyobject` for no object,
since widening a set takes its objects out of it.  `FlowUpTo(st, X)` allows
for the triples in `X`, so that the step that takes an item off the worklist
(`TakenFlow`) and the one that hands it over (`HandedFlow`) are lemmas of their
own; the loops of `pruneTypeBarriers` and `breakTypeBarriers` are gone through
with the barriers still to be visited as `X` (`VisitsOK`).  `Sound`: each use of
code is protected (`Guarded`) by a constraint that has not fired, and either the
set is as the compiler saw it or the item that makes the constraint fire is on
the worklist; a read without a check by there being no barrier yet, by the
barrier constraint, and by whoever inlined the script watching its flags.
`GuardsStay` says what a step must do to keep all guards, and `Protects` adds
that the code which lost one is to be recompiled.  This needs three facts about
order.  A compiler changes no types after its first question (`Ordered`): what it
inlines was analysed before, so nothing it was told changes before its code is
linked.  The barrier constraint of an analysed read is there or about to be
(`Installed`).  And of a tag constraint that waits for the first object of its
set, no other object comes before its turn (`TagOrder`): the worklist is last in,
first out, so all that is done before was caused by the same type.  Breaking
several barriers at once is what violates it.

The family `flow` breaks barriers with one object, where `CodeSound` holds; that
case is checked by TLC and not covered by the theorem.

Only model-checked, and why:

* Liveness (`HelperProgress`, `DecommitEnds`, `SlicesEnd`, `WatchdogProgress`,
  `PoolProgress`, `InferenceProgress`): fairness is outside the provers.
* `AgreesWithInterpreter`, `CongruentIsEqual`, `EliminationSound`, `MotionSound`,
  `ChecksSound`: what a program computes, by recursion over the program or the
  trips of a loop.  The library's induction theorems take an operator as a
  parameter, which the provers cannot instantiate.  `TypeInferenceProofs` has a
  form they can use, over a set (`NatInductionOverSet`), and needs it for one
  loop; these proofs would need it throughout, and are not done.  `LoopMotion`
  declares a RECURSIVE operator, so nothing about it can be proved.
* `TableCoherent` and `ImplementsKeySet`: that probing with an odd step visits
  every entry, and that growing re-enters all keys, are inductions as well, the
  first with arithmetic modulo the size.
* `MovesSound`, `TruncationComplete`, `NoDivideTrap`: not proved yet.
* The properties of `MCShell`, `MCIncrementalGC`, `MCWeakMarking` and
  `MCTypeInference` state those of the modules for each family; the theorems are
  about the modules themselves.

## 6. Where the code does not do what it says

Met while modelling.  Each is a property of a module that TLC refutes for the
constants given; those that a run's properties would run into are kept out of
the runs by these constants.  `range_quotients` is a run of its own.

| Code | Property and how to see it fail |
|---|---|
| `MDiv::analyzeTruncateBackward` (`ion/MIR.cpp` 734): a quotient used by a truncated sum is truncated, against the comment in `AllUsesTruncate`; `(-1 / 3 + 3) \| 0` gives 3 | `TruncatedSumOfQuotientsExact`, run `range_quotients` |
| `MDiv::foldsTo` (685) folds `0 / x` to 0; `MMod::foldsTo` (791) `0 % y` | `DivisionSpecialCasesPrevented`, `FoldedModulusNotZero`; families `divideZero`, `moduloZero` |
| `onOutOfMemory`'s comment (`jscntxt.cpp` 1126): in state ALLOCATING a shrink is ignored | `RetryWithPoolReleased` of `GCHelperThread` |
| a decommit that keeps failing keeps the loop (`jsgc.cpp` 2534) and shutdown waiting | `ShutdownCompletes` under `FaultySpec` |
| `JS_ASSERT(!chunk->unused())` (2562): at the heap limit `PickChunk` has listed an unused chunk | `DecommitsUsedChunks` of `AvailableChunks` |
| `BudgetIncrementalGC` (3589) returns at the first compartment over its trigger, before it has compared the rest | `HeapsSound`, family `trigger` |
| a map entry whose key is of another compartment (`jsweakmap.cpp` 154) | `NoDanglingEntry`, family `foreignKey` |
| breakpoints of a disabled or detached debugger (`jscompartment.cpp` 488, `vm/Debugger.cpp` 1928) | `BreakpointDebuggerLive`, `BreakpointHandlerLive`; `disabled`, `detached` |
| `CanEnter` overwrites `script->ion` when `CheckFrame` refuses a frame (`ion/Ion.cpp` 929) | `InvalidatedIsPatched`; `RejectedFrames = TRUE` |
| `Invalidate` takes one reference per entry of a script listed twice (1137) | `NothingLeaks`; `TwoForms = TRUE` |
| a collection while `CloseLiveIterators` runs a generator (`ion/IonFrames.cpp` 354) | `FramesHeld`; `LiveIterators = {"generator"}` |
| the two `UnwindIterator...` calls are the wrong way round (298) | `TerminationSticks` |
| `breakCycle` and the evicted register (`MoveEmitter-x86-shared.cpp` 146) | `MovesInParallel`, family `tempCycle` |
| `passABIArg` of x64 forgets an earlier failure (`MacroAssembler-x64.cpp` 97) | `MovesInParallel`, family `callX64` |
| `MMul::foldsTo` clears a flag for a congruence that breaks later (`MIR.cpp` 850) | `OnlySquaresCleared` of `ValueNumbering` |
| the pessimistic numbering never runs (`ValueNumbering.cpp` 203) | `OnePassNumbers`; `Optimism = {FALSE}` |
| a truncated counter that wraps around (`LICM.cpp` 598); the underflow check of `CodeGenerator.cpp` 1467; a null term (`LICM.cpp` 484) | `ChecksSound`, kinds `truncated` and `wide`; `TermsMayBeMissing`, any other kind |
| barriers broken on two objects at once (`jsinfer.cpp` 1434) | `CodeSound`, family `broken` |
| `setPendingNukeTypesNoReport` outside of an activation (2153) | `NukedAtOnce`, family `sweepOom` |
| `pendingNukeTypes` is never cleared (2172) | `RequestReturns`, family `restart` |
| `initEntry` fails after `removedCount` was decremented (`jsdhash.cpp` 660) | `OneEntryFree`; `InitFails = TRUE` |
| `sleep()` looks at `gCanceled` only after its wait (`shell/js.cpp` 2853); the watchdog cancels without its lock (2922), and what it hits may be a command without a limit, or one whose own limit, armed since by the prompt or by `timeout()`, has not passed | `CanceledDoesNotSleep`, `UnlimitedNotCanceled`, `CanceledWhenDue` of `Watchdog`, with the constants of `Shell.cfg` |
| jsworkers.cpp 573 (two traces), 724 (four states), 625 (children while terminating), 1135 (event destroyed twice), 692 (nested workers) | `PendingEventAlive`, `OneOfFourStates`, `NotifiedChildrenAlive`, `OwnedEventsAlive`, `NestedWorkersStart` of `Workers` |

## 7. Plan

1. `MoveResolver`: that the order `resolve` makes overwrites no source that is
   still to be read.  `TypeInference`: `CodeSound` where barriers are broken all
   at once, but on one object.
2. `ValueNumbering`: the class lists; `RangeAnalysis`: `TruncationComplete`.
3. More of the type constraints; phi elimination and dominators; the register
   allocators' intervals.

## 8. Not modelled, and why

The frontend, the object model and the debugger's reflection API are large
sequential programs over rich data, in which a small finite instance says
little; of the method JIT only what type inference sees is.  Assemblers produce
bytes.  Vendored libraries, the build and the tests are not this program's
logic.  What each modelled component leaves out is in its note in
`PROJECT.json` and at the head of its module.
