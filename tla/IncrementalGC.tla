---------------------------- MODULE IncrementalGC ----------------------------
(***************************************************************************)
(* Incremental marking (jsgc.cpp, gc/Marking.cpp, gc/Barrier.h): slices of  *)
(* marking between which the script runs and changes the heap, the          *)
(* pre-barrier, allocation during a collection, the mark stack and what is  *)
(* put off when it is full, buffered gray roots, collections of some of the *)
(* compartments, and the reset of a collection.                             *)
(*                                                                         *)
(* All of it runs on one thread.  While pc is not "js" a slice is under way *)
(* and the script does not run.                                             *)
(*                                                                         *)
(* Abstraction.  An object is a cell of an arena with pointer slots; shapes *)
(* and types, which are marked with it, are left out.  Any entry of the     *)
(* mark stack may be the next one, and a limited slice may run out of       *)
(* budget after any of them.  A wrapper's pointer to another compartment is *)
(* a slot like any other.  Sweeping is the end of the last slice: what it   *)
(* leaves to the helper thread is in GCHelperThread.                        *)
(***************************************************************************)
EXTENDS Integers, FiniteSets, Sequences

CONSTANTS
  Arenas,        \* bound: the arenas
  Compartments,  \* rt->compartments, in order
  CompOf,        \* the compartment of each arena
  Objects,       \* the cells
  ArenaOf,       \* the arena of each cell
  NumSlots,      \* the slots of each object
  Nil,           \* null
  StackLimit,    \* MarkStack: entries before push fails
  MallocFails,   \* an allocation may fail
  HasTriggers,   \* a compartment may be over its trigger (gcTriggerBytes)
  HasGray        \* the embedding has gray roots

Comps == {Compartments[i] : i \in 1..Len(Compartments)}

IncrementalGCAssumption ==
  /\ CompOf \in [Arenas -> Comps] /\ ArenaOf \in [Objects -> Arenas]
  /\ NumSlots \in [Objects -> Nat] /\ Nil \notin Objects
  /\ StackLimit \in Nat /\ {MallocFails, HasTriggers, HasGray} \subseteq BOOLEAN

VARIABLES
  allocated,    \* the cells in use
  slot,         \* the slots of each object
  roots,        \* what the script holds: stack, rooters, locks
  grayRoots,    \* what the embedding holds and traces with gcGrayRootsTraceOp
  freeArena,    \* the arena of the free list of each compartment; Nil: none
  marked,       \* the mark bits
  stack,        \* the mark stack: <<object, first slot still to be scanned>>
  delayed,      \* arenas with hasDelayedMarking
  overflow,     \* arenas with markOverflow
  fresh,        \* arenas with allocatedDuringIncremental
  grayBuffer,   \* GCMarker::grayRoots
  grayFailed,   \* GCMarker::grayFailed
  state,        \* rt->gcIncrementalState
  lastSlice,    \* rt->gcLastMarkSlice
  needsBarrier, \* compartments with needsBarrier_
  collecting,   \* compartments with GCRunning
  pc,           \* "js", or the phase of the slice under way
  slice,        \* locals of the slice: kind, limited, initialState, and
                \* whether markDelayedChildren is in its loop
  snapshot      \* history: what was reachable when root marking was done

heapVars   == <<allocated, slot, freeArena>>
rootVars   == <<roots, grayRoots>>
markVars   == <<marked, stack, delayed, overflow, fresh>>
grayVars   == <<grayBuffer, grayFailed>>
stateVars  == <<state, lastSlice, needsBarrier, collecting, pc, slice, snapshot>>
vars == <<heapVars, rootVars, markVars, grayVars, stateVars>>

Comp(o) == CompOf[ArenaOf[o]]
Cells(a) == {o \in Objects : ArenaOf[o] = a}
SlotsOf(o) == 1..NumSlots[o]
Children(o) == {slot[o][i] : i \in SlotsOf(o)} \ {Nil}
Kinds == {"incremental", "nonincremental"}

\* The type invariant.
TypeOK ==
  /\ {allocated, marked, roots, grayRoots, grayBuffer, snapshot} \subseteq SUBSET Objects
  /\ \A o \in Objects : slot[o] \in [SlotsOf(o) -> Objects \cup {Nil}]
  /\ freeArena \in [Comps -> Arenas \cup {Nil}]
  /\ \A e \in stack : e[1] \in marked /\ e[2] \in SlotsOf(e[1])
  /\ {delayed, overflow, fresh} \subseteq SUBSET Arenas
  /\ {grayFailed, lastSlice} \subseteq BOOLEAN
  /\ state \in {"none", "mark"}
  /\ needsBarrier \in SUBSET Comps /\ collecting \in SUBSET Comps
  /\ pc \in {"js", "mark", "gray", "markGray", "sweep"}
  /\ slice \in [kind : Kinds, limited : BOOLEAN, initialState : {"none", "mark"},
                delaying : BOOLEAN]

NoSlice ==
  [kind |-> "incremental", limited |-> FALSE, initialState |-> "none", delaying |-> FALSE]

Init ==
  /\ allocated = {} /\ roots = {} /\ grayRoots = {}
  /\ slot = [o \in Objects |-> [i \in SlotsOf(o) |-> Nil]]
  /\ freeArena = [c \in Comps |-> Nil]
  /\ marked = {} /\ stack = {} /\ delayed = {} /\ overflow = {} /\ fresh = {}
  /\ grayBuffer = {} /\ grayFailed = FALSE
  /\ state = "none" /\ lastSlice = FALSE /\ needsBarrier = {} /\ collecting = {}
  /\ pc = "js" /\ slice = NoSlice /\ snapshot = {}

-----------------------------------------------------------------------------
(* The marker.                                                              *)

\* JSCompartment::isCollecting.
Collecting == IF pc = "js" THEN needsBarrier ELSE collecting

\* Mutant: an object that does not fit is dropped.
DropOverflow(os, over, late) == overflow' = over /\ delayed' = late

\* delayMarkingChildren of objects.
DelayChildren(os, over, late) ==
  /\ overflow' = over \cup {ArenaOf[o] : o \in os}
  /\ delayed' = late \cup {ArenaOf[o] : o \in os}

\* Marked objects are pushed as far as the stack base has room; the arenas of
\* the others are added to those with markOverflow and to the delayed ones.
PushAll(os, base, over, late) ==
  \E fit \in SUBSET os :
    /\ Cardinality(fit) <= StackLimit - Cardinality(base) \/ fit = {}
    /\ fit = os \/ Cardinality(base) + Cardinality(fit) >= StackLimit
    /\ stack' = base \cup {<<o, 1>> : o \in {p \in fit : NumSlots[p] > 0}}
    /\ DelayChildren(os \ fit, over, late)

\* Mutant: what is marked is marked again.
MarkAgain(os, cs) == {o \in os : Comp(o) \in cs}

\* MarkInternal: only things of the compartments cs that are not marked.
ToMark(os, cs) == {o \in os : Comp(o) \in cs} \ marked

-----------------------------------------------------------------------------
(* The script, between two slices.                                          *)

\* Mutant: no barrier.
NoBarrier(old) == UNCHANGED markVars

\* JSObject::writeBarrierPre: what is overwritten is marked.
PreBarrier(old) ==
  LET os == IF old = Nil THEN {} ELSE ToMark({old}, needsBarrier)
  IN  /\ PushAll(os, stack, overflow, delayed)
      /\ marked' = marked \cup os
      /\ UNCHANGED fresh

\* obj->field = value.
Write(o, i, v) ==
  /\ pc = "js" /\ o \in roots /\ v \in roots \cup {Nil}
  /\ PreBarrier(slot[o][i])
  /\ slot' = [slot EXCEPT ![o][i] = v]
  /\ UNCHANGED <<allocated, freeArena, rootVars, grayVars, stateVars>>

Read(o, i) ==
  /\ pc = "js" /\ o \in roots /\ slot[o][i] \notin roots \cup {Nil}
  /\ roots' = roots \cup {slot[o][i]}
  /\ UNCHANGED <<heapVars, grayRoots, markVars, grayVars, stateVars>>

DropRoot(o) ==
  /\ pc = "js" /\ o \in roots
  /\ roots' = roots \ {o}
  /\ UNCHANGED <<heapVars, grayRoots, markVars, grayVars, stateVars>>

\* The embedding keeps an object, gives it back, or forgets it.
ChangeGrayRoots(o) ==
  /\ pc = "js" /\ HasGray
  /\ \/ o \in roots \ grayRoots /\ grayRoots' = grayRoots \cup {o} /\ UNCHANGED roots
     \/ o \in grayRoots \ roots /\ roots' = roots \cup {o} /\ UNCHANGED grayRoots
     \/ o \in grayRoots /\ grayRoots' = grayRoots \ {o} /\ UNCHANGED roots
  /\ UNCHANGED <<heapVars, markVars, grayVars, stateVars>>

FreeCells(a) == IF a = Nil THEN {} ELSE Cells(a) \ allocated

\* A cell of the free list.
AllocateFromFreeList(o) ==
  /\ pc = "js" /\ o \in FreeCells(freeArena[Comp(o)])
  /\ allocated' = allocated \cup {o} /\ roots' = roots \cup {o}
  /\ UNCHANGED <<slot, freeArena, grayRoots, markVars, grayVars, stateVars>>

\* allocatedDuringIncremental, and delayMarkingArena.
FlagArenas(as) == fresh' = fresh \cup as /\ delayed' = delayed \cup as

\* ArenaLists::allocateFromArena: the free list is empty, and another arena
\* with free cells becomes the free list.
AllocateFromArena(o) ==
  LET c == Comp(o) IN
  /\ pc = "js" /\ o \notin allocated /\ FreeCells(freeArena[c]) = {}
  /\ freeArena' = [freeArena EXCEPT ![c] = ArenaOf[o]]
  /\ FlagArenas(IF c \in needsBarrier THEN {ArenaOf[o]} ELSE {})
  /\ allocated' = allocated \cup {o} /\ roots' = roots \cup {o}
  /\ UNCHANGED <<slot, grayRoots, marked, stack, overflow, grayVars, stateVars>>

-----------------------------------------------------------------------------
(* The beginning of a slice: Collect, GCCycle, BudgetIncrementalGC.          *)

\* The compartments in order are looked at until one decides.  "reset" when
\* the compartments to collect are not those of the collection under way.
BudgetIncrementalGC(cs, over) ==
  LET stop == {i \in 1..Len(Compartments) :
                 \/ Compartments[i] \in over
                 \/ (Compartments[i] \in cs) # (Compartments[i] \in needsBarrier)}
      first == CHOOSE i \in stop : \A j \in stop : i <= j
  IN  IF stop = {} THEN "continue"
      ELSE IF Compartments[first] \in over THEN "unlimited" ELSE "reset"

\* What MarkRuntime marks: the roots, and what the compartments that are not
\* collected point to.
Roots(cs) ==
  roots \cup UNION {Children(o) : o \in {p \in allocated : Comp(p) \notin cs}}

Closed(os) == \A o \in os : Children(o) \subseteq os

\* What the script or the embedding can reach.
Reachable ==
  {o \in Objects :
     \A os \in SUBSET Objects : roots \cup grayRoots \subseteq os /\ Closed(os) => o \in os}

\* BeginMarkPhase: the mark bits are cleared and the roots marked; gray roots
\* are only buffered, which may fail.
BeginMarkPhase(cs) ==
  LET os == {o \in Roots(cs) : Comp(o) \in cs} IN
  /\ marked' = os
  /\ PushAll(os, {}, {}, {})
  /\ fresh' = {}
  /\ \/ grayBuffer' = grayRoots /\ grayFailed' = FALSE
     \/ MallocFails /\ grayRoots # {} /\ grayBuffer' = {} /\ grayFailed' = TRUE
  /\ snapshot' = {o \in Reachable : Comp(o) \in cs}

\* One call of GCCycle with the scheduled compartments and those under way.
\* A reset drops the marking that was done (ResetIncrementalGC).
Collect(scheduled, incremental, unsafe, over) ==
  LET cs      == scheduled \cup needsBarrier
      verdict == IF ~incremental \/ unsafe THEN "both" ELSE BudgetIncrementalGC(cs, over)
      before  == IF verdict \in {"both", "reset"} THEN "none" ELSE state
      limited == verdict \in {"continue", "reset"}
      kind    == IF ~limited /\ before = "none" THEN "nonincremental" ELSE "incremental"
  IN
  /\ pc = "js" /\ cs # {}
  /\ collecting' = cs
  /\ needsBarrier' = IF before = "none" THEN {} ELSE needsBarrier \ cs
  /\ slice' = [kind |-> kind, limited |-> limited, initialState |-> before, delaying |-> FALSE]
  /\ state' = IF kind = "incremental" THEN "mark" ELSE "none"
  /\ IF before = "none"
     THEN BeginMarkPhase(cs) /\ lastSlice' = FALSE
     ELSE UNCHANGED <<markVars, grayVars, snapshot, lastSlice>>
  /\ pc' = "mark"
  /\ UNCHANGED <<heapVars, rootVars>>

-----------------------------------------------------------------------------
(* Marking.                                                                 *)

\* pushValueArray: the slots that are left of an object.
Rest(o, i) == IF i < NumSlots[o] THEN {<<o, i + 1>>} ELSE {}

\* processMarkStackTop: the next slot of an object.  The rest of the object
\* goes back to the stack; an object found there is scanned next.
Scan(e) ==
  LET o == e[1]  i == e[2]
      rest  == Rest(o, i)
      new   == IF slot[o][i] = Nil THEN {} ELSE ToMark({slot[o][i]}, Collecting)
      found == {<<p, 1>> : p \in {q \in new : NumSlots[q] > 0}}
      full  == Cardinality(stack \ {e}) >= StackLimit
  IN
  /\ pc \in {"mark", "markGray"} /\ e \in stack /\ ~slice.delaying
  /\ marked' = marked \cup new
  /\ IF full /\ rest # {}
     THEN stack' = (stack \ {e}) \cup found /\ DelayChildren({o}, overflow, delayed)
     ELSE stack' = (stack \ {e}) \cup found \cup rest /\ UNCHANGED <<overflow, delayed>>
  /\ UNCHANGED <<heapVars, rootVars, fresh, grayVars, stateVars>>

\* The cells of an arena that was put off whose children are to be traced.
Traced(a) ==
  {o \in Cells(a) \cap allocated : a \in fresh \/ o \in marked}

\* What is pushed for that arena.  A cell of the arena that is not marked yet may
\* be come upon first on its own (early) or as a child of another one.
ToPush(a, early) ==
  IF a \in overflow
  THEN ToMark((UNION {Children(o) : o \in Traced(a)}) \ early, Collecting)
  ELSE (Cells(a) \cap allocated) \ marked

\* markDelayedChildren of one arena.  It begins when the stack is empty and
\* goes on until no arena is left.
MarkDelayedChildren(a, early) ==
  /\ pc \in {"mark", "markGray"} /\ a \in delayed
  /\ stack = {} \/ slice.delaying
  /\ marked' = marked \cup ToPush(a, early) \cup (IF a \in overflow THEN Traced(a) ELSE {})
  /\ PushAll(ToPush(a, early), stack, overflow \ {a}, delayed \ {a})
  /\ fresh' = fresh \ {a}
  /\ slice' = [slice EXCEPT !.delaying = delayed' # {}]
  /\ UNCHANGED <<heapVars, rootVars, grayVars, state, lastSlice, needsBarrier, collecting,
                 pc, snapshot>>

IsDrained == stack = {} /\ delayed = {}

\* ArenaLists::prepareForIncrementalGC: the arenas of the free lists.
PrepareForIncrementalGC ==
  {freeArena[c] : c \in {d \in collecting : FreeCells(freeArena[d]) # {}}}

\* Mutant: barriers stay off.
BarriersStayOff == UNCHANGED needsBarrier

\* ~AutoGCSlice while state is "mark".
BarriersOn == needsBarrier' = needsBarrier \cup collecting

\* The slice ends and the collection goes on later: ~AutoGCSlice and
\* ~AutoGCSession.
EndSlice ==
  /\ BarriersOn
  /\ FlagArenas(PrepareForIncrementalGC)
  /\ collecting' = {} /\ pc' = "js" /\ slice' = NoSlice
  /\ UNCHANGED <<heapVars, rootVars, marked, stack, overflow, grayVars, state, snapshot>>

\* The budget is used up.  There is none when gray roots could not be buffered.
OverBudget ==
  /\ pc = "mark" /\ slice.kind = "incremental" /\ slice.limited /\ ~grayFailed
  /\ EndSlice
  /\ UNCHANGED lastSlice

\* Marking is done; one more slice is taken before the sweep.
FinishedEarly ==
  /\ pc = "mark" /\ slice.kind = "incremental" /\ IsDrained
  /\ slice.initialState = "mark" /\ ~lastSlice /\ slice.limited
  /\ lastSlice' = TRUE
  /\ EndSlice

\* EndMarkPhase.
Finished ==
  /\ pc = "mark" /\ IsDrained
  /\ \/ slice.kind = "nonincremental"
     \/ slice.initialState = "none" \/ lastSlice \/ ~slice.limited
  /\ pc' = "gray"
  /\ UNCHANGED <<heapVars, rootVars, markVars, grayVars, state, lastSlice, needsBarrier,
                 collecting, slice, snapshot>>

\* Mutant: the failure is forgotten.
BufferedOnly == grayBuffer

\* The buffered gray roots, or when that failed all there are.
GrayRootsToMark == IF grayFailed THEN grayRoots ELSE grayBuffer

\* MarkGrayAndWeak, up to where the stack is drained again.
MarkGray ==
  LET os == ToMark(GrayRootsToMark, collecting) IN
  /\ pc = "gray"
  /\ marked' = marked \cup os
  /\ PushAll(os, {}, {}, {})
  /\ grayBuffer' = {}
  /\ pc' = "markGray"
  /\ UNCHANGED <<heapVars, rootVars, fresh, grayFailed, state, lastSlice, needsBarrier,
                 collecting, slice, snapshot>>

GrayFinished ==
  /\ pc = "markGray" /\ IsDrained
  /\ grayFailed' = FALSE
  /\ pc' = "sweep"
  /\ UNCHANGED <<heapVars, rootVars, markVars, grayBuffer, state, lastSlice, needsBarrier,
                 collecting, slice, snapshot>>

\* SweepPhase, and the end of the collection.
Sweep ==
  LET dead == {o \in allocated : Comp(o) \in collecting} \ marked IN
  /\ pc = "sweep"
  /\ allocated' = allocated \ dead
  /\ slot' = [o \in Objects |-> IF o \in dead THEN [i \in SlotsOf(o) |-> Nil] ELSE slot[o]]
  /\ freeArena' = [c \in Comps |-> IF c \in collecting THEN Nil ELSE freeArena[c]]
  /\ state' = "none" /\ collecting' = {} /\ pc' = "js" /\ slice' = NoSlice
  /\ snapshot' = {}
  /\ needsBarrier' = IF slice.kind = "incremental" THEN needsBarrier \ collecting
                     ELSE needsBarrier
  /\ UNCHANGED <<rootVars, markVars, grayVars, lastSlice>>

-----------------------------------------------------------------------------
Script ==
  \E o \in Objects :
    \/ AllocateFromFreeList(o) \/ AllocateFromArena(o) \/ DropRoot(o) \/ ChangeGrayRoots(o)
    \/ \E i \in SlotsOf(o) : Read(o, i) \/ \E v \in Objects \cup {Nil} : Write(o, i, v)

StartSlice ==
  \E scheduled \in SUBSET Comps, incremental, unsafe \in BOOLEAN,
     over \in IF HasTriggers THEN SUBSET Comps ELSE {{}} :
    Collect(scheduled, incremental, unsafe, over)

RunSlice ==
  \/ \E e \in stack : Scan(e)
  \/ \E a \in delayed : \E early \in SUBSET (Traced(a) \ marked) :
       MarkDelayedChildren(a, early)
  \/ OverBudget \/ FinishedEarly \/ Finished \/ MarkGray \/ GrayFinished \/ Sweep

Next == Script \/ StartSlice \/ RunSlice

Spec == Init /\ [][Next]_vars

\* A slice that has begun runs to its end: it is a call on the one thread.
LiveSpec == Spec /\ WF_vars(RunSlice)

-----------------------------------------------------------------------------
\* The collector's promise: what the script or the embedding can reach is not
\* swept, whatever the script does between the slices.
NothingLiveSwept == Reachable \subseteq allocated

\* gc/Barrier.h: "all objects in that snapshot should eventually be marked".
\* When the sweep begins everything that was reachable when the roots were
\* marked is marked, and so is everything allocated since.
SnapshotMarked ==
  pc = "sweep" =>
    /\ snapshot \subseteq marked
    /\ {o \in Reachable : Comp(o) \in collecting} \subseteq marked

\* Between slices barriers are on exactly when a collection is under way, no
\* compartment with marking left to do lacks them, and the marker is empty
\* when none is under way (GCMarker::start, ResetIncrementalGC).
BarriersDuringMarking ==
  pc = "js" =>
    /\ needsBarrier # {} <=> state = "mark"
    /\ \A e \in stack : Comp(e[1]) \in needsBarrier
    /\ \A a \in delayed : CompOf[a] \in needsBarrier
    /\ state = "none" => IsDrained /\ fresh = {} /\ overflow = {} /\ grayBuffer = {}

\* overflow and fresh arenas are always on the list of delayed arenas: a flag
\* without the list would never be looked at (GCMarker::delayMarkingArena).
DelayedArenasListed == overflow \cup fresh \subseteq delayed

\* The marker and the script agree on what is under way: barriers, mark stack
\* and the flags of the arenas that were put off.
MarkerCoherent == TypeOK /\ BarriersDuringMarking /\ DelayedArenasListed

\* A slice ends, however often the mark stack overflows.  Every arena that is
\* put off must have been marked further (GCMarker::markDelayedChildren).
SliceEnds == pc # "js" ~> pc = "js"

=============================================================================
