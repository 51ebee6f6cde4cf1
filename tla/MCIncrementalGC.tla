--------------------------- MODULE MCIncrementalGC ---------------------------
(* Small heaps for IncrementalGC.  A behaviour is either one of the heap     *)
(* "wide", whose constants are those of IncrementalGC itself, or one of the   *)
(* heap of a family, which has variables of its own.                         *)
EXTENDS IncrementalGC, TLC

CONSTANTS
  Checked,      \* "wide" and the families that a run checks
  c1, c2, a1, a2, o1, o2, o3

VARIABLES
  part,
  hAllocated, hSlot, hRoots, hGrayRoots, hFreeArena, hMarked, hStack, hDelayed,
  hOverflow, hFresh, hGrayBuffer, hGrayFailed, hState, hLastSlice, hNeedsBarrier,
  hCollecting, hPc, hSlice, hSnapshot

heapsVars ==
  <<hAllocated, hSlot, hRoots, hGrayRoots, hFreeArena, hMarked, hStack, hDelayed,
    hOverflow, hFresh, hGrayBuffer, hGrayFailed, hState, hLastSlice, hNeedsBarrier,
    hCollecting, hPc, hSlice, hSnapshot>>

(* wide: an object with a list of pointers, which is scanned bit by bit, and  *)
(* one that shares its arena.                                                *)
TwoArenas == {a1, a2}
WideComps == <<c1>>
WideCompOf == (a1 :> c1) @@ (a2 :> c1)
WideObjects == {o1, o2, o3}
WideArenaOf == (o1 :> a1) @@ (o2 :> a1) @@ (o3 :> a2)
WideSlots == (o1 :> 2) @@ (o2 :> 0) @@ (o3 :> 0)

ASSUME WideAssumption == IncrementalGCAssumption

(* comps: two compartments, collected together or one at a time.             *)
(* gray: an embedding with gray roots, whose buffer may fail to grow.         *)
(* trigger: two compartments that may be over their triggers; it shows where  *)
(* BudgetIncrementalGC gives up the choice of what is collected.             *)
Pair == (o1 :> a1) @@ (o3 :> a2)
TwoCompartments == (a1 :> c1) @@ (a2 :> c2)

Families ==
  [comps |-> [comps |-> <<c1, c2>>, compOf |-> TwoCompartments, arenaOf |-> Pair,
              slots |-> (o1 :> 1) @@ (o3 :> 1), stack |-> 1,
              malloc |-> FALSE, triggers |-> FALSE, gray |-> FALSE],
   gray |-> [comps |-> <<c1>>, compOf |-> WideCompOf, arenaOf |-> Pair,
             slots |-> (o1 :> 1) @@ (o3 :> 0), stack |-> 1,
             malloc |-> TRUE, triggers |-> TRUE, gray |-> TRUE],
   trigger |-> [comps |-> <<c1, c2>>, compOf |-> TwoCompartments, arenaOf |-> WideArenaOf,
                slots |-> (o1 :> 1) @@ (o2 :> 1) @@ (o3 :> 0), stack |-> 3,
                malloc |-> FALSE, triggers |-> TRUE, gray |-> FALSE]]

Heap(f) == INSTANCE IncrementalGC WITH
  Arenas <- TwoArenas, Compartments <- Families[f].comps, CompOf <- Families[f].compOf,
  Objects <- DOMAIN Families[f].arenaOf, ArenaOf <- Families[f].arenaOf,
  NumSlots <- Families[f].slots, StackLimit <- Families[f].stack,
  MallocFails <- Families[f].malloc, HasTriggers <- Families[f].triggers,
  HasGray <- Families[f].gray,
  allocated <- hAllocated, slot <- hSlot, roots <- hRoots, grayRoots <- hGrayRoots,
  freeArena <- hFreeArena, marked <- hMarked, stack <- hStack, delayed <- hDelayed,
  overflow <- hOverflow, fresh <- hFresh, grayBuffer <- hGrayBuffer, grayFailed <-
  hGrayFailed, state <- hState, lastSlice <- hLastSlice, needsBarrier <-
  hNeedsBarrier, collecting <- hCollecting, pc <- hPc, slice <- hSlice, snapshot <-
  hSnapshot

Heaps == Checked \ {"wide"}

ASSUME FamiliesAssumption == \A f \in Heaps : Heap(f)!IncrementalGCAssumption

\* The part that does not run stays where it begins.
MCInit ==
  /\ Init
  /\ \E k \in Checked : part = k /\ Heap(IF k = "wide" THEN "comps" ELSE k)!Init

MCNext ==
  /\ \/ part = "wide" /\ Next /\ UNCHANGED heapsVars
     \/ \E f \in Heaps : part = f /\ Heap(f)!Next /\ UNCHANGED vars
  /\ UNCHANGED part

\* A slice that has begun runs to its end.
MCSpec ==
  /\ MCInit /\ [][MCNext]_<<vars, heapsVars, part>>
  /\ WF_vars(part = "wide" /\ RunSlice)
  /\ WF_heapsVars(\E f \in Heaps : part = f /\ Heap(f)!RunSlice)

\* The safety properties of IncrementalGC, for the heaps of the families.
HeapsSound ==
  \A f \in Heaps : part = f =>
    Heap(f)!NothingLiveSwept /\ Heap(f)!SnapshotMarked /\ Heap(f)!MarkerCoherent

\* A slice ends, however often the mark stack overflows.
SlicesEnd == SliceEnds /\ (hPc # "js" ~> hPc = "js")
=============================================================================
