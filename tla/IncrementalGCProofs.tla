------------------------- MODULE IncrementalGCProofs -------------------------
(* Proofs about IncrementalGC, for any heap, any mark stack and any number   *)
(* of compartments.  The inductive invariant says what is still to be marked *)
(* in terms of the sets that marking may end with: a set that covers the     *)
(* marker's state has all that was reachable at the beginning in it.  No     *)
(* step of the marker or of the script lets in a covering set that was not   *)
(* one before, and when nothing is pending the marked objects are one.       *)
EXTENDS IncrementalGC, TLAPS

\* What the theorems assume: the types of the constants, and that a trigger
\* does not end the comparison of the compartments to be collected with those
\* under collection before it is complete (BudgetIncrementalGC).
TriggersHarmless == ~HasTriggers \/ \A c, d \in Comps : c = d

Constants == IncrementalGCAssumption /\ TriggersHarmless

-----------------------------------------------------------------------------
(* The inductive invariant.                                                 *)

\* Types that the proofs need pointwise.
Typed ==
  /\ allocated \subseteq Objects /\ marked \subseteq Objects /\ roots \subseteq Objects
  /\ grayRoots \subseteq Objects /\ grayBuffer \subseteq Objects /\ snapshot \subseteq Objects
  /\ DOMAIN slot = Objects
  /\ freeArena \in [Comps -> Arenas \cup {Nil}]
  /\ delayed \subseteq Arenas /\ overflow \subseteq Arenas /\ fresh \subseteq Arenas
  /\ grayFailed \in BOOLEAN /\ lastSlice \in BOOLEAN
  /\ state \in {"none", "mark"}
  /\ needsBarrier \subseteq Comps /\ collecting \subseteq Comps
  /\ pc \in {"js", "mark", "gray", "markGray", "sweep"}

SliceTyped ==
  slice \in [kind : Kinds, limited : BOOLEAN, initialState : {"none", "mark"},
             delaying : BOOLEAN]

SlotsTyped == \A o \in Objects : slot[o] \in [SlotsOf(o) -> Objects \cup {Nil}]

\* Free cells point to nothing.
FreeCellsClear ==
  \A o \in Objects \ allocated : \A i \in SlotsOf(o) : slot[o][i] = Nil

\* The free list of a compartment is one of its arenas.
FreeListsOwned ==
  \A c \in Comps : freeArena[c] = Nil \/ (freeArena[c] \in Arenas /\ CompOf[freeArena[c]] = c)

\* Barriers, phases and the slice under way.
Coordinated ==
  /\ pc = "js" => collecting = {} /\ ~grayFailed /\ slice = NoSlice
                  /\ (needsBarrier # {} <=> state = "mark")
  /\ pc # "js" => collecting # {} /\ needsBarrier = {}
                  /\ (slice.kind = "incremental" <=> state = "mark")
  /\ pc = "mark" /\ grayFailed => slice.initialState = "none"
  /\ pc \in {"markGray", "sweep"} => grayBuffer = {}
  /\ pc = "sweep" => ~grayFailed
  /\ pc = "js" /\ state = "none" => grayBuffer = {}

\* Phases that begin when nothing is left to be marked.
Drained ==
  pc \in {"gray", "sweep"} \/ (pc = "js" /\ state = "none") => IsDrained

StackOwned ==
  \A e \in stack : e[1] \in marked /\ e[2] \in SlotsOf(e[1]) /\ Comp(e[1]) \in Collecting

DelayedOwned ==
  /\ overflow \subseteq delayed /\ fresh \subseteq delayed
  /\ \A a \in delayed : CompOf[a] \in Collecting

\* While the script runs in the middle of a collection, cells are only taken
\* from arenas that will be looked at again.
FreeListsFresh ==
  pc = "js" =>
    \A c \in needsBarrier : FreeCells(freeArena[c]) # {} => freeArena[c] \in fresh

\* Slot i of o is still to be scanned.
Pending(o, i) == (\E e \in stack : e[1] = o /\ e[2] <= i) \/ ArenaOf[o] \in overflow

\* K may be what is marked in the end: it has what is marked, what is in the
\* arenas allocated from and the gray roots, and what the slots point to that
\* are still to be scanned.
Covers(K) ==
  /\ marked \subseteq K
  /\ \A o \in allocated : ArenaOf[o] \in fresh => o \in K
  /\ pc \in {"js", "mark", "gray"} =>
       \A o \in GrayRootsToMark : Comp(o) \in Collecting => o \in K
  /\ \A o \in K : \A i \in SlotsOf(o) :
       /\ o \notin marked \/ Pending(o, i)
       /\ slot[o][i] # Nil /\ Comp(slot[o][i]) \in Collecting
       => slot[o][i] \in K

\* A collection is under way.
Active == state = "mark" \/ pc # "js"

\* What was reachable at the beginning, and what is now, will be marked.
SnapshotCovered ==
  Active => \A K \in SUBSET Objects : Covers(K) =>
              /\ snapshot \subseteq K
              /\ \A o \in Reachable : Comp(o) \in Collecting => o \in K

IndInv ==
  /\ Constants /\ Typed /\ SliceTyped /\ SlotsTyped /\ FreeCellsClear /\ FreeListsOwned
  /\ Coordinated /\ Drained /\ StackOwned /\ DelayedOwned /\ FreeListsFresh
  /\ NothingLiveSwept /\ SnapshotCovered

-----------------------------------------------------------------------------
(* What the script can reach.                                               *)

\* The roots are reachable, and so is what a reachable object points to.
LEMMA ReachableClosed ==
  ASSUME Typed, SlotsTyped
  PROVE  /\ roots \subseteq Reachable /\ grayRoots \subseteq Reachable
         /\ Reachable \subseteq Objects
         /\ \A o \in Reachable : \A i \in SlotsOf(o) :
              slot[o][i] # Nil => slot[o][i] \in Reachable
<1>1. roots \subseteq Reachable /\ grayRoots \subseteq Reachable
  BY DEF Typed, Reachable
<1>2. ASSUME NEW o \in Reachable, NEW i \in SlotsOf(o), slot[o][i] # Nil
      PROVE  slot[o][i] \in Reachable
  <2>1. o \in Objects /\ slot[o][i] \in Objects
    BY <1>2 DEF SlotsTyped, Reachable
  <2>2. ASSUME NEW os \in SUBSET Objects, roots \cup grayRoots \subseteq os, Closed(os)
        PROVE  slot[o][i] \in os
    <3>1. o \in os
      BY <2>2 DEF Reachable
    <3>2. slot[o][i] \in Children(o)
      BY <1>2 DEF Children
    <3> QED
      BY <2>2, <3>1, <3>2 DEF Closed
  <2> QED
    BY <2>1, <2>2 DEF Reachable
<1> QED
  BY <1>1, <1>2 DEF Reachable

\* A set with the roots that is closed has what is reachable in it.
LEMMA ReachableLeast ==
  ASSUME NEW S \in SUBSET Objects, roots' \subseteq S, grayRoots' \subseteq S,
         \A o \in S : \A i \in SlotsOf(o) : slot'[o][i] # Nil => slot'[o][i] \in S
  PROVE  Reachable' \subseteq S
<1>1. Closed(S)'
  BY DEF Closed, Children
<1> QED
  BY <1>1 DEF Reachable

\* A step that roots and stores only what was reachable makes nothing reachable.
LEMMA ReachableShrinks ==
  ASSUME Typed, SlotsTyped, roots' \subseteq Reachable, grayRoots' \subseteq Reachable,
         \A o \in Reachable : \A i \in SlotsOf(o) :
           slot'[o][i] # Nil => slot'[o][i] \in Reachable
  PROVE  Reachable' \subseteq Reachable
<1>1. Reachable \in SUBSET Objects
  BY DEF Reachable
<1> QED
  BY <1>1, ReachableLeast

\* A new object adds itself.
LEMMA ReachableGrows ==
  ASSUME Typed, SlotsTyped, NEW n \in Objects,
         roots' = roots \cup {n}, grayRoots' = grayRoots, slot' = slot,
         \A i \in SlotsOf(n) : slot[n][i] = Nil
  PROVE  Reachable' \subseteq Reachable \cup {n}
<1>1. Reachable \cup {n} \in SUBSET Objects
  BY DEF Reachable
<1>2. roots' \subseteq Reachable \cup {n} /\ grayRoots' \subseteq Reachable \cup {n}
  BY ReachableClosed
<1>3. ASSUME NEW o \in Reachable \cup {n}, NEW i \in SlotsOf(o), slot'[o][i] # Nil
      PROVE  slot'[o][i] \in Reachable \cup {n}
  BY <1>3, ReachableClosed
<1> QED
  BY <1>1, <1>2, <1>3, ReachableLeast

-----------------------------------------------------------------------------
(* Pushing on the mark stack.                                               *)

\* Everything pushed is pending afterwards, on the stack or in an arena that
\* was put off; nothing is lost, and nothing else is added.
LEMMA PushedIsPending ==
  ASSUME Constants, NEW os \in SUBSET Objects, NEW base, NEW over, NEW late,
         PushAll(os, base, over, late)
  PROVE  /\ \A e \in base : e \in stack'
         /\ \A e \in stack' : \/ e \in base
                              \/ e[1] \in os /\ e[2] \in SlotsOf(e[1])
         /\ \A o \in os : \A i \in SlotsOf(o) : Pending(o, i)'
         /\ \A a \in over : a \in overflow'
         /\ \A a \in late : a \in delayed'
         /\ \A a \in overflow' : a \in over \/ \E o \in os : a = ArenaOf[o]
         /\ \A a \in delayed' : a \in late \/ \E o \in os : a = ArenaOf[o]
         /\ \A a \in overflow' : a \in over \/ a \in delayed'
<1> PICK fit \in SUBSET os :
      /\ stack' = base \cup {<<o, 1>> : o \in {p \in fit : NumSlots[p] > 0}}
      /\ DelayChildren(os \ fit, over, late)
  BY DEF PushAll
<1>1. \A o \in Objects : NumSlots[o] \in Nat
  BY DEF Constants, IncrementalGCAssumption
<1>2. ASSUME NEW e \in stack', e \notin base
      PROVE  e[1] \in os /\ e[2] \in SlotsOf(e[1])
  BY <1>1, <1>2 DEF SlotsOf
<1>3. ASSUME NEW o \in os, NEW i \in SlotsOf(o)
      PROVE  Pending(o, i)'
  <2>1. CASE o \in fit
    <3>1. <<o, 1>> \in stack' /\ 1 <= i
      BY <1>1, <1>3, <2>1 DEF SlotsOf
    <3> QED
      BY <3>1 DEF Pending
  <2>2. CASE o \notin fit
    BY <2>2 DEF Pending, DelayChildren
  <2> QED
    BY <2>1, <2>2
<1>4. /\ \A a \in overflow' : a \in over \/ \E o \in os : a = ArenaOf[o]
      /\ \A a \in delayed' : a \in late \/ \E o \in os : a = ArenaOf[o]
      /\ \A a \in overflow' : a \in over \/ a \in delayed'
      /\ \A a \in over : a \in overflow'
      /\ \A a \in late : a \in delayed'
  BY DEF DelayChildren
<1> QED
  BY <1>2, <1>3, <1>4

\* The same for an empty stack, with nothing put off.
LEMMA PushedOnEmpty ==
  ASSUME Constants, NEW os \in SUBSET Objects, PushAll(os, {}, {}, {})
  PROVE  /\ \A e \in stack' : e[1] \in os /\ e[2] \in SlotsOf(e[1])
         /\ \A o \in os : \A i \in SlotsOf(o) : Pending(o, i)'
         /\ \A a \in overflow' : \E o \in os : a = ArenaOf[o]
         /\ \A a \in delayed' : \E o \in os : a = ArenaOf[o]
         /\ \A a \in overflow' : a \in delayed'
<1> PICK fit \in SUBSET os :
      /\ stack' = {<<o, 1>> : o \in {p \in fit : NumSlots[p] > 0}}
      /\ DelayChildren(os \ fit, {}, {})
  BY DEF PushAll
<1>1. \A o \in Objects : NumSlots[o] \in Nat
  BY DEF Constants, IncrementalGCAssumption
<1>2. ASSUME NEW e \in stack'
      PROVE  e[1] \in os /\ e[2] \in SlotsOf(e[1])
  BY <1>1, <1>2 DEF SlotsOf
<1>3. ASSUME NEW o \in os, NEW i \in SlotsOf(o)
      PROVE  Pending(o, i)'
  <2>1. CASE o \in fit
    <3>1. <<o, 1>> \in stack' /\ 1 <= i
      BY <1>1, <1>3, <2>1 DEF SlotsOf
    <3> QED
      BY <3>1 DEF Pending
  <2>2. CASE o \notin fit
    BY <2>2 DEF Pending, DelayChildren
  <2> QED
    BY <2>1, <2>2
<1>4. /\ \A a \in overflow' : \E o \in os : a = ArenaOf[o]
      /\ \A a \in delayed' : \E o \in os : a = ArenaOf[o]
      /\ \A a \in overflow' : a \in delayed'
  BY DEF DelayChildren
<1> QED
  BY <1>2, <1>3, <1>4

-----------------------------------------------------------------------------
(* What is still to be marked.                                              *)

\* After the step nothing is to be done for slot i of o.
Done(o, i) ==
  \/ slot[o][i] = Nil \/ Comp(slot[o][i]) \notin Collecting
  \/ slot[o][i] \in marked'

\* A step of the marker, or of the script under its barrier, that keeps every
\* obligation: what it takes off the lists is marked, what it marks is pushed,
\* and what it overwrites is marked.
LEMMA SnapshotKept ==
  ASSUME Typed, SlotsTyped, SnapshotCovered, Active,
         Typed', Collecting' = Collecting, snapshot' = snapshot,
         marked \subseteq marked',
         \A o \in allocated : ArenaOf[o] \in fresh =>
           o \in marked' \/ (o \in allocated' /\ ArenaOf[o] \in fresh'),
         pc \in {"js", "mark", "gray"} =>
           \/ pc' \in {"js", "mark", "gray"} /\ GrayRootsToMark' = GrayRootsToMark
           \/ \A o \in GrayRootsToMark : Comp(o) \in Collecting => o \in marked',
         \A o \in Objects : \A i \in SlotsOf(o) :
           Done(o, i) \/ slot'[o][i] = slot[o][i],
         \A o \in marked' \ marked : \A i \in SlotsOf(o) : Done(o, i) \/ Pending(o, i)',
         \A o \in marked : \A i \in SlotsOf(o) :
           Pending(o, i) => Done(o, i) \/ Pending(o, i)',
         \A o \in Reachable' : o \in Reachable \/ Comp(o) \notin Collecting
                               \/ (o \in allocated' /\ ArenaOf[o] \in fresh')
  PROVE  SnapshotCovered'
<1> SUFFICES ASSUME NEW K \in SUBSET Objects, Covers(K)'
             PROVE  /\ snapshot \subseteq K
                    /\ \A o \in Reachable' : Comp(o) \in Collecting => o \in K
  BY DEF SnapshotCovered, Comp
<1>1. /\ marked' \subseteq K
      /\ \A o \in allocated' : ArenaOf[o] \in fresh' => o \in K
      /\ pc' \in {"js", "mark", "gray"} =>
           \A o \in GrayRootsToMark' : Comp(o) \in Collecting => o \in K
      /\ \A o \in K : \A i \in SlotsOf(o) :
           /\ o \notin marked' \/ Pending(o, i)'
           /\ slot'[o][i] # Nil /\ Comp(slot'[o][i]) \in Collecting
           => slot'[o][i] \in K
  BY DEF Covers, Comp, SlotsOf
<1>2. \A o \in GrayRootsToMark :
        pc \in {"js", "mark", "gray"} /\ Comp(o) \in Collecting => o \in K
  BY <1>1
<1>3. ASSUME NEW o \in K, NEW i \in SlotsOf(o), o \notin marked \/ Pending(o, i),
             slot[o][i] # Nil, Comp(slot[o][i]) \in Collecting
      PROVE  slot[o][i] \in K
  <2>1. CASE Done(o, i)
    BY <1>1, <1>3, <2>1 DEF Done
  <2>2. CASE ~Done(o, i)
    <3>1. slot'[o][i] = slot[o][i]
      BY <2>2
    <3>2. o \notin marked' \/ Pending(o, i)'
      BY <1>3, <2>2
    <3> QED
      BY <1>1, <1>3, <3>1, <3>2
  <2> QED
    BY <2>1, <2>2
<1>4. \A o \in allocated : ArenaOf[o] \in fresh => o \in K
  BY <1>1
<1>5. Covers(K)
  BY <1>1, <1>2, <1>3, <1>4 DEF Covers
<1>6. /\ snapshot \subseteq K
      /\ \A o \in Reachable : Comp(o) \in Collecting => o \in K
  BY <1>5 DEF SnapshotCovered
<1> QED
  BY <1>1, <1>6

-----------------------------------------------------------------------------
(* The script's steps.                                                      *)

\* Nothing that the marker keeps changes.
LEMMA ScriptKeepsMarker ==
  ASSUME IndInv, pc = "js", UNCHANGED <<grayVars, stateVars>>
  PROVE  Coordinated' /\ SliceTyped' /\ Collecting' = Collecting /\ Constants'
<1> USE DEF IndInv, grayVars, stateVars
<1>1. Coordinated'
  BY DEF Coordinated
<1>2. SliceTyped' /\ Collecting' = Collecting
  BY DEF SliceTyped, Collecting
<1>3. Constants'
  BY DEF Constants, IncrementalGCAssumption, TriggersHarmless, Comps
<1> QED
  BY <1>1, <1>2, <1>3

\* A script that only changes what it holds, among what is reachable.
LEMMA RootsStep ==
  ASSUME IndInv, pc = "js", roots' \subseteq Reachable, grayRoots' \subseteq Reachable,
         UNCHANGED <<heapVars, markVars, grayVars, stateVars>>
  PROVE  IndInv'
<1> USE DEF IndInv, heapVars, markVars, grayVars, stateVars
<1>1. Coordinated' /\ SliceTyped' /\ Collecting' = Collecting /\ Constants'
  BY ScriptKeepsMarker
<1>2. Reachable' \subseteq Reachable
  BY ReachableClosed, ReachableShrinks
<1>3. Reachable \subseteq Objects
  BY DEF Reachable
<1>4. Typed'
  BY <1>3 DEF Typed
<1>5. SlotsTyped' /\ FreeCellsClear' /\ FreeListsOwned' /\ Drained' /\ FreeListsFresh'
  BY DEF SlotsTyped, FreeCellsClear, FreeListsOwned, Drained, IsDrained, FreeListsFresh,
         FreeCells, SlotsOf, Cells
<1>6. StackOwned' /\ DelayedOwned'
  BY <1>1 DEF StackOwned, DelayedOwned, SlotsOf, Comp
<1>7. NothingLiveSwept'
  BY <1>2 DEF NothingLiveSwept
<1>8. SnapshotCovered'
  <2>1. CASE Active
    <3>1. \A o \in Objects : \A i \in SlotsOf(o) : Pending(o, i)' = Pending(o, i)
      BY DEF Pending
    <3>2. GrayRootsToMark' = GrayRootsToMark
      BY DEF GrayRootsToMark, Coordinated
    <3>3. marked \subseteq Objects
      BY DEF Typed
    <3> QED
      BY <1>1, <1>2, <1>4, <2>1, <3>1, <3>2, <3>3, SnapshotKept
  <2>2. CASE ~Active
    BY <2>2 DEF Active, SnapshotCovered
  <2> QED
    BY <2>1, <2>2
<1> QED
  BY <1>1, <1>4, <1>5, <1>6, <1>7, <1>8

LEMMA HoldingStep ==
  ASSUME IndInv, NEW o \in Objects,
         \/ DropRoot(o) \/ ChangeGrayRoots(o) \/ \E i \in SlotsOf(o) : Read(o, i)
  PROVE  IndInv'
<1>1. /\ roots \subseteq Reachable /\ grayRoots \subseteq Reachable
      /\ \A p \in Reachable : \A i \in SlotsOf(p) :
           slot[p][i] # Nil => slot[p][i] \in Reachable
  BY ReachableClosed DEF IndInv
<1>2. CASE DropRoot(o)
  BY <1>1, <1>2, RootsStep DEF DropRoot
<1>3. CASE ChangeGrayRoots(o)
  BY <1>1, <1>3, RootsStep DEF ChangeGrayRoots
<1>4. ASSUME NEW i \in SlotsOf(o), Read(o, i)
      PROVE  IndInv'
  <2>1. slot[o][i] \in Reachable
    BY <1>1, <1>4 DEF Read
  <2> QED
    BY <1>1, <1>4, <2>1, RootsStep DEF Read
<1> QED
  BY <1>2, <1>3, <1>4

\* Under its barrier the script overwrites only what is marked then.
LEMMA WriteStep ==
  ASSUME IndInv, NEW o \in Objects, NEW i \in SlotsOf(o), NEW v \in Objects \cup {Nil},
         Write(o, i, v)
  PROVE  IndInv'
<1> DEFINE old == slot[o][i]
           os == IF old = Nil THEN {} ELSE ToMark({old}, needsBarrier)
<1> USE DEF IndInv, heapVars, rootVars, grayVars, stateVars
<1>1. /\ pc = "js" /\ o \in roots /\ v \in roots \cup {Nil}
      /\ slot' = [slot EXCEPT ![o][i] = v]
      /\ PushAll(os, stack, overflow, delayed) /\ marked' = marked \cup os
      /\ UNCHANGED <<allocated, freeArena, rootVars, fresh, grayVars, stateVars>>
  BY DEF Write, PreBarrier
<1>2. Coordinated' /\ SliceTyped' /\ Collecting' = Collecting /\ Constants'
      /\ Collecting = needsBarrier
  BY <1>1, ScriptKeepsMarker DEF Collecting
<1>3. os \in SUBSET Objects /\ \A p \in os : p = old /\ Comp(p) \in Collecting
  BY <1>2 DEF ToMark, SlotsTyped
<1>4. /\ \A e \in stack : e \in stack'
      /\ \A e \in stack' : \/ e \in stack
                           \/ e[1] \in os /\ e[2] \in SlotsOf(e[1])
      /\ \A p \in os : \A j \in SlotsOf(p) : Pending(p, j)'
      /\ \A a \in overflow : a \in overflow'
      /\ \A a \in delayed : a \in delayed'
      /\ \A a \in overflow' : a \in overflow \/ \E p \in os : a = ArenaOf[p]
      /\ \A a \in delayed' : a \in delayed \/ \E p \in os : a = ArenaOf[p]
      /\ \A a \in overflow' : a \in overflow \/ a \in delayed'
  BY <1>1, <1>3, PushedIsPending
<1>5. /\ DOMAIN slot' = Objects
      /\ \A p \in Objects : \A j \in SlotsOf(p) :
           slot'[p][j] = IF p = o /\ j = i THEN v ELSE slot[p][j]
      /\ \A p \in Objects : slot'[p] \in [SlotsOf(p) -> Objects \cup {Nil}]
  BY <1>1 DEF Typed, SlotsTyped
<1>6. Typed'
  <2>1. \A p \in Objects : ArenaOf[p] \in Arenas
    BY DEF Constants, IncrementalGCAssumption
  <2>2. marked' \subseteq Objects
    BY <1>1, <1>3 DEF Typed
  <2>3. delayed' \subseteq Arenas /\ overflow' \subseteq Arenas
    BY <1>3, <1>4, <2>1 DEF Typed
  <2> QED
    BY <1>1, <1>5, <2>2, <2>3 DEF Typed
<1>7. o \in allocated
  BY <1>1, ReachableClosed DEF NothingLiveSwept
<1>8. SlotsTyped' /\ FreeCellsClear' /\ FreeListsOwned' /\ FreeListsFresh'
  <2>1. SlotsTyped'
    BY <1>5 DEF SlotsTyped, SlotsOf
  <2>2. FreeCellsClear'
    BY <1>1, <1>5, <1>7 DEF FreeCellsClear, SlotsOf
  <2>3. FreeListsOwned' /\ FreeListsFresh'
    BY <1>1 DEF FreeListsOwned, FreeListsFresh, FreeCells, Cells
  <2> QED
    BY <2>1, <2>2, <2>3
<1>9. Drained'
  <2>1. CASE state = "none"
    <3>1. os = {}
      BY <1>1, <2>1 DEF Coordinated, ToMark
    <3>2. stack = {} /\ delayed = {}
      BY <1>1, <2>1 DEF Drained, IsDrained
    <3> QED
      BY <1>4, <3>1, <3>2 DEF Drained, IsDrained
  <2>2. CASE state # "none"
    BY <1>1, <2>2 DEF Drained
  <2> QED
    BY <2>1, <2>2
<1>10. StackOwned' /\ DelayedOwned'
  <2>1. StackOwned'
    BY <1>1, <1>2, <1>3, <1>4 DEF StackOwned, SlotsOf, Comp
  <2>2. DelayedOwned'
    BY <1>1, <1>2, <1>3, <1>4 DEF DelayedOwned, Comp
  <2> QED
    BY <2>1, <2>2
<1>11. Reachable' \subseteq Reachable
  <2>1. \A p \in Reachable : \A j \in SlotsOf(p) :
          slot'[p][j] # Nil => slot'[p][j] \in Reachable
    BY <1>1, <1>5, ReachableClosed
  <2> QED
    BY <1>1, <2>1, ReachableClosed, ReachableShrinks
<1>12. NothingLiveSwept'
  BY <1>1, <1>11 DEF NothingLiveSwept
<1>13. SnapshotCovered'
  <2>1. CASE Active
    <3>1. \A p \in Objects : \A j \in SlotsOf(p) :
            Done(p, j) \/ slot'[p][j] = slot[p][j]
      <4>1. Done(o, i)
        BY <1>1, <1>2, <1>5 DEF Done, ToMark
      <4> QED
        BY <1>5, <4>1
    <3>2. \A p \in marked' \ marked : \A j \in SlotsOf(p) : Pending(p, j)'
      BY <1>1, <1>4
    <3>3. \A p \in marked : \A j \in SlotsOf(p) : Pending(p, j) => Pending(p, j)'
      BY <1>4 DEF Pending
    <3>4. GrayRootsToMark' = GrayRootsToMark
      BY <1>1 DEF GrayRootsToMark, Coordinated
    <3> QED
      BY <1>1, <1>2, <1>6, <1>11, <2>1, <3>1, <3>2, <3>3, <3>4, SnapshotKept
  <2>2. CASE ~Active
    BY <1>1, <2>2 DEF Active, SnapshotCovered
  <2> QED
    BY <2>1, <2>2
<1> QED
  BY <1>2, <1>6, <1>8, <1>9, <1>10, <1>12, <1>13

\* A new object points to nothing; in a compartment under collection it is in
\* an arena that will be looked at.
LEMMA AllocateStep ==
  ASSUME IndInv, NEW o \in Objects, AllocateFromFreeList(o) \/ AllocateFromArena(o)
  PROVE  IndInv'
<1> DEFINE c == Comp(o)
           as == IF c \in needsBarrier THEN {ArenaOf[o]} ELSE {}
<1> USE DEF IndInv, heapVars, rootVars, markVars, grayVars, stateVars
<1>1. /\ pc = "js" /\ o \notin allocated
      /\ allocated' = allocated \cup {o} /\ roots' = roots \cup {o}
      /\ UNCHANGED <<slot, grayRoots, marked, stack, overflow, grayVars, stateVars>>
  BY DEF AllocateFromFreeList, AllocateFromArena, FreeCells, Comp
<1>2. Coordinated' /\ SliceTyped' /\ Collecting' = Collecting /\ Constants'
      /\ Collecting = needsBarrier
  BY <1>1, ScriptKeepsMarker DEF Collecting
<1>3. /\ ArenaOf[o] \in Arenas /\ CompOf[ArenaOf[o]] = c /\ c \in Comps
      /\ \A p \in Objects : Comp(p) \in Comps
  BY DEF Constants, IncrementalGCAssumption, Comp
<1>4. /\ \A a \in fresh : a \in fresh'
      /\ \A a \in delayed : a \in delayed'
      /\ \A a \in fresh' : a \in fresh \/ (a = ArenaOf[o] /\ c \in needsBarrier)
      /\ \A a \in delayed' : a \in delayed \/ (a = ArenaOf[o] /\ c \in needsBarrier)
      /\ \A a \in fresh' : a \in fresh \/ a \in delayed'
      /\ c \in needsBarrier => ArenaOf[o] \in fresh'
  <2>1. CASE AllocateFromFreeList(o)
    <3>1. o \in FreeCells(freeArena[c]) /\ UNCHANGED <<fresh, delayed>>
      BY <2>1 DEF AllocateFromFreeList
    <3>2. FreeCells(freeArena[c]) # {} /\ ArenaOf[o] = freeArena[c]
      BY <3>1 DEF FreeCells, Cells
    <3>3. c \in needsBarrier => ArenaOf[o] \in fresh
      BY <1>1, <3>2 DEF FreeListsFresh
    <3> QED
      BY <3>1, <3>3
  <2>2. CASE AllocateFromArena(o)
    BY <2>2 DEF AllocateFromArena, FlagArenas
  <2> QED
    BY <2>1, <2>2
<1>5. /\ freeArena' \in [Comps -> Arenas \cup {Nil}]
      /\ freeArena'[c] = ArenaOf[o]
      /\ \A d \in Comps \ {c} : freeArena'[d] = freeArena[d]
  <2>1. CASE AllocateFromFreeList(o)
    BY <1>3, <2>1 DEF AllocateFromFreeList, FreeCells, Cells, Typed
  <2>2. CASE AllocateFromArena(o)
    BY <1>3, <2>2 DEF AllocateFromArena, Typed
  <2> QED
    BY <2>1, <2>2
<1>6. Typed'
  <2>1. fresh' \subseteq Arenas /\ delayed' \subseteq Arenas
    BY <1>3, <1>4 DEF Typed
  <2> QED
    BY <1>1, <1>5, <2>1 DEF Typed
<1>7. SlotsTyped' /\ FreeCellsClear' /\ FreeListsOwned'
  <2>1. SlotsTyped' /\ FreeCellsClear'
    BY <1>1 DEF SlotsTyped, FreeCellsClear, SlotsOf
  <2>2. FreeListsOwned'
    BY <1>3, <1>5 DEF FreeListsOwned
  <2> QED
    BY <2>1, <2>2
<1>8. FreeListsFresh'
  <2> SUFFICES ASSUME NEW d \in needsBarrier, FreeCells(freeArena[d])' # {}
               PROVE  freeArena'[d] \in fresh'
    BY <1>1 DEF FreeListsFresh
  <2>1. CASE d = c
    BY <1>4, <1>5, <2>1
  <2>2. CASE d # c
    <3>1. freeArena'[d] = freeArena[d]
      BY <1>5, <2>2 DEF Typed
    <3>2. FreeCells(freeArena[d]) # {}
      BY <1>1, <3>1 DEF FreeCells, Cells
    <3> QED
      BY <1>1, <1>4, <3>1, <3>2 DEF FreeListsFresh
  <2> QED
    BY <2>1, <2>2
<1>9. Drained'
  <2>1. CASE state = "none"
    <3>1. c \notin needsBarrier
      BY <1>1, <2>1 DEF Coordinated
    <3>2. stack = {} /\ delayed = {}
      BY <1>1, <2>1 DEF Drained, IsDrained
    <3>3. stack' = {} /\ delayed' = {}
      BY <1>1, <1>4, <3>1, <3>2
    <3> QED
      BY <3>3 DEF Drained, IsDrained
  <2>2. CASE state # "none"
    BY <1>1, <2>2 DEF Drained
  <2> QED
    BY <2>1, <2>2
<1>10. StackOwned' /\ DelayedOwned'
  <2>1. StackOwned'
    BY <1>1, <1>2 DEF StackOwned, SlotsOf, Comp
  <2>2. DelayedOwned'
    BY <1>1, <1>2, <1>3, <1>4 DEF DelayedOwned
  <2> QED
    BY <2>1, <2>2
<1>11. Reachable' \subseteq Reachable \cup {o}
  <2>1. \A i \in SlotsOf(o) : slot[o][i] = Nil
    BY <1>1 DEF FreeCellsClear
  <2> QED
    BY <1>1, <2>1, ReachableGrows
<1>12. NothingLiveSwept'
  BY <1>1, <1>11 DEF NothingLiveSwept
<1>13. SnapshotCovered'
  <2>1. CASE Active
    <3>1. \A p \in Reachable' : p \in Reachable \/ Comp(p) \notin Collecting
                                \/ (p \in allocated' /\ ArenaOf[p] \in fresh')
      BY <1>1, <1>2, <1>4, <1>11
    <3>2. \A p \in Objects : \A i \in SlotsOf(p) : Pending(p, i) = Pending(p, i)'
      BY <1>1 DEF Pending
    <3>3. GrayRootsToMark' = GrayRootsToMark
      BY <1>1 DEF GrayRootsToMark
    <3>4. marked \subseteq Objects
      BY DEF Typed
    <3>5. \A p \in allocated : ArenaOf[p] \in fresh => p \in allocated' /\ ArenaOf[p] \in fresh'
      BY <1>1, <1>4
    <3> QED
      BY <1>1, <1>2, <1>6, <2>1, <3>1, <3>2, <3>3, <3>4, <3>5, SnapshotKept
  <2>2. CASE ~Active
    BY <1>1, <2>2 DEF Active, SnapshotCovered
  <2> QED
    BY <2>1, <2>2
<1> QED
  BY <1>2, <1>6, <1>7, <1>8, <1>9, <1>10, <1>12, <1>13

-----------------------------------------------------------------------------
(* Marking.                                                                 *)

\* A step of the marker within a phase: the heap, the roots and the phase do
\* not change, and every obligation is kept.
LEMMA MarkerStep ==
  ASSUME IndInv, pc \in {"mark", "markGray"},
         UNCHANGED <<heapVars, rootVars, grayVars, state, lastSlice, needsBarrier,
                     collecting, pc, snapshot>>,
         SliceTyped', slice'.kind = slice.kind, slice'.initialState = slice.initialState,
         marked \subseteq marked', marked' \subseteq Objects, fresh' \subseteq fresh,
         delayed' \subseteq Arenas,
         \A e \in stack' : \/ e \in stack
                           \/ /\ e[1] \in marked' /\ e[2] \in SlotsOf(e[1])
                              /\ Comp(e[1]) \in Collecting,
         \A a \in overflow' \cup fresh' : a \in delayed',
         \A a \in delayed' : CompOf[a] \in Collecting,
         \A o \in allocated : ArenaOf[o] \in fresh => o \in marked' \/ ArenaOf[o] \in fresh',
         \A o \in marked' \ marked : \A i \in SlotsOf(o) : Done(o, i) \/ Pending(o, i)',
         \A o \in marked : \A i \in SlotsOf(o) :
           Pending(o, i) => Done(o, i) \/ Pending(o, i)'
  PROVE  IndInv'
<1> USE DEF IndInv, heapVars, rootVars, grayVars
<1>1. Collecting' = Collecting
  BY DEF Collecting
<1>2. Typed'
  <2>1. overflow' \subseteq Arenas
    OBVIOUS
  <2> QED
    BY <2>1 DEF Typed
<1>3. Constants'
  BY DEF Constants, IncrementalGCAssumption, TriggersHarmless, Comps
<1>4. SlotsTyped' /\ FreeCellsClear' /\ FreeListsOwned' /\ FreeListsFresh'
  BY DEF SlotsTyped, FreeCellsClear, FreeListsOwned, FreeListsFresh, SlotsOf
<1>5. Coordinated' /\ Drained'
  BY DEF Coordinated, Drained
<1>6. StackOwned' /\ DelayedOwned'
  BY <1>1 DEF StackOwned, DelayedOwned, SlotsOf, Comp
<1>7. Reachable' = Reachable
  BY DEF Reachable, Closed, Children, SlotsOf
<1>8. NothingLiveSwept'
  BY <1>7 DEF NothingLiveSwept
<1>9. SnapshotCovered'
  <2>1. GrayRootsToMark' = GrayRootsToMark
    BY DEF GrayRootsToMark
  <2>2. Active
    BY DEF Active
  <2> QED
    BY <1>1, <1>2, <1>7, <2>1, <2>2, SnapshotKept
<1> QED
  BY <1>2, <1>3, <1>4, <1>5, <1>6, <1>8, <1>9

LEMMA ScanStep ==
  ASSUME IndInv, NEW e \in stack, Scan(e)
  PROVE  IndInv'
<1> DEFINE o == e[1]
           i == e[2]
           rest  == Rest(o, i)
           new   == IF slot[o][i] = Nil THEN {} ELSE ToMark({slot[o][i]}, Collecting)
           found == {<<p, 1>> : p \in {q \in new : NumSlots[q] > 0}}
           full  == Cardinality(stack \ {e}) >= StackLimit
<1> USE DEF IndInv
<1>1. /\ pc \in {"mark", "markGray"} /\ marked' = marked \cup new
      /\ UNCHANGED <<heapVars, rootVars, fresh, grayVars, stateVars>>
      /\ \/ /\ stack' = (stack \ {e}) \cup found /\ DelayChildren({o}, overflow, delayed)
         \/ /\ stack' = (stack \ {e}) \cup found \cup rest /\ UNCHANGED <<overflow, delayed>>
  BY DEF Scan
<1>2. /\ o \in marked /\ o \in Objects /\ i \in SlotsOf(o) /\ Comp(o) \in Collecting
      /\ slot[o][i] \in Objects \cup {Nil}
      /\ \A p \in Objects : NumSlots[p] \in Nat /\ ArenaOf[p] \in Arenas
  BY DEF StackOwned, Typed, SlotsTyped, Constants, IncrementalGCAssumption
<1>3. /\ new \subseteq Objects
      /\ \A p \in new : p = slot[o][i] /\ p \in marked' /\ Comp(p) \in Collecting
      /\ Done(o, i)
  BY <1>1, <1>2 DEF ToMark, Done
<1>4. \A d \in rest : d = <<o, i + 1>> /\ i + 1 \in SlotsOf(o)
  BY <1>2 DEF Rest, SlotsOf
<1>5. \A d \in found : d[1] \in new /\ d[2] \in SlotsOf(d[1])
  <2> SUFFICES ASSUME NEW p \in new, NumSlots[p] > 0
               PROVE  1 \in SlotsOf(p)
    OBVIOUS
  <2>1. NumSlots[p] \in Nat
    BY <1>2, <1>3
  <2> QED
    BY <2>1 DEF SlotsOf
<1>6. /\ \A a \in overflow : a \in overflow'
      /\ \A a \in overflow' : a \in overflow \/ (a = ArenaOf[o] /\ a \in delayed')
      /\ \A a \in delayed : a \in delayed'
      /\ \A a \in delayed' : a \in delayed \/ a = ArenaOf[o]
  BY <1>1 DEF DelayChildren
<1>7. \A d \in stack' : \/ d \in stack
                        \/ /\ d[1] \in marked' /\ d[2] \in SlotsOf(d[1])
                           /\ Comp(d[1]) \in Collecting
  <2> SUFFICES ASSUME NEW d \in stack', d \notin stack
               PROVE  /\ d[1] \in marked' /\ d[2] \in SlotsOf(d[1])
                      /\ Comp(d[1]) \in Collecting
    OBVIOUS
  <2>1. CASE d \in found
    BY <1>3, <1>5, <2>1
  <2>2. CASE d \in rest
    BY <1>1, <1>2, <1>4, <2>2
  <2> QED
    BY <1>1, <2>1, <2>2
<1>8. \A p \in marked' \ marked : \A j \in SlotsOf(p) : Pending(p, j)'
  <2> SUFFICES ASSUME NEW p \in new, NEW j \in SlotsOf(p)
               PROVE  Pending(p, j)'
    BY <1>1
  <2>1. 1 <= j /\ NumSlots[p] > 0
    <3>1. NumSlots[p] \in Nat
      BY <1>2, <1>3
    <3> QED
      BY <3>1 DEF SlotsOf
  <2>2. <<p, 1>> \in stack'
    BY <1>1, <2>1
  <2> QED
    BY <2>1, <2>2 DEF Pending
<1>9. ASSUME NEW p \in marked, NEW j \in SlotsOf(p), Pending(p, j)
      PROVE  Done(p, j) \/ Pending(p, j)'
  <2>1. CASE ArenaOf[p] \in overflow
    BY <1>6, <2>1 DEF Pending
  <2>2. ASSUME NEW d \in stack, d[1] = p, d[2] <= j, d # e
        PROVE  Pending(p, j)'
    BY <1>1, <2>2 DEF Pending
  <2>3. ASSUME p = o, i <= j
        PROVE  Done(p, j) \/ Pending(p, j)'
    <3>1. CASE i = j
      BY <1>3, <2>3, <3>1
    <3>2. CASE i # j
      <4>1. rest = {<<o, i + 1>>} /\ i + 1 <= j
        BY <1>2, <2>3, <3>2 DEF Rest, SlotsOf
      <4>2. CASE <<o, i + 1>> \in stack'
        BY <2>3, <4>1, <4>2 DEF Pending
      <4>3. CASE ArenaOf[o] \in overflow'
        BY <2>3, <4>3 DEF Pending
      <4> QED
        BY <1>1, <4>1, <4>2, <4>3 DEF DelayChildren
    <3> QED
      BY <3>1, <3>2
  <2> QED
    BY <1>9, <2>1, <2>2, <2>3 DEF Pending
<1>10. delayed' \subseteq Arenas
  BY <1>2, <1>6 DEF Typed
<1>11. \A a \in delayed' : CompOf[a] \in Collecting
  BY <1>2, <1>6 DEF DelayedOwned, Comp
<1>12. \A a \in overflow' \cup fresh' : a \in delayed'
  BY <1>1, <1>6 DEF DelayedOwned
<1>13. marked \subseteq marked' /\ marked' \subseteq Objects /\ fresh' = fresh
  BY <1>1, <1>3 DEF Typed
<1>14. SliceTyped' /\ slice' = slice
  BY <1>1 DEF stateVars, SliceTyped
<1>15. UNCHANGED <<heapVars, rootVars, grayVars, state, lastSlice, needsBarrier,
                   collecting, pc, snapshot>>
  BY <1>1 DEF stateVars
<1> QED
  BY <1>1, <1>7, <1>8, <1>9, <1>10, <1>11, <1>12, <1>13, <1>14, <1>15, MarkerStep

LEMMA MarkDelayedChildrenStep ==
  ASSUME IndInv, NEW a \in delayed, NEW early \in SUBSET (Traced(a) \ marked),
         MarkDelayedChildren(a, early)
  PROVE  IndInv'
<1> DEFINE cells  == Cells(a) \cap allocated
           traced == Traced(a)
           new    == ToPush(a, early)
           seen   == UNION {Children(o) : o \in traced}
<1> USE DEF IndInv
<1>1. /\ pc \in {"mark", "markGray"}
      /\ marked' = marked \cup new \cup (IF a \in overflow THEN traced ELSE {})
      /\ PushAll(new, stack, overflow \ {a}, delayed \ {a})
      /\ fresh' = fresh \ {a}
      /\ slice' = [slice EXCEPT !.delaying = delayed' # {}]
      /\ UNCHANGED <<heapVars, rootVars, grayVars, state, lastSlice, needsBarrier,
                     collecting, pc, snapshot>>
  BY DEF MarkDelayedChildren
<1>2. /\ \A o \in Objects : ArenaOf[o] \in Arenas
      /\ traced \subseteq cells /\ cells \subseteq Objects
      /\ \A o \in Objects : Children(o) \subseteq Objects
  BY DEF Constants, IncrementalGCAssumption, Cells, Typed, SlotsTyped, Children, Traced
<1>3. new \in SUBSET Objects
  <2>1. CASE a \in overflow
    <3>1. new = ToMark(seen \ early, Collecting) /\ seen \subseteq Objects
      BY <1>2, <2>1 DEF ToPush
    <3> HIDE DEF new, seen
    <3> QED
      BY <3>1 DEF ToMark
  <2>2. CASE a \notin overflow
    BY <1>2, <2>2 DEF ToPush
  <2> QED
    BY <2>1, <2>2
<1>4. CompOf[a] \in Collecting /\ \A o \in new : Comp(o) \in Collecting
  BY DEF DelayedOwned, ToMark, Cells, Comp, ToPush
<1>5. /\ \A e \in stack : e \in stack'
      /\ \A e \in stack' : \/ e \in stack
                           \/ e[1] \in new /\ e[2] \in SlotsOf(e[1])
      /\ \A o \in new : \A i \in SlotsOf(o) : Pending(o, i)'
      /\ \A b \in overflow \ {a} : b \in overflow'
      /\ \A b \in delayed \ {a} : b \in delayed'
      /\ \A b \in overflow' : b \in overflow \ {a} \/ \E o \in new : b = ArenaOf[o]
      /\ \A b \in delayed' : b \in delayed \ {a} \/ \E o \in new : b = ArenaOf[o]
      /\ \A b \in overflow' : b \in overflow \ {a} \/ b \in delayed'
  BY <1>1, <1>3, PushedIsPending
<1>6. SliceTyped' /\ slice'.kind = slice.kind /\ slice'.initialState = slice.initialState
  BY <1>1 DEF SliceTyped
<1>7. marked \subseteq marked' /\ marked' \subseteq Objects
  BY <1>1, <1>2, <1>3 DEF Typed
<1>8. \A b \in overflow' \cup fresh' : b \in delayed'
  BY <1>1, <1>5 DEF DelayedOwned
<1>9. delayed' \subseteq Arenas /\ \A b \in delayed' : CompOf[b] \in Collecting
  <2> SUFFICES ASSUME NEW b \in delayed'
               PROVE  b \in Arenas /\ CompOf[b] \in Collecting
    OBVIOUS
  <2>1. CASE b \in delayed
    BY <2>1 DEF Typed, DelayedOwned
  <2>2. ASSUME NEW o \in new, b = ArenaOf[o]
        PROVE  b \in Arenas /\ CompOf[b] \in Collecting
    BY <1>2, <1>3, <1>4, <2>2 DEF Comp
  <2> QED
    BY <1>5, <2>1, <2>2
<1>10. \A e \in stack' : \/ e \in stack
                         \/ /\ e[1] \in marked' /\ e[2] \in SlotsOf(e[1])
                            /\ Comp(e[1]) \in Collecting
  BY <1>1, <1>4, <1>5
<1>11. \A o \in allocated : ArenaOf[o] \in fresh => o \in marked' \/ ArenaOf[o] \in fresh'
  <2> SUFFICES ASSUME NEW o \in allocated, ArenaOf[o] = a, a \in fresh
               PROVE  o \in marked'
    BY <1>1
  <2>1. o \in cells /\ o \in traced
    BY DEF Cells, Typed, Traced
  <2> QED
    BY <1>1, <2>1 DEF ToPush
\* What is traced has its children marked.
<1>12. ASSUME NEW o \in traced, NEW i \in SlotsOf(o), a \in overflow
       PROVE  Done(o, i)
  <2> SUFFICES ASSUME slot[o][i] # Nil, Comp(slot[o][i]) \in Collecting
               PROVE  slot[o][i] \in marked'
    BY DEF Done
  <2>1. slot[o][i] \in Children(o)
    BY DEF Children
  <2>2. slot[o][i] \in traced \/ slot[o][i] \in new \/ slot[o][i] \in marked
    <3>1. slot[o][i] \in seen
      BY <1>12, <2>1
    <3>2. new = ToMark(seen \ early, Collecting)
      BY <1>12 DEF ToPush
    <3> HIDE DEF new, seen
    <3>3. ASSUME slot[o][i] \notin traced, slot[o][i] \notin marked
          PROVE  slot[o][i] \in ToMark(seen \ early, Collecting)
      BY <3>1, <3>3 DEF ToMark
    <3> QED
      BY <3>2, <3>3, Zenon
  <2> QED
    BY <1>1, <1>12, <2>2
<1>13. \A o \in marked' \ marked : \A i \in SlotsOf(o) : Done(o, i) \/ Pending(o, i)'
  BY <1>1, <1>5, <1>12
<1>14. ASSUME NEW o \in marked, NEW i \in SlotsOf(o), Pending(o, i)
       PROVE  Done(o, i) \/ Pending(o, i)'
  <2>1. ASSUME NEW e \in stack, e[1] = o, e[2] <= i
        PROVE  Pending(o, i)'
    BY <1>5, <2>1 DEF Pending
  <2>2. CASE ArenaOf[o] \in overflow \ {a}
    BY <1>5, <2>2 DEF Pending
  <2>3. CASE ArenaOf[o] = a /\ a \in overflow
    <3>1. CASE o \in allocated
      <4>1. o \in traced
        BY <2>3, <3>1 DEF Cells, Typed, Traced
      <4> QED
        BY <1>12, <2>3, <4>1
    <3>2. CASE o \notin allocated
      BY <3>2 DEF FreeCellsClear, Typed, Done
    <3> QED
      BY <3>1, <3>2
  <2> QED
    BY <1>14, <2>1, <2>2, <2>3 DEF Pending
<1> QED
  BY <1>1, <1>6, <1>7, <1>8, <1>9, <1>10, <1>11, <1>13, <1>14, MarkerStep

-----------------------------------------------------------------------------
(* The phases of a slice.                                                   *)

\* A slice that ends before the collection does leaves the compartments of the
\* collection to the barriers and the arenas of their free lists to the marker.
LEMMA EndSliceStep ==
  ASSUME IndInv, pc = "mark", slice.kind = "incremental", lastSlice' \in BOOLEAN,
         ~grayFailed, EndSlice
  PROVE  IndInv'
<1> USE DEF IndInv, heapVars, rootVars, grayVars
<1>1. /\ needsBarrier' = needsBarrier \cup collecting
      /\ fresh' = fresh \cup PrepareForIncrementalGC
      /\ delayed' = delayed \cup PrepareForIncrementalGC
      /\ collecting' = {} /\ pc' = "js" /\ slice' = NoSlice
      /\ UNCHANGED <<heapVars, rootVars, marked, stack, overflow, grayVars, state, snapshot>>
  BY DEF EndSlice, BarriersOn, FlagArenas
<1>2. needsBarrier = {} /\ collecting # {} /\ state = "mark"
  BY DEF Coordinated
<1>3. needsBarrier' = collecting /\ Collecting' = Collecting /\ Collecting = collecting
  BY <1>1, <1>2 DEF Collecting
<1>4. \A a \in PrepareForIncrementalGC : a \in Arenas /\ CompOf[a] \in collecting
  BY DEF PrepareForIncrementalGC, FreeCells, FreeListsOwned, Typed
<1>5. Typed'
  BY <1>1, <1>3, <1>4 DEF Typed
<1>6. Constants' /\ SliceTyped'
  BY <1>1 DEF Constants, IncrementalGCAssumption, TriggersHarmless, Comps, SliceTyped,
              NoSlice, Kinds
<1>7. SlotsTyped' /\ FreeCellsClear' /\ FreeListsOwned'
  BY <1>1 DEF SlotsTyped, FreeCellsClear, FreeListsOwned, SlotsOf
<1>8. Coordinated' /\ Drained'
  BY <1>1, <1>2, <1>3 DEF Coordinated, Drained
<1>9. StackOwned' /\ DelayedOwned'
  BY <1>1, <1>3, <1>4 DEF StackOwned, DelayedOwned, SlotsOf, Comp
<1>10. FreeListsFresh'
  <2> SUFFICES ASSUME NEW c \in collecting, FreeCells(freeArena[c])' # {}
               PROVE  freeArena[c] \in fresh'
    BY <1>1, <1>3 DEF FreeListsFresh
  <2>1. FreeCells(freeArena[c]) # {}
    BY <1>1 DEF FreeCells, Cells
  <2> QED
    BY <1>1, <2>1 DEF PrepareForIncrementalGC
<1>11. Reachable' = Reachable
  BY <1>1 DEF Reachable, Closed, Children, SlotsOf
<1>12. NothingLiveSwept'
  BY <1>1, <1>11 DEF NothingLiveSwept
<1>13. SnapshotCovered'
  <2>1. \A o \in Objects : \A i \in SlotsOf(o) : Pending(o, i)' = Pending(o, i)
    BY <1>1 DEF Pending
  <2>2. GrayRootsToMark' = GrayRootsToMark
    BY <1>1 DEF GrayRootsToMark
  <2>3. Active /\ marked \subseteq Objects
    BY DEF Active, Typed
  <2> QED
    BY <1>1, <1>3, <1>5, <1>11, <2>1, <2>2, <2>3, SnapshotKept
<1> QED
  BY <1>5, <1>6, <1>7, <1>8, <1>9, <1>10, <1>12, <1>13

LEMMA UnfinishedStep ==
  ASSUME IndInv, OverBudget \/ FinishedEarly
  PROVE  IndInv'
<1>1. CASE OverBudget
  <2>1. lastSlice' \in BOOLEAN
    BY <1>1 DEF OverBudget, IndInv, Typed
  <2> QED
    BY <1>1, <2>1, EndSliceStep DEF OverBudget
<1>2. CASE FinishedEarly
  <2>1. ~grayFailed
    BY <1>2 DEF FinishedEarly, IndInv, Coordinated
  <2> QED
    BY <1>2, <2>1, EndSliceStep DEF FinishedEarly
<1> QED
  BY <1>1, <1>2

\* A step from one phase to the next one, with nothing on the mark stack.
LEMMA PhaseStep ==
  ASSUME IndInv, Finished \/ GrayFinished
  PROVE  IndInv'
<1> USE DEF IndInv, heapVars, rootVars, markVars, grayVars
<1>1. /\ UNCHANGED <<heapVars, rootVars, markVars, grayBuffer, state, lastSlice,
                     needsBarrier, collecting, slice, snapshot>>
      /\ IsDrained
      /\ \/ pc = "mark" /\ pc' = "gray" /\ UNCHANGED grayFailed
         \/ pc = "markGray" /\ pc' = "sweep" /\ grayFailed' = FALSE
  BY DEF Finished, GrayFinished
<1>2. Collecting' = Collecting
  BY <1>1 DEF Collecting
<1>3. Typed' /\ SliceTyped' /\ Constants'
  <2>1. Constants' /\ SliceTyped'
    BY <1>1 DEF Constants, IncrementalGCAssumption, TriggersHarmless, Comps, SliceTyped
  <2>2. Typed'
    BY <1>1 DEF Typed
  <2> QED
    BY <2>1, <2>2
<1>4. SlotsTyped' /\ FreeCellsClear' /\ FreeListsOwned' /\ FreeListsFresh'
  BY <1>1 DEF SlotsTyped, FreeCellsClear, FreeListsOwned, FreeListsFresh, SlotsOf
<1>5. Coordinated' /\ Drained'
  BY <1>1 DEF Coordinated, Drained, IsDrained
<1>6. StackOwned' /\ DelayedOwned'
  BY <1>1, <1>2 DEF StackOwned, DelayedOwned, SlotsOf, Comp
<1>7. Reachable' = Reachable
  BY <1>1 DEF Reachable, Closed, Children, SlotsOf
<1>8. NothingLiveSwept'
  BY <1>1, <1>7 DEF NothingLiveSwept
<1>9. SnapshotCovered'
  <2>1. \A o \in Objects : \A i \in SlotsOf(o) : Pending(o, i)' = Pending(o, i)
    BY <1>1 DEF Pending
  <2>2. pc \in {"js", "mark", "gray"} =>
          pc' \in {"js", "mark", "gray"} /\ GrayRootsToMark' = GrayRootsToMark
    BY <1>1 DEF GrayRootsToMark
  <2>3. Active /\ marked \subseteq Objects
    BY <1>1 DEF Active, Typed
  <2> QED
    BY <1>1, <1>2, <1>3, <1>7, <2>1, <2>2, <2>3, SnapshotKept
<1> QED
  BY <1>3, <1>4, <1>5, <1>6, <1>8, <1>9

\* The gray roots are marked and pushed on an empty stack.
LEMMA MarkGrayStep ==
  ASSUME IndInv, MarkGray
  PROVE  IndInv'
<1> DEFINE os == ToMark(GrayRootsToMark, collecting)
<1> USE DEF IndInv, heapVars, rootVars, grayVars
<1>1. /\ pc = "gray" /\ pc' = "markGray"
      /\ marked' = marked \cup os
      /\ PushAll(os, {}, {}, {})
      /\ grayBuffer' = {}
      /\ UNCHANGED <<heapVars, rootVars, fresh, grayFailed, state, lastSlice, needsBarrier,
                     collecting, slice, snapshot>>
  BY DEF MarkGray
<1>2. Collecting' = Collecting /\ Collecting = collecting
  BY <1>1 DEF Collecting
<1>3. os \in SUBSET Objects /\ \A o \in os : Comp(o) \in Collecting
  BY <1>2 DEF ToMark, GrayRootsToMark, Typed
<1>4. /\ \A e \in stack' : e[1] \in os /\ e[2] \in SlotsOf(e[1])
      /\ \A o \in os : \A i \in SlotsOf(o) : Pending(o, i)'
      /\ \A a \in overflow' : \E o \in os : a = ArenaOf[o]
      /\ \A a \in delayed' : \E o \in os : a = ArenaOf[o]
      /\ \A a \in overflow' : a \in delayed'
  BY <1>1, <1>3, PushedOnEmpty
<1>5. stack = {} /\ delayed = {} /\ overflow = {} /\ fresh = {}
  BY <1>1 DEF Drained, IsDrained, DelayedOwned
<1>6. \A o \in Objects : ArenaOf[o] \in Arenas
  BY DEF Constants, IncrementalGCAssumption
<1>7. marked' \subseteq Objects /\ marked \subseteq marked'
  BY <1>1, <1>3 DEF Typed
<1>8. Typed'
  <2>1. delayed' \subseteq Arenas /\ overflow' \subseteq Arenas
    BY <1>3, <1>4, <1>6
  <2> QED
    BY <1>1, <1>7, <2>1 DEF Typed
<1>9. Constants' /\ SliceTyped'
  BY <1>1 DEF Constants, IncrementalGCAssumption, TriggersHarmless, Comps, SliceTyped
<1>10. SlotsTyped' /\ FreeCellsClear' /\ FreeListsOwned' /\ FreeListsFresh'
  BY <1>1 DEF SlotsTyped, FreeCellsClear, FreeListsOwned, FreeListsFresh, SlotsOf
<1>11. Coordinated' /\ Drained'
  BY <1>1 DEF Coordinated, Drained
<1>12. StackOwned'
  BY <1>1, <1>2, <1>3, <1>4 DEF StackOwned, SlotsOf, Comp
<1>13. DelayedOwned'
  BY <1>1, <1>2, <1>3, <1>4, <1>5 DEF DelayedOwned, Comp
<1>14. Reachable' = Reachable
  BY <1>1 DEF Reachable, Closed, Children, SlotsOf
<1>15. NothingLiveSwept'
  BY <1>1, <1>14 DEF NothingLiveSwept
<1>16. SnapshotCovered'
  <2>1. \A o \in marked' \ marked : \A i \in SlotsOf(o) : Pending(o, i)'
    BY <1>1, <1>4
  <2>2. \A o \in Objects : \A i \in SlotsOf(o) : ~Pending(o, i)
    BY <1>5 DEF Pending
  <2>3. \A o \in GrayRootsToMark : Comp(o) \in Collecting => o \in marked'
    BY <1>1, <1>2 DEF ToMark
  <2>4. Active /\ marked \subseteq Objects
    BY <1>1 DEF Active, Typed
  <2> QED
    BY <1>1, <1>2, <1>5, <1>7, <1>8, <1>14, <2>1, <2>2, <2>3, <2>4, SnapshotKept
<1> QED
  BY <1>8, <1>9, <1>10, <1>11, <1>12, <1>13, <1>15, <1>16

-----------------------------------------------------------------------------
(* The end and the beginning of a collection.                               *)

\* When marking is done the marked objects are a covering set.
LEMMA MarkedCovers ==
  ASSUME IndInv, pc = "sweep"
  PROVE  /\ snapshot \subseteq marked
         /\ \A o \in Reachable : Comp(o) \in collecting => o \in marked
<1> USE DEF IndInv
<1>1. stack = {} /\ overflow = {} /\ fresh = {} /\ Collecting = collecting
  BY DEF Drained, IsDrained, DelayedOwned, Collecting
<1>2. Covers(marked)
  BY <1>1 DEF Covers, Pending
<1>3. Active /\ marked \in SUBSET Objects
  BY DEF Active, Typed
<1> QED
  BY <1>1, <1>2, <1>3 DEF SnapshotCovered

LEMMA SweepStep ==
  ASSUME IndInv, Sweep
  PROVE  IndInv'
<1> DEFINE dead == {o \in allocated : Comp(o) \in collecting} \ marked
<1> USE DEF IndInv, rootVars, markVars, grayVars
<1>1. /\ pc = "sweep" /\ pc' = "js" /\ state' = "none" /\ collecting' = {}
      /\ slice' = NoSlice /\ snapshot' = {}
      /\ allocated' = allocated \ dead
      /\ slot' = [o \in Objects |-> IF o \in dead THEN [i \in SlotsOf(o) |-> Nil] ELSE slot[o]]
      /\ freeArena' = [c \in Comps |-> IF c \in collecting THEN Nil ELSE freeArena[c]]
      /\ needsBarrier' = IF slice.kind = "incremental" THEN needsBarrier \ collecting
                         ELSE needsBarrier
      /\ UNCHANGED <<rootVars, markVars, grayVars, lastSlice>>
  BY DEF Sweep
<1>2. needsBarrier' = {}
  BY <1>1 DEF Coordinated
<1>3. stack = {} /\ delayed = {} /\ overflow = {} /\ fresh = {}
  BY <1>1 DEF Drained, IsDrained, DelayedOwned
<1>4. \A o \in Objects : \A i \in SlotsOf(o) :
        slot'[o][i] = IF o \in dead THEN Nil ELSE slot[o][i]
  BY <1>1
<1>5. Typed'
  BY <1>1, <1>2 DEF Typed
<1>6. Constants' /\ SliceTyped'
  BY <1>1 DEF Constants, IncrementalGCAssumption, TriggersHarmless, Comps, SliceTyped,
              NoSlice, Kinds
<1>7. SlotsTyped'
  BY <1>1 DEF SlotsTyped, SlotsOf
<1>8. FreeCellsClear'
  BY <1>1, <1>4 DEF FreeCellsClear, SlotsOf
<1>9. FreeListsOwned'
  BY <1>1 DEF FreeListsOwned
<1>10. FreeListsFresh' /\ StackOwned' /\ DelayedOwned'
  BY <1>1, <1>2, <1>3 DEF FreeListsFresh, StackOwned, DelayedOwned
<1>11. Coordinated' /\ Drained'
  BY <1>1, <1>2, <1>3 DEF Coordinated, Drained, IsDrained
<1>12. Reachable' \subseteq Reachable
  <2>1. \A o \in Reachable : \A i \in SlotsOf(o) :
          slot'[o][i] # Nil => slot'[o][i] \in Reachable
    BY <1>4, ReachableClosed
  <2> QED
    BY <1>1, <2>1, ReachableClosed, ReachableShrinks
<1>13. NothingLiveSwept'
  BY <1>1, <1>12, MarkedCovers DEF NothingLiveSwept
<1>14. SnapshotCovered'
  BY <1>1 DEF SnapshotCovered, Active
<1> QED
  BY <1>5, <1>6, <1>7, <1>8, <1>9, <1>10, <1>11, <1>13, <1>14

\* A collection that goes on is one of the same compartments.
LEMMA SameCompartments ==
  ASSUME IndInv, NEW cs \in SUBSET Comps, needsBarrier \subseteq cs, needsBarrier # {},
         NEW over \in IF HasTriggers THEN SUBSET Comps ELSE {{}},
         BudgetIncrementalGC(cs, over) # "reset"
  PROVE  cs = needsBarrier
<1> USE DEF IndInv
<1>1. CASE HasTriggers
  <2>1. PICK c \in Comps : c \in needsBarrier
    BY DEF Typed
  <2>2. \A d \in Comps : d = c
    BY <1>1 DEF Constants, TriggersHarmless
  <2> QED
    BY <2>1, <2>2 DEF Typed
<1>2. CASE ~HasTriggers
  <2> DEFINE stop == {i \in 1..Len(Compartments) :
                        \/ Compartments[i] \in over
                        \/ (Compartments[i] \in cs) # (Compartments[i] \in needsBarrier)}
  <2>1. over = {}
    BY <1>2
  <2>2. stop = {}
    BY <2>1 DEF BudgetIncrementalGC
  <2>3. ASSUME NEW d \in cs
        PROVE  d \in needsBarrier
    <3>1. PICK i \in 1..Len(Compartments) : d = Compartments[i]
      BY DEF Comps
    <3> QED
      BY <2>2, <2>3, <3>1
  <2> QED
    BY <2>3
<1> QED
  BY <1>1, <1>2

\* The roots are marked, and the snapshot is what they reach.
LEMMA BeginCovers ==
  ASSUME IndInv, NEW cs \in SUBSET Comps, pc = "js", pc' = "mark", collecting' = cs,
         BeginMarkPhase(cs), UNCHANGED <<heapVars, rootVars>>
  PROVE  /\ SnapshotCovered'
         /\ marked' \subseteq Objects /\ snapshot' \subseteq Objects
         /\ grayBuffer' \subseteq Objects /\ grayFailed' \in BOOLEAN
         /\ \A e \in stack' : /\ e[1] \in marked' /\ e[2] \in SlotsOf(e[1])
                              /\ Comp(e[1]) \in cs
         /\ fresh' = {}
         /\ \A a \in overflow' : a \in delayed'
         /\ \A a \in delayed' : a \in Arenas /\ CompOf[a] \in cs
<1> DEFINE os == {o \in Roots(cs) : Comp(o) \in cs}
<1> USE DEF IndInv, heapVars, rootVars
<1>1. /\ marked' = os /\ PushAll(os, {}, {}, {}) /\ fresh' = {}
      /\ snapshot' = {o \in Reachable : Comp(o) \in cs}
      /\ grayBuffer' \in {grayRoots, {}} /\ grayFailed' \in BOOLEAN
      /\ ~grayFailed' => grayBuffer' = grayRoots
  BY DEF BeginMarkPhase
<1>2. \A o \in Objects : Children(o) \subseteq Objects /\ ArenaOf[o] \in Arenas
  BY DEF Children, SlotsTyped, Constants, IncrementalGCAssumption
<1>3. Roots(cs) \subseteq Objects
  BY <1>2 DEF Roots, Typed
<1>4. os \in SUBSET Objects /\ \A o \in os : Comp(o) \in cs
  BY <1>3
<1>5. /\ \A e \in stack' : e[1] \in os /\ e[2] \in SlotsOf(e[1])
      /\ \A o \in os : \A i \in SlotsOf(o) : Pending(o, i)'
      /\ \A a \in overflow' : \E o \in os : a = ArenaOf[o]
      /\ \A a \in delayed' : \E o \in os : a = ArenaOf[o]
      /\ \A a \in overflow' : a \in delayed'
  <2>1. PushAll(os, {}, {}, {})
    BY <1>1
  <2> HIDE DEF os
  <2> QED
    BY <1>4, <2>1, PushedOnEmpty
<1>6. \A a \in delayed' : a \in Arenas /\ CompOf[a] \in cs
  BY <1>2, <1>4, <1>5 DEF Comp
<1>7. Collecting' = cs
  BY DEF Collecting
<1>8. Reachable' = Reachable
  BY DEF Reachable, Closed, Children, SlotsOf
<1>9. SnapshotCovered'
  <2> SUFFICES ASSUME NEW K \in SUBSET Objects, Covers(K)'
               PROVE  \A o \in Reachable : Comp(o) \in cs => o \in K
    BY <1>1, <1>7, <1>8 DEF SnapshotCovered, Comp
  <2> DEFINE S == {o \in Reachable : Comp(o) \in cs => o \in K}
  <2>1. /\ marked' \subseteq K
        /\ \A o \in GrayRootsToMark' : Comp(o) \in cs => o \in K
        /\ \A o \in K : \A i \in SlotsOf(o) :
             /\ o \notin marked' \/ Pending(o, i)'
             /\ slot[o][i] # Nil /\ Comp(slot[o][i]) \in cs
             => slot[o][i] \in K
    BY <1>7 DEF Covers, Comp, SlotsOf
  <2>2. roots \subseteq S
    <3>1. \A o \in roots : Comp(o) \in cs => o \in os
      BY DEF Roots
    <3> QED
      BY <1>1, <2>1, <3>1, ReachableClosed
  <2>3. grayRoots \subseteq S
    <3>1. GrayRootsToMark' = grayRoots
      BY <1>1 DEF GrayRootsToMark
    <3> QED
      BY <2>1, <3>1, ReachableClosed
  <2>4. ASSUME NEW o \in S, NEW i \in SlotsOf(o), slot[o][i] # Nil
        PROVE  slot[o][i] \in S
    <3>1. slot[o][i] \in Reachable /\ o \in Objects /\ o \in Reachable
      BY <2>4, ReachableClosed
    <3> SUFFICES ASSUME Comp(slot[o][i]) \in cs
                 PROVE  slot[o][i] \in K
      BY <3>1
    <3>2. CASE Comp(o) \in cs
      <4>1. o \in K
        BY <3>2
      <4>2. o \notin marked' \/ Pending(o, i)'
        BY <1>1, <1>5, <2>4
      <4> QED
        BY <2>1, <2>4, <4>1, <4>2
    <3>3. CASE Comp(o) \notin cs
      <4>1. o \in allocated
        BY <3>1 DEF NothingLiveSwept
      <4>2. slot[o][i] \in Children(o)
        BY <2>4 DEF Children
      <4>3. slot[o][i] \in os
        BY <3>3, <4>1, <4>2 DEF Roots
      <4> QED
        BY <1>1, <2>1, <4>3
    <3> QED
      BY <3>2, <3>3
  <2>5. S \in SUBSET Objects
    BY DEF Reachable
  <2>6. Reachable' \subseteq S
    <3>1. \A o \in S : \A i \in SlotsOf(o) : slot'[o][i] # Nil => slot'[o][i] \in S
      BY <2>4
    <3> HIDE DEF S
    <3> QED
      BY <2>2, <2>3, <2>5, <3>1, ReachableLeast
  <2> QED
    BY <1>8, <2>6
<1>10. snapshot' \subseteq Objects /\ grayBuffer' \subseteq Objects
  BY <1>1 DEF Typed, Reachable
<1> QED
  BY <1>1, <1>4, <1>5, <1>6, <1>9, <1>10

\* A call of GCCycle goes on with the collection under way, of the same
\* compartments, or begins anew.
LEMMA CollectStep ==
  ASSUME IndInv, NEW scheduled \in SUBSET Comps, NEW incremental \in BOOLEAN,
         NEW unsafe \in BOOLEAN,
         NEW over \in IF HasTriggers THEN SUBSET Comps ELSE {{}},
         Collect(scheduled, incremental, unsafe, over)
  PROVE  IndInv'
<1> DEFINE cs      == scheduled \cup needsBarrier
           verdict == IF ~incremental \/ unsafe THEN "both" ELSE BudgetIncrementalGC(cs, over)
           before  == IF verdict \in {"both", "reset"} THEN "none" ELSE state
           limited == verdict \in {"continue", "reset"}
           kind    == IF ~limited /\ before = "none" THEN "nonincremental" ELSE "incremental"
<1> USE DEF IndInv, heapVars, rootVars
<1>1. /\ pc = "js" /\ pc' = "mark" /\ cs # {} /\ collecting' = cs
      /\ needsBarrier' = IF before = "none" THEN {} ELSE needsBarrier \ cs
      /\ slice' = [kind |-> kind, limited |-> limited, initialState |-> before,
                   delaying |-> FALSE]
      /\ state' = IF kind = "incremental" THEN "mark" ELSE "none"
      /\ IF before = "none"
         THEN BeginMarkPhase(cs) /\ lastSlice' = FALSE
         ELSE UNCHANGED <<markVars, grayVars, snapshot, lastSlice>>
      /\ UNCHANGED <<heapVars, rootVars>>
  BY DEF Collect
<1>2. cs \in SUBSET Comps /\ needsBarrier \subseteq cs
  BY DEF Typed
<1>3. needsBarrier' = {}
  BY <1>1, <1>2
<1>4. Collecting' = cs
  BY <1>1 DEF Collecting
<1>5. /\ kind \in Kinds /\ limited \in BOOLEAN /\ before \in {"none", "mark"}
      /\ before = "mark" => kind = "incremental" /\ state = "mark"
  BY DEF Kinds, Typed
<1>6. before = "mark" => cs = needsBarrier
  <2> SUFFICES ASSUME before = "mark"
               PROVE  cs = needsBarrier
    OBVIOUS
  <2>1. verdict # "reset" /\ verdict # "both" /\ needsBarrier # {}
    BY <1>1 DEF Coordinated
  <2>2. BudgetIncrementalGC(cs, over) # "reset"
    BY <2>1
  <2> HIDE DEF cs
  <2> QED
    BY <1>2, <2>1, <2>2, SameCompartments
<1>7. SliceTyped' /\ slice'.kind = kind /\ slice'.initialState = before
  BY <1>1, <1>5 DEF SliceTyped
<1> HIDE DEF cs, verdict, before, limited, kind
<1>8. Constants'
  BY DEF Constants, IncrementalGCAssumption, TriggersHarmless, Comps
<1>9. SlotsTyped' /\ FreeCellsClear' /\ FreeListsOwned' /\ FreeListsFresh'
  BY <1>1 DEF SlotsTyped, FreeCellsClear, FreeListsOwned, FreeListsFresh, SlotsOf
<1>10. Drained'
  BY <1>1 DEF Drained
<1>11. Reachable' = Reachable
  BY <1>1 DEF Reachable, Closed, Children, SlotsOf
<1>12. NothingLiveSwept'
  BY <1>1, <1>11 DEF NothingLiveSwept
<1>13. CASE before = "none"
  <2>1. BeginMarkPhase(cs) /\ lastSlice' = FALSE
    BY <1>1, <1>13
  <2>2. /\ SnapshotCovered'
        /\ marked' \subseteq Objects /\ snapshot' \subseteq Objects
        /\ grayBuffer' \subseteq Objects /\ grayFailed' \in BOOLEAN
        /\ \A e \in stack' : /\ e[1] \in marked' /\ e[2] \in SlotsOf(e[1])
                             /\ Comp(e[1]) \in cs
        /\ fresh' = {}
        /\ \A a \in overflow' : a \in delayed'
        /\ \A a \in delayed' : a \in Arenas /\ CompOf[a] \in cs
    BY <1>1, <1>2, <2>1, BeginCovers
  <2>3. Typed'
    <3>1. delayed' \subseteq Arenas /\ overflow' \subseteq Arenas
      BY <2>2
    <3> QED
      BY <1>1, <1>2, <1>3, <2>1, <2>2, <3>1 DEF Typed
  <2>4. Coordinated'
    BY <1>1, <1>3, <1>5, <1>7, <1>13 DEF Coordinated
  <2>5. StackOwned' /\ DelayedOwned'
    BY <1>4, <2>2 DEF StackOwned, DelayedOwned, SlotsOf, Comp
  <2> QED
    BY <1>7, <1>8, <1>9, <1>10, <1>12, <2>2, <2>3, <2>4, <2>5
<1>14. CASE before = "mark"
  <2>1. /\ UNCHANGED <<markVars, grayVars, snapshot, lastSlice>>
        /\ cs = needsBarrier /\ state = "mark" /\ state' = "mark"
    BY <1>1, <1>5, <1>6, <1>14
  <2> USE DEF markVars, grayVars
  <2>2. Collecting' = Collecting
    BY <1>1, <1>4, <2>1 DEF Collecting
  <2>3. Typed'
    BY <1>1, <1>2, <1>3, <2>1 DEF Typed
  <2>4. Coordinated'
    BY <1>1, <1>3, <1>5, <1>7, <1>14, <2>1 DEF Coordinated
  <2>5. StackOwned' /\ DelayedOwned'
    BY <2>1, <2>2 DEF StackOwned, DelayedOwned, SlotsOf, Comp
  <2>6. SnapshotCovered'
    <3>1. \A o \in Objects : \A i \in SlotsOf(o) : Pending(o, i)' = Pending(o, i)
      BY <2>1 DEF Pending
    <3>2. GrayRootsToMark' = GrayRootsToMark
      BY <1>1, <2>1 DEF GrayRootsToMark, Coordinated
    <3>3. Active /\ marked \subseteq Objects
      BY <2>1 DEF Active, Typed
    <3> QED
      BY <1>1, <1>11, <2>1, <2>2, <2>3, <3>1, <3>2, <3>3, SnapshotKept
  <2> QED
    BY <1>7, <1>8, <1>9, <1>10, <1>12, <2>3, <2>4, <2>5, <2>6
<1> QED
  BY <1>5, <1>13, <1>14

-----------------------------------------------------------------------------
(* The theorems.                                                            *)

LEMMA InitHolds ==
  ASSUME Constants, Init
  PROVE  IndInv
<1> USE DEF Init
<1>1. Typed
  BY DEF Typed
<1>2. SliceTyped
  BY DEF SliceTyped, NoSlice, Kinds
<1>3. SlotsTyped /\ FreeCellsClear /\ FreeListsOwned /\ FreeListsFresh
  BY DEF SlotsTyped, FreeCellsClear, FreeListsOwned, FreeListsFresh
<1>4. Coordinated /\ Drained /\ StackOwned /\ DelayedOwned
  BY DEF Coordinated, Drained, IsDrained, StackOwned, DelayedOwned
<1>5. NothingLiveSwept
  <2>1. {} \in SUBSET Objects /\ Closed({})
    BY DEF Closed
  <2>2. \A o \in Reachable : o \in {}
    BY <2>1 DEF Reachable
  <2> QED
    BY <2>2 DEF NothingLiveSwept
<1>6. SnapshotCovered
  BY DEF SnapshotCovered, Active
<1> QED
  BY <1>1, <1>2, <1>3, <1>4, <1>5, <1>6 DEF IndInv

LEMMA StutterStep ==
  ASSUME IndInv, UNCHANGED vars
  PROVE  IndInv'
<1> USE DEF IndInv, vars, heapVars, rootVars, markVars, grayVars, stateVars
<1>1. Typed' /\ SliceTyped' /\ SlotsTyped' /\ Constants'
  BY DEF Typed, SliceTyped, SlotsTyped, SlotsOf, Constants, IncrementalGCAssumption,
         TriggersHarmless, Comps
<1>2. FreeCellsClear' /\ FreeListsOwned' /\ FreeListsFresh' /\ Coordinated' /\ Drained'
  BY DEF FreeCellsClear, FreeListsOwned, FreeListsFresh, Coordinated, Drained, IsDrained,
         SlotsOf, FreeCells, Cells
<1>3. Collecting' = Collecting
  BY DEF Collecting
<1>4. StackOwned' /\ DelayedOwned'
  BY <1>3 DEF StackOwned, DelayedOwned, SlotsOf, Comp
<1>5. Reachable' = Reachable
  BY DEF Reachable, Closed, Children, SlotsOf
<1>6. NothingLiveSwept'
  BY <1>5 DEF NothingLiveSwept
<1>7. SnapshotCovered'
  <2>1. CASE Active
    <3>1. \A o \in Objects : \A i \in SlotsOf(o) : Pending(o, i)' = Pending(o, i)
      BY DEF Pending
    <3>2. GrayRootsToMark' = GrayRootsToMark /\ marked \subseteq Objects
      BY DEF GrayRootsToMark, Typed
    <3> QED
      BY <1>1, <1>3, <1>5, <2>1, <3>1, <3>2, SnapshotKept
  <2>2. CASE ~Active
    BY <2>2 DEF Active, SnapshotCovered
  <2> QED
    BY <2>1, <2>2
<1> QED
  BY <1>1, <1>2, <1>4, <1>6, <1>7

LEMMA NextHolds ==
  ASSUME IndInv, [Next]_vars
  PROVE  IndInv'
<1>1. CASE Script
  <2> PICK o \in Objects :
        \/ AllocateFromFreeList(o) \/ AllocateFromArena(o)
        \/ DropRoot(o) \/ ChangeGrayRoots(o)
        \/ \E i \in SlotsOf(o) : Read(o, i) \/ \E v \in Objects \cup {Nil} : Write(o, i, v)
    BY <1>1 DEF Script
  <2>1. CASE AllocateFromFreeList(o) \/ AllocateFromArena(o)
    BY <2>1, AllocateStep
  <2>2. CASE DropRoot(o) \/ ChangeGrayRoots(o) \/ \E i \in SlotsOf(o) : Read(o, i)
    BY <2>2, HoldingStep
  <2>3. ASSUME NEW i \in SlotsOf(o), NEW v \in Objects \cup {Nil}, Write(o, i, v)
        PROVE  IndInv'
    BY <2>3, WriteStep
  <2> QED
    BY <2>1, <2>2, <2>3
<1>2. CASE StartSlice
  <2> PICK scheduled \in SUBSET Comps, incremental \in BOOLEAN, unsafe \in BOOLEAN,
           over \in IF HasTriggers THEN SUBSET Comps ELSE {{}} :
        Collect(scheduled, incremental, unsafe, over)
    BY <1>2 DEF StartSlice
  <2> QED
    BY CollectStep
<1>3. CASE RunSlice
  <2>1. ASSUME NEW e \in stack, Scan(e)
        PROVE  IndInv'
    BY <2>1, ScanStep
  <2>2. ASSUME NEW a \in delayed, NEW early \in SUBSET (Traced(a) \ marked),
               MarkDelayedChildren(a, early)
        PROVE  IndInv'
    BY <2>2, MarkDelayedChildrenStep
  <2>3. CASE OverBudget \/ FinishedEarly
    BY <2>3, UnfinishedStep
  <2>4. CASE Finished \/ GrayFinished
    BY <2>4, PhaseStep
  <2>5. CASE MarkGray \/ Sweep
    BY <2>5, MarkGrayStep, SweepStep
  <2> QED
    BY <1>3, <2>1, <2>2, <2>3, <2>4, <2>5 DEF RunSlice
<1>4. CASE UNCHANGED vars
  BY <1>4, StutterStep
<1> QED
  BY <1>1, <1>2, <1>3, <1>4 DEF Next

\* The invariant holds in every state of the collector and the script.
THEOREM Invariance == Constants => (Spec => []IndInv)
<1> SUFFICES ASSUME Constants
             PROVE  Spec => []IndInv
  OBVIOUS
<1>1. Init => IndInv
  BY InitHolds
<1>2. IndInv /\ [Next]_vars => IndInv'
  BY NextHolds
<1> QED
  BY <1>1, <1>2, PTL DEF Spec

\* Barriers are on exactly where marking is left to do, an arena with a flag is
\* on the list of those put off, and the marker is empty between collections
\* (~AutoGCSlice, delayMarkingArena, ResetIncrementalGC).
THEOREM MarkerIsCoherent == Constants => (Spec => []MarkerCoherent)
<1> SUFFICES ASSUME Constants
             PROVE  Spec => []MarkerCoherent
  OBVIOUS
<1>1. IndInv => MarkerCoherent
  <2> SUFFICES ASSUME IndInv
               PROVE  MarkerCoherent
    OBVIOUS
  <2> USE DEF IndInv
  <2>1. TypeOK
    BY DEF TypeOK, Typed, SliceTyped, SlotsTyped, StackOwned
  <2>2. overflow \cup fresh \subseteq delayed
    BY DEF DelayedOwned
  <2>3. BarriersDuringMarking
    <3> SUFFICES ASSUME pc = "js"
                 PROVE  BarriersDuringMarking
      BY DEF BarriersDuringMarking
    <3>1. Collecting = needsBarrier
      BY DEF Collecting
    <3>2. state = "none" => IsDrained /\ fresh = {} /\ overflow = {} /\ grayBuffer = {}
      BY <2>2 DEF Drained, IsDrained, Coordinated
    <3> QED
      BY <3>1, <3>2 DEF BarriersDuringMarking, Coordinated, StackOwned, DelayedOwned
  <2> QED
    BY <2>1, <2>2, <2>3 DEF MarkerCoherent, DelayedArenasListed
<1> QED
  BY <1>1, Invariance, PTL

\* When the sweep begins, what was reachable when the roots were marked is
\* marked, and so is what is reachable now (gc/Barrier.h).
THEOREM SnapshotIsMarked == Constants => (Spec => []SnapshotMarked)
<1> SUFFICES ASSUME Constants
             PROVE  Spec => []SnapshotMarked
  OBVIOUS
<1>1. IndInv => SnapshotMarked
  BY MarkedCovers DEF SnapshotMarked
<1> QED
  BY <1>1, Invariance, PTL

\* What the script or the embedding can reach is never swept, whatever the
\* script does between the slices (SweepPhase).
THEOREM NothingLiveIsSwept == Constants => (Spec => []NothingLiveSwept)
<1> SUFFICES ASSUME Constants
             PROVE  Spec => []NothingLiveSwept
  OBVIOUS
<1>1. IndInv => NothingLiveSwept
  BY DEF IndInv
<1> QED
  BY <1>1, Invariance, PTL

=============================================================================
