-------------------------- MODULE WeakMarkingProofs --------------------------
(* Proofs about WeakMarking, for any heap, any number of weak maps,          *)
(* watchpoints and debuggers, and collections of any compartments: what can   *)
(* still be used is never finalized, whatever the script does between the     *)
(* slices, what survives refers to nothing that does not, and an entry with a *)
(* dead key does not keep its value.                                         *)
EXTENDS WeakMarking, TLAPS

\* Every key is of its map's compartment: the wrapper of a key is not looked
\* through, or no compartment is left out (elsewhere the code breaks what is
\* proved from it).
NoForeignKeys == FullOnly \/ \A o \in Objects : Unwrap(o) = o

\* A debugger stays attached to the global of every script that it has a
\* breakpoint in.
StaysAttached ==
    /\ "detach" \notin DebuggerOps
    /\ \A b \in Breakpoints : \E g \in Debuggees : g[1] \in Edges[b[2]] /\ g[2] = b[1]

-----------------------------------------------------------------------------
(* What a set keeps alive, one kind of reference at a time.                 *)

EdgesIn(K) == \A o \in K : Edges[o] \subseteq K

EntriesIn(K) == \A m \in Maps : \A e \in weak[m] : {m, e[1]} \subseteq K => e[2] \in K

ClosuresIn(K) == \A o \in DOMAIN watch : o \in K => watch[o] \in K

HeldIn(K) == \A o \in held : o \in DOMAIN watch => {o, watch[o]} \subseteq K

DebuggersIn(K) ==
    /\ \A g \in debuggees :
          /\ g[1] \in K /\ g[2] \in enabled
          /\ g[2] \in Hooks \/ \E b \in armed : b[1] = g[2] /\ b[2] \in K
          => g[2] \in K
    /\ \A b \in armed :
          {b[1], b[2]} \subseteq K /\ (\E g \in debuggees : g[1] \in K /\ g[2] = b[1])
          => b[3] \in K

Closed(K) == EdgesIn(K) /\ EntriesIn(K) /\ ClosuresIn(K) /\ HeldIn(K) /\ DebuggersIn(K)

\* What the script can get at.
ScriptClosed(K) == EdgesIn(K) /\ EntriesIn(K) /\ ClosuresIn(K)

-----------------------------------------------------------------------------
(* The inductive invariant.                                                 *)

Outside == {o \in live : CompOf[o] \notin collecting}

\* What the sweep would leave.
Survivors == {o \in live : ~Dead(o)}

Typed ==
    /\ TypeOK
    /\ list \in Seq(Maps)
    /\ phase = "js" => collecting = {}
    /\ FullOnly /\ phase # "js" => collecting = Comps

\* Nothing that is alive refers to what is not.
LiveClosed == roots \cup GrayRoots \subseteq live /\ Closed(live)

\* A value is of its map's compartment and a closure of its object's; what a
\* handler runs for is on the stack.
Local ==
    /\ \A m \in Maps : \A e \in weak[m] : CompOf[e[2]] = CompOf[m]
    /\ \A o \in DOMAIN watch : CompOf[watch[o]] = CompOf[o]
    /\ held \subseteq roots

MarksSound ==
    phase # "js" =>
        /\ marked \subseteq live /\ \A o \in marked : CompOf[o] \in collecting
        /\ Range(list) \subseteq marked

\* What has been traced, or is outside of the collection, refers to nothing
\* white, and a map that has been traced is in the list.
Traced ==
    phase # "js" =>
        /\ \A o \in (marked \ todo) \cup Outside : \A p \in Edges[o] : ~Dead(p)
        /\ \A o \in (marked \ todo) \cap Maps : o \in Range(list)

\* Everything the script holds is marked, or will be from what is: the barriers.
Covered ==
    phase # "js" =>
        \A K \in SUBSET Objects :
            marked \cup Outside \subseteq K /\ ScriptClosed(K) => roots \subseteq K

GrayMarked ==
    /\ phase # "js" /\ gray => \A o \in GrayRoots : ~Dead(o)
    /\ phase = "sweep" => gray

\* When a pass has marked nothing, what it has looked at asks for nothing more.
Satisfied(os) == \A o \in os : ~Dead(o)

WatchDone == \A e \in WatchEntries : (phase = "watch" /\ e \in visit) \/ Satisfied(VisitWatch(e))
MapsDone == \A e \in Listed : (phase = "maps" /\ e \in visit) \/ Satisfied(VisitMap(e))
DebugDone == \A e \in debuggees : (phase = "debug" /\ e \in visit) \/ Satisfied(VisitDebuggee(e))

Passes ==
    /\ phase = "watch" => visit \subseteq WatchEntries
    /\ phase = "maps" => visit \subseteq Listed
    /\ phase = "debug" => visit \subseteq debuggees
    /\ phase = "sweep" => ~markedAny
    /\ phase \in {"watch", "maps", "debug", "sweep"} /\ ~markedAny => todo = {} /\ WatchDone
    /\ phase \in {"maps", "debug", "sweep"} /\ ~markedAny => MapsDone
    /\ phase \in {"debug", "sweep"} /\ ~markedAny => DebugDone

\* The value of an entry is live whenever its map is, and so is what debuggers
\* and breakpoints are attached to.
ReferentsLive ==
    /\ \A m \in Maps \cap live : \A e \in weak[m] : e[2] \in live
    /\ \A g \in debuggees : {g[1], g[2]} \subseteq live
    /\ \A b \in armed : b[2] \in live

IndInv ==
    /\ Typed /\ LiveClosed /\ Local /\ MarksSound /\ Traced /\ Covered /\ GrayMarked /\ Passes
    /\ ListSound /\ WatchpointsLive /\ ReferentsLive

\* Of the entries when no key is of another compartment.
KeysLive ==
    /\ NoDanglingEntry
    /\ FullOnly \/ \A m \in Maps : \A e \in weak[m] : CompOf[e[1]] = CompOf[m]

\* What was live when the collection began contains what is.
SnapshotClosed ==
    phase # "js" =>
        /\ snapshot \subseteq Objects /\ Closed(snapshot)
        /\ roots \cup GrayRoots \cup marked \cup Outside \subseteq snapshot

\* As long as both a breakpoint's debugger and its script are live they are
\* attached.
Attached ==
    \A b \in armed :
        {b[1], b[2]} \subseteq live => \E g \in debuggees : g[1] \in Edges[b[2]] /\ g[2] = b[1]

-----------------------------------------------------------------------------
(* Facts.                                                                   *)

\* The types, one variable at a time.
LEMMA Types ==
  ASSUME WeakMarkingAssumption, Typed
  PROVE  /\ live \subseteq Objects /\ roots \subseteq Objects /\ held \subseteq Objects
         /\ marked \subseteq Objects /\ todo \subseteq marked /\ GrayRoots \subseteq Objects
         /\ Maps \subseteq Objects /\ Watched \subseteq Objects
         /\ \A o \in Objects : Edges[o] \subseteq Objects
         /\ \A m \in Maps : \A e \in weak[m] : /\ e[1] \in Objects /\ e[2] \in Objects
                                               /\ e = <<e[1], e[2]>>
         /\ DOMAIN watch \subseteq Objects /\ \A o \in DOMAIN watch : watch[o] \in Objects
         /\ \A g \in debuggees : g[1] \in Objects /\ g[2] \in Objects
         /\ \A b \in armed : b[1] \in Objects /\ b[2] \in Objects /\ b[3] \in Objects
         /\ \A b \in armed : CompOf[b[3]] = CompOf[b[1]]
         /\ \A i \in DOMAIN list : list[i] \in Maps
         /\ Range(list) \subseteq Maps
         /\ \A o \in Objects : CompOf[o] \in Comps
         /\ phase = "js" => collecting = {} /\ todo = {}
<1> USE DEF Typed, TypeOK, WeakMarkingAssumption
<1>1. live \subseteq Objects /\ roots \subseteq Objects /\ held \subseteq Objects
      /\ marked \subseteq Objects /\ todo \subseteq marked
  OBVIOUS
<1>2. GrayRoots \subseteq Objects /\ Maps \subseteq Objects /\ Watched \subseteq Objects
  OBVIOUS
<1>3. \A o \in Objects : Edges[o] \subseteq Objects
  OBVIOUS
<1>4. \A m \in Maps : \A e \in weak[m] : e[1] \in Objects /\ e[2] \in Objects /\ e = <<e[1], e[2]>>
  <2> SUFFICES ASSUME NEW m \in Maps, NEW e \in weak[m]
               PROVE  e[1] \in Objects /\ e[2] \in Objects /\ e = <<e[1], e[2]>>
    OBVIOUS
  <2>1. e \in Objects \X Objects
    OBVIOUS
  <2> QED
    BY <2>1
<1>5. DOMAIN watch \subseteq Objects /\ \A o \in DOMAIN watch : watch[o] \in Objects
  BY DEF Range
<1>6. \A g \in debuggees : g[1] \in Objects /\ g[2] \in Objects
  OBVIOUS
<1>7. \A b \in armed : b[1] \in Objects /\ b[2] \in Objects /\ b[3] \in Objects
  OBVIOUS
<1>8. \A i \in DOMAIN list : list[i] \in Maps
  OBVIOUS
<1>9. Range(list) \subseteq Maps
  BY <1>8 DEF Range
<1>10. \A o \in Objects : CompOf[o] \in Comps
  BY DEF Comps, Range
<1>11. phase = "js" => collecting = {} /\ todo = {}
  OBVIOUS
<1>12. \A b \in armed : CompOf[b[3]] = CompOf[b[1]]
  OBVIOUS
<1> QED
  BY ONLY <1>1, <1>2, <1>3, <1>4, <1>5, <1>6, <1>7, <1>8, <1>9, <1>10, <1>11, <1>12

\* A set keeps nothing else alive when none of the references leads out of it.
LEMMA KeepsIsClosed ==
  ASSUME NEW K
  PROVE  Keeps(K) \subseteq K <=> Closed(K)
<1> DEFINE edges == UNION {Edges[o] : o \in K}
           watched == held \cap DOMAIN watch
           values == {e[3] : e \in {x \in Entries : x[1] \in K /\ x[2] \in K}}
           closures == {watch[o] : o \in DOMAIN watch \cap (K \cup held)}
           debuggers == {g[2] : g \in {x \in debuggees : x[1] \in K /\ x[2] \in enabled
                            /\ (x[2] \in Hooks \/ \E b \in armed : b[1] = x[2] /\ b[2] \in K)}}
           handlers == {b[3] : b \in {x \in armed : {x[1], x[2]} \subseteq K
                            /\ \E g \in debuggees : g[1] \in K /\ g[2] = x[1]}}
<1>1. edges \subseteq K <=> EdgesIn(K)
  BY DEF EdgesIn
<1>2. values \subseteq K <=> EntriesIn(K)
  <2>1. ASSUME values \subseteq K, NEW m \in Maps, NEW e \in weak[m], {m, e[1]} \subseteq K
        PROVE  e[2] \in K
    <3>1. <<m, e[1], e[2]>> \in Entries
      BY DEF Entries
    <3> QED
      BY <2>1, <3>1
  <2>2. ASSUME EntriesIn(K), NEW x \in Entries, x[1] \in K, x[2] \in K
        PROVE  x[3] \in K
    <3>1. PICK m \in Maps : x \in {<<m, e[1], e[2]>> : e \in weak[m]}
      BY <2>2 DEF Entries
    <3>2. PICK e \in weak[m] : x = <<m, e[1], e[2]>>
      BY <3>1
    <3> QED
      BY <2>2, <3>2 DEF EntriesIn
  <2>3. values \subseteq K => EntriesIn(K)
    BY <2>1 DEF EntriesIn
  <2>4. EntriesIn(K) => values \subseteq K
    BY <2>2
  <2> QED
    BY <2>3, <2>4
<1>3. closures \subseteq K /\ watched \subseteq K <=> ClosuresIn(K) /\ HeldIn(K)
  BY DEF ClosuresIn, HeldIn
<1>4. debuggers \subseteq K /\ handlers \subseteq K <=> DebuggersIn(K)
  <2>1. debuggers \subseteq K
        <=> \A g \in debuggees :
              /\ g[1] \in K /\ g[2] \in enabled
              /\ g[2] \in Hooks \/ \E b \in armed : b[1] = g[2] /\ b[2] \in K
              => g[2] \in K
    OBVIOUS
  <2>2. handlers \subseteq K
        <=> \A b \in armed :
              {b[1], b[2]} \subseteq K /\ (\E g \in debuggees : g[1] \in K /\ g[2] = b[1])
              => b[3] \in K
    OBVIOUS
  <2> QED
    BY <2>1, <2>2 DEF DebuggersIn
<1>5. Keeps(K) = edges \cup values \cup closures \cup watched \cup debuggers \cup handlers
  BY DEF Keeps
<1> HIDE DEF edges, values, closures, watched, debuggers, handlers
<1>6. Keeps(K) \subseteq K
      <=> /\ edges \subseteq K /\ values \subseteq K /\ closures \subseteq K /\ watched \subseteq K
          /\ debuggers \subseteq K /\ handlers \subseteq K
  BY ONLY <1>5
<1> QED
  BY ONLY <1>6, <1>1, <1>2, <1>3, <1>4 DEF Closed

\* What can be reached from a part of a closed set is in it.
LEMMA ReachIn ==
  ASSUME NEW from, NEW K \in SUBSET Objects, from \subseteq K, Closed(K)
  PROVE  Reach(from) \subseteq K
BY KeepsIsClosed DEF Reach

\* What can be reached contains what it is reached from, and is closed.
LEMMA ReachIsClosed ==
  ASSUME WeakMarkingAssumption, Typed, NEW from \in SUBSET Objects
  PROVE  from \subseteq Reach(from) /\ Closed(Reach(from)) /\ Reach(from) \subseteq Objects
<1> DEFINE R == Reach(from)
<1>1. from \subseteq R /\ R \subseteq Objects
  BY DEF Reach
<1>2. ASSUME NEW K \in SUBSET Objects, from \subseteq K, Keeps(K) \subseteq K
      PROVE  Closed(K) /\ R \subseteq K
  BY <1>2, KeepsIsClosed DEF Reach
<1>3. ASSUME NEW o \in Objects,
             \A K \in SUBSET Objects : from \subseteq K /\ Closed(K) /\ R \subseteq K => o \in K
      PROVE  o \in R
  BY <1>2, <1>3 DEF Reach
<1> HIDE DEF R
<1>4. EdgesIn(R)
  BY <1>1, <1>3, Types DEF EdgesIn, Closed
<1>5. EntriesIn(R)
  BY <1>1, <1>3, Types DEF EntriesIn, Closed
<1>6. ClosuresIn(R)
  BY <1>1, <1>3, Types DEF ClosuresIn, Closed
<1>7. HeldIn(R)
  BY <1>1, <1>3, Types DEF HeldIn, Closed
<1>8. DebuggersIn(R)
  <2>1. ASSUME NEW g \in debuggees, g[1] \in R, g[2] \in enabled,
               g[2] \in Hooks \/ \E b \in armed : b[1] = g[2] /\ b[2] \in R
        PROVE  g[2] \in R
    <3>1. ASSUME NEW K \in SUBSET Objects, Closed(K), R \subseteq K
          PROVE  g[2] \in K
      BY <2>1, <3>1 DEF Closed, DebuggersIn
    <3> QED
      BY <1>3, <3>1, Types
  <2>2. ASSUME NEW b \in armed, b[1] \in R, b[2] \in R,
               \E g \in debuggees : g[1] \in R /\ g[2] = b[1]
        PROVE  b[3] \in R
    <3>1. ASSUME NEW K \in SUBSET Objects, Closed(K), R \subseteq K
          PROVE  b[3] \in K
      BY <2>2, <3>1 DEF Closed, DebuggersIn
    <3> QED
      BY <1>3, <3>1, Types
  <2> QED
    BY <2>1, <2>2 DEF DebuggersIn
<1> QED
  BY <1>1, <1>4, <1>5, <1>6, <1>7, <1>8 DEF Closed, R

-----------------------------------------------------------------------------
(* What the script does to the mark bits.                                   *)

\* In every set that the script cannot leave.
Reachable(os) ==
    \A K \in SUBSET Objects : roots \subseteq K /\ ScriptClosed(K) => os \subseteq K

\* What a wrapper stands for is one of its references.
LEMMA UnwrapIn ==
  ASSUME NEW K, EdgesIn(K), NEW o \in K
  PROVE  Unwrap(o) \in K
BY DEF Unwrap, EdgesIn

\* The value that a put replaces or a delete removes.
LEMMA ValueReachable ==
  ASSUME NEW m \in Maps, NEW o, {m, o} \subseteq roots, NEW e \in weak[m], e[1] = Unwrap(o)
  PROVE  Reachable({e[1], e[2]})
BY UnwrapIn DEF Reachable, ScriptClosed, EntriesIn

\* The script marks only what it could get at, and moves the collection no
\* further: the write barriers of weak maps and watchpoints.
LEMMA MutatorMarks ==
  ASSUME WeakMarkingAssumption, Typed, Mutator
  PROVE  /\ phase \in {"js", "mark"}
         /\ UNCHANGED <<live, list, collecting, phase, visit, markedAny, gray, snapshot>>
         /\ \E os \in SUBSET Objects : Reachable(os) /\ Mark(os)
<1> DEFINE Done == /\ phase \in {"js", "mark"}
                   /\ UNCHANGED <<live, list, collecting, phase, visit, markedAny, gray, snapshot>>
                   /\ \E os \in SUBSET Objects : Reachable(os) /\ Mark(os)
<1>1. ASSUME Script, live' = live, UNCHANGED markVars
      PROVE  Done
  <2>1. Reachable({}) /\ Mark({})
    BY <1>1 DEF Reachable, Mark, markVars
  <2> QED
    BY <1>1, <2>1 DEF Script, markVars
<1>2. ASSUME Script, live' = live, UNCHANGED Unmarking,
             NEW os \in SUBSET Objects, Reachable(os), Mark(os)
      PROVE  Done
  BY <1>2 DEF Script, Unmarking
<1> HIDE DEF Done
<1>3. ASSUME NEW g \in debuggees, RemoveDebuggee(g) PROVE Done
  BY <1>1, <1>3 DEF RemoveDebuggee
<1>4. ASSUME NEW o \in Objects, Hold(o) PROVE Done
  BY <1>1, <1>4 DEF Hold
<1>5. ASSUME NEW o \in Objects, Forget(o) PROVE Done
  BY <1>1, <1>5 DEF Forget
<1>6. ASSUME NEW o \in Objects, SetEnabled(o) PROVE Done
  BY <1>1, <1>6 DEF SetEnabled
<1>7. ASSUME NEW o \in Objects, Trigger(o) PROVE Done
  BY <1>1, <1>7 DEF Trigger
<1>8. ASSUME NEW o \in Objects, HandlerReturns(o) PROVE Done
  BY <1>1, <1>8 DEF HandlerReturns
<1>9. ASSUME NEW m \in Maps, NEW o \in Objects, WeakMapGet(m, o) PROVE Done
  BY <1>1, <1>9 DEF WeakMapGet
<1>10. ASSUME NEW o \in Objects, Unwatch(o) PROVE Done
  <2>1. {o, watch[o]} \in SUBSET Objects
    BY <1>10, Types DEF Unwatch
  <2>2. Reachable({o, watch[o]})
    BY <1>10 DEF Unwatch, Reachable, ScriptClosed, ClosuresIn
  <2> QED
    BY <1>2, <1>10, <2>1, <2>2 DEF Unwatch, PreBarrier
<1>11. ASSUME NEW o \in Objects, NEW c \in Objects, Watch(o, c) PROVE Done
  <2> DEFINE os == {watch[p] : p \in {o} \cap DOMAIN watch}
  <2>1. os \in SUBSET Objects
    BY Types
  <2>2. Reachable(os)
    BY <1>11 DEF Watch, Reachable, ScriptClosed, ClosuresIn
  <2> QED
    BY <1>2, <1>11, <2>1, <2>2 DEF Watch, PreBarrier
<1>12. ASSUME NEW m \in Maps, NEW o \in Objects, WeakMapDelete(m, o) PROVE Done
  <2>1. PICK e \in weak[m] : e[1] = Unwrap(o) /\ Mark({e[1], e[2]})
    BY <1>12 DEF WeakMapDelete, PreBarrier
  <2>2. {e[1], e[2]} \in SUBSET Objects
    BY Types
  <2>3. Reachable({e[1], e[2]})
    BY <1>12, <2>1, ValueReachable DEF WeakMapDelete
  <2> QED
    BY <1>2, <1>12, <2>1, <2>2, <2>3 DEF WeakMapDelete
<1>13. ASSUME NEW m \in Maps, NEW v \in Objects, NEW o \in Objects, WeakMapSet(m, o, v) PROVE Done
  <2> DEFINE os == {e[2] : e \in {x \in weak[m] : x[1] = Unwrap(o)}}
  <2>1. os \in SUBSET Objects
    BY Types
  <2>2. \A e \in weak[m] : e[1] = Unwrap(o) => Reachable({e[1], e[2]})
    BY <1>13, ValueReachable DEF WeakMapSet
  <2>3. Reachable(os)
    BY <2>2 DEF Reachable
  <2>4. Mark(os)
    BY <1>13 DEF WeakMapSet, Put, PreBarrier
  <2> QED
    BY <1>2, <1>13, <2>1, <2>3, <2>4 DEF WeakMapSet
<1>14. Done
  BY <1>3, <1>4, <1>5, <1>6, <1>7, <1>8, <1>9, <1>10, <1>11, <1>12, <1>13 DEF Mutator
<1> QED
  BY <1>14 DEF Done

-----------------------------------------------------------------------------
(* Marking.                                                                 *)

\* Marking what is live, and putting it on the stack, leaves nothing that has
\* been traced with a reference to something white.
LEMMA MarkStep ==
  ASSUME WeakMarkingAssumption, Typed, MarksSound, Traced,
         NEW os \in SUBSET live, Mark(os), UNCHANGED <<collecting, live, list>>,
         phase' # "js" => phase # "js"
  PROVE  MarksSound' /\ Traced'
<1> SUFFICES ASSUME phase # "js"
             PROVE  MarksSound' /\ Traced'
  BY DEF MarksSound, Traced
<1>1. MarksSound'
  BY DEF MarksSound, Mark
<1>2. \A o \in (marked' \ todo') \cup Outside' : o \in (marked \ todo) \cup Outside
  BY DEF Mark, Dead, Outside
<1>3. \A p \in Objects : ~Dead(p) => ~Dead(p)'
  BY DEF Dead, Mark
<1>4. \A o \in (marked \ todo) \cup Outside : Edges[o] \subseteq Objects
  BY Types DEF Outside
<1>5. \A o \in (marked' \ todo') \cup Outside' : \A p \in Edges[o] : ~Dead(p)'
  BY <1>2, <1>3, <1>4 DEF Traced
<1>6. \A o \in (marked' \ todo') \cap Maps : o \in Range(list)'
  BY <1>2 DEF Traced, Mark, Dead, MarksSound
<1> QED
  BY <1>1, <1>5, <1>6 DEF Traced

\* Range of a list that one more map has been linked into.
LEMMA Linked ==
  ASSUME NEW o \in Maps, list \in Seq(Maps), list' = <<o>> \o list, ~Contains(list, o)
  PROVE  /\ list' \in Seq(Maps)
         /\ Range(list)' = Range(list) \cup {o}
         /\ IsInjective(list) => IsInjective(list)'
<1>1. list' \in Seq(Maps) /\ Len(list') = Len(list) + 1
  OBVIOUS
<1>2. list'[1] = o /\ \A i \in 1..Len(list) : list'[i + 1] = list[i]
  OBVIOUS
<1>3. DOMAIN list' = 1..(Len(list) + 1) /\ DOMAIN list = 1..Len(list) /\ Len(list) \in Nat
  BY <1>1
<1>4. \A i \in DOMAIN list' : i = 1 \/ (i - 1 \in DOMAIN list /\ list'[i] = list[i - 1])
  <2> SUFFICES ASSUME NEW i \in DOMAIN list', i # 1
               PROVE  i - 1 \in DOMAIN list /\ list'[i] = list[i - 1]
    OBVIOUS
  <2>1. i - 1 \in 1..Len(list) /\ (i - 1) + 1 = i
    BY <1>3
  <2> QED
    BY <1>2, <1>3, <2>1
<1>5. \A i \in DOMAIN list : i + 1 \in DOMAIN list' /\ list'[i + 1] = list[i]
  BY <1>2, <1>3
<1>6. Range(list)' = Range(list) \cup {o}
  <2>1. ASSUME NEW x \in Range(list)' PROVE x \in Range(list) \cup {o}
    BY <1>2, <1>4, <2>1 DEF Range
  <2>2. ASSUME NEW x \in Range(list) \cup {o} PROVE x \in Range(list)'
    <3>1. CASE x = o
      BY <1>2, <1>3, <3>1 DEF Range
    <3>2. CASE x \in Range(list)
      BY <1>5, <3>2 DEF Range
    <3> QED
      BY <2>2, <3>1, <3>2
  <2> QED
    BY <2>1, <2>2
<1>7. ASSUME IsInjective(list) PROVE IsInjective(list)'
  <2> SUFFICES ASSUME NEW i \in DOMAIN list', NEW j \in DOMAIN list', list'[i] = list'[j]
               PROVE  i = j
    BY DEF IsInjective
  <2>1. \A k \in DOMAIN list : list[k] # o
    BY <1>3 DEF Contains
  <2>2. CASE i = 1
    BY <1>2, <1>4, <2>1, <2>2
  <2>3. CASE j = 1
    BY <1>2, <1>4, <2>1, <2>3
  <2>4. CASE i # 1 /\ j # 1
    <3>1. i - 1 \in DOMAIN list /\ j - 1 \in DOMAIN list /\ list[i - 1] = list[j - 1]
      BY <1>4, <2>4
    <3>2. i - 1 = j - 1
      BY <1>7, <3>1 DEF IsInjective
    <3> QED
      BY <1>3, <3>2
  <2> QED
    BY <2>2, <2>3, <2>4
<1> QED
  BY <1>1, <1>6, <1>7

\* Contains and Range say the same.
LEMMA ContainsIsIn ==
  ASSUME list \in Seq(Maps), NEW o
  PROVE  Contains(list, o) <=> o \in Range(list)
BY DEF Contains, Range

\* Tracing a thing marks what it refers to and links it when it is a map.
LEMMA TraceStep ==
  ASSUME WeakMarkingAssumption, Typed, LiveClosed, MarksSound, Traced, ListSound,
         NEW o \in Objects, Trace(o)
  PROVE  /\ MarksSound' /\ Traced' /\ ListSound'
         /\ list' \in Seq(Maps) /\ marked \subseteq marked' /\ todo' \subseteq marked'
         /\ marked' \subseteq Objects
<1>1. /\ phase # "js" /\ o \in marked /\ o \in live
      /\ UNCHANGED <<collecting, live>>
  BY Types DEF Trace, heapVars, MarksSound
<1>2. Edges[o] \subseteq live
  BY <1>1 DEF LiveClosed, Closed, EdgesIn
<1>3. list' = list \/ (o \in Maps /\ ~Contains(list, o) /\ list' = <<o>> \o list)
  BY DEF Trace, Link
<1>4. list \in Seq(Maps)
  BY DEF Typed
<1>5. /\ list' \in Seq(Maps)
      /\ Range(list) \subseteq Range(list)'
      /\ Range(list)' \subseteq Range(list) \cup {o}
      /\ IsInjective(list)'
  BY <1>3, <1>4, Linked DEF ListSound
<1>6. o \in Maps => o \in Range(list)'
  <2>1. CASE o \notin Maps \/ Contains(list, o)
    BY <1>4, <1>5, <2>1, ContainsIsIn
  <2>2. CASE o \in Maps /\ ~Contains(list, o)
    <3>1. list' = <<o>> \o list
      BY <2>2 DEF Trace, Link
    <3> QED
      BY <1>4, <2>2, <3>1, Linked
  <2> QED
    BY <2>1, <2>2
<1>7. marked' = marked \cup {p \in Edges[o] : CompOf[p] \in collecting}
  BY DEF Trace
<1>8. PICK again \in {{}, {o}} : todo' = (todo \ {o}) \cup again \cup {p \in Edges[o] : Dead(p)}
  BY Zenon DEF Trace
<1>9. MarksSound'
  BY <1>1, <1>2, <1>5, <1>7 DEF MarksSound
<1>10. \A p \in Objects : ~Dead(p) => ~Dead(p)'
  BY <1>1, <1>7 DEF Dead
<1>11. \A q \in (marked' \ todo') \cup Outside' : q \in (marked \ todo) \cup Outside \/ q = o
  BY <1>1, <1>7, <1>8 DEF Dead, Outside
<1>12. \A p \in Edges[o] : ~Dead(p)'
  BY <1>1, <1>7 DEF Dead
<1>13. \A q \in (marked' \ todo') \cup Outside' : \A p \in Edges[q] : ~Dead(p)'
  <2>1. \A q \in (marked \ todo) \cup Outside : Edges[q] \subseteq Objects
    BY Types DEF Outside
  <2> QED
    BY <1>1, <1>10, <1>11, <1>12, <2>1 DEF Traced
<1>14. \A q \in marked' \ todo' : q \in (marked \ todo) \/ q = o
  BY <1>1, <1>7, <1>8 DEF Dead
<1>15. \A q \in (marked' \ todo') \cap Maps : q \in Range(list)'
  BY <1>1, <1>5, <1>6, <1>14 DEF Traced
<1>16. Traced'
  BY <1>13, <1>15 DEF Traced
<1>17. ListSound'
  BY <1>1, <1>5 DEF ListSound
<1>18. todo' \subseteq marked' /\ marked' \subseteq Objects
  BY <1>1, <1>2, <1>7, <1>8, Types DEF Dead
<1> QED
  BY <1>5, <1>7, <1>9, <1>16, <1>17, <1>18

\* The roots and what wrappers refer to are marked first.
LEMMA BeginStep ==
  ASSUME WeakMarkingAssumption, Typed, LiveClosed, NEW cs \in Collections, BeginMark(cs)
  PROVE  /\ MarksSound' /\ Traced' /\ Covered' /\ ListSound'
         /\ marked' \subseteq Objects /\ todo' = marked' /\ list' = <<>>
<1> DEFINE wrapped == UNION {Edges[o] : o \in {p \in live : CompOf[p] \notin cs}}
           from == {o \in roots \cup wrapped : CompOf[o] \in cs}
<1>1. /\ marked' = from /\ todo' = from /\ list' = <<>>
      /\ collecting' = cs /\ live' = live /\ roots' = roots
  BY DEF BeginMark, ResetWeakMapList, heapVars
<1>2. Range(list)' = {} /\ IsInjective(list)'
  BY <1>1 DEF Range, IsInjective
<1>3. \A o \in live : CompOf[o] \notin cs => Edges[o] \subseteq wrapped
  OBVIOUS
<1>4. wrapped \subseteq live
  BY DEF LiveClosed, Closed, EdgesIn
<1>5. from \subseteq live /\ \A o \in from : CompOf[o] \in cs
  BY <1>4 DEF LiveClosed
<1>6. \A o \in wrapped \cup roots : CompOf[o] \in cs => o \in from
  OBVIOUS
<1> HIDE DEF wrapped, from
<1>7. MarksSound'
  BY <1>1, <1>2, <1>5 DEF MarksSound
<1>8. Traced'
  BY <1>1, <1>3, <1>6 DEF Traced, Outside, Dead
<1>9. roots \subseteq marked' \cup Outside'
  BY <1>1, <1>6 DEF Outside, LiveClosed
<1>10. Covered'
  BY <1>1, <1>9 DEF Covered
<1>11. ListSound'
  BY <1>2 DEF ListSound
<1> QED
  BY <1>1, <1>5, <1>7, <1>8, <1>10, <1>11, Types

\* What the passes over watchpoints, maps and debuggees mark is live.
LEMMA WatchVisit ==
  ASSUME WeakMarkingAssumption, Typed, LiveClosed, WatchpointsLive, NEW e \in WatchEntries
  PROVE  VisitWatch(e) \subseteq live
BY Types DEF WatchEntries, VisitWatch, WatchpointsLive

\* A listed map is marked, and so live.
LEMMA MapVisit ==
  ASSUME WeakMarkingAssumption, Typed, LiveClosed, MarksSound, ReferentsLive, phase # "js",
         NEW e \in Listed
  PROVE  VisitMap(e) \subseteq live
<1>1. PICK m \in Maps : \E x \in weak[m] : e = <<m, x[1], x[2]>>
  BY DEF Listed, Entries
<1>2. m \in live
  BY <1>1, ContainsIsIn DEF Listed, MarksSound, Typed
<1> QED
  BY <1>1, <1>2 DEF ReferentsLive, VisitMap

\* Attached debuggers and debuggees are live, and so are the handlers.
LEMMA DebugVisit ==
  ASSUME WeakMarkingAssumption, Typed, LiveClosed, ReferentsLive, NEW e \in debuggees
  PROVE  VisitDebuggee(e) \subseteq live
<1>1. e[1] \in live /\ e[2] \in live
  BY DEF ReferentsLive
<1>2. \A b \in armed : b[1] = e[2] => b[3] \in live
  BY <1>1 DEF ReferentsLive, LiveClosed, Closed, DebuggersIn
<1> QED
  BY <1>1, <1>2 DEF VisitDebuggee

\* A step of a pass.
LEMMA PassMarks ==
  ASSUME WeakMarkingAssumption, Typed, LiveClosed, MarksSound, ReferentsLive, WatchpointsLive,
         Passes, WatchPass \/ MapPass \/ DebugPass
  PROVE  \E e \in visit, os \in SUBSET live :
            /\ Visit(e, os)
            /\ phase \in {"watch", "maps", "debug"}
            /\ phase = "watch" => e \in WatchEntries /\ os = VisitWatch(e)
            /\ phase = "maps" => e \in Listed /\ os = VisitMap(e)
            /\ phase = "debug" => e \in debuggees /\ os = VisitDebuggee(e)
<1>1. CASE WatchPass
  <2>1. PICK e \in visit : Visit(e, VisitWatch(e)) /\ phase = "watch"
    BY <1>1 DEF WatchPass
  <2>2. e \in WatchEntries
    BY <2>1 DEF Passes
  <2> QED
    BY <2>1, <2>2, WatchVisit
<1>2. CASE MapPass
  <2>1. PICK e \in visit : Visit(e, VisitMap(e)) /\ phase = "maps"
    BY <1>2 DEF MapPass
  <2>2. e \in Listed
    BY <2>1 DEF Passes
  <2> QED
    BY <2>1, <2>2, MapVisit
<1>3. CASE DebugPass
  <2>1. PICK e \in visit : Visit(e, VisitDebuggee(e)) /\ phase = "debug"
    BY <1>3 DEF DebugPass
  <2>2. e \in debuggees
    BY <2>1 DEF Passes
  <2> QED
    BY <2>1, <2>2, DebugVisit
<1> QED
  BY <1>1, <1>2, <1>3

\* Nothing of the heap changes, and the collection goes on.
Going ==
    /\ UNCHANGED heapVars
    /\ phase # "js" /\ phase' # "js" /\ collecting' = collecting /\ snapshot' = snapshot

\* The steps of a collection after its beginning, but for the sweep.
Steps ==
    \/ \E o \in Objects : Trace(o)
    \/ EndMark \/ WatchPass \/ MapPass \/ DebugPass
    \/ PassMarked \/ Drained \/ PassDone \/ MarkGray \/ MarkingDone

\* None of them changes the heap or ends the collection.
LEMMA StepsGo ==
  ASSUME Steps
  PROVE  Going
<1>1. ASSUME NEW e, NEW os, Visit(e, os), phase \in {"watch", "maps", "debug"} PROVE Going
  BY <1>1 DEF Visit, Going
<1>2. ASSUME WatchPass \/ MapPass \/ DebugPass PROVE Going
  BY <1>1, <1>2 DEF WatchPass, MapPass, DebugPass
<1>3. ASSUME \E o \in Objects : Trace(o) PROVE Going
  BY <1>3 DEF Trace, Going
<1>4. ASSUME EndMark \/ Drained \/ PassMarked \/ MarkGray \/ MarkingDone PROVE Going
  BY <1>4 DEF EndMark, Drained, PassMarked, MarkGray, MarkingDone, Going
<1>5. ASSUME PassDone PROVE Going
  BY <1>5 DEF PassDone, NextPass, Going
<1> QED
  BY <1>2, <1>3, <1>4, <1>5 DEF Steps

\* What they do to the mark bits.
LEMMA StepsMark ==
  ASSUME WeakMarkingAssumption, Typed, LiveClosed, MarksSound, Traced, ListSound, ReferentsLive,
         WatchpointsLive, Passes, Steps
  PROVE  /\ MarksSound' /\ Traced' /\ ListSound'
         /\ marked \subseteq marked' /\ marked' \subseteq Objects /\ todo' \subseteq marked'
         /\ list' \in Seq(Maps)
<1>1. Going
  BY StepsGo
<1>2. ASSUME NEW os \in SUBSET live, Mark(os), list' = list
      PROVE  /\ MarksSound' /\ Traced' /\ ListSound' /\ list' \in Seq(Maps)
             /\ marked \subseteq marked' /\ marked' \subseteq Objects /\ todo' \subseteq marked'
  <2>1. UNCHANGED <<collecting, live, list>> /\ phase # "js"
    BY <1>1, <1>2 DEF Going, heapVars
  <2>2. MarksSound' /\ Traced'
    BY <1>2, <2>1, MarkStep
  <2>3. ListSound' /\ list' \in Seq(Maps)
    BY <1>2, <2>1 DEF ListSound, Typed
  <2>4. marked \subseteq marked' /\ marked' \subseteq Objects /\ todo' \subseteq marked'
    BY <1>2, Types DEF Mark, Dead
  <2> QED
    BY <2>2, <2>3, <2>4
<1>3. ASSUME UNCHANGED <<marked, todo, list>>
      PROVE  Mark({}) /\ list' = list
  BY <1>3 DEF Mark
<1>4. CASE \E o \in Objects : Trace(o)
  BY <1>4, TraceStep
<1>5. CASE EndMark \/ Drained \/ PassMarked \/ PassDone \/ MarkingDone
  <2>1. UNCHANGED <<marked, todo, list>>
    BY <1>5 DEF EndMark, Drained, PassMarked, PassDone, MarkingDone
  <2> QED
    BY <1>2, <1>3, <2>1
<1>6. CASE WatchPass \/ MapPass \/ DebugPass
  <2>1. \E os \in SUBSET live : Mark(os) /\ list' = list
    BY <1>6, PassMarks DEF Visit
  <2> QED
    BY <1>2, <2>1
<1>7. CASE MarkGray
  <2>1. GrayRoots \in SUBSET live /\ Mark(GrayRoots) /\ list' = list
    BY <1>7 DEF MarkGray, LiveClosed
  <2> QED
    BY <1>2, <2>1
<1> QED
  BY <1>4, <1>5, <1>6, <1>7 DEF Steps

-----------------------------------------------------------------------------
(* The sweep.                                                               *)

\* When the marking is done, what is not white is closed: no pass has anything
\* left to mark.
LEMMA SurvivorsClosed ==
  ASSUME WeakMarkingAssumption, IndInv, phase = "sweep"
  PROVE  roots \cup GrayRoots \subseteq Survivors /\ Closed(Survivors)
<1> USE DEF IndInv
<1>1. /\ phase # "js" /\ ~markedAny /\ gray /\ todo = {}
      /\ WatchDone /\ MapsDone /\ DebugDone
  BY DEF Passes, GrayMarked
<1>2. /\ \A e \in WatchEntries : Satisfied(VisitWatch(e))
      /\ \A e \in Listed : Satisfied(VisitMap(e))
      /\ \A e \in debuggees : Satisfied(VisitDebuggee(e))
  BY <1>1 DEF WatchDone, MapsDone, DebugDone
<1>3. Survivors \subseteq Objects /\ \A o \in Survivors : o \in marked \cup Outside
  BY Types DEF Survivors, Dead, Outside
<1>4. marked \cup Outside \subseteq Survivors
  BY <1>1 DEF Survivors, Dead, Outside, MarksSound
<1>5. EdgesIn(Survivors)
  <2>1. \A o \in Survivors : Edges[o] \subseteq live
    BY DEF Survivors, LiveClosed, Closed, EdgesIn
  <2>2. \A o \in Survivors : \A p \in Edges[o] : ~Dead(p)
    BY <1>1, <1>3 DEF Traced
  <2> QED
    BY <2>1, <2>2 DEF EdgesIn, Survivors
<1>6. EntriesIn(Survivors)
  <2> SUFFICES ASSUME NEW m \in Maps, NEW e \in weak[m], m \in Survivors, e[1] \in Survivors
               PROVE  e[2] \in Survivors
    BY DEF EntriesIn
  <2>1. e[2] \in live
    BY DEF Survivors, ReferentsLive
  <2>2. CASE CompOf[m] \notin collecting
    BY <2>1, <2>2 DEF Local, Survivors, Dead
  <2>3. CASE CompOf[m] \in collecting
    <3>1. m \in marked
      BY <2>3 DEF Survivors, Dead
    <3>2. Contains(list, m)
      BY <1>1, <3>1, ContainsIsIn DEF Traced, Typed
    <3> DEFINE x == <<m, e[1], e[2]>>
    <3>3. x \in Listed
      BY <3>2 DEF Listed, Entries
    <3>4. ~Dead(x[2])
      BY DEF Survivors
    <3>5. ~Dead(x[3])
      BY <1>2, <3>3, <3>4 DEF Satisfied, VisitMap
    <3> QED
      BY <2>1, <3>5 DEF Survivors
  <2> QED
    BY <2>2, <2>3
<1>7. \A o \in DOMAIN watch : o \in Survivors \cup held => {o, watch[o]} \subseteq Survivors
  <2> SUFFICES ASSUME NEW o \in DOMAIN watch, o \in Survivors \cup held
               PROVE  {o, watch[o]} \subseteq Survivors
    OBVIOUS
  <2>1. {o, watch[o]} \subseteq live
    BY DEF WatchpointsLive
  <2>2. CASE CompOf[o] \notin collecting
    BY <2>1, <2>2 DEF Local, Survivors, Dead
  <2>3. CASE CompOf[o] \in collecting
    <3> DEFINE e == <<o, watch[o]>>
    <3>1. e \in WatchEntries
      BY <2>3 DEF WatchEntries
    <3>2. ~Dead(e[1]) \/ e[1] \in held
      BY DEF Survivors
    <3>3. ~Dead(e[1]) /\ ~Dead(e[2])
      BY <1>2, <3>1, <3>2 DEF Satisfied, VisitWatch
    <3> QED
      BY <2>1, <3>3 DEF Survivors
  <2> QED
    BY <2>2, <2>3
<1>8. ClosuresIn(Survivors) /\ HeldIn(Survivors)
  BY <1>7 DEF ClosuresIn, HeldIn
<1>9. DebuggersIn(Survivors)
  <2>1. ASSUME NEW g \in debuggees, g[1] \in Survivors, g[2] \in enabled,
               g[2] \in Hooks \/ \E b \in armed : b[1] = g[2] /\ b[2] \in Survivors
        PROVE  g[2] \in Survivors
    <3>1. g[2] \in live /\ ~Dead(g[1])
      BY <2>1 DEF ReferentsLive, Survivors
    <3>2. LiveHooks(g[2])
      BY <2>1 DEF LiveHooks, Survivors
    <3>3. ~Dead(g[2])
      <4>1. CASE CompOf[g[2]] \notin collecting
        BY <4>1 DEF Dead
      <4>2. CASE CompOf[g[2]] \in collecting
        BY <1>2, <3>1, <3>2, <4>2 DEF Satisfied, VisitDebuggee
      <4> QED
        BY <4>1, <4>2
    <3> QED
      BY <3>1, <3>3 DEF Survivors
  <2>2. ASSUME NEW b \in armed, b[1] \in Survivors, b[2] \in Survivors,
               NEW g \in debuggees, g[1] \in Survivors, g[2] = b[1]
        PROVE  b[3] \in Survivors
    <3>1. b[3] \in live
      BY <2>2 DEF LiveClosed, Closed, DebuggersIn, Survivors
    <3>2. ~Dead(g[1]) /\ ~Dead(g[2]) /\ ~Dead(b[2])
      BY <2>2 DEF Survivors
    <3>3. ~Dead(b[3])
      <4>1. CASE CompOf[b[1]] \notin collecting
        BY <4>1, Types DEF Dead
      <4>2. CASE CompOf[b[1]] \in collecting
        BY <1>2, <2>2, <3>2, <4>2 DEF Satisfied, VisitDebuggee
      <4> QED
        BY <4>1, <4>2
    <3> QED
      BY <3>1, <3>3 DEF Survivors
  <2> QED
    BY <2>1, <2>2 DEF DebuggersIn
<1>10. Closed(Survivors)
  BY <1>5, <1>6, <1>8, <1>9 DEF Closed
<1>11. roots \subseteq Survivors
  BY <1>1, <1>3, <1>4, <1>10 DEF Covered, Closed, ScriptClosed
<1>12. GrayRoots \subseteq Survivors
  BY <1>1 DEF GrayMarked, LiveClosed, Survivors
<1> QED
  BY <1>10, <1>11, <1>12

\* Each table with fewer entries keeps less alive.
LEMMA SweepStep ==
  ASSUME WeakMarkingAssumption, IndInv, Sweep
  PROVE  LiveClosed' /\ Local' /\ WatchpointsLive' /\ ReferentsLive' /\ ListSound'
<1> USE DEF IndInv
<1>1. /\ phase = "sweep" /\ phase # "js"
      /\ live' = Survivors
      /\ weak' = [m \in Maps |-> SweepMap(m)]
      /\ watch' = Restrict(watch, {o \in DOMAIN watch : ~Dead(o)})
      /\ debuggees' = {g \in debuggees : ~Dead(g[1]) /\ ~Dead(g[2])}
      /\ armed' = SweepBreakpoints
      /\ UNCHANGED <<roots, held, enabled, marked, list>>
  BY DEF Sweep, Survivors
<1>2. roots \cup GrayRoots \subseteq Survivors /\ Closed(Survivors)
  BY <1>1, SurvivorsClosed
<1>3. \A m \in Maps : weak'[m] \subseteq weak[m]
  BY <1>1 DEF SweepMap
<1>4. /\ DOMAIN watch' = {o \in DOMAIN watch : ~Dead(o)}
      /\ \A o \in DOMAIN watch' : watch'[o] = watch[o]
  BY <1>1 DEF Restrict
<1>5. debuggees' \subseteq debuggees /\ armed' \subseteq armed
  BY <1>1 DEF SweepBreakpoints
<1>6. LiveClosed'
  <2>1. EdgesIn(live)'
    BY <1>1, <1>2 DEF Closed, EdgesIn
  <2>2. EntriesIn(live)'
    BY <1>1, <1>2, <1>3 DEF Closed, EntriesIn
  <2>3. ClosuresIn(live)' /\ HeldIn(live)'
    BY <1>1, <1>2, <1>4 DEF Closed, ClosuresIn, HeldIn
  <2>4. DebuggersIn(live)'
    <3>1. ASSUME NEW g \in debuggees', g[1] \in live', g[2] \in enabled',
                 g[2] \in Hooks \/ \E b \in armed' : b[1] = g[2] /\ b[2] \in live'
          PROVE  g[2] \in live'
      BY <1>1, <1>2, <1>5, <3>1 DEF Closed, DebuggersIn
    <3>2. ASSUME NEW b \in armed', b[1] \in live', b[2] \in live',
                 \E g \in debuggees' : g[1] \in live' /\ g[2] = b[1]
          PROVE  b[3] \in live'
      BY <1>1, <1>2, <1>5, <3>2 DEF Closed, DebuggersIn
    <3> QED
      BY <3>1, <3>2 DEF DebuggersIn
  <2> QED
    BY <1>1, <1>2, <2>1, <2>2, <2>3, <2>4 DEF LiveClosed, Closed
<1>7. Local'
  BY <1>1, <1>3, <1>4 DEF Local
<1>8. WatchpointsLive'
  <2>1. \A o \in DOMAIN watch' : {o, watch'[o]} \subseteq live'
    BY <1>1, <1>2, <1>4 DEF WatchpointsLive, Survivors, Closed, ClosuresIn
  <2>2. held' \subseteq DOMAIN watch'
    BY <1>1, <1>2, <1>4 DEF WatchpointsLive, Survivors, Local
  <2> QED
    BY <2>1, <2>2 DEF WatchpointsLive
<1>9. ReferentsLive'
  <2>1. ASSUME NEW m \in Maps, m \in live', NEW e \in weak'[m]
        PROVE  e[2] \in live'
    <3>1. e \in weak[m] /\ m \in live /\ ~Dead(m) /\ e[2] \in live
      BY <1>1, <1>3, <2>1 DEF Survivors, ReferentsLive
    <3>2. CASE CompOf[m] \notin collecting
      BY <1>1, <3>1, <3>2 DEF Survivors, Dead, Local
    <3>3. CASE CompOf[m] \in collecting
      <4>1. m \in marked /\ todo = {}
        BY <1>1, <3>1, <3>3 DEF Dead, Passes
      <4>2. Contains(list, m)
        BY <1>1, <4>1, ContainsIsIn DEF Traced, Typed
      <4>3. ~Dead(e[1])
        BY <1>1, <2>1, <4>2 DEF SweepMap
      <4> DEFINE x == <<m, e[1], e[2]>>
      <4>4. x \in Listed
        BY <3>1, <4>2 DEF Listed, Entries
      <4>5. ~Dead(x[3])
        <5>1. x[2] = e[1] /\ x[3] = e[2]
          OBVIOUS
        <5>2. Satisfied(VisitMap(x))
          BY <1>1, <4>4 DEF Passes, MapsDone
        <5> QED
          BY <4>3, <5>1, <5>2 DEF Satisfied, VisitMap
      <4> QED
        BY <1>1, <3>1, <4>5 DEF Survivors
    <3> QED
      BY <3>2, <3>3
  <2>2. \A g \in debuggees' : {g[1], g[2]} \subseteq live'
    BY <1>1 DEF ReferentsLive, Survivors
  <2>3. \A b \in armed' : b[2] \in live'
    BY <1>1 DEF ReferentsLive, Survivors, SweepBreakpoints, Dead
  <2> QED
    BY <2>1, <2>2, <2>3 DEF ReferentsLive
<1>10. ListSound'
  BY <1>1 DEF ListSound, MarksSound, Survivors, Dead
<1> QED
  BY <1>6, <1>7, <1>8, <1>9, <1>10

-----------------------------------------------------------------------------
(* The script.                                                              *)

\* The entries of a map in which one has been put.
LEMMA PutEntries ==
  ASSUME WeakMarkingAssumption, Typed, NEW m \in Maps, NEW k, NEW v, Put(m, k, v)
  PROVE  /\ \A n \in Maps : \A e \in weak'[n] : e \in weak[n] \/ (n = m /\ e = <<k, v>>)
         /\ \A n \in Maps : \A e \in weak[n] : e \in weak'[n] \/ (n = m /\ e[1] = k)
<1>1. weak \in [Maps -> SUBSET (Objects \X Objects)]
  BY DEF Typed, TypeOK
<1>2. weak' = [weak EXCEPT ![m] = {e \in @ : e[1] # k} \cup {<<k, v>>}]
  BY DEF Put
<1>3. weak'[m] = {e \in weak[m] : e[1] # k} \cup {<<k, v>>}
  BY <1>1, <1>2
<1>4. \A n \in Maps : n # m => weak'[n] = weak[n]
  BY <1>1, <1>2
<1> QED
  BY <1>3, <1>4

\* The entries of a map from which one has been removed.
LEMMA DeleteEntries ==
  ASSUME WeakMarkingAssumption, Typed, NEW m \in Maps, NEW x,
         weak' = [weak EXCEPT ![m] = @ \ {x}]
  PROVE  /\ \A n \in Maps : weak'[n] \subseteq weak[n]
         /\ \A n \in Maps : \A e \in weak[n] : e \in weak'[n] \/ (n = m /\ e = x)
<1>1. weak \in [Maps -> SUBSET (Objects \X Objects)]
  BY DEF Typed, TypeOK
<1>2. weak'[m] = weak[m] \ {x}
  BY <1>1
<1>3. \A n \in Maps : n # m => weak'[n] = weak[n]
  BY <1>1
<1> QED
  BY <1>2, <1>3

\* The script does not leave a set that keeps nothing else alive.
LEMMA MutatorStays ==
  ASSUME WeakMarkingAssumption, Typed, Mutator,
         NEW K \in SUBSET Objects, roots \subseteq K, Closed(K)
  PROVE  roots' \subseteq K /\ Closed(K)'
<1> USE DEF Closed
<1>1. EdgesIn(K)'
  BY DEF EdgesIn
<1> DEFINE Done == /\ roots' \subseteq K
                   /\ EntriesIn(K)' /\ ClosuresIn(K)' /\ HeldIn(K)' /\ DebuggersIn(K)'
<1>2. ASSUME UNCHANGED weak PROVE EntriesIn(K)'
  BY <1>2 DEF EntriesIn
<1>3. ASSUME UNCHANGED <<watch, held>> PROVE ClosuresIn(K)' /\ HeldIn(K)'
  BY <1>3 DEF ClosuresIn, HeldIn
<1>4. ASSUME UNCHANGED debugVars PROVE DebuggersIn(K)'
  BY <1>4 DEF DebuggersIn, debugVars
<1>5. ASSUME NEW g \in debuggees, RemoveDebuggee(g) PROVE Done
  <2>1. UNCHANGED <<roots, weak, watch, held, enabled, armed>> /\ debuggees' \subseteq debuggees
    BY <1>5 DEF RemoveDebuggee
  <2>2. DebuggersIn(K)'
    BY <2>1 DEF DebuggersIn
  <2> QED
    BY <1>2, <1>3, <2>1, <2>2
<1>6. ASSUME NEW o \in Objects, Hold(o) PROVE Done
  <2>1. roots' \subseteq K
    BY <1>6 DEF Hold, EdgesIn
  <2> QED
    BY <1>2, <1>3, <1>4, <1>6, <2>1 DEF Hold
<1>7. ASSUME NEW o \in Objects, Forget(o) PROVE Done
  BY <1>2, <1>3, <1>4, <1>7 DEF Forget
<1>8. ASSUME NEW o \in Objects, SetEnabled(o) PROVE Done
  <2>1. /\ UNCHANGED <<roots, weak, watch, held, debuggees, armed>> /\ o \in K
        /\ enabled' \subseteq enabled \cup {o}
    BY <1>8 DEF SetEnabled
  <2>2. DebuggersIn(K)'
    BY <2>1 DEF DebuggersIn
  <2> QED
    BY <1>2, <1>3, <2>1, <2>2
<1>9. ASSUME NEW o \in Objects, Trigger(o) PROVE Done
  <2>1. roots' \subseteq K /\ held' = held \cup {o} /\ watch' = watch /\ o \in K
    BY <1>9 DEF Trigger, ClosuresIn
  <2>2. ClosuresIn(K)' /\ HeldIn(K)'
    BY <2>1 DEF ClosuresIn, HeldIn
  <2> QED
    BY <1>2, <1>4, <1>9, <2>1, <2>2 DEF Trigger
<1>10. ASSUME NEW o \in Objects, HandlerReturns(o) PROVE Done
  <2>1. ClosuresIn(K)' /\ HeldIn(K)'
    BY <1>10 DEF HandlerReturns, ClosuresIn, HeldIn
  <2> QED
    BY <1>2, <1>4, <1>10, <2>1 DEF HandlerReturns
<1>11. ASSUME NEW m \in Maps, NEW o \in Objects, WeakMapGet(m, o) PROVE Done
  <2>1. PICK e \in weak[m] : e[1] = Unwrap(o) /\ roots' = roots \cup {e[2]}
    BY <1>11 DEF WeakMapGet
  <2>2. e[2] \in K
    BY <1>11, <2>1, ValueReachable DEF WeakMapGet, Reachable, ScriptClosed
  <2> QED
    BY <1>2, <1>3, <1>4, <1>11, <2>1, <2>2 DEF WeakMapGet
<1>12. ASSUME NEW o \in Objects, Unwatch(o) PROVE Done
  <2>1. DOMAIN watch' = DOMAIN watch \ {o} /\ \A p \in DOMAIN watch' : watch'[p] = watch[p]
    BY <1>12 DEF Unwatch, Restrict
  <2>2. ClosuresIn(K)' /\ HeldIn(K)'
    BY <1>12, <2>1 DEF Unwatch, ClosuresIn, HeldIn
  <2> QED
    BY <1>2, <1>4, <1>12, <2>2 DEF Unwatch
<1>13. ASSUME NEW o \in Objects, NEW c \in Objects, Watch(o, c) PROVE Done
  <2>1. /\ DOMAIN watch' = DOMAIN watch \cup {o} /\ watch'[o] = c /\ c \in K
        /\ \A p \in DOMAIN watch' : p # o => watch'[p] = watch[p]
    BY <1>13 DEF Watch
  <2>2. ClosuresIn(K)' /\ HeldIn(K)'
    BY <1>13, <2>1 DEF Watch, ClosuresIn, HeldIn
  <2> QED
    BY <1>2, <1>4, <1>13, <2>2 DEF Watch
<1>14. ASSUME NEW m \in Maps, NEW o \in Objects, WeakMapDelete(m, o) PROVE Done
  <2>1. \A n \in Maps : weak'[n] \subseteq weak[n]
    BY <1>14, DeleteEntries DEF WeakMapDelete
  <2>2. EntriesIn(K)'
    BY <2>1 DEF EntriesIn
  <2> QED
    BY <1>3, <1>4, <1>14, <2>2 DEF WeakMapDelete
<1>15. ASSUME NEW m \in Maps, NEW v \in Objects, NEW o \in Objects, WeakMapSet(m, o, v) PROVE Done
  <2>1. v \in K /\ Put(m, Unwrap(o), v)
    BY <1>15 DEF WeakMapSet
  <2>2. \A n \in Maps : \A e \in weak'[n] : e \in weak[n] \/ (n = m /\ e = <<Unwrap(o), v>>)
    BY <2>1, PutEntries
  <2>3. EntriesIn(K)'
    BY <2>1, <2>2 DEF EntriesIn
  <2> QED
    BY <1>3, <1>4, <1>15, <2>3 DEF WeakMapSet
<1> HIDE DEF Done
<1>16. Done
  BY <1>5, <1>6, <1>7, <1>8, <1>9, <1>10, <1>11, <1>12, <1>13, <1>14, <1>15 DEF Mutator
<1> QED
  BY <1>1, <1>16 DEF Done

\* Compartments, watchpoints and what entries and debuggers refer to.
LEMMA MutatorHeap ==
  ASSUME WeakMarkingAssumption, Typed, LiveClosed, Local, WatchpointsLive, ReferentsLive, Mutator
  PROVE  LiveClosed' /\ Local' /\ WatchpointsLive' /\ ReferentsLive'
<1>1. live' = live
  BY MutatorMarks
<1>2. roots' \subseteq live /\ Closed(live)'
  <2>1. live \in SUBSET Objects /\ roots \subseteq live /\ Closed(live)
    BY Types DEF LiveClosed
  <2>2. \A K \in SUBSET Objects : roots \subseteq K /\ Closed(K) => roots' \subseteq K
    BY MutatorStays
  <2>3. /\ EdgesIn(live)' /\ EntriesIn(live)' /\ ClosuresIn(live)' /\ HeldIn(live)'
        /\ DebuggersIn(live)'
    <3>1. ASSUME NEW K \in SUBSET Objects, K = live
          PROVE  EdgesIn(K)' /\ EntriesIn(K)' /\ ClosuresIn(K)' /\ HeldIn(K)' /\ DebuggersIn(K)'
      BY <2>1, <3>1, MutatorStays DEF Closed
    <3>2. PICK K \in SUBSET Objects : K = live
      BY <2>1
    <3> QED
      BY <1>1, <3>1, <3>2 DEF EdgesIn, EntriesIn, ClosuresIn, HeldIn, DebuggersIn
  <2> QED
    BY <2>1, <2>2, <2>3 DEF Closed
<1>3. LiveClosed'
  BY <1>1, <1>2 DEF LiveClosed
<1> DEFINE Done == Local' /\ WatchpointsLive' /\ ReferentsLive'
<1> USE DEF LiveClosed
<1>4. ASSUME UNCHANGED weak, debuggees' \subseteq debuggees, armed' = armed
      PROVE  ReferentsLive' /\ \A m \in Maps : \A e \in weak'[m] : CompOf[e[2]] = CompOf[m]
  BY <1>1, <1>4 DEF ReferentsLive, Local
<1>5. ASSUME UNCHANGED watch, held' \subseteq held
      PROVE  WatchpointsLive' /\ \A o \in DOMAIN watch' : CompOf[watch'[o]] = CompOf[o]
  BY <1>1, <1>5 DEF WatchpointsLive, Local
<1>6. ASSUME NEW g \in debuggees, RemoveDebuggee(g) PROVE Done
  BY <1>4, <1>5, <1>6 DEF RemoveDebuggee, Local
<1>7. ASSUME NEW o \in Objects, Hold(o) PROVE Done
  BY <1>4, <1>5, <1>7 DEF Hold, Local, debugVars
<1>8. ASSUME NEW o \in Objects, Forget(o) PROVE Done
  BY <1>4, <1>5, <1>8 DEF Forget, Local, debugVars
<1>9. ASSUME NEW o \in Objects, SetEnabled(o) PROVE Done
  BY <1>4, <1>5, <1>9 DEF SetEnabled, Local
<1>10. ASSUME NEW o \in Objects, HandlerReturns(o) PROVE Done
  BY <1>4, <1>5, <1>10 DEF HandlerReturns, Local, debugVars
<1>11. ASSUME NEW m \in Maps, NEW o \in Objects, WeakMapGet(m, o) PROVE Done
  <2>1. roots \subseteq roots'
    BY <1>11 DEF WeakMapGet
  <2> QED
    BY <1>4, <1>5, <1>11, <2>1 DEF WeakMapGet, Local, debugVars
<1>12. ASSUME NEW o \in Objects, Trigger(o) PROVE Done
  <2>1. WatchpointsLive'
    BY <1>1, <1>12 DEF Trigger, WatchpointsLive
  <2>2. Local'
    BY <1>12 DEF Trigger, Local
  <2> QED
    BY <1>4, <1>12, <2>1, <2>2 DEF Trigger, debugVars
<1>13. ASSUME NEW o \in Objects, Unwatch(o) PROVE Done
  <2>1. DOMAIN watch' = DOMAIN watch \ {o} /\ \A p \in DOMAIN watch' : watch'[p] = watch[p]
    BY <1>13 DEF Unwatch, Restrict
  <2>2. WatchpointsLive'
    BY <1>1, <1>13, <2>1 DEF Unwatch, WatchpointsLive
  <2>3. Local'
    BY <1>13, <2>1 DEF Unwatch, Local
  <2> QED
    BY <1>4, <1>13, <2>2, <2>3 DEF Unwatch, debugVars
<1>14. ASSUME NEW o \in Objects, NEW c \in Objects, Watch(o, c) PROVE Done
  <2>1. /\ DOMAIN watch' = DOMAIN watch \cup {o} /\ watch'[o] = c /\ {o, c} \subseteq roots
        /\ \A p \in DOMAIN watch' : p # o => watch'[p] = watch[p]
        /\ CompOf[o] = CompOf[c] /\ held' = held \ {o} /\ roots' = roots
        /\ weak' = weak /\ debuggees' = debuggees /\ armed' = armed
    BY <1>14 DEF Watch, debugVars
  <2>2. WatchpointsLive'
    BY <1>1, <2>1 DEF WatchpointsLive
  <2>3. Local'
    BY <2>1 DEF Local
  <2> QED
    BY <1>4, <2>1, <2>2, <2>3
<1>15. ASSUME NEW m \in Maps, NEW o \in Objects, WeakMapDelete(m, o) PROVE Done
  <2>1. \A n \in Maps : weak'[n] \subseteq weak[n]
    BY <1>15, DeleteEntries DEF WeakMapDelete
  <2>2. UNCHANGED <<roots, watch, held, debuggees, armed>>
    BY <1>15 DEF WeakMapDelete, debugVars
  <2>3. Local'
    BY <2>1, <2>2 DEF Local
  <2>4. ReferentsLive'
    BY <1>1, <2>1, <2>2 DEF ReferentsLive
  <2> QED
    BY <1>5, <2>2, <2>3, <2>4
<1>16. ASSUME NEW m \in Maps, NEW v \in Objects, NEW o \in Objects, WeakMapSet(m, o, v) PROVE Done
  <2>1. /\ v \in roots /\ Put(m, Unwrap(o), v) /\ CompOf[v] = CompOf[m]
        /\ UNCHANGED <<roots, watch, held, debuggees, armed>>
    BY <1>16 DEF WeakMapSet, debugVars
  <2>2. \A n \in Maps : \A e \in weak'[n] : e \in weak[n] \/ (n = m /\ e = <<Unwrap(o), v>>)
    BY <2>1, PutEntries
  <2>3. Local'
    BY <2>1, <2>2 DEF Local
  <2>4. ReferentsLive'
    BY <1>1, <2>1, <2>2 DEF ReferentsLive
  <2> QED
    BY <1>5, <2>1, <2>3, <2>4
<1> HIDE DEF Done
<1>17. Done
  BY <1>6, <1>7, <1>8, <1>9, <1>10, <1>11, <1>12, <1>13, <1>14, <1>15, <1>16 DEF Mutator
<1> QED
  BY <1>3, <1>17 DEF Done

\* The barriers: what is taken out of a table during a collection is marked, so
\* that nothing the script holds is out of the marker's reach.
LEMMA MutatorCovered ==
  ASSUME WeakMarkingAssumption, Typed, LiveClosed, WatchpointsLive, ReferentsLive, Covered, Mutator
  PROVE  Covered'
<1> SUFFICES ASSUME phase' # "js", NEW K \in SUBSET Objects,
                    marked' \cup Outside' \subseteq K, ScriptClosed(K)'
             PROVE  roots' \subseteq K
  BY DEF Covered
<1>1. /\ UNCHANGED <<live, collecting>> /\ phase # "js"
      /\ \E os : Mark(os)
  BY MutatorMarks
<1>2. marked \cup Outside \subseteq K
  BY <1>1 DEF Mark, Outside
<1>3. EdgesIn(K) /\ EntriesIn(K)' /\ ClosuresIn(K)'
  BY DEF ScriptClosed, EdgesIn
<1>4. ASSUME NEW os, Mark(os), NEW x \in os, x \in live PROVE x \in K
  BY <1>1, <1>4 DEF Mark, Outside
<1>5. ScriptClosed(K) => roots \subseteq K
  BY <1>1, <1>2 DEF Covered
<1>6. UNCHANGED weak => EntriesIn(K)
  BY <1>3 DEF EntriesIn
<1>7. UNCHANGED watch => ClosuresIn(K)
  BY <1>3 DEF ClosuresIn
<1>8. ASSUME UNCHANGED <<weak, watch>> PROVE roots \subseteq K /\ ScriptClosed(K)
  BY <1>3, <1>5, <1>6, <1>7, <1>8 DEF ScriptClosed
<1> DEFINE Done == roots' \subseteq K
<1>9. ASSUME NEW g \in debuggees, RemoveDebuggee(g) PROVE Done
  BY <1>8, <1>9 DEF RemoveDebuggee
<1>10. ASSUME NEW o \in Objects, Hold(o) PROVE Done
  BY <1>3, <1>8, <1>10 DEF Hold, EdgesIn
<1>11. ASSUME NEW o \in Objects, Forget(o) PROVE Done
  BY <1>8, <1>11 DEF Forget
<1>12. ASSUME NEW o \in Objects, SetEnabled(o) PROVE Done
  BY <1>8, <1>12 DEF SetEnabled
<1>13. ASSUME NEW o \in Objects, Trigger(o) PROVE Done
  BY <1>8, <1>13 DEF Trigger, ScriptClosed, ClosuresIn
<1>14. ASSUME NEW o \in Objects, HandlerReturns(o) PROVE Done
  BY <1>8, <1>14 DEF HandlerReturns
<1>15. ASSUME NEW m \in Maps, NEW o \in Objects, WeakMapGet(m, o) PROVE Done
  <2>1. roots \subseteq K /\ ScriptClosed(K)
    BY <1>8, <1>15 DEF WeakMapGet
  <2>2. PICK e \in weak[m] : e[1] = Unwrap(o) /\ roots' = roots \cup {e[2]}
    BY <1>15 DEF WeakMapGet
  <2>3. e[2] \in K
    BY <1>15, <2>1, <2>2, ValueReachable DEF WeakMapGet, Reachable
  <2> QED
    BY <2>1, <2>2, <2>3
<1>16. ASSUME NEW o \in Objects, Unwatch(o) PROVE Done
  <2>1. /\ o \in DOMAIN watch /\ DOMAIN watch' = DOMAIN watch \ {o}
        /\ \A p \in DOMAIN watch' : watch'[p] = watch[p]
    BY <1>16 DEF Unwatch, Restrict
  <2>2. watch[o] \in K
    BY <1>4, <1>16, <2>1 DEF Unwatch, PreBarrier, WatchpointsLive
  <2>3. ClosuresIn(K)
    BY <1>3, <2>1, <2>2 DEF ClosuresIn
  <2> QED
    BY <1>3, <1>5, <1>6, <1>16, <2>3 DEF Unwatch, ScriptClosed
<1>17. ASSUME NEW o \in Objects, NEW c \in Objects, Watch(o, c) PROVE Done
  <2>1. /\ DOMAIN watch' = DOMAIN watch \cup {o}
        /\ \A p \in DOMAIN watch' : p # o => watch'[p] = watch[p]
    BY <1>17 DEF Watch
  <2>2. o \in DOMAIN watch => watch[o] \in K
    BY <1>4, <1>17 DEF Watch, PreBarrier, WatchpointsLive
  <2>3. ClosuresIn(K)
    BY <1>3, <2>1, <2>2 DEF ClosuresIn
  <2> QED
    BY <1>3, <1>5, <1>6, <1>17, <2>3 DEF Watch, ScriptClosed
<1>18. ASSUME NEW m \in Maps, NEW o \in Objects, WeakMapDelete(m, o) PROVE Done
  <2>1. PICK x \in weak[m] : /\ weak' = [weak EXCEPT ![m] = @ \ {x}]
                             /\ Mark({x[1], x[2]}) /\ m \in roots
    BY <1>18 DEF WeakMapDelete, PreBarrier
  <2>2. \A n \in Maps : \A e \in weak[n] : e \in weak'[n] \/ (n = m /\ e = x)
    BY <2>1, DeleteEntries
  <2>3. x[2] \in K
    BY <1>4, <2>1 DEF ReferentsLive, LiveClosed
  <2>4. EntriesIn(K)
    BY <1>3, <2>2, <2>3 DEF EntriesIn
  <2> QED
    BY <1>3, <1>5, <1>7, <1>18, <2>4 DEF WeakMapDelete, ScriptClosed
<1>19. ASSUME NEW m \in Maps, NEW v \in Objects, NEW o \in Objects, WeakMapSet(m, o, v) PROVE Done
  <2>1. Put(m, Unwrap(o), v) /\ m \in roots
    BY <1>19 DEF WeakMapSet
  <2>2. \A n \in Maps : \A e \in weak[n] : e \in weak'[n] \/ (n = m /\ e[1] = Unwrap(o))
    BY <2>1, PutEntries
  <2>3. \A e \in weak[m] : e[1] = Unwrap(o) => e[2] \in K
    BY <1>4, <2>1 DEF Put, PreBarrier, ReferentsLive, LiveClosed
  <2>4. EntriesIn(K)
    BY <1>3, <2>2, <2>3 DEF EntriesIn
  <2> QED
    BY <1>3, <1>5, <1>7, <1>19, <2>4 DEF WeakMapSet, ScriptClosed
<1> HIDE DEF Done
<1>20. Done
  BY <1>9, <1>10, <1>11, <1>12, <1>13, <1>14, <1>15, <1>16, <1>17, <1>18, <1>19 DEF Mutator
<1> QED
  BY <1>20 DEF Done

-----------------------------------------------------------------------------
(* The passes.                                                              *)

\* A step of a pass either marks something, and says so, or changes nothing
\* but what is left to visit.
LEMMA VisitKeepsPasses ==
  ASSUME WeakMarkingAssumption, Typed, LiveClosed, MarksSound, ReferentsLive, WatchpointsLive,
         Passes, WatchPass \/ MapPass \/ DebugPass
  PROVE  Passes'
<1>1. PICK e \in visit, os \in SUBSET live :
            /\ Visit(e, os)
            /\ phase \in {"watch", "maps", "debug"}
            /\ phase = "watch" => e \in WatchEntries /\ os = VisitWatch(e)
            /\ phase = "maps" => e \in Listed /\ os = VisitMap(e)
            /\ phase = "debug" => e \in debuggees /\ os = VisitDebuggee(e)
  BY PassMarks
<1>2. UNCHANGED <<heapVars, list, collecting, phase>> /\ visit' = visit \ {e}
  BY <1>1 DEF Visit
<1>3. WatchEntries' = WatchEntries /\ Listed' = Listed
  BY <1>2 DEF heapVars, WatchEntries, Listed, Entries
<1>4. CASE markedAny'
  BY <1>1, <1>2, <1>3, <1>4 DEF Passes, heapVars, debugVars
<1>5. CASE ~markedAny'
  <2>1. ~markedAny /\ Satisfied(os)
    BY <1>1, <1>5 DEF Visit, Satisfied
  <2>2. marked' = marked /\ todo' = todo
    BY <1>1, <2>1 DEF Visit, Mark, Satisfied, Dead
  <2>3. \A o : Dead(o)' <=> Dead(o)
    BY <1>2, <2>2 DEF Dead
  <2>4. /\ \A x \in WatchEntries : Satisfied(VisitWatch(x)) => Satisfied(VisitWatch(x))'
        /\ \A x \in Listed : Satisfied(VisitMap(x)) => Satisfied(VisitMap(x))'
    BY <1>2, <2>3 DEF Satisfied, VisitWatch, VisitMap, heapVars
  <2>5. \A x \in debuggees : Satisfied(VisitDebuggee(x)) => Satisfied(VisitDebuggee(x))'
    BY <1>2, <2>3 DEF Satisfied, VisitDebuggee, LiveHooks, heapVars, debugVars
  <2>6. WatchDone => WatchDone'
    BY <1>1, <1>2, <1>3, <2>1, <2>4 DEF WatchDone
  <2>7. MapsDone => MapsDone'
    BY <1>1, <1>2, <1>3, <2>1, <2>4 DEF MapsDone
  <2>8. DebugDone => DebugDone'
    BY <1>1, <1>2, <2>1, <2>5 DEF DebugDone, heapVars, debugVars
  <2> QED
    BY <1>1, <1>2, <1>3, <1>5, <2>1, <2>2, <2>6, <2>7, <2>8 DEF Passes, heapVars, debugVars
<1> QED
  BY <1>4, <1>5

\* The next pass begins when everything the last one has looked at is satisfied.
LEMMA PassesKept ==
  ASSUME WeakMarkingAssumption, Typed, LiveClosed, MarksSound, ReferentsLive, WatchpointsLive,
         Passes, Next
  PROVE  Passes'
<1>1. ASSUME phase' \in {"js", "mark", "drain"} PROVE Passes'
  BY <1>1 DEF Passes
<1>2. CASE (\E cs \in Collections : BeginMark(cs)) \/ Reset \/ Sweep \/ PassMarked \/ MarkGray
           \/ \E o \in Objects : Trace(o)
  BY <1>1, <1>2 DEF BeginMark, Reset, Sweep, PassMarked, MarkGray, Trace
<1>3. CASE Mutator
  BY <1>1, <1>3, MutatorMarks
<1>4. CASE WatchPass \/ MapPass \/ DebugPass
  BY <1>4, VisitKeepsPasses
<1>5. CASE EndMark \/ Drained
  <2>1. /\ phase' = "watch" /\ visit' = WatchEntries /\ ~markedAny' /\ todo' = {}
        /\ UNCHANGED <<heapVars, collecting>>
    BY <1>5 DEF EndMark, Drained
  <2>2. WatchEntries' = WatchEntries
    BY <2>1 DEF WatchEntries, heapVars
  <2>3. WatchDone'
    BY <2>1, <2>2 DEF WatchDone
  <2> QED
    BY <2>1, <2>2, <2>3 DEF Passes
<1>6. CASE PassDone \/ MarkingDone
  <2>1. /\ visit = {} /\ ~markedAny /\ ~markedAny'
        /\ UNCHANGED <<heapVars, marked, todo, list, collecting>>
        /\ \/ phase = "watch" /\ phase' = "maps" /\ visit' = Listed
           \/ phase = "maps" /\ phase' = "debug" /\ visit' = debuggees
           \/ phase = "debug" /\ phase' = "sweep"
    BY <1>6 DEF PassDone, NextPass, MarkingDone
  <2>2. WatchEntries' = WatchEntries /\ Listed' = Listed /\ debuggees' = debuggees
    BY <2>1 DEF WatchEntries, Listed, Entries, heapVars, debugVars
  <2>3. \A o : Dead(o)' <=> Dead(o)
    BY <2>1 DEF Dead
  <2>4. /\ \A x \in WatchEntries : Satisfied(VisitWatch(x)) => Satisfied(VisitWatch(x))'
        /\ \A x \in Listed : Satisfied(VisitMap(x)) => Satisfied(VisitMap(x))'
    BY <2>1, <2>3 DEF Satisfied, VisitWatch, VisitMap, heapVars
  <2>5. \A x \in debuggees : Satisfied(VisitDebuggee(x)) => Satisfied(VisitDebuggee(x))'
    BY <2>1, <2>3 DEF Satisfied, VisitDebuggee, LiveHooks, heapVars, debugVars
  <2>6. WatchDone => WatchDone'
    BY <2>1, <2>2, <2>4 DEF WatchDone
  <2>7. MapsDone \/ phase = "watch" => MapsDone'
    BY <2>1, <2>2, <2>4 DEF MapsDone
  <2>8. DebugDone \/ phase = "maps" => DebugDone'
    BY <2>1, <2>2, <2>5 DEF DebugDone
  <2> QED
    BY <2>1, <2>2, <2>6, <2>7, <2>8 DEF Passes
<1> QED
  BY <1>2, <1>3, <1>4, <1>5, <1>6 DEF Next, Collector

-----------------------------------------------------------------------------
(* Types and gray roots.                                                    *)

\* The variables of the script's heap, and those of the collection.
HeapTyped ==
    /\ live \subseteq Objects /\ roots \subseteq Objects /\ held \subseteq Objects
    /\ weak \in [Maps -> SUBSET (Objects \X Objects)]
    /\ DOMAIN watch \subseteq Objects /\ \A o \in DOMAIN watch : watch[o] \in Objects
    /\ debuggees \subseteq Debuggees /\ armed \subseteq Breakpoints /\ enabled \subseteq Objects
    /\ ops \in 0..MaxOps

MarkTyped ==
    /\ marked \subseteq Objects /\ todo \subseteq marked /\ (phase = "js" => todo = {})
    /\ list \in Seq(Maps)
    /\ collecting \subseteq Comps /\ (phase = "js" => collecting = {})
    /\ FullOnly /\ phase # "js" => collecting = Comps
    /\ phase \in {"js", "mark", "watch", "maps", "debug", "drain", "sweep"}
    /\ visit # {} => phase \in {"watch", "maps", "debug"}
    /\ markedAny \in BOOLEAN /\ gray \in BOOLEAN

\* The type invariant in two halves.
LEMMA TypedParts ==
  ASSUME Typed
  PROVE  HeapTyped /\ MarkTyped
<1>1. \A o \in DOMAIN watch : watch[o] \in Range(watch)
  BY DEF Range
<1> QED
  BY <1>1 DEF Typed, TypeOK, HeapTyped, MarkTyped

\* And back, for the state after a step.
LEMMA TypedAgain ==
  ASSUME HeapTyped', MarkTyped'
  PROVE  Typed'
<1>1. Range(list)' \subseteq Maps
  BY DEF Range, MarkTyped
<1>2. Range(watch)' \subseteq Objects
  BY DEF Range, HeapTyped
<1> QED
  BY <1>1, <1>2 DEF Typed, TypeOK, HeapTyped, MarkTyped

\* The script keeps the types.
LEMMA MutatorTyped ==
  ASSUME WeakMarkingAssumption, Typed, LiveClosed, Mutator
  PROVE  Typed'
<1>1. HeapTyped /\ MarkTyped
  BY TypedParts
<1>2. /\ UNCHANGED <<live, list, collecting, phase, visit, markedAny, gray>>
      /\ \E os \in SUBSET Objects : Mark(os)
  BY MutatorMarks
<1>3. MarkTyped'
  <2>1. PICK os \in SUBSET Objects : Mark(os)
    BY <1>2
  <2>2. phase = "js" => todo' = {}
    BY <1>1, <2>1 DEF MarkTyped, Mark, Dead
  <2> QED
    BY <1>1, <1>2, <2>1, <2>2 DEF MarkTyped, Mark, Dead
<1>4. roots' \subseteq Objects
  BY MutatorStays, Types DEF LiveClosed
<1> DEFINE Done ==
      /\ held' \subseteq Objects
      /\ weak' \in [Maps -> SUBSET (Objects \X Objects)]
      /\ DOMAIN watch' \subseteq Objects /\ \A o \in DOMAIN watch' : watch'[o] \in Objects
      /\ debuggees' \subseteq Debuggees /\ armed' \subseteq Breakpoints
      /\ enabled' \subseteq Objects
      /\ ops' \in 0..MaxOps
<1> USE <1>1 DEF HeapTyped, debugVars
<1>5. ASSUME Script PROVE ops' \in 0..MaxOps
  BY <1>5 DEF Script, WeakMarkingAssumption
<1>6. ASSUME NEW g \in debuggees, RemoveDebuggee(g) PROVE Done
  BY <1>5, <1>6 DEF RemoveDebuggee
<1>7. ASSUME NEW o \in Objects, Hold(o) PROVE Done
  BY <1>5, <1>7 DEF Hold
<1>8. ASSUME NEW o \in Objects, Forget(o) PROVE Done
  BY <1>5, <1>8 DEF Forget
<1>9. ASSUME NEW o \in Objects, SetEnabled(o) PROVE Done
  BY <1>5, <1>9 DEF SetEnabled
<1>10. ASSUME NEW o \in Objects, Trigger(o) PROVE Done
  BY <1>5, <1>10 DEF Trigger
<1>11. ASSUME NEW o \in Objects, HandlerReturns(o) PROVE Done
  BY <1>5, <1>11 DEF HandlerReturns
<1>12. ASSUME NEW m \in Maps, NEW o \in Objects, WeakMapGet(m, o) PROVE Done
  BY <1>5, <1>12 DEF WeakMapGet
<1>13. ASSUME NEW o \in Objects, Unwatch(o) PROVE Done
  <2>1. DOMAIN watch' = DOMAIN watch \ {o} /\ \A p \in DOMAIN watch' : watch'[p] = watch[p]
    BY <1>13 DEF Unwatch, Restrict
  <2> QED
    BY <1>5, <1>13, <2>1 DEF Unwatch
<1>14. ASSUME NEW o \in Objects, NEW c \in Objects, Watch(o, c) PROVE Done
  BY <1>5, <1>14 DEF Watch
<1>15. ASSUME NEW m \in Maps, NEW o \in Objects, WeakMapDelete(m, o) PROVE Done
  <2>1. PICK x \in weak[m] : weak' = [weak EXCEPT ![m] = @ \ {x}]
    BY <1>15 DEF WeakMapDelete
  <2>2. weak' \in [Maps -> SUBSET (Objects \X Objects)]
    BY <2>1
  <2> QED
    BY <1>5, <1>15, <2>2 DEF WeakMapDelete
<1>16. ASSUME NEW m \in Maps, NEW v \in Objects, NEW o \in Objects, WeakMapSet(m, o, v) PROVE Done
  <2>1. Unwrap(o) \in Objects
    BY UnwrapIn DEF EdgesIn, WeakMarkingAssumption
  <2>2. <<Unwrap(o), v>> \in Objects \X Objects
    BY <2>1
  <2>3. weak' \in [Maps -> SUBSET (Objects \X Objects)]
    BY <1>16, <2>2 DEF WeakMapSet, Put
  <2> QED
    BY <1>5, <1>16, <2>3 DEF WeakMapSet
<1> HIDE DEF Done
<1>17. Done
  BY <1>6, <1>7, <1>8, <1>9, <1>10, <1>11, <1>12, <1>13, <1>14, <1>15, <1>16 DEF Mutator
<1>18. HeapTyped'
  BY <1>2, <1>4, <1>17 DEF Done
<1> QED
  BY <1>3, <1>18, TypedAgain

\* A step of the collection keeps them.
LEMMA StepsTyped ==
  ASSUME WeakMarkingAssumption, Typed, Steps,
         list' \in Seq(Maps), marked' \subseteq Objects, todo' \subseteq marked'
  PROVE  Typed'
<1>1. HeapTyped /\ MarkTyped /\ Going
  BY TypedParts, StepsGo
<1>2. HeapTyped'
  BY <1>1 DEF HeapTyped, Going, heapVars, debugVars
<1> DEFINE Done == /\ phase' \in {"js", "mark", "watch", "maps", "debug", "drain", "sweep"}
                   /\ visit' # {} => phase' \in {"watch", "maps", "debug"}
                   /\ markedAny' \in BOOLEAN /\ gray' \in BOOLEAN
<1> USE <1>1 DEF MarkTyped
<1>3. ASSUME \E o \in Objects : Trace(o) PROVE Done
  BY <1>3 DEF Trace
<1>4. ASSUME EndMark \/ Drained PROVE Done
  BY <1>4 DEF EndMark, Drained
<1>5. ASSUME WatchPass \/ MapPass \/ DebugPass PROVE Done
  <2>1. /\ phase \in {"watch", "maps", "debug"} /\ UNCHANGED <<phase, gray>>
        /\ markedAny' \in BOOLEAN
    <3>1. ASSUME NEW e, NEW os, Visit(e, os)
          PROVE  UNCHANGED <<phase, gray>> /\ markedAny' \in BOOLEAN
      BY <3>1 DEF Visit
    <3> QED
      BY <1>5, <3>1 DEF WatchPass, MapPass, DebugPass
  <2> QED
    BY <2>1
<1>6. ASSUME PassMarked \/ MarkGray \/ MarkingDone PROVE Done
  BY <1>6 DEF PassMarked, MarkGray, MarkingDone
<1>7. ASSUME PassDone PROVE Done
  BY <1>7 DEF PassDone, NextPass
<1> HIDE DEF Done
<1>8. Done
  BY <1>3, <1>4, <1>5, <1>6, <1>7 DEF Steps
<1>9. MarkTyped'
  BY <1>8 DEF Done, Going
<1> QED
  BY <1>2, <1>9, TypedAgain

\* Its beginning, its end and its reset keep them.
LEMMA OthersTyped ==
  ASSUME WeakMarkingAssumption, Typed, LiveClosed, Passes,
         (\E cs \in Collections : BeginMark(cs)) \/ Reset \/ Sweep
  PROVE  Typed'
<1>1. HeapTyped /\ MarkTyped
  BY TypedParts
<1>2. ASSUME NEW cs \in Collections, BeginMark(cs) PROVE Typed'
  <2>1. marked' \subseteq Objects /\ todo' = marked' /\ list' = <<>>
    BY <1>2, BeginStep
  <2>2. HeapTyped'
    BY <1>1, <1>2 DEF HeapTyped, BeginMark, heapVars, debugVars
  <2>3. cs \subseteq Comps /\ (FullOnly => cs = Comps)
    BY DEF Collections
  <2>4. /\ phase' = "mark" /\ collecting' = cs /\ gray' = FALSE /\ UNCHANGED <<visit, markedAny>>
        /\ phase = "js"
    BY <1>2 DEF BeginMark
  <2>5. list' \in Seq(Maps)
    BY <2>1
  <2>6. visit = {} /\ markedAny \in BOOLEAN
    BY <1>1, <2>4 DEF MarkTyped
  <2>7. MarkTyped'
    BY <2>1, <2>3, <2>4, <2>5, <2>6 DEF MarkTyped
  <2> QED
    BY <2>2, <2>7, TypedAgain
<1>3. ASSUME Reset PROVE Typed'
  <2>1. HeapTyped'
    BY <1>1, <1>3 DEF HeapTyped, Reset, heapVars, debugVars
  <2>2. MarkTyped'
    BY <1>1, <1>3 DEF MarkTyped, Reset
  <2> QED
    BY <2>1, <2>2, TypedAgain
<1>4. ASSUME Sweep PROVE Typed'
  <2>1. /\ weak' = [m \in Maps |-> SweepMap(m)]
        /\ watch' = Restrict(watch, {o \in DOMAIN watch : ~Dead(o)})
        /\ debuggees' \subseteq debuggees /\ armed' \subseteq armed /\ live' \subseteq live
        /\ collecting' = {} /\ phase' = "js"
        /\ UNCHANGED <<roots, held, enabled, ops, marked, todo, list, visit, markedAny, gray>>
    BY <1>4 DEF Sweep, SweepBreakpoints
  <2>2. \A m \in Maps : SweepMap(m) \in SUBSET (Objects \X Objects)
    BY <1>1 DEF HeapTyped, SweepMap
  <2>3. /\ DOMAIN watch' \subseteq DOMAIN watch
        /\ \A o \in DOMAIN watch' : watch'[o] = watch[o]
    BY <2>1 DEF Restrict
  <2>4. HeapTyped'
    BY <1>1, <2>1, <2>2, <2>3 DEF HeapTyped
  <2>5. todo = {} /\ visit = {}
    BY <1>1, <1>4 DEF Sweep, Passes, MarkTyped
  <2>6. MarkTyped'
    BY <1>1, <2>1, <2>5 DEF MarkTyped
  <2> QED
    BY <2>4, <2>6, TypedAgain
<1> QED
  BY <1>2, <1>3, <1>4

\* The gray roots stay marked once they are, until the sweep.
LEMMA GrayKept ==
  ASSUME WeakMarkingAssumption, Typed, GrayMarked, Next,
         Steps => marked \subseteq marked'
  PROVE  GrayMarked'
<1>1. CASE (\E cs \in Collections : BeginMark(cs)) \/ Reset \/ Sweep
  BY <1>1 DEF BeginMark, Reset, Sweep, GrayMarked
<1>2. CASE Mutator
  <2>1. /\ UNCHANGED <<collecting, phase, gray>> /\ phase \in {"js", "mark"}
        /\ \E os \in SUBSET Objects : Mark(os)
    BY <1>2, MutatorMarks
  <2>2. \A o : ~Dead(o) => ~Dead(o)'
    BY <2>1 DEF Mark, Dead
  <2> QED
    BY <2>1, <2>2 DEF GrayMarked
<1>3. CASE Steps
  <2>1. phase # "js" /\ collecting' = collecting
    BY <1>3, StepsGo DEF Going
  <2>2. \A o : ~Dead(o) => ~Dead(o)'
    BY <1>3, <2>1 DEF Dead
  <2>3. CASE MarkGray
    <3>1. \A o \in GrayRoots : ~Dead(o)'
      BY <2>1, <2>3 DEF MarkGray, Mark, Dead
    <3>2. phase' # "sweep"
      BY <2>3 DEF MarkGray
    <3> QED
      BY <3>1, <3>2 DEF GrayMarked
  <2>4. CASE MarkingDone
    <3>1. gray /\ gray'
      BY <2>4 DEF MarkingDone
    <3> QED
      BY <2>1, <2>2, <3>1 DEF GrayMarked
  <2>5. CASE \/ \E o \in Objects : Trace(o)
             \/ EndMark \/ PassMarked \/ Drained \/ PassDone \/ WatchPass \/ MapPass \/ DebugPass
    <3>1. ASSUME NEW e, NEW os, Visit(e, os) PROVE gray' = gray /\ phase' = phase
      BY <3>1 DEF Visit
    <3>2. WatchPass \/ MapPass \/ DebugPass => gray' = gray /\ phase' # "sweep"
      BY <3>1 DEF WatchPass, MapPass, DebugPass
    <3>3. gray' = gray /\ phase' # "sweep"
      BY <2>5, <3>2 DEF Trace, EndMark, PassMarked, Drained, PassDone, NextPass
    <3> QED
      BY <2>1, <2>2, <3>3 DEF GrayMarked
  <2> QED
    BY <1>3, <2>3, <2>4, <2>5 DEF Steps
<1> QED
  BY <1>1, <1>2, <1>3 DEF Next, Collector, Steps

-----------------------------------------------------------------------------
(* The invariant.                                                           *)

\* At first the value and the key of every entry are of its map's compartment.
LEMMA InitKeys ==
  ASSUME WeakMarkingAssumption, Init
  PROVE  /\ weak \in [Maps -> SUBSET (Objects \X Objects)]
         /\ \A m \in Maps : \A e \in weak[m] : CompOf[e[1]] = CompOf[m] /\ CompOf[e[2]] = CompOf[m]
<1>1. PICK es \in {{}} \cup {Range(f) : f \in [1..MaxEntries -> SomeEntries]} :
         weak = [m \in Maps |-> {<<e[2], e[3]>> : e \in {x \in es : x[1] = m}}]
  BY DEF Init
<1>2. es \subseteq SomeEntries
  <2>1. CASE es = {}
    BY <2>1
  <2>2. ASSUME NEW f \in [1..MaxEntries -> SomeEntries], es = Range(f)
        PROVE  es \subseteq SomeEntries
    BY <2>2 DEF Range
  <2> QED
    BY <1>1, <2>1, <2>2
<1>3. \A e \in es : /\ <<e[2], e[3]>> \in Objects \X Objects
                    /\ CompOf[e[2]] = CompOf[e[1]] /\ CompOf[e[3]] = CompOf[e[1]]
  BY <1>2 DEF SomeEntries
<1>4. \A m \in Maps : weak[m] = {<<e[2], e[3]>> : e \in {x \in es : x[1] = m}}
  BY <1>1
<1>5. ASSUME NEW m \in Maps, NEW p \in weak[m]
      PROVE  p \in Objects \X Objects /\ CompOf[p[1]] = CompOf[m] /\ CompOf[p[2]] = CompOf[m]
  <2>1. PICK e \in es : e[1] = m /\ p = <<e[2], e[3]>>
    BY <1>4, <1>5
  <2> QED
    BY <1>3, <2>1
<1>6. weak \in [Maps -> SUBSET (Objects \X Objects)]
  <2>1. \A m \in Maps : weak[m] \in SUBSET (Objects \X Objects)
    BY <1>5
  <2>2. weak = [m \in Maps |-> weak[m]]
    BY <1>1
  <2> QED
    BY <2>1, <2>2
<1> QED
  BY <1>5, <1>6

\* It holds at first.
LEMMA InitInv ==
  ASSUME WeakMarkingAssumption, Init
  PROVE  IndInv
<1>1. /\ live = Objects /\ roots \subseteq Objects /\ held = {}
      /\ DOMAIN watch \subseteq Objects
      /\ \A o \in DOMAIN watch : watch[o] \in Objects /\ CompOf[o] = CompOf[watch[o]]
      /\ debuggees = Debuggees /\ armed = Breakpoints /\ enabled \subseteq Objects
  <2>1. PICK ws \in {{}} \cup {{o} : o \in Watched} : watch \in [ws -> Objects]
    BY DEF Init
  <2>2. DOMAIN watch = ws /\ ws \subseteq Objects /\ \A o \in ws : watch[o] \in Objects
    BY <2>1 DEF WeakMarkingAssumption
  <2> QED
    BY <2>2 DEF Init, WeakMarkingAssumption
<1>2. /\ weak \in [Maps -> SUBSET (Objects \X Objects)]
      /\ \A m \in Maps : \A e \in weak[m] : CompOf[e[1]] = CompOf[m] /\ CompOf[e[2]] = CompOf[m]
  BY InitKeys
<1>3. /\ marked = {} /\ todo = {} /\ list = <<>> /\ collecting = {} /\ phase = "js"
      /\ visit = {} /\ markedAny = FALSE /\ gray = FALSE /\ ops = 0
  BY DEF Init
<1>4. Range(list) = {} /\ IsInjective(list) /\ list \in Seq(Maps)
  BY <1>3 DEF Range, IsInjective
<1>5. Typed
  <2>1. Range(watch) \subseteq Objects
    BY <1>1 DEF Range
  <2>2. ops \in 0..MaxOps
    BY <1>3 DEF WeakMarkingAssumption
  <2>3. {live, roots, held, marked, todo} \subseteq SUBSET Objects
    BY <1>1, <1>3
  <2>4. TypeOK
    BY <1>1, <1>2, <1>3, <1>4, <2>1, <2>2, <2>3 DEF TypeOK
  <2> QED
    BY <1>3, <1>4, <2>4 DEF Typed
<1>6. LiveClosed
  <2>1. EdgesIn(live) /\ EntriesIn(live) /\ ClosuresIn(live) /\ HeldIn(live) /\ DebuggersIn(live)
    BY <1>1, <1>5, Types DEF EdgesIn, EntriesIn, ClosuresIn, HeldIn, DebuggersIn
  <2> QED
    BY <1>1, <1>5, <2>1, Types DEF LiveClosed, Closed
<1>7. Local
  BY <1>1, <1>2 DEF Local
<1>8. MarksSound /\ Traced /\ Covered /\ GrayMarked
  BY <1>3 DEF MarksSound, Traced, Covered, GrayMarked
<1>9. Passes
  BY <1>3 DEF Passes
<1>10. ListSound
  BY <1>4 DEF ListSound
<1>11. WatchpointsLive
  BY <1>1 DEF WatchpointsLive
<1>12. ReferentsLive
  BY <1>1, <1>5, Types DEF ReferentsLive
<1> QED
  BY <1>5, <1>6, <1>7, <1>8, <1>9, <1>10, <1>11, <1>12 DEF IndInv

\* Every action keeps it.
LEMMA NextInv ==
  ASSUME WeakMarkingAssumption, IndInv, Next
  PROVE  IndInv'
<1> USE DEF IndInv
<1>1. Passes'
  BY PassesKept
<1>2. GrayMarked'
  BY GrayKept, StepsMark
<1>3. ASSUME NEW cs \in Collections, BeginMark(cs)
      PROVE  IndInv'
  <2>1. Typed' /\ MarksSound' /\ Traced' /\ Covered' /\ ListSound'
    BY <1>3, BeginStep, OthersTyped
  <2>2. UNCHANGED heapVars
    BY <1>3 DEF BeginMark
  <2>3. LiveClosed' /\ Local' /\ WatchpointsLive' /\ ReferentsLive'
    BY <2>2 DEF heapVars, debugVars, LiveClosed, Closed, EdgesIn, EntriesIn, ClosuresIn, HeldIn,
                DebuggersIn, Local, WatchpointsLive, ReferentsLive
  <2> QED
    BY <1>1, <1>2, <2>1, <2>3
<1>4. ASSUME Reset
      PROVE  IndInv'
  <2>1. Typed'
    BY <1>4, OthersTyped
  <2>2. UNCHANGED heapVars /\ list' = list /\ phase' = "js"
    BY <1>4 DEF Reset
  <2>3. LiveClosed' /\ Local' /\ WatchpointsLive' /\ ReferentsLive'
    BY <2>2 DEF heapVars, debugVars, LiveClosed, Closed, EdgesIn, EntriesIn, ClosuresIn, HeldIn,
                DebuggersIn, Local, WatchpointsLive, ReferentsLive
  <2>4. MarksSound' /\ Traced' /\ Covered' /\ ListSound'
    BY <2>2 DEF MarksSound, Traced, Covered, ListSound, heapVars
  <2> QED
    BY <1>1, <1>2, <2>1, <2>3, <2>4
<1>5. ASSUME Sweep
      PROVE  IndInv'
  <2>1. Typed'
    BY <1>5, OthersTyped
  <2>2. LiveClosed' /\ Local' /\ WatchpointsLive' /\ ReferentsLive' /\ ListSound'
    BY <1>5, SweepStep
  <2>3. MarksSound' /\ Traced' /\ Covered'
    BY <1>5 DEF Sweep, MarksSound, Traced, Covered
  <2> QED
    BY <1>1, <1>2, <2>1, <2>2, <2>3
<1>6. ASSUME Mutator
      PROVE  IndInv'
  <2>1. Typed' /\ LiveClosed' /\ Local' /\ WatchpointsLive' /\ ReferentsLive' /\ Covered'
    BY <1>6, MutatorTyped, MutatorHeap, MutatorCovered
  <2>2. /\ UNCHANGED <<live, list, collecting, phase>>
        /\ \E os \in SUBSET Objects : Reachable(os) /\ Mark(os)
    BY <1>6, MutatorMarks
  <2>3. PICK os \in SUBSET Objects : Reachable(os) /\ Mark(os)
    BY <2>2
  <2>4. os \subseteq live
    BY <2>3, Types DEF Reachable, LiveClosed, Closed, ScriptClosed
  <2>5. MarksSound' /\ Traced'
    BY <2>2, <2>3, <2>4, MarkStep
  <2>6. ListSound'
    BY <2>2 DEF ListSound
  <2> QED
    BY <1>1, <1>2, <2>1, <2>5, <2>6
<1>7. ASSUME Steps
      PROVE  IndInv'
  <2>1. /\ MarksSound' /\ Traced' /\ ListSound'
        /\ marked \subseteq marked' /\ marked' \subseteq Objects /\ todo' \subseteq marked'
        /\ list' \in Seq(Maps)
    BY <1>7, StepsMark
  <2>2. Typed'
    BY <1>7, <2>1, StepsTyped
  <2>3. UNCHANGED heapVars /\ phase # "js" /\ collecting' = collecting
    BY <1>7, StepsGo DEF Going
  <2>4. LiveClosed' /\ Local' /\ WatchpointsLive' /\ ReferentsLive'
    BY <2>3 DEF heapVars, debugVars, LiveClosed, Closed, EdgesIn, EntriesIn, ClosuresIn, HeldIn,
                DebuggersIn, Local, WatchpointsLive, ReferentsLive
  <2>5. Covered'
    BY <2>1, <2>3 DEF Covered, heapVars, ScriptClosed, EdgesIn, EntriesIn, ClosuresIn, Outside
  <2> QED
    BY <1>1, <1>2, <2>1, <2>2, <2>4, <2>5
<1> QED
  BY <1>3, <1>4, <1>5, <1>6, <1>7 DEF Next, Collector, Steps

\* A step that changes nothing.
LEMMA StutterInv ==
  ASSUME IndInv, UNCHANGED vars
  PROVE  IndInv'
<1> USE DEF vars, heapVars, markVars, debugVars
<1>1. Typed' /\ LiveClosed' /\ Local'
  BY DEF IndInv, Typed, TypeOK, LiveClosed, Closed, EdgesIn, EntriesIn, ClosuresIn, HeldIn,
         DebuggersIn, Local
<1>2. MarksSound' /\ Traced' /\ GrayMarked' /\ ListSound' /\ WatchpointsLive' /\ ReferentsLive'
  BY DEF IndInv, MarksSound, Traced, GrayMarked, ListSound, WatchpointsLive, ReferentsLive, Dead,
         Outside
<1>3. Covered'
  BY DEF IndInv, Covered, ScriptClosed, EdgesIn, EntriesIn, ClosuresIn, Outside
<1>4. Passes'
  BY DEF IndInv, Passes, WatchDone, MapsDone, DebugDone, Satisfied, VisitWatch, VisitMap,
         VisitDebuggee, LiveHooks, WatchEntries, Listed, Entries, Dead
<1> QED
  BY <1>1, <1>2, <1>3, <1>4 DEF IndInv

\* The inductive invariant holds in every state: the barriers, the passes over
\* what is weakly held and the sweep keep it.
THEOREM Invariance == WeakMarkingAssumption => (Spec => []IndInv)
<1> SUFFICES ASSUME WeakMarkingAssumption
             PROVE  Spec => []IndInv
  OBVIOUS
<1>1. Init => IndInv
  BY InitInv
<1>2. IndInv /\ [Next]_vars => IndInv'
  BY NextInv, StutterInv
<1> QED
  BY <1>1, <1>2, PTL DEF Spec

-----------------------------------------------------------------------------
(* What follows from it for every heap.                                     *)

\* Nothing that the script, the embedding, a weak map with a live key, a
\* watchpoint or a debugger can still use is finalized, or about to be when
\* the sweep begins (MarkWeakReferences, MarkGrayAndWeak, SweepPhase).
THEOREM NothingLiveIsFinalized == WeakMarkingAssumption => (Spec => []NothingLiveFinalized)
<1> SUFFICES ASSUME WeakMarkingAssumption
             PROVE  Spec => []NothingLiveFinalized
  OBVIOUS
<1>1. IndInv => NothingLiveFinalized
  <2> SUFFICES ASSUME IndInv
               PROVE  NothingLiveFinalized
    OBVIOUS
  <2> USE DEF IndInv
  <2>1. live \in SUBSET Objects /\ Survivors \in SUBSET Objects
    BY Types DEF Survivors
  <2>2. Reach(roots \cup GrayRoots) \subseteq live
    BY <2>1, ReachIn DEF LiveClosed
  <2>3. phase = "sweep" => Reach(roots \cup GrayRoots) \subseteq Survivors
    BY <2>1, ReachIn, SurvivorsClosed
  <2> QED
    BY <2>2, <2>3 DEF NothingLiveFinalized, Survivors
<1> QED
  BY <1>1, Invariance, PTL

\* Every variable has its type, and the list is one of maps.
THEOREM TypesHold == WeakMarkingAssumption => (Spec => []TypeOK)
<1> SUFFICES ASSUME WeakMarkingAssumption
             PROVE  Spec => []TypeOK
  OBVIOUS
<1>1. IndInv => TypeOK
  BY DEF IndInv, Typed
<1> QED
  BY <1>1, Invariance, PTL

\* gcWeakMapList has every map once, and none that has been finalized
\* (WeakMapBase::trace, WeakMapBase::check).
THEOREM ListIsSound == WeakMarkingAssumption => (Spec => []ListSound)
<1> SUFFICES ASSUME WeakMarkingAssumption
             PROVE  Spec => []ListSound
  OBVIOUS
<1>1. IndInv => ListSound
  BY DEF IndInv
<1> QED
  BY <1>1, Invariance, PTL

\* Watchpoints whose object is alive have a closure, and the watchpoint whose
\* handler is running is not swept (WatchpointMap::sweep).
THEOREM WatchpointsAreLive == WeakMarkingAssumption => (Spec => []WatchpointsLive)
<1> SUFFICES ASSUME WeakMarkingAssumption
             PROVE  Spec => []WatchpointsLive
  OBVIOUS
<1>1. IndInv => WatchpointsLive
  BY DEF IndInv
<1> QED
  BY <1>1, Invariance, PTL

-----------------------------------------------------------------------------
(* Keys, and what was live when the collection began.                       *)

\* Every step keeps the keys of live maps live, when they are of the map's
\* compartment.
LEMMA KeysKept ==
  ASSUME WeakMarkingAssumption, NoForeignKeys, IndInv, IndInv', KeysLive, [Next]_vars
  PROVE  KeysLive'
<1> USE DEF IndInv
<1>1. ASSUME UNCHANGED <<live, weak>> PROVE KeysLive'
  BY <1>1 DEF KeysLive, NoDanglingEntry
<1>2. CASE (\E cs \in Collections : BeginMark(cs)) \/ Reset \/ UNCHANGED vars
  BY <1>1, <1>2 DEF BeginMark, Reset, vars, heapVars
<1>3. CASE Steps
  BY <1>1, <1>3, StepsGo DEF Going, heapVars
<1>4. CASE Mutator
  <2>1. live' = live
    BY <1>4, MutatorMarks
  <2>2. ASSUME NEW m \in Maps, NEW o \in Objects, WeakMapDelete(m, o) PROVE KeysLive'
    <3>1. \A n \in Maps : weak'[n] \subseteq weak[n]
      BY <2>2, DeleteEntries DEF WeakMapDelete
    <3> QED
      BY <2>1, <3>1 DEF KeysLive, NoDanglingEntry
  <2>3. ASSUME NEW m \in Maps, NEW v \in Objects, NEW o \in Objects, WeakMapSet(m, o, v)
        PROVE KeysLive'
    <3>1. \A n \in Maps : \A e \in weak'[n] : e \in weak[n] \/ (n = m /\ e = <<Unwrap(o), v>>)
      BY <2>3, PutEntries DEF WeakMapSet
    <3>2. Unwrap(o) \in live /\ v \in live
      BY <2>3, UnwrapIn DEF WeakMapSet, LiveClosed, Closed
    <3>3. FullOnly \/ CompOf[Unwrap(o)] = CompOf[m]
      BY <2>3 DEF WeakMapSet, NoForeignKeys
    <3> QED
      BY <2>1, <3>1, <3>2, <3>3 DEF KeysLive, NoDanglingEntry
  <2>4. ASSUME NEW o \in Objects,
               \/ Hold(o) \/ Forget(o) \/ SetEnabled(o) \/ Unwatch(o) \/ Trigger(o)
               \/ HandlerReturns(o) \/ \E c \in Objects : Watch(o, c)
               \/ \E m \in Maps : WeakMapGet(m, o)
        PROVE  weak' = weak
    BY <2>4 DEF Hold, Forget, SetEnabled, Unwatch, Trigger, HandlerReturns, Watch, WeakMapGet
  <2>5. ASSUME NEW g \in debuggees, RemoveDebuggee(g) PROVE weak' = weak
    BY <2>5 DEF RemoveDebuggee
  <2> QED
    BY <1>1, <1>4, <2>1, <2>2, <2>3, <2>4, <2>5 DEF Mutator
<1>5. CASE Sweep
  <2>1. /\ phase = "sweep" /\ live' = Survivors /\ weak' = [m \in Maps |-> SweepMap(m)]
    BY <1>5 DEF Sweep, Survivors
  <2>2. \A m \in Maps : weak'[m] = SweepMap(m) /\ weak'[m] \subseteq weak[m]
    BY <2>1 DEF SweepMap
  <2>3. ASSUME NEW m \in Maps \cap live', NEW e \in weak'[m]
        PROVE  {e[1], e[2]} \subseteq live'
    <3>1. e[2] \in live'
      BY <2>3 DEF ReferentsLive
    <3>2. e \in weak[m] /\ m \in live /\ ~Dead(m) /\ e[1] \in live
      BY <2>1, <2>2, <2>3 DEF Survivors, KeysLive, NoDanglingEntry
    <3>3. CASE CompOf[m] \in collecting
      <4>1. m \in marked /\ todo = {}
        BY <2>1, <3>2, <3>3 DEF Dead, Passes
      <4>2. Contains(list, m)
        BY <2>1, <4>1, ContainsIsIn DEF Traced, Typed
      <4> QED
        BY <2>1, <2>2, <2>3, <3>1, <3>2, <4>2 DEF SweepMap, Survivors
    <3>4. CASE CompOf[m] \notin collecting
      <4>1. ~FullOnly
        BY <2>1, <3>4, Types DEF Typed
      <4>2. CompOf[e[1]] = CompOf[m]
        BY <3>2, <4>1 DEF KeysLive
      <4> QED
        BY <2>1, <3>1, <3>2, <3>4, <4>2 DEF Survivors, Dead
    <3> QED
      BY <3>3, <3>4
  <2>4. NoDanglingEntry'
    BY <2>3 DEF NoDanglingEntry
  <2> QED
    BY <2>2, <2>4 DEF KeysLive
<1> QED
  BY <1>2, <1>3, <1>4, <1>5 DEF Next, Collector, Steps

\* What a step of the collection marks was live when it began.
LEMMA StepsInSnapshot ==
  ASSUME WeakMarkingAssumption, IndInv, KeysLive, SnapshotClosed, Steps
  PROVE  marked' \subseteq snapshot
<1> USE DEF IndInv
<1>1. /\ phase # "js" /\ Closed(snapshot)
      /\ roots \cup GrayRoots \cup marked \cup Outside \subseteq snapshot
  BY StepsGo DEF Going, SnapshotClosed
<1>2. ASSUME NEW o \in live, ~Dead(o) PROVE o \in snapshot
  BY <1>1, <1>2 DEF Dead, Outside
<1>3. ASSUME NEW os, Mark(os), os \subseteq snapshot PROVE marked' \subseteq snapshot
  BY <1>1, <1>3 DEF Mark
<1>4. ASSUME NEW o \in Objects, Trace(o) PROVE marked' \subseteq snapshot
  BY <1>1, <1>4, Types DEF Trace, Closed, EdgesIn
<1>5. ASSUME EndMark \/ Drained \/ PassMarked \/ PassDone \/ MarkingDone
      PROVE  marked' \subseteq snapshot
  BY <1>1, <1>5 DEF EndMark, Drained, PassMarked, PassDone, MarkingDone
<1>6. ASSUME MarkGray PROVE marked' \subseteq snapshot
  BY <1>1, <1>3, <1>6 DEF MarkGray
<1>7. ASSUME WatchPass \/ MapPass \/ DebugPass PROVE marked' \subseteq snapshot
  <2>1. PICK e \in visit, os \in SUBSET live :
            /\ Visit(e, os)
            /\ phase \in {"watch", "maps", "debug"}
            /\ phase = "watch" => e \in WatchEntries /\ os = VisitWatch(e)
            /\ phase = "maps" => e \in Listed /\ os = VisitMap(e)
            /\ phase = "debug" => e \in debuggees /\ os = VisitDebuggee(e)
    BY <1>7, PassMarks
  <2>2. CASE phase = "watch"
    <3>1. PICK o \in DOMAIN watch : e = <<o, watch[o]>>
      BY <2>1, <2>2 DEF WatchEntries
    <3>2. o \in live
      BY DEF WatchpointsLive
    <3>3. ~Dead(o) \/ o \in held => {o, watch[o]} \subseteq snapshot
      BY <1>1, <1>2, <3>2 DEF Closed, ClosuresIn, HeldIn
    <3>4. os \subseteq snapshot
      BY <2>1, <2>2, <3>1, <3>3 DEF VisitWatch
    <3> QED
      BY <1>3, <2>1, <3>4 DEF Visit
  <2>3. CASE phase = "maps"
    <3>1. PICK m \in Maps : \E x \in weak[m] : e = <<m, x[1], x[2]>> /\ Contains(list, m)
      BY <2>1, <2>3 DEF Listed, Entries
    <3>2. PICK x \in weak[m] : e = <<m, x[1], x[2]>> /\ Contains(list, m)
      BY <3>1
    <3>3. m \in marked /\ CompOf[m] \in collecting /\ m \in snapshot
      BY <1>1, <3>2, ContainsIsIn DEF MarksSound, Typed
    <3>4. CompOf[x[1]] \in collecting
      BY <1>1, <3>3, Types DEF KeysLive, Typed
    <3>5. ~Dead(x[1]) => x[1] \in snapshot
      BY <1>1, <3>4 DEF Dead
    <3>6. ~Dead(x[1]) => x[2] \in snapshot
      BY <1>1, <3>3, <3>5 DEF Closed, EntriesIn
    <3>7. os \subseteq snapshot
      BY <2>1, <2>3, <3>2, <3>6 DEF VisitMap
    <3> QED
      BY <1>3, <2>1, <3>7 DEF Visit
  <2>4. CASE phase = "debug"
    <3>1. e \in debuggees /\ os = VisitDebuggee(e) /\ e[1] \in live /\ e[2] \in live
      BY <2>1, <2>4 DEF ReferentsLive
    <3>2. \A b \in armed : ~Dead(b[2]) => b[2] \in snapshot
      BY <1>2 DEF ReferentsLive
    <3>3. ~Dead(e[1]) => e[1] \in snapshot
      BY <1>2, <3>1
    <3>4. ~Dead(e[1]) /\ (~Dead(e[2]) \/ LiveHooks(e[2])) => e[2] \in snapshot
      <4>1. ~Dead(e[2]) => e[2] \in snapshot
        BY <1>2, <3>1
      <4>2. ~Dead(e[1]) /\ LiveHooks(e[2]) => e[2] \in snapshot
        BY <1>1, <3>1, <3>2, <3>3 DEF LiveHooks, Closed, DebuggersIn
      <4> QED
        BY <4>1, <4>2
    <3>5. \A b \in armed : e[1] \in snapshot /\ e[2] \in snapshot /\ b[1] = e[2] /\ ~Dead(b[2])
                              => b[3] \in snapshot
      BY <1>1, <3>1, <3>2 DEF Closed, DebuggersIn
    <3>6. os \subseteq snapshot
      BY <3>1, <3>3, <3>4, <3>5 DEF VisitDebuggee
    <3> QED
      BY <1>3, <2>1, <3>6 DEF Visit
  <2> QED
    BY <2>1, <2>2, <2>3, <2>4
<1> QED
  BY <1>4, <1>5, <1>6, <1>7 DEF Steps

\* Every step keeps what can be reached inside of what was live at first.
LEMMA SnapshotKept ==
  ASSUME WeakMarkingAssumption, IndInv, KeysLive, SnapshotClosed, [Next]_vars
  PROVE  SnapshotClosed'
<1> USE DEF IndInv
<1>1. ASSUME UNCHANGED heapVars, NEW K \in SUBSET Objects
      PROVE  /\ EdgesIn(K)' = EdgesIn(K) /\ EntriesIn(K)' = EntriesIn(K)
             /\ ClosuresIn(K)' = ClosuresIn(K) /\ HeldIn(K)' = HeldIn(K)
             /\ DebuggersIn(K)' = DebuggersIn(K)
  BY <1>1 DEF heapVars, debugVars, EdgesIn, EntriesIn, ClosuresIn, HeldIn, DebuggersIn
<1>2. CASE Reset \/ Sweep
  BY <1>2 DEF Reset, Sweep, SnapshotClosed
<1>3. ASSUME NEW cs \in Collections, BeginMark(cs)
      PROVE  SnapshotClosed'
  <2> DEFINE others == {o \in live : CompOf[o] \notin cs}
             wrapped == UNION {Edges[o] : o \in {p \in live : CompOf[p] \notin cs}}
             from == {o \in roots \cup wrapped : CompOf[o] \in cs}
             all == roots \cup GrayRoots \cup others
  <2>1. /\ marked' = from /\ snapshot' = Reach(all)
        /\ collecting' = cs /\ UNCHANGED heapVars
    BY <1>3 DEF BeginMark
  <2>2. all \in SUBSET Objects
    BY Types
  <2>3. all \subseteq snapshot' /\ snapshot' \in SUBSET Objects /\ Closed(snapshot')
    BY <2>1, <2>2, ReachIsClosed
  <2>4. wrapped \subseteq snapshot'
    <3>1. \A o \in others : Edges[o] \subseteq snapshot'
      BY <2>3 DEF Closed, EdgesIn
    <3> QED
      BY <3>1
  <2>5. marked' \subseteq snapshot' /\ Outside' = others
    BY <2>1, <2>3, <2>4 DEF Outside, heapVars
  <2>6. Closed(snapshot)'
    <3>1. PICK K \in SUBSET Objects : K = snapshot'
      BY <2>3
    <3>2. EdgesIn(K) /\ EntriesIn(K) /\ ClosuresIn(K) /\ HeldIn(K) /\ DebuggersIn(K)
      BY <2>3, <3>1 DEF Closed
    <3>3. EdgesIn(K)' /\ EntriesIn(K)' /\ ClosuresIn(K)' /\ HeldIn(K)' /\ DebuggersIn(K)'
      BY <1>1, <2>1, <3>2
    <3> QED
      BY <3>1, <3>3 DEF Closed, EdgesIn, EntriesIn, ClosuresIn, HeldIn, DebuggersIn
  <2>7. roots' \cup GrayRoots \subseteq snapshot'
    BY <2>1, <2>3 DEF heapVars
  <2> QED
    BY <2>3, <2>5, <2>6, <2>7 DEF SnapshotClosed
<1>4. ASSUME phase # "js", NEW K \in SUBSET Objects, K = snapshot, snapshot' = snapshot,
             EdgesIn(K)', EntriesIn(K)', ClosuresIn(K)', HeldIn(K)', DebuggersIn(K)',
             roots' \subseteq K, marked' \subseteq K, Outside' = Outside
      PROVE  SnapshotClosed'
  <2>1. Closed(snapshot)'
    BY <1>4 DEF Closed, EdgesIn, EntriesIn, ClosuresIn, HeldIn, DebuggersIn
  <2> QED
    BY <1>4, <2>1 DEF SnapshotClosed
<1>5. CASE Steps \/ (UNCHANGED vars /\ phase # "js")
  <2>1. UNCHANGED heapVars /\ phase # "js" /\ snapshot' = snapshot /\ collecting' = collecting
    BY <1>5, StepsGo DEF Going, vars, markVars
  <2>2. marked' \subseteq snapshot
    BY <1>5, <2>1, StepsInSnapshot DEF vars, markVars, SnapshotClosed
  <2>3. PICK K \in SUBSET Objects : K = snapshot
    BY <2>1 DEF SnapshotClosed
  <2>4. /\ EdgesIn(K) /\ EntriesIn(K) /\ ClosuresIn(K) /\ HeldIn(K) /\ DebuggersIn(K)
        /\ roots \subseteq K
    BY <2>1, <2>3 DEF SnapshotClosed, Closed
  <2>5. EdgesIn(K)' /\ EntriesIn(K)' /\ ClosuresIn(K)' /\ HeldIn(K)' /\ DebuggersIn(K)'
    BY <1>1, <2>1, <2>4
  <2>6. roots' \subseteq K /\ Outside' = Outside
    BY <2>1, <2>4 DEF heapVars, Outside
  <2> QED
    BY <1>4, <2>1, <2>2, <2>3, <2>5, <2>6
<1>6. CASE Mutator /\ phase # "js"
  <2>1. /\ UNCHANGED <<live, collecting, snapshot>>
        /\ \E os \in SUBSET Objects : Reachable(os) /\ Mark(os)
    BY <1>6, MutatorMarks
  <2>2. PICK K \in SUBSET Objects : K = snapshot
    BY <1>6 DEF SnapshotClosed
  <2>3. roots \subseteq K /\ marked \subseteq K /\ Closed(K)
    BY <1>6, <2>2 DEF SnapshotClosed
  <2>4. marked' \subseteq K
    BY <2>1, <2>3 DEF Reachable, ScriptClosed, Closed, Mark
  <2>5. /\ roots' \subseteq K
        /\ EdgesIn(K)' /\ EntriesIn(K)' /\ ClosuresIn(K)' /\ HeldIn(K)' /\ DebuggersIn(K)'
    BY <1>6, <2>3, MutatorStays DEF Closed
  <2>6. Outside' = Outside
    BY <2>1 DEF Outside
  <2> QED
    BY <1>4, <1>6, <2>1, <2>2, <2>4, <2>5, <2>6
<1>7. CASE phase' = "js"
  BY <1>7 DEF SnapshotClosed
<1>8. Mutator \/ UNCHANGED vars => phase' = phase
  BY MutatorMarks DEF vars, markVars
<1> QED
  BY <1>2, <1>3, <1>5, <1>6, <1>7, <1>8 DEF Next, Collector, Steps

\* With no foreign keys, the keys of live maps stay live and marking stays
\* inside of what was live when the collection began (WeakMap::markIteratively).
THEOREM KeysInvariance ==
  WeakMarkingAssumption /\ NoForeignKeys => (Spec => [](KeysLive /\ SnapshotClosed))
<1> SUFFICES ASSUME WeakMarkingAssumption, NoForeignKeys
             PROVE  Spec => [](KeysLive /\ SnapshotClosed)
  OBVIOUS
<1>1. Init => KeysLive /\ SnapshotClosed
  <2> SUFFICES ASSUME Init
               PROVE  KeysLive /\ SnapshotClosed
    OBVIOUS
  <2>1. live = Objects /\ phase = "js"
    BY DEF Init
  <2>2. IndInv
    BY InitInv
  <2>3. \A m \in Maps : \A e \in weak[m] : CompOf[e[1]] = CompOf[m]
    BY InitKeys
  <2> QED
    BY <2>1, <2>2, <2>3, Types DEF IndInv, KeysLive, NoDanglingEntry, SnapshotClosed
<1>2. IndInv /\ IndInv' /\ KeysLive /\ SnapshotClosed /\ [Next]_vars => KeysLive' /\ SnapshotClosed'
  BY KeysKept, SnapshotKept
<1>3. Spec => []IndInv
  BY Invariance
<1> QED
  BY <1>1, <1>2, <1>3, PTL DEF Spec

\* A map that is alive refers to nothing that has been finalized
\* (WeakMapBase::sweepAll), when its keys are of its compartment.
THEOREM NoEntryDangles == WeakMarkingAssumption /\ NoForeignKeys => (Spec => []NoDanglingEntry)
<1> SUFFICES ASSUME WeakMarkingAssumption, NoForeignKeys
             PROVE  Spec => []NoDanglingEntry
  OBVIOUS
<1>1. KeysLive => NoDanglingEntry
  BY DEF KeysLive
<1> QED
  BY <1>1, KeysInvariance, PTL

\* Nothing is marked that was not live when the collection began: an entry with
\* a dead key does not keep its value (WeakMap::markIteratively).
THEOREM OnlyLiveMarked == WeakMarkingAssumption /\ NoForeignKeys => (Spec => []OnlySnapshotMarked)
<1> SUFFICES ASSUME WeakMarkingAssumption, NoForeignKeys
             PROVE  Spec => []OnlySnapshotMarked
  OBVIOUS
<1>1. SnapshotClosed => OnlySnapshotMarked
  BY DEF SnapshotClosed, OnlySnapshotMarked
<1> QED
  BY <1>1, KeysInvariance, PTL

-----------------------------------------------------------------------------
(* Breakpoints.                                                             *)

\* Only the sweep finalizes anything or clears breakpoints, and only detaching
\* takes a debugger off a global.
LEMMA LiveKept ==
  ASSUME [Next]_vars, WeakMarkingAssumption, IndInv, ~Sweep
  PROVE  live' = live /\ armed' = armed /\ debuggees' \subseteq debuggees
         /\ (debuggees' # debuggees => "detach" \in DebuggerOps)
<1> USE DEF heapVars, debugVars
<1>1. CASE UNCHANGED heapVars
  BY <1>1
<1>2. CASE Steps
  BY <1>1, <1>2, StepsGo DEF Going
<1>3. CASE (\E cs \in Collections : BeginMark(cs)) \/ Reset \/ UNCHANGED vars
  BY <1>1, <1>3 DEF BeginMark, Reset, vars
<1>4. CASE Mutator
  <2>1. live' = live
    BY <1>4, MutatorMarks DEF IndInv
  <2>2. ASSUME NEW o \in Objects,
               \/ Hold(o) \/ Forget(o) \/ SetEnabled(o) \/ Unwatch(o) \/ Trigger(o)
               \/ HandlerReturns(o) \/ \E c \in Objects : Watch(o, c)
               \/ \E m \in Maps : WeakMapGet(m, o) \/ WeakMapDelete(m, o)
               \/ \E m \in Maps, v \in Objects : WeakMapSet(m, o, v)
        PROVE  armed' = armed /\ debuggees' = debuggees
    BY <2>2 DEF Hold, Forget, SetEnabled, Unwatch, Trigger, HandlerReturns, Watch, WeakMapGet,
                WeakMapDelete, WeakMapSet
  <2>3. ASSUME NEW g \in debuggees, RemoveDebuggee(g)
        PROVE  armed' = armed /\ debuggees' \subseteq debuggees /\ "detach" \in DebuggerOps
    BY <2>3 DEF RemoveDebuggee
  <2> QED
    BY <1>4, <2>1, <2>2, <2>3 DEF Mutator
<1> QED
  BY <1>2, <1>3, <1>4 DEF Next, Collector, Steps

\* "If its script or debugger is collected, the breakpoint is destroyed"
\* (JSCompartment::sweepBreakpoints), when both are always collected together.
THEOREM BreakpointsDie == WeakMarkingAssumption /\ FullOnly => (Spec => []BreakpointDebuggerLive)
<1> SUFFICES ASSUME WeakMarkingAssumption, FullOnly
             PROVE  Spec => []BreakpointDebuggerLive
  OBVIOUS
<1>1. Init => BreakpointDebuggerLive
  <2> SUFFICES ASSUME Init
               PROVE  BreakpointDebuggerLive
    OBVIOUS
  <2>1. IndInv /\ live = Objects
    BY InitInv DEF Init
  <2> QED
    BY <2>1, Types DEF IndInv, BreakpointDebuggerLive
<1>2. IndInv /\ BreakpointDebuggerLive /\ [Next]_vars => BreakpointDebuggerLive'
  <2> SUFFICES ASSUME IndInv, BreakpointDebuggerLive, [Next]_vars
               PROVE  BreakpointDebuggerLive'
    OBVIOUS
  <2>1. CASE Sweep
    <3>1. /\ phase = "sweep" /\ armed' = SweepBreakpoints /\ live' = {o \in live : ~Dead(o)}
      BY <2>1 DEF Sweep
    <3>2. collecting = Comps
      BY <3>1 DEF IndInv, Typed
    <3>3. \A b \in armed : CompOf[b[2]] \in collecting
      BY <3>2, Types DEF IndInv
    <3> QED
      BY <3>1, <3>3 DEF SweepBreakpoints, BreakpointDebuggerLive
  <2>2. CASE ~Sweep
    BY <2>2, LiveKept DEF BreakpointDebuggerLive
  <2> QED
    BY <2>1, <2>2
<1>3. Spec => []IndInv
  BY Invariance
<1> QED
  BY <1>1, <1>2, <1>3, PTL DEF Spec

\* "Script is live, breakpoint exists, and debugger is live ==> the handler
\* object is live" (Debugger::markAllIteratively), for a debugger that stays
\* attached, enabled or not, and whatever compartments are collected.
THEOREM HandlersAreLive ==
  WeakMarkingAssumption /\ StaysAttached => (Spec => []BreakpointHandlerLive)
<1> SUFFICES ASSUME WeakMarkingAssumption, StaysAttached
             PROVE  Spec => []BreakpointHandlerLive
  OBVIOUS
<1>1. Init => Attached
  BY DEF Init, Attached, StaysAttached
<1>2. IndInv /\ IndInv' /\ Attached /\ [Next]_vars => Attached'
  <2> SUFFICES ASSUME IndInv, IndInv', Attached, [Next]_vars,
                      NEW b \in armed', b[1] \in live', b[2] \in live'
               PROVE  \E g \in debuggees' : g[1] \in Edges[b[2]] /\ g[2] = b[1]
    BY DEF Attached
  <2>1. CASE Sweep
    <3>1. /\ live' = {o \in live : ~Dead(o)} /\ armed' \subseteq armed
          /\ debuggees' = {g \in debuggees : ~Dead(g[1]) /\ ~Dead(g[2])}
      BY <2>1 DEF Sweep, SweepBreakpoints
    <3>2. PICK g \in debuggees : g[1] \in Edges[b[2]] /\ g[2] = b[1]
      BY <3>1 DEF Attached
    <3>3. g[1] \in live'
      BY <3>2 DEF IndInv, LiveClosed, Closed, EdgesIn
    <3> QED
      BY <3>1, <3>2, <3>3
  <2>2. CASE ~Sweep
    BY <2>2, LiveKept DEF Attached, StaysAttached
  <2> QED
    BY <2>1, <2>2
<1>3. IndInv /\ Attached => BreakpointHandlerLive
  <2> SUFFICES ASSUME IndInv, Attached, NEW b \in armed, b[1] \in live, b[2] \in live
               PROVE  b[3] \in live
    BY DEF BreakpointHandlerLive
  <2>1. PICK g \in debuggees : g[1] \in Edges[b[2]] /\ g[2] = b[1]
    BY DEF Attached
  <2>2. g[1] \in live
    BY <2>1 DEF IndInv, LiveClosed, Closed, EdgesIn
  <2> QED
    BY <2>1, <2>2 DEF IndInv, LiveClosed, Closed, DebuggersIn
<1>4. Spec => []IndInv
  BY Invariance
<1> QED
  BY <1>1, <1>2, <1>3, <1>4, PTL DEF Spec

=============================================================================
