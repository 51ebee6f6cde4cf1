----------------------------- MODULE WeakMarking -----------------------------
(***************************************************************************)
(* What a collection keeps alive beyond strong references: values of weak  *)
(* maps (jsweakmap.h, jsweakmap.cpp), closures of watchpoints              *)
(* (jswatchpoint.cpp) and debuggers with hooks (vm/Debugger.cpp).  Each of *)
(* them is live because something else is, so MarkWeakReferences passes    *)
(* over them until nothing new is marked.  A collection takes slices,      *)
(* between which the script uses the maps, and may leave compartments out. *)
(*                                                                         *)
(* The strong heap is a constant graph: IncrementalGC has the barriers of  *)
(* ordinary slots.  A wrapper is an object with an edge into another       *)
(* compartment.  Objects allocated during a collection are born marked     *)
(* (IncrementalGC) and are left out; so is the mark color, of which only   *)
(* the two rounds of MarkGrayAndWeak remain.                               *)
(***************************************************************************)
EXTENDS Integers, Sequences, FiniteSets, SequencesExt, FiniteSetsExt, Functions

CONSTANTS
    Objects, Maps,  \* things, and the WeakMap objects among them
    Edges,          \* the strong references of every object
    CompOf,         \* the compartment of every object
    GrayRoots,      \* what the embedding traces with gcGrayRootsTraceOp
    Debuggees,      \* <<global, debugger>> at first
    Hooks,          \* the debuggers with a hook such as onDebuggerStatement
    Breakpoints,    \* <<debugger, script, handler>> at first
    DebuggerOps,    \* which of "disable" and "detach" the debuggers' owners use
    FullOnly,       \* TRUE: every collection is of all compartments
    Watched,        \* the objects that may be watched
    MaxEntries,     \* bound: entries of the weak maps at first
    MaxOps          \* bound: what the script does

Comps == Range(CompOf)

WeakMarkingAssumption ==
    /\ {Maps, GrayRoots, Watched} \subseteq SUBSET Objects
    /\ Edges \in [Objects -> SUBSET Objects]
    /\ DOMAIN CompOf = Objects
    /\ Debuggees \subseteq Objects \X Objects /\ Hooks \subseteq Objects
    /\ Breakpoints \subseteq Objects \X Objects \X Objects
    /\ \A b \in Breakpoints : CompOf[b[3]] = CompOf[b[1]]
    /\ DebuggerOps \subseteq {"disable", "detach"}
    /\ FullOnly \in BOOLEAN /\ {MaxEntries, MaxOps} \subseteq Nat

VARIABLES
    live,        \* what is allocated
    roots,       \* what the script holds
    weak,        \* the entries <<key, value>> of every weak map
    watch,       \* the watchpoints: closure of every watched object
    held,        \* watched objects whose handler is running
    debuggees,   \* the pairs <<global, debugger>> that are attached
    enabled,     \* the debuggers that are enabled
    armed,       \* the breakpoints that exist
    marked,      \* mark bits
    todo,        \* the mark stack
    list,        \* rt->gcWeakMapList
    collecting,  \* the compartments being collected
    phase,       \* "js", "mark", "watch", "maps", "debug", "drain" or "sweep"
    visit,       \* the entries the pass has still to look at
    markedAny,   \* the pass's result so far
    gray,        \* the gray roots have been marked
    ops,         \* steps the script has taken
    snapshot     \* history: what was live when the collection began

debugVars == <<debuggees, enabled, armed>>
heapVars == <<live, roots, weak, watch, held, debugVars, ops>>
markVars == <<marked, todo, list, collecting, phase, visit, markedAny, gray, snapshot>>
vars == <<heapVars, markVars>>

-----------------------------------------------------------------------------
(* What is live. *)

Entries == UNION {{<<m, e[1], e[2]>> : e \in weak[m]} : m \in Maps}

\* What `seen` keeps alive in one step.
Keeps(seen) ==
    (UNION {Edges[o] : o \in seen})
    \cup {e[3] : e \in {x \in Entries : x[1] \in seen /\ x[2] \in seen}}
    \cup {watch[o] : o \in DOMAIN watch \cap (seen \cup held)}
    \cup (held \cap DOMAIN watch)
    \cup {g[2] : g \in {x \in debuggees : x[1] \in seen /\ x[2] \in enabled
              /\ (x[2] \in Hooks \/ \E b \in armed : b[1] = x[2] /\ b[2] \in seen)}}
    \cup {b[3] : b \in {x \in armed : {x[1], x[2]} \subseteq seen
              /\ \E g \in debuggees : g[1] \in seen /\ g[2] = x[1]}}

\* The reference definition: the least set that contains the roots and what
\* it keeps alive.
Reach(from) ==
    {o \in Objects : \A K \in SUBSET Objects : from \subseteq K /\ Keeps(K) \subseteq K => o \in K}

-----------------------------------------------------------------------------
\* A script of the map's compartment has put the entry there.
SomeEntries == {e \in Maps \X Objects \X Objects :
                   CompOf[e[1]] = CompOf[e[2]] /\ CompOf[e[1]] = CompOf[e[3]]}

Init ==
    /\ live = Objects
    /\ roots \in SUBSET Objects
    /\ \E es \in {{}} \cup {Range(f) : f \in [1..MaxEntries -> SomeEntries]} :
          /\ \A x, y \in es : x[1] = y[1] /\ x[2] = y[2] => x = y
          /\ weak = [m \in Maps |-> {<<e[2], e[3]>> : e \in {x \in es : x[1] = m}}]
    /\ \E ws \in {{}} \cup {{o} : o \in Watched} : watch \in [ws -> Objects]
    /\ \A o \in DOMAIN watch : CompOf[o] = CompOf[watch[o]]
    /\ held = {}
    /\ debuggees = Debuggees /\ armed = Breakpoints /\ enabled = {g[2] : g \in Debuggees}
    /\ marked = {} /\ todo = {} /\ list = <<>> /\ collecting = {} /\ phase = "js"
    /\ visit = {} /\ markedAny = FALSE /\ gray = FALSE /\ ops = 0 /\ snapshot = {}

-----------------------------------------------------------------------------
(* Marking. *)

Dead(o) == CompOf[o] \in collecting /\ o \notin marked

\* MarkObject: what is collected and not yet marked goes on the mark stack.
Mark(os) ==
    /\ marked' = marked \cup {o \in os : CompOf[o] \in collecting}
    /\ todo' = todo \cup {o \in os : Dead(o)}

ResetWeakMapList == list' = <<>>

\* BeginMarkPhase: roots, and what wrappers of other compartments refer to.
BeginMark(cs) ==
    /\ phase = "js" /\ collecting = {}
    /\ collecting' = cs
    /\ ResetWeakMapList
    /\ LET wrapped == UNION {Edges[o] : o \in {p \in live : CompOf[p] \notin cs}}
           from == {o \in roots \cup wrapped : CompOf[o] \in cs}
           others == {o \in live : CompOf[o] \notin cs}
       IN  /\ marked' = from
           /\ todo' = from
           /\ snapshot' = Reach(roots \cup GrayRoots \cup others)
    /\ phase' = "mark"
    /\ gray' = FALSE
    /\ UNCHANGED <<heapVars, visit, markedAny>>

\* WeakMapBase::trace.
Link(o) == IF o \in Maps /\ ~Contains(list, o) THEN <<o>> \o list ELSE list

\* drainMarkStack, one thing at a time; delayed marking may trace a thing again.
Trace(o) ==
    /\ phase \in {"mark", "drain"}
    /\ o \in todo
    /\ list' = Link(o)
    /\ marked' = marked \cup {p \in Edges[o] : CompOf[p] \in collecting}
    /\ \E again \in IF o \in Maps /\ ~Contains(list, o) THEN {{}, {o}} ELSE {{}} :
          todo' = (todo \ {o}) \cup again \cup {p \in Edges[o] : Dead(p)}
    /\ UNCHANGED <<heapVars, collecting, phase, visit, markedAny, gray, snapshot>>

-----------------------------------------------------------------------------
(* MarkWeakReferences: pass after pass, from the first again when a pass has *)
(* marked anything.                                                          *)

WatchEntries == {<<o, watch[o]>> : o \in {p \in DOMAIN watch : CompOf[p] \in collecting}}

Listed == {e \in Entries : Contains(list, e[1])}

EndMark ==
    /\ phase = "mark" /\ todo = {}
    /\ phase' = "watch" /\ visit' = WatchEntries /\ markedAny' = FALSE
    /\ UNCHANGED <<heapVars, marked, todo, list, collecting, gray, snapshot>>

\* WatchpointMap::markIteratively: what a watchpoint keeps alive.
VisitWatch(e) == IF ~Dead(e[1]) \/ e[1] \in held THEN {e[1], e[2]} ELSE {}

\* WeakMap::markIteratively.
VisitMap(e) == IF ~Dead(e[2]) THEN {e[3]} ELSE {}

Visit(e, keeps) ==
    /\ Mark(keeps)
    /\ markedAny' = (markedAny \/ \E o \in keeps : Dead(o))
    /\ visit' = visit \ {e}
    /\ UNCHANGED <<heapVars, list, collecting, phase, gray, snapshot>>

WatchPass == phase = "watch" /\ \E e \in visit : Visit(e, VisitWatch(e))
MapPass == phase = "maps" /\ \E e \in visit : Visit(e, VisitMap(e))

\* Bug: a breakpoint counts whether its script is live or not.
AnyHooks(d) == d \in enabled /\ (d \in Hooks \/ \E b \in armed : b[1] = d)

\* hasAnyLiveHooks.
LiveHooks(d) ==
    d \in enabled /\ (d \in Hooks \/ \E b \in armed : b[1] = d /\ ~Dead(b[2]))

\* Bug: handlers are marked only for a debugger that is enabled.
VisitDebuggeeEnabled(e) ==
    IF Dead(e[1]) \/ CompOf[e[2]] \notin collecting \/ ~LiveHooks(e[2]) THEN {}
    ELSE {e[2]} \cup {b[3] : b \in {x \in armed : x[1] = e[2] /\ ~Dead(x[2])}}

\* Debugger::markAllIteratively for one debuggee and debugger.
VisitDebuggee(e) ==
    IF Dead(e[1]) \/ CompOf[e[2]] \notin collecting \/ (Dead(e[2]) /\ ~LiveHooks(e[2]))
    THEN {}
    ELSE {e[2]} \cup {b[3] : b \in {x \in armed : x[1] = e[2] /\ ~Dead(x[2])}}

DebugPass == phase = "debug" /\ \E e \in visit : Visit(e, VisitDebuggee(e))

\* A pass that has marked something: drain, and begin again.
PassMarked ==
    /\ phase \in {"watch", "maps", "debug"} /\ visit = {} /\ markedAny
    /\ phase' = "drain"
    /\ UNCHANGED <<heapVars, marked, todo, list, collecting, visit, markedAny, gray, snapshot>>

Drained ==
    /\ phase = "drain" /\ todo = {}
    /\ phase' = "watch" /\ visit' = WatchEntries /\ markedAny' = FALSE
    /\ UNCHANGED <<heapVars, marked, todo, list, collecting, gray, snapshot>>

\* A pass that has marked nothing is followed by the next one.
NextPass ==
    \/ phase = "watch" /\ phase' = "maps" /\ visit' = Listed
    \/ phase = "maps" /\ phase' = "debug" /\ visit' = debuggees

PassDone ==
    /\ visit = {} /\ ~markedAny
    /\ NextPass
    /\ UNCHANGED <<heapVars, marked, todo, list, collecting, markedAny, gray, snapshot>>

\* MarkGrayAndWeak: the gray roots, and all of it once more.
MarkGray ==
    /\ phase = "debug" /\ visit = {} /\ ~markedAny /\ ~gray
    /\ Mark(GrayRoots)
    /\ gray' = TRUE
    /\ phase' = "drain"
    /\ UNCHANGED <<heapVars, list, collecting, visit, markedAny, snapshot>>

MarkingDone ==
    /\ phase = "debug" /\ visit = {} /\ ~markedAny /\ gray
    /\ phase' = "sweep"
    /\ UNCHANGED <<heapVars, marked, todo, list, collecting, visit, markedAny, gray, snapshot>>

\* WeakMapBase::sweepAll.
SweepMap(m) == IF Contains(list, m) THEN {e \in weak[m] : ~Dead(e[1])} ELSE weak[m]

\* JSCompartment::sweepBreakpoints, for the scripts of a collected compartment.
SweepBreakpoints ==
    {b \in armed : CompOf[b[2]] \in collecting => ~Dead(b[1]) /\ ~Dead(b[2])}

\* SweepPhase: weak maps of the list, watchpoints, Debugger::sweepAll, the
\* compartments' breakpoints, then the things.
Sweep ==
    /\ phase = "sweep"
    /\ weak' = [m \in Maps |-> SweepMap(m)]
    /\ watch' = Restrict(watch, {o \in DOMAIN watch : ~Dead(o)})
    /\ debuggees' = {g \in debuggees : ~Dead(g[1]) /\ ~Dead(g[2])}
    /\ armed' = SweepBreakpoints
    /\ live' = {o \in live : ~Dead(o)}
    /\ collecting' = {} /\ phase' = "js"
    /\ UNCHANGED <<roots, held, enabled, ops, marked, todo, list, visit, markedAny, gray, snapshot>>

\* ResetIncrementalGC.
Reset ==
    /\ phase = "mark"
    /\ todo' = {} /\ collecting' = {} /\ phase' = "js"
    /\ UNCHANGED <<heapVars, marked, list, visit, markedAny, gray, snapshot>>

-----------------------------------------------------------------------------
(* The script, between collections and between slices. *)

Script == phase \in {"js", "mark"} /\ ops < MaxOps /\ ops' = ops + 1

\* HeapPtr: what is overwritten or removed during a collection is marked.
\* Outside of one nothing is collected and Mark does nothing.
PreBarrier(os) == Mark(os)

Unmarking == <<list, collecting, phase, visit, markedAny, gray, snapshot>>

Hold(o) ==
    /\ Script
    /\ o \in (UNION {Edges[p] : p \in roots}) \ roots
    /\ roots' = roots \cup {o}
    /\ UNCHANGED <<live, weak, watch, held, debugVars, markVars>>

\* What a handler is running for stays on the stack (AutoEntryHolder::obj).
Forget(o) ==
    /\ Script
    /\ o \in roots \ held
    /\ roots' = roots \ {o}
    /\ UNCHANGED <<live, weak, watch, held, debugVars, markVars>>

\* GetKeyArg: a wrapper stands for what it wraps.
Unwrap(o) ==
    LET inside == {p \in Edges[o] : CompOf[p] # CompOf[o]}
    IN  IF inside = {} THEN o ELSE CHOOSE p \in inside : TRUE

\* Bug: the entry is replaced without the barrier.
PutBare(m, k, v) ==
    /\ weak' = [weak EXCEPT ![m] = {e \in @ : e[1] # k} \cup {<<k, v>>}]
    /\ UNCHANGED <<marked, todo>>

\* HashMap::put: an existing entry is assigned to.
Put(m, k, v) ==
    /\ weak' = [weak EXCEPT ![m] = {e \in @ : e[1] # k} \cup {<<k, v>>}]
    /\ PreBarrier({e[2] : e \in {x \in weak[m] : x[1] = k}})

WeakMapSet(m, o, v) ==
    /\ Script
    /\ {m, o, v} \subseteq roots /\ {CompOf[o], CompOf[v]} = {CompOf[m]}
    /\ Put(m, Unwrap(o), v)
    /\ UNCHANGED <<live, roots, watch, held, debugVars, Unmarking>>

WeakMapGet(m, o) ==
    /\ Script
    /\ {m, o} \subseteq roots /\ CompOf[o] = CompOf[m]
    /\ \E e \in weak[m] : e[1] = Unwrap(o) /\ e[2] \notin roots /\ roots' = roots \cup {e[2]}
    /\ UNCHANGED <<live, weak, watch, held, debugVars, markVars>>

WeakMapDelete(m, o) ==
    /\ Script
    /\ {m, o} \subseteq roots /\ CompOf[o] = CompOf[m]
    /\ \E e \in weak[m] :
          /\ e[1] = Unwrap(o)
          /\ weak' = [weak EXCEPT ![m] = @ \ {e}]
          /\ PreBarrier({e[1], e[2]})
    /\ UNCHANGED <<live, roots, watch, held, debugVars, Unmarking>>

\* WatchpointMap::watch; the entry it replaces is assigned to.
Watch(o, c) ==
    /\ Script
    /\ o \in Watched /\ {o, c} \subseteq roots /\ CompOf[o] = CompOf[c]
    /\ watch' = [p \in DOMAIN watch \cup {o} |-> IF p = o THEN c ELSE watch[p]]
    /\ held' = held \ {o}
    /\ PreBarrier({watch[p] : p \in {o} \cap DOMAIN watch})
    /\ UNCHANGED <<live, roots, weak, debugVars, Unmarking>>

Unwatch(o) ==
    /\ Script
    /\ o \in roots \cap DOMAIN watch
    /\ watch' = Restrict(watch, DOMAIN watch \ {o})
    /\ held' = held \ {o}
    /\ PreBarrier({o, watch[o]})
    /\ UNCHANGED <<live, roots, weak, debugVars, Unmarking>>

\* triggerWatchpoint: the handler gets the closure.
Trigger(o) ==
    /\ Script
    /\ o \in (roots \cap DOMAIN watch) \ held
    /\ held' = held \cup {o}
    /\ roots' = roots \cup {watch[o]}
    /\ UNCHANGED <<live, weak, watch, debugVars, markVars>>

\* ~AutoEntryHolder.
HandlerReturns(o) ==
    /\ Script
    /\ o \in held
    /\ held' = held \ {o}
    /\ UNCHANGED <<live, roots, weak, watch, debugVars, markVars>>

\* Debugger::setEnabled.
SetEnabled(d) ==
    /\ Script
    /\ "disable" \in DebuggerOps
    /\ d \in roots /\ d \in {g[2] : g \in Debuggees}
    /\ enabled' = (enabled \ {d}) \cup ({d} \ enabled)
    /\ UNCHANGED <<live, roots, weak, watch, held, debuggees, armed, markVars>>

\* Debugger::removeDebuggee; breakpoints stay.
RemoveDebuggee(g) ==
    /\ Script
    /\ "detach" \in DebuggerOps
    /\ g \in debuggees /\ {g[1], g[2]} \subseteq roots
    /\ debuggees' = debuggees \ {g}
    /\ UNCHANGED <<live, roots, weak, watch, held, enabled, armed, markVars>>

-----------------------------------------------------------------------------
Collections == IF FullOnly THEN {Comps} ELSE (SUBSET Comps) \ {{}}

Collector ==
    \/ \E o \in Objects : Trace(o)
    \/ EndMark \/ WatchPass \/ MapPass \/ DebugPass
    \/ PassMarked \/ Drained \/ PassDone \/ MarkGray \/ MarkingDone \/ Sweep

Mutator ==
    \/ \E g \in debuggees : RemoveDebuggee(g)
    \/ \E o \in Objects :
        \/ Hold(o) \/ Forget(o) \/ SetEnabled(o) \/ Unwatch(o) \/ Trigger(o) \/ HandlerReturns(o)
        \/ \E c \in Objects : Watch(o, c)
        \/ \E m \in Maps : WeakMapGet(m, o) \/ WeakMapDelete(m, o)
        \/ \E m \in Maps, v \in Objects : WeakMapSet(m, o, v)

Next == (\E cs \in Collections : BeginMark(cs)) \/ Reset \/ Collector \/ Mutator

Spec == Init /\ [][Next]_vars
LiveSpec == Spec /\ WF_vars(Collector)

-----------------------------------------------------------------------------
(* Properties. *)

\* Every variable has its type; the passes look at entries only in their phase.
TypeOK ==
    /\ {live, roots, held, marked, todo} \subseteq SUBSET Objects
    /\ weak \in [Maps -> SUBSET (Objects \X Objects)]
    /\ DOMAIN watch \subseteq Objects /\ Range(watch) \subseteq Objects
    /\ debuggees \subseteq Debuggees /\ armed \subseteq Breakpoints
    /\ enabled \subseteq Objects
    /\ Range(list) \subseteq Maps
    /\ collecting \subseteq Comps
    /\ phase \in {"js", "mark", "watch", "maps", "debug", "drain", "sweep"}
    /\ todo \subseteq marked /\ (phase = "js" => todo = {})
    /\ visit # {} => phase \in {"watch", "maps", "debug"}
    /\ {markedAny, gray} \subseteq BOOLEAN /\ ops \in 0..MaxOps

\* Nothing that the script, the embedding, a weak map with a live key, a
\* watchpoint or a debugger can still use is finalized, or about to be when the
\* sweep begins, whatever the script did between the slices.
NothingLiveFinalized ==
    \A o \in Reach(roots \cup GrayRoots) : o \in live /\ (phase = "sweep" => ~Dead(o))

\* "Remove entries whose keys are dead from all weak maps marked as live":
\* a map that is alive refers to nothing that has been finalized.
NoDanglingEntry ==
    \A m \in Maps \cap live : \A e \in weak[m] : {e[1], e[2]} \subseteq live

\* Watchpoints whose object is alive have a closure; a held one is not swept
\* (WatchpointMap::sweep: JS_ASSERT(!e.value.held)).
WatchpointsLive ==
    /\ \A o \in DOMAIN watch : {o, watch[o]} \subseteq live
    /\ held \subseteq DOMAIN watch

\* Nothing is kept that was not live when the collection began: an entry with
\* a dead key does not keep its value.
OnlySnapshotMarked ==
    phase # "js" => {o \in marked : CompOf[o] \in collecting} \subseteq snapshot

\* gcWeakMapList has every map once (it would never end otherwise), and no map
\* in it has been finalized (WeakMapBase::check).
ListSound == IsInjective(list) /\ Range(list) \subseteq live

\* "If its script or debugger is collected, the breakpoint is destroyed":
\* what a breakpoint's two lists are part of is still there.
BreakpointDebuggerLive == \A b \in armed : {b[1], b[2]} \subseteq live

\* "Script is live, breakpoint exists, and debugger is live ==> the handler
\* object is live".
BreakpointHandlerLive ==
    \A b \in armed : {b[1], b[2]} \subseteq live => b[3] \in live

\* The rounds of MarkWeakReferences come to an end.
WeakMarkingEnds == (phase = "watch") ~> (phase = "js")
=============================================================================
