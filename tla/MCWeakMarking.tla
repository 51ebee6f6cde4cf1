---------------------------- MODULE MCWeakMarking ----------------------------
(* Small heaps for WeakMarking.  A behaviour has the heap of one family: m   *)
(* and n are weak maps, a and b plain objects, g is a global with a debugger *)
(* d, s a script of it with a breakpoint whose handler is h, and w wraps k,  *)
(* an object of another compartment.                                         *)
EXTENDS Integers, Sequences, TLC

CONSTANTS
    Checked,      \* the families that a run checks
    m, n, a, b, g, d, s, h, k, w

VARIABLES
    family, live, roots, weak, watch, held, debuggees, enabled, armed, marked, todo, list,
    collecting, phase, visit, markedAny, gray, ops, snapshot

vars ==
    <<family, live, roots, weak, watch, held, debuggees, enabled, armed, marked, todo, list,
      collecting, phase, visit, markedAny, gray, ops, snapshot>>

OneComp(os) == [o \in os |-> 1]
NoEdges(os) == [o \in os |-> {}]

DebugObjects == {m, g, d, s, h}
DebugEdges == [o \in DebugObjects |-> CASE o = h -> {m} [] o = s -> {g} [] OTHER -> {}]
DebugComp == [o \in DebugObjects |-> IF o \in {g, s} THEN 1 ELSE 2]
HookObjects == {m, g, d, a}
CompsObjects == {m, w, k, a}

Plain == [gray |-> {}, debuggees |-> {}, hooks |-> {}, points |-> {}, debugOps |-> {},
          full |-> TRUE, watched |-> {}, entries |-> 0, ops |-> 2]
Points == [points |-> {<<d, s, h>>}, debuggees |-> {<<g, d>>}]

(* maps: chains of weak map entries.  puts: entries that are made, replaced  *)
(* and deleted between slices.  watch: watchpoints and their handlers.       *)
(* debug: a breakpoint whose global only the embedding holds, with all       *)
(* compartments collected.  debugComps, hooks: debugger and debuggee are      *)
(* collected separately.  The others show where the code breaks its promise: *)
(* a key of another compartment, a debugger that is disabled or detached.    *)
Families ==
    [maps |-> [objects |-> {m, n, a}, maps |-> {m, n}, edges |-> NoEdges({m, n, a}),
               comp |-> OneComp({m, n, a})] @@ [Plain EXCEPT !.entries = 2, !.ops = 1],
     puts |-> [objects |-> {m, a, b}, maps |-> {m}, edges |-> NoEdges({m, a, b}),
               comp |-> OneComp({m, a, b})] @@ [Plain EXCEPT !.entries = 1, !.ops = 3],
     watch |-> [objects |-> {m, a}, maps |-> {m}, edges |-> NoEdges({m, a}),
                comp |-> OneComp({m, a})]
               @@ [Plain EXCEPT !.watched = {m, a}, !.entries = 1, !.ops = 3],
     debug |-> [objects |-> DebugObjects, maps |-> {m}, edges |-> DebugEdges, comp |-> DebugComp]
               @@ Points @@ [Plain EXCEPT !.gray = {g}, !.debugOps = {"disable", "detach"}],
     debugComps |-> [objects |-> DebugObjects, maps |-> {m}, edges |-> DebugEdges,
                     comp |-> DebugComp]
                    @@ Points @@ [Plain EXCEPT !.full = FALSE, !.debugOps = {"disable"}],
     hooks |-> [objects |-> HookObjects, maps |-> {m},
                edges |-> [o \in HookObjects |-> IF o = d THEN {m} ELSE {}],
                comp |-> [o \in HookObjects |-> IF o = g THEN 1 ELSE 2],
                debuggees |-> {<<g, d>>}, hooks |-> {d}]
               @@ [Plain EXCEPT !.debugOps = {"disable"}, !.full = FALSE, !.entries = 1, !.ops = 1],
     foreignKey |-> [objects |-> CompsObjects, maps |-> {m},
                     edges |-> [o \in CompsObjects |-> IF o = w THEN {k} ELSE {}],
                     comp |-> [o \in CompsObjects |-> IF o = k THEN 2 ELSE 1]]
                    @@ [Plain EXCEPT !.full = FALSE, !.ops = 3],
     disabled |-> [objects |-> DebugObjects, maps |-> {m}, edges |-> DebugEdges,
                   comp |-> DebugComp]
                  @@ Points @@ [Plain EXCEPT !.full = FALSE, !.debugOps = {"disable"}],
     detached |-> [objects |-> DebugObjects, maps |-> {m}, edges |-> DebugEdges,
                   comp |-> DebugComp] @@ Points @@ [Plain EXCEPT !.debugOps = {"detach"}]]

Heap(f) == INSTANCE WeakMarking WITH
    Objects <- Families[f].objects, Maps <- Families[f].maps, Edges <- Families[f].edges,
    CompOf <- Families[f].comp, GrayRoots <- Families[f].gray,
    Debuggees <- Families[f].debuggees, Hooks <- Families[f].hooks,
    Breakpoints <- Families[f].points, DebuggerOps <- Families[f].debugOps,
    FullOnly <- Families[f].full, Watched <- Families[f].watched,
    MaxEntries <- Families[f].entries, MaxOps <- Families[f].ops

ASSUME FamiliesAssumption == \A f \in Checked : Heap(f)!WeakMarkingAssumption

Init == \E f \in Checked : family = f /\ Heap(f)!Init
Next == \E f \in Checked : family = f /\ Heap(f)!Next /\ UNCHANGED family
Spec == Init /\ [][Next]_vars

(* The properties of WeakMarking, for the heap of each family.              *)

\* What the script, the embedding, a weak map, a watchpoint or a debugger can
\* still use is not finalized, and nothing is kept that was not live when the
\* collection began.
MarkingExact ==
    \A f \in Checked : family = f =>
        Heap(f)!NothingLiveFinalized /\ Heap(f)!OnlySnapshotMarked

\* What is alive refers to nothing that has been finalized: a weak map's
\* entries, gcWeakMapList, a watchpoint's object and closure, a breakpoint's
\* script and debugger (when they are collected together) and its handler (as
\* long as the debugger is attached).
ReferencesLive ==
    \A f \in Checked : family = f =>
        /\ Heap(f)!TypeOK /\ Heap(f)!NoDanglingEntry /\ Heap(f)!ListSound
        /\ f = "watch" => Heap(f)!WatchpointsLive
        /\ f # "debugComps" => Heap(f)!BreakpointDebuggerLive
        /\ f # "debug" => Heap(f)!BreakpointHandlerLive
=============================================================================
