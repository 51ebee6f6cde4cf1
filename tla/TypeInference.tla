---------------------------- MODULE TypeInference ----------------------------
(***************************************************************************)
(* The type inference of jsinfer.cpp and the code that depends on it.      *)
(*                                                                         *)
(* Every property and every instruction that reads one has a type set.     *)
(* The analysis of a script adds constraints between the sets; a type that *)
(* enters a set is handed to the set's constraints through one worklist,   *)
(* resolved last in, first out.  A read whose property may hold types not  *)
(* yet seen there carries type barriers instead of the types.  A compiler  *)
(* that relies on a set leaves a freeze constraint on it, which asks for   *)
(* the code to be thrown away when the set changes; that is done when the  *)
(* outermost inference activation ends, before any script runs again.  A   *)
(* failed allocation leaves the sets inconsistent, and inference is then   *)
(* given up for the compartment and all its code released.                 *)
(***************************************************************************)
EXTENDS Integers, Sequences, SequencesExt, FiniteSets, FiniteSetsExt

CONSTANTS
    Scripts,
    Sets,             \* type sets
    Transient,        \* the sets that live in a script's analysis
    Observed,         \* [read's own set -> [script, source]]: bytecodeTypes
    Objects,          \* type objects and singletons
    UnknownProps,     \* objects with unknown properties
    Contributed,      \* objects whose contribution has reached CONTRIBUTION_LIMIT
    Analysis,         \* [Scripts -> Seq(op)]: the ops of analyzeTypes
    Compilation,      \* [Jits -> [Scripts -> Seq(op)]]: what a compiler asks for
    Writes,           \* {<<set, type>>}: types that interpreted code stores
    ObjectLimit,      \* TYPE_FLAG_OBJECT_COUNT_LIMIT
    BarrierLimit,     \* objects at which getObjectCount reaches BARRIER_OBJECT_LIMIT
    Breaks,           \* the reads whose barriers AnalyzeNewScriptProperties breaks
    MaxCompiles, MaxGCs, MaxOoms,   \* bounds of a behaviour
    SweepOom          \* whether an allocation of the sweep may fail

Jits == {"ion", "mjit"}
Prims == {"int", "double"}
Types == Prims \cup Objects \cup {"anyobject", "unknown"}
Reads == DOMAIN Observed

(* What analyzeTypes does with the sets, and what a compiler asks of them. *)
FlowCons ==
    [kind : {"subset"}, target : Sets] \cup [kind : {"barrier"}, target : Reads]
BarrierOp(r) == [op |-> "constraint", set |-> Observed[r].source,
                 con |-> [kind |-> "barrier", target |-> r]]
AnalysisOps ==
    [op : {"type"}, set : Sets, type : Types]
        \cup [op : {"constraint"}, set : Sets, con : FlowCons]
CompileOps ==
    [op : {"freeze", "tag"}, set : Sets] \cup [op : {"site"}, set : Reads]
        \cup [op : {"inline"}, script : Scripts]

(* A script is compiled with its own reads, and its analysis has left the  *)
(* barrier constraint of each (analyzeTypesBytecode).                       *)
ProgramAssumption ==
    /\ {BarrierLimit, ObjectLimit} \subseteq Nat
    /\ 0 < BarrierLimit /\ BarrierLimit < ObjectLimit
    /\ Sets \cap Scripts = {}
    /\ Objects \cap {"int", "double", "anyobject", "unknown"} = {}
    /\ Reads \subseteq Sets
    /\ Observed \in [Reads -> [script : Scripts, source : Sets]]
    /\ Analysis \in [Scripts -> Seq(AnalysisOps)]
    /\ Compilation \in [Jits -> [Scripts -> Seq(CompileOps)]]
    /\ \A j \in Jits, s \in Scripts : \A i \in DOMAIN Compilation[j][s] :
          Compilation[j][s][i].op = "site" =>
              LET r == Compilation[j][s][i].set
              IN Observed[r].script = s /\ Contains(Analysis[s], BarrierOp(r))
    /\ Writes \subseteq Sets \X Types
    /\ Transient \subseteq Sets /\ Breaks \subseteq Reads

VARIABLES
    ti,          \* type sets, constraints, worklist, code: see TypeOK
    active,      \* compartment->activeInference
    todo,        \* what the current activation has still to do
    compiling,   \* the compilation in progress, or NoCompile
    ran,         \* the scripts whose analysis ranInference()
    enabled,     \* types.inferenceEnabled
    disabled,    \* <<script, jit>> with ION_DISABLED_SCRIPT or unjittable
    request,     \* the call of CanMethodJIT in progress, or NoRequest
    compiles, gcs, ooms

vars == <<ti, active, todo, compiling, ran, enabled, disabled, request,
          compiles, gcs, ooms>>

NoCompile == [jit |-> "none"]
NoRequest == [kind |-> "none"]
NoCode == [compiled |-> FALSE, reads |-> {}]

-----------------------------------------------------------------------------
(* Type sets. *)

HasType(T, t) ==
    \/ "unknown" \in T
    \/ t \in T
    \/ t \in Objects /\ "anyobject" \in T

(* The objects of a set.  getObjectCount gives the capacity of the hash set *)
(* once there are more than 8, so BARRIER_OBJECT_LIMIT (10) is reached by   *)
(* the ninth; the limit of addType is one of the count itself.              *)
ObjectsOf(T) == T \cap Objects

GetKnownTypeTag(T) ==
    CASE T # {} /\ T \subseteq Objects \cup {"anyobject"} -> "object"
      [] T = {"int"} -> "int"
      [] T = {"int", "double"} -> "double"
      [] OTHER -> "unknown"

(* What a set is after a type was added, and the type its constraints see. *)
Widen(T) == [set |-> (T \ Objects) \cup {"anyobject"}, type |-> "anyobject"]

Insert(T, t) ==
    CASE t = "unknown" -> [set |-> {"unknown"}, type |-> t]
      [] t = "double" -> [set |-> T \cup Prims, type |-> t]
      [] t = "int" -> [set |-> T \cup {t}, type |-> t]
      [] t = "anyobject" -> Widen(T)
      [] OTHER -> IF \/ Cardinality(ObjectsOf(T)) + 1 = ObjectLimit
                     \/ t \in UnknownProps
                     \/ t \in Contributed /\ ObjectsOf(T) # {}
                  THEN Widen(T)
                  ELSE [set |-> T \cup {t}, type |-> t]

(* addPending for every constraint of the set, the newest first. *)
Enqueue(st, s, t) ==
    LET n == Len(st.cons[s])
    IN [st EXCEPT !.pending =
            @ \o [i \in 1..n |-> [set |-> s, con |-> n + 1 - i, type |-> t]]]

(* Mutant: a type that is there already is added again. *)
AddsAlways(T, t) == "unknown" \notin T

(* TypeSet::addType stops at a type that adds nothing to the set. *)
Adds(T, t) == ~HasType(T, t)

AddType(st, s, t) ==
    IF ~Adds(st.types[s], t) THEN st
    ELSE LET new == Insert(st.types[s], t)
         IN Enqueue([st EXCEPT !.types[s] = new.set], s, new.type)

(* Mutant: the types the set already has are forgotten. *)
ExistingNone(T) == <<>>

(* TypeSet::add: the types the set already has are enqueued too.  Int and   *)
(* double come first, then the objects.                                     *)
Existing(T) ==
    IF "unknown" \in T THEN <<"unknown">>
    ELSE SetToSeq(T \cap Prims) \o
         IF "anyobject" \in T THEN <<"anyobject">> ELSE SetToSeq(ObjectsOf(T))

AddConstraint(st, s, con, callExisting) ==
    LET n == Len(st.cons[s]) + 1
        ts == IF callExisting THEN Existing(st.types[s]) ELSE <<>>
    IN [st EXCEPT !.cons[s] = Append(@, con),
                  !.pending = @ \o [i \in DOMAIN ts |->
                                      [set |-> s, con |-> n, type |-> ts[i]]]]

-----------------------------------------------------------------------------
(* Recompilation and type barriers. *)

HasJITCode(st, script) == \E j \in Jits : st.code[script][j].compiled

AddPendingRecompile(st, script) ==
    IF HasJITCode(st, script)
    THEN [st EXCEPT !.recompiles = @ \cup {script}]
    ELSE st

(* ObjectStateChange(.., force): whoever inlined the script is recompiled. *)
InlinersOf(st, script) ==
    {st.cons[script][i].script : i \in DOMAIN st.cons[script]}

(* The first barrier at a read: the code there does not check for any. *)
NewBarrierSite(st, script) ==
    [st EXCEPT !.recompiles =
        @ \cup {x \in {script} \cup InlinersOf(st, script) : HasJITCode(st, x)}]

AddTypeBarrier(st, r, t) ==
    IF t \in Objects /\ Cardinality(ObjectsOf(st.types[r])) >= BarrierLimit
    THEN AddType(st, r, t)
    ELSE LET st1 == IF st.barriers[r] = <<>>
                    THEN NewBarrierSite(st, Observed[r].script)
                    ELSE st
         IN IF Contains(st.barriers[r], t) THEN st1
            ELSE [st1 EXCEPT !.barriers[r] = <<t>> \o @]

(* One turn of the loops over the barriers of a read.  A barrier whose type *)
(* is there by now is dropped, a broken one adds its type, others are kept. *)
(* The loops hold `resolving', so that types they add are only enqueued.    *)
Broken(st, r, t, how) ==
    \/ how = "all"
    \/ /\ how = "limit" /\ t \in Objects
       /\ Cardinality(ObjectsOf(st.types[r])) >= BarrierLimit

Visit(st, r, t, how) ==
    CASE HasType(st.types[r], t) -> st
      [] ~HasType(st.types[r], t) /\ Broken(st, r, t, how) -> AddType(st, r, t)
      [] OTHER -> [st EXCEPT !.barriers[r] = Append(@, t)]

VisitBarriers(st, r, how) ==
    LET barriers == st.barriers[r]
        after[k \in 0 .. Len(barriers)] ==
            IF k = 0 THEN [st EXCEPT !.barriers[r] = <<>>]
            ELSE Visit(after[k - 1], r, barriers[k], how)
    IN after[Len(barriers)]

PruneTypeBarriers(st, r) == VisitBarriers(st, r, "none")

BreakTypeBarriers(st, r, all) ==
    VisitBarriers(PruneTypeBarriers(st, r), r, IF all THEN "all" ELSE "limit")

(* resolvePending takes the work added last. *)
Take(work) == [item |-> Last(work), rest |-> Front(work)]

(* newType of the constraints. *)
Fire(st, s, i) ==
    AddPendingRecompile([st EXCEPT !.cons[s][i].fired = TRUE], st.cons[s][i].script)

TagKept(st, s, t) == t \in Objects /\ Cardinality(ObjectsOf(st.types[s])) >= 2

NewType(st, s, i, t) ==
    LET c == st.cons[s][i]
    IN CASE c.kind = "subset" -> AddType(st, c.target, t)
         [] c.kind = "barrier" -> IF HasType(st.types[c.target], t) THEN st
                                  ELSE AddTypeBarrier(st, c.target, t)
         [] c.kind = "freeze" -> IF c.fired THEN st ELSE Fire(st, s, i)
         [] c.kind = "tag" -> IF c.fired \/ TagKept(st, s, t) THEN st
                              ELSE Fire(st, s, i)

-----------------------------------------------------------------------------
(* What compilers ask of the sets.                                          *)

FreezeBy(kind, script) == [kind |-> kind, script |-> script, fired |-> FALSE]

(* getKnownTypeTag and addFreeze leave a constraint on the set; reading the *)
(* barriers of an instruction prunes them first, and the method JIT also    *)
(* freezes a set it checks values against.                                  *)
ReadSet(st, op) ==
    LET T == st.types[op.set]
        by == compiling.script
        freeze(kind) == AddConstraint(st, op.set, FreezeBy(kind, by), FALSE)
        pruned == PruneTypeBarriers(st, op.set)
    IN CASE op.op = "freeze" -> freeze("freeze")
         [] op.op = "tag" -> IF T = {} \/ GetKnownTypeTag(T) # "unknown"
                             THEN freeze("tag") ELSE st
         [] op.op = "site" ->
              IF pruned.barriers[op.set] # <<>> /\ compiling.jit = "mjit"
              THEN AddConstraint(pruned, op.set, FreezeBy("freeze", by), FALSE)
              ELSE pruned

(* What the code relies on from then on. *)
Reliance(st, op) ==
    LET T == st.types[op.set]
        unchecked == PruneTypeBarriers(st, op.set).barriers[op.set] = <<>>
    IN CASE op.op = "freeze" -> {[kind |-> "freeze", set |-> op.set, types |-> T]}
         [] op.op = "tag" -> IF T = {} \/ GetKnownTypeTag(T) # "unknown"
                             THEN {[kind |-> "tag", set |-> op.set, types |-> T]}
                             ELSE {}
         [] op.op = "site" -> IF unchecked
                              THEN {[kind |-> "unchecked", set |-> op.set, types |-> T]}
                              ELSE {}

(* Mutant: every callee is inlined. *)
CanInlineAny(callee) == TRUE

(* canEnterInlinedFunction: a callee that was not analysed is not inlined,  *)
(* so that no type changes while the caller is being compiled.              *)
CanInline(callee) == callee \in ran

(* JSScript::ensureRanInference. *)
EnsureRanInference(script) ==
    (IF script \in ran THEN <<>> ELSE <<[op |-> "ran", script |-> script]>> \o Analysis[script])
        \o <<[op |-> "ensured", script |-> script]>>

-----------------------------------------------------------------------------
TypeOK ==
    /\ ti.types \in [Sets -> SUBSET Types]
    /\ \A s \in Sets : "unknown" \in ti.types[s] => ti.types[s] = {"unknown"}
    /\ \A s \in Sets : "anyobject" \in ti.types[s] => ObjectsOf(ti.types[s]) = {}
    /\ \A s \in Sets : Cardinality(ObjectsOf(ti.types[s])) < ObjectLimit
    /\ DOMAIN ti.cons = Sets \cup Scripts
    /\ \A i \in DOMAIN ti.pending :
          /\ ti.pending[i].set \in Sets
          /\ ti.pending[i].con \in DOMAIN ti.cons[ti.pending[i].set]
          /\ ti.pending[i].type \in Types
    /\ \A r \in Reads : Range(ti.barriers[r]) \subseteq Types
    /\ ti.recompiles \subseteq Scripts
    /\ ti.nuke \in BOOLEAN /\ active \in BOOLEAN /\ enabled \in BOOLEAN
    /\ ran \subseteq Scripts
    /\ ~active => todo = <<>> /\ ti.pending = <<>> /\ compiling = NoCompile

Init ==
    /\ ti = [types |-> [s \in Sets |-> {}],
             cons |-> [s \in Sets \cup Scripts |-> <<>>],
             barriers |-> [r \in Reads |-> <<>>],
             pending |-> <<>>, recompiles |-> {}, nuke |-> FALSE,
             code |-> [s \in Scripts |-> [j \in Jits |-> NoCode]]]
    /\ active = FALSE
    /\ todo = <<>>
    /\ compiling = NoCompile
    /\ ran = {}
    /\ enabled = TRUE
    /\ disabled = {}
    /\ request = NoRequest
    /\ compiles = 0 /\ gcs = 0 /\ ooms = 0

Running == ~active /\ request = NoRequest
Budget == <<compiles, gcs, ooms>>

-----------------------------------------------------------------------------
(* Entries into inference from running scripts. *)

Enter(ops) ==
    /\ active' = TRUE
    /\ todo' = ops

AddTypeOp(s, t) == [op |-> "type", set |-> s, type |-> t]

(* TypeScript::SetArgument, AddTypePropertyId: interpreted code stores.     *)
Write(s, t) ==
    /\ Running /\ enabled
    /\ ~HasType(ti.types[s], t)
    /\ Enter(<<AddTypeOp(s, t)>>)
    /\ UNCHANGED <<ti, compiling, ran, enabled, disabled, request, Budget>>

(* TypeScript::Monitor at a read: a value of the source is seen there.  At  *)
(* a barrier of compiled code (ReflowTypeInfo, TypeBarrierHelper) the       *)
(* barriers are broken first if there are many objects.                     *)
Monitor(r, t, barrier) ==
    /\ Running /\ enabled
    /\ HasType(ti.types[Observed[r].source], t)
    /\ ~HasType(ti.types[r], t)
    /\ barrier => /\ HasJITCode(ti, Observed[r].script)
                  /\ Observed[r].script \in ran
    /\ Enter((IF barrier THEN <<[op |-> "break", set |-> r, all |-> FALSE]>> ELSE <<>>)
               \o <<AddTypeOp(r, t)>>)
    /\ UNCHANGED <<ti, compiling, ran, enabled, disabled, request, Budget>>

(* ensureRanInference outside a compilation (analysis of a caller, `new'). *)
Analyze(script) ==
    /\ Running /\ enabled
    /\ script \notin ran
    /\ Enter(EnsureRanInference(script))
    /\ UNCHANGED <<ti, compiling, ran, enabled, disabled, request, Budget>>

(* AnalyzeNewScriptProperties breaks every barrier of a call it looks into. *)
AnalyzeNewScript(r) ==
    /\ Running /\ enabled
    /\ r \in Breaks /\ Observed[r].script \in ran
    /\ ti.barriers[r] # <<>>
    /\ Enter(<<[op |-> "break", set |-> r, all |-> TRUE]>>)
    /\ UNCHANGED <<ti, compiling, ran, enabled, disabled, request, Budget>>

(* IonCompile, from the interpreter. *)
IonCompile(script) ==
    /\ Running /\ enabled
    /\ <<script, "ion">> \notin disabled
    /\ ~ti.code[script]["ion"].compiled
    /\ compiles < MaxCompiles
    /\ compiles' = compiles + 1
    /\ compiling' = [script |-> script, jit |-> "ion", reads |-> {}]
    /\ Enter(EnsureRanInference(script) \o Compilation["ion"][script] \o <<[op |-> "link"]>>)
    /\ UNCHANGED <<ti, ran, enabled, disabled, request, gcs, ooms>>

(* A call of CanMethodJIT by the interpreter for a script that is used      *)
(* enough, or on behalf of method JIT code, which does not count uses.      *)
CanMethodJIT(script, kind) ==
    /\ Running
    /\ kind = "jit" => \E s \in Scripts : ti.code[s]["mjit"].compiled
    /\ compiles < MaxCompiles
    /\ compiles' = compiles + 1
    /\ request' = [kind |-> kind, script |-> script, hot |-> TRUE]
    /\ UNCHANGED <<ti, active, todo, compiling, ran, enabled, disabled, gcs, ooms>>

(* The answers of CanMethodJIT: Compile_Abort, Compile_Okay, and for the    *)
(* interpreter Compile_Skipped once the uses no longer suffice.             *)
Answer ==
    /\ ~active /\ request # NoRequest
    /\ \/ <<request.script, "mjit">> \in disabled
       \/ ti.code[request.script]["mjit"].compiled
       \/ request.kind = "interpreter" /\ ~request.hot
    /\ request' = NoRequest
    /\ UNCHANGED <<ti, active, todo, compiling, ran, enabled, disabled, Budget>>

(* After a compilation CanMethodJIT goes back to its start and compiles     *)
(* again if the code is gone.                                               *)
MethodCompile ==
    /\ ~active /\ request # NoRequest
    /\ <<request.script, "mjit">> \notin disabled
    /\ ~ti.code[request.script]["mjit"].compiled
    /\ request.kind = "jit" \/ request.hot
    /\ compiling' = [script |-> request.script, jit |-> "mjit", reads |-> {}]
    /\ Enter(IF enabled
             THEN EnsureRanInference(request.script) \o
                  Compilation["mjit"][request.script] \o
                  <<[op |-> "link"]>>
             ELSE <<[op |-> "link"]>>)
    /\ UNCHANGED <<ti, ran, enabled, disabled, request, Budget>>

-----------------------------------------------------------------------------
(* The steps of an activation.  The worklist is empty when the next         *)
(* operation begins.                                                        *)

Oom == ooms < MaxOoms /\ ooms' = ooms + 1
NoOom == UNCHANGED ooms

(* A failed allocation: the constraint, object or barrier is not added, or  *)
(* the worklist cannot grow and the work is lost.                           *)
Lost(st, st2) == {[st EXCEPT !.nuke = TRUE],
                  [st2 EXCEPT !.nuke = TRUE, !.pending = st.pending]}

Becomes(st2) ==
    \/ NoOom /\ ti' = st2
    \/ Oom /\ ti' \in Lost(ti, st2)

Resolve ==
    /\ active /\ ti.pending # <<>>
    /\ LET w == Take(ti.pending).item
           st == [ti EXCEPT !.pending = Take(@).rest]
           st2 == NewType(st, w.set, w.con, w.type)
       IN \/ NoOom /\ ti' = st2
          \/ Oom /\ ti' \in Lost(st, st2)
    /\ UNCHANGED <<active, todo, compiling, ran, enabled, disabled, request,
                   compiles, gcs>>

Next1(kinds) == active /\ ti.pending = <<>> /\ todo # <<>> /\ Head(todo).op \in kinds

Modify ==
    /\ Next1({"type", "constraint", "break"})
    /\ LET o == Head(todo)
       IN Becomes(CASE o.op = "type" -> AddType(ti, o.set, o.type)
                    [] o.op = "constraint" -> AddConstraint(ti, o.set, o.con, TRUE)
                    [] o.op = "break" -> BreakTypeBarriers(ti, o.set, o.all))
    /\ todo' = Tail(todo)
    /\ UNCHANGED <<active, compiling, ran, enabled, disabled, request, compiles, gcs>>

(* A compiler reads a set; without memory for the constraint it goes on.    *)
Read ==
    /\ Next1({"freeze", "tag", "site"})
    /\ LET o == Head(todo)
       IN /\ Becomes(ReadSet(ti, o))
          /\ compiling' = [compiling EXCEPT !.reads = @ \cup Reliance(ti, o)]
    /\ todo' = Tail(todo)
    /\ UNCHANGED <<active, ran, enabled, disabled, request, compiles, gcs>>

(* IonBuilder may inline a call, and then watches the callee's function.    *)
Inline(inlined) ==
    /\ Next1({"inline"})
    /\ LET callee == Head(todo).script
       IN IF inlined
          THEN /\ CanInline(callee)
               /\ Becomes(AddConstraint(ti, callee, FreezeBy("flags", compiling.script), FALSE))
               /\ todo' = EnsureRanInference(callee) \o Compilation[compiling.jit][callee]
                             \o Tail(todo)
          ELSE /\ todo' = Tail(todo)
               /\ UNCHANGED <<ti, ooms>>
    /\ UNCHANGED <<active, compiling, ran, enabled, disabled, request, compiles, gcs>>

RunInference ==
    /\ Next1({"ran"})
    /\ ran' = ran \cup {Head(todo).script}
    /\ todo' = Tail(todo)
    /\ UNCHANGED <<ti, active, compiling, enabled, disabled, request, Budget>>

(* ensureRanInference fails when types are to be nuked, and the compilation *)
(* with it; the script is not compiled again.                               *)
Ensured ==
    /\ Next1({"ensured"})
    /\ IF ti.nuke /\ compiling # NoCompile
       THEN /\ disabled' = disabled \cup {<<compiling.script, compiling.jit>>}
            /\ todo' = <<>>
       ELSE /\ todo' = Tail(todo)
            /\ UNCHANGED disabled
    /\ UNCHANGED <<ti, active, compiling, ran, enabled, request, Budget>>

Link ==
    /\ Next1({"link"})
    /\ ti' = [ti EXCEPT !.code[compiling.script][compiling.jit] =
                          [compiled |-> TRUE, reads |-> compiling.reads]]
    /\ todo' = Tail(todo)
    /\ UNCHANGED <<active, compiling, ran, enabled, disabled, request, Budget>>

ReleaseAll(st) == [s \in Scripts |-> [j \in Jits |-> NoCode]]

(* nukeTypes; pendingNukeTypes stays set. *)
NukeTypes(st) == [st EXCEPT !.recompiles = {}, !.code = ReleaseAll(st)]

ProcessPendingRecompiles(st) ==
    [st EXCEPT !.recompiles = {},
               !.code = [s \in Scripts |-> [j \in Jits |->
                            IF s \in st.recompiles THEN NoCode ELSE @[s][j]]]]

(* Destroying one chunk of a script resets the uses of the chunk, and a     *)
(* collection those of every script.  Releasing all code in nukeTypes does  *)
(* not: a new JITScript of one chunk is seeded to be compiled at once.      *)
ResetUses(scripts) ==
    IF request # NoRequest /\ request.script \in scripts
    THEN [request EXCEPT !.hot = FALSE] ELSE request

(* ~AutoEnterTypeInference, for the outermost activation. *)
Leave ==
    /\ active /\ ti.pending = <<>> /\ todo = <<>>
    /\ active' = FALSE
    /\ compiling' = NoCompile
    /\ IF ti.nuke
       THEN ti' = NukeTypes(ti) /\ enabled' = FALSE /\ UNCHANGED request
       ELSE /\ ti' = ProcessPendingRecompiles(ti)
            /\ request' = ResetUses(ti.recompiles)
            /\ UNCHANGED enabled
    /\ UNCHANGED <<todo, ran, disabled, Budget>>

-----------------------------------------------------------------------------
(* JSCompartment::sweep.  Code goes in every collection; the analyses, with *)
(* all constraints and barriers, only when none is active.  Sets lose the   *)
(* objects that died, and a collection that releases types empties the      *)
(* observed sets.  The property sets that stay are copied to new memory.    *)
SweptTypes(dead, release) ==
    [s \in Sets |-> IF s \in Transient \/ (release /\ s \in Reads)
                    THEN {} ELSE ti.types[s] \ dead]

CollectCode ==
    /\ active /\ gcs < MaxGCs
    /\ ti' = [ti EXCEPT !.code = ReleaseAll(ti)]
    /\ gcs' = gcs + 1
    /\ request' = ResetUses(Scripts)
    /\ UNCHANGED <<active, todo, compiling, ran, enabled, disabled, compiles, ooms>>

Sweep(dead, release) ==
    /\ ~active /\ gcs < MaxGCs
    /\ LET st == [ti EXCEPT !.types = IF enabled THEN SweptTypes(dead, release) ELSE @,
                            !.cons = [s \in Sets \cup Scripts |-> <<>>],
                            !.barriers = [r \in Reads |-> <<>>],
                            !.code = ReleaseAll(ti)]
       IN \/ NoOom /\ ti' = st
          \/ /\ SweepOom /\ Oom
             /\ \E r \in Reads : st.types[Observed[r].source] # {}
             /\ ti' = [st EXCEPT !.nuke = TRUE]
    /\ ran' = {}
    /\ gcs' = gcs + 1
    /\ request' = ResetUses(Scripts)
    /\ UNCHANGED <<active, todo, compiling, enabled, disabled, compiles>>

-----------------------------------------------------------------------------
Entries ==
    \/ \E w \in Writes : Write(w[1], w[2])
    \/ \E r \in Reads, t \in Prims \cup Objects, b \in BOOLEAN :
          Monitor(r, t, b)
    \/ \E s \in Scripts : Analyze(s)
    \/ \E r \in Reads : AnalyzeNewScript(r)
    \/ \E s \in Scripts : IonCompile(s)
    \/ \E s \in Scripts, k \in {"interpreter", "jit"} : CanMethodJIT(s, k)

Collections ==
    \/ CollectCode
    \/ \E dead \in SUBSET Objects, release \in BOOLEAN : Sweep(dead, release)

Work ==
    \/ Resolve \/ Modify \/ Read \/ RunInference \/ Ensured \/ Link \/ Leave
    \/ \E i \in BOOLEAN : Inline(i)
    \/ Answer \/ MethodCompile

Next == Entries \/ Collections \/ Work

Spec == Init /\ [][Next]_vars

(* One thread does all of this: what it has begun, it goes on with. *)
LiveSpec == Spec /\ WF_vars(Work)

-----------------------------------------------------------------------------
(* Between activations every set has the types its constraints promise: a  *)
(* subset constraint has passed every type on, and a type that a read has   *)
(* not seen is behind a barrier there.  A set with double always has int,   *)
(* and a barrier for double stands for both.                                *)
Covered(st, r, t) ==
    \/ HasType(st.types[r], t)
    \/ Contains(st.barriers[r], t)
    \/ t = "int" /\ Contains(st.barriers[r], "double")

Satisfied(st, c, t) ==
    /\ c.kind = "subset" => HasType(st.types[c.target], t)
    /\ c.kind = "barrier" => Covered(st, c.target, t)

TypesFlow ==
    ~active /\ ~ti.nuke =>
        \A s \in Sets : \A i \in DOMAIN ti.cons[s] : \A t \in ti.types[s] :
            Satisfied(ti, ti.cons[s][i], t)

(* Code that scripts may run relies only on what still holds: a frozen set  *)
(* has not changed, a set read for its tag still has that tag, and no       *)
(* property read without a check holds a type that its own set does not     *)
(* have (TypeConstraintFreeze, TypeConstraintFreezeTypeTag, addTypeBarrier  *)
(* and the recompilations they ask for).  What the code does with the       *)
(* read's own set is frozen or read for its tag like any other set.         *)
Holds(st, use) ==
    LET T == st.types[use.set]
    IN CASE use.kind = "freeze" -> T = use.types
         [] use.kind = "tag" -> /\ (use.types = {}) = (T = {})
                                /\ GetKnownTypeTag(T) = GetKnownTypeTag(use.types)
         [] use.kind = "unchecked" ->
              \A t \in st.types[Observed[use.set].source] : HasType(T, t)

CodeSound ==
    ~active => \A s \in Scripts, j \in Jits : \A use \in ti.code[s][j].reads : Holds(ti, use)

(* setPendingNukeTypesNoReport asserts that inference is active: types are  *)
(* nuked when the activation ends.                                          *)
NukedAtOnce == ti.nuke /\ enabled => active

(* The worklist is emptied however the constraints are connected, and the   *)
(* activation ends.                                                         *)
InferenceEnds == active ~> ~active

(* CanMethodJIT gives an answer. *)
RequestReturns == request # NoRequest ~> request = NoRequest
=============================================================================
