

------------------------- MODULE TypeInferenceProofs -------------------------
(* Proofs about TypeInference, for any program, any number of types and any   *)
(* limits: between activations every type is where the constraints promise,   *)
(* and code that scripts may run relies only on what still holds.  What is    *)
(* not yet so in the middle of an activation is what the worklist still owes. *)
EXTENDS TypeInference, FiniteSetTheorems, WellFoundedInduction, TLAPS

-----------------------------------------------------------------------------
(* Types.                                                                   *)

Constraints == FlowCons \cup [kind : {"freeze", "tag", "flags"}, script : Scripts, fired : BOOLEAN]

Items == [set : Sets, con : Nat \ {0}, type : Types]

Uses == [kind : {"freeze", "tag", "unchecked"}, set : Sets, types : SUBSET Types]

Codes == [compiled : BOOLEAN, reads : SUBSET Uses]

States ==
    [types : [Sets -> SUBSET Types], cons : [Sets \cup Scripts -> Seq(Constraints)],
     barriers : [Reads -> Seq(Types)], pending : Seq(Items),
     recompiles : SUBSET Scripts, nuke : BOOLEAN,
     code : [Scripts -> [Jits -> Codes]]]

ChangeKinds == {"ran", "type", "constraint", "break"}

UseKinds == {"freeze", "tag", "site", "inline", "link"}

Ops ==
    AnalysisOps
        \cup [op : {"break"}, set : Reads, all : {FALSE}]
        \cup [op : {"break"}, set : Breaks, all : {TRUE}]
        \cup [op : {"ran", "ensured"}, script : Scripts]
        \cup CompileOps \cup [op : {"link"}]

Compilations == {NoCompile} \cup [script : Scripts, jit : Jits, reads : SUBSET Uses]

Requests ==
    {NoRequest} \cup [kind : {"interpreter", "jit"}, script : Scripts, hot : BOOLEAN]

\* A set is small, and as addType leaves it.
SetOK(T) ==
    /\ IsFiniteSet(T)
    /\ "unknown" \in T => T = {"unknown"}
    /\ "anyobject" \in T => ObjectsOf(T) = {}
    /\ Cardinality(ObjectsOf(T)) < ObjectLimit
    /\ "double" \in T => "int" \in T

SetsOK(st) == \A s \in Sets : SetOK(st.types[s])

\* Sets have no constraints on the flags of a function, scripts no others.
KindsOK(st) ==
    /\ \A s \in Sets : \A i \in DOMAIN st.cons[s] : st.cons[s][i].kind # "flags"
    /\ \A x \in Scripts : \A i \in DOMAIN st.cons[x] : st.cons[x][i].kind = "flags"

\* The worklist is about constraints that exist, and types that were added.
ItemsOK(st) ==
    \A k \in DOMAIN st.pending :
        LET w == st.pending[k]
        IN w.con \in DOMAIN st.cons[w.set] /\ HasType(st.types[w.set], w.type)

Good(st) == st \in States /\ SetsOK(st) /\ KindsOK(st) /\ ItemsOK(st)

Typed ==
    /\ Good(ti)
    /\ active \in BOOLEAN /\ enabled \in BOOLEAN
    /\ todo \in Seq(Ops)
    /\ compiling \in Compilations
    /\ ran \subseteq Scripts
    /\ request \in Requests

\* Nothing is left of an activation that has ended, and a compiler's questions
\* are those of a compilation.
Activity ==
    /\ ~active => todo = <<>> /\ ti.pending = <<>> /\ compiling = NoCompile
    /\ \A k \in DOMAIN todo : todo[k].op \in UseKinds => compiling # NoCompile

-----------------------------------------------------------------------------
(* The types that are still to be handed to a constraint.                   *)

Stands(u, t) == u = t \/ (u = "double" /\ t = "int")

Owed(st, s, i, t) ==
    \E k \in DOMAIN st.pending :
        /\ st.pending[k].set = s /\ st.pending[k].con = i
        /\ Stands(st.pending[k].type, t)

FlowIn(st) ==
    \A s \in Sets : \A i \in DOMAIN st.cons[s] : \A t \in st.types[s] :
        Satisfied(st, st.cons[s][i], t) \/ Owed(st, s, i, t)

FlowInv == ti.nuke \/ FlowIn(ti)

-----------------------------------------------------------------------------
(* What the uses of compiled code are protected by.                         *)

NoChanges(p) == \A k \in DOMAIN p : p[k].op \notin ChangeKinds

NoUses(p) == \A k \in DOMAIN p : p[k].op \notin UseKinds

InOrder(p) ==
    \A j, k \in DOMAIN p : j < k /\ p[j].op \in UseKinds => p[k].op \notin ChangeKinds

\* After its first question a compiler changes no types.
Ordered ==
    /\ InOrder(todo)
    /\ compiling # NoCompile /\ compiling.reads # {} => ti.pending = <<>> /\ NoChanges(todo)

HasBarrierCon(st, r) ==
    \E i \in DOMAIN st.cons[Observed[r].source] :
        st.cons[Observed[r].source][i] = [kind |-> "barrier", target |-> r]

Analysed(done, p, x) == x \in done \/ Contains(p, [op |-> "ran", script |-> x])

\* The barrier constraints of an analysed script are there, or about to be.
InstalledIn(st, done, p) ==
    \A x \in Scripts : Analysed(done, p, x) =>
        \A r \in Reads : Contains(Analysis[x], BarrierOp(r)) =>
            HasBarrierCon(st, r) \/ Contains(p, BarrierOp(r))

Installed == ti.nuke \/ InstalledIn(ti, ran, todo)

\* Whoever has code with reads of script f, or compiles it, is f or watches it.
Watches(st, x, f) == x = f \/ \E i \in DOMAIN st.cons[f] : st.cons[f][i].script = x

SitesIn(st, done, p, x) ==
    \A k \in DOMAIN p : p[k].op = "site" =>
        LET f == Observed[p[k].set].script
        IN /\ Analysed(done, p, f) /\ Contains(Analysis[f], BarrierOp(p[k].set))
           /\ Watches(st, x, f)

SitesReady == ti.nuke \/ SitesIn(ti, ran, todo, compiling.script)

KnownTag(T) == T = {} \/ GetKnownTypeTag(T) # "unknown"

\* An item of the worklist at which a tag constraint fires.
Fires(st, k) ==
    LET w == st.pending[k]
    IN w.type \notin Objects \/ ObjectsOf(st.types[w.set]) = {w.type}

\* A freeze constraint has not fired, and the set is as it was or it is to fire.
FreezeGuard(st, x, use) ==
    \E i \in DOMAIN st.cons[use.set] :
        /\ st.cons[use.set][i] = FreezeBy("freeze", x)
        /\ \/ Holds(st, use)
           \/ \E k \in DOMAIN st.pending : st.pending[k].set = use.set /\ st.pending[k].con = i

TagGuard(st, x, use) ==
    /\ KnownTag(use.types)
    /\ \E i \in DOMAIN st.cons[use.set] :
          /\ st.cons[use.set][i] = FreezeBy("tag", x)
          /\ \/ Breaks # {} \/ Holds(st, use)
             \/ \E k \in DOMAIN st.pending :
                   /\ st.pending[k].set = use.set /\ st.pending[k].con = i
                   /\ Fires(st, k)

\* No barrier is at a read without a check: the first would be noticed.
SiteGuard(st, x, use) ==
    /\ use.set \in Reads
    /\ Watches(st, x, Observed[use.set].script)
    /\ st.barriers[use.set] = <<>>
    /\ HasBarrierCon(st, use.set)

Guarded(st, x, use) ==
    /\ use.kind = "freeze" => FreezeGuard(st, x, use)
    /\ use.kind = "tag" => TagGuard(st, x, use)
    /\ use.kind = "unchecked" => SiteGuard(st, x, use)

CodeGuarded(st) ==
    \A x \in Scripts, j \in Jits : \A use \in st.code[x][j].reads :
        st.code[x][j].compiled /\ (x \in st.recompiles \/ Guarded(st, x, use))

CodeInv ==
    /\ ti.nuke \/ CodeGuarded(ti)
    /\ ti.nuke \/ compiling = NoCompile
          \/ \A use \in compiling.reads : Guarded(ti, compiling.script, use)
    /\ ~ti.nuke /\ ~active => ti.recompiles = {}

\* Once types were given up, no code that relies on them stays.
NoReliance(st) == \A x \in Scripts, j \in Jits : st.code[x][j].reads = {}

AsksNothing(c, p) ==
    /\ c = NoCompile \/ c.reads = {}
    /\ \A k \in DOMAIN p : p[k].op \notin {"freeze", "tag", "site", "inline"}

NukedInv ==
    /\ ti.nuke /\ (~active \/ ~enabled) => NoReliance(ti)
    /\ ~enabled => ti.nuke /\ AsksNothing(compiling, todo)

\* A tag constraint that waits for the only object of its set: what is done
\* before its turn comes adds no other.
TagOrder(st) ==
    \A j, k \in DOMAIN st.pending :
        LET w == st.pending[j]
        IN /\ j < k
           /\ st.cons[w.set][w.con].kind = "tag"
           /\ w.type \in Objects /\ ObjectsOf(st.types[w.set]) = {w.type}
           => st.pending[k].type \in {w.type, "anyobject"}

TagInv == ti.nuke \/ Breaks # {} \/ TagOrder(ti)

-----------------------------------------------------------------------------
(* Induction on the natural numbers, over a set: there is no least number    *)
(* that is not in it.                                                        *)

LEMMA NatInductionOverSet ==
    ASSUME NEW S, 0 \in S, \A n \in Nat : n \in S => n + 1 \in S
    PROVE  Nat \subseteq S
<1> SUFFICES ASSUME ~(Nat \subseteq S) PROVE FALSE
    OBVIOUS
<1> DEFINE T == Nat \ S
<1>1. T \subseteq Nat /\ T # {}
    OBVIOUS
<1>2. IsWellFoundedOn(OpToRel(<, Nat), Nat)
    BY NatLessThanWellFounded
<1> HIDE DEF T
<1>3. \E x \in T : \A y \in T : ~ (<<y, x>> \in OpToRel(<, Nat))
    BY <1>1, <1>2, WFMin
<1>4. PICK x \in T : \A y \in T : ~ (<<y, x>> \in OpToRel(<, Nat))
    BY <1>3
<1>5. x \in Nat /\ x # 0 /\ x - 1 \in Nat /\ x - 1 < x
    BY <1>1 DEF T
<1>6. x - 1 \in T
    BY <1>5 DEF T
<1>7. <<x - 1, x>> \in OpToRel(<, Nat)
    BY <1>5 DEF OpToRel
<1> QED
    BY <1>4, <1>6, <1>7

-----------------------------------------------------------------------------
(* Type sets.                                                               *)

\* Types are objects, primitives, "anyobject" or "unknown", and nothing is two
\* of them.
LEMMA TypesDiffer ==
    ASSUME ProgramAssumption
    PROVE  /\ \A t \in Objects : t \notin {"int", "double", "anyobject", "unknown"}
           /\ \A t \in Types : t \in Objects \/ t = "int" \/ t = "double"
                               \/ t = "anyobject" \/ t = "unknown"
    BY DEF ProgramAssumption, Types, Prims

\* What ProgramAssumption says of the two limits.
LEMMA LimitsOK ==
    ASSUME ProgramAssumption
    PROVE  /\ ObjectLimit \in Nat /\ BarrierLimit \in Nat
           /\ 0 < BarrierLimit /\ BarrierLimit < ObjectLimit /\ 0 < ObjectLimit
<1>1. {BarrierLimit, ObjectLimit} \subseteq Nat
    BY DEF ProgramAssumption
<1>2. ObjectLimit \in Nat /\ BarrierLimit \in Nat
    BY <1>1
<1>3. 0 < BarrierLimit /\ BarrierLimit < ObjectLimit
    BY DEF ProgramAssumption
<1> QED
    BY <1>2, <1>3

\* Widening leaves no objects.
LEMMA WidenOK ==
    ASSUME ProgramAssumption, NEW T \in SUBSET Types, SetOK(T), "unknown" \notin T
    PROVE  /\ Widen(T).set \in SUBSET Types /\ SetOK(Widen(T).set)
           /\ Widen(T).type = "anyobject"
           /\ ObjectsOf(Widen(T).set) = {}
           /\ \A u \in Types : HasType(T, u) => HasType(Widen(T).set, u)
           /\ \A u \in Widen(T).set : u \in T \/ u = "anyobject"
           /\ \A u \in Objects \cup {"anyobject"} : HasType(Widen(T).set, u)
<1> DEFINE U == (T \ Objects) \cup {"anyobject"}
<1>1. Widen(T).set = U /\ Widen(T).type = "anyobject"
    BY DEF Widen
<1>2. U \in SUBSET Types
    BY DEF Types
<1>3. ObjectsOf(U) = {} /\ Cardinality({}) = 0
    BY TypesDiffer, FS_EmptySet DEF ObjectsOf
<1>4. IsFiniteSet(U)
    <2>1. IsFiniteSet(T \ Objects)
        BY FS_Subset DEF SetOK
    <2> QED
        BY <2>1, FS_AddElement
<1>5. SetOK(U)
    BY <1>3, <1>4, LimitsOK, TypesDiffer DEF SetOK
<1>6. \A u \in Types : HasType(T, u) => HasType(U, u)
    BY TypesDiffer DEF HasType
<1> QED
    BY <1>1, <1>2, <1>3, <1>5, <1>6 DEF HasType

\* addType: the set X has what T had and the new type t, and the type y that
\* the constraints see stands for everything that is new.
AddsTo(T, t, X, y) ==
    /\ X \in SUBSET Types /\ SetOK(X) /\ y \in Types
    /\ y = t \/ (t \in Objects /\ y = "anyobject")
    /\ \A u \in Types : HasType(T, u) => HasType(X, u)
    /\ HasType(X, t) /\ HasType(X, y)
    /\ \A u \in X : u \in T \/ Stands(y, u)

\* TypeSet::addType keeps a set small and in the form GetKnownTypeTag expects,
\* in each of its cases.
LEMMA InsertOK ==
    ASSUME ProgramAssumption, NEW T \in SUBSET Types, SetOK(T), NEW t \in Types,
           ~HasType(T, t)
    PROVE  AddsTo(T, t, Insert(T, t).set, Insert(T, t).type)
<1>0. "unknown" \notin T
    BY DEF HasType
<1>1. CASE t = "unknown"
    <2>1. Insert(T, t) = [set |-> {"unknown"}, type |-> t]
        BY <1>1 DEF Insert
    <2>2. IsFiniteSet({"unknown"}) /\ ObjectsOf({"unknown"}) = {} /\ Cardinality({}) = 0
        BY FS_Singleton, FS_EmptySet, TypesDiffer DEF ObjectsOf
    <2>3. SetOK({"unknown"})
        BY <2>2, LimitsOK DEF SetOK
    <2>4. AddsTo(T, t, {"unknown"}, t)
        BY <1>1, <2>3 DEF AddsTo, HasType, Stands, Types
    <2> QED
        BY <2>1, <2>4
<1>2. CASE t = "double"
    <2>1. Insert(T, t) = [set |-> T \cup Prims, type |-> t]
        BY <1>2 DEF Insert
    <2>2. ObjectsOf(T \cup Prims) = ObjectsOf(T)
        BY TypesDiffer DEF ObjectsOf, Prims
    <2>3. IsFiniteSet(T \cup Prims)
        <3>1. IsFiniteSet(T) /\ IsFiniteSet({"int"}) /\ IsFiniteSet({"double"})
            BY FS_Singleton DEF SetOK
        <3>2. IsFiniteSet(T \cup {"int"})
            BY <3>1, FS_AddElement
        <3>3. IsFiniteSet((T \cup {"int"}) \cup {"double"})
            BY <3>2, FS_AddElement
        <3>4. (T \cup {"int"}) \cup {"double"} = T \cup Prims
            BY DEF Prims
        <3> QED
            BY <3>3, <3>4
    <2>4. SetOK(T \cup Prims)
        BY <1>0, <2>2, <2>3 DEF SetOK, Prims
    <2>5. T \cup Prims \in SUBSET Types
        BY DEF Types
    <2>6. \A u \in Types : HasType(T, u) => HasType(T \cup Prims, u)
        BY DEF HasType
    <2>7. \A u \in T \cup Prims : u \in T \/ Stands(t, u)
        BY <1>2 DEF Stands, Prims
    <2>8. HasType(T \cup Prims, t)
        BY <1>2 DEF HasType, Prims
    <2>9. AddsTo(T, t, T \cup Prims, t)
        BY <2>4, <2>5, <2>6, <2>7, <2>8 DEF AddsTo
    <2> QED
        BY <2>1, <2>9
<1>3. CASE t = "int"
    <2>1. Insert(T, t) = [set |-> T \cup {t}, type |-> t]
        BY <1>3 DEF Insert
    <2>2. ObjectsOf(T \cup {t}) = ObjectsOf(T)
        BY <1>3, TypesDiffer DEF ObjectsOf
    <2>3. IsFiniteSet(T \cup {t})
        BY FS_AddElement DEF SetOK
    <2>4. SetOK(T \cup {t})
        BY <1>0, <1>3, <2>2, <2>3 DEF SetOK
    <2>5. \A u \in Types : HasType(T, u) => HasType(T \cup {t}, u)
        BY DEF HasType
    <2>6. T \cup {t} \in SUBSET Types /\ HasType(T \cup {t}, t)
        BY DEF HasType
    <2>7. \A u \in T \cup {t} : u \in T \/ Stands(t, u)
        BY DEF Stands
    <2>8. AddsTo(T, t, T \cup {t}, t)
        BY <2>4, <2>5, <2>6, <2>7 DEF AddsTo
    <2> QED
        BY <2>1, <2>8
<1>4. ASSUME Insert(T, t) = Widen(T), t \in Objects \cup {"anyobject"}
      PROVE  AddsTo(T, t, Insert(T, t).set, Insert(T, t).type)
    <2>1. "anyobject" \in Types
        BY DEF Types
    <2>2. \A u \in Widen(T).set : u \in T \/ Stands("anyobject", u)
        BY <1>0, WidenOK DEF Stands
    <2> DEFINE W == Widen(T)
    <2>3. /\ W.set \in SUBSET Types /\ SetOK(W.set)
          /\ W.type = "anyobject"
          /\ \A u \in Types : HasType(T, u) => HasType(W.set, u)
          /\ \A u \in Objects \cup {"anyobject"} : HasType(W.set, u)
        BY <1>0, WidenOK
    <2>4. HasType(W.set, t) /\ HasType(W.set, "anyobject")
        BY <1>4, <2>3
    <2>5. t = "anyobject" \/ t \in Objects
        BY <1>4
    <2> HIDE DEF W
    <2>6. AddsTo(T, t, W.set, "anyobject")
        BY <2>1, <2>2, <2>3, <2>4, <2>5 DEF AddsTo, W
    <2> QED
        BY <1>4, <2>3, <2>6 DEF W
<1>5. CASE t = "anyobject"
    <2>1. Insert(T, t) = Widen(T)
        BY <1>5 DEF Insert
    <2> QED
        BY <1>4, <1>5, <2>1
<1>6. CASE t \in Objects
    <2>0. t # "unknown" /\ t # "double" /\ t # "int" /\ t # "anyobject"
        BY <1>6, TypesDiffer
    <2> DEFINE full == \/ Cardinality(ObjectsOf(T)) + 1 = ObjectLimit
                       \/ t \in UnknownProps
                       \/ t \in Contributed /\ ObjectsOf(T) # {}
    <2>1. CASE full
        <3>1. Insert(T, t) = Widen(T)
            BY <2>0, <2>1 DEF Insert
        <3> QED
            BY <1>4, <1>6, <3>1
    <2>2. CASE ~full
        <3>1. Insert(T, t) = [set |-> T \cup {t}, type |-> t]
            BY <2>0, <2>2 DEF Insert
        <3>2. ObjectsOf(T \cup {t}) = ObjectsOf(T) \cup {t} /\ t \notin ObjectsOf(T)
            BY <1>6 DEF ObjectsOf, HasType
        <3>3. IsFiniteSet(T \cup {t})
            BY FS_AddElement DEF SetOK
        <3>4. IsFiniteSet(ObjectsOf(T))
            BY FS_Subset DEF SetOK, ObjectsOf
        <3>5. /\ Cardinality(ObjectsOf(T)) \in Nat
              /\ Cardinality(ObjectsOf(T) \cup {t}) = Cardinality(ObjectsOf(T)) + 1
            BY <3>2, <3>4, FS_AddElement, FS_CardinalityType
        <3>6. Cardinality(ObjectsOf(T)) < ObjectLimit
            BY DEF SetOK
        <3>7. Cardinality(ObjectsOf(T)) + 1 < ObjectLimit
            BY <2>2, <3>5, <3>6, LimitsOK
        <3>8. "anyobject" \notin T
            BY <1>6 DEF HasType
        <3>9. SetOK(T \cup {t})
            BY <1>0, <2>0, <3>2, <3>3, <3>5, <3>7, <3>8 DEF SetOK
        <3>10. \A u \in Types : HasType(T, u) => HasType(T \cup {t}, u)
            BY DEF HasType
        <3>11. AddsTo(T, t, T \cup {t}, t)
            BY <3>9, <3>10 DEF AddsTo, HasType, Stands
        <3> QED
            BY <3>1, <3>11
    <2> QED
        BY <2>1, <2>2
<1> QED
    BY <1>1, <1>2, <1>3, <1>5, <1>6, TypesDiffer

-----------------------------------------------------------------------------
(* Sequences.                                                               *)

\* The elements of a concatenation.
LEMMA ConcatOK ==
    ASSUME NEW S, NEW p \in Seq(S), NEW q \in Seq(S)
    PROVE  /\ p \o q \in Seq(S) /\ Len(p \o q) = Len(p) + Len(q)
           /\ DOMAIN (p \o q) = 1 .. Len(p) + Len(q)
           /\ \A k \in DOMAIN p : k \in DOMAIN (p \o q) /\ (p \o q)[k] = p[k]
           /\ \A k \in DOMAIN q : Len(p) + k \in DOMAIN (p \o q) /\ (p \o q)[Len(p) + k] = q[k]
           /\ \A k \in DOMAIN (p \o q) \ DOMAIN p :
                 k - Len(p) \in DOMAIN q /\ (p \o q)[k] = q[k - Len(p)]
    OBVIOUS

\* The domain and the elements of a sequence.
LEMMA SeqOK ==
    ASSUME NEW S, NEW p \in Seq(S)
    PROVE  /\ DOMAIN p = 1 .. Len(p) /\ Len(p) \in Nat
           /\ \A k \in DOMAIN p : p[k] \in S
           /\ <<>> \in Seq(S) /\ Len(<<>>) = 0 /\ DOMAIN <<>> = {}
           /\ p # <<>> <=> Len(p) > 0
    OBVIOUS

-----------------------------------------------------------------------------
(* The fields of a state.                                                   *)

\* The types of the fields of a state.
LEMMA FieldsOK ==
    ASSUME NEW st \in States
    PROVE  /\ st.types \in [Sets -> SUBSET Types]
           /\ st.cons \in [Sets \cup Scripts -> Seq(Constraints)]
           /\ st.barriers \in [Reads -> Seq(Types)]
           /\ st.pending \in Seq(Items) /\ st.recompiles \in SUBSET Scripts
           /\ st.nuke \in BOOLEAN /\ st.code \in [Scripts -> [Jits -> Codes]]
    BY DEF States

-----------------------------------------------------------------------------
(* addType.                                                                 *)

\* A type t was added to set s: the constraints of s are to see y for it.
Grown(st, st2, s, t, y) ==
    /\ st2 \in States
    /\ st2.cons = st.cons /\ st2.barriers = st.barriers
    /\ st2.recompiles = st.recompiles /\ st2.nuke = st.nuke /\ st2.code = st.code
    /\ AddsTo(st.types[s], t, st2.types[s], y)
    /\ \A z \in Sets : z # s => st2.types[z] = st.types[z]
    /\ \A k \in DOMAIN st.pending : k \in DOMAIN st2.pending /\ st2.pending[k] = st.pending[k]
    /\ \A k \in DOMAIN st2.pending \ DOMAIN st.pending :
          /\ st2.pending[k].set = s /\ st2.pending[k].con \in DOMAIN st.cons[s]
          /\ st2.pending[k].type = y
    /\ \A i \in DOMAIN st.cons[s] : \E k \in DOMAIN st2.pending \ DOMAIN st.pending :
          st2.pending[k].con = i

\* AddType adds the type and puts one item on the worklist for every constraint
\* of the set.
LEMMA AddTypeGrows ==
    ASSUME ProgramAssumption, NEW st \in States, SetsOK(st), NEW s \in Sets,
           NEW t \in Types, ~HasType(st.types[s], t)
    PROVE  \E y \in Types : /\ Grown(st, AddType(st, s, t), s, t, y)
                            /\ y = Insert(st.types[s], t).type
                            /\ AddType(st, s, t).types[s] = Insert(st.types[s], t).set
<1> DEFINE X == Insert(st.types[s], t).set
           y == Insert(st.types[s], t).type
           n == Len(st.cons[s])
           items == [i \in 1 .. n |-> [set |-> s, con |-> n + 1 - i, type |-> y]]
           st2 == [[st EXCEPT !.types = [st.types EXCEPT ![s] = X]]
                       EXCEPT !.pending = st.pending \o items]
<1>1. AddsTo(st.types[s], t, X, y)
    BY FieldsOK, InsertOK DEF SetsOK
<1>2. AddType(st, s, t) = st2
    BY DEF AddType, Adds, Enqueue, States
<1> HIDE DEF X, y
<1>3. X \in SUBSET Types /\ y \in Types
    BY <1>1 DEF AddsTo
<1>4. st.cons[s] \in Seq(Constraints) /\ n \in Nat /\ DOMAIN st.cons[s] = 1 .. n
    BY FieldsOK
<1>5. items \in Seq(Items) /\ DOMAIN items = 1 .. n
    BY <1>3, <1>4 DEF Items
<1>6. st.pending \in Seq(Items) /\ [st.types EXCEPT ![s] = X] \in [Sets -> SUBSET Types]
    BY <1>3, FieldsOK
<1>7. \A i \in 1 .. n : items[i].set = s /\ items[i].con = n + 1 - i /\ items[i].type = y
    OBVIOUS
<1> HIDE DEF items, n
<1> DEFINE p == st.pending
           all == p \o items
<1>8. /\ all \in Seq(Items)
      /\ \A k \in DOMAIN p : k \in DOMAIN all /\ all[k] = p[k]
      /\ \A k \in DOMAIN items : Len(p) + k \in DOMAIN all /\ all[Len(p) + k] = items[k]
      /\ \A k \in DOMAIN all \ DOMAIN p :
            k - Len(p) \in DOMAIN items /\ all[k] = items[k - Len(p)]
    <2>1. p \in Seq(Items) /\ items \in Seq(Items)
        BY <1>5, <1>6
    <2> HIDE DEF p
    <2> QED
        BY <2>1 DEF all
<1> HIDE DEF all
<1>9. /\ st2 \in States /\ st2.types = [st.types EXCEPT ![s] = X]
      /\ st2.pending = all
      /\ st2.cons = st.cons /\ st2.barriers = st.barriers
      /\ st2.recompiles = st.recompiles /\ st2.nuke = st.nuke
      /\ st2.code = st.code
    <2>1. [st.types EXCEPT ![s] = X] \in [Sets -> SUBSET Types] /\ all \in Seq(Items)
        BY <1>6, <1>8
    <2> QED
        BY <2>1 DEF States, all
<1> HIDE DEF st2
<1>10. st2.types[s] = X /\ \A z \in Sets : z # s => st2.types[z] = st.types[z]
    BY <1>9, FieldsOK
<1>11. \A k \in DOMAIN st.pending : k \in DOMAIN st2.pending /\ st2.pending[k] = st.pending[k]
    BY <1>8, <1>9
<1>12. \A k \in DOMAIN st2.pending \ DOMAIN st.pending :
          k - Len(st.pending) \in 1 .. n /\ st2.pending[k] = items[k - Len(st.pending)]
    BY <1>5, <1>8, <1>9
<1>13. ASSUME NEW i \in DOMAIN st.cons[s]
       PROVE  \E k \in DOMAIN st2.pending \ DOMAIN st.pending : st2.pending[k].con = i
    <2>1. n + 1 - i \in 1 .. n /\ n + 1 - (n + 1 - i) = i
        BY <1>4
    <2>2. /\ Len(st.pending) + (n + 1 - i) \in DOMAIN st2.pending
          /\ st2.pending[Len(st.pending) + (n + 1 - i)] = items[n + 1 - i]
        BY <1>5, <1>8, <1>9, <2>1
    <2>3. Len(st.pending) + (n + 1 - i) \notin DOMAIN st.pending
        BY <1>4, <1>6, <2>1, SeqOK
    <2> QED
        BY <1>7, <2>1, <2>2, <2>3
<1>14. \A k \in DOMAIN st2.pending \ DOMAIN st.pending :
          /\ st2.pending[k].set = s /\ st2.pending[k].con \in DOMAIN st.cons[s]
          /\ st2.pending[k].type = y
    BY <1>4, <1>7, <1>12
<1>15. Grown(st, st2, s, t, y)
    BY <1>1, <1>9, <1>10, <1>11, <1>13, <1>14 DEF Grown
<1> QED
    BY <1>2, <1>3, <1>10, <1>15 DEF X, y

\* The fields of a constraint of each kind.
LEMMA ConstraintsOK ==
    ASSUME ProgramAssumption, NEW c \in Constraints
    PROVE  /\ c.kind \in {"subset", "barrier", "freeze", "tag", "flags"}
           /\ c.kind = "subset" => c.target \in Sets
           /\ c.kind = "barrier" => c.target \in Reads /\ c.target \in Sets
           /\ c.kind \in {"freeze", "tag", "flags"} => /\ c.script \in Scripts /\ c.fired \in BOOLEAN
                                                       /\ c = [kind |-> c.kind, script |-> c.script, fired |-> c.fired]
<1>1. Reads \subseteq Sets
    BY DEF ProgramAssumption
<1> QED
    BY <1>1 DEF Constraints, FlowCons

\* A read has a script and a source.
LEMMA ObservedOK ==
    ASSUME ProgramAssumption, NEW r \in Reads
    PROVE  r \in Sets /\ Observed[r].script \in Scripts /\ Observed[r].source \in Sets
    BY DEF ProgramAssumption

\* The types of a set are handed to its constraints, but for those in X.
FlowUpTo(st, X) ==
    \A s \in Sets : \A i \in DOMAIN st.cons[s] : \A t \in st.types[s] :
        Satisfied(st, st.cons[s][i], t) \/ Owed(st, s, i, t) \/ <<s, i, t>> \in X

\* A set that grows has all it had, and nothing owed is forgotten.
LEMMA GrownMono ==
    ASSUME NEW st \in States, NEW st2, NEW s \in Sets, NEW t, NEW y, Grown(st, st2, s, t, y)
    PROVE  /\ \A z \in Sets : \A u \in Types : HasType(st.types[z], u) => HasType(st2.types[z], u)
           /\ \A z \in Sets : \A i : \A u : Owed(st, z, i, u) => Owed(st2, z, i, u)
           /\ HasType(st2.types[s], t)
    BY DEF Grown, AddsTo, Owed

\* A set that grows stays well formed, and so does the worklist.
LEMMA GrownGood ==
    ASSUME ProgramAssumption, NEW st, Good(st), NEW st2, NEW s \in Sets, NEW t \in Types, NEW y,
           Grown(st, st2, s, t, y)
    PROVE  Good(st2)
<1>1. st \in States /\ st2 \in States /\ SetsOK(st) /\ KindsOK(st) /\ ItemsOK(st)
    BY DEF Good, Grown
<1>2. SetsOK(st2)
    BY <1>1 DEF Grown, AddsTo, SetsOK
<1>3. KindsOK(st2)
    BY <1>1 DEF Grown, KindsOK
<1>4. ASSUME NEW k \in DOMAIN st2.pending
      PROVE  /\ st2.pending[k].con \in DOMAIN st2.cons[st2.pending[k].set]
             /\ HasType(st2.types[st2.pending[k].set], st2.pending[k].type)
    <2>1. CASE k \in DOMAIN st.pending
        <3>1. st2.pending[k] = st.pending[k] /\ st2.cons = st.cons
            BY <2>1 DEF Grown
        <3>2. st.pending[k] \in Items
            BY <1>1, <2>1, FieldsOK, SeqOK
        <3>3. st.pending[k].set \in Sets /\ st.pending[k].type \in Types
            BY <3>2 DEF Items
        <3>4. /\ st.pending[k].con \in DOMAIN st.cons[st.pending[k].set]
              /\ HasType(st.types[st.pending[k].set], st.pending[k].type)
            BY <1>1, <2>1 DEF ItemsOK
        <3>5. HasType(st2.types[st.pending[k].set], st.pending[k].type)
            BY <1>1, <3>3, <3>4, GrownMono
        <3> QED
            BY <3>1, <3>4, <3>5
    <2>2. CASE k \notin DOMAIN st.pending
        BY <2>2 DEF Grown, AddsTo
    <2> QED
        BY <2>1, <2>2
<1> QED
    BY <1>1, <1>2, <1>3, <1>4 DEF Good, ItemsOK

\* What was handed on before a set grew has still been handed on.
LEMMA GrownCovers ==
    ASSUME ProgramAssumption, NEW st \in States, NEW st2, NEW s \in Sets, NEW t, NEW y,
           Grown(st, st2, s, t, y), NEW c \in Constraints, NEW u \in Types, Satisfied(st, c, u)
    PROVE  Satisfied(st2, c, u)
<1>1. st2.barriers = st.barriers
    BY DEF Grown
<1>2. \A z \in Sets : HasType(st.types[z], u) => HasType(st2.types[z], u)
    BY GrownMono
<1>3. /\ c.kind = "subset" => c.target \in Sets
      /\ c.kind = "barrier" => c.target \in Sets
    BY ConstraintsOK
<1> QED
    BY <1>1, <1>2, <1>3 DEF Satisfied, Covered

\* The new types of a set are owed to its constraints, so nothing else is
\* missing.
LEMMA GrownFlow ==
    ASSUME ProgramAssumption, NEW st \in States, NEW st2, NEW s \in Sets, NEW t, NEW y,
           Grown(st, st2, s, t, y), NEW X, FlowUpTo(st, X)
    PROVE  FlowUpTo(st2, X)
<1> SUFFICES ASSUME NEW z \in Sets, NEW i \in DOMAIN st2.cons[z], NEW u \in st2.types[z]
             PROVE  Satisfied(st2, st2.cons[z][i], u) \/ Owed(st2, z, i, u) \/ <<z, i, u>> \in X
    BY DEF FlowUpTo
<1>1. st2.cons = st.cons /\ st2 \in States
    BY DEF Grown
<1>2. st.cons[z] \in Seq(Constraints) /\ u \in Types
    BY <1>1, FieldsOK
<1>3. st.cons[z][i] \in Constraints
    BY <1>1, <1>2
<1>4. CASE u \in st.types[z]
    <2>1. Satisfied(st, st.cons[z][i], u) \/ Owed(st, z, i, u) \/ <<z, i, u>> \in X
        BY <1>1, <1>4 DEF FlowUpTo
    <2>2. Satisfied(st, st.cons[z][i], u) => Satisfied(st2, st.cons[z][i], u)
        BY <1>2, <1>3, GrownCovers
    <2> QED
        BY <1>1, <2>1, <2>2, GrownMono
<1>5. CASE u \notin st.types[z]
    <2>1. z = s /\ Stands(y, u)
        BY <1>5 DEF Grown, AddsTo
    <2>2. PICK k \in DOMAIN st2.pending \ DOMAIN st.pending : st2.pending[k].con = i
        BY <1>1, <2>1 DEF Grown
    <2>3. st2.pending[k].set = s /\ st2.pending[k].type = y
        BY <2>2 DEF Grown
    <2> QED
        BY <2>1, <2>2, <2>3 DEF Owed
<1> QED
    BY <1>4, <1>5

-----------------------------------------------------------------------------
(* Barriers and recompilations.                                             *)

\* All that changes is which barriers the read r has and what is to be
\* recompiled.
Barred(st, st2, r) ==
    /\ st2 \in States
    /\ st2.types = st.types /\ st2.cons = st.cons /\ st2.pending = st.pending
    /\ st2.nuke = st.nuke /\ st2.code = st.code
    /\ st.recompiles \subseteq st2.recompiles
    /\ \A z \in Reads : z # r => st2.barriers[z] = st.barriers[z]

Reached(st, f) == {x \in {f} \cup InlinersOf(st, f) : HasJITCode(st, x)}

\* Those who inlined a script are scripts.
LEMMA InlinersOK ==
    ASSUME ProgramAssumption, NEW st \in States, KindsOK(st), NEW f \in Scripts
    PROVE  InlinersOf(st, f) \subseteq Scripts
<1> SUFFICES ASSUME NEW i \in DOMAIN st.cons[f]
             PROVE  st.cons[f][i].script \in Scripts
    BY DEF InlinersOf
<1>1. st.cons[f] \in Seq(Constraints)
    BY FieldsOK
<1>2. st.cons[f][i] \in Constraints
    BY <1>1
<1>3. st.cons[f][i].kind = "flags"
    BY DEF KindsOK
<1> QED
    BY <1>2, <1>3, ConstraintsOK

\* A barrier for t is put at the read r.
BarrierAt(st, st2, r, t) ==
    /\ Barred(st, st2, r)
    /\ Contains(st2.barriers[r], t)
    /\ \A u : Contains(st.barriers[r], u) => Contains(st2.barriers[r], u)
    /\ st.barriers[r] = <<>> => Reached(st, Observed[r].script) \subseteq st2.recompiles

\* addTypeBarrier leaves a barrier for the type, and has code without a check
\* recompiled when it is the first.
LEMMA BarrierPut ==
    ASSUME ProgramAssumption, NEW st \in States, KindsOK(st), NEW r \in Reads, NEW t \in Types,
           ~(t \in Objects /\ Cardinality(ObjectsOf(st.types[r])) >= BarrierLimit)
    PROVE  BarrierAt(st, AddTypeBarrier(st, r, t), r, t)
<1> DEFINE f == Observed[r].script
           st1 == IF st.barriers[r] = <<>> THEN NewBarrierSite(st, f) ELSE st
           R == IF st.barriers[r] = <<>> THEN st.recompiles \cup Reached(st, f) ELSE st.recompiles
           b == IF Contains(st.barriers[r], t) THEN st.barriers[r] ELSE <<t>> \o st.barriers[r]
           st2 == [[st EXCEPT !.recompiles = R] EXCEPT !.barriers[r] = b]
<1>1. f \in Scripts
    BY ObservedOK
<1>2. R \in SUBSET Scripts
    <2>1. Reached(st, f) \subseteq Scripts
        BY <1>1, InlinersOK DEF Reached
    <2> QED
        BY <2>1, FieldsOK
<1>3. st.barriers[r] \in Seq(Types)
    BY FieldsOK
<1>4. b \in Seq(Types)
    BY <1>3
<1>5. AddTypeBarrier(st, r, t) = st2
    <2>1. st1 = [st EXCEPT !.recompiles = R]
        BY DEF NewBarrierSite, Reached, States
    <2>2. AddTypeBarrier(st, r, t) =
             IF Contains(st.barriers[r], t) THEN st1 ELSE [st1 EXCEPT !.barriers[r] = <<t>> \o @]
        BY DEF AddTypeBarrier
    <2>3. st1.barriers = st.barriers
        BY <2>1 DEF States
    <2>4. CASE Contains(st.barriers[r], t)
        BY <2>1, <2>2, <2>4 DEF States
    <2>5. CASE ~Contains(st.barriers[r], t)
        BY <2>1, <2>2, <2>3, <2>5 DEF States
    <2> QED
        BY <2>4, <2>5
<1> HIDE DEF b, R
<1>6. /\ st2 \in States /\ st2.types = st.types /\ st2.pending = st.pending
      /\ st2.cons = st.cons /\ st2.nuke = st.nuke /\ st2.code = st.code
      /\ st2.recompiles = R /\ st2.barriers[r] = b
      /\ \A z \in Reads : z # r => st2.barriers[z] = st.barriers[z]
    BY <1>2, <1>4 DEF States
<1>7. Contains(b, t)
    <2>1. CASE Contains(st.barriers[r], t)
        BY <2>1 DEF b
    <2>2. CASE ~Contains(st.barriers[r], t)
        <3>1. b = <<t>> \o st.barriers[r]
            BY <2>2 DEF b
        <3>2. 1 \in 1 .. Len(b) /\ b[1] = t
            BY <1>3, <3>1
        <3> QED
            BY <3>2 DEF Contains
    <2> QED
        BY <2>1, <2>2
<1>8. ASSUME NEW u, Contains(st.barriers[r], u)
      PROVE  Contains(b, u)
    <2>1. CASE b = st.barriers[r]
        BY <1>8, <2>1
    <2>2. CASE b = <<t>> \o st.barriers[r]
        <3>1. PICK i \in 1 .. Len(st.barriers[r]) : st.barriers[r][i] = u
            BY <1>8 DEF Contains
        <3>2. i + 1 \in 1 .. Len(b) /\ b[i + 1] = u
            BY <1>3, <2>2, <3>1
        <3> QED
            BY <3>2 DEF Contains
    <2> QED
        BY <2>1, <2>2 DEF b
<1>9. st.recompiles \subseteq R
    BY DEF R
<1>10. st.barriers[r] = <<>> => Reached(st, f) \subseteq R
    BY DEF R
<1> HIDE DEF st2
<1>11. Barred(st, st2, r)
    BY <1>6, <1>9 DEF Barred
<1>12. BarrierAt(st, st2, r, t)
    BY <1>6, <1>7, <1>8, <1>10, <1>11 DEF BarrierAt
<1> QED
    BY <1>5, <1>12

\* If what a read is covered for does not shrink, all that was passed on still is.
LEMMA BarredFlow ==
    ASSUME ProgramAssumption, NEW st \in States, NEW st2, NEW r \in Reads, Barred(st, st2, r),
           NEW X, FlowUpTo(st, X),
           \A u \in Types : Covered(st, r, u) => Covered(st2, r, u)
    PROVE  FlowUpTo(st2, X)
<1> SUFFICES ASSUME NEW z \in Sets, NEW i \in DOMAIN st2.cons[z], NEW u \in st2.types[z]
             PROVE  Satisfied(st2, st2.cons[z][i], u) \/ Owed(st2, z, i, u) \/ <<z, i, u>> \in X
    BY DEF FlowUpTo
<1>1. /\ st2.cons = st.cons /\ st2.types = st.types /\ st2.pending = st.pending
      /\ \A q \in Reads : q # r => st2.barriers[q] = st.barriers[q]
    BY DEF Barred
<1>2. st.cons[z] \in Seq(Constraints) /\ u \in Types
    BY <1>1, FieldsOK
<1>3. st.cons[z][i] \in Constraints
    BY <1>1, <1>2
<1>4. Owed(st, z, i, u) => Owed(st2, z, i, u)
    BY <1>1 DEF Owed
<1>5. Satisfied(st, st.cons[z][i], u) => Satisfied(st2, st.cons[z][i], u)
    <2>1. \A q \in Reads : Covered(st, q, u) => Covered(st2, q, u)
        BY <1>1, <1>2 DEF Covered
    <2> QED
        BY <1>1, <1>3, <2>1, ConstraintsOK DEF Satisfied
<1> QED
    BY <1>1, <1>4, <1>5 DEF FlowUpTo

\* A barrier changes no type set.
LEMMA BarredGood ==
    ASSUME NEW st, Good(st), NEW st2, NEW r, Barred(st, st2, r)
    PROVE  Good(st2)
    BY DEF Good, Barred, SetsOK, KindsOK, ItemsOK

-----------------------------------------------------------------------------
(* A constraint is handed a type.                                           *)

\* A set that has a type has all that the type stands for.
LEMMA HasStands ==
    ASSUME ProgramAssumption, NEW T, SetOK(T), NEW t, NEW u, HasType(T, t), Stands(t, u)
    PROVE  HasType(T, u)
    BY TypesDiffer DEF HasType, Stands, SetOK

\* When the types in X were handed on as well, nothing is left out.
LEMMA FlowDone ==
    ASSUME NEW st, NEW X, FlowUpTo(st, X),
           \A s \in Sets : \A i \in DOMAIN st.cons[s] : \A t \in st.types[s] :
               <<s, i, t>> \in X => Satisfied(st, st.cons[s][i], t)
    PROVE  FlowIn(st)
    BY DEF FlowUpTo, FlowIn

\* A failed allocation leaves the old worklist and the new sets.
Larger(st, st2) ==
    /\ \A z \in Sets : DOMAIN st.cons[z] \subseteq DOMAIN st2.cons[z]
    /\ \A z \in Sets : \A u \in Types : HasType(st.types[z], u) => HasType(st2.types[z], u)

\* The constraint i of set s asks for the recompilation of its script.
Fired(st, st2, s, i) ==
    /\ st2 \in States
    /\ st2.types = st.types /\ st2.barriers = st.barriers /\ st2.pending = st.pending
    /\ st2.nuke = st.nuke /\ st2.code = st.code
    /\ \A z \in Sets \cup Scripts : z # s => st2.cons[z] = st.cons[z]
    /\ DOMAIN st2.cons[s] = DOMAIN st.cons[s]
    /\ \A j \in DOMAIN st.cons[s] : j # i => st2.cons[s][j] = st.cons[s][j]
    /\ st2.cons[s][i].kind = st.cons[s][i].kind
    /\ st2.recompiles = st.recompiles
          \cup {x \in {st.cons[s][i].script} : HasJITCode(st, x)}

\* The constraints that fire, as records.
LEMMA ConstraintKinds ==
    ASSUME NEW c \in Constraints, c.kind \in {"freeze", "tag", "flags"}
    PROVE  c \in [kind : {"freeze", "tag", "flags"}, script : Scripts, fired : BOOLEAN]
    BY DEF Constraints, FlowCons

\* Such a constraint, once it has fired.
LEMMA FiredRecord ==
    ASSUME NEW c \in [kind : {"freeze", "tag", "flags"}, script : Scripts, fired : BOOLEAN]
   
    PROVE  /\ [c EXCEPT !.fired = TRUE] \in [kind : {"freeze", "tag", "flags"}, script : Scripts, fired : BOOLEAN]
           /\ [c EXCEPT !.fired = TRUE].kind = c.kind
           /\ [c EXCEPT !.fired = TRUE].script = c.script
    OBVIOUS

\* Fire marks the constraint and asks for the recompilation of its script and
\* whoever inlined it.
LEMMA FireOK ==
    ASSUME ProgramAssumption, NEW st \in States, NEW s \in Sets,
           NEW i \in DOMAIN st.cons[s], st.cons[s][i].kind \in {"freeze", "tag"}
    PROVE  Fired(st, Fire(st, s, i), s, i)
<1> DEFINE c == st.cons[s][i]
           c2 == [c EXCEPT !.fired = TRUE]
           X == [st.cons EXCEPT ![s] = [st.cons[s] EXCEPT ![i] = c2]]
           R == st.recompiles \cup {x \in {c.script} : HasJITCode(st, x)}
           st2 == [[st EXCEPT !.cons = X] EXCEPT !.recompiles = R]
<1>1. st.cons[s] \in Seq(Constraints) /\ st.cons \in [Sets \cup Scripts -> Seq(Constraints)]
    BY FieldsOK
<1>2. c \in Constraints
    BY <1>1
<1>3. c.script \in Scripts /\ c = [kind |-> c.kind, script |-> c.script, fired |-> c.fired]
    BY <1>2, ConstraintsOK
<1>4. c \in [kind : {"freeze", "tag", "flags"}, script : Scripts, fired : BOOLEAN]
    BY <1>2, ConstraintKinds
<1>5. c2 \in Constraints /\ c2.kind = c.kind
    BY <1>4, FiredRecord DEF Constraints
<1>6. [st.cons[s] EXCEPT ![i] = c2] \in Seq(Constraints)
    BY <1>1, <1>5
<1>7. X \in [Sets \cup Scripts -> Seq(Constraints)]
    BY <1>1, <1>6
<1>8. R \in SUBSET Scripts
    BY <1>3, FieldsOK
<1>9. Fire(st, s, i) = st2
    <2> DEFINE st1 == [st EXCEPT !.cons[s][i].fired = TRUE]
    <2>1. st1 = [st EXCEPT !.cons = X]
        BY <1>1 DEF States
    <2>2. HasJITCode(st1, c.script) <=> HasJITCode(st, c.script)
        BY <2>1 DEF HasJITCode, States
    <2>3. st1.recompiles = st.recompiles
        BY <2>1 DEF States
    <2>4. Fire(st, s, i) = IF HasJITCode(st1, c.script)
                           THEN [st1 EXCEPT !.recompiles = @ \cup {c.script}] ELSE st1
        BY DEF Fire, AddPendingRecompile
    <2>5. CASE HasJITCode(st, c.script)
        <3>1. R = st.recompiles \cup {c.script}
            BY <2>5
        <3> QED
            BY <2>1, <2>2, <2>3, <2>4, <2>5, <3>1 DEF States
    <2>6. CASE ~HasJITCode(st, c.script)
        <3>1. R = st.recompiles
            BY <2>6
        <3>2. Fire(st, s, i) = st1
            BY <2>2, <2>4, <2>6
        <3>3. [st1 EXCEPT !.recompiles = st.recompiles] = st1
            BY <2>1 DEF States
        <3> QED
            BY <2>1, <3>1, <3>2, <3>3
    <2> QED
        BY <2>5, <2>6
<1> HIDE DEF X, R, c2
<1>10. /\ st2 \in States /\ st2.types = st.types /\ st2.barriers = st.barriers
       /\ st2.pending = st.pending /\ st2.nuke = st.nuke /\ st2.code = st.code
       /\ st2.cons = X /\ st2.recompiles = R
    BY <1>7, <1>8 DEF States
<1>11. /\ \A z \in Sets \cup Scripts : z # s => X[z] = st.cons[z]
       /\ DOMAIN X[s] = DOMAIN st.cons[s]
       /\ \A j \in DOMAIN st.cons[s] : j # i => X[s][j] = st.cons[s][j]
       /\ X[s][i] = c2
    BY <1>1 DEF X
<1> HIDE DEF st2
<1>12. st2.recompiles = st.recompiles \cup {x \in {st.cons[s][i].script} : HasJITCode(st, x)}
    BY <1>10 DEF R
<1> QED
    BY <1>5, <1>9, <1>10, <1>11, <1>12 DEF Fired

\* A constraint that fires leaves the sets well formed.
LEMMA FiredGood ==
    ASSUME ProgramAssumption, NEW st, Good(st), NEW st2, NEW s \in Sets, NEW i \in DOMAIN st.cons[s],
           Fired(st, st2, s, i)
    PROVE  Good(st2) /\ Larger(st, st2)
<1>1. st \in States /\ st2 \in States /\ SetsOK(st) /\ KindsOK(st) /\ ItemsOK(st)
    BY DEF Good, Fired
<1>2. \A z \in Sets \cup Scripts : DOMAIN st2.cons[z] = DOMAIN st.cons[z]
    BY DEF Fired
<1>3. \A z \in Sets \cup Scripts : \A j \in DOMAIN st.cons[z] :
          st2.cons[z][j].kind = st.cons[z][j].kind
    BY DEF Fired
<1>4. KindsOK(st2)
    BY <1>1, <1>2, <1>3 DEF KindsOK
<1>5. SetsOK(st2)
    BY <1>1 DEF SetsOK, Fired
<1>6. ItemsOK(st2)
    <2>0. \A k \in DOMAIN st.pending : st.pending[k] \in Items
        BY <1>1, FieldsOK, SeqOK
    <2>1. \A k \in DOMAIN st.pending : st.pending[k].set \in Sets
        BY <2>0 DEF Items
    <2>2. st2.pending = st.pending /\ st2.types = st.types
        BY DEF Fired
    <2> QED
        BY <1>1, <1>2, <2>1, <2>2 DEF ItemsOK
<1>7. Larger(st, st2)
    BY <1>2 DEF Larger, Fired
<1> QED
    BY <1>1, <1>4, <1>5, <1>6, <1>7 DEF Good

\* A constraint that fires passes no types on, and there are none it should
\* have.
LEMMA FiredFlow ==
    ASSUME ProgramAssumption, NEW st \in States, NEW st2, NEW s \in Sets, NEW i \in DOMAIN st.cons[s],
           st.cons[s][i].kind \in {"freeze", "tag"}, Fired(st, st2, s, i), NEW X, FlowUpTo(st, X)
    PROVE  FlowUpTo(st2, X)
<1> SUFFICES ASSUME NEW z \in Sets, NEW j \in DOMAIN st2.cons[z], NEW u \in st2.types[z]
             PROVE  Satisfied(st2, st2.cons[z][j], u) \/ Owed(st2, z, j, u) \/ <<z, j, u>> \in X
    BY DEF FlowUpTo
<1>1. j \in DOMAIN st.cons[z] /\ u \in st.types[z]
    BY DEF Fired
<1>2. CASE z = s /\ j = i
    BY <1>2 DEF Fired, Satisfied
<1>3. CASE ~(z = s /\ j = i)
    <2>1. st2.cons[z][j] = st.cons[z][j]
        BY <1>1, <1>3 DEF Fired
    <2>2. Owed(st, z, j, u) => Owed(st2, z, j, u)
        BY DEF Fired, Owed
    <2>3. Satisfied(st, st.cons[z][j], u) => Satisfied(st2, st.cons[z][j], u)
        BY DEF Fired, Satisfied, Covered
    <2> QED
        BY <1>1, <2>1, <2>2, <2>3 DEF FlowUpTo
<1> QED
    BY <1>2, <1>3

\* What newType of any constraint does to a state.
Kept(st, st2, s, i, t) ==
    /\ st2 = st
    /\ st.cons[s][i].kind \in {"subset", "barrier"} => HasType(st.types[st.cons[s][i].target], t)
    /\ st.cons[s][i].kind = "freeze" => st.cons[s][i].fired
    /\ st.cons[s][i].kind = "tag" => st.cons[s][i].fired \/ TagKept(st, s, t)

Passed(st, st2, s, i, t) ==
    /\ st.cons[s][i].kind \in {"subset", "barrier"}
    /\ st.cons[s][i].target \in Sets
    /\ ~HasType(st.types[st.cons[s][i].target], t)
    /\ \E y \in Types : Grown(st, st2, st.cons[s][i].target, t, y)

Stopped(st, st2, s, i, t) ==
    /\ st.cons[s][i].kind = "barrier"
    /\ st.cons[s][i].target \in Reads
    /\ ~HasType(st.types[st.cons[s][i].target], t)
    /\ BarrierAt(st, st2, st.cons[s][i].target, t)

Alerted(st, st2, s, i) ==
    /\ st.cons[s][i].kind \in {"freeze", "tag"}
    /\ Fired(st, st2, s, i)

Handed(st, st2, s, i, t) ==
    Kept(st, st2, s, i, t) \/ Passed(st, st2, s, i, t) \/ Stopped(st, st2, s, i, t) \/ Alerted(st, st2, s, i)

\* addType does nothing, or the set grows.
LEMMA AddTypeOK ==
    ASSUME ProgramAssumption, NEW st \in States, SetsOK(st), NEW s \in Sets, NEW t \in Types
    PROVE  \/ HasType(st.types[s], t) /\ AddType(st, s, t) = st
           \/ ~HasType(st.types[s], t) /\ \E y \in Types : Grown(st, AddType(st, s, t), s, t, y)
<1>1. HasType(st.types[s], t) => AddType(st, s, t) = st
    BY DEF AddType, Adds
<1>2. ~HasType(st.types[s], t) => \E y \in Types : Grown(st, AddType(st, s, t), s, t, y)
    BY AddTypeGrows
<1> QED
    BY <1>1, <1>2

\* newType of each kind of constraint does what Handed says.
LEMMA NewTypeHands ==
    ASSUME ProgramAssumption, NEW st, Good(st), NEW s \in Sets, NEW i \in DOMAIN st.cons[s],
           NEW t \in Types
    PROVE  Handed(st, NewType(st, s, i, t), s, i, t)
<1> SUFFICES ASSUME NEW st2, st2 = NewType(st, s, i, t)
             PROVE  Handed(st, st2, s, i, t)
    OBVIOUS
<1> DEFINE c == st.cons[s][i]
<1>1. st \in States /\ SetsOK(st) /\ KindsOK(st)
    BY DEF Good
<1>2. c \in Constraints
    BY <1>1, FieldsOK, SeqOK
<1>3. c.kind \in {"subset", "barrier", "freeze", "tag"}
    BY <1>1, <1>2, ConstraintsOK DEF KindsOK
<1>4. c.kind \in {"subset", "barrier"} => c.target \in Sets
    BY <1>2, ConstraintsOK
<1>5. CASE c.kind = "subset"
    <2>1. st2 = AddType(st, c.target, t)
        BY <1>5 DEF NewType
    <2>2. CASE HasType(st.types[c.target], t) /\ st2 = st
        BY <1>5, <2>2 DEF Handed, Kept
    <2>3. CASE ~HasType(st.types[c.target], t) /\ \E y \in Types : Grown(st, st2, c.target, t, y)
        BY <1>4, <1>5, <2>3 DEF Handed, Passed
    <2> QED
        BY <1>1, <1>4, <1>5, <2>1, <2>2, <2>3, AddTypeOK
<1>6. CASE c.kind = "barrier"
    <2>0. c.target \in Reads
        BY <1>2, <1>6, ConstraintsOK
    <2>1. st2 = IF HasType(st.types[c.target], t) THEN st ELSE AddTypeBarrier(st, c.target, t)
        BY <1>6 DEF NewType
    <2>2. CASE HasType(st.types[c.target], t)
        BY <1>6, <2>1, <2>2 DEF Handed, Kept
    <2>3. CASE ~HasType(st.types[c.target], t)
        <3> DEFINE over == t \in Objects /\ Cardinality(ObjectsOf(st.types[c.target])) >= BarrierLimit
        <3>1. CASE over
            <4>1. st2 = AddType(st, c.target, t)
                BY <2>1, <2>3, <3>1 DEF AddTypeBarrier
            <4>2. \E y \in Types : Grown(st, st2, c.target, t, y)
                BY <1>1, <1>4, <1>6, <2>3, <4>1, AddTypeOK
            <4> QED
                BY <1>4, <1>6, <2>3, <4>2 DEF Handed, Passed
        <3>2. CASE ~over
            <4>1. st2 = AddTypeBarrier(st, c.target, t)
                BY <2>1, <2>3
            <4>2. BarrierAt(st, st2, c.target, t)
                BY <1>1, <2>0, <3>2, <4>1, BarrierPut
            <4> QED
                BY <1>6, <2>0, <2>3, <4>2 DEF Handed, Stopped
        <3> QED
            BY <3>1, <3>2
    <2> QED
        BY <2>2, <2>3
<1>7. CASE c.kind \in {"freeze", "tag"}
    <2>1. \/ st2 = st /\ (c.kind = "freeze" => c.fired) /\ (c.kind = "tag" => c.fired \/ TagKept(st, s, t))
          \/ st2 = Fire(st, s, i)
        BY <1>7 DEF NewType
    <2>2. Fired(st, Fire(st, s, i), s, i)
        BY <1>1, <1>7, FireOK
    <2>3. CASE st2 = Fire(st, s, i)
        BY <1>7, <2>2, <2>3 DEF Handed, Alerted
    <2>4. CASE st2 = st /\ (c.kind = "freeze" => c.fired) /\ (c.kind = "tag" => c.fired \/ TagKept(st, s, t))
        BY <1>7, <2>4 DEF Handed, Kept
    <2> QED
        BY <2>1, <2>3, <2>4
<1> QED
    BY <1>3, <1>5, <1>6, <1>7

\* Whatever newType does, the sets stay well formed and lose nothing.
LEMMA HandedGood ==
    ASSUME ProgramAssumption, NEW st, Good(st), NEW s \in Sets, NEW i \in DOMAIN st.cons[s],
           NEW t \in Types, NEW st2, Handed(st, st2, s, i, t)
    PROVE  Good(st2) /\ Larger(st, st2) /\ st2.nuke = st.nuke /\ st2.code = st.code
<1>0. st \in States
    BY DEF Good
<1>1. CASE Kept(st, st2, s, i, t)
    BY <1>1 DEF Kept, Larger
<1>2. CASE Passed(st, st2, s, i, t)
    <2> DEFINE z == st.cons[s][i].target
    <2>1. z \in Sets
        BY <1>2 DEF Passed
    <2>2. PICK y \in Types : Grown(st, st2, z, t, y)
        BY <1>2 DEF Passed
    <2>3. Good(st2)
        BY <2>1, <2>2, GrownGood
    <2>4. \A q \in Sets : \A u \in Types : HasType(st.types[q], u) => HasType(st2.types[q], u)
        BY <1>0, <2>1, <2>2, GrownMono
    <2> QED
        BY <2>2, <2>3, <2>4 DEF Larger, Grown
<1>3. CASE Stopped(st, st2, s, i, t)
    <2>1. Barred(st, st2, st.cons[s][i].target)
        BY <1>3 DEF Stopped, BarrierAt
    <2> QED
        BY <2>1, BarredGood DEF Larger, Barred
<1>4. CASE Alerted(st, st2, s, i)
    BY <1>4, FiredGood DEF Alerted, Fired
<1> QED
    BY <1>1, <1>2, <1>3, <1>4 DEF Handed

For(s, i, t) == {<<s, i, u>> : u \in {u \in Types : Stands(t, u)}}

\* Once a constraint was handed what it was owed, it is owed no more.
LEMMA HandedFlow ==
    ASSUME ProgramAssumption, NEW st, Good(st), NEW s \in Sets, NEW i \in DOMAIN st.cons[s],
           NEW t \in Types, NEW st2, Handed(st, st2, s, i, t), FlowUpTo(st, For(s, i, t))
    PROVE  FlowIn(st2)
<1> DEFINE c == st.cons[s][i]
           z == c.target
<1>0. st \in States /\ SetsOK(st) /\ KindsOK(st) /\ st2 \in States /\ SetsOK(st2) /\ Good(st2)
    BY HandedGood DEF Good
<1>1. c \in Constraints
    BY <1>0, FieldsOK, SeqOK
<1>2. ASSUME FlowUpTo(st2, For(s, i, t)),
             \A u \in Types : Stands(t, u) => Satisfied(st2, st2.cons[s][i], u)
      PROVE  FlowIn(st2)
    <2>1. \A q \in Sets : \A j \in DOMAIN st2.cons[q] : \A u \in st2.types[q] :
              <<q, j, u>> \in For(s, i, t) => Satisfied(st2, st2.cons[q][j], u)
        BY <1>2 DEF For
    <2> HIDE DEF c
    <2> QED
        BY <1>2, <2>1, FlowDone
<1>3. CASE c.kind \notin {"subset", "barrier"} /\ st2 = st
    BY <1>2, <1>3 DEF Satisfied
<1>4. ASSUME c.kind \in {"subset", "barrier"}, z \in Sets, HasType(st2.types[z], t),
             FlowUpTo(st2, For(s, i, t)), st2.cons = st.cons
      PROVE  FlowIn(st2)
    <2>1. ASSUME NEW u \in Types, Stands(t, u)
          PROVE  Satisfied(st2, st2.cons[s][i], u)
        <3>1. SetOK(st2.types[z])
            BY <1>0, <1>4 DEF SetsOK
        <3>2. HasType(st2.types[z], u)
            BY <1>4, <2>1, <3>1, HasStands
        <3> QED
            BY <1>4, <3>2 DEF Satisfied, Covered
    <2> QED
        BY <1>2, <1>4, <2>1
<1>5. CASE Kept(st, st2, s, i, t)
    <2>1. st2 = st
        BY <1>5 DEF Kept
    <2>2. CASE c.kind \in {"subset", "barrier"}
        <3>1. z \in Sets
            BY <1>1, <2>2, ConstraintsOK
        <3> QED
            BY <1>4, <1>5, <2>1, <2>2, <3>1 DEF Kept
    <2> QED
        BY <1>3, <2>1, <2>2
<1>6. CASE Passed(st, st2, s, i, t)
    <2>1. z \in Sets /\ c.kind \in {"subset", "barrier"}
        BY <1>6 DEF Passed
    <2>2. PICK y \in Types : Grown(st, st2, z, t, y)
        BY <1>6 DEF Passed
    <2>3. FlowUpTo(st2, For(s, i, t))
        BY <1>0, <2>1, <2>2, GrownFlow
    <2>4. HasType(st2.types[z], t)
        BY <1>0, <2>1, <2>2, GrownMono
    <2>5. st2.cons = st.cons
        BY <2>2 DEF Grown
    <2> QED
        BY <1>4, <2>1, <2>3, <2>4, <2>5
<1>7. CASE Stopped(st, st2, s, i, t)
    <2>1. /\ c.kind = "barrier" /\ z \in Reads /\ Barred(st, st2, z)
          /\ Contains(st2.barriers[z], t)
          /\ \A u : Contains(st.barriers[z], u) => Contains(st2.barriers[z], u)
        BY <1>7 DEF Stopped, BarrierAt
    <2>2. st2.types = st.types /\ st2.cons = st.cons
        BY <2>1 DEF Barred
    <2>3. \A u \in Types : Covered(st, z, u) => Covered(st2, z, u)
        BY <2>1, <2>2 DEF Covered
    <2>4. FlowUpTo(st2, For(s, i, t))
        BY <1>0, <2>1, <2>3, BarredFlow
    <2>5. ASSUME NEW u \in Types, Stands(t, u)
          PROVE  Satisfied(st2, st2.cons[s][i], u)
        BY <2>1, <2>2, <2>5 DEF Satisfied, Covered, Stands
    <2> QED
        BY <1>2, <2>4, <2>5
<1>8. CASE Alerted(st, st2, s, i)
    <2>1. FlowUpTo(st2, For(s, i, t))
        BY <1>0, <1>8, FiredFlow DEF Alerted
    <2>2. st2.cons[s][i].kind \notin {"subset", "barrier"}
        BY <1>8 DEF Alerted, Fired
    <2> QED
        BY <1>2, <2>1, <2>2 DEF Satisfied
<1> QED
    BY <1>5, <1>6, <1>7, <1>8 DEF Handed

\* A failed allocation: what was to be done is lost, in part or wholly.
LEMMA LostGood ==
    ASSUME NEW st, Good(st), NEW st2, Good(st2), Larger(st, st2), NEW n \in Lost(st, st2)
    PROVE  Good(n) /\ n.nuke = TRUE /\ n.pending = st.pending /\ n.code \in {st.code, st2.code}
<1>1. st \in States /\ SetsOK(st) /\ KindsOK(st) /\ ItemsOK(st)
    BY DEF Good
<1>2. st2 \in States /\ SetsOK(st2) /\ KindsOK(st2)
    BY DEF Good
<1>3. CASE n = [st EXCEPT !.nuke = TRUE]
    <2>1. /\ n \in States /\ n.types = st.types /\ n.cons = st.cons
          /\ n.pending = st.pending /\ n.nuke = TRUE /\ n.code = st.code
        BY <1>1, <1>3 DEF States
    <2> HIDE <1>3
    <2> QED
        BY <1>1, <2>1 DEF Good, SetsOK, KindsOK, ItemsOK
<1>4. CASE n = [st2 EXCEPT !.nuke = TRUE, !.pending = st.pending]
    <2>0. st.pending \in Seq(Items)
        BY <1>1, FieldsOK
    <2>1. /\ n \in States /\ n.types = st2.types /\ n.cons = st2.cons
          /\ n.pending = st.pending /\ n.nuke = TRUE /\ n.code = st2.code
        BY <1>2, <1>4, <2>0 DEF States
    <2> HIDE <1>4
    <2>2. ASSUME NEW k \in DOMAIN st.pending
          PROVE  /\ st.pending[k].con \in DOMAIN st2.cons[st.pending[k].set]
                 /\ HasType(st2.types[st.pending[k].set], st.pending[k].type)
        <3>1. st.pending[k] \in Items
            BY <2>0, SeqOK
        <3>2. st.pending[k].set \in Sets /\ st.pending[k].type \in Types
            BY <3>1 DEF Items
        <3> QED
            BY <1>1, <3>2 DEF ItemsOK, Larger
    <2>3. ItemsOK(n)
        BY <2>1, <2>2 DEF ItemsOK
    <2> QED
        BY <1>2, <2>1, <2>3 DEF Good, SetsOK, KindsOK
<1> QED
    BY <1>3, <1>4 DEF Lost

\* The item at the end of the worklist is taken from it.
Taken(st) == [st EXCEPT !.pending = Take(@).rest]

\* The last item of the worklist is about a constraint that exists.
LEMMA TakeOK ==
    ASSUME ProgramAssumption, NEW st, Good(st), st.pending # <<>>
    PROVE  LET w == Take(st.pending).item
           IN /\ w = st.pending[Len(st.pending)]
              /\ Len(st.pending) \in DOMAIN st.pending
              /\ w \in Items /\ w.set \in Sets /\ w.type \in Types
              /\ w.con \in DOMAIN st.cons[w.set]
              /\ Taken(st) \in States
              /\ DOMAIN Taken(st).pending = DOMAIN st.pending \ {Len(st.pending)}
              /\ \A k \in DOMAIN Taken(st).pending : Taken(st).pending[k] = st.pending[k]
              /\ Taken(st).types = st.types /\ Taken(st).cons = st.cons
              /\ Taken(st).barriers = st.barriers /\ Taken(st).recompiles = st.recompiles
              /\ Taken(st).nuke = st.nuke /\ Taken(st).code = st.code
<1> DEFINE p == st.pending
           w == Take(p).item
           q == Take(p).rest
<1>1. st \in States /\ ItemsOK(st)
    BY DEF Good
<1>2. p \in Seq(Items) /\ p # <<>>
    BY <1>1, FieldsOK
<1>3. w = p[Len(p)] /\ q = SubSeq(p, 1, Len(p) - 1)
    BY DEF Take, Last, Front
<1>4. Len(p) \in DOMAIN p /\ DOMAIN p = 1 .. Len(p) /\ Len(p) > 0 /\ Len(p) \in Nat
    BY <1>2
<1>5. w \in Items
    BY <1>2, <1>3, <1>4
<1>6. w.set \in Sets /\ w.type \in Types
    BY <1>5 DEF Items
<1>7. w.con \in DOMAIN st.cons[w.set]
    BY <1>1, <1>3, <1>4 DEF ItemsOK
<1>8. /\ q \in Seq(Items) /\ Len(q) = Len(p) - 1 /\ DOMAIN q = 1 .. Len(p) - 1
      /\ \A k \in 1 .. Len(p) - 1 : q[k] = p[k]
    BY <1>2, <1>3, <1>4
<1>9. DOMAIN q = DOMAIN p \ {Len(p)}
    BY <1>4, <1>8
<1>10. Taken(st) = [st EXCEPT !.pending = q]
    BY DEF Taken
<1> HIDE DEF q, w
<1>11. /\ Taken(st) \in States /\ Taken(st).pending = q
       /\ Taken(st).types = st.types /\ Taken(st).cons = st.cons
       /\ Taken(st).barriers = st.barriers /\ Taken(st).recompiles = st.recompiles
       /\ Taken(st).nuke = st.nuke /\ Taken(st).code = st.code
    BY <1>1, <1>8, <1>10 DEF States
<1> QED
    BY <1>3, <1>4, <1>5, <1>6, <1>7, <1>8, <1>9, <1>11 DEF w

\* What is left of the worklist is well formed.
LEMMA TakenGood ==
    ASSUME ProgramAssumption, NEW st, Good(st), st.pending # <<>>
    PROVE  Good(Taken(st))
<1>1. /\ Taken(st) \in States
      /\ DOMAIN Taken(st).pending = DOMAIN st.pending \ {Len(st.pending)}
      /\ \A k \in DOMAIN Taken(st).pending : Taken(st).pending[k] = st.pending[k]
      /\ Taken(st).types = st.types /\ Taken(st).cons = st.cons
    BY TakeOK
<1> QED
    BY <1>1 DEF Good, SetsOK, KindsOK, ItemsOK

\* Without the item that was taken, its type is all that may be missing.
LEMMA TakenFlow ==
    ASSUME ProgramAssumption, NEW st, Good(st), st.pending # <<>>, FlowIn(st),
           NEW s, NEW i, NEW t,
           s = Take(st.pending).item.set, i = Take(st.pending).item.con,
           t = Take(st.pending).item.type
    PROVE  FlowUpTo(Taken(st), For(s, i, t))
<1> DEFINE n == Len(st.pending)
           st2 == Taken(st)
<1>1. /\ Take(st.pending).item = st.pending[n]
      /\ DOMAIN st2.pending = DOMAIN st.pending \ {n}
      /\ \A k \in DOMAIN st2.pending : st2.pending[k] = st.pending[k]
      /\ st2.types = st.types /\ st2.cons = st.cons /\ st2.barriers = st.barriers
    BY TakeOK
<1>2. st.types \in [Sets -> SUBSET Types]
    BY FieldsOK DEF Good
<1> HIDE DEF st2
<1> SUFFICES ASSUME NEW z \in Sets, NEW j \in DOMAIN st2.cons[z], NEW u \in st2.types[z]
            
             PROVE  Satisfied(st2, st2.cons[z][j], u) \/ Owed(st2, z, j, u) \/ <<z, j, u>> \in For(s, i, t)
    BY DEF FlowUpTo, st2
<1>3. u \in Types
    BY <1>1, <1>2
<1>4. CASE Satisfied(st, st.cons[z][j], u)
    BY <1>1, <1>4 DEF Satisfied, Covered
<1>5. CASE Owed(st, z, j, u)
    <2>1. PICK k \in DOMAIN st.pending :
              st.pending[k].set = z /\ st.pending[k].con = j /\ Stands(st.pending[k].type, u)
        BY <1>5 DEF Owed
    <2>2. CASE k = n
        <3>1. z = s /\ j = i /\ Stands(t, u)
            BY <1>1, <2>1, <2>2
        <3> QED
            BY <1>3, <3>1 DEF For
    <2>3. CASE k # n
        BY <1>1, <2>1, <2>3 DEF Owed
    <2> QED
        BY <2>2, <2>3
<1> QED
    BY <1>1, <1>4, <1>5 DEF FlowIn

-----------------------------------------------------------------------------
(* A constraint is added.                                                   *)

\* Every element of a finite set is in its sequence.
LEMMA SetToSeqOK ==
    ASSUME NEW S, IsFiniteSet(S)
    PROVE  /\ SetToSeq(S) \in Seq(S)
           /\ \A x \in S : \E k \in DOMAIN SetToSeq(S) : SetToSeq(S)[k] = x
<1> DEFINE n == Cardinality(S)
<1>1. n \in Nat /\ ExistsBijection(1 .. n, S)
    BY FS_CardinalityType
<1>2. PICK f \in Bijection(1 .. n, S) : TRUE
    BY <1>1 DEF ExistsBijection
<1>3. f \in [1 .. n -> S] /\ IsInjective(f)
    BY <1>2 DEF Bijection, Injection, Surjection, IsInjective
<1> DEFINE g == SetToSeq(S)
<1>4. g \in [1 .. n -> S] /\ IsInjective(g)
    BY <1>3 DEF SetToSeq
<1> HIDE DEF n, g
<1>5. g \in Seq(S) /\ DOMAIN g = 1 .. n
    BY <1>1, <1>4
<1>6. g \in Injection(1 .. n, S)
    BY <1>4 DEF Injection, IsInjective
<1>7. IsFiniteSet(1 .. n) /\ Cardinality(1 .. n) = n
    BY <1>1, FS_Interval
<1>8. g \in Surjection(1 .. n, S)
    BY <1>6, <1>7, FS_Injection DEF n
<1> QED
    BY <1>5, <1>8 DEF Surjection, g

\* The types that a new constraint is handed are those of the set.
LEMMA ExistingOK ==
    ASSUME ProgramAssumption, NEW T \in SUBSET Types, SetOK(T)
    PROVE  /\ Existing(T) \in Seq(Types)
           /\ \A k \in DOMAIN Existing(T) : Existing(T)[k] \in T
           /\ \A t \in T : \E k \in DOMAIN Existing(T) : Existing(T)[k] = t
<1>1. CASE "unknown" \in T
    <2>1. T = {"unknown"} /\ Existing(T) = <<"unknown">>
        BY <1>1 DEF Existing, SetOK
    <2>2. "unknown" \in Types
        BY DEF Types
    <2>3. <<"unknown">> \in Seq(Types) /\ DOMAIN <<"unknown">> = {1} /\ <<"unknown">>[1] = "unknown"
        BY <2>2
    <2> QED
        BY <2>1, <2>3
<1>2. CASE "unknown" \notin T
    <2> DEFINE P == T \cap Prims
               O == ObjectsOf(T)
               p == SetToSeq(P)
               q == IF "anyobject" \in T THEN <<"anyobject">> ELSE SetToSeq(O)
    <2>1. Existing(T) = p \o q
        BY <1>2 DEF Existing
    <2>2. IsFiniteSet(P) /\ IsFiniteSet(O)
        BY FS_Subset DEF SetOK, ObjectsOf
    <2>3. p \in Seq(P) /\ \A x \in P : \E k \in DOMAIN p : p[k] = x
        BY <2>2, SetToSeqOK
    <2>4. p \in Seq(T)
        BY <2>3
    <2>5. q \in Seq(T) /\ \A x \in T \ P : \E k \in DOMAIN q : q[k] = x
        <3>1. CASE "anyobject" \in T
            <4>1. q = <<"anyobject">> /\ O = {}
                BY <3>1 DEF SetOK
            <4>2. \A x \in T \ P : x = "anyobject"
                BY <1>2, <4>1, TypesDiffer DEF ObjectsOf, Prims
            <4> QED
                BY <3>1, <4>1, <4>2
        <3>2. CASE "anyobject" \notin T
            <4>1. q = SetToSeq(O)
                BY <3>2
            <4>2. q \in Seq(O) /\ \A x \in O : \E k \in DOMAIN q : q[k] = x
                BY <2>2, <4>1, SetToSeqOK
            <4>3. T \ P \subseteq O /\ O \subseteq T
                BY <1>2, <3>2, TypesDiffer DEF ObjectsOf, Prims
            <4> HIDE DEF q, O
            <4> QED
                BY <4>2, <4>3
        <3> QED
            BY <3>1, <3>2
    <2> HIDE DEF p, q, P
    <2>6. /\ p \o q \in Seq(T)
          /\ \A k \in DOMAIN p : k \in DOMAIN (p \o q) /\ (p \o q)[k] = p[k]
          /\ \A k \in DOMAIN q : Len(p) + k \in DOMAIN (p \o q) /\ (p \o q)[Len(p) + k] = q[k]
        BY <2>4, <2>5, ConcatOK
    <2>7. \A x \in T : \E k \in DOMAIN (p \o q) : (p \o q)[k] = x
        BY <2>3, <2>5, <2>6
    <2> DEFINE e == p \o q
    <2> HIDE DEF e
    <2>8. e \in Seq(T) /\ e \in Seq(Types) /\ \A k \in DOMAIN e : e[k] \in T
        BY <2>6 DEF e
    <2> QED
        BY <2>1, <2>7, <2>8 DEF e
<1> QED
    BY <1>1, <1>2

\* The constraint c is the newest of x; the types in E are owed to it.
Added(st, st2, x, c, E) ==
    /\ st2 \in States
    /\ st2.types = st.types /\ st2.barriers = st.barriers /\ st2.recompiles = st.recompiles
    /\ st2.nuke = st.nuke /\ st2.code = st.code
    /\ \A z \in Sets \cup Scripts : z # x => st2.cons[z] = st.cons[z]
    /\ DOMAIN st2.cons[x] = DOMAIN st.cons[x] \cup {Len(st.cons[x]) + 1}
    /\ Len(st.cons[x]) + 1 \notin DOMAIN st.cons[x]
    /\ \A j \in DOMAIN st.cons[x] : st2.cons[x][j] = st.cons[x][j]
    /\ st2.cons[x][Len(st.cons[x]) + 1] = c
    /\ \A k \in DOMAIN st.pending : k \in DOMAIN st2.pending /\ st2.pending[k] = st.pending[k]
    /\ \A k \in DOMAIN st2.pending \ DOMAIN st.pending :
          /\ st2.pending[k].set = x /\ st2.pending[k].con = Len(st.cons[x]) + 1
          /\ st2.pending[k].type \in E
    /\ \A t \in E : \E k \in DOMAIN st2.pending \ DOMAIN st.pending : st2.pending[k].type = t

\* AddConstraint appends the constraint and puts the existing types on the
\* worklist for it.
LEMMA AddConstraintOK ==
    ASSUME ProgramAssumption, NEW st \in States, SetsOK(st), NEW x \in Sets \cup Scripts,
           NEW c \in Constraints, NEW b \in BOOLEAN, b => x \in Sets
    PROVE  Added(st, AddConstraint(st, x, c, b), x, c, IF b THEN st.types[x] ELSE {})
<1> DEFINE n == Len(st.cons[x]) + 1
           ts == IF b THEN Existing(st.types[x]) ELSE <<>>
           E == IF b THEN st.types[x] ELSE {}
           items == [k \in DOMAIN ts |-> [set |-> x, con |-> n, type |-> ts[k]]]
           X == [st.cons EXCEPT ![x] = Append(st.cons[x], c)]
           p == st.pending
           all == p \o items
           st2 == [st EXCEPT !.cons = X, !.pending = all]
<1>1. AddConstraint(st, x, c, b) = st2
    BY DEF AddConstraint, States
<1>2. /\ st.cons \in [Sets \cup Scripts -> Seq(Constraints)] /\ st.cons[x] \in Seq(Constraints)
      /\ p \in Seq(Items) /\ st.types \in [Sets -> SUBSET Types]
    BY FieldsOK
<1>3. n \in Nat \ {0} /\ DOMAIN st.cons[x] = 1 .. (n - 1)
    BY <1>2
<1>4. ts \in Seq(Types) /\ (\A k \in DOMAIN ts : ts[k] \in E) /\ (\A t \in E : \E k \in DOMAIN ts : ts[k] = t)
    <2>1. CASE b
        <3>1. x \in Sets
            BY <2>1
        <3>2. st.types[x] \in SUBSET Types /\ SetOK(st.types[x])
            BY <1>2, <3>1 DEF SetsOK
        <3>3. ts = Existing(st.types[x]) /\ E = st.types[x]
            BY <2>1
        <3> HIDE DEF ts, E
        <3> QED
            BY <3>2, <3>3, ExistingOK
    <2>2. CASE ~b
        BY <2>2
    <2> QED
        BY <2>1, <2>2
<1>5. b => x \in Sets
    OBVIOUS
<1> HIDE DEF n, ts, E
<1>6. ts # <<>> => x \in Sets
    BY <1>5 DEF ts
<1>7. /\ items \in Seq(Items) /\ DOMAIN items = DOMAIN ts
      /\ \A k \in DOMAIN ts : items[k].set = x /\ items[k].con = n /\ items[k].type = ts[k]
    <2>1. DOMAIN items = DOMAIN ts /\ DOMAIN ts = 1 .. Len(ts) /\ Len(ts) \in Nat
        BY <1>4
    <2>2. \A k \in DOMAIN ts : items[k] = [set |-> x, con |-> n, type |-> ts[k]]
        OBVIOUS
    <2>3. \A k \in DOMAIN ts : ts # <<>> /\ ts[k] \in Types
        BY <1>4
    <2>4. \A k \in DOMAIN ts : items[k] \in Items
        BY <1>3, <1>6, <2>2, <2>3 DEF Items
    <2>5. items \in [1 .. Len(ts) -> Items]
        BY <2>1, <2>4
    <2> QED
        BY <2>1, <2>2, <2>5
<1> HIDE DEF items
<1>8. /\ all \in Seq(Items)
      /\ \A k \in DOMAIN p : k \in DOMAIN all /\ all[k] = p[k]
      /\ \A k \in DOMAIN items : Len(p) + k \in DOMAIN all /\ all[Len(p) + k] = items[k]
      /\ \A k \in DOMAIN all \ DOMAIN p :
            k - Len(p) \in DOMAIN items /\ all[k] = items[k - Len(p)]
    <2> HIDE DEF p
    <2> QED
        BY <1>2, <1>7, ConcatOK
<1>9. \A k \in DOMAIN items : Len(p) + k \notin DOMAIN p
    <2>1. DOMAIN items = 1 .. Len(items) /\ DOMAIN p = 1 .. Len(p) /\ Len(p) \in Nat
        BY <1>2, <1>7
    <2> HIDE DEF p
    <2> QED
        BY <2>1
<1> HIDE DEF all
<1>10. /\ X \in [Sets \cup Scripts -> Seq(Constraints)]
       /\ \A z \in Sets \cup Scripts : z # x => X[z] = st.cons[z]
       /\ DOMAIN X[x] = 1 .. n
       /\ \A j \in DOMAIN st.cons[x] : X[x][j] = st.cons[x][j]
       /\ X[x][n] = c
    BY <1>2 DEF n
<1> HIDE DEF X
<1>11. /\ st2 \in States /\ st2.types = st.types /\ st2.barriers = st.barriers
       /\ st2.recompiles = st.recompiles /\ st2.nuke = st.nuke /\ st2.code = st.code
       /\ st2.cons = X /\ st2.pending = all
    BY <1>8, <1>10 DEF States
<1>12. \A k \in DOMAIN st2.pending \ DOMAIN st.pending :
          /\ st2.pending[k].set = x /\ st2.pending[k].con = n /\ st2.pending[k].type \in E
    BY <1>4, <1>7, <1>8, <1>11
<1>13. \A t \in E : \E k \in DOMAIN st2.pending \ DOMAIN st.pending : st2.pending[k].type = t
    <2> TAKE t \in E
    <2>1. PICK k \in DOMAIN ts : ts[k] = t
        BY <1>4
    <2>2. Len(p) + k \in DOMAIN all /\ Len(p) + k \notin DOMAIN p /\ all[Len(p) + k].type = t
        BY <1>7, <1>8, <1>9, <2>1
    <2> QED
        BY <1>11, <2>2
<1>14. DOMAIN X[x] = DOMAIN st.cons[x] \cup {n} /\ n \notin DOMAIN st.cons[x]
    BY <1>3, <1>10
<1> HIDE DEF st2
<1>15. Added(st, st2, x, c, E)
    BY <1>8, <1>10, <1>11, <1>12, <1>13, <1>14 DEF Added, n
<1> QED
    BY <1>1, <1>15 DEF E

\* A new constraint leaves the state well formed.
LEMMA AddedGood ==
    ASSUME ProgramAssumption, NEW st, Good(st), NEW x \in Sets \cup Scripts,
           NEW c \in Constraints, NEW E, NEW st2, Added(st, st2, x, c, E),
           x \in Sets => c.kind # "flags" /\ E \subseteq st.types[x],
           x \in Scripts => c.kind = "flags" /\ E = {}
    PROVE  Good(st2) /\ Larger(st, st2)
<1>1. st \in States /\ st2 \in States /\ SetsOK(st) /\ KindsOK(st) /\ ItemsOK(st)
    BY DEF Good, Added
<1>2. SetsOK(st2)
    BY <1>1 DEF SetsOK, Added
<1>3. \A z \in Sets \cup Scripts : DOMAIN st.cons[z] \subseteq DOMAIN st2.cons[z]
    BY DEF Added
<1>4. \A z \in Sets \cup Scripts : \A j \in DOMAIN st2.cons[z] :
         IF z = x /\ j = Len(st.cons[x]) + 1 THEN st2.cons[z][j] = c
         ELSE j \in DOMAIN st.cons[z] /\ st2.cons[z][j] = st.cons[z][j]
    BY DEF Added
<1>5. Sets \cap Scripts = {}
    BY DEF ProgramAssumption
<1>6. KindsOK(st2)
    BY <1>1, <1>4, <1>5 DEF KindsOK
<1>7. ASSUME NEW k \in DOMAIN st2.pending
      PROVE  /\ st2.pending[k].con \in DOMAIN st2.cons[st2.pending[k].set]
             /\ HasType(st2.types[st2.pending[k].set], st2.pending[k].type)
    <2>1. CASE k \in DOMAIN st.pending
        <3>1. st.pending[k] \in Items /\ st2.pending[k] = st.pending[k]
            BY <1>1, <2>1, FieldsOK, SeqOK DEF Added
        <3>2. st.pending[k].set \in Sets
            BY <3>1 DEF Items
        <3>3. /\ st.pending[k].con \in DOMAIN st.cons[st.pending[k].set]
              /\ HasType(st.types[st.pending[k].set], st.pending[k].type)
            BY <1>1, <2>1 DEF ItemsOK
        <3> QED
            BY <1>3, <3>1, <3>2, <3>3 DEF Added
    <2>2. CASE k \notin DOMAIN st.pending
        <3>1. /\ st2.pending[k].set = x /\ st2.pending[k].con = Len(st.cons[x]) + 1
              /\ st2.pending[k].type \in E
            BY <2>2 DEF Added
        <3>2. x \in Sets
            BY <3>1
        <3>3. HasType(st.types[x], st2.pending[k].type)
            BY <3>1, <3>2 DEF HasType
        <3> QED
            BY <3>1, <3>3 DEF Added
    <2> QED
        BY <2>1, <2>2
<1>8. Larger(st, st2)
    BY <1>3 DEF Larger, Added
<1> QED
    BY <1>1, <1>2, <1>6, <1>7, <1>8 DEF Good, ItemsOK

\* A new constraint is owed all the types of its set, if it passes types on.
LEMMA AddedFlow ==
    ASSUME ProgramAssumption, NEW st, Good(st), FlowIn(st), NEW x \in Sets \cup Scripts,
           NEW c, NEW E, NEW st2, Added(st, st2, x, c, E),
           x \in Sets => E = st.types[x] \/ c.kind \notin {"subset", "barrier"}
    PROVE  FlowIn(st2)
<1> SUFFICES ASSUME NEW z \in Sets, NEW j \in DOMAIN st2.cons[z], NEW u \in st2.types[z]
             PROVE  Satisfied(st2, st2.cons[z][j], u) \/ Owed(st2, z, j, u)
    BY DEF FlowIn
<1>1. st2.types = st.types /\ st2.barriers = st.barriers
    BY DEF Added
<1>2. CASE j \in DOMAIN st.cons[z]
    <2>1. st2.cons[z][j] = st.cons[z][j]
        BY <1>2 DEF Added
    <2>2. Owed(st, z, j, u) => Owed(st2, z, j, u)
        BY DEF Added, Owed
    <2>3. Satisfied(st, st.cons[z][j], u) \/ Owed(st, z, j, u)
        BY <1>1, <1>2 DEF FlowIn
    <2> QED
        BY <1>1, <2>1, <2>2, <2>3 DEF Satisfied, Covered
<1>3. CASE j \notin DOMAIN st.cons[z]
    <2>1. z = x /\ j = Len(st.cons[x]) + 1 /\ st2.cons[z][j] = c
        BY <1>3 DEF Added
    <2>2. CASE c.kind \notin {"subset", "barrier"}
        BY <2>1, <2>2 DEF Satisfied
    <2>3. CASE E = st.types[x]
        <3>1. PICK k \in DOMAIN st2.pending \ DOMAIN st.pending : st2.pending[k].type = u
            BY <1>1, <2>1, <2>3 DEF Added
        <3>2. st2.pending[k].set = z /\ st2.pending[k].con = j
            BY <2>1, <3>1 DEF Added
        <3> QED
            BY <3>1, <3>2 DEF Owed, Stands
    <2> QED
        BY <2>1, <2>2, <2>3
<1> QED
    BY <1>2, <1>3

-----------------------------------------------------------------------------
(* The loops over the barriers of a read.                                   *)

\* One turn: nothing is left to do for t, or it is added, or it stays a barrier.
TurnedDone(a, a2, r, t) == HasType(a.types[r], t) /\ a2 = a

TurnedBroken(a, a2, r, t, how) ==
    /\ ~HasType(a.types[r], t)
    /\ how # "none"
    /\ how = "limit" => t \in Objects /\ ObjectsOf(a.types[r]) # {}
    /\ \E y \in Types : Grown(a, a2, r, t, y)

TurnedKept(a, a2, r, t) ==
    /\ a2 \in States
    /\ a2.types = a.types /\ a2.cons = a.cons /\ a2.pending = a.pending
    /\ a2.recompiles = a.recompiles /\ a2.nuke = a.nuke /\ a2.code = a.code
    /\ \A z \in Reads : z # r => a2.barriers[z] = a.barriers[z]
    /\ Contains(a2.barriers[r], t)
    /\ \A u : Contains(a.barriers[r], u) => Contains(a2.barriers[r], u)

\* One turn of the loops of pruneTypeBarriers and breakTypeBarriers does what
\* Turned says.
LEMMA VisitOK ==
    ASSUME ProgramAssumption, NEW a \in States, SetsOK(a), NEW r \in Reads, NEW t \in Types,
           NEW how \in {"none", "limit", "all"}
    PROVE  \/ TurnedDone(a, Visit(a, r, t, how), r, t)
           \/ TurnedBroken(a, Visit(a, r, t, how), r, t, how)
           \/ TurnedKept(a, Visit(a, r, t, how), r, t)
<1> SUFFICES ASSUME NEW a2, a2 = Visit(a, r, t, how)
             PROVE  \/ TurnedDone(a, a2, r, t) \/ TurnedBroken(a, a2, r, t, how)
                    \/ TurnedKept(a, a2, r, t)
    OBVIOUS
<1>0. r \in Sets
    BY ObservedOK
<1>1. CASE HasType(a.types[r], t)
    BY <1>1 DEF Visit, TurnedDone
<1>2. CASE ~HasType(a.types[r], t) /\ Broken(a, r, t, how)
    <2>1. a2 = AddType(a, r, t)
        BY <1>2 DEF Visit
    <2>2. \E y \in Types : Grown(a, a2, r, t, y)
        BY <1>0, <1>2, <2>1, AddTypeOK
    <2>3. how # "none"
        BY <1>2 DEF Broken
    <2>4. how = "limit" => t \in Objects /\ Cardinality(ObjectsOf(a.types[r])) >= BarrierLimit
        BY <1>2 DEF Broken
    <2>5. how = "limit" => ObjectsOf(a.types[r]) # {}
        <3>1. Cardinality({}) = 0
            BY FS_EmptySet
        <3> QED
            BY <2>4, <3>1, LimitsOK
    <2> QED
        BY <1>2, <2>2, <2>3, <2>4, <2>5 DEF TurnedBroken
<1>3. CASE ~HasType(a.types[r], t) /\ ~Broken(a, r, t, how)
    <2> DEFINE b == Append(a.barriers[r], t)
               a3 == [a EXCEPT !.barriers[r] = b]
    <2>1. a2 = a3
        BY <1>3 DEF Visit
    <2>2. a.barriers[r] \in Seq(Types)
        BY FieldsOK
    <2>3. b \in Seq(Types)
        BY <2>2
    <2>4. Contains(b, t) /\ \A u : Contains(a.barriers[r], u) => Contains(b, u)
        <3>1. /\ Len(b) = Len(a.barriers[r]) + 1 /\ b[Len(b)] = t /\ Len(b) \in 1 .. Len(b)
              /\ \A k \in 1 .. Len(a.barriers[r]) : k \in 1 .. Len(b) /\ b[k] = a.barriers[r][k]
            BY <2>2
        <3> HIDE DEF b
        <3> QED
            BY <3>1 DEF Contains
    <2> HIDE DEF b
    <2>5. /\ a3 \in States /\ a3.types = a.types /\ a3.cons = a.cons /\ a3.pending = a.pending
          /\ a3.recompiles = a.recompiles /\ a3.nuke = a.nuke /\ a3.code = a.code
          /\ a3.barriers[r] = b
          /\ \A z \in Reads : z # r => a3.barriers[z] = a.barriers[z]
        BY <2>3 DEF States
    <2> HIDE DEF a3
    <2>6. TurnedKept(a, a3, r, t)
        BY <2>4, <2>5 DEF TurnedKept
    <2> QED
        BY <2>1, <2>6
<1> QED
    BY <1>1, <1>2, <1>3

\* The state after k turns, as VisitBarriers defines it.
Cleared(st, r) == [st EXCEPT !.barriers[r] = <<>>]

Turn(st, r, how, g, k) ==
    IF k = 0 THEN Cleared(st, r) ELSE Visit(g[k - 1], r, st.barriers[r][k], how)

Turns(st, r, how, g, n) == g = [k \in 0 .. n |-> Turn(st, r, how, g, k)]

\* There are states for the first n turns, for every n.
LEMMA VisitsExist ==
    ASSUME NEW st, NEW r, NEW how
    PROVE  \A n \in Nat : \E g : Turns(st, r, how, g, n)
<1> DEFINE S == {m \in Nat : \E g : g = [k \in 0 .. m |-> Turn(st, r, how, g, k)]}
<1>1. 0 \in S
    <2> DEFINE g == [k \in 0 .. 0 |-> Cleared(st, r)]
    <2>1. g = [k \in 0 .. 0 |-> Turn(st, r, how, g, k)]
        BY DEF Turn
    <2> QED
        BY <2>1
<1>2. ASSUME NEW m \in Nat, m \in S
      PROVE  m + 1 \in S
    <2>1. PICK g : g = [k \in 0 .. m |-> Turn(st, r, how, g, k)]
        BY <1>2
    <2> DEFINE h == [k \in 0 .. m + 1 |-> IF k = m + 1 THEN Visit(g[m], r, st.barriers[r][m + 1], how)
                                          ELSE g[k]]
    <2>2. ASSUME NEW k \in 0 .. m + 1
          PROVE  h[k] = Turn(st, r, how, h, k)
        <3>1. CASE k = m + 1
            <4>1. h[k] = Visit(g[m], r, st.barriers[r][m + 1], how)
                BY <3>1
            <4>2. m \in 0 .. m + 1 /\ m # m + 1
                OBVIOUS
            <4>3. h[m] = g[m]
                BY <4>2
            <4>4. k # 0 /\ k - 1 = m
                BY <3>1
            <4> HIDE DEF h
            <4> QED
                BY <3>1, <4>1, <4>3, <4>4 DEF Turn
        <3>2. CASE k # m + 1 /\ k # 0
            <4>1. k \in 0 .. m /\ k - 1 \in 0 .. m + 1 /\ k - 1 # m + 1
                BY <3>2
            <4>2. h[k] = g[k] /\ h[k - 1] = g[k - 1]
                BY <3>2, <4>1
            <4>3. g[k] = Turn(st, r, how, g, k)
                BY <2>1, <4>1
            <4> HIDE DEF h
            <4> QED
                BY <3>2, <4>2, <4>3 DEF Turn
        <3>3. CASE k = 0
            <4>1. h[k] = g[k] /\ k \in 0 .. m
                BY <3>3
            <4>2. g[k] = Turn(st, r, how, g, k)
                BY <2>1, <4>1
            <4> HIDE DEF h
            <4> QED
                BY <3>3, <4>1, <4>2 DEF Turn
        <3> QED
            BY <3>1, <3>2, <3>3
    <2>3. DOMAIN h = 0 .. m + 1 /\ h = [k \in 0 .. m + 1 |-> h[k]]
        OBVIOUS
    <2> HIDE DEF h
    <2>4. h = [k \in 0 .. m + 1 |-> Turn(st, r, how, h, k)]
        BY <2>2, <2>3
    <2> QED
        BY <2>4
<1> HIDE DEF S
<1>3. Nat \subseteq S
    BY <1>1, <1>2, NatInductionOverSet
<1> QED
    BY <1>3 DEF S, Turns

\* VisitBarriers is the state after the last turn.
LEMMA VisitsAre ==
    ASSUME NEW st \in States, NEW r \in Reads, NEW how
    PROVE  \E g : /\ g[0] = Cleared(st, r)
                  /\ \A k \in 1 .. Len(st.barriers[r]) :
                        g[k] = Visit(g[k - 1], r, st.barriers[r][k], how)
                  /\ VisitBarriers(st, r, how) = g[Len(st.barriers[r])]
<1> DEFINE n == Len(st.barriers[r])
           G == CHOOSE g : g = [k \in 0 .. n |-> Turn(st, r, how, g, k)]
<1>1. n \in Nat
    BY FieldsOK, SeqOK
<1>2. \E g : Turns(st, r, how, g, n)
    <2> HIDE DEF n
    <2> QED
        BY <1>1, VisitsExist
<1>3. G = [k \in 0 .. n |-> Turn(st, r, how, G, k)]
    <2> HIDE DEF n
    <2> QED
        BY <1>2 DEF Turns
<1>4. VisitBarriers(st, r, how) = G[n]
    BY DEF VisitBarriers, Turn, Cleared
<1> HIDE DEF G, n
<1>5. G[0] = Cleared(st, r)
    BY <1>1, <1>3 DEF Turn
<1>6. ASSUME NEW k \in 1 .. n
      PROVE  G[k] = Visit(G[k - 1], r, st.barriers[r][k], how)
    <2>1. k \in 0 .. n /\ k # 0
        BY <1>1
    <2>2. G[k] = Turn(st, r, how, G, k)
        BY <1>3, <2>1
    <2> QED
        BY <2>1, <2>2 DEF Turn
<1> QED
    BY <1>4, <1>5, <1>6 DEF n

\* The types a read is to be covered for, by barriers that were not visited yet.
Behind(st, r, k) ==
    {x \in Sets \X Nat \X Types :
        /\ x[2] \in DOMAIN st.cons[x[1]]
        /\ st.cons[x[1]][x[2]].kind = "barrier" /\ st.cons[x[1]][x[2]].target = r
        /\ \E j \in DOMAIN st.barriers[r] : j > k /\ Stands(st.barriers[r][j], x[3])}

\* The state a is st, but that types were added to the read r.
Extended(st, a, r) ==
    /\ a.cons = st.cons /\ a.recompiles = st.recompiles /\ a.nuke = st.nuke /\ a.code = st.code
    /\ \A z \in Sets : \A u \in Types : HasType(st.types[z], u) => HasType(a.types[z], u)
    /\ \A z \in Sets : z # r => a.types[z] = st.types[z]
    /\ \A z \in Reads : z # r => a.barriers[z] = st.barriers[z]
    /\ \A k \in DOMAIN st.pending : k \in DOMAIN a.pending /\ a.pending[k] = st.pending[k]
    /\ \A k \in DOMAIN a.pending \ DOMAIN st.pending :
          a.pending[k].set = r /\ a.pending[k].con \in DOMAIN st.cons[r]
    /\ a.types[r] # st.types[r] =>
          \A i \in DOMAIN st.cons[r] : \E k \in DOMAIN a.pending \ DOMAIN st.pending : a.pending[k].con = i

\* They were objects, and there were others.
OnlyObjects(st, a, r) ==
    /\ a.types[r] # st.types[r] => ObjectsOf(st.types[r]) # {}
    /\ \A u \in a.types[r] : u \in st.types[r] \/ u \in Objects \cup {"anyobject"}
    /\ \A k \in DOMAIN a.pending \ DOMAIN st.pending :
          /\ a.pending[k].type \in Objects \cup {"anyobject"}
          /\ a.pending[k].type \notin ObjectsOf(st.types[r])
          /\ ObjectsOf(st.types[r]) # {}

Seen(st, a, r, how, k) ==
    /\ Good(a)
    /\ Extended(st, a, r)
    /\ how = "none" => a.types = st.types /\ a.pending = st.pending
    /\ how = "limit" => OnlyObjects(st, a, r)
    /\ FlowIn(st) => FlowUpTo(a, Behind(st, r, k))

\* Before the first turn all barriers are still to be visited.
LEMMA ClearedSeen ==
    ASSUME ProgramAssumption, NEW st, Good(st), NEW r \in Reads, NEW how
    PROVE  Seen(st, Cleared(st, r), r, how, 0)
<1> DEFINE a == Cleared(st, r)
<1>0. st \in States
    BY DEF Good
<1>1. /\ a \in States /\ a.types = st.types /\ a.cons = st.cons /\ a.pending = st.pending
      /\ a.recompiles = st.recompiles /\ a.nuke = st.nuke /\ a.code = st.code
      /\ a.barriers[r] = <<>>
      /\ \A z \in Reads : z # r => a.barriers[z] = st.barriers[z]
    <2>1. <<>> \in Seq(Types)
        OBVIOUS
    <2> QED
        BY <1>0, <2>1 DEF Cleared, States
<1> HIDE DEF a
<1>2. Good(a)
    BY <1>0, <1>1 DEF Good, SetsOK, KindsOK, ItemsOK
<1>3. Extended(st, a, r) /\ OnlyObjects(st, a, r)
    BY <1>1 DEF Extended, OnlyObjects
<1>4. ASSUME FlowIn(st) PROVE FlowUpTo(a, Behind(st, r, 0))
    <2> SUFFICES ASSUME NEW z \in Sets, NEW i \in DOMAIN a.cons[z], NEW u \in a.types[z]
                 PROVE  \/ Satisfied(a, a.cons[z][i], u) \/ Owed(a, z, i, u)
                        \/ <<z, i, u>> \in Behind(st, r, 0)
        BY DEF FlowUpTo
    <2> DEFINE c == st.cons[z][i]
    <2>1. /\ u \in Types /\ i \in Nat /\ c \in Constraints
          /\ DOMAIN st.barriers[r] = 1 .. Len(st.barriers[r])
        <3>1. st.cons[z] \in Seq(Constraints) /\ st.barriers[r] \in Seq(Types)
            BY <1>0, FieldsOK
        <3>2. u \in Types
            BY <1>0, <1>1, FieldsOK
        <3> QED
            BY <1>1, <3>1, <3>2
    <2>2. Owed(st, z, i, u) => Owed(a, z, i, u)
        BY <1>1 DEF Owed
    <2>3. ASSUME Satisfied(st, c, u), ~Satisfied(a, c, u)
          PROVE  <<z, i, u>> \in Behind(st, r, 0)
        <3>1. c.kind = "barrier" /\ Covered(st, c.target, u) /\ ~Covered(a, c.target, u)
            BY <1>1, <2>3 DEF Satisfied
        <3>2. c.target = r
            <4>1. c.target \in Reads
                BY <2>1, <3>1, ConstraintsOK
            <4> QED
                BY <1>1, <3>1, <4>1 DEF Covered
        <3>3. Contains(st.barriers[r], u) \/ (u = "int" /\ Contains(st.barriers[r], "double"))
            BY <1>1, <3>1, <3>2 DEF Covered
        <3>4. \E j \in DOMAIN st.barriers[r] : j > 0 /\ Stands(st.barriers[r][j], u)
            BY <2>1, <3>3 DEF Contains, Stands
        <3>5. i \in DOMAIN st.cons[z]
            BY <1>1
        <3> QED
            BY <2>1, <3>1, <3>2, <3>4, <3>5 DEF Behind
    <2> QED
        BY <1>1, <1>4, <2>2, <2>3 DEF FlowIn
<1> QED
    BY <1>1, <1>2, <1>3, <1>4 DEF Seen, a

\* A turn after which the read is covered for its type leaves fewer barriers to
\* be visited.
LEMMA BehindNext ==
    ASSUME ProgramAssumption, NEW st \in States, NEW r \in Reads, NEW k \in 1 .. Len(st.barriers[r]),
           NEW a, a.cons = st.cons, FlowUpTo(a, Behind(st, r, k - 1)),
           \A u \in Types : Stands(st.barriers[r][k], u) => Covered(a, r, u)
    PROVE  FlowUpTo(a, Behind(st, r, k))
<1> SUFFICES ASSUME NEW z \in Sets, NEW i \in DOMAIN a.cons[z], NEW u \in a.types[z],
                    <<z, i, u>> \in Behind(st, r, k - 1), <<z, i, u>> \notin Behind(st, r, k)
             PROVE  Satisfied(a, a.cons[z][i], u)
    BY DEF FlowUpTo
<1>0. DOMAIN st.barriers[r] = 1 .. Len(st.barriers[r]) /\ Len(st.barriers[r]) \in Nat
    BY FieldsOK, SeqOK
<1>1. /\ u \in Types /\ st.cons[z][i].kind = "barrier" /\ st.cons[z][i].target = r
      /\ \E j \in DOMAIN st.barriers[r] : j > k - 1 /\ Stands(st.barriers[r][j], u)
    BY DEF Behind
<1>2. ~\E j \in DOMAIN st.barriers[r] : j > k /\ Stands(st.barriers[r][j], u)
    BY DEF Behind
<1>3. PICK j \in DOMAIN st.barriers[r] : j > k - 1 /\ Stands(st.barriers[r][j], u)
    BY <1>1
<1>4. ~(j > k)
    BY <1>2, <1>3
<1>5. j = k
    BY <1>0, <1>3, <1>4
<1>6. Covered(a, r, u)
    BY <1>1, <1>3, <1>5
<1> QED
    BY <1>1, <1>6 DEF Satisfied

\* Adding a type to the read extends the state further.
LEMMA GrownExtended ==
    ASSUME ProgramAssumption, NEW st \in States, NEW a \in States, NEW a2, NEW r \in Sets, NEW t \in Types, NEW y,
           Extended(st, a, r), Grown(a, a2, r, t, y)
    PROVE  Extended(st, a2, r)
<1>1. /\ \A z \in Sets : \A u \in Types : HasType(a.types[z], u) => HasType(a2.types[z], u)
      /\ HasType(a2.types[r], t)
    BY GrownMono
<1>2. /\ a2.cons = st.cons /\ a2.recompiles = st.recompiles /\ a2.nuke = st.nuke /\ a2.code = st.code
      /\ \A z \in Sets : \A u \in Types : HasType(st.types[z], u) => HasType(a2.types[z], u)
      /\ \A z \in Sets : z # r => a2.types[z] = st.types[z]
      /\ \A z \in Reads : z # r => a2.barriers[z] = st.barriers[z]
    BY <1>1 DEF Extended, Grown
<1>3. \A k \in DOMAIN st.pending : k \in DOMAIN a2.pending /\ a2.pending[k] = st.pending[k]
    BY DEF Extended, Grown
<1>4. \A k \in DOMAIN a2.pending \ DOMAIN st.pending :
          a2.pending[k].set = r /\ a2.pending[k].con \in DOMAIN st.cons[r]
    BY DEF Extended, Grown
<1>5. \A i \in DOMAIN st.cons[r] : \E k \in DOMAIN a2.pending \ DOMAIN a.pending : a2.pending[k].con = i
    BY DEF Extended, Grown
<1>6. \A k \in DOMAIN a2.pending \ DOMAIN a.pending : k \notin DOMAIN st.pending
    BY DEF Extended
<1>7. \A i \in DOMAIN st.cons[r] : \E k \in DOMAIN a2.pending \ DOMAIN st.pending : a2.pending[k].con = i
    BY <1>5, <1>6
<1> QED
    BY <1>2, <1>3, <1>4, <1>7 DEF Extended

\* Adding an object where there are objects adds only objects, or "anyobject".
LEMMA GrownObjects ==
    ASSUME ProgramAssumption, NEW st \in States, NEW a \in States, SetsOK(a), NEW a2, NEW r \in Sets,
           NEW t \in Objects, NEW y, Extended(st, a, r), OnlyObjects(st, a, r), Grown(a, a2, r, t, y),
           ~HasType(a.types[r], t), ObjectsOf(a.types[r]) # {}
    PROVE  OnlyObjects(st, a2, r)
<1>0. t \in Types /\ "anyobject" \notin a.types[r]
    BY DEF Types, HasType
<1>1. y \in Objects \cup {"anyobject"} /\ (y = t \/ y = "anyobject")
    BY DEF Grown, AddsTo
<1>2. ObjectsOf(st.types[r]) # {}
    BY DEF OnlyObjects
<1>3. \A u \in a2.types[r] : u \in st.types[r] \/ u \in Objects \cup {"anyobject"}
    <2>1. \A u \in a2.types[r] : u \in a.types[r] \/ Stands(y, u)
        BY DEF Grown, AddsTo
    <2>2. \A u : Stands(y, u) => u = y
        BY <1>1, TypesDiffer DEF Stands
    <2> QED
        BY <1>1, <2>1, <2>2 DEF OnlyObjects
<1>4. t \notin ObjectsOf(st.types[r])
    <2>1. ASSUME t \in st.types[r] PROVE HasType(a.types[r], t)
        BY <1>0, <2>1 DEF Extended, HasType
    <2> QED
        BY <2>1 DEF ObjectsOf
<1>5. "anyobject" \notin ObjectsOf(st.types[r])
    BY TypesDiffer DEF ObjectsOf
<1>6. ASSUME NEW k \in DOMAIN a2.pending \ DOMAIN st.pending
      PROVE  /\ a2.pending[k].type \in Objects \cup {"anyobject"}
             /\ a2.pending[k].type \notin ObjectsOf(st.types[r])
    <2>1. CASE k \in DOMAIN a.pending
        BY <2>1 DEF Grown, OnlyObjects
    <2>2. CASE k \notin DOMAIN a.pending
        BY <1>1, <1>4, <1>5, <2>2 DEF Grown
    <2> QED
        BY <2>1, <2>2
<1> QED
    BY <1>2, <1>3, <1>6 DEF OnlyObjects

\* A turn keeps what the loop has established.
LEMMA SeenNext ==
    ASSUME ProgramAssumption, NEW st, Good(st), NEW r \in Reads, NEW how \in {"none", "limit", "all"},
           NEW k \in 1 .. Len(st.barriers[r]), NEW a, Seen(st, a, r, how, k - 1),
           NEW a2, a2 = Visit(a, r, st.barriers[r][k], how)
    PROVE  Seen(st, a2, r, how, k)
<1> DEFINE t == st.barriers[r][k]
<1>0. st \in States /\ a \in States /\ SetsOK(a) /\ Good(a) /\ Extended(st, a, r)
    BY DEF Good, Seen
<1>1. t \in Types /\ r \in Sets
    BY <1>0, FieldsOK, SeqOK, ObservedOK
<1>2. FlowIn(st) => FlowUpTo(a, Behind(st, r, k - 1))
    BY DEF Seen
<1>3. CASE TurnedDone(a, a2, r, t)
    <2>1. a2 = a /\ HasType(a.types[r], t)
        BY <1>3 DEF TurnedDone
    <2>2. \A u \in Types : Stands(t, u) => Covered(a, r, u)
        BY <1>0, <1>1, <2>1, HasStands DEF Covered, SetsOK
    <2>3. FlowIn(st) => FlowUpTo(a, Behind(st, r, k))
        BY <1>0, <1>2, <2>2, BehindNext DEF Extended
    <2> QED
        BY <2>1, <2>3 DEF Seen
<1>4. CASE TurnedBroken(a, a2, r, t, how)
    <2>1. /\ ~HasType(a.types[r], t) /\ how # "none"
          /\ how = "limit" => t \in Objects /\ ObjectsOf(a.types[r]) # {}
        BY <1>4 DEF TurnedBroken
    <2>2. PICK y \in Types : Grown(a, a2, r, t, y)
        BY <1>4 DEF TurnedBroken
    <2>3. Good(a2)
        BY <1>0, <1>1, <2>2, GrownGood
    <2>4. Extended(st, a2, r)
        BY <1>0, <1>1, <2>2, GrownExtended
    <2>5. how = "limit" => OnlyObjects(st, a2, r)
        BY <1>0, <1>1, <2>1, <2>2, GrownObjects DEF Seen
    <2>6. HasType(a2.types[r], t) /\ SetOK(a2.types[r])
        BY <1>0, <1>1, <2>2, <2>3, GrownMono DEF Good, SetsOK
    <2>7. \A u \in Types : Stands(t, u) => Covered(a2, r, u)
        BY <2>6, HasStands DEF Covered
    <2>8. FlowIn(st) => FlowUpTo(a2, Behind(st, r, k - 1))
        BY <1>0, <1>1, <1>2, <2>2, GrownFlow
    <2>9. FlowIn(st) => FlowUpTo(a2, Behind(st, r, k))
        BY <1>0, <2>4, <2>7, <2>8, BehindNext DEF Extended
    <2> QED
        BY <2>1, <2>3, <2>4, <2>5, <2>9 DEF Seen
<1>5. CASE TurnedKept(a, a2, r, t)
    <2>1. Barred(a, a2, r)
        BY <1>5 DEF TurnedKept, Barred
    <2>2. Good(a2)
        BY <1>0, <2>1, BarredGood
    <2>3. a2.types = a.types /\ a2.pending = a.pending
        BY <1>5 DEF TurnedKept
    <2>4. Extended(st, a2, r)
        BY <1>0, <1>5 DEF Extended, TurnedKept
    <2>5. how = "limit" => OnlyObjects(st, a2, r)
        BY <2>3 DEF Seen, OnlyObjects
    <2>6. \A u \in Types : Covered(a, r, u) => Covered(a2, r, u)
        BY <1>5 DEF TurnedKept, Covered
    <2>7. \A u \in Types : Stands(t, u) => Covered(a2, r, u)
        BY <1>5 DEF TurnedKept, Covered, Stands
    <2>8. FlowIn(st) => FlowUpTo(a2, Behind(st, r, k - 1))
        BY <1>0, <1>2, <2>1, <2>6, BarredFlow
    <2>9. FlowIn(st) => FlowUpTo(a2, Behind(st, r, k))
        BY <1>0, <2>4, <2>7, <2>8, BehindNext DEF Extended
    <2> QED
        BY <2>2, <2>3, <2>4, <2>5, <2>9 DEF Seen
<1> QED
    BY <1>0, <1>1, <1>3, <1>4, <1>5, VisitOK

\* The loop as a whole.
LEMMA VisitsOK ==
    ASSUME ProgramAssumption, NEW st, Good(st), NEW r \in Reads, NEW how \in {"none", "limit", "all"}
    PROVE  /\ Good(VisitBarriers(st, r, how))
           /\ Extended(st, VisitBarriers(st, r, how), r)
           /\ how = "none" => /\ VisitBarriers(st, r, how).types = st.types
                              /\ VisitBarriers(st, r, how).pending = st.pending
           /\ how = "limit" => OnlyObjects(st, VisitBarriers(st, r, how), r)
           /\ FlowIn(st) => FlowIn(VisitBarriers(st, r, how))
           /\ st.barriers[r] = <<>> => VisitBarriers(st, r, how).barriers[r] = <<>>
<1> DEFINE n == Len(st.barriers[r])
<1>0. st \in States /\ n \in Nat /\ st.barriers[r] \in Seq(Types) /\ DOMAIN st.barriers[r] = 1 .. n
    BY FieldsOK DEF Good
<1>1. PICK g : /\ g[0] = Cleared(st, r)
               /\ \A k \in 1 .. n : g[k] = Visit(g[k - 1], r, st.barriers[r][k], how)
               /\ VisitBarriers(st, r, how) = g[n]
    BY <1>0, VisitsAre
<1> DEFINE S == {k \in Nat : k <= n => Seen(st, g[k], r, how, k)}
<1>2. 0 \in S
    BY <1>1, ClearedSeen
<1>3. ASSUME NEW k \in Nat, k \in S
      PROVE  k + 1 \in S
    <2>1. SUFFICES ASSUME k + 1 <= n PROVE Seen(st, g[k + 1], r, how, k + 1)
        OBVIOUS
    <2>2. k + 1 \in 1 .. n /\ (k + 1) - 1 = k
        BY <1>0, <2>1
    <2>3. Seen(st, g[k], r, how, k)
        BY <1>0, <1>3, <2>1
    <2>4. g[k + 1] = Visit(g[k], r, st.barriers[r][k + 1], how)
        BY <1>1, <2>2
    <2> DEFINE m == k + 1
    <2>5. m \in 1 .. n /\ m - 1 = k
        BY <2>2
    <2> HIDE DEF m
    <2>6. Seen(st, g[m - 1], r, how, m - 1) /\ g[m] = Visit(g[m - 1], r, st.barriers[r][m], how)
        BY <2>3, <2>4, <2>5 DEF m
    <2>7. Seen(st, g[m], r, how, m)
        BY <2>5, <2>6, SeenNext
    <2> QED
        BY <2>7 DEF m
<1> HIDE DEF S
<1>4. n \in S
    BY <1>0, <1>2, <1>3, NatInductionOverSet
<1>5. Seen(st, g[n], r, how, n)
    BY <1>0, <1>4 DEF S
<1>6. Behind(st, r, n) = {}
    BY <1>0 DEF Behind
<1>7. FlowIn(st) => FlowIn(g[n])
    BY <1>5, <1>6 DEF Seen, FlowUpTo, FlowIn
<1>8. st.barriers[r] = <<>> => g[n].barriers[r] = <<>>
    <2>1. Cleared(st, r).barriers[r] = <<>>
        BY <1>0 DEF Cleared, States
    <2> QED
        BY <1>1, <2>1
<1> QED
    BY <1>1, <1>5, <1>7, <1>8 DEF Seen

-----------------------------------------------------------------------------
(* What an activation has to do.                                            *)

\* The fields of an operation of each kind.
LEMMA OpOK ==
    ASSUME ProgramAssumption, NEW o \in Ops
    PROVE  /\ o.op \in {"type", "constraint", "break", "ran", "ensured", "freeze", "tag", "site",
                        "inline", "link"}
           /\ o.op = "type" => o.set \in Sets /\ o.type \in Types
           /\ o.op = "constraint" => o.set \in Sets /\ o.con \in FlowCons
           /\ o.op = "break" => o.set \in Reads /\ o.all \in BOOLEAN /\ (o.all => o.set \in Breaks)
           /\ o.op \in {"ran", "ensured", "inline"} => o.script \in Scripts
           /\ o.op \in {"freeze", "tag"} => o.set \in Sets
           /\ o.op = "site" => o.set \in Reads /\ o.set \in Sets
<1>1. Reads \subseteq Sets /\ Breaks \subseteq Reads
    BY DEF ProgramAssumption
<1> QED
    BY <1>1 DEF Ops, AnalysisOps, CompileOps

\* Constraints of an analysis are subset and barrier constraints.
LEMMA FlowConOK ==
    ASSUME NEW c \in FlowCons
    PROVE  c \in Constraints /\ c.kind \in {"subset", "barrier"}
    BY DEF Constraints, FlowCons

\* The first of a sequence, and the rest of it.
LEMMA HeadTail ==
    ASSUME NEW S, NEW p \in Seq(S), p # <<>>
    PROVE  /\ Head(p) \in S /\ Head(p) = p[1] /\ 1 \in DOMAIN p
           /\ Tail(p) \in Seq(S) /\ Len(Tail(p)) = Len(p) - 1
           /\ \A k \in DOMAIN Tail(p) : k + 1 \in DOMAIN p /\ Tail(p)[k] = p[k + 1]
    OBVIOUS

\* ensureRanInference changes types and asks nothing.
LEMMA EnsureOK ==
    ASSUME ProgramAssumption, NEW x \in Scripts
    PROVE  /\ EnsureRanInference(x) \in Seq(Ops)
           /\ \A k \in DOMAIN EnsureRanInference(x) :
                 EnsureRanInference(x)[k].op \in {"ran", "type", "constraint", "ensured"}
<1> DEFINE A == AnalysisOps \cup [op : {"ran", "ensured"}, script : Scripts]
           p == IF x \in ran THEN <<>> ELSE <<[op |-> "ran", script |-> x]>> \o Analysis[x]
           q == <<[op |-> "ensured", script |-> x]>>
<1>1. p \in Seq(A)
    <2>1. Analysis[x] \in Seq(AnalysisOps)
        BY DEF ProgramAssumption
    <2>2. [op |-> "ran", script |-> x] \in A
        OBVIOUS
    <2> HIDE DEF A
    <2>3. Analysis[x] \in Seq(A)
        BY <2>1 DEF A
    <2>4. <<[op |-> "ran", script |-> x]>> \in Seq(A) /\ <<>> \in Seq(A)
        BY <2>2
    <2>5. <<[op |-> "ran", script |-> x]>> \o Analysis[x] \in Seq(A)
        BY <2>3, <2>4, ConcatOK
    <2> QED
        BY <2>4, <2>5
<1>2. q \in Seq(A)
    OBVIOUS
<1>3. \A o \in A : o.op \in {"ran", "type", "constraint", "ensured"} /\ o \in Ops
    BY DEF AnalysisOps, Ops
<1>4. EnsureRanInference(x) = p \o q
    BY DEF EnsureRanInference
<1> HIDE DEF A, p, q
<1>5. p \o q \in Seq(A)
    BY <1>1, <1>2, ConcatOK
<1> DEFINE e == p \o q
<1> HIDE DEF e
<1>6. e \in Seq(Ops) /\ \A k \in DOMAIN e : e[k] \in A
    BY <1>3, <1>5 DEF e
<1> QED
    BY <1>3, <1>4, <1>6 DEF e

\* What a compiler asks are operations.
LEMMA CompilationOK ==
    ASSUME ProgramAssumption, NEW j \in Jits, NEW x \in Scripts
    PROVE  Compilation[j][x] \in Seq(CompileOps) /\ Compilation[j][x] \in Seq(Ops)
<1>1. Compilation[j][x] \in Seq(CompileOps)
    BY DEF ProgramAssumption
<1>2. CompileOps \subseteq Ops
    BY DEF Ops
<1> QED
    BY <1>1, <1>2

-----------------------------------------------------------------------------
(* The steps of an activation keep the sets as they are to be.              *)

Flowing == Typed /\ Activity /\ FlowInv

\* Growing twice is growing.
LEMMA LargerTrans ==
    ASSUME NEW a, NEW b, NEW c, Larger(a, b), Larger(b, c)
    PROVE  Larger(a, c)
    BY DEF Larger

\* A state that was extended is larger.
LEMMA ExtendedLarger ==
    ASSUME NEW a, NEW b, NEW r, Extended(a, b, r)
    PROVE  Larger(a, b) /\ b.nuke = a.nuke
    BY DEF Larger, Extended

\* A transformation that keeps what there is, and what is promised.
Keeps(st, st2) ==
    /\ Good(st2) /\ Larger(st, st2) /\ st2.nuke = st.nuke
    /\ FlowIn(st) => FlowIn(st2)

\* addType keeps what is promised of the sets.
LEMMA AddTypeKeeps ==
    ASSUME ProgramAssumption, NEW st, Good(st), NEW s \in Sets, NEW t \in Types
    PROVE  Keeps(st, AddType(st, s, t))
<1>0. st \in States /\ SetsOK(st)
    BY DEF Good
<1>1. CASE AddType(st, s, t) = st
    BY <1>1 DEF Keeps, Larger
<1>2. CASE \E y \in Types : Grown(st, AddType(st, s, t), s, t, y)
    <2> DEFINE st2 == AddType(st, s, t)
    <2>1. PICK y \in Types : Grown(st, st2, s, t, y)
        BY <1>2
    <2> HIDE DEF st2
    <2>2. Good(st2)
        BY <2>1, GrownGood
    <2>3. Larger(st, st2) /\ st2.nuke = st.nuke
        <3>1. \A z \in Sets : \A u \in Types : HasType(st.types[z], u) => HasType(st2.types[z], u)
            BY <1>0, <2>1, GrownMono
        <3>2. st2.cons = st.cons /\ st2.nuke = st.nuke
            BY <2>1 DEF Grown
        <3> QED
            BY <3>1, <3>2 DEF Larger
    <2>4. FlowIn(st) => FlowIn(st2)
        <3>1. FlowIn(st) => FlowUpTo(st, {})
            BY DEF FlowIn, FlowUpTo
        <3>2. FlowUpTo(st, {}) => FlowUpTo(st2, {})
            BY <1>0, <2>1, GrownFlow
        <3> QED
            BY <3>1, <3>2 DEF FlowIn, FlowUpTo
    <2> QED
        BY <2>2, <2>3, <2>4 DEF Keeps, st2
<1> QED
    BY <1>0, <1>1, <1>2, AddTypeOK

\* TypeSet::add of a constraint keeps what is promised of the sets.
LEMMA AddConstraintKeeps ==
    ASSUME ProgramAssumption, NEW st, Good(st), NEW x \in Sets \cup Scripts,
           NEW c \in Constraints, NEW b \in BOOLEAN,
           x \in Sets => c.kind # "flags" /\ (b \/ c.kind \notin {"subset", "barrier"}),
           x \in Scripts => c.kind = "flags" /\ ~b
    PROVE  Keeps(st, AddConstraint(st, x, c, b))
<1> DEFINE st2 == AddConstraint(st, x, c, b)
           E == IF b THEN st.types[x] ELSE {}
<1>0. st \in States /\ SetsOK(st)
    BY DEF Good
<1>1. Sets \cap Scripts = {}
    BY DEF ProgramAssumption
<1>2. Added(st, st2, x, c, E)
    BY <1>0, <1>1, AddConstraintOK
<1>3. /\ x \in Sets => E \subseteq st.types[x]
      /\ x \in Scripts => E = {}
      /\ x \in Sets => E = st.types[x] \/ c.kind \notin {"subset", "barrier"}
    OBVIOUS
<1> HIDE DEF st2, E
<1>4. Good(st2) /\ Larger(st, st2)
    BY <1>2, <1>3, AddedGood
<1>5. FlowIn(st) => FlowIn(st2)
    BY <1>2, <1>3, AddedFlow
<1>6. st2.nuke = st.nuke
    BY <1>2 DEF Added
<1> QED
    BY <1>4, <1>5, <1>6 DEF Keeps, st2

\* pruneTypeBarriers keeps what is promised of the sets: a barrier it drops is
\* not needed.
LEMMA PruneKeeps ==
    ASSUME ProgramAssumption, NEW st, Good(st), NEW r \in Reads
    PROVE  Keeps(st, PruneTypeBarriers(st, r))
<1> DEFINE st2 == VisitBarriers(st, r, "none")
<1>1. Good(st2) /\ Extended(st, st2, r) /\ (FlowIn(st) => FlowIn(st2))
    BY VisitsOK
<1> HIDE DEF st2
<1> QED
    BY <1>1, ExtendedLarger DEF Keeps, PruneTypeBarriers, st2

\* breakTypeBarriers keeps what is promised of the sets: the types of a barrier
\* it breaks are added.
LEMMA BreakKeeps ==
    ASSUME ProgramAssumption, NEW st, Good(st), NEW r \in Reads, NEW b \in BOOLEAN
    PROVE  Keeps(st, BreakTypeBarriers(st, r, b))
<1> DEFINE st1 == PruneTypeBarriers(st, r)
           how == IF b THEN "all" ELSE "limit"
           st2 == VisitBarriers(st1, r, how)
<1>1. Good(st1) /\ Larger(st, st1) /\ st1.nuke = st.nuke /\ (FlowIn(st) => FlowIn(st1))
    BY PruneKeeps DEF Keeps
<1>2. how \in {"none", "limit", "all"}
    OBVIOUS
<1>3. BreakTypeBarriers(st, r, b) = st2
    BY DEF BreakTypeBarriers
<1> HIDE DEF st1, how
<1>4. Good(st2) /\ Extended(st1, st2, r) /\ (FlowIn(st1) => FlowIn(st2))
    BY <1>1, <1>2, VisitsOK
<1> HIDE DEF st2
<1>5. Larger(st1, st2) /\ st2.nuke = st1.nuke
    BY <1>4, ExtendedLarger
<1>6. Larger(st, st2)
    BY <1>1, <1>5, LargerTrans
<1> QED
    BY <1>1, <1>3, <1>4, <1>5, <1>6 DEF Keeps

\* So does the step, whether its allocations succeed or not.
LEMMA BecomesOK ==
    ASSUME ProgramAssumption, Good(ti), FlowInv, NEW st2, Keeps(ti, st2), Becomes(st2)
    PROVE  Good(ti') /\ FlowInv'
<1>1. CASE ti' = st2
    BY <1>1 DEF Keeps, FlowInv
<1>2. CASE ti' \in Lost(ti, st2)
    <2>1. Good(ti') /\ ti'.nuke = TRUE
        BY <1>2, LostGood DEF Keeps
    <2> QED
        BY <2>1 DEF FlowInv
<1> QED
    BY <1>1, <1>2 DEF Becomes

\* A compilation with some reads is one.
LEMMA Compiles ==
    ASSUME NEW x \in Scripts, NEW j \in Jits, NEW R \in SUBSET Uses
    PROVE  /\ [script |-> x, jit |-> j, reads |-> R] \in Compilations
           /\ [script |-> x, jit |-> j, reads |-> R] # NoCompile
<1>1. NoCompile.jit = "none" /\ j # "none"
    BY DEF NoCompile, Jits
<1>2. [script |-> x, jit |-> j, reads |-> R].jit = j
    OBVIOUS
<1> QED
    BY <1>1, <1>2 DEF Compilations

\* The compilation in progress has a script, a jit and reads.
LEMMA CompilingOK ==
    ASSUME compiling \in Compilations, compiling # NoCompile
    PROVE  /\ compiling \in [script : Scripts, jit : Jits, reads : SUBSET Uses]
           /\ compiling.script \in Scripts /\ compiling.jit \in Jits /\ compiling.reads \subseteq Uses
    BY DEF Compilations

\* The rest of Typed and Activity, for a step that goes on with less to do.
Going(next) ==
    /\ active' = active /\ enabled' = enabled /\ ran' \subseteq Scripts
    /\ todo' = next /\ compiling' \in Compilations /\ request' \in Requests
    /\ compiling # NoCompile => compiling' # NoCompile

LEMMA Shorter ==
    ASSUME Typed, Activity, active, todo # <<>>, Going(Tail(todo))
    PROVE  /\ active' \in BOOLEAN /\ enabled' \in BOOLEAN /\ todo' \in Seq(Ops)
           /\ compiling' \in Compilations /\ ran' \subseteq Scripts /\ request' \in Requests
           /\ Activity'
<1>1. todo \in Seq(Ops)
    BY DEF Typed
<1>2. /\ Tail(todo) \in Seq(Ops)
      /\ \A k \in DOMAIN Tail(todo) : k + 1 \in DOMAIN todo /\ Tail(todo)[k] = todo[k + 1]
    BY <1>1, HeadTail
<1>3. \A k \in DOMAIN todo' : todo'[k].op \in UseKinds => compiling' # NoCompile
    BY <1>2 DEF Going, Activity
<1>4. active' = TRUE
    BY DEF Going, Typed
<1> QED
    BY <1>2, <1>3, <1>4 DEF Activity, Going, Typed

\* There are no types before the first script runs.
LEMMA FlowingInit ==
    ASSUME ProgramAssumption, Init
    PROVE  Flowing
<1>1. /\ ti.types = [s \in Sets |-> {}] /\ ti.cons = [s \in Sets \cup Scripts |-> <<>>]
      /\ ti.pending = <<>> /\ ti.nuke = FALSE
    BY DEF Init
<1>2. ti \in States
    BY DEF Init, States, Codes, NoCode
<1>3. SetOK({})
    <2>1. IsFiniteSet({}) /\ Cardinality({}) = 0 /\ ObjectsOf({}) = {}
        BY FS_EmptySet DEF ObjectsOf
    <2> QED
        BY <2>1, LimitsOK DEF SetOK
<1>4. SetsOK(ti) /\ KindsOK(ti) /\ ItemsOK(ti)
    BY <1>1, <1>3 DEF SetsOK, KindsOK, ItemsOK
<1>5. FlowInv
    BY <1>1 DEF FlowInv, FlowIn
<1>6. Activity
    BY <1>1 DEF Activity, Init
<1>7. /\ active \in BOOLEAN /\ enabled \in BOOLEAN /\ todo \in Seq(Ops) /\ ran \subseteq Scripts
      /\ compiling \in Compilations /\ request \in Requests
    <2>1. /\ active = FALSE /\ enabled = TRUE /\ todo = <<>> /\ ran = {}
          /\ compiling = NoCompile /\ request = NoRequest
        BY DEF Init
    <2>2. <<>> \in Seq(Ops)
        OBVIOUS
    <2>3. NoCompile \in Compilations /\ NoRequest \in Requests
        BY DEF Compilations, Requests
    <2> QED
        BY <2>1, <2>2, <2>3
<1> QED
    BY <1>2, <1>4, <1>5, <1>6, <1>7 DEF Flowing, Typed, Good

\* The state of inference stays; an activation begins.
LEMMA Entered ==
    ASSUME Flowing, ti' = ti, NEW ops \in Seq(Ops), Enter(ops), compiling' \in Compilations,
           enabled' = enabled, ran' = ran, request' \in Requests,
           compiling' = NoCompile => \A k \in DOMAIN ops : ops[k].op \notin UseKinds
    PROVE  Flowing'
<1>1. Good(ti') /\ FlowInv'
    BY DEF Flowing, Typed, Good, FlowInv
<1>2. active' \in BOOLEAN /\ todo' \in Seq(Ops) /\ Activity'
    BY DEF Enter, Activity
<1> QED
    BY <1>1, <1>2 DEF Flowing, Typed

\* An entry into inference changes no types.
LEMMA EntriesFlowing ==
    ASSUME ProgramAssumption, Flowing, Entries
    PROVE  Flowing'
<1>0. /\ compiling \in Compilations /\ request \in Requests /\ ran \subseteq Scripts
      /\ ~active => compiling = NoCompile
    BY DEF Flowing, Typed, Activity
<1>1. ASSUME NEW s \in Sets, NEW t \in Types, Enter(<<AddTypeOp(s, t)>>),
             UNCHANGED <<ti, compiling, ran, enabled, disabled, request, Budget>>
      PROVE  Flowing'
    <2>1. AddTypeOp(s, t) \in Ops /\ AddTypeOp(s, t).op = "type"
        BY DEF AddTypeOp, Ops, AnalysisOps
    <2>2. <<AddTypeOp(s, t)>> \in Seq(Ops) /\ \A k \in DOMAIN <<AddTypeOp(s, t)>> :
              <<AddTypeOp(s, t)>>[k].op \notin UseKinds
        BY <2>1 DEF UseKinds
    <2> QED
        BY <1>0, <1>1, <2>2, Entered
<1>2. ASSUME NEW w \in Writes, Write(w[1], w[2]) PROVE Flowing'
    <2>1. w[1] \in Sets /\ w[2] \in Types
        BY DEF ProgramAssumption
    <2> QED
        BY <1>1, <1>2, <2>1 DEF Write
<1>3. ASSUME NEW r \in Reads, NEW t \in Prims \cup Objects, NEW b \in BOOLEAN, Monitor(r, t, b)
      PROVE  Flowing'
    <2>1. r \in Sets /\ t \in Types
        BY ObservedOK DEF Types
    <2>2. CASE ~b
        <3>1. <<>> \o <<AddTypeOp(r, t)>> = <<AddTypeOp(r, t)>>
            OBVIOUS
        <3> QED
            BY <1>1, <1>3, <2>1, <2>2, <3>1 DEF Monitor
    <2>3. CASE b
        <3> DEFINE o == [op |-> "break", set |-> r, all |-> FALSE]
                   p == AddTypeOp(r, t)
                   ops == <<o>> \o <<p>>
        <3>1. o \in Ops /\ p \in Ops /\ o.op = "break" /\ p.op = "type"
            BY <2>1 DEF AddTypeOp, Ops, AnalysisOps
        <3> HIDE DEF o, p
        <3>2. /\ ops \in Seq(Ops) /\ DOMAIN ops = {1, 2}
              /\ ops[1] = o /\ ops[2] = p
            BY <3>1
        <3>3. \A k \in DOMAIN ops : ops[k].op \notin UseKinds
            BY <3>1, <3>2 DEF UseKinds
        <3>4. /\ Enter(ops) /\ UNCHANGED <<ti, compiling, ran, enabled, disabled, request, Budget>>
            BY <1>3, <2>3 DEF Monitor, o, p
        <3> HIDE DEF ops
        <3> QED
            BY <1>0, <3>2, <3>3, <3>4, Entered
    <2> QED
        BY <2>2, <2>3
<1>4. ASSUME NEW x \in Scripts, Analyze(x) PROVE Flowing'
    <2>1. /\ EnsureRanInference(x) \in Seq(Ops)
          /\ \A k \in DOMAIN EnsureRanInference(x) : EnsureRanInference(x)[k].op \notin UseKinds
        BY EnsureOK DEF UseKinds
    <2>2. Enter(EnsureRanInference(x)) /\ UNCHANGED <<ti, compiling, ran, enabled, request>>
        BY <1>4 DEF Analyze
    <2> QED
        BY <1>0, <2>1, <2>2, Entered
<1>5. ASSUME NEW r \in Reads, AnalyzeNewScript(r) PROVE Flowing'
    <2> DEFINE o == [op |-> "break", set |-> r, all |-> TRUE]
    <2>1. o \in Ops /\ o.op = "break"
        BY <1>5 DEF AnalyzeNewScript, Ops
    <2>2. Enter(<<o>>) /\ UNCHANGED <<ti, compiling, ran, enabled, request>>
        BY <1>5 DEF AnalyzeNewScript
    <2> HIDE DEF o
    <2>3. <<o>> \in Seq(Ops) /\ \A k \in DOMAIN <<o>> : <<o>>[k].op \notin UseKinds
        BY <2>1 DEF UseKinds
    <2> QED
        BY <1>0, <2>2, <2>3, Entered
<1>6. ASSUME NEW x \in Scripts, IonCompile(x) PROVE Flowing'
    <2> DEFINE e == EnsureRanInference(x)
               c == Compilation["ion"][x]
               l == <<[op |-> "link"]>>
               ops == e \o c \o l
    <2>1. e \in Seq(Ops) /\ c \in Seq(Ops) /\ l \in Seq(Ops)
        <3>1. [op |-> "link"] \in Ops
            BY DEF Ops
        <3> QED
            BY <3>1, EnsureOK, CompilationOK DEF Jits
    <2> HIDE DEF e, c, l
    <2>2. ops \in Seq(Ops)
        BY <2>1
    <2>3. /\ Enter(ops) /\ UNCHANGED <<ti, ran, enabled, request>>
          /\ compiling' = [script |-> x, jit |-> "ion", reads |-> {}]
        BY <1>6 DEF IonCompile, e, c, l
    <2> HIDE DEF ops
    <2>4. compiling' \in Compilations /\ compiling' # NoCompile
        BY <2>3, Compiles DEF Jits
    <2> QED
        BY <1>0, <2>2, <2>3, <2>4, Entered
<1>7. ASSUME NEW x \in Scripts, NEW k \in {"interpreter", "jit"}, CanMethodJIT(x, k) PROVE Flowing'
    <2>1. request' \in Requests /\ UNCHANGED <<ti, active, todo, compiling, ran, enabled>>
        BY <1>7 DEF CanMethodJIT, Requests
    <2> QED
        BY <2>1 DEF Flowing, Typed, Activity, Good, FlowInv
<1> QED
    BY <1>2, <1>3, <1>4, <1>5, <1>6, <1>7 DEF Entries

\* resolvePending hands what it takes from the worklist to the constraint it is
\* owed to.
LEMMA ResolveFlowing ==
    ASSUME ProgramAssumption, Flowing, Resolve
    PROVE  Flowing'
<1> DEFINE w == Take(ti.pending).item
           st == Taken(ti)
           st2 == NewType(st, w.set, w.con, w.type)
<1>0. Good(ti) /\ ti.pending # <<>> /\ ti \in States
    BY DEF Flowing, Typed, Resolve, Good
<1>1. ti' = st2 \/ ti' \in Lost(st, st2)
    BY DEF Resolve, Taken
<1>2. /\ w.set \in Sets /\ w.type \in Types /\ w.con \in DOMAIN st.cons[w.set]
      /\ st.nuke = ti.nuke
    BY <1>0, TakeOK
<1>3. Good(st)
    BY <1>0, TakenGood
<1>4. FlowIn(ti) => FlowUpTo(st, For(w.set, w.con, w.type))
    BY <1>0, TakenFlow
<1> HIDE DEF w, st
<1>5. Handed(st, st2, w.set, w.con, w.type)
    BY <1>2, <1>3, NewTypeHands
<1> HIDE DEF st2
<1>6. Good(st2) /\ Larger(st, st2) /\ st2.nuke = st.nuke
    BY <1>2, <1>3, <1>5, HandedGood
<1>7. FlowIn(ti) => FlowIn(st2)
    BY <1>2, <1>3, <1>4, <1>5, HandedFlow
<1>8. Good(ti') /\ FlowInv'
    <2>1. CASE ti' = st2
        BY <1>2, <1>6, <1>7, <2>1 DEF Flowing, FlowInv
    <2>2. CASE ti' \in Lost(st, st2)
        <3>1. Good(ti') /\ ti'.nuke = TRUE
            BY <1>3, <1>6, <2>2, LostGood
        <3> QED
            BY <3>1 DEF FlowInv
    <2> QED
        BY <1>1, <2>1, <2>2
<1>9. UNCHANGED <<active, todo, compiling, ran, enabled, request>> /\ active
    BY DEF Resolve
<1> QED
    BY <1>8, <1>9 DEF Flowing, Typed, Activity

\* The next operation, and what is known when it is carried out.
LEMMA Next1OK ==
    ASSUME ProgramAssumption, Flowing, NEW K, Next1(K)
    PROVE  /\ Head(todo) \in Ops /\ Head(todo).op \in K /\ todo \in Seq(Ops) /\ todo # <<>>
           /\ active /\ ti.pending = <<>> /\ Good(ti) /\ ti \in States /\ FlowInv
           /\ Tail(todo) \in Seq(Ops)
           /\ compiling \in Compilations /\ ran \subseteq Scripts /\ request \in Requests
           /\ Head(todo).op \in UseKinds => compiling # NoCompile
<1>1. todo \in Seq(Ops) /\ todo # <<>> /\ active
    BY DEF Flowing, Typed, Next1
<1>2. Head(todo) \in Ops /\ Tail(todo) \in Seq(Ops) /\ Head(todo) = todo[1] /\ 1 \in DOMAIN todo
    BY <1>1, HeadTail
<1>3. Head(todo).op \in UseKinds => compiling # NoCompile
    BY <1>2 DEF Flowing, Activity
<1> QED
    BY <1>1, <1>2, <1>3 DEF Flowing, Typed, Next1, Good

\* The analysis of a script and interpreted code keep the sets as they are to
\* be.
LEMMA ModifyFlowing ==
    ASSUME ProgramAssumption, Flowing, Modify
    PROVE  Flowing'
<1> DEFINE o == Head(todo)
           st2 == CASE o.op = "type" -> AddType(ti, o.set, o.type)
                    [] o.op = "constraint" -> AddConstraint(ti, o.set, o.con, TRUE)
                    [] o.op = "break" -> BreakTypeBarriers(ti, o.set, o.all)
<1>1. /\ o \in Ops /\ o.op \in {"type", "constraint", "break"}
      /\ todo # <<>> /\ active /\ Good(ti) /\ FlowInv
    BY Next1OK DEF Modify
<1>2. Becomes(st2)
    BY DEF Modify
<1>3. Keeps(ti, st2)
    <2> HIDE DEF o
    <2>1. CASE o.op = "type"
        BY <1>1, <2>1, AddTypeKeeps, OpOK
    <2>2. CASE o.op = "constraint"
        <3>1. st2 = AddConstraint(ti, o.set, o.con, TRUE)
            BY <2>2
        <3>2. o.set \in Sets /\ o.set \notin Scripts
            BY <1>1, <2>2, OpOK DEF ProgramAssumption
        <3>3. o.con \in Constraints /\ o.con.kind \in {"subset", "barrier"}
            BY <1>1, <2>2, OpOK, FlowConOK
        <3> QED
            BY <1>1, <3>1, <3>2, <3>3, AddConstraintKeeps
    <2>3. CASE o.op = "break"
        BY <1>1, <2>3, BreakKeeps, OpOK
    <2> QED
        BY <1>1, <2>1, <2>2, <2>3
<1> HIDE DEF st2
<1>4. Good(ti') /\ FlowInv'
    BY <1>1, <1>2, <1>3, BecomesOK
<1>5. Going(Tail(todo))
    BY DEF Modify, Going, Flowing, Typed
<1> QED
    BY <1>1, <1>4, <1>5, Shorter DEF Flowing, Typed

\* What a compiler relies on after a question is a use.
LEMMA RelianceOK ==
    ASSUME NEW o \in Ops, o.op \in {"freeze", "tag", "site"}, o.set \in Sets, ti \in States
    PROVE  Reliance(ti, o) \subseteq Uses
<1>1. ti.types[o.set] \in SUBSET Types
    BY FieldsOK
<1>2. Reliance(ti, o) \subseteq {[kind |-> "freeze", set |-> o.set, types |-> ti.types[o.set]],
                                 [kind |-> "tag", set |-> o.set, types |-> ti.types[o.set]],
                                 [kind |-> "unchecked", set |-> o.set, types |-> ti.types[o.set]]}
    BY DEF Reliance
<1> QED
    BY <1>1, <1>2 DEF Uses

\* A freeze constraint is a constraint.
LEMMA FreezeByOK ==
    ASSUME NEW kind \in {"freeze", "tag", "flags"}, NEW x \in Scripts
    PROVE  FreezeBy(kind, x) \in Constraints /\ FreezeBy(kind, x).kind = kind
    BY DEF FreezeBy, Constraints

\* A question of a compiler keeps what is promised of the sets: freeze
\* constraints pass nothing on.
LEMMA ReadSetKeeps ==
    ASSUME ProgramAssumption, NEW st, Good(st), NEW o \in Ops, o.op \in {"freeze", "tag", "site"},
           compiling.script \in Scripts
    PROVE  Keeps(st, ReadSet(st, o))
<1>1. o.set \in Sets /\ o.set \notin Scripts /\ (o.op = "site" => o.set \in Reads)
    BY OpOK DEF ProgramAssumption
<1>2. ASSUME NEW a, Good(a), NEW kind \in {"freeze", "tag"}
      PROVE  Keeps(a, AddConstraint(a, o.set, FreezeBy(kind, compiling.script), FALSE))
    <2>1. /\ FreezeBy(kind, compiling.script) \in Constraints
          /\ FreezeBy(kind, compiling.script).kind = kind
        BY FreezeByOK
    <2> QED
        BY <1>1, <1>2, <2>1, AddConstraintKeeps
<1>3. Keeps(st, st)
    BY DEF Keeps, Larger
<1>4. CASE o.op = "freeze"
    BY <1>2, <1>4 DEF ReadSet
<1>5. CASE o.op = "tag"
    BY <1>2, <1>3, <1>5 DEF ReadSet
<1>6. CASE o.op = "site"
    <2> DEFINE a == PruneTypeBarriers(st, o.set)
               b == AddConstraint(a, o.set, FreezeBy("freeze", compiling.script), FALSE)
    <2>1. Keeps(st, a)
        BY <1>1, <1>6, PruneKeeps
    <2>2. ReadSet(st, o) = a \/ ReadSet(st, o) = b
        BY <1>6 DEF ReadSet
    <2>3. Keeps(a, b)
        <3> HIDE DEF a
        <3> QED
            BY <1>2, <2>1 DEF Keeps
    <2> HIDE DEF a, b
    <2>4. Keeps(st, b)
        BY <2>1, <2>3, LargerTrans DEF Keeps
    <2> QED
        BY <2>1, <2>2, <2>4
<1> QED
    BY <1>4, <1>5, <1>6

\* A question of a compiler keeps the sets as they are to be.
LEMMA ReadFlowing ==
    ASSUME ProgramAssumption, Flowing, Read
    PROVE  Flowing'
<1> DEFINE o == Head(todo)
<1>1. /\ o \in Ops /\ o.op \in {"freeze", "tag", "site"} /\ todo # <<>> /\ active
      /\ Good(ti) /\ ti \in States /\ FlowInv /\ compiling # NoCompile /\ compiling \in Compilations
    BY Next1OK DEF Read, UseKinds
<1>2. /\ compiling \in [script : Scripts, jit : Jits, reads : SUBSET Uses]
      /\ compiling.script \in Scripts
    BY <1>1, CompilingOK
<1>3. Becomes(ReadSet(ti, o)) /\ compiling' = [compiling EXCEPT !.reads = @ \cup Reliance(ti, o)]
    BY DEF Read
<1>4. UNCHANGED <<active, ran, enabled, request>> /\ todo' = Tail(todo)
    BY DEF Read
<1>5. Keeps(ti, ReadSet(ti, o))
    BY <1>1, <1>2, ReadSetKeeps
<1>6. Good(ti') /\ FlowInv'
    BY <1>1, <1>3, <1>5, BecomesOK
<1>7. Reliance(ti, o) \subseteq Uses
    <2>1. o.set \in Sets
        BY <1>1, OpOK
    <2> QED
        BY <1>1, <2>1, RelianceOK
<1> HIDE DEF o
<1>8. compiling' \in Compilations /\ compiling' # NoCompile
    <2>1. compiling' = [script |-> compiling.script, jit |-> compiling.jit,
                        reads |-> compiling.reads \cup Reliance(ti, o)]
        BY <1>2, <1>3
    <2>2. compiling.jit \in Jits /\ compiling.reads \cup Reliance(ti, o) \in SUBSET Uses
        BY <1>2, <1>7
    <2> QED
        BY <1>2, <2>1, <2>2, Compiles
<1>9. Going(Tail(todo))
    BY <1>4, <1>8 DEF Going, Flowing, Typed
<1> QED
    BY <1>1, <1>6, <1>9, Shorter DEF Flowing, Typed

\* Inlining a script keeps the sets as they are to be.
LEMMA InlineFlowing ==
    ASSUME ProgramAssumption, Flowing, NEW b \in BOOLEAN, Inline(b)
    PROVE  Flowing'
<1> DEFINE callee == Head(todo).script
           c == FreezeBy("flags", compiling.script)
<1>1. /\ Head(todo) \in Ops /\ Head(todo).op = "inline" /\ todo # <<>> /\ active
      /\ Good(ti) /\ ti \in States /\ FlowInv /\ compiling # NoCompile /\ compiling \in Compilations
      /\ Tail(todo) \in Seq(Ops)
    BY Next1OK DEF Inline, UseKinds
<1>2. UNCHANGED <<active, compiling, ran, enabled, request>>
    BY DEF Inline
<1>3. callee \in Scripts /\ callee \notin Sets
    BY <1>1, OpOK DEF ProgramAssumption
<1>4. compiling.script \in Scripts /\ compiling.jit \in Jits
    BY <1>1, CompilingOK
<1>5. CASE b
    <2>1. /\ Becomes(AddConstraint(ti, callee, c, FALSE))
          /\ todo' = EnsureRanInference(callee) \o Compilation[compiling.jit][callee] \o Tail(todo)
        BY <1>5 DEF Inline
    <2>2. c \in Constraints /\ c.kind = "flags"
        BY <1>4, FreezeByOK
    <2>3. Keeps(ti, AddConstraint(ti, callee, c, FALSE))
        <3> HIDE DEF callee, c
        <3> QED
            BY <1>1, <1>3, <2>2, AddConstraintKeeps
    <2>4. Good(ti') /\ FlowInv'
        BY <1>1, <2>1, <2>3, BecomesOK
    <2>5. /\ EnsureRanInference(callee) \in Seq(Ops)
          /\ Compilation[compiling.jit][callee] \in Seq(Ops)
        BY <1>3, <1>4, EnsureOK, CompilationOK
    <2>6. todo' \in Seq(Ops)
        BY <1>1, <2>1, <2>5
    <2> QED
        BY <1>1, <1>2, <2>4, <2>6 DEF Flowing, Typed, Activity
<1>6. CASE ~b
    <2>1. ti' = ti /\ todo' = Tail(todo)
        BY <1>6 DEF Inline
    <2>2. Good(ti') /\ FlowInv'
        BY <1>1, <2>1 DEF FlowInv
    <2>3. Going(Tail(todo))
        BY <1>2, <2>1 DEF Going, Flowing, Typed
    <2> QED
        BY <1>1, <2>2, <2>3, Shorter DEF Flowing, Typed
<1> QED
    BY <1>5, <1>6

\* Marking a script as analysed changes no types.
LEMMA RanFlowing ==
    ASSUME ProgramAssumption, Flowing, RunInference
    PROVE  Flowing'
<1>1. Head(todo) \in Ops /\ Head(todo).op = "ran" /\ todo # <<>> /\ active /\ Good(ti) /\ FlowInv
    BY Next1OK DEF RunInference
<1>2. Head(todo).script \in Scripts
    BY <1>1, OpOK
<1>3. Going(Tail(todo)) /\ ti' = ti
    BY <1>2 DEF RunInference, Going, Flowing, Typed, Budget
<1>4. Good(ti') /\ FlowInv'
    BY <1>1, <1>3 DEF FlowInv
<1> QED
    BY <1>1, <1>3, <1>4, Shorter DEF Flowing, Typed

\* What follows ensureRanInference changes no types.
LEMMA EnsuredFlowing ==
    ASSUME ProgramAssumption, Flowing, Ensured
    PROVE  Flowing'
<1>1. /\ todo # <<>> /\ active /\ Good(ti) /\ FlowInv
    BY Next1OK DEF Ensured
<1>2. UNCHANGED <<ti, active, compiling, ran, enabled, request>>
    BY DEF Ensured
<1>3. Good(ti') /\ FlowInv'
    BY <1>1, <1>2 DEF FlowInv
<1>4. CASE todo' = <<>>
    BY <1>1, <1>2, <1>3, <1>4 DEF Flowing, Typed, Activity
<1>5. CASE todo' = Tail(todo)
    <2>1. Going(Tail(todo))
        BY <1>2, <1>5 DEF Going, Flowing, Typed
    <2> QED
        BY <1>1, <1>3, <2>1, Shorter DEF Flowing, Typed
<1> QED
    BY <1>4, <1>5 DEF Ensured

\* Code was released or added.
WithCode(st, R, X) == [st EXCEPT !.recompiles = R, !.code = X]

\* Released or added code is the only thing that changes.
LEMMA SetCode ==
    ASSUME NEW st, Good(st), NEW X \in [Scripts -> [Jits -> Codes]], NEW R \in SUBSET Scripts,
           NEW st2, st2 = WithCode(st, R, X)
    PROVE  /\ Good(st2) /\ st2.types = st.types /\ st2.cons = st.cons /\ st2.barriers = st.barriers
           /\ st2.pending = st.pending /\ st2.nuke = st.nuke /\ st2.code = X /\ st2.recompiles = R
<1>1. /\ st2 \in States /\ st2.types = st.types /\ st2.cons = st.cons /\ st2.barriers = st.barriers
      /\ st2.pending = st.pending /\ st2.nuke = st.nuke /\ st2.code = X /\ st2.recompiles = R
    BY DEF States, Good, WithCode
<1>2. Good(st2)
    BY <1>1 DEF Good, SetsOK, KindsOK, ItemsOK
<1> QED
    BY <1>1, <1>2

\* What compiled code there is makes no difference to the sets.
SameSets(st, st2) ==
    /\ st2.types = st.types /\ st2.cons = st.cons /\ st2.barriers = st.barriers
    /\ st2.pending = st.pending /\ st2.nuke = st.nuke

\* The same sets, constraints and worklist promise the same.
LEMMA SameFlow ==
    ASSUME NEW st, NEW st2, SameSets(st, st2), FlowIn(st)
    PROVE  FlowIn(st2)
<1>1. \A c : \A t : Satisfied(st, c, t) => Satisfied(st2, c, t)
    BY DEF SameSets, Satisfied, Covered
<1>2. \A s : \A i : \A t : Owed(st, s, i, t) => Owed(st2, s, i, t)
    BY DEF SameSets, Owed
<1> QED
    BY <1>1, <1>2 DEF FlowIn, SameSets

\* The same for a step.
LEMMA SameFlowInv ==
    ASSUME FlowInv, SameSets(ti, ti')
    PROVE  FlowInv'
    BY SameFlow DEF FlowInv, SameSets

\* Linking code keeps the sets as they are to be.
LEMMA LinkFlowing ==
    ASSUME ProgramAssumption, Flowing, Link
    PROVE  Flowing'
<1>1. /\ todo # <<>> /\ active /\ Good(ti) /\ ti \in States /\ FlowInv
      /\ compiling # NoCompile /\ compiling \in Compilations
    BY Next1OK DEF Link, UseKinds
<1>2. compiling.script \in Scripts /\ compiling.jit \in Jits /\ compiling.reads \subseteq Uses
    BY <1>1, CompilingOK
<1> DEFINE new == [compiled |-> TRUE, reads |-> compiling.reads]
           X == [ti.code EXCEPT ![compiling.script] = [ti.code[compiling.script] EXCEPT ![compiling.jit] = new]]
<1>3. new \in Codes
    BY <1>2 DEF Codes
<1>4. ti' = [ti EXCEPT !.code[compiling.script][compiling.jit] = new]
    BY DEF Link
<1> HIDE DEF new
<1>5. X \in [Scripts -> [Jits -> Codes]]
    BY <1>1, <1>2, <1>3, FieldsOK
<1>6. ti' = WithCode(ti, ti.recompiles, X)
    BY <1>1, <1>4 DEF States, WithCode
<1> HIDE DEF X
<1>7. /\ Good(ti') /\ ti'.types = ti.types /\ ti'.cons = ti.cons /\ ti'.barriers = ti.barriers
      /\ ti'.pending = ti.pending /\ ti'.nuke = ti.nuke
    <2>1. ti.recompiles \in SUBSET Scripts
        BY <1>1, FieldsOK
    <2> QED
        BY <1>1, <1>5, <1>6, <2>1, SetCode
<1>8. FlowInv'
    BY <1>1, <1>7, SameFlowInv DEF SameSets
<1>9. Going(Tail(todo))
    BY DEF Link, Going, Flowing, Typed, Budget
<1> QED
    BY <1>1, <1>7, <1>8, <1>9, Shorter DEF Flowing, Typed

\* No code is code.
LEMMA NoCodeOK ==
    ASSUME NEW st
    PROVE  ReleaseAll(st) \in [Scripts -> [Jits -> Codes]]
    BY DEF ReleaseAll, NoCode, Codes

\* Released code is code.
LEMMA ResetOK ==
    ASSUME request \in Requests, NEW S
    PROVE  ResetUses(S) \in Requests
    BY DEF ResetUses, Requests, NoRequest

\* The state in which an activation is left, with types given up or not.
LEMMA LeaveOK ==
    ASSUME ProgramAssumption, Flowing, Leave
    PROVE  /\ Good(ti') /\ ti'.types = ti.types /\ ti'.cons = ti.cons /\ ti'.barriers = ti.barriers
           /\ ti'.pending = ti.pending /\ ti'.nuke = ti.nuke /\ ti'.recompiles = {}
           /\ ti.nuke => ti'.code = ReleaseAll(ti)
           /\ ~ti.nuke => ti'.code = [s \in Scripts |-> [j \in Jits |->
                              IF s \in ti.recompiles THEN NoCode ELSE ti.code[s][j]]]
<1>1. Good(ti) /\ ti \in States /\ {} \in SUBSET Scripts
    BY DEF Flowing, Typed, Good
<1>2. CASE ti.nuke
    <2>1. ti' = WithCode(ti, {}, ReleaseAll(ti))
        BY <1>2 DEF Leave, NukeTypes, WithCode
    <2>2. ReleaseAll(ti) \in [Scripts -> [Jits -> Codes]]
        BY NoCodeOK
    <2>3. /\ Good(ti') /\ ti'.types = ti.types /\ ti'.cons = ti.cons /\ ti'.barriers = ti.barriers
          /\ ti'.pending = ti.pending /\ ti'.nuke = ti.nuke /\ ti'.recompiles = {}
          /\ ti'.code = ReleaseAll(ti)
        BY <1>1, <2>1, <2>2, SetCode
    <2> QED
        BY <1>2, <2>3
<1>3. CASE ~ti.nuke
    <2> DEFINE X == [s \in Scripts |-> [j \in Jits |->
                        IF s \in ti.recompiles THEN NoCode ELSE ti.code[s][j]]]
    <2>1. ti' = WithCode(ti, {}, X)
        BY <1>3 DEF Leave, ProcessPendingRecompiles, WithCode
    <2>2. X \in [Scripts -> [Jits -> Codes]]
        BY <1>1, FieldsOK DEF NoCode, Codes
    <2> HIDE DEF X
    <2>3. /\ Good(ti') /\ ti'.types = ti.types /\ ti'.cons = ti.cons /\ ti'.barriers = ti.barriers
          /\ ti'.pending = ti.pending /\ ti'.nuke = ti.nuke /\ ti'.recompiles = {} /\ ti'.code = X
        BY <1>1, <2>1, <2>2, SetCode
    <2> QED
        BY <1>3, <2>3 DEF X
<1> QED
    BY <1>2, <1>3

\* An activation is left with nothing on the worklist, and nothing owed.
LEMMA LeaveFlowing ==
    ASSUME ProgramAssumption, Flowing, Leave
    PROVE  Flowing'
<1>1. Good(ti) /\ FlowInv /\ request \in Requests
    BY DEF Flowing, Typed
<1>2. Good(ti') /\ FlowInv'
    BY <1>1, LeaveOK, SameFlowInv DEF SameSets
<1>3. /\ active' = FALSE /\ todo' = todo /\ todo = <<>> /\ compiling' = NoCompile
      /\ ti'.pending = <<>> /\ ran' = ran
    <2>1. ti'.pending = ti.pending
        BY LeaveOK
    <2> QED
        BY <2>1 DEF Leave
<1>4. enabled' \in BOOLEAN /\ request' \in Requests
    BY <1>1, ResetOK DEF Leave, Flowing, Typed
<1>5. compiling' \in Compilations /\ todo' \in Seq(Ops) /\ ran' \subseteq Scripts
    BY <1>3 DEF Compilations, Flowing, Typed
<1>6. Typed'
    BY <1>2, <1>3, <1>4, <1>5 DEF Typed
<1>7. Activity'
    BY <1>3 DEF Activity
<1> QED
    BY <1>2, <1>6, <1>7 DEF Flowing

\* Code that a collection releases leaves the sets alone.
LEMMA CollectCodeOK ==
    ASSUME Good(ti), CollectCode
    PROVE  /\ Good(ti') /\ ti'.types = ti.types /\ ti'.cons = ti.cons /\ ti'.barriers = ti.barriers
           /\ ti'.pending = ti.pending /\ ti'.nuke = ti.nuke /\ ti'.recompiles = ti.recompiles
           /\ ti'.code = ReleaseAll(ti)
<1>1. ti \in States
    BY DEF Good
<1>2. ti' = WithCode(ti, ti.recompiles, ReleaseAll(ti))
    BY <1>1 DEF CollectCode, States, WithCode
<1>3. ti.recompiles \in SUBSET Scripts /\ ReleaseAll(ti) \in [Scripts -> [Jits -> Codes]]
    BY <1>1, NoCodeOK, FieldsOK
<1> QED
    BY <1>2, <1>3, SetCode

\* So the sets stay as they are to be.
LEMMA CollectCodeFlowing ==
    ASSUME ProgramAssumption, Flowing, CollectCode
    PROVE  Flowing'
<1>1. Good(ti) /\ FlowInv /\ request \in Requests
    BY DEF Flowing, Typed
<1>2. Good(ti') /\ FlowInv'
    BY <1>1, CollectCodeOK, SameFlowInv DEF SameSets
<1>3. UNCHANGED <<active, todo, compiling, ran, enabled>> /\ active /\ request' \in Requests
    BY <1>1, ResetOK DEF CollectCode
<1> QED
    BY <1>2, <1>3 DEF Flowing, Typed, Activity

\* A set without its dead objects is well formed.
LEMMA SweptOK ==
    ASSUME ProgramAssumption, NEW T \in SUBSET Types, SetOK(T), NEW dead \in SUBSET Objects
    PROVE  SetOK(T \ dead) /\ SetOK({})
<1>1. IsFiniteSet({}) /\ Cardinality({}) = 0 /\ ObjectsOf({}) = {}
    BY FS_EmptySet DEF ObjectsOf
<1>2. SetOK({})
    BY <1>1, LimitsOK DEF SetOK
<1>3. ObjectsOf(T \ dead) \subseteq ObjectsOf(T) /\ IsFiniteSet(ObjectsOf(T))
    BY FS_Subset DEF ObjectsOf, SetOK
<1>4. /\ Cardinality(ObjectsOf(T \ dead)) <= Cardinality(ObjectsOf(T))
      /\ Cardinality(ObjectsOf(T)) \in Nat
    BY <1>3, FS_Subset, FS_CardinalityType
<1>5. Cardinality(ObjectsOf(T \ dead)) \in Nat
    BY <1>3, FS_Subset, FS_CardinalityType
<1>6. Cardinality(ObjectsOf(T \ dead)) < ObjectLimit
    BY <1>4, <1>5, LimitsOK DEF SetOK
<1>7. IsFiniteSet(T \ dead)
    BY FS_Subset DEF SetOK
<1>8. "int" \notin dead
    BY TypesDiffer
<1>9. SetOK(T \ dead)
    BY <1>3, <1>6, <1>7, <1>8 DEF SetOK
<1> QED
    BY <1>2, <1>9

\* The sweep keeps no constraint, type or barrier but those of sets that live.
LEMMA SweepOK ==
    ASSUME ProgramAssumption, Flowing, NEW dead \in SUBSET Objects, NEW release \in BOOLEAN,
           Sweep(dead, release)
    PROVE  /\ Good(ti') /\ (\A s \in Sets \cup Scripts : ti'.cons[s] = <<>>)
           /\ ti'.pending = <<>> /\ ti'.code = ReleaseAll(ti) /\ ti'.recompiles = ti.recompiles
           /\ (ti.nuke => ti'.nuke) /\ ti'.nuke \in {ti.nuke, TRUE}
<1> DEFINE X == IF enabled THEN SweptTypes(dead, release) ELSE ti.types
           C == [s \in Sets \cup Scripts |-> <<>>]
           B == [r \in Reads |-> <<>>]
           st == [ti EXCEPT !.types = X, !.cons = C, !.barriers = B, !.code = ReleaseAll(ti)]
<1>0. Good(ti) /\ ti \in States /\ ti.pending = <<>>
    BY DEF Flowing, Typed, Activity, Sweep, Good
<1>1. ti' = st \/ ti' = [st EXCEPT !.nuke = TRUE]
    BY DEF Sweep
<1>2. X \in [Sets -> SUBSET Types] /\ \A s \in Sets : SetOK(X[s])
    <2>1. ti.types \in [Sets -> SUBSET Types] /\ \A s \in Sets : SetOK(ti.types[s])
        BY <1>0, FieldsOK DEF Good, SetsOK
    <2>2. \A s \in Sets : SetOK(ti.types[s] \ dead) /\ SetOK({})
        BY <2>1, SweptOK
    <2>3. CASE enabled
        <3>1. X = SweptTypes(dead, release)
            BY <2>3
        <3> HIDE DEF X
        <3> QED
            BY <2>1, <2>2, <3>1 DEF SweptTypes
    <2>4. CASE ~enabled
        BY <2>1, <2>4
    <2> QED
        BY <2>3, <2>4
<1>3. C \in [Sets \cup Scripts -> Seq(Constraints)] /\ B \in [Reads -> Seq(Types)]
    OBVIOUS
<1>4. ReleaseAll(ti) \in [Scripts -> [Jits -> Codes]]
    BY NoCodeOK
<1>5. \A s \in Sets \cup Scripts : C[s] = <<>>
    OBVIOUS
<1> HIDE DEF X, C, B
<1>6. \E b \in {ti.nuke, TRUE} :
          /\ ti' \in States /\ ti'.types = X /\ ti'.cons = C /\ ti'.barriers = B
          /\ ti'.pending = ti.pending /\ ti'.code = ReleaseAll(ti)
          /\ ti'.recompiles = ti.recompiles /\ ti'.nuke = b
    BY <1>0, <1>1, <1>2, <1>3, <1>4 DEF States
<1>7. Good(ti')
    BY <1>0, <1>2, <1>5, <1>6 DEF Good, SetsOK, KindsOK, ItemsOK
<1> QED
    BY <1>0, <1>5, <1>6, <1>7

\* After a sweep there are no constraints that pass types on, or those of live
\* sets.
LEMMA SweepFlowing ==
    ASSUME ProgramAssumption, Flowing, NEW dead \in SUBSET Objects, NEW release \in BOOLEAN,
           Sweep(dead, release)
    PROVE  Flowing'
<1>1. /\ Good(ti') /\ (\A s \in Sets \cup Scripts : ti'.cons[s] = <<>>) /\ ti'.pending = <<>>
    BY SweepOK
<1>2. FlowInv'
    BY <1>1 DEF FlowInv, FlowIn
<1>3. UNCHANGED <<active, todo, compiling, enabled>> /\ ran' = {} /\ request' \in Requests
    BY ResetOK DEF Sweep, Flowing, Typed
<1> QED
    BY <1>1, <1>2, <1>3 DEF Flowing, Typed, Activity

\* The answers of CanMethodJIT change no types.
LEMMA AnswersFlowing ==
    ASSUME ProgramAssumption, Flowing, Answer
    PROVE  Flowing'
<1>1. UNCHANGED <<ti, active, todo, compiling, ran, enabled>> /\ request' \in Requests
    BY DEF Answer, Requests
<1> QED
    BY <1>1 DEF Flowing, Typed, Activity, Good, FlowInv

\* Starting the method jit changes no types.
LEMMA MethodCompileFlowing ==
    ASSUME ProgramAssumption, Flowing, MethodCompile
    PROVE  Flowing'
<1> DEFINE x == request.script
           e == EnsureRanInference(x)
           c == Compilation["mjit"][x]
           l == <<[op |-> "link"]>>
           ops == IF enabled THEN e \o c \o l ELSE l
<1>1. x \in Scripts
    BY DEF MethodCompile, Flowing, Typed, Requests
<1>2. e \in Seq(Ops) /\ c \in Seq(Ops) /\ l \in Seq(Ops)
    <2>1. [op |-> "link"] \in Ops
        BY DEF Ops
    <2> HIDE DEF x
    <2> QED
        BY <1>1, <2>1, EnsureOK, CompilationOK DEF Jits
<1>3. /\ Enter(ops) /\ UNCHANGED <<ti, ran, enabled, request>>
      /\ compiling' = [script |-> x, jit |-> "mjit", reads |-> {}]
    BY DEF MethodCompile
<1> HIDE DEF e, c, l, x
<1>4. ops \in Seq(Ops)
    BY <1>2
<1> HIDE DEF ops
<1>5. compiling' \in Compilations /\ compiling' # NoCompile
    BY <1>1, <1>3, Compiles DEF Jits
<1>6. request' \in Requests
    BY <1>3 DEF Flowing, Typed
<1> QED
    BY <1>3, <1>4, <1>5, <1>6, Entered

\* Every step keeps Flowing.
LEMMA FlowingNext ==
    ASSUME ProgramAssumption, Flowing, [Next]_vars
    PROVE  Flowing'
<1>1. CASE Entries
    BY <1>1, EntriesFlowing
<1>2. CASE Collections
    BY <1>2, CollectCodeFlowing, SweepFlowing DEF Collections
<1>3. CASE Work
    BY <1>3, ResolveFlowing, ModifyFlowing, ReadFlowing, RanFlowing, EnsuredFlowing, LinkFlowing,
       LeaveFlowing, InlineFlowing, AnswersFlowing, MethodCompileFlowing DEF Work
<1>4. CASE UNCHANGED vars
    BY <1>4 DEF vars, Flowing, Typed, Activity, Good, FlowInv
<1> QED
    BY <1>1, <1>2, <1>3, <1>4 DEF Next

\* The sets, constraints, barriers, worklist and code of the model stay of their
\* types: of the code, that an item of the worklist names a constraint that
\* exists (TypeCompartment::pendingArray), and that a set stays within the object
\* limit and in the form the switches over it expect (TypeSet::addType).
THEOREM TypesStayTyped == ProgramAssumption => (Spec => []TypeOK)
<1> SUFFICES ASSUME ProgramAssumption PROVE Spec => []TypeOK
    OBVIOUS
<1>1. Init => Flowing
    BY FlowingInit
<1>2. Flowing /\ [Next]_vars => Flowing'
    BY FlowingNext
<1>3. Flowing => TypeOK
    <2> SUFFICES ASSUME Flowing PROVE TypeOK
        OBVIOUS
    <2>1. /\ ti \in States /\ SetsOK(ti) /\ ItemsOK(ti)
          /\ ti.types \in [Sets -> SUBSET Types]
          /\ ti.cons \in [Sets \cup Scripts -> Seq(Constraints)]
          /\ ti.barriers \in [Reads -> Seq(Types)] /\ ti.pending \in Seq(Items)
          /\ ti.recompiles \in SUBSET Scripts /\ ti.nuke \in BOOLEAN
        BY FieldsOK DEF Flowing, Typed, Good
    <2>2. \A s \in Sets : /\ "unknown" \in ti.types[s] => ti.types[s] = {"unknown"}
                          /\ "anyobject" \in ti.types[s] => ObjectsOf(ti.types[s]) = {}
                          /\ Cardinality(ObjectsOf(ti.types[s])) < ObjectLimit
        BY <2>1 DEF SetsOK, SetOK
    <2>3. \A i \in DOMAIN ti.pending : ti.pending[i] \in Items
        BY <2>1, SeqOK
    <2>4. \A i \in DOMAIN ti.pending :
             /\ ti.pending[i].set \in Sets /\ ti.pending[i].type \in Types
             /\ ti.pending[i].con \in DOMAIN ti.cons[ti.pending[i].set]
        BY <2>1, <2>3 DEF Items, ItemsOK
    <2>5. \A r \in Reads : Range(ti.barriers[r]) \subseteq Types
        BY <2>1 DEF Range
    <2>6. /\ active \in BOOLEAN /\ enabled \in BOOLEAN /\ ran \subseteq Scripts
          /\ ~active => todo = <<>> /\ ti.pending = <<>> /\ compiling = NoCompile
        BY DEF Flowing, Typed, Activity
    <2>7. DOMAIN ti.cons = Sets \cup Scripts
        BY <2>1
    <2> QED
        BY <2>1, <2>2, <2>4, <2>5, <2>6, <2>7 DEF TypeOK
<1> QED
    BY <1>1, <1>2, <1>3, PTL DEF Spec

\* Between activations a type of a set is in every set its subset constraints lead
\* to, and at every read its barrier constraints lead to, as a type or as a
\* barrier, unless a failed allocation has given inference up: what the newType of
\* TypeConstraintSubset and TypeConstraintSubsetBarrier are for.  For every
\* program, any number of types and any limits, and whichever constructors are
\* analysed.
THEOREM TypesFlowOn == ProgramAssumption => (Spec => []TypesFlow)
<1> SUFFICES ASSUME ProgramAssumption PROVE Spec => []TypesFlow
    OBVIOUS
<1>1. Init => Flowing
    BY FlowingInit
<1>2. Flowing /\ [Next]_vars => Flowing'
    BY FlowingNext
<1>3. Flowing => TypesFlow
    BY DEF Flowing, Activity, FlowInv, FlowIn, Owed, TypesFlow
<1> QED
    BY <1>1, <1>2, <1>3, PTL DEF Spec

-----------------------------------------------------------------------------
(* What protects compiled code stays, or the code is to be recompiled.      *)

GuardsKept(st, st2) ==
    \A x \in Scripts, use \in Uses :
        HasJITCode(st, x) /\ Guarded(st, x, use) => x \in st2.recompiles \/ Guarded(st2, x, use)

\* Nothing else that concerns code changes.
CodeStays(st, st2) == st2.code = st.code /\ st.recompiles \subseteq st2.recompiles

\* A step that keeps the guards keeps those of all code, or has it recompiled.
LEMMA CodeKept ==
    ASSUME NEW st \in States, NEW st2, CodeStays(st, st2), GuardsKept(st, st2), CodeGuarded(st)
    PROVE  CodeGuarded(st2)
<1> SUFFICES ASSUME NEW x \in Scripts, NEW j \in Jits, NEW use \in st2.code[x][j].reads
             PROVE  st2.code[x][j].compiled /\ (x \in st2.recompiles \/ Guarded(st2, x, use))
    BY DEF CodeGuarded
<1>1. st2.code = st.code /\ st.recompiles \subseteq st2.recompiles
    BY DEF CodeStays
<1>2. st.code[x][j].compiled /\ (x \in st.recompiles \/ Guarded(st, x, use))
    BY <1>1 DEF CodeGuarded
<1>3. HasJITCode(st, x)
    BY <1>2 DEF HasJITCode
<1>4. use \in Uses
    <2>1. st.code[x][j] \in Codes
        BY FieldsOK
    <2> QED
        BY <1>1, <2>1 DEF Codes
<1> QED
    BY <1>1, <1>2, <1>3, <1>4 DEF GuardsKept

\* A use has a set of its kind.
LEMMA UseOK ==
    ASSUME NEW use \in Uses
   
    PROVE  use.kind \in {"freeze", "tag", "unchecked"} /\ use.set \in Sets /\ use.types \in SUBSET Types
    BY DEF Uses

\* Constraints are never taken away from a set before it is swept.
ConsStay(st, st2) ==
    \A z \in Sets \cup Scripts : \A i \in DOMAIN st.cons[z] :
        i \in DOMAIN st2.cons[z] /\ st2.cons[z][i] = st.cons[z][i]

ItemsStay(st, st2) ==
    \A k \in DOMAIN st.pending : k \in DOMAIN st2.pending /\ st2.pending[k] = st.pending[k]

\* The constraints of a set that changed are to be told.
Announced(st, st2) ==
    \A z \in Sets : st2.types[z] # st.types[z] =>
        \A i \in DOMAIN st.cons[z] : \E k \in DOMAIN st2.pending : st2.pending[k].set = z /\ st2.pending[k].con = i

\* A freeze constraint guards what it guarded when it is told of every change.
LEMMA FreezeStays ==
    ASSUME NEW st, NEW st2, ConsStay(st, st2), ItemsStay(st, st2), Announced(st, st2), NEW x,
           NEW use \in Uses, use.kind = "freeze", FreezeGuard(st, x, use)
    PROVE  FreezeGuard(st2, x, use)
<1>1. use.set \in Sets
    BY UseOK
<1>2. PICK i \in DOMAIN st.cons[use.set] :
         /\ st.cons[use.set][i] = FreezeBy("freeze", x)
         /\ \/ Holds(st, use)
            \/ \E k \in DOMAIN st.pending : st.pending[k].set = use.set /\ st.pending[k].con = i
    BY DEF FreezeGuard
<1>3. i \in DOMAIN st2.cons[use.set] /\ st2.cons[use.set][i] = FreezeBy("freeze", x)
    BY <1>1, <1>2 DEF ConsStay
<1>4. CASE \E k \in DOMAIN st.pending : st.pending[k].set = use.set /\ st.pending[k].con = i
    <2>1. \E k \in DOMAIN st2.pending : st2.pending[k].set = use.set /\ st2.pending[k].con = i
        BY <1>4 DEF ItemsStay
    <2> QED
        BY <1>3, <2>1 DEF FreezeGuard
<1>5. CASE Holds(st, use) /\ st2.types[use.set] = st.types[use.set]
    <2>1. Holds(st2, use)
        BY <1>5 DEF Holds
    <2> QED
        BY <1>3, <2>1 DEF FreezeGuard
<1>6. CASE st2.types[use.set] # st.types[use.set]
    <2>1. \E k \in DOMAIN st2.pending : st2.pending[k].set = use.set /\ st2.pending[k].con = i
        BY <1>1, <1>2, <1>6 DEF Announced
    <2> QED
        BY <1>3, <2>1 DEF FreezeGuard
<1> QED
    BY <1>2, <1>4, <1>5, <1>6

\* Whoever watches the flags of a script goes on.
LEMMA WatchesStay ==
    ASSUME NEW st, NEW st2, ConsStay(st, st2), NEW x, NEW f \in Scripts, Watches(st, x, f)
    PROVE  Watches(st2, x, f)
    BY DEF Watches, ConsStay

\* A barrier constraint stays.
LEMMA BarrierConStays ==
    ASSUME ProgramAssumption, NEW st, NEW st2, ConsStay(st, st2), NEW r \in Reads, HasBarrierCon(st, r)
    PROVE  HasBarrierCon(st2, r)
    BY ObservedOK DEF HasBarrierCon, ConsStay

\* A read without barriers has none, or whoever relies on that is recompiled.
SitesStay(st, st2) ==
    \A r \in Reads : st.barriers[r] = <<>> =>
        \/ st2.barriers[r] = <<>>
        \/ Reached(st, Observed[r].script) \subseteq st2.recompiles

\* A read without barriers stays so, or whoever relies on that is recompiled.
LEMMA SiteStays ==
    ASSUME ProgramAssumption, NEW st, NEW st2, ConsStay(st, st2), SitesStay(st, st2), NEW x,
           NEW use \in Uses, SiteGuard(st, x, use)
    PROVE  SiteGuard(st2, x, use) \/ (HasJITCode(st, x) => x \in st2.recompiles)
<1> DEFINE r == use.set
           f == Observed[r].script
<1>1. r \in Reads /\ Watches(st, x, f) /\ st.barriers[r] = <<>> /\ HasBarrierCon(st, r)
    BY DEF SiteGuard
<1>2. f \in Scripts
    BY <1>1, ObservedOK
<1>3. Watches(st2, x, f) /\ HasBarrierCon(st2, r)
    BY <1>1, <1>2, WatchesStay, BarrierConStays
<1>4. CASE st2.barriers[r] = <<>>
    BY <1>1, <1>3, <1>4 DEF SiteGuard
<1>5. CASE Reached(st, f) \subseteq st2.recompiles
    <2>1. x \in {f} \cup InlinersOf(st, f)
        BY <1>1 DEF Watches, InlinersOf
    <2> QED
        BY <1>5, <2>1 DEF Reached
<1> QED
    BY <1>1, <1>4, <1>5 DEF SitesStay

\* The tag that was read of a set is still its tag, or the constraint is to fire.
TagsStay(st, st2) ==
    \A x \in Scripts, use \in Uses : use.kind = "tag" /\ TagGuard(st, x, use) => TagGuard(st2, x, use)

\* The parts make up the whole: everything guarded stays guarded.
LEMMA GuardsStay ==
    ASSUME ProgramAssumption, NEW st, NEW st2, ConsStay(st, st2), ItemsStay(st, st2),
           Announced(st, st2), SitesStay(st, st2), TagsStay(st, st2)
    PROVE  GuardsKept(st, st2)
<1> SUFFICES ASSUME NEW x \in Scripts, NEW use \in Uses, HasJITCode(st, x), Guarded(st, x, use)
             PROVE  x \in st2.recompiles \/ Guarded(st2, x, use)
    BY DEF GuardsKept
<1>1. CASE use.kind = "freeze"
    BY <1>1, FreezeStays DEF Guarded
<1>2. CASE use.kind = "tag"
    BY <1>2 DEF Guarded, TagsStay
<1>3. CASE use.kind = "unchecked"
    BY <1>3, SiteStays DEF Guarded
<1> QED
    BY <1>1, <1>2, <1>3, UseOK

-----------------------------------------------------------------------------
(* Tags.                                                                    *)

\* A tag of a set with objects is "object", and stays that as objects are added.
LEMMA ObjectTag ==
    ASSUME ProgramAssumption, NEW T \in SUBSET Types, ObjectsOf(T) # {}, GetKnownTypeTag(T) # "unknown"
    PROVE  T \subseteq Objects \cup {"anyobject"} /\ GetKnownTypeTag(T) = "object"
<1>1. PICK b \in T : b \in Objects
    BY DEF ObjectsOf
<1>2. b # "int" /\ b # "double"
    BY <1>1, TypesDiffer
<1>3. T # {"int"} /\ T # {"int", "double"}
    BY <1>1, <1>2
<1> QED
    BY <1>3 DEF GetKnownTypeTag

\* A set with objects that grows by objects has the tag it had.
LEMMA TagGrows ==
    ASSUME ProgramAssumption, NEW st, NEW st2, NEW use \in Uses, use.kind = "tag", KnownTag(use.types),
           Holds(st, use), st.types[use.set] \in SUBSET Types, ObjectsOf(st.types[use.set]) # {},
           \A u \in st2.types[use.set] : u \in st.types[use.set] \/ u \in Objects \cup {"anyobject"},
           st2.types[use.set] # {}
    PROVE  Holds(st2, use)
<1> DEFINE T == st.types[use.set]
           X == st2.types[use.set]
<1>1. T # {} /\ use.types # {} /\ GetKnownTypeTag(T) = GetKnownTypeTag(use.types)
    BY DEF Holds, ObjectsOf
<1>2. GetKnownTypeTag(T) # "unknown"
    BY <1>1 DEF KnownTag
<1>3. T \subseteq Objects \cup {"anyobject"} /\ GetKnownTypeTag(T) = "object"
    <2> HIDE DEF T
    <2> QED
        BY <1>2, ObjectTag DEF T
<1>4. GetKnownTypeTag(X) = "object"
    <2>1. X # {} /\ X \subseteq Objects \cup {"anyobject"}
        BY <1>3
    <2> HIDE DEF X
    <2>2. "int" \notin X
        BY <2>1, TypesDiffer
    <2>3. X # {"int"} /\ X # {"int", "double"}
        BY <2>2
    <2> QED
        BY <2>1, <2>3 DEF GetKnownTypeTag
<1> HIDE DEF T, X
<1>5. X # {}
    BY DEF X
<1> QED
    BY <1>1, <1>3, <1>4, <1>5 DEF Holds, T, X

\* In sets and constraints that did not change, what is guarded remains so.
LEMMA TagElsewhere ==
    ASSUME NEW st, NEW st2, ConsStay(st, st2), ItemsStay(st, st2), NEW x,
           NEW use \in Uses, use.kind = "tag", TagGuard(st, x, use),
           st2.types[use.set] = st.types[use.set]
    PROVE  TagGuard(st2, x, use)
<1>1. use.set \in Sets
    BY UseOK
<1>2. KnownTag(use.types)
    BY DEF TagGuard
<1>3. PICK i \in DOMAIN st.cons[use.set] :
          /\ st.cons[use.set][i] = FreezeBy("tag", x)
          /\ \/ Breaks # {} \/ Holds(st, use)
             \/ \E k \in DOMAIN st.pending :
                   /\ st.pending[k].set = use.set /\ st.pending[k].con = i /\ Fires(st, k)
    BY DEF TagGuard
<1>4. i \in DOMAIN st2.cons[use.set] /\ st2.cons[use.set][i] = FreezeBy("tag", x)
    BY <1>1, <1>3 DEF ConsStay
<1>5. Holds(st, use) => Holds(st2, use)
    BY DEF Holds
<1>6. ASSUME NEW k \in DOMAIN st.pending, st.pending[k].set = use.set, st.pending[k].con = i, Fires(st, k)
      PROVE  \E q \in DOMAIN st2.pending :
                /\ st2.pending[q].set = use.set /\ st2.pending[q].con = i /\ Fires(st2, q)
    <2>1. k \in DOMAIN st2.pending /\ st2.pending[k] = st.pending[k]
        BY DEF ItemsStay
    <2>2. Fires(st2, k)
        BY <1>6, <2>1 DEF Fires
    <2> QED
        BY <1>6, <2>1, <2>2
<1> QED
    BY <1>2, <1>3, <1>4, <1>5, <1>6 DEF TagGuard

\* No other object is added to a set while a constraint waits for its only one.
Unmixed(st, s, t) ==
    \A k \in DOMAIN st.pending :
        LET w == st.pending[k]
        IN /\ w.set = s /\ st.cons[s][w.con].kind = "tag"
           /\ w.type \in Objects /\ ObjectsOf(st.types[s]) = {w.type}
           => t \in {w.type, "anyobject"}

\* A type is added to a set: its tag constraints are to fire, or the tag is as
\* it was.
LEMMA GrownTags ==
    ASSUME ProgramAssumption, NEW st \in States, SetsOK(st), NEW st2, NEW s \in Sets, NEW t \in Types, NEW y,
           Grown(st, st2, s, t, y), ~HasType(st.types[s], t), Breaks = {} => Unmixed(st, s, t)
    PROVE  TagsStay(st, st2)
<1> SUFFICES ASSUME NEW x \in Scripts, NEW use \in Uses, use.kind = "tag", TagGuard(st, x, use)
             PROVE  TagGuard(st2, x, use)
    BY DEF TagsStay
<1>0. ConsStay(st, st2) /\ ItemsStay(st, st2) /\ use.set \in Sets
    BY UseOK DEF Grown, ConsStay, ItemsStay
<1>1. CASE use.set # s
    <2>1. st2.types[use.set] = st.types[use.set]
        BY <1>0, <1>1 DEF Grown
    <2> QED
        BY <1>0, <2>1, TagElsewhere
<1>2. CASE use.set = s
    <2> DEFINE T == st.types[s]
               X == st2.types[s]
    <2>0. KnownTag(use.types)
        BY DEF TagGuard
    <2>1. PICK i \in DOMAIN st.cons[s] :
              /\ st.cons[s][i] = FreezeBy("tag", x)
              /\ \/ Breaks # {} \/ Holds(st, use)
                 \/ \E k \in DOMAIN st.pending :
                       /\ st.pending[k].set = s /\ st.pending[k].con = i /\ Fires(st, k)
        BY <1>2 DEF TagGuard
    <2>2. i \in DOMAIN st2.cons[s] /\ st2.cons[s][i] = FreezeBy("tag", x)
        BY <1>0, <2>1 DEF ConsStay
    <2>3. PICK q \in DOMAIN st2.pending \ DOMAIN st.pending : st2.pending[q].con = i
        BY <2>1 DEF Grown
    <2>4. st2.pending[q].set = s /\ st2.pending[q].type = y
        BY <2>3 DEF Grown
    <2>5. ASSUME Fires(st2, q) PROVE TagGuard(st2, x, use)
        BY <1>2, <2>0, <2>2, <2>3, <2>4, <2>5 DEF TagGuard
    <2>6. /\ X \in SUBSET Types /\ (y = t \/ (t \in Objects /\ y = "anyobject"))
          /\ HasType(X, t) /\ \A u \in X : u \in T \/ Stands(y, u)
        BY DEF Grown, AddsTo
    <2>7. CASE y \notin Objects
        BY <2>4, <2>5, <2>7 DEF Fires
    <2>8. CASE Breaks # {}
        BY <1>2, <2>0, <2>2, <2>8 DEF TagGuard
    <2>9. CASE y \in Objects /\ Breaks = {}
        <3>1. y = t
            BY <2>6, <2>9, TypesDiffer
        <3>2. \A u \in X : u \in T \/ u = y
            BY <2>6, <2>9, TypesDiffer DEF Stands
        <3>3. "anyobject" \notin T /\ "unknown" \notin T /\ y \notin T
            BY <2>9, <3>1 DEF HasType
        <3>4. "anyobject" \notin X /\ "unknown" \notin X /\ y \in X
            BY <2>6, <2>9, <3>1, <3>2, <3>3, TypesDiffer DEF HasType
        <3>5. CASE ObjectsOf(T) = {}
            <4>1. ObjectsOf(X) = {y}
                BY <2>9, <3>2, <3>4, <3>5 DEF ObjectsOf
            <4> QED
                BY <2>4, <2>5, <4>1 DEF Fires
        <3>6. CASE Holds(st, use) /\ ObjectsOf(T) # {}
            <4>1. X # {} /\ \A u \in X : u \in T \/ u \in Objects \cup {"anyobject"}
                BY <2>9, <3>2, <3>4
            <4>2. T \in SUBSET Types
                BY FieldsOK
            <4>3. Holds(st2, use)
                BY <1>2, <2>0, <3>6, <4>1, <4>2, TagGrows
            <4> QED
                BY <1>2, <2>0, <2>2, <4>3 DEF TagGuard
        <3>7. ASSUME NEW k \in DOMAIN st.pending, st.pending[k].set = s, st.pending[k].con = i, Fires(st, k)
              PROVE  TagGuard(st2, x, use)
            <4>1. st2.pending[k] = st.pending[k] /\ k \in DOMAIN st2.pending
                BY <1>0 DEF ItemsStay
            <4>2. CASE st.pending[k].type \notin Objects
                <5>1. Fires(st2, k)
                    BY <4>1, <4>2 DEF Fires
                <5> QED
                    BY <1>2, <2>0, <2>2, <3>7, <4>1, <5>1 DEF TagGuard
            <4>3. CASE st.pending[k].type \in Objects
                <5>1. ObjectsOf(T) = {st.pending[k].type}
                    BY <3>7, <4>3 DEF Fires
                <5>2. st.cons[s][st.pending[k].con].kind = "tag"
                    BY <2>1, <3>7 DEF FreezeBy
                <5>3. t \in {st.pending[k].type, "anyobject"}
                    BY <2>9, <3>7, <4>3, <5>1, <5>2 DEF Unmixed
                <5>4. st.pending[k].type \in T
                    BY <5>1 DEF ObjectsOf
                <5> QED
                    BY <2>9, <3>1, <3>3, <5>3, <5>4, TypesDiffer
            <4> QED
                BY <4>2, <4>3
        <3> QED
            BY <2>1, <2>9, <3>5, <3>6, <3>7
    <2> QED
        BY <2>7, <2>8, <2>9
<1> QED
    BY <1>1, <1>2

\* A set that grows keeps its guards: its constraints are on the worklist.
LEMMA GrownGuards ==
    ASSUME ProgramAssumption, NEW st \in States, SetsOK(st), NEW st2, NEW s \in Sets, NEW t \in Types, NEW y,
           Grown(st, st2, s, t, y), ~HasType(st.types[s], t), Breaks = {} => Unmixed(st, s, t)
    PROVE  GuardsKept(st, st2) /\ CodeStays(st, st2)
<1>1. ConsStay(st, st2) /\ ItemsStay(st, st2)
    BY DEF Grown, ConsStay, ItemsStay
<1>2. Announced(st, st2)
    BY DEF Grown, Announced
<1>3. SitesStay(st, st2)
    BY DEF Grown, SitesStay
<1>4. TagsStay(st, st2)
    BY GrownTags
<1> QED
    BY <1>1, <1>2, <1>3, <1>4, GuardsStay DEF Grown, CodeStays

\* Where no set changes, no tag does.
LEMMA TagsElsewhere ==
    ASSUME NEW st, NEW st2, ConsStay(st, st2), ItemsStay(st, st2), st2.types = st.types
    PROVE  TagsStay(st, st2)
    BY TagElsewhere DEF TagsStay

\* A barrier keeps every guard but those it has recompiled.
LEMMA BarrierGuards ==
    ASSUME ProgramAssumption, NEW st, NEW r, NEW t, NEW st2, BarrierAt(st, st2, r, t)
    PROVE  GuardsKept(st, st2) /\ CodeStays(st, st2)
<1>1. /\ st2.types = st.types /\ st2.cons = st.cons /\ st2.pending = st.pending
      /\ st2.code = st.code /\ st.recompiles \subseteq st2.recompiles
      /\ \A z \in Reads : z # r => st2.barriers[z] = st.barriers[z]
      /\ st.barriers[r] = <<>> => Reached(st, Observed[r].script) \subseteq st2.recompiles
    BY DEF BarrierAt, Barred
<1>2. ConsStay(st, st2) /\ ItemsStay(st, st2) /\ Announced(st, st2) /\ SitesStay(st, st2)
    BY <1>1 DEF ConsStay, ItemsStay, Announced, SitesStay
<1>3. TagsStay(st, st2)
    BY <1>1, <1>2, TagsElsewhere
<1> QED
    BY <1>1, <1>2, <1>3, GuardsStay DEF CodeStays

\* A new constraint keeps every guard.
LEMMA AddedGuards ==
    ASSUME ProgramAssumption, NEW st, NEW x \in Sets \cup Scripts, NEW c, NEW E, NEW st2,
           Added(st, st2, x, c, E)
    PROVE  ConsStay(st, st2) /\ ItemsStay(st, st2) /\ GuardsKept(st, st2) /\ CodeStays(st, st2)
<1>1. ConsStay(st, st2)
    BY DEF Added, ConsStay
<1>2. ItemsStay(st, st2) /\ Announced(st, st2) /\ SitesStay(st, st2) /\ CodeStays(st, st2)
    BY DEF Added, ItemsStay, Announced, SitesStay, CodeStays
<1>3. TagsStay(st, st2)
    BY <1>1, <1>2, TagsElsewhere DEF Added
<1> QED
    BY <1>1, <1>2, <1>3, GuardsStay

\* When a read's barriers are pruned or broken, tags are lost only in the
\* reads of constructors.
LEMMA ExtendedTags ==
    ASSUME ProgramAssumption, NEW st \in States, NEW st2 \in States, NEW r \in Sets, Extended(st, st2, r),
           st.pending = <<>>,
           Breaks # {} \/ st2.types = st.types \/ OnlyObjects(st, st2, r)
    PROVE  TagsStay(st, st2)
<1>0. ConsStay(st, st2) /\ ItemsStay(st, st2)
    BY DEF Extended, ConsStay, ItemsStay
<1> SUFFICES ASSUME NEW x \in Scripts, NEW use \in Uses, use.kind = "tag", TagGuard(st, x, use)
             PROVE  TagGuard(st2, x, use)
    BY DEF TagsStay
<1>1. use.set \in Sets
    BY UseOK
<1>2. CASE st2.types[use.set] = st.types[use.set]
    BY <1>0, <1>2, TagElsewhere
<1>3. CASE st2.types[use.set] # st.types[use.set]
    <2>1. use.set = r
        BY <1>1, <1>3 DEF Extended
    <2>2. KnownTag(use.types)
        BY DEF TagGuard
    <2>3. PICK i \in DOMAIN st.cons[r] :
              st.cons[r][i] = FreezeBy("tag", x) /\ (Breaks # {} \/ Holds(st, use))
        BY <2>1 DEF TagGuard
    <2>4. i \in DOMAIN st2.cons[r] /\ st2.cons[r][i] = FreezeBy("tag", x)
        BY <1>0, <2>3 DEF ConsStay
    <2>5. CASE Breaks # {}
        BY <2>1, <2>2, <2>4, <2>5 DEF TagGuard
    <2>6. CASE OnlyObjects(st, st2, r) /\ Holds(st, use)
        <3>1. /\ ObjectsOf(st.types[r]) # {}
              /\ \A u \in st2.types[r] : u \in st.types[r] \/ u \in Objects \cup {"anyobject"}
            BY <1>3, <2>1, <2>6 DEF OnlyObjects
        <3>2. st.types[r] \in SUBSET Types
            BY FieldsOK
        <3>3. st2.types[r] # {}
            <4>1. PICK b \in st.types[r] : b \in Types
                BY <3>1, <3>2 DEF ObjectsOf
            <4>2. HasType(st2.types[r], b)
                BY <4>1 DEF Extended, HasType
            <4> QED
                BY <4>2 DEF HasType
        <3>4. Holds(st2, use)
            BY <2>1, <2>2, <2>6, <3>1, <3>2, <3>3, TagGrows
        <3> QED
            BY <2>1, <2>2, <2>4, <3>4 DEF TagGuard
    <2> QED
        BY <1>3, <2>1, <2>3, <2>5, <2>6
<1> QED
    BY <1>2, <1>3

\* The loops over the barriers keep every guard, but for tags when the reads of
\* constructors are broken.
LEMMA ExtendedGuards ==
    ASSUME ProgramAssumption, NEW st \in States, NEW st2 \in States, NEW r \in Reads, Extended(st, st2, r),
           st.pending = <<>>, st.barriers[r] = <<>> => st2.barriers[r] = <<>>,
           Breaks # {} \/ st2.types = st.types \/ OnlyObjects(st, st2, r)
    PROVE  ConsStay(st, st2) /\ ItemsStay(st, st2) /\ GuardsKept(st, st2) /\ CodeStays(st, st2)
<1>0. r \in Sets
    BY ObservedOK
<1>1. ConsStay(st, st2) /\ ItemsStay(st, st2) /\ SitesStay(st, st2) /\ CodeStays(st, st2)
    BY DEF Extended, ConsStay, ItemsStay, SitesStay, CodeStays
<1>2. Announced(st, st2)
    BY DEF Extended, Announced
<1>3. TagsStay(st, st2)
    BY <1>0, ExtendedTags
<1> QED
    BY <1>1, <1>2, <1>3, GuardsStay

-----------------------------------------------------------------------------
(* A constraint is handed a type: it fires, or what it guarded is unharmed. *)

\* The constraint i of s asks for x to be recompiled when it is handed t.
Alarm(st, s, i, t, x) ==
    \/ st.cons[s][i] = FreezeBy("freeze", x)
    \/ st.cons[s][i] = FreezeBy("tag", x) /\ ~TagKept(st, s, t)

\* An item is taken: its constraint is about to hear of it, or nothing guarded
\* needed the item.
LEMMA TakenGuards ==
    ASSUME ProgramAssumption, NEW st, Good(st), st.pending # <<>>, NEW x \in Scripts, NEW use \in Uses,
           Guarded(st, x, use), NEW s, NEW i, NEW t,
           s = Take(st.pending).item.set, i = Take(st.pending).item.con,
           t = Take(st.pending).item.type
    PROVE  Guarded(Taken(st), x, use) \/ Alarm(Taken(st), s, i, t, x)
<1> DEFINE n == Len(st.pending)
           st2 == Taken(st)
<1>1. /\ Take(st.pending).item = st.pending[n] /\ st2 \in States
      /\ DOMAIN st2.pending = DOMAIN st.pending \ {n}
      /\ \A k \in DOMAIN st2.pending : st2.pending[k] = st.pending[k]
      /\ st2.types = st.types /\ st2.cons = st.cons /\ st2.barriers = st.barriers
    BY TakeOK
<1> HIDE DEF st2
<1>2. Holds(st, use) => Holds(st2, use)
    BY <1>1 DEF Holds
<1>3. CASE use.kind = "freeze"
    <2>1. PICK j \in DOMAIN st.cons[use.set] :
             /\ st.cons[use.set][j] = FreezeBy("freeze", x)
             /\ \/ Holds(st, use)
                \/ \E k \in DOMAIN st.pending : st.pending[k].set = use.set /\ st.pending[k].con = j
        BY <1>3 DEF Guarded, FreezeGuard
    <2>2. ASSUME Holds(st, use) PROVE Guarded(st2, x, use)
        BY <1>1, <1>2, <1>3, <2>1, <2>2 DEF Guarded, FreezeGuard
    <2>3. ASSUME NEW k \in DOMAIN st.pending, st.pending[k].set = use.set, st.pending[k].con = j
          PROVE  Guarded(st2, x, use) \/ Alarm(st2, s, i, t, x)
        <3>1. CASE k = n
            BY <1>1, <2>1, <2>3, <3>1 DEF Alarm
        <3>2. CASE k # n
            <4>1. k \in DOMAIN st2.pending /\ st2.pending[k] = st.pending[k]
                BY <1>1, <3>2
            <4>2. FreezeGuard(st2, x, use)
                BY <1>1, <2>1, <2>3, <4>1 DEF FreezeGuard
            <4> QED
                BY <1>3, <4>2 DEF Guarded
        <3> QED
            BY <3>1, <3>2
    <2> QED
        BY <2>1, <2>2, <2>3 DEF st2
<1>4. CASE use.kind = "tag"
    <2>0. KnownTag(use.types)
        BY <1>4 DEF Guarded, TagGuard
    <2>1. PICK j \in DOMAIN st.cons[use.set] :
              /\ st.cons[use.set][j] = FreezeBy("tag", x)
              /\ \/ Breaks # {} \/ Holds(st, use)
                 \/ \E k \in DOMAIN st.pending :
                       /\ st.pending[k].set = use.set /\ st.pending[k].con = j /\ Fires(st, k)
        BY <1>4 DEF Guarded, TagGuard
    <2>2. ASSUME Breaks # {} \/ Holds(st, use) PROVE Guarded(st2, x, use)
        BY <1>1, <1>2, <1>4, <2>0, <2>1, <2>2 DEF Guarded, TagGuard
    <2>3. ASSUME NEW k \in DOMAIN st.pending, st.pending[k].set = use.set, st.pending[k].con = j, Fires(st, k)
          PROVE  Guarded(st2, x, use) \/ Alarm(st2, s, i, t, x)
        <3>1. CASE k = n
            <4>1. s = use.set /\ i = j /\ t = st.pending[k].type
                BY <1>1, <2>3, <3>1
            <4>2. t \notin Objects \/ ObjectsOf(st2.types[s]) = {t}
                BY <1>1, <2>3, <4>1 DEF Fires
            <4>3. Cardinality({t}) = 1
                BY FS_Singleton
            <4>4. ~TagKept(st2, s, t)
                <5>1. CASE t \notin Objects
                    BY <5>1 DEF TagKept
                <5>2. CASE ObjectsOf(st2.types[s]) = {t}
                    <6>1. Cardinality(ObjectsOf(st2.types[s])) = 1
                        BY <4>3, <5>2
                    <6> QED
                        BY <6>1 DEF TagKept
                <5> QED
                    BY <4>2, <5>1, <5>2
            <4> QED
                BY <1>1, <2>1, <4>1, <4>4 DEF Alarm
        <3>2. CASE k # n
            <4>1. k \in DOMAIN st2.pending /\ st2.pending[k] = st.pending[k]
                BY <1>1, <3>2
            <4>2. Fires(st2, k)
                BY <1>1, <2>3, <4>1 DEF Fires
            <4>3. TagGuard(st2, x, use)
                BY <1>1, <2>0, <2>1, <2>3, <4>1, <4>2 DEF TagGuard
            <4> QED
                BY <1>4, <4>3 DEF Guarded
        <3> QED
            BY <3>1, <3>2
    <2> QED
        BY <2>1, <2>2, <2>3 DEF st2
<1>5. CASE use.kind = "unchecked"
    BY <1>1, <1>5 DEF Guarded, SiteGuard, Watches, HasBarrierCon, st2
<1> QED
    BY <1>3, <1>4, <1>5, UseOK

\* A constraint that fires keeps every other guard.
LEMMA FiredGuards ==
    ASSUME ProgramAssumption, NEW st \in States, NEW s \in Sets, NEW i \in DOMAIN st.cons[s],
           st.cons[s][i].kind \in {"freeze", "tag"}, NEW st2, Fired(st, st2, s, i)
    PROVE  GuardsKept(st, st2) /\ CodeStays(st, st2)
<1> SUFFICES ASSUME NEW x \in Scripts, NEW use \in Uses, HasJITCode(st, x), Guarded(st, x, use),
                    x \notin st2.recompiles
             PROVE  Guarded(st2, x, use)
    BY DEF GuardsKept, CodeStays, Fired
<1>0. use.set \in Sets /\ s \notin Scripts
    BY UseOK DEF ProgramAssumption
<1>1. st.cons[s][i].script # x
    BY DEF Fired
<1>2. \A z \in Sets \cup Scripts : \A j \in DOMAIN st.cons[z] :
         j \in DOMAIN st2.cons[z] /\ (st2.cons[z][j] = st.cons[z][j] \/ (z = s /\ j = i))
    BY DEF Fired
<1>3. ASSUME NEW kind, NEW j \in DOMAIN st.cons[use.set], st.cons[use.set][j] = FreezeBy(kind, x)
      PROVE  j \in DOMAIN st2.cons[use.set] /\ st2.cons[use.set][j] = FreezeBy(kind, x)
    <2>1. st.cons[use.set][j].script = x
        BY <1>3 DEF FreezeBy
    <2> QED
        BY <1>0, <1>1, <1>2, <1>3, <2>1
<1>4. st2.types = st.types /\ st2.barriers = st.barriers /\ st2.pending = st.pending
    BY DEF Fired
<1>5. Holds(st, use) => Holds(st2, use)
    BY <1>4 DEF Holds
<1>6. \A k : Fires(st, k) => Fires(st2, k)
    BY <1>4 DEF Fires
<1>7. CASE use.kind = "freeze"
    BY <1>3, <1>4, <1>5, <1>7 DEF Guarded, FreezeGuard
<1>8. CASE use.kind = "tag"
    BY <1>3, <1>4, <1>5, <1>6, <1>8 DEF Guarded, TagGuard
<1>9. CASE use.kind = "unchecked"
    <2> DEFINE r == use.set
               f == Observed[r].script
    <2>1. r \in Reads /\ Watches(st, x, f) /\ st.barriers[r] = <<>> /\ HasBarrierCon(st, r)
        BY <1>9 DEF Guarded, SiteGuard
    <2>2. f \in Scripts /\ Observed[r].source \in Sets
        BY <2>1, ObservedOK
    <2>3. Watches(st2, x, f)
        BY <1>0, <1>2, <2>1, <2>2 DEF Watches
    <2>4. HasBarrierCon(st2, r)
        <3>1. PICK j \in DOMAIN st.cons[Observed[r].source] :
                 st.cons[Observed[r].source][j] = [kind |-> "barrier", target |-> r]
            BY <2>1 DEF HasBarrierCon
        <3>2. ~(Observed[r].source = s /\ j = i)
            BY <3>1
        <3> QED
            BY <1>2, <2>2, <3>1, <3>2 DEF HasBarrierCon
    <2> QED
        BY <1>4, <1>9, <2>1, <2>3, <2>4 DEF Guarded, SiteGuard
<1> QED
    BY <1>7, <1>8, <1>9, UseOK

\* A constraint that is told of a change asks for the recompilation.
LEMMA AlarmHeard ==
    ASSUME NEW st, NEW st2, NEW s, NEW i, NEW t, Handed(st, st2, s, i, t), NEW x,
           Alarm(st, s, i, t, x), HasJITCode(st, x)
    PROVE  x \in st2.recompiles
<1>1. /\ st.cons[s][i].script = x /\ st.cons[s][i].fired = FALSE
      /\ st.cons[s][i].kind = "freeze" \/ (st.cons[s][i].kind = "tag" /\ ~TagKept(st, s, t))
    BY DEF Alarm, FreezeBy
<1>2. Alerted(st, st2, s, i)
    BY <1>1 DEF Handed, Kept, Passed, Stopped
<1> QED
    BY <1>1, <1>2 DEF Alerted, Fired

-----------------------------------------------------------------------------
(* The order of the worklist.                                               *)

\* A tag constraint waits for the only object of its set.
Waits(st, j) ==
    LET w == st.pending[j]
    IN /\ st.cons[w.set][w.con].kind = "tag"
       /\ w.type \in Objects /\ ObjectsOf(st.types[w.set]) = {w.type}

\* TagOrder in terms of the items that wait.
LEMMA OrderIs ==
    ASSUME NEW st
    PROVE  TagOrder(st) <=> \A j, k \in DOMAIN st.pending :
               j < k /\ Waits(st, j) => st.pending[k].type \in {st.pending[j].type, "anyobject"}
    BY DEF TagOrder, Waits

\* A shorter worklist is as well ordered.
LEMMA SameOrder ==
    ASSUME NEW st, NEW st2, TagOrder(st), DOMAIN st2.pending \subseteq DOMAIN st.pending,
           \A k \in DOMAIN st2.pending : st2.pending[k] = st.pending[k],
           \A k \in DOMAIN st2.pending : Waits(st2, k) => Waits(st, k)
    PROVE  TagOrder(st2)
    BY OrderIs

\* The last item is taken: what its constraint adds mixes with nothing that
\* waits.
LEMMA TakenOrder ==
    ASSUME ProgramAssumption, NEW st, Good(st), st.pending # <<>>, TagOrder(st)
    PROVE  /\ TagOrder(Taken(st))
           /\ \A z \in Sets : Unmixed(Taken(st), z, Take(st.pending).item.type)
<1> DEFINE n == Len(st.pending)
           st2 == Taken(st)
<1>1. /\ Take(st.pending).item = st.pending[n] /\ n \in DOMAIN st.pending
      /\ DOMAIN st2.pending = DOMAIN st.pending \ {n}
      /\ \A k \in DOMAIN st2.pending : st2.pending[k] = st.pending[k]
      /\ st2.types = st.types /\ st2.cons = st.cons
    BY TakeOK
<1> HIDE DEF st2
<1>2. \A k \in DOMAIN st2.pending : Waits(st2, k) => Waits(st, k)
    BY <1>1 DEF Waits
<1>3. TagOrder(st2)
    BY <1>1, <1>2, SameOrder
<1>4. \A k \in DOMAIN st2.pending : k < n
    <2>1. st.pending \in Seq(Items)
        BY FieldsOK DEF Good
    <2>2. DOMAIN st.pending = 1 .. n /\ n \in Nat
        BY <2>1
    <2> QED
        BY <1>1, <2>2
<1>5. ASSUME NEW z \in Sets PROVE Unmixed(st2, z, st.pending[n].type)
    <2> SUFFICES ASSUME NEW k \in DOMAIN st2.pending, st2.pending[k].set = z, Waits(st2, k)
                 PROVE  st.pending[n].type \in {st2.pending[k].type, "anyobject"}
        BY DEF Unmixed, Waits
    <2>1. k \in DOMAIN st.pending /\ Waits(st, k) /\ st2.pending[k] = st.pending[k] /\ k < n
        BY <1>1, <1>2, <1>4
    <2> QED
        BY <1>1, <2>1, OrderIs
<1> QED
    BY <1>1, <1>3, <1>5 DEF st2

\* The items of a set that grows come last, and the worklist stays ordered.
LEMMA GrownOrder ==
    ASSUME ProgramAssumption, NEW st, Good(st), NEW st2, Good(st2), NEW s \in Sets, NEW t \in Types, NEW y,
           Grown(st, st2, s, t, y), TagOrder(st), \A z \in Sets : Unmixed(st, z, t)
    PROVE  TagOrder(st2)
<1>0. st \in States /\ st2 \in States /\ SetsOK(st2) /\ ItemsOK(st)
    BY DEF Good
<1>1. /\ st2.cons = st.cons
      /\ \A k \in DOMAIN st.pending : k \in DOMAIN st2.pending /\ st2.pending[k] = st.pending[k]
      /\ \A k \in DOMAIN st2.pending \ DOMAIN st.pending : st2.pending[k].type = y
      /\ \A z \in Sets : z # s => st2.types[z] = st.types[z]
      /\ y = t \/ y = "anyobject"
    BY DEF Grown, AddsTo
<1>2. \A j \in DOMAIN st2.pending \ DOMAIN st.pending : \A k \in DOMAIN st2.pending :
          j < k => k \notin DOMAIN st.pending
    <2>1. st.pending \in Seq(Items) /\ st2.pending \in Seq(Items)
        BY <1>0, FieldsOK
    <2>2. /\ DOMAIN st.pending = 1 .. Len(st.pending) /\ Len(st.pending) \in Nat
          /\ DOMAIN st2.pending = 1 .. Len(st2.pending) /\ Len(st2.pending) \in Nat
        BY <2>1
    <2> QED
        BY <2>2
<1>3. ASSUME NEW j \in DOMAIN st.pending, Waits(st2, j) PROVE Waits(st, j)
    <2> DEFINE w == st.pending[j]
    <2>1. st2.pending[j] = w /\ st.pending[j] \in Items
        BY <1>0, <1>1, FieldsOK, SeqOK
    <2>2. w.set \in Sets /\ w.type \in Types
        BY <2>1 DEF Items
    <2>3. w.type \in Objects /\ ObjectsOf(st2.types[w.set]) = {w.type} /\ st.cons[w.set][w.con].kind = "tag"
        BY <1>1, <1>3, <2>1 DEF Waits
    <2>4. CASE w.set # s
        BY <1>1, <2>1, <2>2, <2>3, <2>4 DEF Waits
    <2>5. CASE w.set = s
        <3> DEFINE T == st.types[s]
                   X == st2.types[s]
        <3>1. HasType(T, w.type)
            BY <1>0, <2>5 DEF ItemsOK
        <3>2. T \in SUBSET Types /\ SetOK(X) /\ \A u \in Types : HasType(T, u) => HasType(X, u)
            BY <1>0, FieldsOK DEF SetsOK, Grown, AddsTo
        <3> HIDE DEF T, X
        <3>3. "anyobject" \notin X /\ "unknown" \notin X
            <4>1. ObjectsOf(X) = {w.type} /\ w.type \in X /\ w.type # "unknown"
                BY <2>3, <2>5, TypesDiffer DEF ObjectsOf, X
            <4> QED
                BY <3>2, <4>1 DEF SetOK
        <3>4. \A u \in T : u \in X
            BY <3>2, <3>3, TypesDiffer DEF HasType
        <3>5. w.type \in T
            BY <3>1, <3>3, <3>4 DEF HasType
        <3>6. ObjectsOf(T) = {w.type}
            BY <2>3, <2>5, <3>4, <3>5 DEF ObjectsOf, X
        <3> QED
            BY <2>3, <2>5, <3>6 DEF Waits, T
    <2> QED
        BY <2>4, <2>5
<1>4. ASSUME NEW j \in DOMAIN st2.pending, NEW k \in DOMAIN st2.pending, j < k, Waits(st2, j)
      PROVE  st2.pending[k].type \in {st2.pending[j].type, "anyobject"}
    <2>1. CASE j \in DOMAIN st.pending /\ k \in DOMAIN st.pending
        <3>1. Waits(st, j)
            BY <1>3, <1>4, <2>1
        <3>2. st.pending[k].type \in {st.pending[j].type, "anyobject"}
            BY <1>4, <2>1, <3>1, OrderIs
        <3> QED
            BY <1>1, <2>1, <3>2
    <2>2. CASE j \in DOMAIN st.pending /\ k \notin DOMAIN st.pending
        <3>1. Waits(st, j)
            BY <1>3, <1>4, <2>2
        <3>2. st.pending[j].set \in Sets
            <4>1. st.pending[j] \in Items
                BY <1>0, <2>2, FieldsOK, SeqOK
            <4> QED
                BY <4>1 DEF Items
        <3>3. t \in {st.pending[j].type, "anyobject"}
            BY <2>2, <3>1, <3>2 DEF Unmixed, Waits
        <3> QED
            BY <1>1, <2>2, <3>3
    <2>3. CASE j \notin DOMAIN st.pending
        <3>1. k \notin DOMAIN st.pending
            BY <1>2, <1>4, <2>3
        <3> QED
            BY <1>1, <2>3, <3>1
    <2> QED
        BY <2>1, <2>2, <2>3
<1> QED
    BY <1>4, OrderIs

\* Whatever newType does keeps the worklist ordered.
LEMMA HandedOrder ==
    ASSUME ProgramAssumption, NEW st, Good(st), NEW s \in Sets, NEW i \in DOMAIN st.cons[s],
           NEW t \in Types, NEW st2, Handed(st, st2, s, i, t), Good(st2),
           TagOrder(st), \A z \in Sets : Unmixed(st, z, t)
    PROVE  TagOrder(st2)
<1>1. CASE Kept(st, st2, s, i, t)
    BY <1>1 DEF Kept
<1>2. CASE Passed(st, st2, s, i, t)
    <2>1. PICK y \in Types : Grown(st, st2, st.cons[s][i].target, t, y)
        BY <1>2 DEF Passed
    <2> QED
        BY <1>2, <2>1, GrownOrder DEF Passed
<1>3. CASE Stopped(st, st2, s, i, t)
    <2>1. st2.types = st.types /\ st2.cons = st.cons /\ st2.pending = st.pending
        BY <1>3 DEF Stopped, BarrierAt, Barred
    <2> QED
        BY <2>1, SameOrder DEF Waits
<1>4. CASE Alerted(st, st2, s, i)
    <2>1. /\ st2.types = st.types /\ st2.pending = st.pending
          /\ \A z \in Sets : \A j \in DOMAIN st.cons[z] : st2.cons[z][j].kind = st.cons[z][j].kind
        BY <1>4 DEF Alerted, Fired
    <2>2. \A k \in DOMAIN st.pending : st.pending[k].set \in Sets /\ st.pending[k].con \in DOMAIN st.cons[st.pending[k].set]
        <3>1. \A k \in DOMAIN st.pending : st.pending[k] \in Items
            BY FieldsOK, SeqOK DEF Good
        <3> QED
            BY <3>1 DEF Items, Good, ItemsOK
    <2>3. \A k \in DOMAIN st.pending : Waits(st2, k) => Waits(st, k)
        BY <2>1, <2>2 DEF Waits
    <2> QED
        BY <2>1, <2>3, SameOrder
<1> QED
    BY <1>1, <1>2, <1>3, <1>4 DEF Handed

-----------------------------------------------------------------------------
(* The order of what an activation has to do.                               *)

\* What is left to do is ordered as it was.
LEMMA TailOK ==
    ASSUME NEW p \in Seq(Ops), p # <<>>
    PROVE  /\ InOrder(p) => InOrder(Tail(p))
           /\ NoChanges(p) => NoChanges(Tail(p))
           /\ InOrder(p) /\ Head(p).op \in UseKinds => NoChanges(Tail(p))
           /\ \A o : Contains(Tail(p), o) => Contains(p, o)
           /\ \A o : Contains(p, o) /\ Head(p) # o => Contains(Tail(p), o)
           /\ Contains(p, Head(p))
<1> DEFINE q == Tail(p)
<1>1. /\ Head(p) = p[1] /\ 1 \in DOMAIN p /\ q \in Seq(Ops) /\ Len(q) = Len(p) - 1
      /\ \A k \in DOMAIN q : k + 1 \in DOMAIN p /\ q[k] = p[k + 1]
    BY HeadTail
<1>2. DOMAIN p = 1 .. Len(p) /\ DOMAIN q = 1 .. Len(q) /\ Len(p) \in Nat /\ Len(q) \in Nat
    BY <1>1
<1> HIDE DEF q
<1>3. InOrder(p) => InOrder(q)
    <2> SUFFICES ASSUME InOrder(p), NEW j \in DOMAIN q, NEW k \in DOMAIN q, j < k, q[j].op \in UseKinds
                 PROVE  q[k].op \notin ChangeKinds
        BY DEF InOrder
    <2>1. j + 1 \in DOMAIN p /\ k + 1 \in DOMAIN p /\ j + 1 < k + 1 /\ q[j] = p[j + 1] /\ q[k] = p[k + 1]
        BY <1>1, <1>2
    <2> QED
        BY <2>1 DEF InOrder
<1>4. NoChanges(p) => NoChanges(q)
    BY <1>1 DEF NoChanges
<1>5. InOrder(p) /\ Head(p).op \in UseKinds => NoChanges(q)
    <2> SUFFICES ASSUME InOrder(p), p[1].op \in UseKinds, NEW k \in DOMAIN q
                 PROVE  q[k].op \notin ChangeKinds
        BY <1>1 DEF NoChanges
    <2>1. k + 1 \in DOMAIN p /\ 1 < k + 1 /\ q[k] = p[k + 1] /\ 1 \in DOMAIN p
        BY <1>1, <1>2
    <2> QED
        BY <2>1 DEF InOrder
<1>6. \A o : Contains(q, o) => Contains(p, o)
    BY <1>1, <1>2 DEF Contains
<1>7. \A o : Contains(p, o) /\ Head(p) # o => Contains(q, o)
    <2> SUFFICES ASSUME NEW o, NEW k \in 1 .. Len(p), p[k] = o, p[1] # o
                 PROVE  \E j \in 1 .. Len(q) : q[j] = o
        BY <1>1 DEF Contains
    <2>1. k - 1 \in 1 .. Len(q) /\ (k - 1) + 1 = k
        BY <1>1, <1>2
    <2>2. q[k - 1] = p[(k - 1) + 1]
        BY <1>1, <1>2, <2>1
    <2> QED
        BY <2>1, <2>2
<1>8. Contains(p, Head(p))
    BY <1>1, <1>2 DEF Contains
<1> QED
    BY <1>3, <1>4, <1>5, <1>6, <1>7, <1>8 DEF q

\* What is in a concatenation.
LEMMA ConcatHas ==
    ASSUME NEW p \in Seq(Ops), NEW q \in Seq(Ops)
    PROVE  \A o : Contains(p \o q, o) <=> Contains(p, o) \/ Contains(q, o)
<1> DEFINE e == p \o q
<1>1. /\ e \in Seq(Ops) /\ Len(e) = Len(p) + Len(q) /\ DOMAIN e = 1 .. Len(p) + Len(q)
      /\ \A k \in DOMAIN p : k \in DOMAIN e /\ e[k] = p[k]
      /\ \A k \in DOMAIN q : Len(p) + k \in DOMAIN e /\ e[Len(p) + k] = q[k]
      /\ \A k \in DOMAIN e \ DOMAIN p : k - Len(p) \in DOMAIN q /\ e[k] = q[k - Len(p)]
    BY ConcatOK
<1>2. DOMAIN p = 1 .. Len(p) /\ DOMAIN q = 1 .. Len(q) /\ DOMAIN e = 1 .. Len(e)
    BY <1>1
<1> HIDE DEF e
<1>3. \A o : Contains(e, o) <=> Contains(p, o) \/ Contains(q, o)
    <2> SUFFICES ASSUME NEW o PROVE Contains(e, o) <=> Contains(p, o) \/ Contains(q, o)
        OBVIOUS
    <2>1. Contains(e, o) <=> \E k \in DOMAIN e : e[k] = o
        BY <1>2 DEF Contains
    <2>2. Contains(p, o) <=> \E k \in DOMAIN p : p[k] = o
        BY <1>2 DEF Contains
    <2>3. Contains(q, o) <=> \E k \in DOMAIN q : q[k] = o
        BY <1>2 DEF Contains
    <2> QED
        BY <1>1, <2>1, <2>2, <2>3
<1> QED
    BY <1>3 DEF e

\* Questions may be put behind anything.
LEMMA ConcatOrder ==
    ASSUME NEW p \in Seq(Ops), NEW q \in Seq(Ops), NoChanges(q)
    PROVE  /\ NoChanges(p) => NoChanges(p \o q)
           /\ InOrder(p) => InOrder(p \o q)
<1> DEFINE e == p \o q
<1>1. /\ e \in Seq(Ops) /\ Len(e) = Len(p) + Len(q) /\ DOMAIN e = 1 .. Len(p) + Len(q)
      /\ \A k \in DOMAIN p : k \in DOMAIN e /\ e[k] = p[k]
      /\ \A k \in DOMAIN e \ DOMAIN p : k - Len(p) \in DOMAIN q /\ e[k] = q[k - Len(p)]
    BY ConcatOK
<1>2. DOMAIN p = 1 .. Len(p) /\ Len(p) \in Nat
    OBVIOUS
<1> HIDE DEF e
<1>3. NoChanges(p) => NoChanges(e)
    BY <1>1 DEF NoChanges
<1>4. InOrder(p) => InOrder(e)
    <2> SUFFICES ASSUME InOrder(p), NEW j \in DOMAIN e, NEW k \in DOMAIN e, j < k, e[j].op \in UseKinds
                 PROVE  e[k].op \notin ChangeKinds
        BY DEF InOrder
    <2>1. CASE k \notin DOMAIN p
        BY <1>1, <2>1 DEF NoChanges
    <2>2. CASE k \in DOMAIN p
        <3>1. j \in DOMAIN p
            BY <1>1, <1>2, <2>2
        <3> QED
            BY <1>1, <2>2, <3>1 DEF InOrder
    <2> QED
        BY <2>1, <2>2
<1> QED
    BY <1>3, <1>4 DEF e

\* Operations that are all of one kind are in order.
LEMMA NoUsesInOrder ==
    ASSUME NEW p, NoUses(p) \/ NoChanges(p)
    PROVE  InOrder(p)
    BY DEF NoUses, NoChanges, InOrder

-----------------------------------------------------------------------------
(* The barrier constraints of what is analysed, and of the reads compiled.  *)

\* What is analysed in p is analysed with all its barrier constraints.
Whole(p) ==
    \A x \in Scripts : Contains(p, [op |-> "ran", script |-> x]) =>
        \A r \in Reads : Contains(Analysis[x], BarrierOp(r)) => Contains(p, BarrierOp(r))

\* The fields of a BarrierOp.
LEMMA BarrierOpIs ==
    ASSUME NEW r
    PROVE  BarrierOp(r).op = "constraint" /\ BarrierOp(r).set = Observed[r].source
           /\ BarrierOp(r).con = [kind |-> "barrier", target |-> r]
    BY DEF BarrierOp

\* Two whole analyses.
LEMMA WholeConcat ==
    ASSUME NEW p \in Seq(Ops), NEW q \in Seq(Ops), Whole(p), Whole(q)
    PROVE  Whole(p \o q)
    BY ConcatHas DEF Whole

\* Where nothing is analysed, the analyses are whole.
LEMMA WholeNoRan ==
    ASSUME NEW p \in Seq(Ops), \A k \in DOMAIN p : p[k].op # "ran"
    PROVE  Whole(p) /\ \A x : ~Contains(p, [op |-> "ran", script |-> x])
    BY DEF Whole, Contains

\* More to do, analysed with all its constraints, keeps Installed.
LEMMA InstalledConcat ==
    ASSUME NEW st, NEW done, NEW p \in Seq(Ops), NEW q \in Seq(Ops), Whole(p), InstalledIn(st, done, q)
    PROVE  InstalledIn(st, done, p \o q)
<1> DEFINE e == p \o q
<1>1. \A o : Contains(e, o) <=> Contains(p, o) \/ Contains(q, o)
    BY ConcatHas
<1> HIDE DEF e
<1>2. InstalledIn(st, done, e)
    BY <1>1 DEF InstalledIn, Whole, Analysed
<1> QED
    BY <1>2 DEF e

\* An activation begins with all the constraints it needs in hand.
LEMMA InstalledEntered ==
    ASSUME NEW st, NEW done, NEW p \in Seq(Ops), Whole(p), InstalledIn(st, done, <<>>)
    PROVE  InstalledIn(st, done, p)
<1>1. \A o : ~Contains(<<>>, o)
    BY DEF Contains
<1> QED
    BY <1>1 DEF InstalledIn, Whole, Analysed

\* Operations told apart by their kind.
LEMMA OpsOfKind ==
    ASSUME ProgramAssumption, NEW o \in Ops
    PROVE  /\ o.op = "ran" => o = [op |-> "ran", script |-> o.script] /\ o.script \in Scripts
           /\ o.op \in {"break", "type"} => \A r : o # BarrierOp(r)
<1>1. o.op = "ran" => o \in [op : {"ran", "ensured"}, script : Scripts]
    BY DEF Ops, AnalysisOps, CompileOps
<1>2. \A r : BarrierOp(r).op = "constraint"
    BY BarrierOpIs
<1> QED
    BY <1>1, <1>2

\* A script is analysed when its operation is done as it was when that was to
\* be done.
LEMMA AnalysedTail ==
    ASSUME ProgramAssumption, NEW p \in Seq(Ops), p # <<>>, NEW done, NEW done2,
           IF Head(p).op = "ran" THEN done2 = done \cup {Head(p).script} ELSE done2 = done
    PROVE  \A x : Analysed(done, p, x) <=> Analysed(done2, Tail(p), x)
<1> SUFFICES ASSUME NEW x PROVE Analysed(done, p, x) <=> Analysed(done2, Tail(p), x)
    OBVIOUS
<1> DEFINE o == [op |-> "ran", script |-> x]
<1>1. Contains(Tail(p), o) => Contains(p, o)
    BY TailOK
<1>2. Contains(p, o) /\ Head(p) # o => Contains(Tail(p), o)
    BY TailOK
<1>3. Contains(p, Head(p)) /\ Head(p) \in Ops
    BY TailOK, HeadTail
<1>4. Head(p).op = "ran" => Head(p) = [op |-> "ran", script |-> Head(p).script]
    BY <1>3, OpsOfKind
<1>5. Head(p) = o => Head(p).op = "ran" /\ Head(p).script = x
    OBVIOUS
<1> QED
    BY <1>1, <1>2, <1>3, <1>4, <1>5 DEF Analysed

\* The barrier constraint that is next is installed.
LEMMA InstalledTail ==
    ASSUME ProgramAssumption, NEW p \in Seq(Ops), p # <<>>, NEW st, NEW st2, NEW done, NEW done2,
           IF Head(p).op = "ran" THEN done2 = done \cup {Head(p).script} ELSE done2 = done,
           \A r \in Reads : HasBarrierCon(st, r) \/ Head(p) = BarrierOp(r) => HasBarrierCon(st2, r),
           InstalledIn(st, done, p)
    PROVE  InstalledIn(st2, done2, Tail(p))
<1> SUFFICES ASSUME NEW x \in Scripts, Analysed(done2, Tail(p), x), NEW r \in Reads,
                    Contains(Analysis[x], BarrierOp(r))
             PROVE  HasBarrierCon(st2, r) \/ Contains(Tail(p), BarrierOp(r))
    BY DEF InstalledIn
<1>1. Analysed(done, p, x)
    BY AnalysedTail
<1>2. HasBarrierCon(st, r) \/ Contains(p, BarrierOp(r))
    BY <1>1 DEF InstalledIn
<1>3. Contains(p, BarrierOp(r)) /\ Head(p) # BarrierOp(r) => Contains(Tail(p), BarrierOp(r))
    BY TailOK
<1> QED
    BY <1>2, <1>3

\* What is left to do asks about reads it may ask about.
LEMMA SitesTail ==
    ASSUME ProgramAssumption, NEW p \in Seq(Ops), p # <<>>, NEW st, NEW st2, NEW done, NEW done2, NEW x,
           IF Head(p).op = "ran" THEN done2 = done \cup {Head(p).script} ELSE done2 = done,
           \A f \in Scripts : Watches(st, x, f) => Watches(st2, x, f),
           SitesIn(st, done, p, x)
    PROVE  SitesIn(st2, done2, Tail(p), x)
<1> SUFFICES ASSUME NEW k \in DOMAIN Tail(p), Tail(p)[k].op = "site", NEW f, f = Observed[Tail(p)[k].set].script
            
             PROVE  /\ Analysed(done2, Tail(p), f) /\ Contains(Analysis[f], BarrierOp(Tail(p)[k].set))
                    /\ Watches(st2, x, f)
    BY DEF SitesIn
<1>1. k + 1 \in DOMAIN p /\ Tail(p)[k] = p[k + 1]
    BY HeadTail
<1>2. Analysed(done, p, f) /\ Contains(Analysis[f], BarrierOp(p[k + 1].set)) /\ Watches(st, x, f)
    BY <1>1 DEF SitesIn
<1>3. f \in Scripts
    <2>1. p[k + 1] \in Ops
        BY <1>1
    <2>2. p[k + 1].set \in Reads
        BY <1>1, <2>1, OpOK
    <2> QED
        BY <1>1, <2>2, ObservedOK
<1>4. Analysed(done2, Tail(p), f)
    BY <1>2, AnalysedTail
<1> QED
    BY <1>1, <1>2, <1>3, <1>4

\* The same for two sequences.
LEMMA SitesConcat ==
    ASSUME NEW p \in Seq(Ops), NEW q \in Seq(Ops), NEW st, NEW done, NEW x,
           SitesIn(st, done, p, x), SitesIn(st, done, q, x)
    PROVE  SitesIn(st, done, p \o q, x)
<1> DEFINE e == p \o q
<1>1. /\ e \in Seq(Ops)
      /\ \A k \in DOMAIN p : k \in DOMAIN e /\ e[k] = p[k]
      /\ \A k \in DOMAIN e \ DOMAIN p : k - Len(p) \in DOMAIN q /\ e[k] = q[k - Len(p)]
    BY ConcatOK
<1>2. \A o : Contains(e, o) <=> Contains(p, o) \/ Contains(q, o)
    BY ConcatHas
<1> HIDE DEF e
<1>3. \A f : Analysed(done, p, f) \/ Analysed(done, q, f) => Analysed(done, e, f)
    BY <1>2 DEF Analysed
<1>4. SitesIn(st, done, e, x)
    <2> SUFFICES ASSUME NEW k \in DOMAIN e, e[k].op = "site", NEW f, f = Observed[e[k].set].script
                 PROVE  /\ Analysed(done, e, f) /\ Contains(Analysis[f], BarrierOp(e[k].set))
                        /\ Watches(st, x, f)
        BY DEF SitesIn
    <2>1. CASE k \in DOMAIN p
        BY <1>1, <1>3, <2>1 DEF SitesIn
    <2>2. CASE k \notin DOMAIN p
        BY <1>1, <1>3, <2>2 DEF SitesIn
    <2> QED
        BY <2>1, <2>2
<1> QED
    BY <1>4 DEF e

\* And for one that asks about no reads.
LEMMA NoSites ==
    ASSUME NEW p, \A k \in DOMAIN p : p[k].op # "site", NEW st, NEW done, NEW x
    PROVE  SitesIn(st, done, p, x)
    BY DEF SitesIn

-----------------------------------------------------------------------------
(* ensureRanInference and the questions of a compiler.                      *)

\* ensureRanInference analyses the script as a whole, and asks nothing.
LEMMA EnsureWhole ==
    ASSUME ProgramAssumption, NEW x \in Scripts
    PROVE  /\ Whole(EnsureRanInference(x)) /\ NoUses(EnsureRanInference(x))
           /\ Analysed(ran, EnsureRanInference(x), x)
           /\ x \in ran => NoChanges(EnsureRanInference(x))
<1> DEFINE h == <<[op |-> "ran", script |-> x]>>
           a == Analysis[x]
           p == IF x \in ran THEN <<>> ELSE h \o a
           q == <<[op |-> "ensured", script |-> x]>>
<1>1. h \in Seq(Ops) /\ a \in Seq(Ops) /\ p \in Seq(Ops) /\ q \in Seq(Ops)
    <2>1. a \in Seq(AnalysisOps)
        BY DEF ProgramAssumption
    <2>2. AnalysisOps \subseteq Ops /\ [op |-> "ran", script |-> x] \in Ops
          /\ [op |-> "ensured", script |-> x] \in Ops
        BY DEF Ops
    <2>3. a \in Seq(Ops) /\ h \in Seq(Ops) /\ q \in Seq(Ops) /\ <<>> \in Seq(Ops)
        BY <2>1, <2>2
    <2> HIDE DEF a, h, q
    <2>4. h \o a \in Seq(Ops)
        BY <2>3, ConcatOK
    <2> QED
        BY <2>3, <2>4
<1>2. EnsureRanInference(x) = p \o q
    BY DEF EnsureRanInference
<1>3. \A y : Contains(h, [op |-> "ran", script |-> y]) => y = x
    <2> SUFFICES ASSUME NEW y, NEW k \in 1 .. Len(h), h[k] = [op |-> "ran", script |-> y]
                 PROVE  y = x
        BY DEF Contains
    <2>1. h[k] = [op |-> "ran", script |-> x]
        OBVIOUS
    <2>2. h[k].script = y /\ h[k].script = x
        BY <2>1
    <2> QED
        BY <2>2
<1>4. Contains(h, [op |-> "ran", script |-> x])
    BY DEF Contains
<1>5. \A y : ~Contains(a, [op |-> "ran", script |-> y])
    <2>1. a \in Seq(AnalysisOps)
        BY DEF ProgramAssumption
    <2>2. \A o \in AnalysisOps : o.op # "ran"
        BY DEF AnalysisOps
    <2> HIDE DEF a
    <2>3. \A k \in 1 .. Len(a) : a[k].op # "ran"
        BY <2>1, <2>2
    <2> QED
        BY <2>3 DEF Contains
<1>6. Whole(q) /\ \A y : ~Contains(q, [op |-> "ran", script |-> y])
    <2>1. \A k \in DOMAIN q : q[k].op # "ran"
        OBVIOUS
    <2> HIDE DEF q
    <2> QED
        BY <1>1, <2>1, WholeNoRan
<1>7. \A o : x \notin ran => (Contains(p, o) <=> Contains(h, o) \/ Contains(a, o))
    <2> HIDE DEF h, a
    <2> QED
        BY <1>1, ConcatHas
<1>8. \A o : x \in ran => ~Contains(p, o)
    BY DEF Contains
<1>9. x \in ran => \A k \in DOMAIN (p \o q) : (p \o q)[k].op = "ensured"
    OBVIOUS
<1> HIDE DEF h, p, q
<1>10. Whole(p)
    BY <1>3, <1>5, <1>7, <1>8 DEF Whole, a
<1>11. Whole(p \o q)
    BY <1>1, <1>6, <1>10, WholeConcat
<1>12. Analysed(ran, p \o q, x)
    <2>1. x \notin ran => Contains(p, [op |-> "ran", script |-> x])
        BY <1>4, <1>7
    <2> QED
        BY <1>1, <2>1, ConcatHas DEF Analysed
<1>13. NoUses(EnsureRanInference(x))
    BY EnsureOK DEF NoUses, UseKinds
<1>14. x \in ran => NoChanges(p \o q)
    BY <1>9 DEF NoChanges, ChangeKinds
<1> QED
    BY <1>2, <1>11, <1>12, <1>13, <1>14

\* A compiler changes no types, and asks about reads of its script.
LEMMA CompilationWhole ==
    ASSUME ProgramAssumption, NEW j \in Jits, NEW x \in Scripts
    PROVE  /\ Whole(Compilation[j][x]) /\ NoChanges(Compilation[j][x])
           /\ \A k \in DOMAIN Compilation[j][x] : Compilation[j][x][k].op = "site" =>
                 LET r == Compilation[j][x][k].set
                 IN Observed[r].script = x /\ Contains(Analysis[x], BarrierOp(r))
<1> DEFINE c == Compilation[j][x]
<1>1. c \in Seq(CompileOps) /\ c \in Seq(Ops)
    BY CompilationOK
<1>2. \A o \in CompileOps : o.op \in {"freeze", "tag", "site", "inline"}
    BY DEF CompileOps
<1>3. \A k \in DOMAIN c : c[k].op = "site" =>
         LET r == c[k].set IN Observed[r].script = x /\ Contains(Analysis[x], BarrierOp(r))
    BY DEF ProgramAssumption
<1> HIDE DEF c
<1>4. \A k \in DOMAIN c : c[k].op \in {"freeze", "tag", "site", "inline"}
    BY <1>1, <1>2
<1>5. Whole(c) /\ NoChanges(c)
    BY <1>1, <1>4, WholeNoRan DEF NoChanges, ChangeKinds
<1> QED
    BY <1>3, <1>5 DEF c

\* A script is made ready, and then compiled on behalf of y.
LEMMA ReadyOK ==
    ASSUME ProgramAssumption, NEW j \in Jits, NEW x \in Scripts, NEW st, NEW y, Watches(st, y, x),
           NEW e, e = EnsureRanInference(x) \o Compilation[j][x]
    PROVE  /\ e \in Seq(Ops) /\ Whole(e) /\ InOrder(e) /\ SitesIn(st, ran, e, y)
           /\ x \in ran => NoChanges(e)
<1> DEFINE p == EnsureRanInference(x)
           c == Compilation[j][x]
<1>1. p \in Seq(Ops) /\ c \in Seq(Ops) /\ e = p \o c
    BY EnsureOK, CompilationOK
<1>2. /\ Whole(p) /\ NoUses(p) /\ Analysed(ran, p, x) /\ (x \in ran => NoChanges(p))
      /\ \A k \in DOMAIN p : p[k].op # "site"
    <2>1. \A k \in DOMAIN p : p[k].op \in {"ran", "type", "constraint", "ensured"}
        BY EnsureOK
    <2> HIDE DEF p
    <2>2. \A k \in DOMAIN p : p[k].op # "site"
        BY <2>1
    <2> QED
        BY <2>2, EnsureWhole DEF p
<1>3. Whole(c) /\ NoChanges(c)
    BY CompilationWhole
<1>4. \A k \in DOMAIN c : c[k].op = "site" =>
         Observed[c[k].set].script = x /\ Contains(Analysis[x], BarrierOp(c[k].set))
    BY CompilationWhole
<1> HIDE DEF p, c
<1>5. e \in Seq(Ops) /\ Whole(e) /\ InOrder(e) /\ (x \in ran => NoChanges(e))
    BY <1>1, <1>2, <1>3, ConcatOK, ConcatOrder, WholeConcat, NoUsesInOrder
<1>6. SitesIn(st, ran, e, y)
    <2>1. /\ \A k \in DOMAIN p : k \in DOMAIN e /\ e[k] = p[k]
          /\ \A k \in DOMAIN e \ DOMAIN p : k - Len(p) \in DOMAIN c /\ e[k] = c[k - Len(p)]
        BY <1>1, ConcatOK
    <2>2. Analysed(ran, e, x)
        BY <1>1, <1>2, ConcatHas DEF Analysed
    <2> SUFFICES ASSUME NEW k \in DOMAIN e, e[k].op = "site", NEW f, f = Observed[e[k].set].script
                 PROVE  /\ Analysed(ran, e, f) /\ Contains(Analysis[f], BarrierOp(e[k].set))
                        /\ Watches(st, y, f)
        BY DEF SitesIn
    <2>3. k \notin DOMAIN p
        BY <1>2, <2>1
    <2>4. f = x /\ Contains(Analysis[x], BarrierOp(e[k].set))
        BY <1>4, <2>1, <2>3
    <2> QED
        BY <2>2, <2>4
<1> QED
    BY <1>5, <1>6

-----------------------------------------------------------------------------
(* What a step does to the sets leaves what code is protected by in place.  *)

Protects(st, st2) ==
    /\ CodeStays(st, st2) /\ GuardsKept(st, st2)
    /\ \A r \in Reads : HasBarrierCon(st, r) => HasBarrierCon(st2, r)
    /\ \A x : \A f \in Scripts : Watches(st, x, f) => Watches(st2, x, f)

\* What keeps constraints, guards and code protects.
LEMMA ConsProtect ==
    ASSUME ProgramAssumption, NEW st, NEW st2, ConsStay(st, st2), GuardsKept(st, st2), CodeStays(st, st2)
    PROVE  Protects(st, st2)
    BY BarrierConStays, WatchesStay DEF Protects

\* Doing nothing protects.
LEMMA SameProtects ==
    ASSUME NEW st
    PROVE  Protects(st, st)
    BY DEF Protects, CodeStays, GuardsKept

\* Two steps that protect.
LEMMA ProtectsTrans ==
    ASSUME NEW a, NEW b, NEW c, Protects(a, b), Protects(b, c)
    PROVE  Protects(a, c)
<1>1. b.code = a.code /\ c.code = b.code /\ a.recompiles \subseteq b.recompiles /\ b.recompiles \subseteq c.recompiles
    BY DEF Protects, CodeStays
<1>2. \A x : HasJITCode(a, x) => HasJITCode(b, x)
    BY <1>1 DEF HasJITCode
<1>3. GuardsKept(a, c)
    BY <1>1, <1>2 DEF Protects, GuardsKept
<1>4. CodeStays(a, c)
    BY <1>1 DEF CodeStays
<1> QED
    BY <1>3, <1>4 DEF Protects

\* addType protects.
LEMMA GrownProtects ==
    ASSUME ProgramAssumption, NEW st \in States, SetsOK(st), NEW st2, NEW s \in Sets, NEW t \in Types, NEW y,
           Grown(st, st2, s, t, y), ~HasType(st.types[s], t), Breaks = {} => Unmixed(st, s, t)
    PROVE  Protects(st, st2)
<1>1. ConsStay(st, st2)
    BY DEF Grown, ConsStay
<1> QED
    BY <1>1, GrownGuards, ConsProtect

\* A constraint that fires protects.
LEMMA FiredProtects ==
    ASSUME ProgramAssumption, NEW st \in States, NEW s \in Sets, NEW i \in DOMAIN st.cons[s],
           st.cons[s][i].kind \in {"freeze", "tag"}, NEW st2, Fired(st, st2, s, i)
    PROVE  Protects(st, st2)
<1>1. GuardsKept(st, st2) /\ CodeStays(st, st2)
    BY FiredGuards
<1>2. \A z \in Sets \cup Scripts : \A j \in DOMAIN st.cons[z] :
         j \in DOMAIN st2.cons[z] /\ (st2.cons[z][j] = st.cons[z][j] \/ (z = s /\ j = i))
    BY DEF Fired
<1>3. s \notin Scripts
    BY DEF ProgramAssumption
<1>4. \A x : \A f \in Scripts : Watches(st, x, f) => Watches(st2, x, f)
    BY <1>2, <1>3 DEF Watches
<1>5. ASSUME NEW r \in Reads, HasBarrierCon(st, r) PROVE HasBarrierCon(st2, r)
    <2>1. PICK j \in DOMAIN st.cons[Observed[r].source] :
             st.cons[Observed[r].source][j] = [kind |-> "barrier", target |-> r]
        BY <1>5 DEF HasBarrierCon
    <2>2. ~(Observed[r].source = s /\ j = i)
        BY <2>1
    <2>3. Observed[r].source \in Sets
        BY ObservedOK
    <2> QED
        BY <1>2, <2>1, <2>2, <2>3 DEF HasBarrierCon
<1> QED
    BY <1>1, <1>4, <1>5 DEF Protects

\* addTypeBarrier protects.
LEMMA BarrierProtects ==
    ASSUME ProgramAssumption, NEW st, NEW r, NEW t, NEW st2, BarrierAt(st, st2, r, t)
    PROVE  Protects(st, st2)
<1>1. ConsStay(st, st2)
    BY DEF BarrierAt, Barred, ConsStay
<1> QED
    BY <1>1, BarrierGuards, ConsProtect

\* newType protects.
LEMMA HandedProtects ==
    ASSUME ProgramAssumption, NEW st, Good(st), NEW s \in Sets, NEW i \in DOMAIN st.cons[s],
           NEW t \in Types, NEW st2, Handed(st, st2, s, i, t),
           Breaks = {} => \A z \in Sets : Unmixed(st, z, t)
    PROVE  Protects(st, st2)
<1>0. st \in States /\ SetsOK(st)
    BY DEF Good
<1>1. CASE Kept(st, st2, s, i, t)
    BY <1>1, SameProtects DEF Kept
<1>2. CASE Passed(st, st2, s, i, t)
    <2>1. PICK y \in Types : Grown(st, st2, st.cons[s][i].target, t, y)
        BY <1>2 DEF Passed
    <2> QED
        BY <1>0, <1>2, <2>1, GrownProtects DEF Passed
<1>3. CASE Stopped(st, st2, s, i, t)
    BY <1>3, BarrierProtects DEF Stopped
<1>4. CASE Alerted(st, st2, s, i)
    BY <1>0, <1>4, FiredProtects DEF Alerted
<1> QED
    BY <1>1, <1>2, <1>3, <1>4 DEF Handed

\* A new constraint protects.
LEMMA AddedProtects ==
    ASSUME ProgramAssumption, NEW st, NEW x \in Sets \cup Scripts, NEW c, NEW E, NEW st2,
           Added(st, st2, x, c, E)
    PROVE  Protects(st, st2)
    BY AddedGuards, ConsProtect

\* The loops over the barriers protect.
LEMMA ExtendedProtects ==
    ASSUME ProgramAssumption, NEW st \in States, NEW st2 \in States, NEW r \in Reads, Extended(st, st2, r),
           st.pending = <<>>, st.barriers[r] = <<>> => st2.barriers[r] = <<>>,
           Breaks # {} \/ st2.types = st.types \/ OnlyObjects(st, st2, r)
    PROVE  Protects(st, st2)
    BY ExtendedGuards, ConsProtect

\* Items of a read whose barriers were broken never wait for the only object.
LEMMA ExtendedOrder ==
    ASSUME ProgramAssumption, NEW st, Good(st), NEW st2, Good(st2), NEW r \in Sets, Extended(st, st2, r),
           st.pending = <<>>, OnlyObjects(st, st2, r)
    PROVE  TagOrder(st2)
<1>0. st \in States /\ st2 \in States /\ SetsOK(st2)
    BY DEF Good
<1>1. ASSUME NEW j \in DOMAIN st2.pending, Waits(st2, j) PROVE FALSE
    <2> DEFINE b == st2.pending[j].type
               X == st2.types[r]
    <2>1. j \notin DOMAIN st.pending
        OBVIOUS
    <2>2. st2.pending[j].set = r
        BY <2>1 DEF Extended
    <2>3. b \in Objects /\ ObjectsOf(X) = {b}
        BY <1>1, <2>2 DEF Waits
    <2>4. b \notin ObjectsOf(st.types[r]) /\ ObjectsOf(st.types[r]) # {}
        BY <2>1 DEF OnlyObjects
    <2>5. PICK u \in Objects : u \in st.types[r]
        BY <2>4 DEF ObjectsOf
    <2>6. HasType(X, u)
        BY <2>5 DEF Extended, HasType, Types
    <2>7. SetOK(X)
        BY <1>0 DEF SetsOK
    <2> HIDE DEF b, X
    <2>8. "anyobject" \notin X /\ "unknown" \notin X
        <3>1. b \in X /\ b # "unknown"
            BY <2>3, TypesDiffer DEF ObjectsOf
        <3> QED
            BY <2>3, <2>7, <3>1 DEF SetOK
    <2>9. u \in ObjectsOf(X)
        BY <2>5, <2>6, <2>8 DEF HasType, ObjectsOf
    <2> QED
        BY <2>3, <2>4, <2>5, <2>9 DEF ObjectsOf
<1> QED
    BY <1>1, OrderIs

\* A first item on the worklist is in order.
LEMMA AddedOrder ==
    ASSUME NEW st, NEW x, NEW c, NEW E, NEW st2, Added(st, st2, x, c, E), st.pending = <<>>,
           c.kind # "tag"
    PROVE  TagOrder(st2)
<1>1. ASSUME NEW j \in DOMAIN st2.pending PROVE ~Waits(st2, j)
    <2>1. j \notin DOMAIN st.pending
        OBVIOUS
    <2>2. /\ st2.pending[j].set = x /\ st2.pending[j].con = Len(st.cons[x]) + 1
          /\ st2.cons[x][Len(st.cons[x]) + 1] = c
        BY <2>1 DEF Added
    <2> QED
        BY <2>2 DEF Waits
<1> QED
    BY <1>1, OrderIs

\* On an empty worklist nothing waits.
LEMMA NothingMixed ==
    ASSUME NEW st, st.pending = <<>>, NEW s, NEW t
    PROVE  Unmixed(st, s, t) /\ TagOrder(st)
    BY DEF Unmixed, TagOrder

\* pruneTypeBarriers changes only barriers.
LEMMA PruneIs ==
    ASSUME ProgramAssumption, NEW st, Good(st), NEW r \in Reads, NEW st2, st2 = PruneTypeBarriers(st, r)
    PROVE  /\ Good(st2) /\ Extended(st, st2, r) /\ st2.types = st.types /\ st2.pending = st.pending
           /\ st.barriers[r] = <<>> => st2.barriers[r] = <<>>
    BY VisitsOK DEF PruneTypeBarriers

\* pruneTypeBarriers protects.
LEMMA PruneProtects ==
    ASSUME ProgramAssumption, NEW st, Good(st), st.pending = <<>>, NEW r \in Reads, NEW st2,
           st2 = PruneTypeBarriers(st, r)
    PROVE  Protects(st, st2)
    BY PruneIs, ExtendedProtects DEF Good

\* breakTypeBarriers protects, and keeps tags where no constructor's reads are
\* broken.
LEMMA BreakProtects ==
    ASSUME ProgramAssumption, NEW st, Good(st), st.pending = <<>>, NEW r \in Reads, NEW b \in BOOLEAN,
           b => Breaks # {}, NEW st2, st2 = BreakTypeBarriers(st, r, b)
    PROVE  Protects(st, st2) /\ (Breaks = {} => TagOrder(st2))
<1> DEFINE st1 == PruneTypeBarriers(st, r)
           how == IF b THEN "all" ELSE "limit"
<1>1. Protects(st, st1) /\ Good(st1) /\ st1.pending = <<>>
    BY PruneProtects, PruneIs
<1>2. st2 = VisitBarriers(st1, r, how) /\ how \in {"none", "limit", "all"}
    BY DEF BreakTypeBarriers
<1>3. how = "limit" \/ Breaks # {}
    OBVIOUS
<1> HIDE DEF st1, how
<1>4. /\ Good(st2) /\ Extended(st1, st2, r) /\ (how = "limit" => OnlyObjects(st1, st2, r))
      /\ st1.barriers[r] = <<>> => st2.barriers[r] = <<>>
    BY <1>1, <1>2, VisitsOK
<1>5. Protects(st1, st2)
    BY <1>1, <1>3, <1>4, ExtendedProtects DEF Good
<1>6. Breaks = {} => TagOrder(st2)
    BY <1>1, <1>3, <1>4, ExtendedOrder, ObservedOK
<1> QED
    BY <1>1, <1>5, <1>6, ProtectsTrans

-----------------------------------------------------------------------------
(* The steps of an activation leave code protected.                         *)

Sound == Ordered /\ Installed /\ SitesReady /\ CodeInv /\ NukedInv /\ TagInv

\* Once types are given up, nothing is promised until the activation ends.
LEMMA GivenUp ==
    ASSUME ti'.nuke, active'
    PROVE  Installed' /\ SitesReady' /\ CodeInv' /\ TagInv'
    BY DEF Installed, SitesReady, CodeInv, TagInv

\* A step within an activation keeps NukedInv.
LEMMA NukedStays ==
    ASSUME NukedInv, active', enabled' = enabled, ti.nuke => ti'.nuke, ti'.code = ti.code,
           AsksNothing(compiling, todo) => AsksNothing(compiling', todo')
    PROVE  NukedInv'
    BY DEF NukedInv, NoReliance

\* A step within an activation that protects keeps CodeInv.
LEMMA CodeGoesOn ==
    ASSUME ti \in States, CodeInv, ~ti.nuke, active', Protects(ti, ti'),
           compiling' = NoCompile \/ \A use \in compiling'.reads : Guarded(ti', compiling'.script, use)
    PROVE  CodeInv'
<1>1. CodeGuarded(ti')
    BY CodeKept DEF CodeInv, Protects
<1> QED
    BY <1>1 DEF CodeInv

\* Who asks nothing asks nothing later.
LEMMA AsksLess ==
    ASSUME NEW p \in Seq(Ops), p # <<>>, NEW c, AsksNothing(c, p)
    PROVE  AsksNothing(c, Tail(p)) /\ Head(p).op \notin {"freeze", "tag", "site", "inline"}
<1>1. /\ Head(p) = p[1] /\ 1 \in DOMAIN p
      /\ \A k \in DOMAIN Tail(p) : k + 1 \in DOMAIN p /\ Tail(p)[k] = p[k + 1]
    BY HeadTail
<1> QED
    BY <1>1 DEF AsksNothing

\* The same for a step.
LEMMA AsksTail ==
    ASSUME Flowing, todo # <<>>, compiling' = compiling, todo' = Tail(todo)
    PROVE  AsksNothing(compiling, todo) => AsksNothing(compiling', todo')
    BY AsksLess DEF Flowing, Typed

\* The item is taken and its constraint told: what it guarded is recompiled.
LEMMA TakenProtects ==
    ASSUME ProgramAssumption, NEW st, Good(st), st.pending # <<>>, NEW s, NEW i, NEW t,
           s = Take(st.pending).item.set, i = Take(st.pending).item.con, t = Take(st.pending).item.type,
           NEW st2, Handed(Taken(st), st2, s, i, t), Protects(Taken(st), st2)
    PROVE  Protects(st, st2)
<1> DEFINE a == Taken(st)
<1>1. a.cons = st.cons /\ a.code = st.code /\ a.recompiles = st.recompiles
    <2>1. st \in States
        BY DEF Good
    <2> QED
        BY <2>1 DEF Taken, States
<1>2. CodeStays(st, st2)
    BY <1>1 DEF Protects, CodeStays
<1>3. \A x : HasJITCode(st, x) <=> HasJITCode(a, x)
    BY <1>1 DEF HasJITCode
<1>4. GuardsKept(st, st2)
    <2> SUFFICES ASSUME NEW x \in Scripts, NEW use \in Uses, HasJITCode(st, x), Guarded(st, x, use)
                 PROVE  x \in st2.recompiles \/ Guarded(st2, x, use)
        BY DEF GuardsKept
    <2>1. Guarded(a, x, use) \/ Alarm(a, s, i, t, x)
        BY TakenGuards
    <2>2. ASSUME Alarm(a, s, i, t, x) PROVE x \in st2.recompiles
        <3>1. HasJITCode(a, x)
            BY <1>3
        <3> HIDE DEF a
        <3> QED
            BY <2>2, <3>1, AlarmHeard DEF a
    <2>3. ASSUME Guarded(a, x, use) PROVE x \in st2.recompiles \/ Guarded(st2, x, use)
        BY <1>3, <2>3 DEF Protects, GuardsKept
    <2> QED
        BY <2>1, <2>2, <2>3
<1>5. /\ \A r \in Reads : HasBarrierCon(st, r) => HasBarrierCon(st2, r)
      /\ \A x : \A f \in Scripts : Watches(st, x, f) => Watches(st2, x, f)
    BY <1>1 DEF Protects, HasBarrierCon, Watches
<1> QED
    BY <1>2, <1>4, <1>5 DEF Protects

\* resolvePending keeps Sound.
LEMMA ResolveSound ==
    ASSUME ProgramAssumption, Flowing, Sound, Resolve
    PROVE  Sound'
<1> DEFINE w == Take(ti.pending).item
           st == Taken(ti)
           st2 == NewType(st, w.set, w.con, w.type)
<1>0. Good(ti) /\ ti.pending # <<>> /\ ti \in States
    BY DEF Flowing, Typed, Resolve, Good
<1>1. ti' = st2 \/ ti' \in Lost(st, st2)
    BY DEF Resolve, Taken
<1>2. /\ w.set \in Sets /\ w.type \in Types /\ w.con \in DOMAIN st.cons[w.set]
      /\ st.nuke = ti.nuke /\ st.code = ti.code
    <2>1. st.code = ti.code
        BY <1>0 DEF Taken, States
    <2> QED
        BY <1>0, <2>1, TakeOK
<1>3. Good(st)
    BY <1>0, TakenGood
<1>4. Handed(st, st2, w.set, w.con, w.type)
    <2> HIDE DEF w, st
    <2> QED
        BY <1>2, <1>3, NewTypeHands
<1>5. /\ active /\ active' = active /\ todo' = todo /\ compiling' = compiling /\ ran' = ran
      /\ enabled' = enabled
    BY DEF Resolve
<1>6. compiling = NoCompile \/ compiling.reads = {}
    BY <1>0 DEF Sound, Ordered
<1>7. Good(st2) /\ Larger(st, st2) /\ st2.nuke = st.nuke /\ st2.code = st.code
    <2> HIDE DEF w, st, st2
    <2> QED
        BY <1>2, <1>3, <1>4, HandedGood
<1>8. Ordered'
    BY <1>5, <1>6 DEF Sound, Ordered
<1>9. ti'.code = ti.code /\ (ti.nuke => ti'.nuke) /\ (ti' = st2 \/ ti'.nuke)
    <2>1. CASE ti' = st2
        BY <1>2, <1>7, <2>1
    <2>2. CASE ti' \in Lost(st, st2)
        <3> HIDE DEF st, st2
        <3>1. ti'.nuke = TRUE /\ ti'.code \in {st.code, st2.code}
            BY <1>3, <1>7, <2>2, LostGood
        <3> QED
            BY <1>2, <1>7, <3>1
    <2> QED
        BY <1>1, <2>1, <2>2
<1>10. NukedInv'
    BY <1>5, <1>9, NukedStays DEF Sound
<1>11. CASE ti'.nuke
    BY <1>5, <1>8, <1>10, <1>11, GivenUp DEF Sound
<1>12. CASE ~ti'.nuke
    <2>1. ti' = st2 /\ ~ti.nuke
        BY <1>9, <1>12
    <2>2. Breaks = {} => TagOrder(st) /\ \A z \in Sets : Unmixed(st, z, w.type)
        <3>1. Breaks = {} => TagOrder(ti)
            BY <2>1 DEF Sound, TagInv
        <3> QED
            BY <1>0, <3>1, TakenOrder
    <2>3. Protects(st, st2)
        <3> HIDE DEF w, st, st2
        <3> QED
            BY <1>2, <1>3, <1>4, <2>2, HandedProtects
    <2>4. Protects(ti, st2)
        <3> HIDE DEF st2
        <3> QED
            BY <1>0, <1>4, <2>3, TakenProtects
    <2>5. TagInv'
        <3>1. Breaks = {} => TagOrder(st2)
            <4> HIDE DEF w, st, st2
            <4> QED
                BY <1>2, <1>3, <1>4, <1>7, <2>2, HandedOrder
        <3> QED
            BY <2>1, <3>1 DEF TagInv
    <2> HIDE DEF w, st, st2
    <2>6. CodeInv'
        BY <1>0, <1>5, <1>6, <2>1, <2>4, CodeGoesOn DEF Sound
    <2>7. Installed'
        BY <1>5, <2>1, <2>4 DEF Sound, Installed, InstalledIn, Protects
    <2>8. SitesReady'
        <3>1. \A k \in DOMAIN todo : todo[k].op = "site" => Observed[todo[k].set].script \in Scripts
            <4>1. todo \in Seq(Ops)
                BY DEF Flowing, Typed
            <4>2. \A k \in DOMAIN todo : todo[k].op = "site" => todo[k].set \in Reads
                BY <4>1, OpOK
            <4> QED
                BY <4>2, ObservedOK
        <3> QED
            BY <1>5, <2>1, <2>4, <3>1 DEF Sound, SitesReady, SitesIn, Protects
    <2> QED
        BY <1>8, <1>10, <2>5, <2>6, <2>7, <2>8 DEF Sound
<1> QED
    BY <1>11, <1>12

\* A step that does the next thing keeps Installed and SitesReady.
LEMMA TailReady ==
    ASSUME ProgramAssumption, Flowing, Sound, ~ti.nuke, todo # <<>>, todo' = Tail(todo),
           compiling'.script = compiling.script,
           IF Head(todo).op = "ran" THEN ran' = ran \cup {Head(todo).script} ELSE ran' = ran,
           \A r \in Reads : HasBarrierCon(ti, r) \/ Head(todo) = BarrierOp(r) => HasBarrierCon(ti', r),
           \A f \in Scripts : Watches(ti, compiling.script, f) => Watches(ti', compiling.script, f)
    PROVE  /\ InstalledIn(ti', ran', Tail(todo)) /\ Installed'
           /\ SitesIn(ti', ran', Tail(todo), compiling.script) /\ SitesReady'
<1>0. todo \in Seq(Ops)
    BY DEF Flowing, Typed
<1>1. InstalledIn(ti, ran, todo) /\ SitesIn(ti, ran, todo, compiling.script)
    BY DEF Sound, Installed, SitesReady
<1>2. InstalledIn(ti', ran', Tail(todo))
    BY <1>0, <1>1, InstalledTail
<1>3. SitesIn(ti', ran', Tail(todo), compiling.script)
    BY <1>0, <1>1, SitesTail
<1> QED
    BY <1>2, <1>3 DEF Installed, SitesReady

\* A step goes on with less to do, and what code is protected by is in place.
LEMMA GoesOn ==
    ASSUME ProgramAssumption, Flowing, Sound, active, todo # <<>>,
           active' = active, enabled' = enabled, todo' = Tail(todo), compiling' = compiling,
           IF Head(todo).op = "ran" THEN ran' = ran \cup {Head(todo).script} ELSE ran' = ran,
           compiling = NoCompile \/ compiling.reads = {}
              \/ (ti'.pending = <<>> /\ \A use \in Uses :
                     Guarded(ti, compiling.script, use) => Guarded(ti', compiling.script, use)),
           ti.nuke => ti'.nuke, ti'.code = ti.code,
           ti'.nuke \/ Protects(ti, ti'),
           \A r \in Reads : Head(todo) = BarrierOp(r) => ti'.nuke \/ HasBarrierCon(ti', r),
           Breaks = {} => ti'.nuke \/ TagOrder(ti')
    PROVE  Sound'
<1>0. todo \in Seq(Ops) /\ ti \in States /\ compiling \in Compilations
    BY DEF Flowing, Typed, Good
<1>1. Ordered'
    <2>1. InOrder(todo') /\ (NoChanges(todo) => NoChanges(todo'))
        BY <1>0, TailOK DEF Sound, Ordered
    <2> QED
        BY <2>1 DEF Sound, Ordered
<1>2. NukedInv'
    BY AsksTail, NukedStays DEF Sound
<1>3. CASE ti'.nuke
    BY <1>1, <1>2, <1>3, GivenUp DEF Sound
<1>4. CASE ~ti'.nuke
    <2>1. ~ti.nuke /\ Protects(ti, ti')
        BY <1>4
    <2>2. CodeInv'
        <3>1. compiling = NoCompile \/ \A use \in compiling.reads : use \in Uses
            BY <1>0, CompilingOK
        <3>2. compiling = NoCompile \/ \A use \in compiling.reads : Guarded(ti, compiling.script, use)
            BY <2>1 DEF Sound, CodeInv
        <3>3. compiling = NoCompile \/ \A use \in compiling.reads : Guarded(ti', compiling.script, use)
            BY <3>1, <3>2
        <3> QED
            BY <1>0, <2>1, <3>3, CodeGoesOn DEF Sound
    <2>4. Installed' /\ SitesReady'
        BY <1>4, <2>1, TailReady DEF Protects
    <2>5. TagInv'
        BY <1>4 DEF TagInv
    <2> QED
        BY <1>1, <1>2, <2>2, <2>4, <2>5 DEF Sound
<1> QED
    BY <1>3, <1>4

\* The step happens, or types are given up.
LEMMA BecomesIs ==
    ASSUME Good(ti), NEW st2, Good(st2), Larger(ti, st2), st2.nuke = ti.nuke, st2.code = ti.code, Becomes(st2)
    PROVE  /\ ti'.code = ti.code /\ (ti.nuke => ti'.nuke) /\ (ti' = st2 \/ ti'.nuke)
           /\ ti'.pending \in {ti.pending, st2.pending}
<1>1. CASE ti' = st2
    BY <1>1
<1>2. CASE ti' \in Lost(ti, st2)
    <2>1. ti'.nuke = TRUE /\ ti'.pending = ti.pending /\ ti'.code \in {ti.code, st2.code}
        BY <1>2, LostGood
    <2> QED
        BY <2>1
<1> QED
    BY <1>1, <1>2 DEF Becomes

\* The analysis of a script and interpreted code keep Sound.
LEMMA ModifySound ==
    ASSUME ProgramAssumption, Flowing, Sound, Modify
    PROVE  Sound'
<1> DEFINE o == Head(todo)
           st2 == CASE o.op = "type" -> AddType(ti, o.set, o.type)
                    [] o.op = "constraint" -> AddConstraint(ti, o.set, o.con, TRUE)
                    [] o.op = "break" -> BreakTypeBarriers(ti, o.set, o.all)
<1>1. /\ o \in Ops /\ o.op \in {"type", "constraint", "break"} /\ todo \in Seq(Ops)
      /\ todo # <<>> /\ active /\ Good(ti) /\ ti \in States /\ ti.pending = <<>>
    BY Next1OK DEF Modify
<1>2. Becomes(st2)
    BY DEF Modify
<1>3. /\ active' = active /\ enabled' = enabled /\ todo' = Tail(todo) /\ compiling' = compiling
      /\ ran' = ran
    BY DEF Modify
<1>4. compiling = NoCompile \/ compiling.reads = {}
    <2>1. o = todo[1] /\ 1 \in DOMAIN todo
        BY <1>1, HeadTail
    <2>2. ~NoChanges(todo)
        BY <1>1, <2>1 DEF NoChanges, ChangeKinds
    <2> QED
        BY <2>2 DEF Sound, Ordered
<1>5. /\ Keeps(ti, st2) /\ st2.code = ti.code /\ Protects(ti, st2)
      /\ Breaks = {} => TagOrder(st2)
      /\ \A r \in Reads : o = BarrierOp(r) => HasBarrierCon(st2, r)
    <2> HIDE DEF o
    <2>0. \A r : BarrierOp(r).op = "constraint"
        BY BarrierOpIs
    <2>1. CASE o.op = "type"
        <3>1. o.set \in Sets /\ o.type \in Types /\ SetsOK(ti)
            BY <1>1, <2>1, OpOK DEF Good
        <3>2. st2 = AddType(ti, o.set, o.type)
            BY <2>1
        <3> HIDE DEF st2
        <3>3. Keeps(ti, st2)
            BY <1>1, <3>1, <3>2, AddTypeKeeps
        <3>4. CASE st2 = ti
            BY <1>1, <2>0, <2>1, <3>3, <3>4, SameProtects, NothingMixed
        <3>5. CASE \E y \in Types : ~HasType(ti.types[o.set], o.type) /\ Grown(ti, st2, o.set, o.type, y)
            <4>1. PICK y \in Types : ~HasType(ti.types[o.set], o.type) /\ Grown(ti, st2, o.set, o.type, y)
                BY <3>5
            <4>2. TagOrder(ti) /\ \A z : Unmixed(ti, z, o.type)
                BY <1>1, NothingMixed
            <4>3. Protects(ti, st2)
                BY <1>1, <3>1, <4>1, <4>2, GrownProtects
            <4>4. TagOrder(st2)
                BY <1>1, <3>1, <3>3, <4>1, <4>2, GrownOrder DEF Keeps
            <4>5. st2.code = ti.code
                BY <4>1 DEF Grown
            <4> QED
                BY <2>0, <2>1, <3>3, <4>3, <4>4, <4>5
        <3> QED
            BY <1>1, <3>1, <3>2, <3>4, <3>5, AddTypeOK
    <2>2. CASE o.op = "constraint"
        <3>1. st2 = AddConstraint(ti, o.set, o.con, TRUE)
            BY <2>2
        <3>2. o.set \in Sets /\ o.set \notin Scripts /\ SetsOK(ti)
            BY <1>1, <2>2, OpOK DEF ProgramAssumption, Good
        <3>3. o.con \in Constraints /\ o.con.kind \in {"subset", "barrier"}
            BY <1>1, <2>2, OpOK, FlowConOK
        <3> HIDE DEF st2
        <3>4. Keeps(ti, st2)
            BY <1>1, <3>1, <3>2, <3>3, AddConstraintKeeps
        <3>5. Added(ti, st2, o.set, o.con, ti.types[o.set])
            BY <1>1, <3>1, <3>2, <3>3, AddConstraintOK
        <3>6. Protects(ti, st2)
            BY <3>2, <3>5, AddedProtects
        <3>7. TagOrder(st2)
            BY <1>1, <3>3, <3>5, AddedOrder
        <3>8. ASSUME NEW r \in Reads, o = BarrierOp(r) PROVE HasBarrierCon(st2, r)
            <4>1. o.set = Observed[r].source /\ o.con = [kind |-> "barrier", target |-> r]
                BY <3>8, BarrierOpIs
            <4>2. /\ Len(ti.cons[o.set]) + 1 \in DOMAIN st2.cons[o.set]
                  /\ st2.cons[o.set][Len(ti.cons[o.set]) + 1] = o.con
                BY <3>5 DEF Added
            <4> QED
                BY <4>1, <4>2 DEF HasBarrierCon
        <3>9. st2.code = ti.code
            BY <3>5 DEF Added
        <3> QED
            BY <3>4, <3>6, <3>7, <3>8, <3>9
    <2>3. CASE o.op = "break"
        <3>1. o.set \in Reads /\ o.all \in BOOLEAN /\ (o.all => Breaks # {})
            BY <1>1, <2>3, OpOK
        <3>2. st2 = BreakTypeBarriers(ti, o.set, o.all)
            BY <2>3
        <3> HIDE DEF st2
        <3>3. Keeps(ti, st2)
            BY <1>1, <3>1, <3>2, BreakKeeps
        <3>4. Protects(ti, st2) /\ (Breaks = {} => TagOrder(st2))
            BY <1>1, <3>1, <3>2, BreakProtects
        <3>5. st2.code = ti.code
            BY <3>4 DEF Protects, CodeStays
        <3> QED
            BY <2>0, <2>3, <3>3, <3>4, <3>5
    <2> QED
        BY <1>1, <2>1, <2>2, <2>3
<1> HIDE DEF st2, o
<1>6. ti'.code = ti.code /\ (ti.nuke => ti'.nuke) /\ (ti' = st2 \/ ti'.nuke)
    BY <1>1, <1>2, <1>5, BecomesIs DEF Keeps
<1>7. IF Head(todo).op = "ran" THEN ran' = ran \cup {Head(todo).script} ELSE ran' = ran
    BY <1>1, <1>3 DEF o
<1>8. \A r \in Reads : Head(todo) = BarrierOp(r) => ti'.nuke \/ HasBarrierCon(ti', r)
    BY <1>5, <1>6 DEF o
<1>9. ti'.nuke \/ Protects(ti, ti')
    BY <1>5, <1>6
<1>10. Breaks = {} => ti'.nuke \/ TagOrder(ti')
    BY <1>5, <1>6
<1> QED
    BY <1>1, <1>3, <1>4, <1>6, <1>7, <1>8, <1>9, <1>10, GoesOn

\* Marking a script as analysed keeps Sound.
LEMMA RanSound ==
    ASSUME ProgramAssumption, Flowing, Sound, RunInference
    PROVE  Sound'
<1>1. /\ Head(todo).op = "ran" /\ todo # <<>> /\ active /\ ti.pending = <<>>
    BY Next1OK DEF RunInference
<1>2. /\ ti' = ti /\ active' = active /\ enabled' = enabled /\ todo' = Tail(todo)
      /\ compiling' = compiling /\ ran' = ran \cup {Head(todo).script}
    BY DEF RunInference, Budget
<1>3. \A r \in Reads : Head(todo) # BarrierOp(r)
    BY <1>1, BarrierOpIs
<1>4. Protects(ti, ti') /\ TagOrder(ti')
    BY <1>1, <1>2, SameProtects, NothingMixed
<1> QED
    BY <1>1, <1>2, <1>3, <1>4, GoesOn

\* What follows ensureRanInference keeps Sound.
LEMMA EnsuredSound ==
    ASSUME ProgramAssumption, Flowing, Sound, Ensured
    PROVE  Sound'
<1>1. /\ Head(todo).op = "ensured" /\ todo # <<>> /\ active /\ ti.pending = <<>>
    BY Next1OK DEF Ensured
<1>2. ti' = ti /\ active' = active /\ enabled' = enabled /\ compiling' = compiling /\ ran' = ran
    BY DEF Ensured, Budget
<1>3. CASE ti.nuke /\ compiling # NoCompile
    <2>1. todo' = <<>> /\ ti'.nuke
        BY <1>2, <1>3 DEF Ensured
    <2>2. Ordered'
        BY <1>1, <1>2, <2>1 DEF Ordered, InOrder, NoChanges
    <2>3. NukedInv'
        <3>1. AsksNothing(compiling, todo) => AsksNothing(compiling', todo')
            BY <1>2, <2>1 DEF AsksNothing
        <3> QED
            BY <1>1, <1>2, <3>1, NukedStays DEF Sound
    <2> QED
        BY <1>1, <1>2, <2>1, <2>2, <2>3, GivenUp DEF Sound
<1>4. CASE ~(ti.nuke /\ compiling # NoCompile)
    <2>1. todo' = Tail(todo)
        BY <1>4 DEF Ensured
    <2>2. \A r \in Reads : Head(todo) # BarrierOp(r)
        BY <1>1, BarrierOpIs
    <2>3. Protects(ti, ti') /\ TagOrder(ti')
        BY <1>1, <1>2, SameProtects, NothingMixed
    <2> QED
        BY <1>1, <1>2, <2>1, <2>2, <2>3, GoesOn
<1> QED
    BY <1>3, <1>4

\* What protects a use does not depend on the code there is.
LEMMA SameGuards ==
    ASSUME NEW st, NEW st2, SameSets(st, st2), NEW x, NEW use, Guarded(st, x, use)
    PROVE  Guarded(st2, x, use)
<1>1. Holds(st, use) => Holds(st2, use)
    BY DEF SameSets, Holds
<1>2. \A k : Fires(st, k) => Fires(st2, k)
    BY DEF SameSets, Fires
<1>3. use.kind = "freeze" => FreezeGuard(st2, x, use)
    BY <1>1 DEF SameSets, Guarded, FreezeGuard
<1>4. use.kind = "tag" => TagGuard(st2, x, use)
    BY <1>1, <1>2 DEF SameSets, Guarded, TagGuard
<1>5. use.kind = "unchecked" => SiteGuard(st2, x, use)
    BY DEF SameSets, Guarded, SiteGuard, Watches, HasBarrierCon
<1> QED
    BY <1>3, <1>4, <1>5 DEF Guarded

\* The same sets and constraints are as ready.
LEMMA SameReady ==
    ASSUME NEW st, NEW st2, SameSets(st, st2)
    PROVE  /\ \A r : HasBarrierCon(st, r) => HasBarrierCon(st2, r)
           /\ \A x, f : Watches(st, x, f) => Watches(st2, x, f)
           /\ TagOrder(st) => TagOrder(st2)
           /\ \A done, p : InstalledIn(st, done, p) => InstalledIn(st2, done, p)
           /\ \A done, p, x : SitesIn(st, done, p, x) => SitesIn(st2, done, p, x)
<1>1. \A r : HasBarrierCon(st, r) => HasBarrierCon(st2, r)
    BY DEF SameSets, HasBarrierCon
<1>2. \A x, f : Watches(st, x, f) => Watches(st2, x, f)
    BY DEF SameSets, Watches
<1>3. TagOrder(st) => TagOrder(st2)
    BY DEF SameSets, TagOrder
<1>4. \A done, p : InstalledIn(st, done, p) => InstalledIn(st2, done, p)
    BY <1>1 DEF InstalledIn
<1>5. \A done, p, x : SitesIn(st, done, p, x) => SitesIn(st2, done, p, x)
    BY <1>2 DEF SitesIn
<1> QED
    BY <1>1, <1>2, <1>3, <1>4, <1>5

\* Linking keeps Sound: what was guarded for the compiler is guarded for its
\* code.
LEMMA LinkSound ==
    ASSUME ProgramAssumption, Flowing, Sound, Link
    PROVE  Sound'
<1> DEFINE c == compiling.script
           j == compiling.jit
           new == [compiled |-> TRUE, reads |-> compiling.reads]
<1>1. /\ Head(todo).op = "link" /\ todo # <<>> /\ todo \in Seq(Ops) /\ active /\ ti.pending = <<>>
      /\ ti \in States /\ compiling # NoCompile /\ compiling \in Compilations
    BY Next1OK DEF Link, UseKinds
<1>2. c \in Scripts /\ j \in Jits
    BY <1>1, CompilingOK
<1>3. /\ active' = active /\ enabled' = enabled /\ todo' = Tail(todo) /\ compiling' = compiling /\ ran' = ran
    BY DEF Link, Budget
<1>4. /\ SameSets(ti, ti') /\ ti'.recompiles = ti.recompiles
      /\ \A x \in Scripts, i \in Jits :
            ti'.code[x][i] = IF x = c /\ i = j THEN new ELSE ti.code[x][i]
    <2>1. ti' = [ti EXCEPT !.code[c][j] = new]
        BY DEF Link
    <2> HIDE DEF c, j, new
    <2>2. ti.code \in [Scripts -> [Jits -> Codes]]
        BY <1>1, FieldsOK
    <2>3. ti'.code = [ti.code EXCEPT ![c] = [ti.code[c] EXCEPT ![j] = new]]
        BY <1>1, <2>1 DEF States
    <2>4. \A x \in Scripts, i \in Jits :
            ti'.code[x][i] = IF x = c /\ i = j THEN new ELSE ti.code[x][i]
        BY <1>2, <2>2, <2>3
    <2>5. SameSets(ti, ti') /\ ti'.recompiles = ti.recompiles
        BY <1>1, <2>1 DEF States, SameSets
    <2> QED
        BY <2>4, <2>5
<1>5. ti'.nuke = ti.nuke /\ ti'.pending = <<>>
    BY <1>1, <1>4 DEF SameSets
<1>6. Ordered'
    <2>1. InOrder(todo') /\ (NoChanges(todo) => NoChanges(todo'))
        BY <1>1, <1>3, TailOK DEF Sound, Ordered
    <2> QED
        BY <1>3, <1>5, <2>1 DEF Sound, Ordered
<1>7. NukedInv'
    <2>1. AsksNothing(compiling, todo) => AsksNothing(compiling', todo')
        BY <1>1, <1>3, AsksTail
    <2>2. ASSUME ~enabled PROVE NoReliance(ti')
        <3>1. AsksNothing(compiling, todo) /\ NoReliance(ti)
            BY <2>2 DEF Sound, NukedInv
        <3>2. compiling.reads = {}
            BY <1>1, <3>1 DEF AsksNothing
        <3> QED
            BY <1>4, <3>1, <3>2 DEF NoReliance
    <2> QED
        BY <1>1, <1>3, <1>5, <2>1, <2>2 DEF Sound, NukedInv
<1>8. CASE ti.nuke
    BY <1>1, <1>3, <1>5, <1>6, <1>7, <1>8, GivenUp DEF Sound
<1>9. CASE ~ti.nuke
    <2>1. \A x : \A use : Guarded(ti, x, use) => Guarded(ti', x, use)
        BY <1>4, SameGuards
    <2>2. \A use \in compiling.reads : Guarded(ti', c, use)
        BY <1>1, <1>9, <2>1 DEF Sound, CodeInv
    <2>3. CodeGuarded(ti')
        <3> SUFFICES ASSUME NEW x \in Scripts, NEW i \in Jits, NEW use \in ti'.code[x][i].reads
                    
                     PROVE  ti'.code[x][i].compiled /\ (x \in ti'.recompiles \/ Guarded(ti', x, use))
            BY DEF CodeGuarded
        <3>1. CASE x = c /\ i = j
            BY <1>4, <2>2, <3>1
        <3>2. CASE ~(x = c /\ i = j)
            <4>1. ti'.code[x][i] = ti.code[x][i]
                BY <1>4, <3>2
            <4>2. ti.code[x][i].compiled /\ (x \in ti.recompiles \/ Guarded(ti, x, use))
                BY <1>9, <4>1 DEF Sound, CodeInv, CodeGuarded
            <4> QED
                BY <1>4, <2>1, <4>1, <4>2
        <3> QED
            BY <3>1, <3>2
    <2>4. CodeInv'
        BY <1>1, <1>3, <2>2, <2>3 DEF CodeInv
    <2>5. Installed' /\ SitesReady'
        <3>1. \A r \in Reads : Head(todo) # BarrierOp(r)
            BY <1>1, BarrierOpIs
        <3> QED
            BY <1>1, <1>3, <1>4, <1>9, <3>1, SameReady, TailReady
    <2>6. TagInv'
        BY <1>5, NothingMixed DEF TagInv
    <2> QED
        BY <1>6, <1>7, <2>4, <2>5, <2>6 DEF Sound
<1> QED
    BY <1>8, <1>9

\* Code that was released relies on nothing.
LEMMA ReleasedIs ==
    ASSUME NEW st, NEW st2, st2.code = ReleaseAll(st)
    PROVE  \A x \in Scripts, j \in Jits : st2.code[x][j].reads = {}
    BY DEF ReleaseAll, NoCode

\* Leaving keeps Sound: with no worklist, what is not recompiled holds.
LEMMA LeaveSound ==
    ASSUME ProgramAssumption, Flowing, Sound, Leave
    PROVE  Sound'
<1>1. /\ SameSets(ti, ti') /\ ti'.recompiles = {}
      /\ ti.nuke => ti'.code = ReleaseAll(ti)
      /\ ~ti.nuke => ti'.code = [s \in Scripts |-> [j \in Jits |->
                         IF s \in ti.recompiles THEN NoCode ELSE ti.code[s][j]]]
    BY LeaveOK DEF SameSets
<1>2. /\ active' = FALSE /\ todo' = todo /\ todo = <<>> /\ compiling' = NoCompile /\ ran' = ran
      /\ ti.pending = <<>> /\ (ti.nuke => enabled' = FALSE) /\ (~ti.nuke => enabled' = enabled)
    BY DEF Leave, Budget
<1>3. ti'.nuke = ti.nuke /\ ti'.pending = <<>>
    BY <1>1, <1>2 DEF SameSets
<1>4. Ordered'
    BY <1>2, <1>3 DEF Ordered, InOrder
<1>5. TagInv'
    BY <1>3, NothingMixed DEF TagInv
<1>6. SitesReady'
    BY <1>2 DEF SitesReady, SitesIn
<1>7. Installed'
    BY <1>1, <1>2, <1>3, SameReady DEF Sound, Installed
<1>8. CASE ti.nuke
    <2>1. NoReliance(ti')
        BY <1>1, <1>8, ReleasedIs DEF NoReliance
    <2>2. NukedInv'
        BY <1>2, <1>3, <1>8, <2>1 DEF NukedInv, AsksNothing
    <2>3. CodeInv'
        BY <1>3, <1>8 DEF CodeInv
    <2> QED
        BY <1>4, <1>5, <1>6, <1>7, <2>2, <2>3 DEF Sound
<1>9. CASE ~ti.nuke
    <2>1. NukedInv'
        BY <1>2, <1>3, <1>9 DEF Sound, NukedInv
    <2>2. CodeGuarded(ti')
        <3> SUFFICES ASSUME NEW x \in Scripts, NEW j \in Jits, NEW use \in ti'.code[x][j].reads
                     PROVE  ti'.code[x][j].compiled /\ Guarded(ti', x, use)
            BY DEF CodeGuarded
        <3>1. ti'.code[x][j] = IF x \in ti.recompiles THEN NoCode ELSE ti.code[x][j]
            BY <1>1, <1>9
        <3>2. x \notin ti.recompiles /\ ti'.code[x][j] = ti.code[x][j]
            BY <3>1 DEF NoCode
        <3>3. ti.code[x][j].compiled /\ Guarded(ti, x, use)
            BY <1>9, <3>2 DEF Sound, CodeInv, CodeGuarded
        <3> QED
            BY <1>1, <3>2, <3>3, SameGuards
    <2>3. CodeInv'
        BY <1>1, <1>2, <2>2 DEF CodeInv
    <2> QED
        BY <1>4, <1>5, <1>6, <1>7, <2>1, <2>3 DEF Sound
<1> QED
    BY <1>8, <1>9

\* Releasing code keeps Sound.
LEMMA CollectCodeSound ==
    ASSUME ProgramAssumption, Flowing, Sound, CollectCode
    PROVE  Sound'
<1>0. Good(ti)
    BY DEF Flowing, Typed
<1>1. SameSets(ti, ti') /\ ti'.code = ReleaseAll(ti)
    BY <1>0, CollectCodeOK DEF SameSets
<1>2. /\ active' = active /\ active /\ todo' = todo /\ compiling' = compiling /\ ran' = ran
      /\ enabled' = enabled
    BY DEF CollectCode
<1>3. ti'.nuke = ti.nuke /\ ti'.pending = ti.pending
    BY <1>1 DEF SameSets
<1>4. Ordered'
    BY <1>2, <1>3 DEF Sound, Ordered
<1>5. NoReliance(ti')
    BY <1>1, ReleasedIs DEF NoReliance
<1>6. NukedInv'
    BY <1>2, <1>3, <1>5 DEF Sound, NukedInv
<1>7. Installed' /\ SitesReady' /\ TagInv'
    BY <1>1, <1>2, <1>3, SameReady DEF Sound, Installed, SitesReady, TagInv
<1>8. CodeInv'
    <2>1. CodeGuarded(ti')
        BY <1>5 DEF CodeGuarded, NoReliance
    <2>2. ti'.nuke \/ compiling' = NoCompile \/ \A use \in compiling'.reads : Guarded(ti', compiling'.script, use)
        BY <1>1, <1>2, <1>3, SameGuards DEF Sound, CodeInv
    <2> QED
        BY <1>2, <2>1, <2>2 DEF CodeInv
<1> QED
    BY <1>4, <1>6, <1>7, <1>8 DEF Sound

\* The sweep keeps Sound: code that stays is that of scripts whose types stay.
LEMMA SweepSound ==
    ASSUME ProgramAssumption, Flowing, Sound, NEW dead \in SUBSET Objects, NEW release \in BOOLEAN,
           Sweep(dead, release)
    PROVE  Sound'
<1>1. /\ ti'.pending = <<>> /\ ti'.code = ReleaseAll(ti) /\ ti'.recompiles = ti.recompiles
      /\ (ti.nuke => ti'.nuke)
    BY SweepOK
<1>2. /\ ~active /\ active' = active /\ todo' = todo /\ todo = <<>> /\ compiling' = compiling
      /\ compiling = NoCompile /\ enabled' = enabled /\ ran' = {}
    BY DEF Sweep, Flowing, Activity
<1>3. NoReliance(ti')
    BY <1>1, ReleasedIs DEF NoReliance
<1>4. Ordered'
    BY <1>2 DEF Ordered, InOrder
<1>5. Installed'
    <2>1. \A x : ~Analysed({}, <<>>, x)
        BY DEF Analysed, Contains
    <2> QED
        BY <1>2, <2>1 DEF Installed, InstalledIn
<1>6. SitesReady'
    BY <1>2 DEF SitesReady, SitesIn
<1>7. TagInv'
    BY <1>1, NothingMixed DEF TagInv
<1>8. NukedInv'
    BY <1>1, <1>2, <1>3 DEF Sound, NukedInv
<1>9. CodeInv'
    <2>1. CodeGuarded(ti')
        BY <1>3 DEF CodeGuarded, NoReliance
    <2> QED
        BY <1>1, <1>2, <2>1 DEF Sound, CodeInv
<1> QED
    BY <1>4, <1>5, <1>6, <1>7, <1>8, <1>9 DEF Sound

-----------------------------------------------------------------------------
(* The questions of a compiler.                                             *)

\* Whatever is guarded stays so, code or none, when no type is added.
LEMMA GuardedStays ==
    ASSUME ProgramAssumption, NEW st, NEW st2, ConsStay(st, st2), ItemsStay(st, st2), st2.types = st.types,
           \A r \in Reads : st.barriers[r] = <<>> => st2.barriers[r] = <<>>,
           NEW x \in Scripts, NEW use \in Uses, Guarded(st, x, use)
    PROVE  Guarded(st2, x, use)
<1>1. CASE use.kind = "freeze"
    <2>1. Announced(st, st2)
        BY DEF Announced
    <2> QED
        BY <1>1, <2>1, FreezeStays DEF Guarded
<1>2. CASE use.kind = "tag"
    BY <1>2, TagsElsewhere DEF Guarded, TagsStay
<1>3. CASE use.kind = "unchecked"
    <2>1. use.set \in Reads
        BY <1>3 DEF Guarded, SiteGuard
    <2>2. Observed[use.set].script \in Scripts
        BY <2>1, ObservedOK
    <2> QED
        BY <1>3, <2>1, <2>2, WatchesStay, BarrierConStays DEF Guarded, SiteGuard
<1> QED
    BY <1>1, <1>2, <1>3, UseOK

\* A constraint was left on x; nothing else was done.
Watched(st, st2, x, c) ==
    /\ st2.types = st.types /\ st2.pending = <<>> /\ st2.code = st.code /\ Protects(st, st2)
    /\ \A y \in Scripts, use \in Uses : Guarded(st, y, use) => Guarded(st2, y, use)
    /\ \E i \in DOMAIN st2.cons[x] : st2.cons[x][i] = c

\* A sequence of no elements.
LEMMA EmptyOK ==
    ASSUME NEW S, NEW p \in Seq(S), DOMAIN p = {}
    PROVE  p = <<>>
<1>1. Len(p) \in Nat /\ 1 \notin 1 .. Len(p)
    OBVIOUS
<1>2. ~(Len(p) > 0)
    BY <1>1
<1> QED
    BY <1>2, SeqOK

\* A freeze constraint is left on a set.
LEMMA FreezeWatches ==
    ASSUME ProgramAssumption, NEW st, Good(st), st.pending = <<>>, NEW x \in Sets \cup Scripts,
           NEW c \in Constraints, NEW st2, st2 = AddConstraint(st, x, c, FALSE)
    PROVE  Watched(st, st2, x, c)
<1>1. st \in States /\ SetsOK(st)
    BY DEF Good
<1>2. Added(st, st2, x, c, {})
    BY <1>1, AddConstraintOK
<1>3. ConsStay(st, st2) /\ ItemsStay(st, st2) /\ Protects(st, st2)
    BY <1>2, AddedGuards, AddedProtects
<1>4. st2.types = st.types /\ st2.barriers = st.barriers /\ st2.code = st.code /\ st2 \in States
    BY <1>2 DEF Added
<1>5. \A y \in Scripts, use \in Uses : Guarded(st, y, use) => Guarded(st2, y, use)
    BY <1>3, <1>4, GuardedStays
<1>6. st2.pending = <<>>
    <2>1. \A k \in DOMAIN st2.pending : k \in DOMAIN st.pending
        BY <1>2 DEF Added
    <2>2. DOMAIN st.pending = {}
        OBVIOUS
    <2>3. st2.pending \in Seq(Items)
        BY <1>4, FieldsOK
    <2>4. DOMAIN st2.pending = {}
        BY <2>1, <2>2
    <2> QED
        BY <2>3, <2>4, EmptyOK
<1>7. \E i \in DOMAIN st2.cons[x] : st2.cons[x][i] = c
    BY <1>2 DEF Added
<1> QED
    BY <1>3, <1>4, <1>5, <1>6, <1>7 DEF Watched

\* The reads a compiler asks about are pruned first.
LEMMA PruneWatches ==
    ASSUME ProgramAssumption, NEW st, Good(st), st.pending = <<>>, NEW r \in Reads,
           NEW st2, st2 = PruneTypeBarriers(st, r)
    PROVE  /\ Good(st2) /\ st2.types = st.types /\ st2.pending = <<>> /\ st2.code = st.code
           /\ Protects(st, st2)
           /\ \A y \in Scripts, use \in Uses : Guarded(st, y, use) => Guarded(st2, y, use)
<1>1. /\ Good(st2) /\ Extended(st, st2, r) /\ st2.types = st.types /\ st2.pending = st.pending
      /\ st.barriers[r] = <<>> => st2.barriers[r] = <<>>
    BY PruneIs
<1>2. ConsStay(st, st2) /\ ItemsStay(st, st2) /\ st2.code = st.code
    BY <1>1 DEF Extended, ConsStay, ItemsStay
<1>3. \A z \in Reads : st.barriers[z] = <<>> => st2.barriers[z] = <<>>
    BY <1>1 DEF Extended
<1>4. \A y \in Scripts, use \in Uses : Guarded(st, y, use) => Guarded(st2, y, use)
    BY <1>1, <1>2, <1>3, GuardedStays
<1> QED
    BY <1>1, <1>2, <1>4, PruneProtects

\* Reading a set: what was relied on is guarded, and so is what is from now on.
LEMMA ReadSetGuards ==
    ASSUME ProgramAssumption, NEW st, Good(st), st.pending = <<>>, NEW o \in Ops,
           o.op \in {"freeze", "tag", "site"}, compiling.script \in Scripts,
           o.op = "site" => /\ Watches(st, compiling.script, Observed[o.set].script)
                            /\ HasBarrierCon(st, o.set),
           NEW st2, st2 = ReadSet(st, o)
    PROVE  /\ st2.pending = <<>> /\ st2.code = st.code /\ Protects(st, st2)
           /\ \A y \in Scripts, use \in Uses : Guarded(st, y, use) => Guarded(st2, y, use)
           /\ \A use \in Reliance(st, o) : Guarded(st2, compiling.script, use)
<1> DEFINE x == compiling.script
           T == st.types[o.set]
<1>0. o.set \in Sets /\ (o.op = "site" => o.set \in Reads)
    BY OpOK
<1>1. CASE o.op = "freeze"
    <2> DEFINE use == [kind |-> "freeze", set |-> o.set, types |-> T]
    <2>1. st2 = AddConstraint(st, o.set, FreezeBy("freeze", x), FALSE) /\ Reliance(st, o) = {use}
        BY <1>1 DEF ReadSet, Reliance
    <2>2. Watched(st, st2, o.set, FreezeBy("freeze", x))
        BY <1>0, <2>1, FreezeByOK, FreezeWatches
    <2>3. Holds(st2, use)
        BY <2>2 DEF Watched, Holds
    <2>4. FreezeGuard(st2, x, use)
        BY <2>2, <2>3 DEF Watched, FreezeGuard
    <2>5. Guarded(st2, x, use)
        BY <2>4 DEF Guarded
    <2> QED
        BY <2>1, <2>2, <2>5 DEF Watched
<1>2. CASE o.op = "tag" /\ KnownTag(T)
    <2> DEFINE use == [kind |-> "tag", set |-> o.set, types |-> T]
    <2>1. st2 = AddConstraint(st, o.set, FreezeBy("tag", x), FALSE) /\ Reliance(st, o) = {use}
        BY <1>2 DEF ReadSet, Reliance, KnownTag
    <2>2. Watched(st, st2, o.set, FreezeBy("tag", x))
        BY <1>0, <2>1, FreezeByOK, FreezeWatches
    <2>3. Holds(st2, use)
        BY <2>2 DEF Watched, Holds
    <2>4. TagGuard(st2, x, use)
        BY <1>2, <2>2, <2>3 DEF Watched, TagGuard
    <2>5. Guarded(st2, x, use)
        BY <2>4 DEF Guarded
    <2> QED
        BY <2>1, <2>2, <2>5 DEF Watched
<1>3. CASE o.op = "tag" /\ ~KnownTag(T)
    <2>1. st2 = st /\ Reliance(st, o) = {}
        BY <1>3 DEF ReadSet, Reliance, KnownTag
    <2> QED
        BY <2>1, SameProtects
<1>4. CASE o.op = "site"
    <2> DEFINE use == [kind |-> "unchecked", set |-> o.set, types |-> T]
               a == PruneTypeBarriers(st, o.set)
               b == AddConstraint(a, o.set, FreezeBy("freeze", x), FALSE)
    <2>1. /\ Good(a) /\ a.types = st.types /\ a.pending = <<>> /\ a.code = st.code
          /\ Protects(st, a)
          /\ \A y \in Scripts, u \in Uses : Guarded(st, y, u) => Guarded(a, y, u)
        BY <1>0, <1>4, PruneWatches
    <2>2. CASE a.barriers[o.set] # <<>> /\ compiling.jit = "mjit"
        <3>1. st2 = b /\ Reliance(st, o) = {}
            BY <1>4, <2>2 DEF ReadSet, Reliance
        <3> HIDE DEF a
        <3>2. Watched(a, b, o.set, FreezeBy("freeze", x))
            BY <1>0, <2>1, FreezeByOK, FreezeWatches
        <3> HIDE DEF b
        <3> QED
            BY <2>1, <3>1, <3>2, ProtectsTrans DEF Watched
    <2>3. CASE a.barriers[o.set] # <<>> /\ compiling.jit # "mjit"
        <3>1. st2 = a /\ Reliance(st, o) = {}
            BY <1>4, <2>3 DEF ReadSet, Reliance
        <3> QED
            BY <2>1, <3>1
    <2>4. CASE a.barriers[o.set] = <<>>
        <3>1. st2 = a /\ Reliance(st, o) = {use}
            BY <1>4, <2>4 DEF ReadSet, Reliance
        <3> HIDE DEF a
        <3>2. Watches(a, x, Observed[o.set].script) /\ HasBarrierCon(a, o.set)
            <4>1. Observed[o.set].script \in Scripts
                BY <1>0, <1>4, ObservedOK
            <4> QED
                BY <1>0, <1>4, <2>1, <4>1 DEF Protects
        <3>3. Guarded(a, x, use)
            BY <1>0, <1>4, <2>4, <3>2 DEF Guarded, SiteGuard
        <3> QED
            BY <2>1, <3>1, <3>3
    <2> QED
        BY <2>2, <2>3, <2>4
<1> QED
    BY <1>1, <1>2, <1>3, <1>4

\* A question leaves the worklist empty.
LEMMA ReadSetQuiet ==
    ASSUME ProgramAssumption, NEW st, Good(st), st.pending = <<>>, NEW o \in Ops,
           o.op \in {"freeze", "tag", "site"}, compiling.script \in Scripts
    PROVE  ReadSet(st, o).pending = <<>>
<1> DEFINE x == compiling.script
<1>0. o.set \in Sets /\ (o.op = "site" => o.set \in Reads)
    BY OpOK
<1>1. ASSUME NEW kind \in {"freeze", "tag"}, NEW a, Good(a), a.pending = <<>>
      PROVE  AddConstraint(a, o.set, FreezeBy(kind, x), FALSE).pending = <<>>
    <2>1. FreezeBy(kind, x) \in Constraints
        BY FreezeByOK
    <2>2. Watched(a, AddConstraint(a, o.set, FreezeBy(kind, x), FALSE), o.set, FreezeBy(kind, x))
        BY <1>0, <1>1, <2>1, FreezeWatches
    <2> QED
        BY <2>2 DEF Watched
<1>2. CASE o.op = "freeze"
    BY <1>1, <1>2 DEF ReadSet
<1>3. CASE o.op = "tag"
    BY <1>1, <1>3 DEF ReadSet
<1>4. CASE o.op = "site"
    <2> DEFINE a == PruneTypeBarriers(st, o.set)
    <2>1. Good(a) /\ a.pending = <<>>
        BY <1>0, <1>4, PruneWatches
    <2>2. \/ ReadSet(st, o) = a
          \/ ReadSet(st, o) = AddConstraint(a, o.set, FreezeBy("freeze", x), FALSE)
        BY <1>4 DEF ReadSet
    <2> HIDE DEF a
    <2> QED
        BY <1>1, <2>1, <2>2
<1> QED
    BY <1>2, <1>3, <1>4

\* A question keeps Sound: what is relied on from now on is guarded.
LEMMA ReadSound ==
    ASSUME ProgramAssumption, Flowing, Sound, Read
    PROVE  Sound'
<1> DEFINE o == Head(todo)
           x == compiling.script
           st2 == ReadSet(ti, o)
<1>1. /\ o \in Ops /\ o.op \in {"freeze", "tag", "site"} /\ todo # <<>> /\ todo \in Seq(Ops) /\ active
      /\ Good(ti) /\ ti \in States /\ ti.pending = <<>> /\ compiling # NoCompile /\ compiling \in Compilations
    BY Next1OK DEF Read, UseKinds
<1>2. /\ compiling \in [script : Scripts, jit : Jits, reads : SUBSET Uses]
      /\ x \in Scripts /\ compiling.reads \subseteq Uses
    BY <1>1, CompilingOK
<1>3. /\ Becomes(st2) /\ active' = active /\ enabled' = enabled /\ todo' = Tail(todo) /\ ran' = ran
      /\ compiling' = [compiling EXCEPT !.reads = @ \cup Reliance(ti, o)]
    BY DEF Read
<1>4. compiling'.script = x /\ compiling'.reads = compiling.reads \cup Reliance(ti, o)
    BY <1>2, <1>3
<1>5. Keeps(ti, st2)
    BY <1>1, <1>2, ReadSetKeeps
<1>6. InOrder(todo') /\ NoChanges(todo')
    BY <1>1, <1>3, TailOK DEF Sound, Ordered, UseKinds
<1>7. enabled
    BY <1>1, AsksLess DEF Sound, NukedInv
<1>8. ~ti.nuke /\ o.op = "site" =>
         Watches(ti, x, Observed[o.set].script) /\ HasBarrierCon(ti, o.set)
    <2> SUFFICES ASSUME ~ti.nuke, o.op = "site"
                 PROVE  Watches(ti, x, Observed[o.set].script) /\ HasBarrierCon(ti, o.set)
        OBVIOUS
    <2>1. o = todo[1] /\ 1 \in DOMAIN todo
        BY <1>1, HeadTail
    <2>2. /\ Analysed(ran, todo, Observed[o.set].script)
          /\ Contains(Analysis[Observed[o.set].script], BarrierOp(o.set))
          /\ Watches(ti, x, Observed[o.set].script)
        BY <2>1 DEF Sound, SitesReady, SitesIn
    <2>3. o.set \in Reads /\ Observed[o.set].script \in Scripts
        BY <1>1, OpOK, ObservedOK
    <2>4. HasBarrierCon(ti, o.set) \/ Contains(todo, BarrierOp(o.set))
        BY <2>2, <2>3 DEF Sound, Installed, InstalledIn
    <2>5. ~Contains(todo, BarrierOp(o.set))
        <3>1. BarrierOp(o.set).op = "constraint"
            BY BarrierOpIs
        <3>2. Contains(todo, BarrierOp(o.set)) => Contains(Tail(todo), BarrierOp(o.set))
            BY <1>1, <3>1, TailOK
        <3>3. \A k \in 1 .. Len(Tail(todo)) : k \in DOMAIN Tail(todo)
            BY <1>1
        <3>4. ~Contains(Tail(todo), BarrierOp(o.set))
            BY <1>3, <1>6, <3>1, <3>3 DEF Contains, NoChanges, ChangeKinds
        <3> QED
            BY <3>2, <3>4
    <2> QED
        BY <2>2, <2>4, <2>5
<1>9. ~ti.nuke => /\ st2.pending = <<>> /\ st2.code = ti.code /\ Protects(ti, st2)
                  /\ \A y \in Scripts, use \in Uses : Guarded(ti, y, use) => Guarded(st2, y, use)
                  /\ \A use \in Reliance(ti, o) : Guarded(st2, x, use)
    BY <1>1, <1>2, <1>8, ReadSetGuards
<1> HIDE DEF o, st2
<1>10. NukedInv'
    BY <1>1, <1>3, <1>7 DEF NukedInv
<1>11. (ti.nuke => ti'.nuke) /\ (ti'.nuke \/ ti' = st2)
    <2>1. CASE ti' = st2
        BY <1>5, <2>1 DEF Keeps
    <2>2. CASE ti' \in Lost(ti, st2)
        <3>1. ti'.nuke = TRUE
            BY <1>1, <1>5, <2>2, LostGood DEF Keeps
        <3> QED
            BY <3>1
    <2> QED
        BY <1>3, <2>1, <2>2 DEF Becomes
<1>12. ti'.pending = <<>>
    <2>1. CASE ti' \in Lost(ti, st2)
        BY <1>1, <1>5, <2>1, LostGood DEF Keeps
    <2>2. CASE ti' = st2
        \* Only a constraint was left, and nothing handed to it.
        <3>1. st2.pending = <<>>
            BY <1>1, <1>2, ReadSetQuiet DEF o, st2
        <3> QED
            BY <2>2, <3>1
    <2> QED
        BY <1>3, <2>1, <2>2 DEF Becomes
<1>13. Ordered'
    BY <1>6, <1>12 DEF Ordered
<1>14. CASE ti'.nuke
    BY <1>1, <1>3, <1>10, <1>13, <1>14, GivenUp DEF Sound
<1>15. CASE ~ti'.nuke
    <2>1. ~ti.nuke /\ ti' = st2
        BY <1>11, <1>15
    <2>2. CodeInv'
        <3>1. \A use \in compiling.reads : Guarded(ti, x, use)
            BY <1>1, <2>1 DEF Sound, CodeInv
        <3>2. \A use \in compiling'.reads : Guarded(ti', compiling'.script, use)
            BY <1>2, <1>4, <1>9, <2>1, <3>1
        <3>3. Protects(ti, ti') /\ active'
            BY <1>1, <1>3, <1>9, <2>1
        <3> QED
            BY <1>1, <2>1, <3>2, <3>3, CodeGoesOn DEF Sound
    <2>3. Installed' /\ SitesReady'
        <3>1. \A r \in Reads : Head(todo) # BarrierOp(r)
            BY <1>1, BarrierOpIs DEF o
        <3>2. Head(todo).op # "ran"
            BY <1>1 DEF o
        <3> QED
            BY <1>1, <1>3, <1>4, <1>9, <1>15, <2>1, <3>1, <3>2, TailReady DEF Protects
    <2>4. TagInv'
        BY <1>12, NothingMixed DEF TagInv
    <2> QED
        BY <1>10, <1>13, <2>2, <2>3, <2>4 DEF Sound
<1> QED
    BY <1>14, <1>15

\* Inlining keeps Sound: the inlined script's flags are watched before its
\* reads are.
LEMMA InlineSound ==
    ASSUME ProgramAssumption, Flowing, Sound, NEW b \in BOOLEAN, Inline(b)
    PROVE  Sound'
<1> DEFINE callee == Head(todo).script
           x == compiling.script
           c == FreezeBy("flags", x)
           e == EnsureRanInference(callee) \o Compilation[compiling.jit][callee]
<1>1. /\ Head(todo) \in Ops /\ Head(todo).op = "inline" /\ todo # <<>> /\ todo \in Seq(Ops) /\ active
      /\ Good(ti) /\ ti \in States /\ ti.pending = <<>> /\ compiling # NoCompile /\ compiling \in Compilations
      /\ Tail(todo) \in Seq(Ops)
    BY Next1OK DEF Inline, UseKinds
<1>2. active' = active /\ compiling' = compiling /\ ran' = ran /\ enabled' = enabled
    BY DEF Inline
<1>3. callee \in Scripts /\ callee \notin Sets
    BY <1>1, OpOK DEF ProgramAssumption
<1>4. x \in Scripts /\ compiling.jit \in Jits /\ compiling.reads \subseteq Uses
    BY <1>1, CompilingOK
<1>5. CASE b
    <2>1. callee \in ran /\ Becomes(AddConstraint(ti, callee, c, FALSE)) /\ todo' = e \o Tail(todo)
        BY <1>5 DEF Inline, CanInline
    <2>2. c \in Constraints /\ c.kind = "flags" /\ c.script = x
        BY <1>4, FreezeByOK DEF FreezeBy
    <2> DEFINE st2 == AddConstraint(ti, callee, c, FALSE)
    <2>3. Keeps(ti, st2) /\ Watched(ti, st2, callee, c)
        <3> HIDE DEF callee, c
        <3> QED
            BY <1>1, <1>3, <2>2, AddConstraintKeeps, FreezeWatches
    <2>4. \A st : Watches(st, x, callee) =>
             e \in Seq(Ops) /\ Whole(e) /\ SitesIn(st, ran, e, x) /\ NoChanges(e)
        BY <1>3, <1>4, <2>1, ReadyOK
    <2>5. Watches(st2, x, callee)
        <3> HIDE DEF st2, callee
        <3> QED
            BY <2>2, <2>3 DEF Watched, Watches
    <2>6. e \in Seq(Ops) /\ Whole(e) /\ NoChanges(e) /\ SitesIn(st2, ran, e, x)
        BY <2>4, <2>5
    <2> HIDE DEF st2, e, c, callee
    <2>7. NoChanges(Tail(todo))
        BY <1>1, TailOK DEF Sound, Ordered, UseKinds
    <2>8. InOrder(todo') /\ NoChanges(todo')
        BY <1>1, <2>1, <2>6, <2>7, ConcatOrder, NoUsesInOrder
    <2>9. enabled
        BY <1>1, AsksLess DEF Sound, NukedInv
    <2>10. NukedInv'
        BY <1>1, <1>2, <2>9 DEF NukedInv
    <2>11. /\ (ti.nuke => ti'.nuke) /\ (ti' = st2 \/ ti'.nuke)
           /\ ti'.pending = <<>>
        <3>1. CASE ti' = st2
            BY <2>3, <3>1 DEF Keeps, Watched
        <3>2. CASE ti' \in Lost(ti, st2)
            <4>1. ti'.nuke = TRUE /\ ti'.pending = ti.pending
                BY <1>1, <2>3, <3>2, LostGood DEF Keeps
            <4> QED
                BY <1>1, <4>1
        <3> QED
            BY <2>1, <3>1, <3>2 DEF Becomes, st2
    <2>12. Ordered'
        BY <2>8, <2>11 DEF Ordered
    <2>13. CASE ti'.nuke
        BY <1>1, <1>2, <2>10, <2>12, <2>13, GivenUp DEF Sound
    <2>14. CASE ~ti'.nuke
        <3>1. ti' = st2 /\ ~ti.nuke
            BY <2>11, <2>14
        <3>2. CodeInv'
            <4>1. \A use \in compiling.reads : Guarded(ti, x, use)
                BY <1>1, <3>1 DEF Sound, CodeInv
            <4>2. \A use \in compiling'.reads : Guarded(ti', compiling'.script, use)
                BY <1>2, <1>4, <2>3, <3>1, <4>1 DEF Watched
            <4>3. Protects(ti, ti') /\ active'
                BY <1>1, <1>2, <2>3, <3>1 DEF Watched
            <4> QED
                BY <1>1, <3>1, <4>2, <4>3, CodeGoesOn DEF Sound
        <3>3. \A r \in Reads : Head(todo) # BarrierOp(r)
            BY <1>1, BarrierOpIs
        <3>4. Protects(ti, st2)
            BY <2>3 DEF Watched
        <3>5. InstalledIn(ti, ran, todo) /\ SitesIn(ti, ran, todo, x)
            BY <3>1 DEF Sound, Installed, SitesReady
        <3>6. InstalledIn(st2, ran, Tail(todo))
            BY <1>1, <3>3, <3>4, <3>5, InstalledTail DEF Protects
        <3>7. SitesIn(st2, ran, Tail(todo), x)
            BY <1>1, <3>4, <3>5, SitesTail DEF Protects
        <3>8. InstalledIn(st2, ran, todo')
            BY <1>1, <2>1, <2>6, <3>6, InstalledConcat
        <3>9. SitesIn(st2, ran, todo', x)
            BY <1>1, <2>1, <2>6, <3>7, SitesConcat
        <3>10. Installed' /\ SitesReady'
            BY <1>2, <3>1, <3>8, <3>9 DEF Installed, SitesReady
        <3>11. TagInv'
            BY <2>11, NothingMixed DEF TagInv
        <3> QED
            BY <2>10, <2>12, <3>2, <3>10, <3>11 DEF Sound
    <2> QED
        BY <2>13, <2>14
<1>6. CASE ~b
    <2>1. ti' = ti /\ todo' = Tail(todo)
        BY <1>6 DEF Inline
    <2>2. \A r \in Reads : Head(todo) # BarrierOp(r)
        BY <1>1, BarrierOpIs
    <2>3. Protects(ti, ti') /\ TagOrder(ti')
        BY <1>1, <2>1, SameProtects, NothingMixed
    <2> QED
        BY <1>1, <1>2, <2>1, <2>2, <2>3, GoesOn
<1> QED
    BY <1>5, <1>6

-----------------------------------------------------------------------------
(* Entries into inference.                                                  *)

\* An activation begins with what it has to do in order.
LEMMA EnteredSound ==
    ASSUME ProgramAssumption, Flowing, Sound, ~active, ti' = ti, NEW ops \in Seq(Ops), Enter(ops),
           enabled' = enabled, ran' = ran, Whole(ops), InOrder(ops),
           compiling' = NoCompile \/ compiling'.reads = {},
           SitesIn(ti, ran, ops, compiling'.script),
           enabled \/ AsksNothing(compiling', ops)
    PROVE  Sound'
<1>1. todo = <<>> /\ ti.pending = <<>> /\ ti \in States
    BY DEF Flowing, Typed, Activity, Good
<1>2. active' = TRUE /\ todo' = ops
    BY DEF Enter
<1>3. Ordered'
    BY <1>2 DEF Ordered
<1>4. Installed'
    <2>1. ti.nuke \/ InstalledIn(ti, ran, <<>>)
        BY <1>1 DEF Sound, Installed
    <2>2. ti.nuke \/ InstalledIn(ti, ran, ops)
        BY <2>1, InstalledEntered
    <2> QED
        BY <1>2, <2>2 DEF Installed
<1>5. SitesReady'
    BY <1>2 DEF SitesReady
<1>6. CodeInv'
    BY <1>2 DEF Sound, CodeInv
<1>7. NukedInv'
    BY <1>2 DEF Sound, NukedInv
<1>8. TagInv'
    BY DEF Sound, TagInv
<1> QED
    BY <1>3, <1>4, <1>5, <1>6, <1>7, <1>8 DEF Sound

\* Without a compiler the types may change, but nothing is asked.
LEMMA EnteredToChange ==
    ASSUME ProgramAssumption, Flowing, Sound, ~active, ti' = ti, NEW ops \in Seq(Ops), Enter(ops),
           enabled, enabled' = enabled, ran' = ran, compiling' = compiling, Whole(ops), NoUses(ops)
    PROVE  Sound'
<1>1. compiling' = NoCompile
    BY DEF Flowing, Activity
<1>2. SitesIn(ti, ran, ops, compiling'.script)
    BY NoSites DEF NoUses, UseKinds
<1> QED
    BY <1>1, <1>2, NoUsesInOrder, EnteredSound

\* A compilation begins: first the types, then the questions.
LEMMA EnteredToCompile ==
    ASSUME ProgramAssumption, Flowing, Sound, ~active, ti' = ti, NEW j \in Jits, NEW x \in Scripts,
           Enter(EnsureRanInference(x) \o Compilation[j][x] \o <<[op |-> "link"]>>),
           enabled, enabled' = enabled, ran' = ran,
           compiling' = [script |-> x, jit |-> j, reads |-> {}]
    PROVE  Sound'
<1> DEFINE e == EnsureRanInference(x) \o Compilation[j][x]
           l == <<[op |-> "link"]>>
           ops == e \o l
<1>1. Watches(ti, x, x)
    BY DEF Watches
<1>2. e \in Seq(Ops) /\ Whole(e) /\ InOrder(e) /\ SitesIn(ti, ran, e, x)
    BY <1>1, ReadyOK
<1>3. l \in Seq(Ops) /\ \A k \in DOMAIN l : l[k].op = "link"
    <2>1. [op |-> "link"] \in Ops
        BY DEF Ops
    <2> HIDE DEF Ops
    <2> QED
        BY <2>1
<1> HIDE DEF e, l
<1>4. Whole(l) /\ NoChanges(l) /\ SitesIn(ti, ran, l, x)
    BY <1>3, WholeNoRan, NoSites DEF NoChanges, ChangeKinds
<1>5. ops \in Seq(Ops) /\ Whole(ops) /\ InOrder(ops) /\ SitesIn(ti, ran, ops, x)
    BY <1>2, <1>3, <1>4, ConcatOK, WholeConcat, ConcatOrder, SitesConcat
<1>6. Enter(ops) /\ compiling'.reads = {} /\ compiling'.script = x
    BY DEF e, l
<1> HIDE DEF ops
<1> QED
    BY <1>5, <1>6, EnteredSound

\* Every entry into inference keeps Sound.
LEMMA EntriesSound ==
    ASSUME ProgramAssumption, Flowing, Sound, Entries
    PROVE  Sound'
<1>1. ASSUME NEW s \in Sets, NEW t \in Types, Running, enabled, Enter(<<AddTypeOp(s, t)>>),
             UNCHANGED <<ti, compiling, ran, enabled, disabled, request, Budget>>
      PROVE  Sound'
    <2> DEFINE o == AddTypeOp(s, t)
    <2>1. o \in Ops /\ o.op = "type"
        BY DEF AddTypeOp, Ops, AnalysisOps
    <2> HIDE DEF o
    <2>2. <<o>> \in Seq(Ops) /\ \A k \in DOMAIN <<o>> : <<o>>[k].op = "type"
        BY <2>1
    <2> DEFINE ops == <<o>>
    <2>3. Enter(ops)
        BY <1>1 DEF o
    <2> HIDE DEF ops
    <2>4. ops \in Seq(Ops) /\ Whole(ops) /\ NoUses(ops)
        BY <2>2, WholeNoRan DEF NoUses, UseKinds, ops
    <2> QED
        BY <1>1, <2>3, <2>4, EnteredToChange DEF Running
<1>2. ASSUME NEW w \in Writes, Write(w[1], w[2]) PROVE Sound'
    <2>1. w[1] \in Sets /\ w[2] \in Types
        BY DEF ProgramAssumption
    <2> QED
        BY <1>1, <1>2, <2>1 DEF Write
<1>3. ASSUME NEW r \in Reads, NEW t \in Prims \cup Objects, NEW b \in BOOLEAN, Monitor(r, t, b)
      PROVE  Sound'
    <2>1. r \in Sets /\ t \in Types
        BY ObservedOK DEF Types
    <2>2. CASE ~b
        <3>1. <<>> \o <<AddTypeOp(r, t)>> = <<AddTypeOp(r, t)>>
            OBVIOUS
        <3> QED
            BY <1>1, <1>3, <2>1, <2>2, <3>1 DEF Monitor
    <2>3. CASE b
        <3> DEFINE o == [op |-> "break", set |-> r, all |-> FALSE]
                   p == AddTypeOp(r, t)
                   ops == <<o>> \o <<p>>
        <3>1. o \in Ops /\ p \in Ops /\ o.op = "break" /\ p.op = "type"
            BY <2>1 DEF AddTypeOp, Ops, AnalysisOps
        <3> HIDE DEF o, p
        <3>2. /\ ops \in Seq(Ops) /\ DOMAIN ops = {1, 2}
              /\ ops[1] = o /\ ops[2] = p
            BY <3>1
        <3>3. \A k \in DOMAIN ops : ops[k].op \notin UseKinds /\ ops[k].op # "ran"
            BY <3>1, <3>2 DEF UseKinds
        <3>4. /\ Enter(ops) /\ UNCHANGED <<ti, compiling, ran, enabled>> /\ ~active /\ enabled
            BY <1>3, <2>3 DEF Monitor, Running, o, p
        <3> HIDE DEF ops
        <3>5. Whole(ops) /\ NoUses(ops)
            BY <3>2, <3>3, WholeNoRan DEF NoUses
        <3> QED
            BY <3>2, <3>4, <3>5, EnteredToChange
    <2> QED
        BY <2>2, <2>3
<1>4. ASSUME NEW x \in Scripts, Analyze(x) PROVE Sound'
    <2>1. /\ EnsureRanInference(x) \in Seq(Ops) /\ Whole(EnsureRanInference(x))
          /\ NoUses(EnsureRanInference(x))
        BY EnsureOK, EnsureWhole
    <2>2. /\ Enter(EnsureRanInference(x)) /\ UNCHANGED <<ti, compiling, ran, enabled>>
          /\ ~active /\ enabled
        BY <1>4 DEF Analyze, Running
    <2> QED
        BY <2>1, <2>2, EnteredToChange
<1>5. ASSUME NEW r \in Reads, AnalyzeNewScript(r) PROVE Sound'
    <2> DEFINE o == [op |-> "break", set |-> r, all |-> TRUE]
               ops == <<o>>
    <2>1. o \in Ops /\ o.op = "break"
        BY <1>5 DEF AnalyzeNewScript, Ops
    <2>2. Enter(ops) /\ UNCHANGED <<ti, compiling, ran, enabled>> /\ ~active /\ enabled
        BY <1>5 DEF AnalyzeNewScript, Running
    <2> HIDE DEF o
    <2>3. ops \in Seq(Ops) /\ \A k \in DOMAIN ops : ops[k].op = "break"
        BY <2>1
    <2> HIDE DEF ops
    <2>4. Whole(ops) /\ NoUses(ops)
        BY <2>3, WholeNoRan DEF NoUses, UseKinds
    <2> QED
        BY <2>2, <2>3, <2>4, EnteredToChange
<1>6. ASSUME NEW x \in Scripts, IonCompile(x) PROVE Sound'
    <2>1. "ion" \in Jits
        BY DEF Jits
    <2>2. /\ Enter(EnsureRanInference(x) \o Compilation["ion"][x] \o <<[op |-> "link"]>>)
          /\ ti' = ti /\ ran' = ran /\ enabled' = enabled /\ ~active /\ enabled
          /\ compiling' = [script |-> x, jit |-> "ion", reads |-> {}]
        BY <1>6 DEF IonCompile, Running
    <2> QED
        BY <2>1, <2>2, EnteredToCompile
<1>7. ASSUME NEW x \in Scripts, NEW k \in {"interpreter", "jit"}, CanMethodJIT(x, k) PROVE Sound'
    <2>1. UNCHANGED <<ti, active, todo, compiling, ran, enabled>>
        BY <1>7 DEF CanMethodJIT
    <2> QED
        BY <2>1 DEF Sound, Ordered, Installed, SitesReady, CodeInv, NukedInv, TagInv
<1> QED
    BY <1>2, <1>3, <1>4, <1>5, <1>6, <1>7 DEF Entries

\* Starting the method jit keeps Sound.
LEMMA MethodCompileSound ==
    ASSUME ProgramAssumption, Flowing, Sound, MethodCompile
    PROVE  Sound'
<1> DEFINE x == request.script
           l == <<[op |-> "link"]>>
<1>1. x \in Scripts
    BY DEF MethodCompile, Flowing, Typed, Requests
<1>2. /\ ti' = ti /\ ran' = ran /\ enabled' = enabled /\ ~active
      /\ compiling' = [script |-> x, jit |-> "mjit", reads |-> {}]
    BY DEF MethodCompile
<1>3. CASE enabled
    <2>1. Enter(EnsureRanInference(x) \o Compilation["mjit"][x] \o <<[op |-> "link"]>>)
        BY <1>3 DEF MethodCompile
    <2>2. "mjit" \in Jits
        BY DEF Jits
    <2> HIDE DEF x
    <2> QED
        BY <1>1, <1>2, <1>3, <2>1, <2>2, EnteredToCompile
<1>4. CASE ~enabled
    <2>1. Enter(l)
        BY <1>4 DEF MethodCompile
    <2>2. l \in Seq(Ops) /\ \A k \in DOMAIN l : l[k].op = "link"
        <3>1. [op |-> "link"] \in Ops
            BY DEF Ops
        <3> HIDE DEF Ops
        <3> QED
            BY <3>1
    <2> HIDE DEF l, x
    <2>3. Whole(l) /\ InOrder(l) /\ SitesIn(ti, ran, l, x)
        BY <2>2, WholeNoRan, NoSites, NoUsesInOrder DEF NoChanges, ChangeKinds
    <2>4. compiling'.reads = {} /\ compiling'.script = x
        BY <1>2
    <2>5. AsksNothing(compiling', l)
        BY <2>2, <2>4 DEF AsksNothing
    <2> QED
        BY <1>2, <2>1, <2>2, <2>3, <2>4, <2>5, EnteredSound
<1> QED
    BY <1>3, <1>4

\* There is no code before the first script runs.
LEMMA SoundInit ==
    ASSUME ProgramAssumption, Init
    PROVE  Sound
<1>1. /\ active = FALSE /\ todo = <<>> /\ compiling = NoCompile /\ ran = {} /\ enabled = TRUE
      /\ ti.pending = <<>> /\ ti.nuke = FALSE /\ ti.recompiles = {}
      /\ ti.code = [s \in Scripts |-> [j \in Jits |-> NoCode]]
    BY DEF Init
<1>2. Ordered /\ SitesReady
    BY <1>1 DEF Ordered, InOrder, SitesReady, SitesIn
<1>3. Installed
    <2>1. \A x : ~Analysed({}, <<>>, x)
        BY DEF Analysed, Contains
    <2> QED
        BY <1>1, <2>1 DEF Installed, InstalledIn
<1>4. CodeInv
    <2>1. CodeGuarded(ti)
        BY <1>1 DEF CodeGuarded, NoCode
    <2> QED
        BY <1>1, <2>1 DEF CodeInv
<1>5. NukedInv /\ TagInv
    BY <1>1, NothingMixed DEF NukedInv, TagInv
<1> QED
    BY <1>2, <1>3, <1>4, <1>5 DEF Sound

\* Every step keeps Sound.
LEMMA SoundNext ==
    ASSUME ProgramAssumption, Flowing, Sound, [Next]_vars
    PROVE  Sound'
<1>1. CASE Entries
    BY <1>1, EntriesSound
<1>2. CASE Collections
    BY <1>2, CollectCodeSound, SweepSound DEF Collections
<1>3. CASE Answer
    BY <1>3 DEF Answer, Sound, Ordered, Installed, SitesReady, CodeInv, NukedInv, TagInv
<1>4. CASE Work
    BY <1>3, <1>4, ResolveSound, ModifySound, ReadSound, RanSound, EnsuredSound, LinkSound,
       LeaveSound, InlineSound, MethodCompileSound DEF Work
<1>5. CASE UNCHANGED vars
    BY <1>5 DEF vars, Sound, Ordered, Installed, SitesReady, CodeInv, NukedInv, TagInv
<1> QED
    BY <1>1, <1>2, <1>4, <1>5 DEF Next

-----------------------------------------------------------------------------
(* Code that scripts may run.                                               *)

\* Between activations what is guarded holds: nothing is on the worklist that
\* could yet fire.
LEMMA UsesHold ==
    ASSUME ProgramAssumption, Flowing, Sound, ~active, NEW s \in Scripts, NEW j \in Jits,
           NEW use \in ti.code[s][j].reads, use.kind # "tag" \/ Breaks = {}
    PROVE  Holds(ti, use)
<1>1. ti \in States /\ ti.pending = <<>>
    BY DEF Flowing, Typed, Activity, Good
<1>2. ~ti.nuke
    BY DEF Sound, NukedInv, NoReliance
<1>3. use \in Uses
    <2>1. ti.code[s][j] \in Codes
        BY <1>1, FieldsOK
    <2> QED
        BY <2>1 DEF Codes
<1>4. Guarded(ti, s, use)
    BY <1>2 DEF Sound, CodeInv, CodeGuarded
<1>5. CASE use.kind = "freeze"
    BY <1>1, <1>4, <1>5 DEF Guarded, FreezeGuard
<1>6. CASE use.kind = "tag"
    BY <1>1, <1>4, <1>6 DEF Guarded, TagGuard
<1>7. CASE use.kind = "unchecked"
    <2> DEFINE r == use.set
    <2>1. r \in Reads /\ ti.barriers[r] = <<>> /\ HasBarrierCon(ti, r)
        BY <1>4, <1>7 DEF Guarded, SiteGuard
    <2>2. PICK i \in DOMAIN ti.cons[Observed[r].source] :
             ti.cons[Observed[r].source][i] = [kind |-> "barrier", target |-> r]
        BY <2>1 DEF HasBarrierCon
    <2>3. Observed[r].source \in Sets
        BY <2>1, ObservedOK
    <2>4. ASSUME NEW t \in ti.types[Observed[r].source] PROVE HasType(ti.types[r], t)
        <3>1. Satisfied(ti, ti.cons[Observed[r].source][i], t)
            BY <1>1, <1>2, <2>3 DEF Flowing, FlowInv, FlowIn, Owed
        <3>2. Covered(ti, r, t)
            BY <2>2, <3>1 DEF Satisfied
        <3> QED
            BY <2>1, <3>2 DEF Covered, Contains
    <2> QED
        BY <1>7, <2>4 DEF Holds
<1> QED
    BY <1>3, <1>5, <1>6, <1>7, UseOK

\* Between activations, all code that scripts may run relies only on what is so:
\* the types it froze are the set's, the tag it was compiled for is the set's,
\* and a read without a check meets no type that it has not seen
\* (addPendingRecompile, processPendingRecompiles, TypeConstraintFreeze and
\* TypeConstraintFreezeTypeTag).  For every program in which no constructor's
\* barriers are broken all at once; where they are, run broken shows the tag
\* to fail.
THEOREM CodeStaysSound == ProgramAssumption /\ Breaks = {} => (Spec => []CodeSound)
<1> SUFFICES ASSUME ProgramAssumption, Breaks = {} PROVE Spec => []CodeSound
    OBVIOUS
<1>1. Init => Flowing /\ Sound
    BY FlowingInit, SoundInit
<1>2. Flowing /\ Sound /\ [Next]_vars => Flowing' /\ Sound'
    BY FlowingNext, SoundNext
<1>3. Flowing /\ Sound => CodeSound
    BY UsesHold DEF CodeSound
<1> QED
    BY <1>1, <1>2, <1>3, PTL DEF Spec

\* Between activations, every use of compiled code but those of tags holds.
UntaggedSound ==
    ~active => \A s \in Scripts, j \in Jits : \A use \in ti.code[s][j].reads :
        use.kind # "tag" => Holds(ti, use)

\* The same without that condition, of every use but tags: breaking all barriers
\* of a constructor's reads (AnalyzeNewScriptProperties) is sound for code that
\* froze a set (TypeConstraintFreeze) or reads without a check.
THEOREM UntaggedStaySound == ProgramAssumption => (Spec => []UntaggedSound)
<1> SUFFICES ASSUME ProgramAssumption PROVE Spec => []UntaggedSound
    OBVIOUS
<1>1. Init => Flowing /\ Sound
    BY FlowingInit, SoundInit
<1>2. Flowing /\ Sound /\ [Next]_vars => Flowing' /\ Sound'
    BY FlowingNext, SoundNext
<1>3. Flowing /\ Sound => UntaggedSound
    BY UsesHold DEF UntaggedSound
<1> QED
    BY <1>1, <1>2, <1>3, PTL DEF Spec

\* Types are given up (TypeCompartment::setPendingNukeTypes) only within an
\* activation, whose end carries it out (AutoEnterTypeInference's destructor):
\* when the sweep's allocations succeed, no script runs with inference enabled
\* after a failed allocation.
THEOREM TypesNukedAtOnce == ProgramAssumption /\ ~SweepOom => (Spec => []NukedAtOnce)
<1> SUFFICES ASSUME ProgramAssumption, ~SweepOom PROVE Spec => []NukedAtOnce
    OBVIOUS
<1>1. Init => Flowing /\ NukedAtOnce
    <2>1. Init => ti.nuke = FALSE
        BY DEF Init
    <2> QED
        BY <2>1, FlowingInit DEF NukedAtOnce
<1>2. Flowing /\ NukedAtOnce /\ [Next]_vars => Flowing' /\ NukedAtOnce'
    <2> SUFFICES ASSUME Flowing, NukedAtOnce, [Next]_vars PROVE NukedAtOnce'
        BY FlowingNext
    <2>1. CASE Entries
        BY <2>1 DEF Entries, Write, Monitor, Analyze, AnalyzeNewScript, IonCompile, CanMethodJIT,
                    Enter, NukedAtOnce
    <2>2. CASE CollectCode
        BY <2>2 DEF CollectCode, NukedAtOnce
    <2>3. ASSUME NEW dead \in SUBSET Objects, NEW release \in BOOLEAN, Sweep(dead, release)
          PROVE  NukedAtOnce'
        <3>1. ti'.nuke = ti.nuke /\ active' = active /\ enabled' = enabled
            <4>1. ti \in States
                BY DEF Flowing, Typed, Good
            <4> QED
                BY <2>3, <4>1 DEF Sweep, States
        <3> QED
            BY <3>1 DEF NukedAtOnce
    <2>4. CASE Leave
        <3>1. ti'.nuke = ti.nuke
            BY <2>4, LeaveOK
        <3> QED
            BY <2>4, <3>1 DEF Leave, NukedAtOnce
    <2>5. CASE Resolve \/ Modify \/ Read \/ RunInference \/ Ensured \/ Link \/ \E i \in BOOLEAN : Inline(i)
        BY <2>5 DEF Resolve, Modify, Read, RunInference, Ensured, Link, Inline, Next1, NukedAtOnce
    <2>6. CASE Answer \/ MethodCompile
        BY <2>6 DEF Answer, MethodCompile, Enter, NukedAtOnce
    <2>7. CASE UNCHANGED vars
        BY <2>7 DEF vars, NukedAtOnce
    <2> QED
        BY <2>1, <2>2, <2>3, <2>4, <2>5, <2>6, <2>7 DEF Next, Collections, Work
<1> QED
    BY <1>1, <1>2, PTL DEF Spec

=============================================================================
