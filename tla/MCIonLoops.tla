------------------------------ MODULE MCIonLoops ------------------------------
(* What Ion moves out of loops.  A behaviour takes a program through the     *)
(* passes of LoopMotion, or a loop through those of BoundsChecks.            *)
EXTENDS LoopMotion

CONSTANT Checked    \* "motion", and the kinds of loops with bounds checks

VARIABLES part, loop, stage, checks, next, before, env, touched

boundsVars == <<loop, stage, checks, next, before, env, touched>>

-----------------------------------------------------------------------------
(* Programs of loads, stores and computations in two nested loops. *)

AllSlots == <<2, 3, 4, 5, 5, 6>>

Ins(kind, set, operand) == [kind |-> kind, set |-> set, operand |-> operand]

\* What an instruction may be: memory operations on parameters, and computations and
\* loads whose operand is an instruction that dominates it, or a phi.  The body of the
\* inner loop has all choices.
Before(slots, d) == {e \in 1..(d - 1) : Dominates(slots[e], slots[d])}
Options(slots, d) ==
    {Ins("load", {"a"}, Param)}
        \cup (IF slots[d] \in {3, 5, 6} THEN {Ins("store", {"a"}, Param)} ELSE {})
        \cup (IF slots[d] \in {3, 5} THEN {Ins("store", {"b"}, Param)} ELSE {})
        \cup (IF slots[d] = 5 THEN {Ins("load", {"a", "b"}, Param), Ins("pure", {}, OuterPhi), Ins("pure", {}, InnerPhi)}
              ELSE {})
        \cup {Ins("pure", {}, o) : o \in Before(slots, d)}
        \cup {Ins("load", {"b"}, o) : o \in Before(slots, d) \cap {d - 1}}

Loops(slots) ==
    {p \in {<<t, u, v, w, x, y>> :
                t \in Options(slots, 1), u \in Options(slots, 2), v \in Options(slots, 3), w \in Options(slots, 4),
                x \in Options(slots, 5), y \in Options(slots, 6)} :
        \A d \in DOMAIN p : p[d].operand > 0 => p[p[d].operand].kind # "store"}

AllPrograms == Loops(AllSlots)

-----------------------------------------------------------------------------
(* Loops with bounds checks. *)

E(base, ops) == [base |-> base, constant |-> 0, ops |-> ops, truncated |-> FALSE]
C(n) == [base |-> "none", constant |-> n, ops |-> <<>>, truncated |-> FALSE]
Add(n) == <<[kind |-> "add", c |-> n]>>
Op(k, n) == <<[kind |-> k, c |-> n]>>
I == E("i", <<>>)
N == E("n", <<>>)
Test(l, op, r, branch) == [left |-> l, op |-> op, right |-> r, branch |-> branch]
Program(back, tests, index) == [back |-> back, tests |-> tests, index |-> index, fixed |-> TRUE]

\* for (i = init; i < n; i++) and its variations.
Backs == {{E("i", Add(1))}, {E("i", Add(1)), I}, {E("i", Op("sub", 1))}, {E("i", Op("addr", 2))},
          {E("i", Add(1)), N}, {E("init", <<>>), E("i", Add(2))}, {E("i", Op("sub", -1)), E("v", <<>>)}}
SomeTests == {Test(I, "lt", N, TRUE), Test(N, "gt", I, TRUE), Test(I, "ge", N, FALSE),
              Test(E("i", Add(1)), "le", E("n", Op("sub", 2)), TRUE), Test(I, "lt", C(3), TRUE),
              Test(I, "gt", N, TRUE), Test(E("i", Add(5) \o Add(4)), "lt", N, TRUE),
              Test(I, "lt", E("v", <<>>), TRUE), Test(I, "eq", N, TRUE)}
OneIndex == {<<I>>, <<E("i", Add(1))>>, <<E("i", Op("sub", 2))>>, <<N>>, <<C(2)>>,
             <<E("i", Op("subr", 3))>>, <<E("i", Add(6) \o Add(5))>>}
TwoIndexes == {<<E("i", Add(1)), E("i", Op("sub", 1))>>, <<I, E("i", Add(2))>>,
               <<E("n", Add(1)), E("n", Op("addr", 3))>>, <<C(1), C(3)>>, <<I, N>>}

Up == {E("i", Add(1))}
Below == Test(I, "lt", N, TRUE)

Counting ==
    {Program(b, <<t>>, <<I>>) : b \in Backs, t \in SomeTests}
        \cup {Program(b, <<Below>>, x) : b \in Backs, x \in OneIndex \cup TwoIndexes}
        \cup {Program(Up, <<t>>, x) : t \in SomeTests, x \in OneIndex \cup TwoIndexes}
        \cup {Program(Up, <<s, Below>>, <<I>>) : s \in SomeTests}
        \cup {[Program(Up, <<Below>>, x) EXCEPT !.fixed = FALSE] : x \in TwoIndexes}

\* i = (i + 1) | 0: the sum is truncated and the | 0 folded away.
Truncated ==
    {Program({[E("i", Add(1)) EXCEPT !.truncated = TRUE]}, <<Test(I, "lt", N, TRUE)>>, <<I>>)}

\* a[i], a[i - 5], a[i + 5].
Wide == {Program(Up, <<Test(I, "gt", N, TRUE)>>, <<I, E("i", Op("sub", 5)), E("i", Add(5))>>)}

\* if (2 < i).
ConstantFirst == {Program(Up, <<Test(C(2), "lt", I, TRUE)>>, <<I>>)}

SomeValues == {-8, -2, -1, 0, 1, 3, 6, 7}

\* The others show where the code breaks its promise.
LoopsOf(k) ==
    CASE k = "counting" -> Counting [] k = "truncated" -> Truncated
      [] k = "wide" -> Wide [] OTHER -> ConstantFirst

Checks == INSTANCE BoundsChecks WITH
    program <- loop, phase <- stage, Bits <- 4, Values <- SomeValues, Volatile <- {1, 6},
    Programs <- UNION {LoopsOf(k) : k \in Checked \ {"motion"}}

ASSUME LoopsAssumption == Checks!BoundsChecksAssumption

-----------------------------------------------------------------------------
\* The part that does not run has not begun.
MCInit ==
    \/ /\ part = "motion" /\ "motion" \in Checked /\ Init
       /\ loop = <<>> /\ stage = "none" /\ checks = <<>> /\ next = 0 /\ before = {}
       /\ env = <<>> /\ touched = {}
    \/ /\ part = "bounds" /\ Checked # {"motion"} /\ Checks!Init
       /\ program = <<>> /\ blocks = <<>> /\ phase = "none" /\ at = 0 /\ stores = <<>>
       /\ loops = <<>> /\ dep = <<>> /\ header = 0 /\ worklist = <<>> /\ invariant = {}
       /\ toHoist = <<>>

MCNext ==
    /\ \/ part = "motion" /\ Next /\ UNCHANGED boundsVars
       \/ part = "bounds" /\ Checks!Next /\ UNCHANGED vars
    /\ UNCHANGED part

MCSpec == MCInit /\ [][MCNext]_<<vars, boundsVars, part>>

(* The properties of LoopMotion and BoundsChecks, of the part that runs.    *)

\* The program reads what it read before the instructions were moved, and so
\* do loads that value numbering merges because their dependency is the same;
\* an instruction stands behind its operands, and what could be moved was.
MotionSound ==
    part = "motion" =>
        TypeOK /\ SameDependency /\ SameValues /\ OperandsFirst /\ NothingLeftInLoop

\* The loop accesses no element outside the array, and a coalesced check covers
\* the checks it stands for.
ChecksSound ==
    part = "bounds" => Checks!TypeOK /\ Checks!InBounds /\ Checks!RangeCheckCovers

\* LinearTerm: a term may be missing where LICM looks at it.
TermsMayBeMissing == part = "bounds" => Checks!TermsMayBeMissing
=============================================================================
