---------------------------- MODULE BoundsChecks ----------------------------
(***************************************************************************)
(* Bounds checks of array accesses in a loop: two checks that differ by a  *)
(* constant become one (MBoundsCheck, ion/MIR.cpp), a check of the loop's  *)
(* counter becomes two checks before the loop (ion/LICM.cpp), and what is  *)
(* left is run as ion/CodeGenerator.cpp translates it.                     *)
(*                                                                         *)
(* The loop is                                                             *)
(*     i = phi(init, back);  if (tests) access a[index], a[index];  i = back *)
(* where back is one of several expressions, as a phi inside the loop      *)
(* makes it.  All numbers are signed integers of Bits bits.                *)
(***************************************************************************)
EXTENDS Integers, Sequences, FiniteSets, SequencesExt

CONSTANTS
    Bits,     \* bound: the width of an integer
    Programs, \* the loops
    Values,   \* bound: the values of init, n and of the length
    Volatile  \* bound: the values of v

Lo == -(2 ^ (Bits - 1))
Hi == 2 ^ (Bits - 1) - 1
InRange(x) == x \in Lo..Hi
Wrap(x) == ((x - Lo) % 2 ^ Bits) + Lo
Unsigned(x) == x % 2 ^ Bits

\* Operands: the counter, a value set before the loop, one that changes in the
\* loop, the counter's first value, or a constant.
Bases == {"i", "n", "v", "init", "none"}

\* What is done to an operand: x + c, c + x, x - c or c - x.
Kinds == {"add", "addr", "sub", "subr"}
Exprs == [base : Bases, constant : Lo..Hi, ops : Seq([kind : Kinds, c : Lo..Hi]), truncated : BOOLEAN]
Comparisons == [left : Exprs, right : Exprs, op : {"lt", "le", "gt", "ge", "eq"}, branch : BOOLEAN]

BoundsChecksAssumption ==
    /\ Bits \in Nat \ {0, 1} /\ Values \subseteq Lo..Hi /\ Volatile \subseteq Lo..Hi
    /\ \A p \in Programs :
        /\ DOMAIN p = {"back", "tests", "index", "fixed"}
        /\ p.back \subseteq Exprs /\ p.back # {}
        /\ p.tests \in Seq(Comparisons) /\ p.index \in Seq(Exprs) /\ p.fixed \in BOOLEAN

VARIABLES
    program, \* the loop; program.fixed: its array's length does not change
    phase,   \* "coalesce", "hoist", "compiled", "loop", "bailout", "exit" or "crashed"
    checks,  \* the checks in the loop: [index, minimum, maximum]
    next,    \* the check that is looked at
    before,  \* the checks before the loop; a "lower" one has no maximum
    env,     \* the values of the operands and of the length
    touched  \* the elements that the last trip has accessed

vars == <<program, phase, checks, next, before, env, touched>>

-----------------------------------------------------------------------------
(* Linear sums (ion/LICM.cpp). *)

Null == [base |-> "none", ops |-> <<>>]

Sum(term, n) == [term |-> term, constant |-> n]

ExtractLinearSum(e) ==
    LET sum[k \in 0..Len(e.ops)] ==
            IF k = 0 THEN Sum([base |-> e.base, ops |-> <<>>], e.constant)
            ELSE LET o == e.ops[k]
                     s == sum[k - 1]
                     n == IF o.kind = "sub" THEN s.constant - o.c ELSE s.constant + o.c
                 IN  IF o.kind = "subr" \/ ~InRange(n)
                     THEN Sum([base |-> e.base, ops |-> SubSeq(e.ops, 1, k)], 0)
                     ELSE Sum(s.term, n)
    IN  sum[Len(e.ops)]

NegateCompareOp(op) ==
    CASE op = "lt" -> "ge" [] op = "le" -> "gt" [] op = "gt" -> "le" [] op = "ge" -> "lt"
      [] OTHER -> "ne"

\* The inequality lhs + constant <= rhs, or >=, which holds where the test leads;
\* a set with at most one.
ExtractLinearInequality(test) ==
    LET op == IF test.branch THEN test.op ELSE NegateCompareOp(test.op)
        l == ExtractLinearSum(test.left)
        r == ExtractLinearSum(test.right)
        n == (l.constant - r.constant) + (CASE op = "lt" -> 1 [] op = "gt" -> -1 [] OTHER -> 0)
    IN  IF InRange(l.constant - r.constant) /\ InRange(n) /\ op \in {"lt", "le", "gt", "ge"}
        THEN {[lhs |-> l.term, constant |-> n, rhs |-> r.term, lessEqual |-> op \in {"lt", "le"}]}
        ELSE {}

IsLoopInvariant(term) == term.base \in {"n", "init", "none"}
IsPhi(term) == term = [base |-> "i", ops |-> <<>>]

\* Bug: a counter that goes down is not noticed.
NonDecreasingOrNot == \A e \in program.back : e.base \in {"i", "init"}

\* The counter never gets smaller than init.
NonDecreasing ==
    \A e \in program.back :
        e.base \in {"i", "init"} /\ \A k \in DOMAIN e.ops : e.ops[k].kind = "add" /\ e.ops[k].c >= 0

-----------------------------------------------------------------------------
(* Coalescing (MBoundsCheck::congruentTo and updateForReplacement). *)

Init ==
    /\ program \in Programs
    /\ phase = "coalesce" /\ next = 2
    /\ checks = [k \in DOMAIN program.index |->
                    [index |-> program.index[k], minimum |-> 0, maximum |-> 0]]
    /\ before = {}
    /\ env = <<>> /\ touched = {}

Congruent(c, d) == ExtractLinearSum(c.index).term = ExtractLinearSum(d.index).term

\* The range of c that covers d too, relative to the index of c.
RangeOfBoth(c, d) ==
    LET a == ExtractLinearSum(c.index).constant
        b == ExtractLinearSum(d.index).constant
    IN  <<(IF a + c.minimum < b + d.minimum THEN a + c.minimum ELSE b + d.minimum) - a,
          (IF a + c.maximum > b + d.maximum THEN a + c.maximum ELSE b + d.maximum) - a>>

\* No sum on the way may overflow.
SafeRange(c, d) ==
    LET a == ExtractLinearSum(c.index).constant
        b == ExtractLinearSum(d.index).constant
    IN  {a + c.minimum, a + c.maximum, b + d.minimum, b + d.maximum,
         RangeOfBoth(c, d)[1], RangeOfBoth(c, d)[2]} \subseteq Lo..Hi

\* The next check goes if the first one with the same term can stand for it.
Coalesce ==
    /\ phase = "coalesce" /\ next <= Len(checks)
    /\ LET d == checks[next]
           first == CHOOSE j \in 1..next : /\ Congruent(checks[j], d)
                                          /\ \A k \in 1..(j - 1) : ~Congruent(checks[k], d)
           c == checks[first]
           r == RangeOfBoth(c, d)
       IN  IF first < next /\ SafeRange(c, d)
           THEN /\ checks' = RemoveAt([checks EXCEPT ![first].minimum = r[1], ![first].maximum = r[2]], next)
                /\ next' = next
           ELSE checks' = checks /\ next' = next + 1
    /\ UNCHANGED <<program, phase, before, env, touched>>

CoalesceDone ==
    /\ phase = "coalesce" /\ next > Len(checks)
    /\ phase' = "hoist" /\ next' = 1
    /\ UNCHANGED <<program, checks, before, env, touched>>

-----------------------------------------------------------------------------
(* Hoisting (Loop::hoistInstructions and tryHoistBoundsCheck). *)

\* Both sides of an inequality whose right side changes in the loop change places.
Swaps(q) == q.rhs # Null /\ ~IsLoopInvariant(q.rhs)
Turned(q) == [lhs |-> q.rhs, constant |-> -q.constant, rhs |-> q.lhs, lessEqual |-> ~q.lessEqual]

\* isLoopInvariant is asked about the left side of such an inequality, a null
\* pointer if that side is a constant.
AsksAboutNull(test) ==
    program.fixed /\ \E q \in ExtractLinearInequality(test) : Swaps(q) /\ q.lhs = Null

\* The checks before the loop that, with the test, imply c; at most one pair.
TryHoistBoundsCheck(c, test) ==
    LET index == ExtractLinearSum(c.index)
        Pair(q) ==
            LET adjustment == index.constant - q.constant
                upper == adjustment + c.maximum
                lower == -index.constant - c.minimum
            IN  IF q.lessEqual /\ IsPhi(q.lhs) /\ index.term = q.lhs
                   /\ {adjustment, upper, -index.constant, lower} \subseteq Lo..Hi /\ NonDecreasing
                THEN {<<IF q.rhs = Null
                        THEN [kind |-> "range", base |-> Null, constant |-> upper, minimum |-> 0, maximum |-> 0]
                        ELSE [kind |-> "range", base |-> q.rhs, constant |-> 0,
                              minimum |-> upper, maximum |-> upper],
                        [kind |-> "lower", minimum |-> lower]>>}
                ELSE {}
    IN  UNION {CASE ~Swaps(q) -> Pair(q)
                 [] Swaps(q) /\ IsLoopInvariant(q.lhs) /\ InRange(-q.constant) -> Pair(Turned(q))
                 [] OTHER -> {} : q \in IF program.fixed THEN ExtractLinearInequality(test) ELSE {}}

\* A check whose index and length do not change moves before the loop.
HoistInvariant ==
    /\ phase = "hoist" /\ next <= Len(checks)
    /\ LET c == checks[next]
       IN  /\ program.fixed /\ IsLoopInvariant([base |-> c.index.base, ops |-> <<>>])
           /\ before' = before \cup {[kind |-> "same", index |-> c.index,
                                      minimum |-> c.minimum, maximum |-> c.maximum]}
    /\ checks' = RemoveAt(checks, next)
    /\ UNCHANGED <<program, phase, next, env, touched>>

\* Another one is replaced with the help of the innermost test that allows it.
HoistCheck ==
    /\ phase = "hoist" /\ next <= Len(checks)
    /\ LET c == checks[next]
           tests == program.tests
           useful == {k \in DOMAIN tests : TryHoistBoundsCheck(c, tests[k]) # {}}
           chosen == CHOOSE k \in useful : \A j \in useful : j <= k
           asked == {k \in DOMAIN tests : useful = {} \/ k >= chosen}
       IN  /\ ~(program.fixed /\ IsLoopInvariant([base |-> c.index.base, ops |-> <<>>]))
           /\ IF \E k \in asked : AsksAboutNull(tests[k])
              THEN phase' = "crashed" /\ UNCHANGED <<checks, next, before>>
              ELSE IF useful = {}
              THEN next' = next + 1 /\ UNCHANGED <<phase, checks, before>>
              ELSE /\ checks' = RemoveAt(checks, next)
                   /\ \E pair \in TryHoistBoundsCheck(c, tests[chosen]) :
                        before' = before \cup {pair[1], pair[2]}
                   /\ UNCHANGED <<phase, next>>
    /\ UNCHANGED <<program, env, touched>>

HoistDone ==
    /\ phase = "hoist" /\ next > Len(checks)
    /\ phase' = "compiled"
    /\ UNCHANGED <<program, checks, next, before, env, touched>>

-----------------------------------------------------------------------------
(* The generated code. *)

Apply(o, x) == CASE o.kind = "sub" -> x - o.c [] o.kind = "subr" -> o.c - x [] OTHER -> x + o.c

\* The value of an operand to which ops are applied, and whether a sum overflows.
Eval(v, base, constant, ops) ==
    FoldLeft(LAMBDA acc, o : [value |-> Wrap(Apply(o, acc.value)),
                              overflow |-> acc.overflow \/ ~InRange(Apply(o, acc.value))],
             [value |-> IF base = "none" THEN constant ELSE v[base], overflow |-> FALSE], ops)

Value(v, e) == Eval(v, e.base, e.constant, e.ops).value
Bails(v, e) == ~e.truncated /\ Eval(v, e.base, e.constant, e.ops).overflow

\* visitBoundsCheck and visitBoundsCheckRange for the index x.
RangePasses(x, isConstant, minimum, maximum, length) ==
    IF isConstant /\ InRange(x + minimum) /\ InRange(x + maximum) /\ x + minimum >= 0
    THEN Unsigned(length) > Unsigned(x + maximum)
    ELSE LET wide == ~InRange(maximum - minimum)
             shifted == minimum # maximum /\ minimum # 0
             t == IF shifted /\ ~wide THEN x + minimum ELSE x
             max == IF shifted /\ ~wide THEN maximum - minimum ELSE maximum
         IN  /\ shifted => InRange(x + minimum)
             /\ minimum # maximum => t >= 0
             /\ max < 0 => InRange(t + max)
             /\ Unsigned(length) > Unsigned(Wrap(t + max))

Passes(v, c) ==
    CASE c.kind = "lower" -> v["init"] >= c.minimum
      [] c.kind = "same" -> RangePasses(Value(v, c.index), c.index.base = "none",
                                        c.minimum, c.maximum, v["length"])
      [] OTHER -> RangePasses(Eval(v, c.base.base, c.constant, c.base.ops).value, c.base = Null,
                              c.minimum, c.maximum, v["length"])

Lengths == {x \in Values : x >= 0}

\* The loop is entered.
Enter ==
    /\ phase = "compiled"
    /\ \E init, n \in Values, v \in Volatile, length \in Lengths :
        LET values == [init |-> init, i |-> init, n |-> n, v |-> v, length |-> length]
        IN  /\ env' = values
            /\ phase' = IF \A c \in before : Passes(values, c) THEN "loop" ELSE "bailout"
    /\ UNCHANGED <<program, checks, next, before, touched>>

Holds(t) ==
    LET l == Value(env, t.left)
        r == Value(env, t.right)
    IN  CASE t.op = "lt" -> l < r [] t.op = "le" -> l <= r [] t.op = "gt" -> l > r
          [] t.op = "ge" -> l >= r [] OTHER -> l = r

TestBails(t) == Bails(env, t.left) \/ Bails(env, t.right)

\* The first test that overflows or does not lead to the accesses, if there is one.
Stops ==
    LET ends == {k \in DOMAIN program.tests :
                    LET t == program.tests[k] IN TestBails(t) \/ Holds(t) # t.branch}
    IN  {k \in ends : \A j \in ends : k <= j}

\* A test that overflows leaves the compiled code.
BailInTest ==
    /\ phase = "loop" /\ \E k \in Stops : TestBails(program.tests[k])
    /\ phase' = "bailout" /\ touched' = {}
    /\ UNCHANGED <<program, checks, next, before, env>>

\* The way around the loop; v changes, and the length too if it may.
Around ==
    \E e \in program.back, v \in Volatile, length \in IF program.fixed THEN {env.length} ELSE Lengths :
        IF Bails(env, e) THEN phase' = "bailout" /\ UNCHANGED env
        ELSE env' = [env EXCEPT !.i = Value(env, e), !.v = v, !.length = length] /\ UNCHANGED phase

\* The tests do not lead to the accesses: the loop goes on or ends.
Skip ==
    /\ phase = "loop" /\ \E k \in Stops : ~TestBails(program.tests[k])
    /\ touched' = {}
    /\ Around \/ (phase' = "exit" /\ UNCHANGED env)
    /\ UNCHANGED <<program, checks, next, before>>

\* They do: the checks that are left are made, then the elements are accessed.
Access ==
    /\ phase = "loop" /\ Stops = {}
    /\ IF \/ \E k \in DOMAIN program.index : Bails(env, program.index[k])
          \/ \E k \in DOMAIN checks :
                LET c == checks[k]
                IN  ~RangePasses(Value(env, c.index), c.index.base = "none", c.minimum, c.maximum, env.length)
       THEN phase' = "bailout" /\ touched' = {} /\ UNCHANGED env
       ELSE /\ touched' = {<<Value(env, program.index[k]), env.length>> : k \in DOMAIN program.index}
            /\ Around
    /\ UNCHANGED <<program, checks, next, before>>

-----------------------------------------------------------------------------
Next ==
    \/ Coalesce \/ CoalesceDone \/ HoistInvariant \/ HoistCheck \/ HoistDone
    \/ Enter \/ BailInTest \/ Skip \/ Access

Spec == Init /\ [][Next]_vars

-----------------------------------------------------------------------------
(* Properties. *)

\* Every variable has its type; a check's range is not empty (visitBoundsCheckRange
\* asserts it).
TypeOK ==
    /\ phase \in {"coalesce", "hoist", "compiled", "loop", "bailout", "exit", "crashed"}
    /\ next \in 1..(Len(checks) + 2) /\ Len(checks) <= Len(program.index)
    /\ \A k \in DOMAIN checks : /\ {checks[k].minimum, checks[k].maximum} \subseteq Lo..Hi
                               /\ checks[k].minimum <= checks[k].maximum
    /\ \A c \in before : c.kind # "lower" => c.minimum <= c.maximum
    /\ phase = "loop" => env \in [{"init", "i", "n", "v", "length"} -> Lo..Hi]

\* Every access is to an element of the array: the checks that are left, and the
\* tests, imply those that have been taken away.
InBounds == \A t \in touched : t[1] \in 0..(t[2] - 1)

\* Code for a check of a range passes only if every index of the range is one of
\* the array ("If the minimum and maximum differ then do an underflow check first").
RangeCheckCovers ==
    phase = "loop" =>
        \A k \in DOMAIN checks :
            LET c == checks[k]
                x == Value(env, c.index)
            IN  RangePasses(x, c.index.base = "none", c.minimum, c.maximum, env.length) =>
                    \A d \in {c.minimum, c.maximum} : x + d \in 0..(env.length - 1)

\* "For now the only linear sums which can be represented are 'n' or 'x + n'": a sum may
\* lack a term, and the analysis copes with one that does.
TermsMayBeMissing == phase # "crashed"
=============================================================================
