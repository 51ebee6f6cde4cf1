--------------------------- MODULE RangeAnalysis ---------------------------
(***************************************************************************)
(* The passes of IonMonkey that decide which checks int32 arithmetic may   *)
(* omit (ion/RangeAnalysis.cpp, ion/MIR.cpp, ion/ValueNumbering.cpp), on   *)
(* one basic block of int32-specialised instructions.                      *)
(*                                                                         *)
(* TestCompiler (ion/Ion.cpp) runs, in this order: the early range         *)
(* analysis, which marks additions, subtractions and divisions whose       *)
(* results are only ever truncated; global value numbering, which folds    *)
(* and merges instructions and so changes who uses what; dead code         *)
(* elimination; and the late range analysis, which drops the checks for    *)
(* negative zero.  The generated code has no overflow or remainder check   *)
(* on a truncated instruction and no -0 check where the late pass removed  *)
(* it: it is right only if no use can tell.                                *)
(*                                                                         *)
(* A block is built one instruction at a time, every shape of it, and      *)
(* every pass then visits it one instruction at a time, in the order of    *)
(* its iterator.  The int32 type has W bits.                               *)
(***************************************************************************)
EXTENDS Integers, FiniteSetsExt, Sequences

CONSTANTS
    W,              \* width of an int32
    NumParams,      \* number of int32 parameters of the script
    Consts,         \* sequence of its int32 constants
    NumInstrs,      \* number of instructions in the block
    Ops,            \* the opcodes they are drawn from
    RhsNodes,       \* the definitions allowed as a second operand
    MaxCaptured,    \* how many of them resume points may capture, besides
                    \* the last one, whose value the script returns
    Inputs          \* the int32 values given to the parameters

MIN == -(2 ^ (W - 1))
MAX == 2 ^ (W - 1) - 1
Int32 == MIN .. MAX

NumLeaves == NumParams + Len(Consts)
NumNodes == NumLeaves + NumInstrs
Params == 1 .. NumParams
Leaves == 1 .. NumLeaves
Instrs == (NumLeaves + 1) .. NumNodes
Nodes == 1 .. NumNodes

ArithOps == {"Add", "Sub", "Mul", "Div", "Mod"}
BitOps == {"BitAnd", "BitOr", "BitNot"}

BlockAssumption ==
    /\ W \in Nat \ {0}
    /\ NumParams \in Nat /\ NumInstrs \in Nat \ {0} /\ MaxCaptured \in Nat
    /\ Consts \in Seq(Int32)
    /\ Ops \subseteq ArithOps \cup BitOps
    /\ Inputs \subseteq Int32
    /\ RhsNodes \subseteq Nodes

VARIABLES
    phase,          \* the pass that is running
    cur,            \* the definition its iterator stands on
    op,             \* op[n]: opcode of definition n; "None" before it is built
    args,           \* args[n] = <<lhs, rhs>> of an instruction (BitNot: twice)
    const,          \* const[n]: value of a definition whose op is "Const"
    source,         \* the block as it was built: <<op, args>>
    captured,       \* captured[n]: the definition that stands for instruction
                    \* n in the resume points that capture it; 0: none does
    live,           \* definitions not discarded from the block
    vn,             \* value numbers, 0 when there is none yet
    isTruncated,    \* implicitTruncate_ of the Add, Sub and Div in it
    canBeNegativeZero,      \* canBeNegativeZero_ of the Mul and Div in it
    canBeNegativeOverflow,  \* the Div with canBeNegativeOverflow_
    canBeDivideByZero       \* the Div with canBeDivideByZero_

block == <<op, args, const, captured, live>>
flags == <<isTruncated, canBeNegativeZero, canBeNegativeOverflow, canBeDivideByZero>>
vars == <<phase, cur, block, flags, source, vn>>

---------------------------------------------------------------------------
(* Numbers.  A JavaScript number is a fraction <<n, d>> with d > 0, or -0,  *)
(* or NaN, which stands for the infinities too: generated int32 code can    *)
(* represent neither, so the difference between them never matters to it.   *)

NegZero == <<0, -1>>
NaN == <<0, 0>>
Number(i) == <<i, 1>>

IsFinite(v) == v # NaN
IsZero(v) == IsFinite(v) /\ v[1] = 0
IsNegative(v) == v = NegZero \/ v[1] < 0
Den(v) == IF v = NegZero THEN 1 ELSE v[2]
SignedZero(neg) == IF neg THEN NegZero ELSE Number(0)

Abs(i) == IF i < 0 THEN -i ELSE i
Sign(i) == IF i < 0 THEN -1 ELSE 1

(* Integer division as idiv does it: the quotient is cut towards zero.      *)
Quotient(a, b) == Sign(a) * Sign(b) * (Abs(a) \div Abs(b))
Remainder(a, b) == a - b * Quotient(a, b)

(* Two's complement wrap-around to W bits.                                  *)
Wrap(i) == ((i - MIN) % 2 ^ W) + MIN
ToInt32(v) == IF IsFinite(v) THEN Wrap(Quotient(v[1], Den(v))) ELSE 0
IntegerOf(v) == v[1] \div v[2]
IsInt32(v) == IsFinite(v) /\ v # NegZero /\ v[1] % v[2] = 0 /\ IntegerOf(v) \in Int32

Bit(i, k) == ((i % 2 ^ W) \div 2 ^ k) % 2
AndTable ==
    [a \in Int32, b \in Int32 |->
        Wrap(MapThenSumSet(LAMBDA k : 2 ^ k * Bit(a, k) * Bit(b, k), 0 .. W - 1))]
And(a, b) == AndTable[a, b]
Not(a) == -a - 1
Or(a, b) == Not(And(Not(a), Not(b)))

NumberNeg(v) == IF IsZero(v) THEN SignedZero(~IsNegative(v)) ELSE <<-v[1], v[2]>>
NumberAdd(a, b) ==
    CASE ~IsFinite(a) \/ ~IsFinite(b) -> NaN
      [] a = NegZero /\ b = NegZero -> NegZero
      [] OTHER -> <<a[1] * Den(b) + b[1] * Den(a), Den(a) * Den(b)>>
NumberMul(a, b) ==
    CASE ~IsFinite(a) \/ ~IsFinite(b) -> NaN
      [] IsZero(a) \/ IsZero(b) -> SignedZero(IsNegative(a) # IsNegative(b))
      [] OTHER -> <<a[1] * b[1], Den(a) * Den(b)>>
NumberDiv(a, b) ==
    CASE ~IsFinite(a) \/ ~IsFinite(b) \/ IsZero(b) -> NaN
      [] IsZero(a) -> SignedZero(IsNegative(a) # IsNegative(b))
      [] OTHER -> <<a[1] * Den(b) * Sign(b[1]), Den(a) * Abs(b[1])>>
NumberMod(a, b) ==
    IF ~IsFinite(a) \/ ~IsFinite(b) \/ IsZero(b)
    THEN NaN
    ELSE LET r == Remainder(a[1] * Den(b), b[1] * Den(a))
         IN  IF r = 0 THEN SignedZero(IsNegative(a)) ELSE <<r, Den(a) * Den(b)>>

(* What the interpreter computes for one operation.                         *)
Evaluate(o, a, b) ==
    CASE o = "Add" -> NumberAdd(a, b)
      [] o = "Sub" -> NumberAdd(a, NumberNeg(b))
      [] o = "Mul" -> NumberMul(a, b)
      [] o = "Div" -> NumberDiv(a, b)
      [] o = "Mod" -> NumberMod(a, b)
      [] o = "BitAnd" -> Number(And(ToInt32(a), ToInt32(b)))
      [] o = "BitOr" -> Number(Or(ToInt32(a), ToInt32(b)))
      [] o = "BitNot" -> Number(Not(ToInt32(a)))

---------------------------------------------------------------------------
(* Uses.                                                                    *)

IsConst(n) == op[n] = "Const"
IsConstant(n, c) == IsConst(n) /\ const[n] = c
Lhs(n) == args[n][1]
Rhs(n) == args[n][2]
IsOperation(n) == op[n] \in ArithOps \cup BitOps

UsedByResumePoint(n) == \E i \in Instrs : captured[i] = n
Users(n) == {u \in live : IsOperation(u) /\ n \in {Lhs(u), Rhs(u)}}
HasUses(n) == UsedByResumePoint(n) \/ Users(n) # {}

(* RangeAnalysis::AllUsesTruncate.                                          *)
AllUsesTruncate(n) ==
    /\ ~UsedByResumePoint(n)
    /\ \A u \in Users(n) :
          \/ op[u] \in BitOps
          \/ op[u] \in {"Add", "Sub"} /\ u \in isTruncated

(* NeedNegativeZeroCheck: some use tells 0 from -0.  An addition does only  *)
(* if both of its operands may be -0, and then one check is enough.         *)
NeedNegativeZeroCheck(n) ==
    \/ UsedByResumePoint(n)
    \/ \E u \in Users(n) :
          CASE op[u] = "Add" ->
                  LET other == IF Lhs(u) = n THEN Rhs(u) ELSE Lhs(u)
                  IN  \/ other = n
                      \/ op[other] \in {"Mul", "Div"} /\ other \notin canBeNegativeZero
            [] op[u] \in {"Sub", "Mod"} -> Lhs(u) = n
            [] op[u] \in {"BitAnd", "BitOr"} -> FALSE
            [] OTHER -> TRUE

---------------------------------------------------------------------------
(* Folding (foldsTo) and congruence.  Operands are compared by identity in  *)
(* the numbering pass and by value number in the elimination pass.          *)

EqualValues(a, b) == IF phase = "eliminate" THEN vn[a] = vn[b] ELSE a = b

Congruent(a, b) ==
    /\ op[a] = op[b]
    /\ CASE op[a] = "Param" -> a = b
         [] op[a] = "Const" -> const[a] = const[b]
         [] OTHER -> vn[Lhs(a)] = vn[Lhs(b)] /\ vn[Rhs(a)] = vn[Rhs(b)]

(* EvaluateConstantOperands, and BitNot of a constant: the result replaces  *)
(* the instruction only if it has the type of the instruction.              *)
ConstantResult(n) == Evaluate(op[n], Number(const[Lhs(n)]), Number(const[Rhs(n)]))
FoldsToConstant(n) ==
    IsOperation(n) /\ IsConst(Lhs(n)) /\ IsConst(Rhs(n)) /\ IsInt32(ConstantResult(n))

(* The operand an arithmetic instruction folds to, or the instruction.  An  *)
(* identity on the left is no identity of a subtraction; 0 / x and 0 % x    *)
(* become 0, the latter unless x is the constant 0.                         *)
ArithFoldsTo(n) ==
    LET l == Lhs(n)  r == Rhs(n)
        WithoutIdentity(i) == IF IsConstant(r, i) THEN l ELSE IF IsConstant(l, i) THEN r ELSE n
    IN  CASE op[n] = "Add" -> WithoutIdentity(0)
          [] op[n] = "Sub" -> IF IsConstant(r, 0) THEN l ELSE n
          [] op[n] = "Mul" -> WithoutIdentity(1)
          [] op[n] = "Div" -> IF IsConstant(l, 0) \/ IsConstant(r, 1) THEN l ELSE n
          [] op[n] = "Mod" -> IF ~IsConstant(r, 0) /\ IsConstant(l, 0) THEN l ELSE n

(* The same for MBitAnd and MBitOr: zero, then equal operands ...           *)
BitwiseFoldsTo(n) ==
    LET l == Lhs(n)  r == Rhs(n)
        FoldIfZero(zero, other) == IF op[n] = "BitAnd" THEN zero ELSE other
    IN  IF IsConstant(l, 0) THEN FoldIfZero(l, r)
        ELSE IF IsConstant(r, 0) THEN FoldIfZero(r, l)
        ELSE IF EqualValues(l, r) THEN l
        ELSE n

(* ... and for MBitNot: ~~x is x.                                           *)
BitNotFoldsTo(n) == IF op[Lhs(n)] = "BitNot" THEN Lhs(Lhs(n)) ELSE n

FoldsTo(n) ==
    CASE op[n] \in ArithOps -> ArithFoldsTo(n)
      [] op[n] \in {"BitAnd", "BitOr"} -> BitwiseFoldsTo(n)
      [] op[n] = "BitNot" -> BitNotFoldsTo(n)
      [] OTHER -> n

Folds(n) == FoldsToConstant(n) \/ FoldsTo(n) # n

(* MMul::foldsTo also notes, when the instruction stays, that a square is   *)
(* never -0.                                                                *)
SquareNotNegativeZero(n) ==
    IF op[n] = "Mul" /\ Congruent(Lhs(n), Rhs(n)) THEN {n} ELSE {}

---------------------------------------------------------------------------
(* The order of the passes and of the instructions within a pass.           *)

Passes == <<"ready", "early", "number", "eliminate", "dce", "forward", "backward", "done">>
NextPass(p) == Passes[1 + CHOOSE k \in 1 .. Len(Passes) : Passes[k] = p]
\* Mutant: the early pass runs forwards.
EarlyForwards == {"dce", "backward"}
Backwards == {"early", "dce", "backward"}

(* The analysis methods of an instruction do nothing but in these classes.  *)
Visited(p, S) ==
    CASE p = "early" -> {n \in S : op[n] \in {"Add", "Sub", "Div"}}
      [] p \in {"forward", "backward"} -> {n \in S : op[n] \in {"Mul", "Div"}}
      [] p = "done" -> {}
      [] OTHER -> S \cap Instrs

FirstOf(p, S) == IF S = {} THEN 0 ELSE IF p \in Backwards THEN Max(S) ELSE Min(S)

(* The iterator moves on to the next of the instructions that remain, or    *)
(* the next pass starts.                                                    *)
Advance(remaining) ==
    LET rest == {m \in Visited(phase, remaining) :
                    IF phase \in Backwards THEN m < cur ELSE m > cur}
    IN  IF rest # {}
        THEN /\ cur' = FirstOf(phase, rest)
             /\ UNCHANGED phase
        ELSE /\ phase' = NextPass(phase)
             /\ cur' = FirstOf(phase', Visited(phase', remaining))

(* The block is built, or the pass finds nothing in it to visit.            *)
SkipPass ==
    /\ phase \notin {"build", "done"}
    /\ cur = 0
    /\ phase' = NextPass(phase)
    /\ cur' = FirstOf(phase', Visited(phase', live))
    /\ UNCHANGED <<block, flags, source, vn>>

---------------------------------------------------------------------------
Init ==
    /\ phase = "build"
    /\ cur = NumLeaves + 1
    /\ op = [n \in Nodes |-> IF n \in Params THEN "Param"
                             ELSE IF n \in Leaves THEN "Const" ELSE "None"]
    /\ const = [n \in Nodes |-> IF n \in Leaves \ Params THEN Consts[n - NumParams] ELSE 0]
    /\ args = [n \in Nodes |-> <<0, 0>>]
    /\ captured = [n \in Instrs |-> 0]
    /\ live = Leaves
    /\ source = <<op, args>>
    /\ vn = [n \in Nodes |-> IF n \in Leaves THEN n ELSE 0]
    /\ isTruncated = {}
    /\ canBeNegativeZero = {}
    /\ canBeNegativeOverflow = {}
    /\ canBeDivideByZero = {}

(* IonBuilder appends an int32-specialised instruction on definitions it    *)
(* already has; a later resume point may capture its result.                *)
Build(o, l, r, capture) ==
    /\ phase = "build"
    /\ op' = [op EXCEPT ![cur] = o]
    /\ args' = [args EXCEPT ![cur] = <<l, r>>]
    /\ captured' = [captured EXCEPT ![cur] = IF capture THEN cur ELSE 0]
    /\ live' = live \cup {cur}
    /\ source' = <<op', args'>>
    /\ canBeNegativeZero' = canBeNegativeZero \cup (IF o \in {"Mul", "Div"} THEN {cur} ELSE {})
    /\ canBeNegativeOverflow' = canBeNegativeOverflow \cup (IF o = "Div" THEN {cur} ELSE {})
    /\ canBeDivideByZero' = canBeDivideByZero \cup (IF o = "Div" THEN {cur} ELSE {})
    /\ IF cur < NumNodes THEN cur' = cur + 1 /\ UNCHANGED phase
                         ELSE phase' = "ready" /\ cur' = 0
    /\ UNCHANGED <<const, vn, isTruncated>>

BuildSome ==
    \E o \in Ops, l \in 1 .. cur - 1, r \in 1 .. cur - 1, capture \in BOOLEAN :
        /\ IF o = "BitNot" THEN l = r ELSE r \in RhsNodes
        /\ IF cur = NumNodes THEN capture
           ELSE capture => Cardinality({i \in Instrs : captured[i] # 0}) < MaxCaptured
        /\ Build(o, l, r, capture)

(* RangeAnalysis::analyzeEarly on one instruction.                          *)
AnalyzeTruncateBackward ==
    /\ phase = "early" /\ cur # 0
    /\ isTruncated' = isTruncated \cup
          (IF op[cur] \in {"Add", "Sub", "Div"} /\ AllUsesTruncate(cur) THEN {cur} ELSE {})
    /\ Advance(live)
    /\ UNCHANGED <<block, source, vn, canBeNegativeZero, canBeNegativeOverflow, canBeDivideByZero>>

(* MDefinition::replaceAllUsesWith, then discardDefAt.                      *)
ReplaceAndDiscard(n, by) ==
    /\ args' = [m \in Nodes |-> [k \in 1 .. 2 |-> IF args[m][k] = n THEN by ELSE args[m][k]]]
    /\ captured' = [i \in Instrs |-> IF captured[i] = n THEN by ELSE captured[i]]
    /\ live' = live \ {n}

Simplifying == phase \in {"number", "eliminate"} /\ cur # 0

(* ValueNumberer::simplify when foldsTo makes a new constant.  It is        *)
(* inserted after the instruction, which it replaces; the elimination pass  *)
(* visits it next.                                                          *)
FoldToConstant ==
    /\ Simplifying
    /\ FoldsToConstant(cur)
    /\ LET c == IntegerOf(ConstantResult(cur))
           same == {m \in live : IsConstant(m, c)}
       IN  /\ op' = [op EXCEPT ![cur] = "Const"]
           /\ const' = [const EXCEPT ![cur] = c]
           /\ vn' = [vn EXCEPT ![cur] = IF same = {} THEN cur ELSE vn[Min(same)]]
    /\ IF phase = "number" THEN Advance(live) ELSE UNCHANGED <<phase, cur>>
    /\ UNCHANGED <<args, captured, live, flags, source>>

(* ValueNumberer::simplify when foldsTo returns an operand.                 *)
FoldToOperand ==
    /\ Simplifying
    /\ ~FoldsToConstant(cur) /\ FoldsTo(cur) # cur
    /\ ReplaceAndDiscard(cur, FoldsTo(cur))
    /\ Advance(live')
    /\ UNCHANGED <<op, const, flags, source, vn>>

(* ValueNumberer::computeValueNumbers on an instruction that stays.         *)
NumberDefinition ==
    /\ phase = "number" /\ cur # 0
    /\ ~Folds(cur)
    /\ LET same == {m \in live : vn[m] # 0 /\ Congruent(m, cur)}
       IN  vn' = [vn EXCEPT ![cur] = IF same = {} THEN cur ELSE vn[Min(same)]]
    /\ canBeNegativeZero' = canBeNegativeZero \ SquareNotNegativeZero(cur)
    /\ Advance(live)
    /\ UNCHANGED <<block, source, isTruncated, canBeNegativeOverflow, canBeDivideByZero>>

\* Mutant: the replacement keeps its own flag.
KeepTruncated(dom, n) == UNCHANGED isTruncated

(* updateForReplacement of Add, Sub and Div: the definition that stays is   *)
(* truncated only if the one it replaces was too.                           *)
UpdateForReplacement(dom, n) ==
    isTruncated' = IF n \in isTruncated THEN isTruncated ELSE isTruncated \ {dom}

(* findDominatingDef, in one block: the first definition with the number.   *)
Dominating(n) == {m \in live : m < n /\ op[m] # "Param" /\ vn[m] = vn[n]}

(* ValueNumberer::eliminateRedundancies on an instruction that stays ...    *)
EliminateRedundancy ==
    /\ phase = "eliminate" /\ cur # 0
    /\ ~Folds(cur)
    /\ Dominating(cur) # {}
    /\ UpdateForReplacement(Min(Dominating(cur)), cur)
    /\ ReplaceAndDiscard(cur, Min(Dominating(cur)))
    /\ Advance(live')
    /\ UNCHANGED <<op, const, source, vn, canBeNegativeZero, canBeNegativeOverflow,
                   canBeDivideByZero>>

(* ... and when no other definition has its number.                         *)
KeepDefinition ==
    /\ phase = "eliminate" /\ cur # 0
    /\ ~Folds(cur)
    /\ Dominating(cur) = {}
    /\ canBeNegativeZero' = canBeNegativeZero \ SquareNotNegativeZero(cur)
    /\ Advance(live)
    /\ UNCHANGED <<block, source, vn, isTruncated, canBeNegativeOverflow, canBeDivideByZero>>

(* EliminateDeadCode on one instruction.                                    *)
EliminateDeadCode ==
    /\ phase = "dce" /\ cur # 0
    /\ live' = IF HasUses(cur) THEN live ELSE live \ {cur}
    /\ Advance(live')
    /\ UNCHANGED <<op, args, const, captured, flags, source, vn>>

(* MMul::analyzeRangeForward and MDiv::analyzeRangeForward: what a constant *)
(* operand rules out.                                                       *)
MulNotNegativeZero(n) == \E x \in {Lhs(n), Rhs(n)} : IsConst(x) /\ const[x] > 0
DivNotNegativeZero(n) ==
    \/ IsConst(Lhs(n)) /\ const[Lhs(n)] # 0
    \/ IsConst(Rhs(n)) /\ const[Rhs(n)] >= 0
\* Mutant: 1 is taken for the divisor that overflows.
NoOverflowByOne(n) == op[n] = "Div" /\ IsConst(Rhs(n)) /\ const[Rhs(n)] # 1
NoNegativeOverflow(n) ==
    /\ op[n] = "Div"
    /\ \/ IsConst(Lhs(n)) /\ const[Lhs(n)] # MIN
       \/ IsConst(Rhs(n)) /\ const[Rhs(n)] # -1
NoDivideByZero(n) == op[n] = "Div" /\ IsConst(Rhs(n)) /\ const[Rhs(n)] # 0

Without(S, n, removed) == IF removed THEN S \ {n} ELSE S

AnalyzeRangeForward ==
    /\ phase = "forward" /\ cur # 0
    /\ canBeNegativeZero' =
          Without(canBeNegativeZero, cur,
                  \/ op[cur] = "Mul" /\ MulNotNegativeZero(cur)
                  \/ op[cur] = "Div" /\ DivNotNegativeZero(cur))
    /\ canBeNegativeOverflow' = Without(canBeNegativeOverflow, cur, NoNegativeOverflow(cur))
    /\ canBeDivideByZero' = Without(canBeDivideByZero, cur, NoDivideByZero(cur))
    /\ Advance(live)
    /\ UNCHANGED <<block, source, vn, isTruncated>>

(* MMul::analyzeRangeBackward and MDiv::analyzeRangeBackward.               *)
AnalyzeRangeBackward ==
    /\ phase = "backward" /\ cur # 0
    /\ canBeNegativeZero' =
          Without(canBeNegativeZero, cur,
                  op[cur] \in {"Mul", "Div"} /\ ~NeedNegativeZeroCheck(cur))
    /\ Advance(live)
    /\ UNCHANGED <<block, source, vn, isTruncated, canBeNegativeOverflow, canBeDivideByZero>>

(* The compilation is over.                                                 *)
Compiled == phase = "done" /\ UNCHANGED vars

Next ==
    \/ BuildSome
    \/ AnalyzeTruncateBackward
    \/ FoldToConstant
    \/ FoldToOperand
    \/ NumberDefinition
    \/ EliminateRedundancy
    \/ KeepDefinition
    \/ EliminateDeadCode
    \/ AnalyzeRangeForward
    \/ AnalyzeRangeBackward
    \/ SkipPass
    \/ Compiled

Spec == Init /\ [][Next]_vars

---------------------------------------------------------------------------
(* Execution.  Interpreted is what the block as built computes on an input, *)
(* Code what the instructions of the block in hand leave in registers, and  *)
(* BailsOut the checks of the code generator under the flags in hand.       *)

Interpreted(in) ==
    LET js[n \in 0 .. NumNodes] ==
            IF n = 0 THEN <<>>
            ELSE LET before == js[n - 1]
                     o == source[1][n]
                     a == source[2][n]
                 IN  Append(before,
                            CASE o = "Param" -> Number(in[n])
                              [] o = "Const" -> Number(Consts[n - NumParams])
                              [] OTHER -> Evaluate(o, before[a[1]], before[a[2]]))
    IN  js[NumNodes]

Int32Code(o, a, b) ==
    CASE o = "Add" -> Wrap(a + b)
      [] o = "Sub" -> Wrap(a - b)
      [] o = "Mul" -> Wrap(a * b)
      [] o = "Div" -> IF b = 0 THEN 0 ELSE Wrap(Quotient(a, b))
      [] o = "Mod" -> IF b = 0 THEN 0 ELSE Remainder(a, b)
      [] o = "BitAnd" -> And(a, b)
      [] o = "BitOr" -> Or(a, b)
      [] o = "BitNot" -> Not(a)

Code(in) ==
    LET reg[n \in 0 .. NumNodes] ==
            IF n = 0 THEN <<>>
            ELSE LET before == reg[n - 1]
                 IN  Append(before,
                            CASE op[n] = "Param" -> in[n]
                              [] op[n] = "Const" -> const[n]
                              [] OTHER -> Int32Code(op[n], before[Lhs(n)], before[Rhs(n)]))
    IN  reg[NumNodes]

BailsOut(n, a, b) ==
    CASE op[n] = "Add" -> n \notin isTruncated /\ a + b \notin Int32
      [] op[n] = "Sub" -> n \notin isTruncated /\ a - b \notin Int32
      [] op[n] = "Mul" ->
            \/ a * b \notin Int32
            \/ n \in canBeNegativeZero /\ a * b = 0 /\ (a < 0 \/ b < 0)
      [] op[n] = "Div" ->
            \/ n \in canBeDivideByZero /\ b = 0
            \/ n \in canBeNegativeOverflow /\ a = MIN /\ b = -1
            \/ n \in canBeNegativeZero /\ a = 0 /\ b < 0
            \/ n \notin isTruncated /\ b # 0 /\ Remainder(a, b) # 0
      [] op[n] = "Mod" -> b = 0 \/ a = MIN \/ (a < 0 /\ Remainder(a, b) = 0)
      [] OTHER -> FALSE

(* The instructions at which the code with these register values leaves for *)
(* the interpreter; only the first of them is ever reached.                 *)
Bailouts(reg) == {n \in live : IsOperation(n) /\ BailsOut(n, reg[Lhs(n)], reg[Rhs(n)])}

---------------------------------------------------------------------------
(* Properties.                                                              *)

(* Every definition, flag and cursor has its type; a folded constant fits   *)
(* an int32.                                                                *)
TypeOK ==
    /\ phase \in {"build"} \cup {Passes[k] : k \in 1 .. Len(Passes)}
    /\ cur \in {0} \cup Instrs
    /\ op \in [Nodes -> ArithOps \cup BitOps \cup {"None", "Param", "Const"}]
    /\ args \in [Nodes -> (0 .. NumNodes) \X (0 .. NumNodes)]
    /\ const \in [Nodes -> Int32]
    /\ captured \in [Instrs -> 0 .. NumNodes]
    /\ live \subseteq Nodes
    /\ vn \in [Nodes -> 0 .. NumNodes]
    /\ \A S \in {isTruncated, canBeNegativeZero, canBeNegativeOverflow, canBeDivideByZero} :
          S \subseteq Instrs

(* AssertGraphCoherency: folding, redundancy elimination and dead code      *)
(* elimination never discard a definition something still refers to, and    *)
(* every operand is defined before it is used.                              *)
GraphCoherent ==
    /\ \A n \in live : IsOperation(n) =>
          \A x \in {Lhs(n), Rhs(n)} : x \in live /\ x < n
    /\ \A i \in Instrs : captured[i] # 0 => captured[i] \in live /\ captured[i] <= i

(* One backward sweep of analyzeEarly is enough: what it has visited is     *)
(* truncated exactly if all its uses truncate, at the end of the sweep too. *)
TruncationComplete ==
    (phase = "early" \/ (phase = "number" /\ \A n \in Instrs : vn[n] = 0)) =>
        \A n \in Instrs :
            (op[n] \in {"Add", "Sub", "Div"} /\ (phase = "number" \/ n > cur)) =>
                (n \in isTruncated <=> AllUsesTruncate(n))

(* The code bails out before the resume point that captures i, or the point *)
(* gets the number js that the interpreter would have.                      *)
CapturesExactly(i, reg, js) ==
    (\A m \in Bailouts(reg) : m > i) => IsInt32(js) /\ js[1] = js[2] * reg[captured[i]]

(* Whatever the passes have done so far, a missing overflow, remainder or   *)
(* -0 check is never observable: every value a resume point captures is     *)
(* the interpreter's, unless the code has bailed out before it.             *)
AgreesWithInterpreter ==
    phase # "build" =>
        \A in \in [Params -> Inputs] :
            LET reg == Code(in)
                js == Interpreted(in)
            IN  \A i \in {j \in Instrs : captured[j] # 0} : CapturesExactly(i, reg, js[i])

(* idiv raises no exception: a division reached with a zero divisor, or     *)
(* with MIN / -1, has bailed out (visitDivI, "Prevent an integer overflow   *)
(* exception").                                                             *)
NoDivideTrap ==
    \A n \in {m \in live : op[m] = "Div"}, in \in [Params -> Inputs] :
        phase # "build" =>
            LET reg == Code(in)
            IN  (\A m \in Bailouts(reg) : m > n) =>
                    reg[Rhs(n)] # 0 /\ ~(reg[Lhs(n)] = MIN /\ reg[Rhs(n)] = -1)

(* What the comment in AllUsesTruncate says: the sum of two truncated       *)
(* quotients is not the truncated sum of the quotients, so no sum of        *)
(* quotients that is truncated later is computed that way.                  *)
TruncatedSumOfQuotientsExact ==
    phase # "build" =>
        \A i \in {j \in Instrs : captured[j] # 0 /\ source[1][j] \in BitOps},
           in \in [Params -> Inputs] :
              CapturesExactly(i, Code(in), Interpreted(in)[i])

(* What the comments in visitDivI say: "Prevent divide by zero" and         *)
(* "Prevent negative 0".  A captured division has neither.                  *)
DivisionSpecialCasesPrevented ==
    phase # "build" =>
        \A i \in {j \in Instrs : captured[j] # 0 /\ source[1][j] = "Div"},
           in \in [Params -> Inputs] :
              (\A m \in Bailouts(Code(in)) : m > i) => Interpreted(in)[i] \notin {NaN, NegZero}

(* What the comment in MMod::foldsTo says: where 0 % y is folded to 0,      *)
(* "y cannot be NaN, 0, or -0 at this point".                               *)
FoldedModulusNotZero ==
    \A i \in {j \in Instrs : source[1][j] = "Mod" /\ captured[j] = source[2][j][1]},
       in \in [Params -> Inputs] :
          ~IsZero(Interpreted(in)[source[2][i][2]])

=============================================================================
