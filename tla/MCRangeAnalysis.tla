-------------------------- MODULE MCRangeAnalysis --------------------------
(* Families of blocks, each with the operands and opcodes that one question *)
(* about the passes needs.  A behaviour takes a block of one family through *)
(* the passes.                                                              *)
EXTENDS Integers, Sequences

CONSTANTS W, Checked    \* the families that a run checks

VARIABLES
    family, phase, cur, op, args, const, source, captured, live, vn,
    isTruncated, canBeNegativeZero, canBeNegativeOverflow, canBeDivideByZero

vars == <<family, phase, cur, op, args, const, source, captured, live, vn,
          isTruncated, canBeNegativeZero, canBeNegativeOverflow, canBeDivideByZero>>

Edges == {-4, -1, 0, 1, 3}

(* truncate: chains of additions and bit operations.  merge: the least in   *)
(* which a truncated addition is merged with one that is observed.  zero:   *)
(* products that may be -0.  divide, modulo: quotients and remainders.      *)
(* The others show where the code and its comments disagree.                *)
Families ==
    [truncate |-> [params |-> 1, consts |-> <<>>, instrs |-> 3, rhs |-> {1, 2, 3}, captured |-> 1,
                   ops |-> {"Add", "Sub", "BitOr", "BitNot"}, inputs |-> Edges],
     merge |-> [params |-> 1, consts |-> <<>>, instrs |-> 5, rhs |-> {1}, captured |-> 1,
                ops |-> {"Add", "BitOr"}, inputs |-> {-4, 3}],
     zero |-> [params |-> 1, consts |-> <<-1>>, instrs |-> 3, rhs |-> {1, 2, 3}, captured |-> 0,
               ops |-> {"Add", "Sub", "Mul"}, inputs |-> {-2, 0, 1}],
     divide |-> [params |-> 1, consts |-> <<-1, 2>>, instrs |-> 2, rhs |-> {1, 2, 3, 4}, captured |-> 1,
                 ops |-> {"Mul", "Div", "BitAnd", "BitOr"}, inputs |-> Edges],
     modulo |-> [params |-> 2, consts |-> <<>>, instrs |-> 2, rhs |-> {1, 2, 3}, captured |-> 1,
                 ops |-> {"Mul", "Mod", "BitNot", "BitOr"}, inputs |-> Edges],
     quotients |-> [params |-> 2, consts |-> <<>>, instrs |-> 3, rhs |-> {1, 2, 3, 4}, captured |-> 0,
                    ops |-> {"Add", "Div", "BitOr"}, inputs |-> Edges],
     divideZero |-> [params |-> 1, consts |-> <<0>>, instrs |-> 1, rhs |-> {1, 2}, captured |-> 0,
                     ops |-> {"Div"}, inputs |-> Edges],
     moduloZero |-> [params |-> 1, consts |-> <<0>>, instrs |-> 1, rhs |-> {1, 2}, captured |-> 0,
                     ops |-> {"Mod"}, inputs |-> Edges]]

Block(f) == INSTANCE RangeAnalysis WITH
    NumParams <- Families[f].params, Consts <- Families[f].consts,
    NumInstrs <- Families[f].instrs, Ops <- Families[f].ops, RhsNodes <- Families[f].rhs,
    MaxCaptured <- Families[f].captured, Inputs <- Families[f].inputs

ASSUME FamiliesAssumption == \A f \in Checked : Block(f)!BlockAssumption

Init == \E f \in Checked : family = f /\ Block(f)!Init
Next == \E f \in Checked : family = f /\ Block(f)!Next /\ UNCHANGED family
Spec == Init /\ [][Next]_vars

(* The properties of RangeAnalysis, each of the families it speaks about.   *)

(* The compiled block gives what the interpreter gives, or has bailed out.  *)
AgreesWithInterpreter == \A f \in Checked : family = f => Block(f)!AgreesWithInterpreter

(* One backward sweep finds every instruction that may be truncated, and the *)
(* graph is what AssertGraphCoherency asserts after every step of every pass. *)
TruncationComplete ==
    family = "truncate" =>
        Block("truncate")!TruncationComplete /\ Block("truncate")!GraphCoherent

(* idiv sees no zero divisor, and not the minimum over -1.                  *)
NoDivideTrap == family = "divide" => Block("divide")!NoDivideTrap

(* The comment of AllUsesTruncate on truncated sums of quotients.           *)
TruncatedSumOfQuotientsExact ==
    family = "quotients" => Block("quotients")!TruncatedSumOfQuotientsExact
=============================================================================
