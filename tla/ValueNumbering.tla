---------------------------- MODULE ValueNumbering ----------------------------
(***************************************************************************)
(* Global value numbering (ion/ValueNumbering.cpp) of a loop.  The         *)
(* optimistic pass takes two definitions for equal until it has seen that  *)
(* they are not: value numbers change, congruence classes break up and     *)
(* definitions go back to the worklist until nothing changes.  Then a      *)
(* definition with a dominating one of the same number is replaced by it.  *)
(*                                                                         *)
(* The graph has four blocks: an entry (0) with two parameters, a loop     *)
(* header (1) with two phis, a body (2) with a multiplication and two      *)
(* additions, and an exit (3) with an addition.  Each block ends with a    *)
(* jump.  Which operands the definitions have is chosen at first.  All     *)
(* arithmetic is specialized to int32; there are no constants, so foldsTo  *)
(* replaces phis only.                                                     *)
(***************************************************************************)
EXTENDS Integers, Sequences, FiniteSets, SequencesExt, FiniteSetsExt, Functions

CONSTANTS
    Optimism,    \* the settings of js_IonOptions.gvnIsOptimistic
    MulOperands, \* the pairs of operands that the multiplication may have
    Inputs,      \* pairs of arguments with which the loop is run
    Modulus,     \* bound: the arithmetic of these runs is modulo this
    MaxTrips     \* bound: how often the body is run

Defs == 1..12
Phis == {4, 5}
Jumps == {3, 6, 10, 12}
Params == {1, 2}
Movable == {7, 8, 9, 11}
Op(d) == CASE d \in Params -> "param" [] d \in Phis -> "phi" [] d \in Jumps -> "jump"
           [] d = 7 -> "mul" [] OTHER -> "add"
Block(d) == CASE d <= 3 -> 0 [] d \in 4..6 -> 1 [] d \in 7..10 -> 2 [] OTHER -> 3
Successors(j) == CASE j = 3 -> {1} [] j = 6 -> {2, 3} [] j = 10 -> {1} [] OTHER -> {}

ASSUME ValueNumberingAssumption ==
    /\ Optimism \subseteq BOOLEAN /\ MaxTrips \in Nat /\ Modulus \in Nat \ {0}
    /\ Inputs \subseteq Int \X Int
    /\ MulOperands \subseteq Phis \X (Phis \cup {1})

VARIABLES
    original,  \* the operands of every definition before the pass
    args,      \* the operands now
    gone,      \* definitions that have been discarded
    vn,        \* value numbers, 0 when there is none
    next,      \* ValueNumberData::classNext, 0 for NULL
    prev,      \* ValueNumberData::classPrev
    work,      \* the definitions in the worklist
    values,    \* the hash table: <<hash when added, key, value>>
    cleared,   \* multiplications with canBeNegativeZero_ = false
    phase,     \* "number", "eliminate" or "done"
    at,        \* the position in the pass over the graph
    passes,    \* history: passes over the graph
    defs       \* eliminateRedundancies: number -> <<definition, validUntil>>

vars == <<original, args, gone, vn, next, prev, work, values, cleared, phase, at, passes, defs>>

-----------------------------------------------------------------------------
(* The program.  An operand is an earlier definition of a dominating block; *)
(* the second one of a phi comes along the back edge.                       *)

Programs ==
    {[d \in Defs |-> CASE d = 4 -> <<1, x>> [] d = 5 -> <<e, y>> [] d = 7 -> mul
                       [] d = 8 -> a [] d = 9 -> b [] d = 11 -> c [] d = 12 -> <<11>>
                       [] OTHER -> <<>>] :
        e \in Params, x \in Phis \cup 7..9, y \in Phis \cup 7..9 \cup {1},
        mul \in MulOperands, a \in (Phis \cup {7}) \X Params,
        b \in (Phis \cup {8}) \X Params, c \in Phis \X {1}}

\* The definitions that a jump's target begins with, and the jump at its end.
InBlocks(bs) == {d \in Defs : Block(d) \in bs}

Init ==
    /\ original \in Programs /\ args = original
    /\ gone = {} /\ cleared = {} /\ values = {}
    /\ next = [d \in Defs |-> 0] /\ prev = [d \in Defs |-> 0]
    /\ \E optimistic \in Optimism :
          /\ vn = [d \in Defs |-> IF optimistic \/ d \in Jumps THEN 0 ELSE d]
          /\ work = IF optimistic THEN InBlocks({0}) ELSE {}
    /\ phase = "number" /\ at = 1 /\ passes = 1 /\ defs = <<>>

Numbers(v, d) == [i \in DOMAIN args[d] |-> v[args[d][i]]]

\* valueHash, under the numbers v; equal hashes of different things would only
\* cost a comparison.
ValueHash(v, d) == IF d \in Params THEN <<d>> ELSE <<Op(d), Numbers(v, d)>>

\* congruentTo.
CongruentTo(v, d, e) ==
    IF d \in Params THEN d = e
    ELSE Op(d) = Op(e) /\ (d \in Phis => Block(d) = Block(e)) /\ Numbers(v, d) = Numbers(v, e)

\* The entries that a lookup of d may find.
Lookup(v, table, d) ==
    {e \in table : e[1] = ValueHash(v, d) /\ e[2] \notin gone /\ CongruentTo(v, e[2], d)}

\* Bug: a definition whose operands have changed is not looked at again.
UsesNone(d) == {}

\* The consumers of d.
Uses(d) == {e \in Defs \ gone : d \in Range(args[e])}

-----------------------------------------------------------------------------
(* Congruence classes: lists of definitions linked by next and prev. *)

Set(link, d, e) == IF d = 0 THEN link ELSE [link EXCEPT ![d] = e]

\* setClass: d goes behind rep, unless it is there already.
SetClass(d, rep) ==
    IF vn[d] = vn[rep] THEN UNCHANGED <<next, prev>>
    ELSE LET n1 == Set(next, prev[d], next[d])
             p1 == Set(prev, next[d], prev[d])
         IN  /\ next' = [n1 EXCEPT ![d] = n1[rep], ![rep] = d]
             /\ prev' = Set([p1 EXCEPT ![d] = rep], n1[rep], d)

\* What follows d in its list.
Followers(d) ==
    LET walk[n \in 0..Cardinality(Defs)] ==
            IF n = 0 THEN <<d>>
            ELSE LET w == walk[n - 1]
                 IN  IF next[Last(w)] = 0 THEN w ELSE Append(w, next[Last(w)])
    IN  Tail(walk[Cardinality(Defs)])

NeedsSplit(d) == \E e \in Range(Followers(d)) : ~CongruentTo(vn, d, e)

\* breakClass of the representative d: the rest of its class gets another one.
\* The table's put may find the entry of d, and then lookupValue returns its
\* new value.
NewRepresentative(d) ==
    LET rest == Followers(d)
        rep == Head(rest)
        move(acc, e) ==
            IF e \in acc.work THEN acc
            ELSE [vn |-> [acc.vn EXCEPT ![e] = rep], work |-> acc.work \cup Uses(e) \cup {e}]
        moved == FoldLeft(move, [vn |-> vn, work |-> work \ {d}], rest)
        own == <<ValueHash(vn, d), d, d>>
        old == Lookup(moved.vn, values \cup {own}, rep)
    IN  /\ next' = [next EXCEPT ![d] = 0] /\ prev' = [prev EXCEPT ![rep] = 0]
        /\ IF old = {}
           THEN /\ values' = values \cup {own, <<ValueHash(moved.vn, rep), rep, rep>>}
                /\ vn' = moved.vn /\ work' = moved.work
           ELSE \E e \in old :
                /\ values' = ((values \cup {own}) \ {e}) \cup {<<e[1], e[2], rep>>}
                /\ vn' = [moved.vn EXCEPT ![d] = IF e = own THEN rep ELSE d]
                /\ work' = moved.work \cup IF e = own THEN Uses(d) ELSE {}

\* breakClass of another member: it leaves the list.
LeaveClass(d) ==
    /\ next' = [Set(next, prev[d], next[d]) EXCEPT ![d] = 0]
    /\ prev' = [Set(prev, next[d], prev[d]) EXCEPT ![d] = 0]

-----------------------------------------------------------------------------
(* computeValueNumbers: pass after pass over the definitions in the worklist. *)

\* The definition the passes come to next.
Ahead == {d \in work : d >= at}
Current == Min(IF Ahead = {} THEN work ELSE Ahead)

Numbering(d) ==
    /\ phase = "number" /\ work # {} /\ d = Current
    /\ at' = d + 1
    /\ passes' = passes + IF Ahead = {} THEN 1 ELSE 0

Replace(d, e) ==
    /\ args' = [x \in Defs |-> IF x = d THEN <<>> ELSE
                   [i \in DOMAIN args[x] |-> IF args[x][i] = d THEN e ELSE args[x][i]]]
    /\ gone' = gone \cup {d}

\* MPhi::foldsTo.
Folds(d) == d \in Phis \ gone /\ args[d][1] = args[d][2]

\* MMul::foldsTo.
ClearIfSquare(d) ==
    cleared' = IF Op(d) = "mul" /\ CongruentTo(vn, args[d][1], args[d][2])
               THEN cleared \cup {d} ELSE cleared

NumberJump(d) ==
    /\ Numbering(d) /\ d \in Jumps
    /\ work' = (work \ {d}) \cup IF vn[d] = 0 THEN InBlocks(Successors(d)) \ gone ELSE {}
    /\ vn' = [vn EXCEPT ![d] = d]
    /\ UNCHANGED <<original, args, gone, next, prev, values, cleared, phase, defs>>

SetNumber(d, value) ==
    /\ vn' = [vn EXCEPT ![d] = value]
    /\ work' = (work \ {d}) \cup IF vn[d] = value THEN {} ELSE Uses(d)

\* simplify: a phi of equal operands is replaced by them.
NumberFolded(d) ==
    /\ Numbering(d) /\ Folds(d)
    /\ Replace(d, args[d][1])
    /\ work' = work \ {d}
    /\ UNCHANGED <<original, vn, next, prev, values, cleared, phase, defs>>

\* lookupValue finds a congruent definition.
NumberFound(d) ==
    /\ Numbering(d) /\ d \notin Jumps /\ ~Folds(d)
    /\ \E e \in Lookup(vn, values, d) : SetClass(d, e[2]) /\ SetNumber(d, e[3])
    /\ ClearIfSquare(d)
    /\ UNCHANGED <<original, args, gone, values, phase, defs>>

\* lookupValue finds none, and d is not the representative of its class.
NumberNew(d) ==
    /\ Numbering(d) /\ d \notin Jumps /\ ~Folds(d)
    /\ Lookup(vn, values, d) = {} /\ vn[d] # d
    /\ values' = values \cup {<<ValueHash(vn, d), d, d>>}
    /\ LeaveClass(d)
    /\ SetNumber(d, d)
    /\ ClearIfSquare(d)
    /\ UNCHANGED <<original, args, gone, phase, defs>>

\* lookupValue finds none, and d is: its class splits if it has to.
NumberSplit(d) ==
    /\ Numbering(d) /\ d \notin Jumps /\ ~Folds(d)
    /\ Lookup(vn, values, d) = {} /\ vn[d] = d
    /\ IF NeedsSplit(d) THEN NewRepresentative(d)
       ELSE /\ values' = values \cup {<<ValueHash(vn, d), d, d>>}
            /\ work' = work \ {d}
            /\ UNCHANGED <<vn, next, prev>>
    /\ ClearIfSquare(d)
    /\ UNCHANGED <<original, args, gone, phase, defs>>

NumberingDone ==
    /\ phase = "number" /\ work = {}
    /\ phase' = "eliminate" /\ at' = 1
    /\ UNCHANGED <<original, args, gone, vn, next, prev, work, values, cleared, passes, defs>>

-----------------------------------------------------------------------------
(* eliminateRedundancies: the blocks in pre-order of the dominator tree,     *)
(* which is their own order here.                                            *)

NumDominated(b) == CASE b = 0 -> 3 [] b = 1 -> 2 [] OTHER -> 0

Eliminating(d) ==
    /\ phase = "eliminate" /\ d = at /\ at' = at + 1
    /\ UNCHANGED <<original, vn, next, prev, work, values, phase, passes>>

\* Bug: a definition is visible everywhere.
EverVisible(d) == vn[d] \in DOMAIN defs

\* The definition with the number of d that dominates d, if there is one.
Visible(d) == vn[d] \in DOMAIN defs /\ Block(d) <= defs[vn[d]][2]

EliminateNot(d) ==
    /\ Eliminating(d) /\ d \notin Movable /\ ~Folds(d)
    /\ UNCHANGED <<args, gone, cleared, defs>>

EliminateFolded(d) ==
    /\ Eliminating(d) /\ Folds(d)
    /\ Replace(d, args[d][1])
    /\ UNCHANGED <<cleared, defs>>

\* findDominatingDef finds none: d is the one for what it dominates.
EliminateFirst(d) ==
    /\ Eliminating(d) /\ d \in Movable /\ ~Visible(d)
    /\ defs' = [x \in DOMAIN defs \cup {vn[d]} |->
                   IF x = vn[d] THEN <<d, Block(d) + NumDominated(Block(d))>> ELSE defs[x]]
    /\ ClearIfSquare(d)
    /\ UNCHANGED <<args, gone>>

EliminateRedundant(d) ==
    /\ Eliminating(d) /\ d \in Movable /\ Visible(d)
    /\ Replace(d, defs[vn[d]][1])
    /\ ClearIfSquare(d)
    /\ UNCHANGED defs

Done ==
    /\ phase = "eliminate" /\ at > Cardinality(Defs)
    /\ phase' = "done"
    /\ UNCHANGED <<original, args, gone, vn, next, prev, work, values, cleared, at, passes, defs>>

-----------------------------------------------------------------------------
Next ==
    \/ \E d \in Defs :
        \/ NumberJump(d) \/ NumberFolded(d) \/ NumberFound(d) \/ NumberNew(d) \/ NumberSplit(d)
        \/ EliminateNot(d) \/ EliminateFolded(d) \/ EliminateFirst(d) \/ EliminateRedundant(d)
    \/ NumberingDone \/ Done

Spec == Init /\ [][Next]_vars

-----------------------------------------------------------------------------
(* Properties. *)

\* The reference: the values of all definitions of program p in the n-th trip
\* through the loop, for the arguments in.
Run(p, in) ==
    LET trip[n \in 0..MaxTrips] ==
            LET val[d \in Defs] ==
                    CASE d \in Params -> in[d]
                      [] d \in Phis -> IF n = 0 THEN in[p[d][1]] ELSE trip[n - 1][p[d][2]]
                      [] d = 7 -> (val[p[d][1]] * val[p[d][2]]) % Modulus
                      [] d \in {8, 9, 11} -> (val[p[d][1]] + val[p[d][2]]) % Modulus
                      [] OTHER -> 0
            IN  [d \in Defs |-> IF p[d] = <<>> /\ d \notin Params THEN 0 ELSE val[d]]
    IN  trip

Always(p, P(_)) == \A in \in Inputs : LET run == Run(p, in) IN \A n \in 0..MaxTrips : P(run[n])

\* Every variable has its type; the lists are linked both ways.
TypeOK ==
    /\ {gone, work, cleared} \subseteq SUBSET Defs
    /\ vn \in [Defs -> 0..12] /\ next \in [Defs -> 0..12] /\ prev \in [Defs -> 0..12]
    /\ \A d \in Defs : Range(args[d]) \subseteq Defs \ gone
    /\ \A e \in values : e[2] \in Defs /\ e[3] \in Defs
    /\ phase \in {"number", "eliminate", "done"}
    /\ \A d \in Defs : next[d] # 0 => prev[next[d]] = d

\* Numbers are final when the numbering ends: definitions that are congruent
\* then have the same one ("we repeat until saturation").  When a phi has been
\* folded its consumers keep the numbers they had.
Saturated ==
    phase = "eliminate" /\ at = 1 /\ gone = {} =>
        \A d, e \in Defs \ (gone \cup Jumps) : CongruentTo(vn, d, e) => vn[d] = vn[e]

\* "We then make one pass through the graph, ignoring back edges": what one pass
\* in this order finds, phis aside, since the operands come first.
OnePassNumbers ==
    phase = "eliminate" /\ at = 1 =>
        \A d, e \in Movable : CongruentTo(vn, d, e) => vn[d] = vn[e]

\* Two definitions get the same number only if they always have the same value.
CongruentIsEqual ==
    phase = "eliminate" /\ at = 1 =>
        Always(original, LAMBDA val : \A d, e \in Defs \ Jumps :
            {d, e} \cap gone = {} /\ vn[d] = vn[e] => val[d] = val[e])

\* What is left computes what it computed before.
SameValues ==
    phase = "done" =>
        \A in \in Inputs : \A n \in 0..MaxTrips : \A d \in Defs \ gone :
            Run(args, in)[n][d] = Run(original, in)[n][d]

\* A multiplication loses its check for -0 only if it always is a square.
OnlySquaresCleared ==
    phase = "done" =>
        \A d \in cleared : Always(original, LAMBDA val : val[original[d][1]] = val[original[d][2]])

\* Every definition is in a block that dominates its uses.
UsesDominated ==
    \A d \in Defs : \A i \in DOMAIN args[d] :
        LET from == Block(args[d][i])
            to == IF d \in Phis THEN (IF i = 1 THEN 0 ELSE 2) ELSE Block(d)
        IN  to >= from /\ to <= from + NumDominated(from)

\* Elimination keeps the graph well formed and its values as they were.
EliminationSound == TypeOK /\ UsesDominated /\ SameValues

\* The worklist runs empty, and soon: "at worst O(d) time, where d is the loop
\* connectedness".  With one loop, three passes are enough.
NumberingEnds == passes <= 3
=============================================================================
