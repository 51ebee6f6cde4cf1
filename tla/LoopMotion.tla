----------------------------- MODULE LoopMotion -----------------------------
(***************************************************************************)
(* Loads and stores in nested loops: AliasAnalysis (ion/AliasAnalysis.cpp) *)
(* gives every load the store it depends on, value numbering takes loads   *)
(* with the same dependency for equal, and LICM (ion/LICM.cpp) moves what   *)
(* does not change in a loop before it, the outer loop first.              *)
(*                                                                         *)
(* The blocks, in reverse postorder: the entry (1), the outer header (2),  *)
(* a block before the inner loop (3), the inner header (4), the inner body *)
(* (5), the end of the outer body (6) and the exit (7).                    *)
(***************************************************************************)
EXTENDS Integers, Sequences, FiniteSets, SequencesExt, FiniteSetsExt, Functions

CONSTANTS
    Classes,  \* the kinds of memory that an alias set is made of
    Programs, \* for every instruction [kind, set, operand]
    Slots,    \* the block of every instruction, in order
    MaxTrips  \* bound: how often a loop is run

Blocks == 1..7
Preds(b) == CASE b = 1 -> <<>> [] b = 2 -> <<1, 6>> [] b = 3 -> <<2>> [] b = 4 -> <<3, 5>>
              [] b = 5 -> <<4>> [] b = 6 -> <<4>> [] OTHER -> <<2>>
IsLoopHeader(b) == b \in {2, 4}
HeaderOfBackedge(b) == CASE b = 5 -> 4 [] b = 6 -> 2 [] OTHER -> 0
Defs == DOMAIN Slots

\* Operands that are no instructions: a parameter, and the phis of the headers.
Param == 0
OuterPhi == -1
InnerPhi == -2

ASSUME LoopMotionAssumption ==
    /\ MaxTrips \in Nat /\ Slots \in Seq(Blocks)
    /\ \A i, j \in Defs : i <= j => Slots[i] <= Slots[j]
    /\ \A p \in Programs : \A d \in Defs :
        /\ p[d].kind \in {"load", "store", "pure"} /\ p[d].set \subseteq Classes
        /\ p[d].operand \in {Param, OuterPhi, InnerPhi} \cup 1..(d - 1)

VARIABLES
    program,   \* the instructions
    blocks,    \* the instructions in every block
    phase,     \* "alias", "licm", "loop" or "done"
    at,        \* the block the pass has come to
    stores,    \* the last store to every class; 0 is the first instruction
    loops,     \* AliasAnalysis::loop_: [header, stores, invariant], the inner one first
    dep,       \* dependency of the loads; -b is the jump at the end of block b
    header,    \* Loop::header_
    worklist,  \* Loop::worklist_
    invariant, \* instructions with setLoopInvariant
    toHoist    \* invariantInstructions

vars == <<program, blocks, phase, at, stores, loops, dep, header, worklist, invariant, toHoist>>

Loads == {d \in Defs : program[d].kind = "load"}
Where(bs, d) == CHOOSE b \in Blocks : Contains(bs[b], d)

Init ==
    /\ program \in Programs
    /\ blocks = [b \in Blocks |-> SelectSeq([d \in Defs |-> d], LAMBDA d : Slots[d] = b)]
    /\ phase = "alias" /\ at = 1
    /\ stores = [c \in Classes |-> 0] /\ loops = <<>>
    /\ dep = [d \in Defs |-> 0]
    /\ header = 0 /\ worklist = <<>> /\ invariant = {} /\ toHoist = <<>>

-----------------------------------------------------------------------------
(* AliasAnalysis::analyze, a block at a time. *)

\* The first instruction of a loop's header is the first that is not before it.
BeforeLoop(d, loop) == d = 0 \/ Slots[d] < loop.header

\* A store becomes the last one of its classes; a load depends on the last store
\* of its classes, and is taken for invariant if that is before the loop.
AnalyzeDef(s, d) ==
    LET set == program[d].set
        last == Max({s.stores[c] : c \in set})
    IN  CASE program[d].kind = "pure" -> s
          [] program[d].kind = "store" ->
               [s EXCEPT !.stores = [c \in Classes |-> IF c \in set THEN d ELSE @[c]],
                         !.loops = IF @ = <<>> THEN @ ELSE [@ EXCEPT ![1].stores = @ \cup set]]
          [] OTHER ->
               [s EXCEPT !.dep[d] = last,
                         !.loops = IF @ = <<>> \/ ~BeforeLoop(last, Head(@)) THEN @
                                   ELSE [@ EXCEPT ![1].invariant = @ \cup {d}]]

\* Bug: the stores of an inner loop are not added to those of the outer one.
EndLoopAlone(s) ==
    LET loop == Head(s.loops)
        rest == Tail(s.loops)
        wrong == {d \in loop.invariant : program[d].set \cap loop.stores # {}}
    IN  [s EXCEPT
            !.dep = [d \in Defs |-> IF d \in wrong THEN -loop.header ELSE @[d]],
            !.loops = IF rest = <<>> THEN rest
                      ELSE [rest EXCEPT ![1].invariant = @ \cup
                                {d \in loop.invariant \ wrong : BeforeLoop(s.dep[d], Head(rest))}]]

\* At a back edge: loads that a store of the loop may change depend on the jump of
\* the header; the others may be invariant in the outer loop too.
EndLoop(s) ==
    LET loop == Head(s.loops)
        rest == Tail(s.loops)
        wrong == {d \in loop.invariant : program[d].set \cap loop.stores # {}}
    IN  [s EXCEPT
            !.dep = [d \in Defs |-> IF d \in wrong THEN -loop.header ELSE @[d]],
            !.loops = IF rest = <<>> THEN rest
                      ELSE [rest EXCEPT ![1].stores = @ \cup loop.stores,
                                        ![1].invariant = @ \cup
                                {d \in loop.invariant \ wrong : BeforeLoop(s.dep[d], Head(rest))}]]

AnalyzeBlock(b) ==
    /\ phase = "alias" /\ b = at
    /\ LET entered == [stores |-> stores, dep |-> dep,
                       loops |-> IF IsLoopHeader(b)
                                 THEN <<[header |-> b, stores |-> {}, invariant |-> {}]>> \o loops
                                 ELSE loops]
           body == FoldLeft(AnalyzeDef, entered, blocks[b])
           final == IF HeaderOfBackedge(b) # 0 THEN EndLoop(body) ELSE body
       IN  /\ stores' = final.stores /\ dep' = final.dep /\ loops' = final.loops
    /\ at' = IF b = 7 THEN 1 ELSE b + 1
    /\ phase' = IF b = 7 THEN "licm" ELSE phase
    /\ UNCHANGED <<program, blocks, header, worklist, invariant, toHoist>>

-----------------------------------------------------------------------------
(* LICM::analyze and Loop. *)

\* iterateLoopBlocks: the blocks of the loop that ends with b, in the order in
\* which they are left; seen are the marked ones.
RECURSIVE Visit(_, _)
Visit(acc, b) ==
    IF b \in acc.seen THEN acc
    ELSE LET marked == [acc EXCEPT !.seen = @ \cup {b}]
             deep == IF b = acc.header THEN marked ELSE FoldLeft(Visit, marked, Preds(b))
         IN  [deep EXCEPT !.order = Append(@, b)]

LoopBlocks(h) ==
    Visit([header |-> h, seen |-> {}, order |-> <<>>], CHOOSE b \in Blocks : HeaderOfBackedge(b) = h).order

Movable(d) == program[d].kind # "store"
PreLoop == Preds(header)[1]

\* isInLoop of an operand: its block does not come before the header.
InLoop(d) ==
    CASE d = Param -> FALSE
      [] d = OuterPhi -> 2 >= header
      [] d = InnerPhi -> TRUE
      [] OTHER -> Where(blocks, d) >= header

\* isInLoop of a dependency.
DependsInLoop(d) ==
    /\ d \in Loads
    /\ \/ dep[d] < 0 /\ -dep[d] >= header
       \/ dep[d] > 0 /\ Where(blocks, dep[d]) >= header

IsLoopInvariant(d) ==
    LET o == program[d].operand
    IN  ~DependsInLoop(d) /\ (InLoop(o) => o \in invariant)

\* A loop header that has a loop: Loop::init puts what can move into the worklist.
StartLoop ==
    /\ phase = "licm" /\ at <= 7 /\ IsLoopHeader(at)
    /\ header' = at
    /\ worklist' = FoldLeft(LAMBDA w, b : w \o SelectSeq(blocks[b], Movable), <<>>, LoopBlocks(at))
    /\ phase' = "loop" /\ toHoist' = <<>>
    /\ UNCHANGED <<program, blocks, at, stores, loops, dep, invariant>>

\* The instructions that are looked at again when d turns out to be invariant.
Again(d, rest) ==
    {e \in Defs : program[e].operand = d /\ ~Contains(rest, e) /\ InLoop(e) /\ Movable(e)}

\* Loop::optimize: one instruction of the worklist.
Pop ==
    /\ phase = "loop" /\ worklist # <<>>
    /\ LET d == Head(worklist)
           rest == Tail(worklist)
       IN  IF IsLoopInvariant(d)
           THEN \E order \in SetToSeqs(Again(d, rest)) :
                /\ invariant' = invariant \cup {d} /\ toHoist' = Append(toHoist, d)
                /\ worklist' = rest \o order
           ELSE worklist' = rest /\ UNCHANGED <<invariant, toHoist>>
    /\ UNCHANGED <<program, blocks, phase, at, stores, loops, dep, header>>

\* moveBefore: to the end of the block before the loop.
HoistBehind(bs, d) ==
    LET taken == [b \in Blocks |-> SelectSeq(bs[b], LAMBDA e : e # d)]
    IN  [taken EXCEPT ![PreLoop] = Append(@, d)]

\* hoistInstructions.
Hoist ==
    /\ phase = "loop" /\ worklist = <<>>
    /\ blocks' = FoldLeft(HoistBehind, blocks, toHoist)
    /\ invariant' = invariant \ Range(toHoist)
    /\ phase' = "licm" /\ at' = at + 1
    /\ UNCHANGED <<program, stores, loops, dep, header, worklist, toHoist>>

SkipBlock ==
    /\ phase = "licm" /\ at <= 7 /\ ~IsLoopHeader(at)
    /\ at' = at + 1
    /\ UNCHANGED <<program, blocks, phase, stores, loops, dep, header, worklist, invariant, toHoist>>

Done ==
    /\ phase = "licm" /\ at > 7
    /\ phase' = "done"
    /\ UNCHANGED <<program, blocks, at, stores, loops, dep, header, worklist, invariant, toHoist>>

-----------------------------------------------------------------------------
Next ==
    \/ \E b \in Blocks : AnalyzeBlock(b)
    \/ StartLoop \/ Pop \/ Hoist \/ SkipBlock \/ Done

Spec == Init /\ [][Next]_vars

-----------------------------------------------------------------------------
(* The reference: running the blocks along a path. *)

\* The paths with up to MaxTrips trips of both loops.
Paths ==
    LET inner(n) == FlattenSeq([i \in 1..n |-> <<5, 4>>])
        outer(t) == FlattenSeq([i \in DOMAIN t |-> <<3, 4>> \o inner(t[i]) \o <<6, 2>>])
    IN  {<<1, 2>> \o outer(t) \o <<7>> : t \in UNION {[1..n -> 0..MaxTrips] : n \in 0..MaxTrips}}

\* One instruction: a load sees how many stores there were to its classes.
Exec(s, d) ==
    LET i == program[d]
        o == IF i.operand > 0 THEN s.val[i.operand]
             ELSE CASE i.operand = Param -> <<0>> [] i.operand = OuterPhi -> <<1, s.trips[1]>>
                    [] OTHER -> <<2, s.trips[2]>>
    IN  IF i.kind = "store" THEN [s EXCEPT !.mem = [c \in Classes |-> IF c \in i.set THEN @[c] + 1 ELSE @[c]]]
        ELSE [s EXCEPT !.val[d] = <<i.kind, o, IF i.kind = "load" THEN [c \in i.set |-> s.mem[c]] ELSE <<>> >>]

\* One block; the log has the values of all instructions behind every block.
ExecBlock(bs, s, b) ==
    LET begun == [s EXCEPT !.trips = CASE b = 2 -> <<@[1] + 1, 0>> [] b = 4 -> <<@[1], @[2] + 1>> [] OTHER -> @]
        ended == FoldLeft(Exec, begun, bs[b])
    IN  [ended EXCEPT !.log = Append(@, ended.val)]

\* The log of a run along a path, for the blocks bs.
Log(bs, path) ==
    FoldLeft(LAMBDA s, b : ExecBlock(bs, s, b),
             [mem |-> [c \in Classes |-> 0], val |-> [d \in Defs |-> <<>>], trips |-> <<0, 0>>, log |-> <<>>],
             path).log

Original == [b \in Blocks |-> SelectSeq([d \in Defs |-> d], LAMBDA d : Slots[d] = b)]

IDom(b) == CASE b <= 2 -> 1 [] b = 3 -> 2 [] b = 4 -> 3 [] b \in {5, 6} -> 4 [] OTHER -> 2
Dominates(a, b) ==
    LET up[n \in 0..7] == IF n = 0 THEN b ELSE IDom(up[n - 1]) IN \E n \in 0..7 : up[n] = a

-----------------------------------------------------------------------------
(* Properties. *)

\* Every variable has its type; no instruction is lost or doubled, and stores stay
\* where they are (hoistInstructions asserts that it moves none).
TypeOK ==
    /\ phase \in {"alias", "licm", "loop", "done"} /\ at \in 1..8 /\ header \in {0, 2, 4}
    /\ stores \in [Classes -> {0} \cup Defs] /\ dep \in [Defs -> (-7)..Len(Slots)]
    /\ \A d \in Defs : \E b \in Blocks : Contains(blocks[b], d)
    /\ FoldSet(LAMBDA b, n : n + Len(blocks[b]), 0, Blocks) = Cardinality(Defs)
    /\ \A d \in Defs : program[d].kind = "store" => Contains(blocks[Slots[d]], d)
    /\ IsInjective(worklist) /\ IsInjective(toHoist)
    /\ invariant \subseteq Defs /\ (phase # "alias" => loops = <<>>)

\* Loads that value numbering takes for equal are: those of the same memory and
\* operand that depend on the same store, when one dominates the other.
SameDependency ==
    phase = "licm" /\ at = 1 =>
        \A path \in Paths : LET log == Log(blocks, path) IN
            \A d, e \in Loads : \A k \in DOMAIN path :
                /\ d < e /\ program[d] = program[e] /\ dep[d] = dep[e]
                /\ Dominates(Slots[d], Slots[e]) /\ path[k] = Slots[e]
                => log[k][d] = log[k][e]

\* The instructions that have been moved have the values they had where they were.
SameValues ==
    phase = "done" =>
        \A path \in Paths :
            LET old == Log(Original, path)
                new == Log(blocks, path)
            IN  \A k \in DOMAIN path : \A d \in Range(Original[path[k]]) : new[k][d] = old[k][d]

\* An operand comes before its uses, also among those that have been moved together.
OperandsFirst ==
    phase = "licm" =>
        \A d \in Defs : LET o == program[d].operand IN o > 0 =>
            LET b == Where(blocks, d)
                c == Where(blocks, o)
            IN  IF b = c THEN SelectInSeq(blocks[b], LAMBDA e : e = o) < SelectInSeq(blocks[b], LAMBDA e : e = d)
                ELSE Dominates(c, b)

\* What LICM leaves in a loop has a reason to be there: it depends on something in
\* that loop.
NothingLeftInLoop ==
    phase = "licm" /\ header # 0 =>
        \A d \in Defs : Movable(d) /\ InLoop(d) /\ Slots[d] \in Range(LoopBlocks(header)) =>
            DependsInLoop(d) \/ InLoop(program[d].operand)
=============================================================================
