------------------------------ MODULE MCIonCode ------------------------------
(* Small instances of IonScripts and of MoveResolver.  A behaviour is either *)
(* one of IonScripts, with two functions f and g of one compartment and h of *)
(* another, or the resolution of one group of moves: r1, r2, r3 and rt are    *)
(* registers, rt the one the emitter evicts, s1 and s2 slots, f1 and d1 a      *)
(* float register and a slot for doubles.                                    *)
EXTENDS IonScripts, TLC

CONSTANTS
  Checked,      \* "scripts" and the families of moves that a run checks
  f, g, h, i1, i2, i3, a, b,
  r1, r2, r3, rt, s1, s2, f1, d1

VARIABLES part, requested, pending, chain, ordered, enough, pc, inCycle, machine

moveVars == <<requested, pending, chain, ordered, enough, pc, inCycle, machine>>

ThreeScripts == {f, g, h}
TwoCompartments == [s \in {f, g, h} |-> IF s = h THEN b ELSE a]
Symmetry == Permutations({f, g}) \cup Permutations({i1, i2, i3})

GroupLocs == {r1, r2, s1, s2, f1, d1}
FourRegs == {r1, r2, r3, rt}
SpillLocs == {r1, rt, s1, s2}

(* group: registers, slots and doubles.  call: arguments of a call, some     *)
(* where they belong, and allocations that fail.  temp: the evicted register *)
(* is part of the group, which has no cycle.  tempCycle and callX64 show     *)
(* where the code breaks its promise: a cycle through the evicted register,   *)
(* and a failure that the next call of passABIArg hides.                     *)
Families ==
  [group |-> [regs |-> {r1, r2, rt}, slots |-> {s1, s2}, doubles |-> {f1, d1},
              locs |-> GroupLocs, moves |-> 5, self |-> FALSE, acyclic |-> FALSE,
              malloc |-> FALSE, x64 |-> FALSE],
   call |-> [regs |-> FourRegs, slots |-> {}, doubles |-> {},
             locs |-> FourRegs, moves |-> 4, self |-> TRUE, acyclic |-> FALSE,
             malloc |-> TRUE, x64 |-> FALSE],
   temp |-> [regs |-> {r1, rt}, slots |-> {s1, s2}, doubles |-> {},
             locs |-> SpillLocs, moves |-> 4, self |-> FALSE, acyclic |-> TRUE,
             malloc |-> FALSE, x64 |-> FALSE],
   tempCycle |-> [regs |-> {r1, rt}, slots |-> {s1, s2}, doubles |-> {},
                  locs |-> SpillLocs, moves |-> 4, self |-> FALSE, acyclic |-> FALSE,
                  malloc |-> FALSE, x64 |-> FALSE],
   callX64 |-> [regs |-> FourRegs, slots |-> {}, doubles |-> {},
                locs |-> FourRegs, moves |-> 2, self |-> TRUE, acyclic |-> FALSE,
                malloc |-> TRUE, x64 |-> TRUE]]

Group(k) == INSTANCE MoveResolver WITH
  stack <- chain,
  Regs <- Families[k].regs, Slots <- Families[k].slots, Doubles <- Families[k].doubles,
  Temp <- rt, Sources <- Families[k].locs, Targets <- Families[k].locs,
  MaxMoves <- Families[k].moves, SelfMoves <- Families[k].self,
  Acyclic <- Families[k].acyclic, MallocFails <- Families[k].malloc, X64 <- Families[k].x64

ASSUME FamiliesAssumption ==
  \A k \in Checked \ {"scripts"} : Group(k)!MoveResolverAssumption

\* The part that does not run stays where it begins.
MCInit ==
  /\ Init
  /\ \E k \in Checked : part = k /\ Group(IF k = "scripts" THEN "call" ELSE k)!Init

MCNext ==
  /\ \/ part = "scripts" /\ Next /\ UNCHANGED moveVars
     \/ \E k \in Checked \ {"scripts"} : part = k /\ Group(k)!Next /\ UNCHANGED vars
  /\ UNCHANGED part

MCSpec == MCInit /\ [][MCNext]_<<vars, moveVars, part>>

\* Every destination holds what its source held before the group, and all else
\* what it held itself; no move is put before one that still needs what it
\* overwrites; cycles have two marked moves each and do not nest.
MovesSound ==
  \A k \in Checked \ {"scripts"} : part = k =>
    /\ Group(k)!TypeOK /\ Group(k)!MovesInParallel
    /\ Group(k)!SourcesIntact /\ Group(k)!CyclesPaired
=============================================================================
