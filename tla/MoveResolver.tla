---------------------------- MODULE MoveResolver ----------------------------
(***************************************************************************)
(* Parallel moves in Ion (ion/MoveResolver.cpp) and the x86 emitter         *)
(* (ion/shared/MoveEmitter-x86-shared.cpp).                                 *)
(*                                                                         *)
(* A group of moves that are to happen at once is put into an order, with   *)
(* the two ends of every cycle marked, and emitted one by one.  The model   *)
(* runs what is emitted: content is the machine the code runs on, and at    *)
(* the beginning every location holds a value of its own, named like it.    *)
(*                                                                         *)
(* Abstraction.  A memory operand is a stack slot; operands with another    *)
(* base register and effective addresses, which only calls of VM functions  *)
(* have, are left out, and with them the arithmetic on stack offsets.       *)
(***************************************************************************)
EXTENDS Integers, Sequences, SequencesExt

CONSTANTS
  Regs,         \* general registers
  Slots,        \* stack slots for them
  Doubles,      \* float registers and slots for doubles
  Temp,         \* the register MoveEmitterX86::tempReg evicts
  Sources,      \* what a caller moves from ...
  Targets,      \* ... and to
  MaxMoves,     \* bound: moves in a group
  SelfMoves,    \* a call may pass a register that is where it belongs
  Acyclic,      \* only groups without cycles
  MallocFails,  \* an allocation may fail
  X64           \* MacroAssemblerX64::passABIArg, or the code that keeps failures

Locs == Regs \cup Slots \cup Doubles

MoveResolverAssumption ==
  /\ Temp \in Regs /\ Sources \subseteq Locs /\ Targets \subseteq Locs
  /\ Regs \cap Slots = {} /\ (Regs \cup Slots) \cap Doubles = {}
  /\ MaxMoves \in Nat
  /\ {SelfMoves, Acyclic, MallocFails, X64} \subseteq BOOLEAN

VARIABLES
  requested, \* history: the moves of the group
  pending,   \* MoveResolver::pending_
  stack,     \* the local stack of resolve; its first move is pm
  ordered,   \* MoveResolver::orderedMoves_
  enough,    \* enoughMemory_, or that no failure was returned
  pc,        \* "add", "resolve", "emit", "done", "failed"
  inCycle,   \* MoveEmitterX86::inCycle_
  machine    \* the machine, and what the emitter knows of it

vars == <<requested, pending, stack, ordered, enough, pc, inCycle, machine>>

Move(from, to) == [from |-> from, to |-> to, cycle |-> FALSE]
Moves == [from : Locs, to : Locs, cycle : BOOLEAN]

\* at: what each location holds; cycle, spill: the two extra stack slots;
\* spilled: spilledReg_ is Temp.
Machines ==
  [at : [Locs -> Locs], cycle : Locs, spill : Locs, spilled : BOOLEAN]

\* The type invariant.
TypeOK ==
  /\ requested \subseteq Moves
  /\ {pending, stack, ordered} \subseteq Seq(Moves)
  /\ enough \in BOOLEAN /\ inCycle \in BOOLEAN
  /\ pc \in {"add", "resolve", "emit", "done", "failed"}
  /\ machine \in Machines
  /\ Len(pending) + Len(stack) + Len(ordered) <= MaxMoves

Init ==
  /\ requested = {} /\ pending = <<>> /\ stack = <<>> /\ ordered = <<>>
  /\ enough = TRUE /\ pc = "add" /\ inCycle = FALSE
  /\ \E junk \in Slots \cup {Temp} :
       machine = [at |-> [l \in Locs |-> l], cycle |-> junk, spill |-> junk, spilled |-> FALSE]

-----------------------------------------------------------------------------
(* The caller.                                                              *)

\* Some locations pass their values around among themselves.
HasCycle(moves) ==
  \E ls \in SUBSET Locs \ {{}} : \A l \in ls : \E m \in moves : m.to = l /\ m.from \in ls

\* visitMoveGroup, and the register allocator: no location is written twice,
\* and a double moves to where a double fits.
MayMove(from, to) ==
  /\ \A m \in requested : m.to # to
  /\ from \in Doubles <=> to \in Doubles
  /\ SelfMoves \/ from # to
  /\ Acyclic => ~HasCycle(requested \cup {Move(from, to)})

\* A group stops at a failure and enoughMemory_ &= keeps it;
\* MacroAssemblerX64::passABIArg keeps only the result of the last call.
EnoughMemory(ok) == IF X64 THEN ok ELSE enough /\ ok

\* MoveResolver::addMove, called by visitMoveGroup and by passABIArg.
AddMove(from, to, ok) ==
  /\ pc = "add" /\ Len(pending) < MaxMoves /\ MayMove(from, to)
  /\ requested' = requested \cup {Move(from, to)}
  /\ pending' = IF ok THEN Append(pending, Move(from, to)) ELSE pending
  /\ enough' = EnoughMemory(ok)
  /\ UNCHANGED <<stack, ordered, pc, inCycle, machine>>

StartResolve ==
  /\ pc = "add" /\ requested # {}
  /\ pc' = IF enough THEN "resolve" ELSE "failed"
  /\ UNCHANGED <<requested, pending, stack, ordered, enough, inCycle, machine>>

-----------------------------------------------------------------------------
(* MoveResolver::resolve.                                                   *)

\* findBlockingMove: the first pending move that reads location l; 0 if none.
FindBlockingMove(l) ==
  LET readers == {i \in 1..Len(pending) : pending[i].from = l}
  IN  IF readers = {} THEN 0 ELSE CHOOSE i \in readers : \A j \in readers : i <= j

\* The last pending move begins a chain.
PickRoot ==
  /\ pc = "resolve" /\ stack = <<>> /\ pending # <<>>
  /\ stack' = <<Last(pending)>>
  /\ pending' = Front(pending)
  /\ UNCHANGED <<requested, ordered, enough, pc, inCycle, machine>>

\* The move goes back to where the chain began.
ClosesCycle(m) == m.to = stack[1].from

SetInCycle(m) == [m EXCEPT !.cycle = TRUE]

\* The move leaves the list of pending moves.
TakeBlocking(m) == Remove(pending, m)

\* A pending move reads what the last move of the chain writes.
PushBlocking ==
  LET i == FindBlockingMove(Last(stack).to)
      m == pending[i]
  IN
  /\ pc = "resolve" /\ stack # <<>> /\ i # 0
  /\ pending' = TakeBlocking(m)
  /\ stack' = IF ClosesCycle(m)
              THEN Append([stack EXCEPT ![1] = SetInCycle(stack[1])], SetInCycle(m))
              ELSE Append(stack, m)
  /\ UNCHANGED <<requested, ordered, enough, pc, inCycle, machine>>

\* None does: the move is next in the order.  The vector may fail to grow.
OrderMove(ok) ==
  /\ pc = "resolve" /\ stack # <<>> /\ FindBlockingMove(Last(stack).to) = 0
  /\ IF ok
     THEN /\ ordered' = Append(ordered, Last(stack))
          /\ stack' = Front(stack)
          /\ UNCHANGED <<enough, pc>>
     ELSE /\ enough' = FALSE /\ pc' = "failed"
          /\ UNCHANGED <<ordered, stack>>
  /\ UNCHANGED <<requested, pending, inCycle, machine>>

Resolved ==
  /\ pc = "resolve" /\ stack = <<>> /\ pending = <<>>
  /\ pc' = "emit"
  /\ UNCHANGED <<requested, pending, stack, ordered, enough, inCycle, machine>>

-----------------------------------------------------------------------------
(* MoveEmitterX86.                                                          *)

\* tempReg: the register is spilled unless it is already.
TempReg(m) ==
  IF m.spilled THEN m ELSE [m EXCEPT !.spilled = TRUE, !.spill = m.at[Temp]]

\* A slot is copied by way of Temp.
IsSlot(l) == l \in Slots

\* breakCycle: what the move will overwrite is saved.
BreakCycle(mv, m) ==
  IF IsSlot(mv.to)
  THEN LET t == TempReg(m)
       IN  [t EXCEPT !.at[Temp] = t.at[mv.to], !.cycle = t.at[mv.to]]
  ELSE [m EXCEPT !.cycle = m.at[mv.to]]

\* completeCycle: the saved value goes to its destination.
CompleteCycle(mv, m) ==
  IF IsSlot(mv.to)
  THEN [TempReg(m) EXCEPT !.at[Temp] = m.cycle, !.at[mv.to] = m.cycle]
  ELSE [m EXCEPT !.at[mv.to] = m.cycle]

\* Mutant: the spilled register is not loaded back before it is read.
EmitNoReload(mv, m) ==
  IF mv.from \in Slots /\ mv.to \in Slots
  THEN LET t == TempReg(m)
       IN  [t EXCEPT !.at[Temp] = t.at[mv.from], !.at[mv.to] = t.at[mv.from]]
  ELSE [m EXCEPT !.at[mv.to] = m.at[mv.from]]

\* emitMove and emitDoubleMove.  A destination that is spilled no longer is; a
\* source that is spilled is loaded back first.
EmitMove(mv, m) ==
  LET kept == IF mv.to = Temp THEN [m EXCEPT !.spilled = FALSE] ELSE m
      read == IF mv.from = Temp /\ kept.spilled
              THEN [kept EXCEPT !.at[Temp] = kept.spill, !.spilled = FALSE]
              ELSE kept
  IN  IF mv.from \in Slots /\ mv.to \in Slots
      THEN LET t == TempReg(m)
           IN  [t EXCEPT !.at[Temp] = t.at[mv.from], !.at[mv.to] = t.at[mv.from]]
      ELSE [read EXCEPT !.at[mv.to] = read.at[mv.from]]

\* emit of the next move.
Emit ==
  LET mv == Head(ordered) IN
  /\ pc = "emit" /\ ordered # <<>>
  /\ ordered' = Tail(ordered)
  /\ inCycle' = (inCycle # mv.cycle)
  /\ machine' = IF mv.cycle /\ inCycle THEN CompleteCycle(mv, machine)
                ELSE EmitMove(mv, IF mv.cycle THEN BreakCycle(mv, machine) ELSE machine)
  /\ UNCHANGED <<requested, pending, stack, enough, pc>>

\* The evicted register gets its value back.
Restore(m) ==
  IF m.spilled THEN [m EXCEPT !.at[Temp] = m.spill, !.spilled = FALSE] ELSE m

Finish ==
  /\ pc = "emit" /\ ordered = <<>>
  /\ machine' = Restore(machine)
  /\ pc' = "done"
  /\ UNCHANGED <<requested, pending, stack, ordered, enough, inCycle>>

-----------------------------------------------------------------------------
Outcomes == IF MallocFails THEN BOOLEAN ELSE {TRUE}

Next ==
  \/ \E from \in Sources, to \in Targets, ok \in Outcomes : AddMove(from, to, ok)
  \/ StartResolve
  \/ PickRoot \/ PushBlocking \/ Resolved
  \/ \E ok \in Outcomes : OrderMove(ok)
  \/ Emit \/ Finish

Spec == Init /\ [][Next]_vars

-----------------------------------------------------------------------------
\* "Position all arguments." (callWithABI): every destination holds what its
\* source held before the group, and everything else what it held itself, the
\* evicted register included.
MovesInParallel ==
  pc = "done" =>
    \A l \in Locs :
      machine.at[l] = IF \E m \in requested : m.to = l
                      THEN (CHOOSE m \in requested : m.to = l).from
                      ELSE l

\* The moves still to be emitted, the one on top of the chain first.
Later == ordered \o Reverse(stack)

\* While the moves are ordered no move is put before one that still needs what
\* it overwrites, but for the two marked moves of a cycle.
SourcesIntact ==
  pc = "resolve" =>
    \A i \in 1..Len(ordered) :
      /\ \A j \in 1..Len(pending) : pending[j].from # ordered[i].to
      /\ \A j \in (i + 1)..Len(Later) :
           Later[j].from = ordered[i].to => ordered[i].cycle /\ Later[j].cycle

\* MoveResolver.h: "For every cycle there are two such moves, and it is
\* guaranteed that cycles do not nest inside each other in the list."
CyclesPaired ==
  pc = "emit" =>
    LET marked == SelectSeq(ordered, LAMBDA m : m.cycle)
        from == IF inCycle THEN 1 ELSE 0
    IN  /\ (Len(marked) - from) % 2 = 0
        /\ \A k \in 1..Len(marked) :
             (k - from) % 2 = 1 => marked[k + 1].from = marked[k].to

=============================================================================
