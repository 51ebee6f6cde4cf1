------------------------------ MODULE ArenaHeap ------------------------------
(***************************************************************************)
(* What the chunk heap of the collector (jsgc.cpp, gc/Heap.h) promises its  *)
(* users, whatever lists it keeps: an arena is handed out once at a time,   *)
(* a free arena of a chunk in use is found before another chunk is taken,   *)
(* and a chunk leaves the heap with its last used arena.                    *)
(***************************************************************************)
CONSTANTS
  Chunks,
  Arenas    \* the arenas of one chunk

VARIABLE arena  \* of each arena: "none" (its chunk is not in use), "free",
                \* "used", or "held" while its pages are given back

Slots == Chunks \X Arenas

States == {"none", "free", "used", "held"}

Init == arena = [s \in Slots |-> "none"]

\* An arena of a chunk in use.
Allocate(s) ==
  /\ arena[s] = "free"
  /\ arena' = [arena EXCEPT ![s] = "used"]

\* No arena of a chunk in use is free: a chunk is added, and one arena of it
\* used.
AddChunk(c, a) ==
  /\ \A s \in Slots : arena[s] # "free"
  /\ \A b \in Arenas : arena[<<c, b>>] = "none"
  /\ arena' = [s \in Slots |-> IF s = <<c, a>> THEN "used"
                               ELSE IF s[1] = c THEN "free" ELSE arena[s]]

\* The same when the heap may not grow: the chunk is added, and no arena used.
AddUnusedChunk(c) ==
  /\ \A s \in Slots : arena[s] # "free"
  /\ \A b \in Arenas : arena[<<c, b>>] = "none"
  /\ arena' = [s \in Slots |-> IF s[1] = c THEN "free" ELSE arena[s]]

\* An arena is released; the last one of a chunk takes the chunk with it.
Release(s) ==
  /\ arena[s] = "used"
  /\ IF \A b \in Arenas : b # s[2] => arena[<<s[1], b>>] = "free"
     THEN arena' = [t \in Slots |-> IF t[1] = s[1] THEN "none" ELSE arena[t]]
     ELSE arena' = [arena EXCEPT ![s] = "free"]

\* The pages of a free arena are given back to the system: one at a time.
Hold(s) ==
  /\ arena[s] = "free" /\ \A t \in Slots : arena[t] # "held"
  /\ arena' = [arena EXCEPT ![s] = "held"]

Unhold(s) ==
  /\ arena[s] = "held"
  /\ arena' = [arena EXCEPT ![s] = "free"]

Next ==
  \/ \E s \in Slots : Allocate(s) \/ Release(s) \/ Hold(s) \/ Unhold(s)
  \/ \E c \in Chunks, a \in Arenas : AddChunk(c, a)
  \/ \E c \in Chunks : AddUnusedChunk(c)

Spec == Init /\ [][Next]_arena

=============================================================================
