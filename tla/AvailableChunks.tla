--------------------------- MODULE AvailableChunks ---------------------------
(***************************************************************************)
(* The chunks in use by the collector and the arenas in them (jsgc.cpp,     *)
(* gc/Heap.h): the doubly linked list of the chunks with available arenas,  *)
(* allocation from its head, release of arenas by the sweeping thread, and  *)
(* the decommit loop of the helper thread, which walks the list from its    *)
(* tail and gives up the GC lock in the middle.                             *)
(*                                                                         *)
(* One action is one region run with the GC lock held.  "scan" is the part  *)
(* of the decommit loop that keeps the lock from one step to the next.      *)
(*                                                                         *)
(* Abstraction.  The system and the user list are handled alike and share   *)
(* no chunk: one list is modelled.  A chunk's list of free arenas and its   *)
(* bitmap of decommitted ones are sets, and any member may be taken.        *)
(* gcBytes is the number of allocated arenas.  The pool of empty chunks is  *)
(* a set; its ages are in GCHelperThread.                                   *)
(***************************************************************************)
EXTENDS Integers, FiniteSets

CONSTANTS
  Chunks,   \* bound: the chunks the system can map
  Arenas,   \* the arenas of one chunk (252)
  Nil,      \* NULL
  HeadAddr,     \* the address of the head of the list
  MaxUsed   \* gcMaxBytes, in arenas

ASSUME AvailableChunksAssumption ==
  /\ IsFiniteSet(Chunks) /\ IsFiniteSet(Arenas)
  /\ Cardinality(Arenas) > 1
  /\ {Nil, HeadAddr} \cap Chunks = {} /\ Nil # HeadAddr
  /\ MaxUsed \in Nat

VARIABLES
  head,        \* *GetAvailableChunkList
  next,        \* info.next
  prevp,       \* info.prevp; the chunk c stands for the address of its next
  numFree,     \* info.numArenasFree
  free,        \* info.freeArenasHead: the committed free arenas
  decommitted, \* decommittedArenas
  used,        \* the allocated arenas
  inUse,       \* rt->gcChunkSet
  pool,        \* rt->gcChunkPool
  freeCommitted, \* rt->gcNumArenasFreeCommitted
  newChunk,    \* rt->gcChunkAllocationSinceLastGC
  mainPc,      \* the main thread: "run", or inside a collection
  pc,          \* the helper thread
  garbage,     \* arenas the sweep has still to release
  chunk,       \* locals of DecommitArenasFromAvailableList
  aheader,
  savedPrevp

listVars   == <<head, next, prevp>>
arenaVars  == <<numFree, free, decommitted, used, freeCommitted>>
chunkVars  == <<inUse, pool>>
decommitVars == <<chunk, aheader, savedPrevp>>
vars == <<listVars, arenaVars, chunkVars, newChunk, mainPc, pc, garbage, decommitVars>>

ArenasPerChunk == Cardinality(Arenas)

\* The type invariant.
TypeOK ==
  /\ head \in Chunks \cup {Nil}
  /\ next \in [Chunks -> Chunks \cup {Nil}]
  /\ prevp \in [Chunks -> Chunks \cup {Nil, HeadAddr}]
  /\ numFree \in [Chunks -> 0..ArenasPerChunk]
  /\ free \in [Chunks -> SUBSET Arenas]
  /\ decommitted \in [Chunks -> SUBSET Arenas]
  /\ used \in [Chunks -> SUBSET Arenas]
  /\ inUse \in SUBSET Chunks /\ pool \in SUBSET Chunks
  /\ freeCommitted \in Nat
  /\ newChunk \in BOOLEAN
  /\ mainPc \in {"run", "wait", "collect", "session"}
  /\ pc \in {"idle", "sweep", "start", "scan", "decommit"}
  /\ garbage \in SUBSET (Chunks \X Arenas)
  /\ chunk \in Chunks \cup {Nil} /\ aheader \in Arenas \cup {Nil}
  /\ savedPrevp \in Chunks \cup {Nil, HeadAddr}

Init ==
  /\ head = Nil
  /\ next = [c \in Chunks |-> Nil] /\ prevp = [c \in Chunks |-> Nil]
  /\ numFree = [c \in Chunks |-> 0]
  /\ free = [c \in Chunks |-> {}]
  /\ decommitted = [c \in Chunks |-> {}]
  /\ used = [c \in Chunks |-> {}]
  /\ inUse = {} /\ pool = {} /\ freeCommitted = 0
  /\ newChunk = FALSE /\ mainPc = "run" /\ pc = "idle" /\ garbage = {}
  /\ chunk = Nil /\ aheader = Nil /\ savedPrevp = Nil

-----------------------------------------------------------------------------
(* The list.  L is a record of head, next and prevp.                        *)

List == [head |-> head, next |-> next, prevp |-> prevp]

SetList(L) == head' = L.head /\ next' = L.next /\ prevp' = L.prevp

HasAvailableArenas(c) == numFree[c] # 0

\* *p and the list with *p = c.
Deref(L, p) == IF p = HeadAddr THEN L.head ELSE L.next[p]

Store(L, p, c) ==
  IF p = HeadAddr THEN [L EXCEPT !.head = c] ELSE [L EXCEPT !.next[p] = c]

SetPrevp(L, c, p) == IF c = Nil THEN L ELSE [L EXCEPT !.prevp[c] = p]

\* Chunk::insertToAvailableList.
Insert(L, c, insertPoint) ==
  LET before == Deref(L, insertPoint)
      linked == SetPrevp([L EXCEPT !.prevp[c] = insertPoint, !.next[c] = before], before, c)
  IN  Store(linked, insertPoint, c)

\* Chunk::removeFromAvailableList.
Remove(L, c) ==
  LET unlinked == SetPrevp(Store(L, L.prevp[c], L.next[c]), L.next[c], L.prevp[c])
  IN  [unlinked EXCEPT !.prevp[c] = Nil, !.next[c] = Nil]

-----------------------------------------------------------------------------
(* The main thread.                                                         *)

GcBytes == Cardinality({s \in Chunks \X Arenas : s[2] \in used[s[1]]})

\* The GC lock is free.
LockFree == pc # "scan"

\* Mutant: the bit of the arena is not cleared.
FetchKeepsBit(c, a) ==
  /\ a \in IF free[c] # {} THEN free[c] ELSE decommitted[c]
  /\ numFree' = [numFree EXCEPT ![c] = @ - 1]
  /\ free' = [free EXCEPT ![c] = @ \ {a}]
  /\ UNCHANGED decommitted
  /\ freeCommitted' = freeCommitted - (IF a \in free[c] THEN 1 ELSE 0)

\* fetchNextFreeArena, or fetchNextDecommittedArena when none is committed.
Fetch(c, a) ==
  /\ a \in IF free[c] # {} THEN free[c] ELSE decommitted[c]
  /\ numFree' = [numFree EXCEPT ![c] = @ - 1]
  /\ free' = [free EXCEPT ![c] = @ \ {a}]
  /\ decommitted' = [decommitted EXCEPT ![c] = @ \ {a}]
  /\ freeCommitted' = freeCommitted - (IF free[c] # {} THEN 1 ELSE 0)

\* Chunk::allocateArena on a chunk of the list L.
AllocateArena(L, c) ==
  \E a \in Arenas :
    /\ Fetch(c, a)
    /\ used' = [used EXCEPT ![c] = @ \cup {a}]
    /\ SetList(IF numFree'[c] = 0 THEN Remove(L, c) ELSE L)

\* allocateFromArena with an available chunk: an arena of it, or nothing when
\* gcMaxBytes is reached.
AllocateAvailable ==
  /\ mainPc = "run" /\ LockFree
  /\ head # Nil /\ GcBytes < MaxUsed
  /\ AllocateArena(List, head)
  /\ UNCHANGED <<chunkVars, newChunk, mainPc, pc, garbage, decommitVars>>

\* PickChunk with no available chunk: one from the pool, or a new one.
PickChunk(c) ==
  /\ mainPc = "run" /\ LockFree
  /\ head = Nil
  /\ IF pool # {} THEN c \in pool ELSE c \in Chunks \ inUse
  /\ newChunk' = TRUE
  /\ inUse' = inUse \cup {c} /\ pool' = pool \ {c}

\* A chunk as Chunk::init leaves it, or as it came to the pool.
FreeOf(c) == IF c \in pool THEN free[c] ELSE Arenas
DecommittedOf(c) == Arenas \ FreeOf(c)

\* allocateFromArena with such a chunk.
AllocateNewChunk(c) ==
  /\ PickChunk(c) /\ GcBytes < MaxUsed
  /\ SetList(Insert(List, c, HeadAddr))
  /\ \E a \in IF FreeOf(c) # {} THEN FreeOf(c) ELSE Arenas :
       /\ used' = [used EXCEPT ![c] = {a}]
       /\ free' = [free EXCEPT ![c] = FreeOf(c) \ {a}]
       /\ decommitted' = [decommitted EXCEPT ![c] = DecommittedOf(c) \ {a}]
       /\ numFree' = [numFree EXCEPT ![c] = ArenasPerChunk - 1]
       /\ freeCommitted' = freeCommitted + (IF c \in pool THEN 0 ELSE ArenasPerChunk)
                           - (IF FreeOf(c) # {} THEN 1 ELSE 0)
  /\ UNCHANGED <<mainPc, pc, garbage, decommitVars>>

\* The same at the limit of the heap: allocateArena fails, and the chunk stays.
AllocateFails(c) ==
  /\ PickChunk(c) /\ GcBytes >= MaxUsed
  /\ SetList(Insert(List, c, HeadAddr))
  /\ free' = [free EXCEPT ![c] = FreeOf(c)]
  /\ decommitted' = [decommitted EXCEPT ![c] = DecommittedOf(c)]
  /\ numFree' = [numFree EXCEPT ![c] = ArenasPerChunk]
  /\ freeCommitted' = freeCommitted + (IF c \in pool THEN 0 ELSE ArenasPerChunk)
  /\ UNCHANGED <<used, mainPc, pc, garbage, decommitVars>>

\* gcChunkSet.add fails: the chunk is given back to the system.
AddToSetFails(c) ==
  /\ mainPc = "run" /\ LockFree
  /\ head = Nil
  /\ IF pool # {} THEN c \in pool ELSE c \in Chunks \ inUse
  /\ newChunk' = TRUE
  /\ pool' = pool \ {c}
  /\ freeCommitted' = freeCommitted - (IF c \in pool THEN Cardinality(free[c]) ELSE 0)
  /\ UNCHANGED <<listVars, numFree, free, decommitted, used, inUse, mainPc, pc, garbage,
                 decommitVars>>

\* A collection begins and waits for the helper thread (gcRunning).
BeginCollection ==
  /\ mainPc = "run"
  /\ mainPc' = "wait"
  /\ UNCHANGED <<listVars, arenaVars, chunkVars, newChunk, pc, garbage, decommitVars>>

\* It has marked; some of the arenas hold nothing alive.
Mark ==
  /\ mainPc = "wait" /\ pc = "idle"
  /\ garbage' \in SUBSET {s \in Chunks \X Arenas : s[2] \in used[s[1]]}
  /\ mainPc' = "collect"
  /\ UNCHANGED <<listVars, arenaVars, chunkVars, newChunk, pc, decommitVars>>

\* The rest is left to the helper thread.
StartBackgroundSweep ==
  /\ mainPc = "collect"
  /\ mainPc' = "session" /\ pc' = "sweep"
  /\ UNCHANGED <<listVars, arenaVars, chunkVars, newChunk, garbage, decommitVars>>

\* ~AutoGCSession.
EndSession ==
  /\ mainPc = "session"
  /\ mainPc' = "run" /\ newChunk' = FALSE
  /\ UNCHANGED <<listVars, arenaVars, chunkVars, pc, garbage, decommitVars>>

-----------------------------------------------------------------------------
(* Sweeping: the main thread in a collection, or the helper thread.         *)

\* Mutant: a chunk with an available arena again is not listed.
NeverRelist(c) == FALSE

\* The chunk had no available arena.
BecomesAvailable(c) == numFree'[c] = 1

\* Chunk::releaseArena.
ReleaseArena(c, a) ==
  /\ mainPc = "collect" \/ pc = "sweep"
  /\ <<c, a>> \in garbage
  /\ garbage' = garbage \ {<<c, a>>}
  /\ used' = [used EXCEPT ![c] = @ \ {a}]
  /\ free' = [free EXCEPT ![c] = @ \cup {a}]
  /\ numFree' = [numFree EXCEPT ![c] = @ + 1]
  /\ freeCommitted' = freeCommitted + 1
  /\ IF BecomesAvailable(c)
     THEN SetList(Insert(List, c, HeadAddr)) /\ UNCHANGED chunkVars
     ELSE IF numFree'[c] = ArenasPerChunk
     THEN /\ SetList(Remove(List, c))
          /\ inUse' = inUse \ {c} /\ pool' = pool \cup {c}
     ELSE UNCHANGED <<listVars, chunkVars>>
  /\ UNCHANGED <<decommitted, newChunk, mainPc, pc, decommitVars>>

\* ExpireChunksAndArenas: old chunks of the pool (all of them when it shrinks
\* the heap) are unmapped, and then the decommit loop runs.
Expire ==
  /\ pc = "sweep" /\ garbage = {}
  /\ \E gone \in SUBSET pool, shrink \in BOOLEAN :
       /\ shrink => gone = pool
       /\ pool' = pool \ gone
       /\ freeCommitted' = freeCommitted
            - Cardinality({s \in gone \X Arenas : s[2] \in free[s[1]]})
       /\ pc' = IF shrink THEN "start" ELSE "idle"
  /\ UNCHANGED <<listVars, numFree, free, decommitted, used, inUse, newChunk, mainPc,
                 garbage, decommitVars>>

-----------------------------------------------------------------------------
(* DecommitArenasFromAvailableList, on the helper thread.                   *)

\* The last chunk of the list.
IsTail(c) == prevp[c] # Nil /\ next[c] = Nil

StartDecommit ==
  /\ pc = "start"
  /\ IF head = Nil
     THEN pc' = "idle" /\ UNCHANGED chunk
     ELSE /\ pc' = "scan"
          /\ \E c \in Chunks : IsTail(c) /\ chunk' = c
  /\ UNCHANGED <<listVars, arenaVars, chunkVars, newChunk, mainPc, garbage, aheader,
                 savedPrevp>>

\* A committed arena is taken as if it were allocated, and the lock released.
FetchForDecommit ==
  /\ pc = "scan" /\ free[chunk] # {}
  /\ \E a \in Arenas : Fetch(chunk, a) /\ aheader' = a
  /\ savedPrevp' = prevp[chunk]
  /\ SetList(IF numFree'[chunk] = 0 THEN Remove(List, chunk) ELSE List)
  /\ pc' = "decommit"
  /\ UNCHANGED <<used, chunkVars, newChunk, mainPc, garbage, chunk>>

\* Mutant: the chunk always goes back to where it was.
InsertPointUnchecked == savedPrevp

\* Where the chunk goes back to: where it was, if the chunk before it is still
\* in the list.
InsertPoint ==
  IF savedPrevp # HeadAddr /\ ~HasAvailableArenas(savedPrevp) THEN HeadAddr ELSE savedPrevp

\* MarkPagesUnused has returned and the lock is taken again; it may have
\* failed (ok = FALSE).
Decommitted(ok) ==
  /\ pc = "decommit"
  /\ numFree' = [numFree EXCEPT ![chunk] = @ + 1]
  /\ IF ok
     THEN /\ decommitted' = [decommitted EXCEPT ![chunk] = @ \cup {aheader}]
          /\ UNCHANGED <<free, freeCommitted>>
     ELSE /\ free' = [free EXCEPT ![chunk] = @ \cup {aheader}]
          /\ freeCommitted' = freeCommitted + 1
          /\ UNCHANGED decommitted
  /\ SetList(IF numFree'[chunk] = 1 THEN Insert(List, chunk, InsertPoint) ELSE List)
  /\ pc' = IF newChunk THEN "idle" ELSE "scan"
  /\ aheader' = Nil /\ savedPrevp' = Nil
  /\ UNCHANGED <<used, chunkVars, newChunk, mainPc, garbage, chunk>>

\* Mutant: the walk starts again with the same chunk.
SameChunk == chunk

\* getPrevious.
PreviousChunk == prevp[chunk]

\* All arenas of the chunk are done: the chunk before it, or the end.
NextChunk ==
  /\ pc = "scan" /\ free[chunk] = {}
  /\ IF prevp[chunk] \in {HeadAddr, Nil}
     THEN pc' = "idle" /\ chunk' = Nil
     ELSE chunk' = PreviousChunk /\ UNCHANGED pc
  /\ UNCHANGED <<listVars, arenaVars, chunkVars, newChunk, mainPc, garbage, aheader,
                 savedPrevp>>

-----------------------------------------------------------------------------
Main ==
  \/ AllocateAvailable
  \/ \E c \in Chunks : AllocateNewChunk(c) \/ AllocateFails(c) \/ AddToSetFails(c)
  \/ BeginCollection \/ Mark \/ StartBackgroundSweep \/ EndSession

Sweep == \E c \in Chunks, a \in Arenas : ReleaseArena(c, a)

Helper ==
  \/ Expire \/ StartDecommit \/ FetchForDecommit \/ NextChunk
  \/ \E ok \in BOOLEAN : Decommitted(ok)

Next == Main \/ Sweep \/ Helper

Spec == Init /\ [][Next]_vars

\* The helper thread runs, and MarkPagesUnused does not fail for ever.
LiveSpec ==
  Spec /\ WF_vars(Helper) /\ WF_vars(Sweep /\ pc = "sweep") /\ SF_vars(Decommitted(TRUE))
       /\ WF_vars(EndSession)

-----------------------------------------------------------------------------
\* The list as a sequence of n chunks: L[1] is the first.
IsList(n, L) ==
  /\ \A i, j \in 1..n : L[i] = L[j] => i = j
  /\ head = IF n = 0 THEN Nil ELSE L[1]
  /\ \A i \in 1..n : next[L[i]] = IF i = n THEN Nil ELSE L[i + 1]
  /\ \A i \in 1..n : prevp[L[i]] = IF i = 1 THEN HeadAddr ELSE L[i - 1]
  /\ \A c \in Chunks : prevp[c] = Nil <=> c \notin {L[i] : i \in 1..n}
  /\ {L[i] : i \in 1..n} = {c \in inUse : HasAvailableArenas(c)}

\* Every chunk in use with available arenas is in the list, once, and no other
\* chunk is; the links in both directions agree; the lock may be released in
\* the middle of a walk (insertToAvailableList, removeFromAvailableList, the
\* assertions of DecommitArenasFromAvailableList).
ListCoherent == \E n \in 0..Cardinality(Chunks) : \E L \in [1..n -> Chunks] : IsList(n, L)

\* The arena in the hands of the decommit loop.
Held(c) == IF pc = "decommit" /\ chunk = c THEN {aheader} ELSE {}

\* The arenas of a chunk in use: used, free, decommitted, or in the hands of
\* the decommit loop, and only one of these; the counters agree.
ArenasAccounted ==
  /\ \A c \in inUse :
       /\ used[c] \cup free[c] \cup decommitted[c] \cup Held(c) = Arenas
       /\ used[c] \cap (free[c] \cup decommitted[c] \cup Held(c)) = {}
       /\ free[c] \cap (decommitted[c] \cup Held(c)) = {}
       /\ decommitted[c] \cap Held(c) = {}
       /\ numFree[c] = Cardinality(free[c] \cup decommitted[c])
  /\ freeCommitted =
       Cardinality({s \in (inUse \cup pool) \X Arenas : s[2] \in free[s[1]]})

\* What an arena is to the users of the heap.
HeapArena == [s \in Chunks \X Arenas |->
  IF s[1] \notin inUse THEN "none"
  ELSE IF s[2] \in used[s[1]] THEN "used"
  ELSE IF s[2] \in free[s[1]] \cup decommitted[s[1]] THEN "free" ELSE "held"]

\* What the heap promises: ArenaHeap.  In particular a chunk is added only
\* when no arena of a chunk in use is free, which depends on the list.
Heap == INSTANCE ArenaHeap WITH arena <- HeapArena

ImplementsHeap == Heap!Spec

\* DecommitArenas ends: a collection that waits for it goes on.
DecommitEnds == (pc # "idle") ~> (pc = "idle")

\* The assertion of the decommit loop, "JS_ASSERT(!chunk->unused())": a chunk
\* whose arenas are decommitted has an arena in use.
DecommitsUsedChunks == pc = "scan" => numFree[chunk] # ArenasPerChunk

=============================================================================
