-------------------------------- MODULE DHash --------------------------------
(***************************************************************************)
(* The double-hashing table of jsdhash.cpp: probing, removed entries, the   *)
(* collision flag, growing, shrinking and compressing, and the ways an      *)
(* addition can fail.  Every call is one step.                              *)
(*                                                                         *)
(* Abstraction.  An entry is free, removed, or the key it is live for with  *)
(* its collision flag; keyHash is a function of the key, with the golden    *)
(* ratio multiplied in, of Bits bits instead of 32.                         *)
(***************************************************************************)
EXTENDS Integers, FiniteSets

CONSTANTS
  Keys,
  KeyHash,     \* keyHash of each key, as JS_DHashTableOperate computes it
  Bits,        \* JS_DHASH_BITS
  MinLog2,     \* of JS_DHASH_MIN_SIZE
  LimitLog2,   \* of JS_DHASH_SIZE_LIMIT
  MallocFails, \* allocTable may return null
  InitFails    \* the initEntry hook may fail

ASSUME DHashAssumption ==
  /\ Bits \in Nat /\ MinLog2 \in 2..Bits /\ LimitLog2 \in (MinLog2 + 1)..Bits
  /\ KeyHash \in [Keys -> {h \in 2..(2^Bits - 1) : h % 2 = 0}]
  /\ {MallocFails, InitFails} \subseteq BOOLEAN

VARIABLES
  table,  \* log2 of the size, entries, entryCount, removedCount, generation
  result  \* the last operation, its keys, and whether it returned an entry

vars == <<table, result>>

Answer(op, ks, ok) == [op |-> op, keys |-> ks, ok |-> ok]

Free    == [is |-> "free"]
Removed == [is |-> "removed"]
Live(k, collided) == [is |-> "live", key |-> k, collided |-> collided]
LiveEntries == {Live(k, c) : k \in Keys, c \in BOOLEAN}

Size(t) == 2^t.log2
At(t, is) == {i \in DOMAIN t.entry : t.entry[i].is = is}
KeysOf(t) == {t.entry[i].key : i \in At(t, "live")}

\* The counters are as wide as keyHash; generation only tells one from the next.
Word == 2^Bits

\* The type invariant.
TypeOK ==
  /\ table.log2 \in MinLog2..(LimitLog2 - 1)
  /\ DOMAIN table.entry = 0..(Size(table) - 1)
  /\ \A i \in DOMAIN table.entry : table.entry[i] \in {Free, Removed} \cup LiveEntries
  /\ table.entryCount \in 0..(Word - 1) /\ table.removedCount \in 0..(Word - 1)
  /\ table.generation \in {0, 1}
  /\ result \in [op : {"init", "lookup", "add", "delete"}, keys : SUBSET Keys, ok : BOOLEAN]

-----------------------------------------------------------------------------
(* Searching.                                                               *)

Hash1(h, log2) == h \div 2^(Bits - log2)
Hash2(h, log2) ==
  LET x == ((h * 2^log2) % 2^Bits) \div 2^(Bits - log2)
  IN  IF x % 2 = 0 THEN x + 1 ELSE x

\* The n-th entry that a search for the key looks at.
Probe(k, n, t) ==
  (Hash1(KeyHash[k], t.log2) - n * Hash2(KeyHash[k], t.log2)) % Size(t)

Matches(e, k) == e.is = "live" /\ e.key = k

\* The steps at which a search would stop: a free entry, or the key's.
Stops(k, t) ==
  {n \in 0..(Size(t) - 1) : LET e == t.entry[Probe(k, n, t)] IN e = Free \/ Matches(e, k)}

Least(ns) == CHOOSE n \in ns : \A m \in ns : n <= m

\* Where SearchTable ends, unless it never does.
SearchTable(k, t) == Probe(k, Least(Stops(k, t)), t)

\* The entries it passes.
Passed(k, t) == {Probe(k, n, t) : n \in 0..(Least(Stops(k, t)) - 1)}

\* Mutant: entries that are passed are not flagged.
FlagNone(is, t) == t

\* op = JS_DHASH_ADD: the live entries that were passed get the collision flag.
FlagCollisions(is, t) ==
  [t EXCEPT !.entry =
     [i \in DOMAIN t.entry |->
        IF i \in is /\ t.entry[i].is = "live" THEN Live(t.entry[i].key, TRUE)
        ELSE t.entry[i]]]

\* The entry for a new key: the first removed one that was passed, if any.
EntryToAdd(k, t) ==
  LET removed == {n \in 0..(Least(Stops(k, t)) - 1) : t.entry[Probe(k, n, t)] = Removed}
  IN  IF removed = {} THEN SearchTable(k, t) ELSE Probe(k, Least(removed), t)

-----------------------------------------------------------------------------
(* ChangeTable.                                                             *)

\* A table without entries.
EmptyTable(log2, generation) ==
  [log2 |-> log2, entry |-> [i \in 0..(2^log2 - 1) |-> Free],
   entryCount |-> 0, removedCount |-> 0, generation |-> generation]

\* FindFreeEntry and moveEntry; the new table has no entry for the key.
MoveEntry(e, t) ==
  IF e.is # "live" THEN t
  ELSE [FlagCollisions(Passed(e.key, t), t)
          EXCEPT !.entry[SearchTable(e.key, t)] = Live(e.key, FALSE)]

\* The live entries of t move, in their order, to a table of another size.
ChangeTable(t, log2) ==
  LET moved[i \in 0..Size(t)] ==
        IF i = 0
        THEN [EmptyTable(log2, 1 - t.generation) EXCEPT !.entryCount = t.entryCount]
        ELSE MoveEntry(t.entry[i - 1], moved[i - 1])
  IN  moved[Size(t)]

\* The size limit, and the allocation of the new table.
CanChange(log2, ok) == log2 < LimitLog2 /\ ok

-----------------------------------------------------------------------------
(* JS_DHashTableOperate.                                                    *)

MaxLoad(size) == (192 * size) \div 256
MinLoad(size) == (64 * size) \div 256

Init == table = EmptyTable(MinLog2, 0) /\ result = Answer("init", {}, FALSE)

\* A search that finds neither the key nor a free entry does not return, and
\* the call takes no step.
Returns(k, t) == Stops(k, t) # {}

Lookup(k) ==
  /\ Returns(k, table)
  /\ result' = Answer("lookup", {k}, table.entry[SearchTable(k, table)] # Free)
  /\ UNCHANGED table

\* How full the table is, for MAX_LOAD.
Load(t) == (t.entryCount + t.removedCount) % Word

\* The table an addition searches, grown or compressed if that is possible.
Prepared(t, ok) ==
  LET log2 == IF t.removedCount >= Size(t) \div 4 THEN t.log2 ELSE t.log2 + 1
  IN  IF Load(t) >= MaxLoad(Size(t)) /\ CanChange(log2, ok) THEN ChangeTable(t, log2) ELSE t

\* Growing failed, and the entry would be the last free one.
AddFails(t, ok) ==
  /\ Load(t) >= MaxLoad(Size(t))
  /\ Prepared(t, ok) = t
  /\ Load(t) = Size(t) - 1

\* A new entry is claimed; an entry that was removed keeps the flag.  When
\* initEntry fails the entry is not claimed, but is no longer counted either.
Claim(k, t, i, initOk) ==
  LET over == t.entry[i] = Removed
      counted == IF over THEN [t EXCEPT !.removedCount = (@ - 1) % Word] ELSE t
  IN  IF initOk THEN [counted EXCEPT !.entry[i] = Live(k, over), !.entryCount = @ + 1]
      ELSE counted

Add(k, ok, initOk) ==
  LET t == Prepared(table, ok)
      i == SearchTable(k, t)
      searched == FlagCollisions(Passed(k, t), t)
  IN
  \/ /\ AddFails(table, ok)
     /\ result' = Answer("add", {k}, FALSE)
     /\ UNCHANGED table
  \/ /\ ~AddFails(table, ok) /\ Returns(k, t)
     /\ IF Matches(t.entry[i], k)
        THEN table' = searched /\ result' = Answer("add", {k}, TRUE)
        ELSE /\ table' = Claim(k, searched, EntryToAdd(k, t), initOk)
             /\ result' = Answer("add", {k}, initOk)

\* Mutant: no removed entries.
RemoveFrees(t, i) == [t EXCEPT !.entry[i] = Free, !.entryCount = @ - 1]

\* JS_DHashTableRawRemove.
RawRemove(t, i) ==
  IF t.entry[i].collided
  THEN [t EXCEPT !.entry[i] = Removed, !.entryCount = @ - 1, !.removedCount = @ + 1]
  ELSE [t EXCEPT !.entry[i] = Free, !.entryCount = @ - 1]

Delete(k, ok) ==
  LET i == SearchTable(k, table)
      t == RawRemove(table, i)
      shrink == Size(t) > 2^MinLog2 /\ t.entryCount <= MinLoad(Size(t))
  IN
  /\ Returns(k, table)
  /\ table' = IF ~Matches(table.entry[i], k) THEN table
              ELSE IF shrink /\ CanChange(t.log2 - 1, ok) THEN ChangeTable(t, t.log2 - 1)
              ELSE t
  /\ result' = Answer("delete", {k}, FALSE)

\* A caller removes an entry it holds.
DeleteEntry(i) ==
  /\ i \in At(table, "live")
  /\ table' = RawRemove(table, i)
  /\ result' = Answer("delete", {table.entry[i].key}, FALSE)

CeilingLog2(n) == Least({l \in 0..Bits : n <= 2^l})

\* JS_DHashTableEnumerate, when the enumerator removes the entries is.
Enumerate(is, ok) ==
  LET removed[i \in 0..Size(table)] ==
        IF i = 0 THEN table
        ELSE IF i - 1 \in is THEN RawRemove(removed[i - 1], i - 1) ELSE removed[i - 1]
      t == removed[Size(table)]
      shrink == \/ t.removedCount >= Size(t) \div 4
                \/ Size(t) > 2^MinLog2 /\ t.entryCount <= MinLoad(Size(t))
      capacity == t.entryCount + t.entryCount \div 2
      log2 == CeilingLog2(IF capacity < 2^MinLog2 THEN 2^MinLog2 ELSE capacity)
  IN
  /\ is # {} /\ is \subseteq At(table, "live")
  /\ table' = IF shrink /\ CanChange(log2, ok) THEN ChangeTable(t, log2) ELSE t
  /\ result' = Answer("delete", {table.entry[i].key : i \in is}, FALSE)

Outcomes == IF MallocFails THEN BOOLEAN ELSE {TRUE}

Next ==
  \/ \E k \in Keys : Lookup(k)
  \/ \E k \in Keys, ok \in Outcomes, initOk \in (IF InitFails THEN BOOLEAN ELSE {TRUE}) :
       Add(k, ok, initOk)
  \/ \E k \in Keys, ok \in Outcomes : Delete(k, ok)
  \/ \E i \in DOMAIN table.entry : DeleteEntry(i)
  \/ \E is \in SUBSET At(table, "live"), ok \in Outcomes : Enumerate(is, ok)

Spec == Init /\ [][Next]_vars

-----------------------------------------------------------------------------
\* "Ensure that at least one entry will always be free" (jsdhash.cpp): without
\* one a search for a key that is not there never ends.
OneEntryFree == At(table, "free") # {}

\* jsdhash.h: entryCount is the "number of entries in table", removedCount the
\* "removed entry sentinels in table".
CountsRight ==
  /\ table.entryCount = Cardinality(At(table, "live"))
  /\ table.removedCount = Cardinality(At(table, "removed"))

\* Every key in the table is found where it is, however many keys before it on
\* its path were added and removed since (the collision flag).
EveryKeyFound ==
  \A i \in At(table, "live") :
    /\ Stops(table.entry[i].key, table) # {}
    /\ SearchTable(table.entry[i].key, table) = i

\* What every search relies on: it meets the key or a free entry, and the
\* counters from which that is concluded are right.
TableCoherent == TypeOK /\ OneEntryFree /\ CountsRight /\ EveryKeyFound

\* jsdhash.h: an entry may be held across an ADD or REMOVE when generation has
\* not changed.
EntriesStable ==
  [][table'.generation = table.generation =>
       \A i \in At(table, "live") :
         table.entry[i].key \in KeysOf(table') => Matches(table'.entry[i], table.entry[i].key)]_vars

Set == INSTANCE KeySet WITH keys <- KeysOf(table)

\* The table behaves as a set of keys, in which entries stay where they are as
\* long as the generation does not change.
ImplementsKeySet == Set!Spec /\ EntriesStable

=============================================================================
