------------------------------- MODULE KeySet -------------------------------
(***************************************************************************)
(* What a hash table promises: a set of keys.  An addition may fail and     *)
(* then changes nothing.                                                    *)
(***************************************************************************)
CONSTANT Keys

VARIABLES
  keys,   \* the keys in the table
  result  \* the last operation, its keys, and whether it returned an entry

vars == <<keys, result>>

Answer(op, ks, ok) == [op |-> op, keys |-> ks, ok |-> ok]

Init == keys = {} /\ result = Answer("init", {}, FALSE)

Lookup(k) == UNCHANGED keys /\ result' = Answer("lookup", {k}, k \in keys)

Add(k) ==
  \/ keys' = keys \cup {k} /\ result' = Answer("add", {k}, TRUE)
  \/ UNCHANGED keys /\ result' = Answer("add", {k}, FALSE)

Delete(ks) == keys' = keys \ ks /\ result' = Answer("delete", ks, FALSE)

Next ==
  \/ \E k \in Keys : Lookup(k) \/ Add(k)
  \/ \E ks \in SUBSET Keys : Delete(ks)

Spec == Init /\ [][Next]_vars
=============================================================================
