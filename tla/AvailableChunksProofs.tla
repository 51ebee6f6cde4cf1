------------------------ MODULE AvailableChunksProofs ------------------------
(***************************************************************************)
(* The safety properties of AvailableChunks and its refinement of           *)
(* ArenaHeap, for all finite sets of chunks and of arenas.  First what      *)
(* inserting and removing do to a doubly linked list, then how the numbers  *)
(* of free arenas follow the sets, then the inductive invariant Inv, and    *)
(* last the map of each step to a step of ArenaHeap or to a stutter.        *)
(***************************************************************************)
EXTENDS AvailableChunks, FiniteSetTheorems, TLAPS

USE AvailableChunksAssumption

-----------------------------------------------------------------------------
(* The list of chunks.                                                      *)

\* A pointer to a chunk, an address of such a pointer, and such an address or NULL.
Ptrs == Chunks \cup {Nil}
Addrs == Chunks \cup {HeadAddr}
Backs == Chunks \cup {Nil, HeadAddr}
Nexts == [Chunks -> Ptrs]
Prevs == [Chunks -> Backs]
Lists == [head : Ptrs, next : Nexts, prevp : Prevs]

\* What *p = c leaves in the three kinds of pointers.
LEMMA StorePointers ==
  ASSUME NEW L \in Lists, NEW c \in Ptrs, NEW p \in Addrs
  PROVE  /\ Store(L, p, c) \in Lists
         /\ Store(L, p, c).head = IF p = HeadAddr THEN c ELSE L.head
         /\ \A d \in Chunks : Store(L, p, c).next[d] = IF d = p THEN c ELSE L.next[d]
         /\ Store(L, p, c).prevp = L.prevp
<1>1. CASE p = HeadAddr
  <2>1. Store(L, p, c) = [L EXCEPT !.head = c]
    BY <1>1 DEF Store
  <2>2. \A d \in Chunks : L.next[d] = IF d = p THEN c ELSE L.next[d]
    BY <1>1 DEF Lists, Nexts, Ptrs, Addrs, Backs
  <2> QED
    BY <1>1, <2>1, <2>2 DEF Lists
<1>2. CASE p # HeadAddr
  <2>1. Store(L, p, c) = [L EXCEPT !.next[p] = c]
    BY <1>2 DEF Store
  <2>2. \A d \in Chunks : [L.next EXCEPT ![p] = c][d] = IF d = p THEN c ELSE L.next[d]
    BY <1>2 DEF Lists, Nexts, Ptrs, Addrs, Backs
  <2>3. Store(L, p, c).next = [L.next EXCEPT ![p] = c]
    BY <2>1 DEF Lists
  <2>4. Store(L, p, c).prevp = L.prevp /\ Store(L, p, c).head = L.head
    BY <2>1 DEF Lists
  <2>5. [L.next EXCEPT ![p] = c] \in Nexts
    BY <1>2 DEF Lists, Nexts, Ptrs, Addrs, Backs
  <2>6. Store(L, p, c) \in Lists
    BY <2>5, <2>1 DEF Lists
  <2> QED
    BY <1>2, <2>2, <2>3, <2>4, <2>6
<1> QED
  BY <1>1, <1>2

\* What setting the back pointer of c leaves in them.
LEMMA SetPrevpPointers ==
  ASSUME NEW L \in Lists, NEW c \in Ptrs, NEW p \in Addrs
  PROVE  /\ SetPrevp(L, c, p) \in Lists
         /\ SetPrevp(L, c, p).head = L.head
         /\ SetPrevp(L, c, p).next = L.next
         /\ \A d \in Chunks : SetPrevp(L, c, p).prevp[d] = IF d = c THEN p ELSE L.prevp[d]
<1>1. CASE c = Nil
  <2>1. SetPrevp(L, c, p) = L
    BY <1>1 DEF SetPrevp
  <2>2. \A d \in Chunks : L.prevp[d] = IF d = c THEN p ELSE L.prevp[d]
    BY <1>1 DEF Lists, Prevs, Ptrs, Addrs, Backs
  <2> QED
    BY <2>1, <2>2
<1>2. CASE c # Nil
  <2>1. SetPrevp(L, c, p) = [L EXCEPT !.prevp[c] = p]
    BY <1>2 DEF SetPrevp
  <2>2. \A d \in Chunks : [L.prevp EXCEPT ![c] = p][d] = IF d = c THEN p ELSE L.prevp[d]
    BY <1>2 DEF Lists, Prevs, Ptrs, Addrs, Backs
  <2>3. SetPrevp(L, c, p).prevp = [L.prevp EXCEPT ![c] = p]
    BY <2>1 DEF Lists
  <2>4. SetPrevp(L, c, p).next = L.next /\ SetPrevp(L, c, p).head = L.head
    BY <2>1 DEF Lists
  <2>5. [L.prevp EXCEPT ![c] = p] \in Prevs
    BY <1>2 DEF Lists, Prevs, Ptrs, Addrs, Backs
  <2>6. SetPrevp(L, c, p) \in Lists
    BY <2>5, <2>1 DEF Lists
  <2> QED
    BY <2>2, <2>3, <2>4, <2>6
<1> QED
  BY <1>1, <1>2

SetBoth(L, c, p, b) == [L EXCEPT !.prevp[c] = p, !.next[c] = b]

\* What setting both pointers of c leaves in them.
LEMMA SetPointers ==
  ASSUME NEW L \in Lists, NEW c \in Chunks,
         NEW p \in Backs, NEW b \in Ptrs
  PROVE  /\ SetBoth(L, c, p, b) \in Lists
         /\ SetBoth(L, c, p, b).head = L.head
         /\ \A d \in Chunks : SetBoth(L, c, p, b).next[d] = IF d = c THEN b ELSE L.next[d]
         /\ \A d \in Chunks : SetBoth(L, c, p, b).prevp[d] = IF d = c THEN p ELSE L.prevp[d]
<1> DEFINE A == [L EXCEPT !.prevp[c] = p]
           K == SetBoth(L, c, p, b)
<1>1. [L.prevp EXCEPT ![c] = p] \in Prevs /\ [L.next EXCEPT ![c] = b] \in Nexts
  BY DEF Lists, Nexts, Prevs, Ptrs, Addrs, Backs
<1>2. A \in Lists /\ A.next = L.next /\ A.head = L.head /\ A.prevp = [L.prevp EXCEPT ![c] = p]
  BY <1>1 DEF Lists
<1>3. K = [A EXCEPT !.next[c] = b]
  BY DEF Lists, SetBoth
<1> HIDE DEF A
<1>4. /\ K \in Lists /\ K.head = A.head /\ K.prevp = A.prevp
      /\ K.next = [A.next EXCEPT ![c] = b]
  BY <1>1, <1>2, <1>3 DEF Lists
<1>5. \A d \in Chunks : [L.next EXCEPT ![c] = b][d] = IF d = c THEN b ELSE L.next[d]
  BY DEF Lists, Nexts, Ptrs, Addrs, Backs
<1>6. \A d \in Chunks : [L.prevp EXCEPT ![c] = p][d] = IF d = c THEN p ELSE L.prevp[d]
  BY DEF Lists, Prevs, Ptrs, Addrs, Backs
<1> QED
  BY <1>2, <1>4, <1>5, <1>6

\* What insertToAvailableList leaves in them.
LEMMA InsertPointers ==
  ASSUME NEW L \in Lists, NEW c \in Chunks, NEW p \in Addrs, c # p,
         NEW b, b = (IF p = HeadAddr THEN L.head ELSE L.next[p]), b # c
  PROVE  /\ Insert(L, c, p) \in Lists
         /\ Insert(L, c, p).head = IF p = HeadAddr THEN c ELSE L.head
         /\ \A d \in Chunks : Insert(L, c, p).next[d] =
              IF d = c THEN b ELSE IF d = p THEN c ELSE L.next[d]
         /\ \A d \in Chunks : Insert(L, c, p).prevp[d] =
              IF d = c THEN p ELSE IF d = b THEN c ELSE L.prevp[d]
<1> DEFINE K == SetBoth(L, c, p, b)
           M == SetPrevp(K, b, c)
<1>1. Deref(L, p) = b /\ b \in Ptrs
  BY DEF Deref, Lists, Nexts, Ptrs, Addrs, Backs
<1>3. c \in Addrs /\ c \in Ptrs
      /\ p \in Backs
  BY DEF Ptrs, Addrs, Backs
<1>2. /\ K \in Lists /\ K.head = L.head
      /\ \A d \in Chunks : K.next[d] = IF d = c THEN b ELSE L.next[d]
      /\ \A d \in Chunks : K.prevp[d] = IF d = c THEN p ELSE L.prevp[d]
  BY <1>1, <1>3, SetPointers
<1>5. Insert(L, c, p) = Store(M, p, c)
  BY <1>1 DEF Insert, SetBoth
<1> HIDE DEF K
<1>6. /\ M \in Lists /\ M.head = K.head /\ M.next = K.next
      /\ \A d \in Chunks : M.prevp[d] = IF d = b THEN c ELSE K.prevp[d]
  BY <1>1, <1>2, <1>3, SetPrevpPointers
<1> HIDE DEF M
<1>7. /\ Store(M, p, c) \in Lists
      /\ Store(M, p, c).head = IF p = HeadAddr THEN c ELSE M.head
      /\ \A d \in Chunks : Store(M, p, c).next[d] = IF d = p THEN c ELSE M.next[d]
      /\ Store(M, p, c).prevp = M.prevp
  BY <1>3, <1>6, StorePointers
<1> QED
  BY <1>2, <1>5, <1>6, <1>7

\* What removeFromAvailableList leaves in them.
LEMMA RemovePointers ==
  ASSUME NEW L \in Lists, NEW c \in Chunks,
         NEW p \in Addrs, p = L.prevp[c], p # c,
         NEW b \in Ptrs, b = L.next[c], b # c
  PROVE  /\ Remove(L, c) \in Lists
         /\ Remove(L, c).head = IF p = HeadAddr THEN b ELSE L.head
         /\ \A d \in Chunks : Remove(L, c).next[d] =
              IF d = c THEN Nil ELSE IF d = p THEN b ELSE L.next[d]
         /\ \A d \in Chunks : Remove(L, c).prevp[d] =
              IF d = c THEN Nil ELSE IF d = b THEN p ELSE L.prevp[d]
<1> DEFINE K == Store(L, p, b)
           M == SetPrevp(K, b, p)
           N == SetBoth(M, c, Nil, Nil)
<1>1. Remove(L, c) = N
  BY DEF Remove, SetBoth
<1>2. /\ K \in Lists
      /\ K.head = IF p = HeadAddr THEN b ELSE L.head
      /\ \A d \in Chunks : K.next[d] = IF d = p THEN b ELSE L.next[d]
      /\ K.prevp = L.prevp
  BY StorePointers
<1> HIDE DEF K
<1>3. /\ M \in Lists /\ M.head = K.head /\ M.next = K.next
      /\ \A d \in Chunks : M.prevp[d] = IF d = b THEN p ELSE K.prevp[d]
  BY <1>2, SetPrevpPointers
<1> HIDE DEF M
<1>5. Nil \in Backs /\ Nil \in Ptrs
  BY DEF Ptrs, Addrs, Backs
<1>4. /\ N \in Lists /\ N.head = M.head
      /\ \A d \in Chunks : N.next[d] = IF d = c THEN Nil ELSE M.next[d]
      /\ \A d \in Chunks : N.prevp[d] = IF d = c THEN Nil ELSE M.prevp[d]
  BY <1>3, <1>5, SetPointers
<1> HIDE DEF N
<1> QED
  BY <1>1, <1>2, <1>3, <1>4

\* The pointers R hold the chunks of S, in the order L.
Links(R, n, L, S) ==
  /\ \A i, j \in 1..n : L[i] = L[j] => i = j
  /\ R.head = IF n = 0 THEN Nil ELSE L[1]
  /\ \A i \in 1..n : R.next[L[i]] = IF i = n THEN Nil ELSE L[i + 1]
  /\ \A i \in 1..n : R.prevp[L[i]] = IF i = 1 THEN HeadAddr ELSE L[i - 1]
  /\ \A c \in Chunks : R.prevp[c] = Nil <=> c \notin S
  /\ \A i \in 1..n : L[i] \in S
  /\ \A c \in S : \E i \in 1..n : L[i] = c

\* They hold them in some order.
Linked(R, S) == \E n \in Nat : \E L \in [1..n -> Chunks] : Links(R, n, L, S)

\* Inserting a chunk at the head of a list, or after a chunk of it, gives a list.
LEMMA InsertLinks ==
  ASSUME NEW Q \in Lists, NEW S \in SUBSET Chunks, Linked(Q, S),
         NEW c \in Chunks, c \notin S, NEW p \in S \cup {HeadAddr}
  PROVE  /\ Insert(Q, c, p) \in Lists
         /\ Linked(Insert(Q, c, p), S \cup {c})
<1> DEFINE b == IF p = HeadAddr THEN Q.head ELSE Q.next[p]
           R == Insert(Q, c, p)
<1>0. PICK n \in Nat : \E L \in [1..n -> Chunks] : Links(Q, n, L, S)
  BY DEF Linked
<1>1. PICK L \in [1..n -> Chunks] : Links(Q, n, L, S)
  BY <1>0
<1>2. PICK k \in 0..n : IF p = HeadAddr THEN k = 0 ELSE k > 0 /\ L[k] = p
  <2>1. CASE p = HeadAddr
    BY <2>1
  <2>2. CASE p # HeadAddr
    <3>1. PICK k \in 1..n : L[k] = p
      BY <1>1, <2>2 DEF Links
    <3> QED
      BY <3>1, <2>2
  <2> QED
    BY <2>1, <2>2
<1>3. b = IF k = n THEN Nil ELSE L[k + 1]
  BY <1>1, <1>2 DEF Links
<1>4. b # c /\ c # p
  BY <1>1, <1>2, <1>3 DEF Links
<1>5. p \in Addrs
  BY DEF Addrs
<1>6. /\ R \in Lists
      /\ R.head = IF p = HeadAddr THEN c ELSE Q.head
      /\ \A d \in Chunks : R.next[d] = IF d = c THEN b ELSE IF d = p THEN c ELSE Q.next[d]
      /\ \A d \in Chunks : R.prevp[d] = IF d = c THEN p ELSE IF d = b THEN c ELSE Q.prevp[d]
  BY <1>4, <1>5, InsertPointers
<1> HIDE DEF R, b
<1> DEFINE M == [i \in 1..(n + 1) |->
                   IF i <= k THEN L[i] ELSE IF i = k + 1 THEN c ELSE L[i - 1]]
<1>7. M \in [1..(n + 1) -> Chunks]
  OBVIOUS
<1>8. Links(R, n + 1, M, S \cup {c})
  <2>a. \A i \in 1..n : L[i] # c /\ L[i] \in Chunks
    BY <1>1 DEF Links
  <2>b. \A i \in 1..n : L[i] = p <=> (p # HeadAddr /\ i = k)
    BY <1>1, <1>2 DEF Links
  <2>c. \A i \in 1..n : L[i] = b <=> i = k + 1
    BY <1>1, <1>2, <1>3 DEF Links
  <2>1. \A i, j \in 1..(n + 1) : M[i] = M[j] => i = j
    BY <1>1, <2>a DEF Links
  <2>2. R.head = IF n + 1 = 0 THEN Nil ELSE M[1]
    BY <1>1, <1>2, <1>6 DEF Links
  <2>3. \A i \in 1..(n + 1) : R.next[M[i]] = IF i = n + 1 THEN Nil ELSE M[i + 1]
    <3> SUFFICES ASSUME NEW i \in 1..(n + 1)
                 PROVE  R.next[M[i]] = IF i = n + 1 THEN Nil ELSE M[i + 1]
      OBVIOUS
    <3>1. CASE i < k
      <4>1. i \in 1..n /\ M[i] = L[i] /\ M[i + 1] = L[i + 1] /\ i # n /\ i # n + 1
        BY <3>1
      <4>2. R.next[L[i]] = Q.next[L[i]]
        BY <3>1, <4>1, <1>6, <2>a, <2>b
      <4>3. Q.next[L[i]] = L[i + 1]
        BY <4>1, <1>1 DEF Links
      <4> QED
        BY <4>1, <4>2, <4>3
    <3>2. CASE i = k
      <4>1. i \in 1..n /\ M[i] = L[i] /\ M[i + 1] = c /\ i # n + 1
        BY <3>2
      <4>2. p # HeadAddr /\ L[i] = p
        BY <3>2, <1>2
      <4>3. R.next[L[i]] = c
        BY <4>1, <4>2, <1>6, <2>a
      <4> QED
        BY <4>1, <4>3
    <3>3. CASE i = k + 1
      <4>1. M[i] = c /\ (i # n + 1 => M[i + 1] = L[k + 1])
        BY <3>3
      <4>2. R.next[c] = b
        BY <1>6
      <4> QED
        BY <3>3, <4>1, <4>2, <1>3
    <3>4. CASE i > k + 1
      <4>1. i - 1 \in 1..n /\ M[i] = L[i - 1] /\ (i # n + 1 => M[i + 1] = L[i])
        BY <3>4
      <4>2. R.next[L[i - 1]] = Q.next[L[i - 1]]
        BY <3>4, <4>1, <1>6, <2>a, <2>b
      <4>3. Q.next[L[i - 1]] = IF i - 1 = n THEN Nil ELSE L[(i - 1) + 1]
        BY <4>1, <1>1 DEF Links
      <4> QED
        BY <4>1, <4>2, <4>3
    <3> QED
      BY <3>1, <3>2, <3>3, <3>4
  <2>4. \A i \in 1..(n + 1) : R.prevp[M[i]] = IF i = 1 THEN HeadAddr ELSE M[i - 1]
    <3> SUFFICES ASSUME NEW i \in 1..(n + 1)
                 PROVE  R.prevp[M[i]] = IF i = 1 THEN HeadAddr ELSE M[i - 1]
      OBVIOUS
    <3>1. CASE i <= k
      <4>1. i \in 1..n /\ M[i] = L[i] /\ (i # 1 => M[i - 1] = L[i - 1])
        BY <3>1
      <4>2. R.prevp[L[i]] = Q.prevp[L[i]]
        BY <3>1, <4>1, <1>6, <2>a, <2>c
      <4>3. Q.prevp[L[i]] = IF i = 1 THEN HeadAddr ELSE L[i - 1]
        BY <4>1, <1>1 DEF Links
      <4> QED
        BY <4>1, <4>2, <4>3
    <3>2. CASE i = k + 1
      <4>1. M[i] = c /\ R.prevp[c] = p
        BY <3>2, <1>6
      <4>2. k # 0 => M[i - 1] = L[k]
        BY <3>2
      <4> QED
        BY <3>2, <4>1, <4>2, <1>2
    <3>3. CASE i = k + 2
      <4>1. i - 1 \in 1..n /\ M[i] = L[i - 1] /\ M[i - 1] = c /\ i # 1
        BY <3>3
      <4>2. R.prevp[L[i - 1]] = c
        BY <3>3, <4>1, <1>6, <2>a, <2>c
      <4> QED
        BY <4>1, <4>2
    <3>4. CASE i > k + 2
      <4>1. i - 1 \in 1..n /\ M[i] = L[i - 1] /\ M[i - 1] = L[i - 2] /\ i # 1 /\ i - 1 # 1
        BY <3>4
      <4>2. R.prevp[L[i - 1]] = Q.prevp[L[i - 1]]
        BY <3>4, <4>1, <1>6, <2>a, <2>c
      <4>3. Q.prevp[L[i - 1]] = IF i - 1 = 1 THEN HeadAddr ELSE L[(i - 1) - 1]
        BY <4>1, <1>1 DEF Links
      <4> QED
        BY <4>1, <4>2, <4>3
    <3> QED
      BY <3>1, <3>2, <3>3, <3>4
  <2>5. \A d \in Chunks : R.prevp[d] = Nil <=> d \notin S \cup {c}
    <3>1. b = Nil \/ b \in S
      BY <1>1, <1>2, <1>3 DEF Links
    <3> QED
      BY <1>1, <1>6, <3>1 DEF Links
  <2>6. \A i \in 1..(n + 1) : M[i] \in S \cup {c}
    BY <1>1 DEF Links
  <2>7. \A d \in S \cup {c} : \E i \in 1..(n + 1) : M[i] = d
    <3> SUFFICES ASSUME NEW d \in S \cup {c} PROVE \E i \in 1..(n + 1) : M[i] = d
      OBVIOUS
    <3>1. CASE d = c
      <4>1. M[k + 1] = c /\ k + 1 \in 1..(n + 1)
        OBVIOUS
      <4> QED
        BY <3>1, <4>1
    <3>2. CASE d # c
      <4>1. PICK i \in 1..n : L[i] = d
        BY <1>1, <3>2 DEF Links
      <4>2. CASE i <= k
        <5>1. M[i] = d /\ i \in 1..(n + 1)
          BY <4>1, <4>2
        <5> QED
          BY <5>1
      <4>3. CASE i > k
        <5>1. M[i + 1] = d /\ i + 1 \in 1..(n + 1)
          BY <4>1, <4>3
        <5> QED
          BY <5>1
      <4> QED
        BY <4>2, <4>3
    <3> QED
      BY <3>1, <3>2
  <2> HIDE DEF M
  <2> QED
    BY <2>1, <2>2, <2>3, <2>4, <2>5, <2>6, <2>7 DEF Links
<1>9. Linked(R, S \cup {c})
  BY <1>7, <1>8 DEF Linked
<1> QED
  BY <1>6, <1>9 DEF R

\* Removing a chunk of a list gives a list.
LEMMA RemoveLinks ==
  ASSUME NEW Q \in Lists, NEW S \in SUBSET Chunks, Linked(Q, S), NEW c \in S
  PROVE  /\ Remove(Q, c) \in Lists
         /\ Linked(Remove(Q, c), S \ {c})
<1> DEFINE b == Q.next[c]
           p == Q.prevp[c]
           R == Remove(Q, c)
<1>0. PICK n \in Nat : \E L \in [1..n -> Chunks] : Links(Q, n, L, S)
  BY DEF Linked
<1>1. PICK L \in [1..n -> Chunks] : Links(Q, n, L, S)
  BY <1>0
<1>2. PICK k \in 1..n : L[k] = c
  BY <1>1 DEF Links
<1>3. /\ b = IF k = n THEN Nil ELSE L[k + 1]
      /\ p = IF k = 1 THEN HeadAddr ELSE L[k - 1]
  BY <1>1, <1>2 DEF Links
<1>4. b # c /\ p # c
  BY <1>1, <1>2, <1>3 DEF Links
<1>5. p \in Addrs /\ b \in Ptrs
  BY <1>3 DEF Addrs, Ptrs
<1>6. /\ R \in Lists
      /\ R.head = IF p = HeadAddr THEN b ELSE Q.head
      /\ \A d \in Chunks : R.next[d] = IF d = c THEN Nil ELSE IF d = p THEN b ELSE Q.next[d]
      /\ \A d \in Chunks : R.prevp[d] = IF d = c THEN Nil ELSE IF d = b THEN p ELSE Q.prevp[d]
  BY <1>4, <1>5, RemovePointers
<1> HIDE DEF R, b, p
<1> DEFINE M == [i \in 1..(n - 1) |-> IF i < k THEN L[i] ELSE L[i + 1]]
<1>7. n - 1 \in Nat /\ M \in [1..(n - 1) -> Chunks]
  OBVIOUS
<1>8. Links(R, n - 1, M, S \ {c})
  <2>a. \A i \in 1..n : (L[i] = c <=> i = k) /\ L[i] \in Chunks
    BY <1>1, <1>2 DEF Links
  <2>b. \A i \in 1..n : L[i] = p <=> i = k - 1
    BY <1>1, <1>2, <1>3 DEF Links
  <2>c. \A i \in 1..n : L[i] = b <=> i = k + 1
    BY <1>1, <1>2, <1>3 DEF Links
  <2>1. \A i, j \in 1..(n - 1) : M[i] = M[j] => i = j
    <3> SUFFICES ASSUME NEW i \in 1..(n - 1), NEW j \in 1..(n - 1), M[i] = M[j]
                 PROVE  i = j
      OBVIOUS
    <3> DEFINE at(x) == IF x < k THEN x ELSE x + 1
    <3>1. at(i) \in 1..n /\ at(j) \in 1..n
      OBVIOUS
    <3>2. L[at(i)] = L[at(j)]
      OBVIOUS
    <3>3. at(i) = at(j)
      BY <3>1, <3>2, <1>1 DEF Links
    <3> QED
      BY <3>3
  <2>2. R.head = IF n - 1 = 0 THEN Nil ELSE M[1]
    <3>1. p = HeadAddr <=> k = 1
      BY <1>3
    <3> QED
      BY <1>1, <1>3, <1>6, <3>1 DEF Links
  <2>3. \A i \in 1..(n - 1) : R.next[M[i]] = IF i = n - 1 THEN Nil ELSE M[i + 1]
    <3> SUFFICES ASSUME NEW i \in 1..(n - 1)
                 PROVE  R.next[M[i]] = IF i = n - 1 THEN Nil ELSE M[i + 1]
      OBVIOUS
    <3>1. CASE i < k - 1
      <4>1. i \in 1..n /\ M[i] = L[i] /\ M[i + 1] = L[i + 1] /\ i # n /\ i # n - 1
        BY <3>1
      <4>2. R.next[L[i]] = Q.next[L[i]]
        BY <3>1, <4>1, <1>6, <2>a, <2>b
      <4>3. Q.next[L[i]] = L[i + 1]
        BY <4>1, <1>1 DEF Links
      <4> QED
        BY <4>1, <4>2, <4>3
    <3>2. CASE i = k - 1
      <4>1. i \in 1..n /\ M[i] = L[i] /\ (i # n - 1 => M[i + 1] = L[k + 1])
        BY <3>2
      <4>2. R.next[L[i]] = b
        BY <3>2, <4>1, <1>6, <2>a, <2>b
      <4> QED
        BY <3>2, <4>1, <4>2, <1>3
    <3>3. CASE i >= k
      <4>1. i + 1 \in 1..n /\ M[i] = L[i + 1] /\ (i # n - 1 => M[i + 1] = L[i + 2])
        BY <3>3
      <4>2. R.next[L[i + 1]] = Q.next[L[i + 1]]
        BY <3>3, <4>1, <1>6, <2>a, <2>b
      <4>3. Q.next[L[i + 1]] = IF i + 1 = n THEN Nil ELSE L[(i + 1) + 1]
        BY <4>1, <1>1 DEF Links
      <4> QED
        BY <4>1, <4>2, <4>3
    <3> QED
      BY <3>1, <3>2, <3>3
  <2>4. \A i \in 1..(n - 1) : R.prevp[M[i]] = IF i = 1 THEN HeadAddr ELSE M[i - 1]
    <3> SUFFICES ASSUME NEW i \in 1..(n - 1)
                 PROVE  R.prevp[M[i]] = IF i = 1 THEN HeadAddr ELSE M[i - 1]
      OBVIOUS
    <3>1. CASE i < k
      <4>1. i \in 1..n /\ M[i] = L[i] /\ (i # 1 => M[i - 1] = L[i - 1])
        BY <3>1
      <4>2. R.prevp[L[i]] = Q.prevp[L[i]]
        BY <3>1, <4>1, <1>6, <2>a, <2>c
      <4>3. Q.prevp[L[i]] = IF i = 1 THEN HeadAddr ELSE L[i - 1]
        BY <4>1, <1>1 DEF Links
      <4> QED
        BY <4>1, <4>2, <4>3
    <3>2. CASE i = k
      <4>1. i + 1 \in 1..n /\ M[i] = L[i + 1] /\ (i # 1 => M[i - 1] = L[k - 1])
        BY <3>2
      <4>2. R.prevp[L[i + 1]] = p
        BY <3>2, <4>1, <1>6, <2>a, <2>c
      <4> QED
        BY <3>2, <4>1, <4>2, <1>3
    <3>3. CASE i > k
      <4>1. i + 1 \in 1..n /\ M[i] = L[i + 1] /\ M[i - 1] = L[i] /\ i # 1 /\ i + 1 # 1
        BY <3>3
      <4>2. R.prevp[L[i + 1]] = Q.prevp[L[i + 1]]
        BY <3>3, <4>1, <1>6, <2>a, <2>c
      <4>3. Q.prevp[L[i + 1]] = IF i + 1 = 1 THEN HeadAddr ELSE L[(i + 1) - 1]
        BY <4>1, <1>1 DEF Links
      <4> QED
        BY <4>1, <4>2, <4>3
    <3> QED
      BY <3>1, <3>2, <3>3
  <2>5. \A d \in Chunks : R.prevp[d] = Nil <=> d \notin S \ {c}
    <3>1. b = Nil \/ b \in S
      BY <1>1, <1>3 DEF Links
    <3>2. p # Nil
      BY <1>3
    <3> QED
      BY <1>1, <1>6, <3>1, <3>2 DEF Links
  <2>6. \A i \in 1..(n - 1) : M[i] \in S \ {c}
    BY <1>1, <2>a DEF Links
  <2>7. \A d \in S \ {c} : \E i \in 1..(n - 1) : M[i] = d
    <3> SUFFICES ASSUME NEW d \in S \ {c} PROVE \E i \in 1..(n - 1) : M[i] = d
      OBVIOUS
    <3>1. PICK i \in 1..n : L[i] = d
      BY <1>1 DEF Links
    <3>2. i # k
      BY <3>1, <1>2
    <3>3. CASE i < k
      <4>1. M[i] = d /\ i \in 1..(n - 1)
        BY <3>1, <3>3
      <4> QED
        BY <4>1
    <3>4. CASE i > k
      <4>1. M[i - 1] = d /\ i - 1 \in 1..(n - 1)
        BY <3>1, <3>4
      <4> QED
        BY <4>1
    <3> QED
      BY <3>2, <3>3, <3>4
  <2> HIDE DEF M
  <2> QED
    BY <2>1, <2>2, <2>3, <2>4, <2>5, <2>6, <2>7 DEF Links
<1>9. Linked(R, S \ {c})
  BY <1>7, <1>8 DEF Linked
<1> QED
  BY <1>6, <1>9 DEF R

\* A list of n different chunks is no longer than Chunks is large.
LEMMA ListLength ==
  ASSUME NEW n \in Nat, NEW L \in [1..n -> Chunks],
         \A i, j \in 1..n : L[i] = L[j] => i = j
  PROVE  n \in 0..Cardinality(Chunks)
<1>1. L \in Injection(1..n, Chunks)
  BY DEF Injection, IsInjective
<1>2. Cardinality(1..n) <= Cardinality(Chunks)
  BY <1>1, FS_Injection
<1>3. Cardinality(1..n) = n
  <2>1. Cardinality(1..n) = IF 1 > n THEN 0 ELSE n - 1 + 1
    BY FS_Interval
  <2> QED
    BY <2>1
<1>4. Cardinality(Chunks) \in Nat
  BY FS_CardinalityType
<1> QED
  BY <1>2, <1>3, <1>4

-----------------------------------------------------------------------------
(* Counting arenas.                                                         *)

\* The arenas of the chunks of S that f gives.
Slots(S, f) == {s \in S \X Arenas : s[2] \in f[s[1]]}

Sets == [Chunks -> SUBSET Arenas]

\* There are finitely many of them.
LEMMA SlotsFinite ==
  ASSUME NEW S \in SUBSET Chunks, NEW f
  PROVE  IsFiniteSet(Slots(S, f)) /\ Cardinality(Slots(S, f)) \in Nat
<1>1. IsFiniteSet(S)
  BY FS_Subset
<1>2. IsFiniteSet(S \X Arenas)
  BY <1>1, FS_Product
<1>3. Slots(S, f) \in SUBSET (S \X Arenas)
  BY DEF Slots
<1>4. IsFiniteSet(Slots(S, f))
  BY <1>2, <1>3, FS_Subset
<1> QED
  BY <1>4, FS_CardinalityType

\* g is f with an arena more; T is S with a chunk more;
\* g is f on S.
Added(f, g, c, a) ==
  a \notin f[c] /\ g[c] = f[c] \cup {a} /\ \A d \in Chunks : d # c => g[d] = f[d]
Grown(S, T, c) == c \notin S /\ T = S \cup {c}
Same(S, f, g) == \A d \in S : g[d] = f[d]

\* An arena more.
LEMMA SlotsAdd ==
  ASSUME NEW S \in SUBSET Chunks, NEW f \in Sets, NEW g \in Sets,
         NEW c \in S, NEW a \in Arenas, Added(f, g, c, a)
  PROVE  Cardinality(Slots(S, g)) = Cardinality(Slots(S, f)) + 1
<1>1. \A d \in S : g[d] = IF d = c THEN f[c] \cup {a} ELSE f[d]
  BY DEF Sets, Added
<1>2. Slots(S, g) = Slots(S, f) \cup {<<c, a>>}
  BY <1>1 DEF Slots
<1>3. <<c, a>> \notin Slots(S, f)
  BY DEF Slots, Added
<1>4. IsFiniteSet(Slots(S, f))
  BY SlotsFinite
<1> QED
  BY <1>2, <1>3, <1>4, FS_AddElement

\* An arena less.
LEMMA SlotsRemove ==
  ASSUME NEW S \in SUBSET Chunks, NEW f \in Sets, NEW g \in Sets,
         NEW c \in S, NEW a \in f[c], g = [f EXCEPT ![c] = @ \ {a}]
  PROVE  Cardinality(Slots(S, g)) = Cardinality(Slots(S, f)) - 1
<1>0. a \in Arenas
  BY DEF Sets
<1>1. \A d \in S : g[d] = IF d = c THEN f[c] \ {a} ELSE f[d]
  BY DEF Sets
<1>2. Slots(S, g) = Slots(S, f) \ {<<c, a>>}
  BY <1>1 DEF Slots
<1>3. <<c, a>> \in Slots(S, f)
  BY <1>0 DEF Slots
<1>4. IsFiniteSet(Slots(S, f))
  BY SlotsFinite
<1>5. Cardinality(Slots(S, f) \ {<<c, a>>}) = Cardinality(Slots(S, f)) - 1
  <2> DEFINE x == <<c, a>>
             F == Slots(S, f)
  <2>1. x \in F /\ IsFiniteSet(F)
    BY <1>3, <1>4
  <2> HIDE DEF x, F
  <2>2. Cardinality(F \ {x}) = Cardinality(F) - 1
    BY <2>1, FS_RemoveElement
  <2> QED
    BY <2>2 DEF x, F
<1> QED
  BY <1>2, <1>5

\* The chunks of G less.
LEMMA SlotsDrop ==
  ASSUME NEW S \in SUBSET Chunks, NEW G \in SUBSET S, NEW f
  PROVE  Cardinality(Slots(S \ G, f)) = Cardinality(Slots(S, f)) - Cardinality(Slots(G, f))
<1>1. Slots(S \ G, f) = Slots(S, f) \ Slots(G, f)
  BY DEF Slots
<1>2. Slots(S, f) \cap Slots(G, f) = Slots(G, f)
  BY DEF Slots
<1>3. IsFiniteSet(Slots(S, f))
  BY SlotsFinite
<1> QED
  BY <1>1, <1>2, <1>3, FS_Difference

\* The arenas of one chunk.
LEMMA SlotsOfOne ==
  ASSUME NEW f \in Sets, NEW c \in Chunks
  PROVE  Cardinality(Slots({c}, f)) = Cardinality(f[c])
<1>1. Slots({c}, f) = {c} \X f[c]
  BY DEF Slots, Sets
<1>2. f[c] \in SUBSET Arenas
  BY DEF Sets
<1>3. IsFiniteSet(f[c]) /\ Cardinality(f[c]) \in Nat
  BY <1>2, FS_Subset, FS_CardinalityType
<1>4. IsFiniteSet({c}) /\ Cardinality({c}) = 1
  BY FS_Singleton
<1>5. Cardinality({c} \X f[c]) = Cardinality({c}) * Cardinality(f[c])
  BY <1>3, <1>4, FS_Product
<1>6. Cardinality({c} \X f[c]) = 1 * Cardinality(f[c])
  BY <1>4, <1>5
<1>7. 1 * Cardinality(f[c]) = Cardinality(f[c])
  BY <1>3
<1>8. Cardinality(Slots({c}, f)) = Cardinality({c} \X f[c])
  BY <1>1, Zenon
<1> QED
  BY <1>6, <1>7, <1>8, Zenon

\* A chunk more.
LEMMA SlotsAddChunk ==
  ASSUME NEW S \in SUBSET Chunks, NEW f \in Sets, NEW g \in Sets,
         NEW c \in Chunks, Same(S, f, g), NEW T, Grown(S, T, c)
  PROVE  Cardinality(Slots(T, g)) = Cardinality(Slots(S, f)) + Cardinality(g[c])
<1>1. Slots(T, g) = Slots(S, f) \cup Slots({c}, g)
  BY DEF Slots, Same, Grown
<1>2. Slots(S, f) \cap Slots({c}, g) = {}
  BY DEF Slots, Grown
<1>3. IsFiniteSet(Slots(S, f)) /\ Cardinality(Slots(S, f)) \in Nat
  BY SlotsFinite
<1>4. {c} \in SUBSET Chunks
  OBVIOUS
<1>5. IsFiniteSet(Slots({c}, g)) /\ Cardinality(Slots({c}, g)) \in Nat
  BY <1>4, SlotsFinite
<1>6. Cardinality(Slots({c}, g)) = Cardinality(g[c])
  BY SlotsOfOne
<1>7. Cardinality(Slots(S, f) \cup Slots({c}, g))
        = Cardinality(Slots(S, f)) + Cardinality(Slots({c}, g))
            - Cardinality(Slots(S, f) \cap Slots({c}, g))
  BY <1>3, <1>5, FS_Union
<1>8. Cardinality(Slots(S, f) \cap Slots({c}, g)) = 0
  BY <1>2, FS_EmptySet
<1>9. Cardinality(Slots(S, f) \cup Slots({c}, g))
        = Cardinality(Slots(S, f)) + Cardinality(Slots({c}, g))
  BY <1>3, <1>5, <1>7, <1>8
<1> QED
  BY <1>1, <1>6, <1>9, Zenon

ArenaSets == SUBSET Arenas

\* How many arenas a set of arenas of a chunk may have.
LEMMA ArenaBounds ==
  ASSUME NEW A \in ArenaSets
  PROVE  /\ IsFiniteSet(A) /\ Cardinality(A) \in 0..ArenasPerChunk
         /\ Cardinality(A) = ArenasPerChunk => A = Arenas
         /\ Cardinality(A) = 0 <=> A = {}
<1>1. /\ IsFiniteSet(A) /\ Cardinality(A) <= Cardinality(Arenas)
      /\ Cardinality(Arenas) = Cardinality(A) => Arenas = A
  BY FS_Subset DEF ArenaSets
<1>2. Cardinality(A) \in Nat /\ Cardinality(Arenas) \in Nat
  BY <1>1, FS_CardinalityType
<1>3. Cardinality(A) = 0 <=> A = {}
  BY <1>1, FS_EmptySet
<1> QED
  BY <1>1, <1>2, <1>3 DEF ArenasPerChunk

\* How that number follows an arena.
LEMMA ArenaCount ==
  ASSUME NEW A \in ArenaSets, NEW a
  PROVE  /\ a \notin A => Cardinality(A \cup {a}) = Cardinality(A) + 1
         /\ a \in A => Cardinality(A \ {a}) = Cardinality(A) - 1
<1>1. IsFiniteSet(A)
  BY ArenaBounds
<1>4. a \notin A => Cardinality(A \cup {a}) = Cardinality(A) + 1
  BY <1>1, FS_AddElement
<1>5. a \in A => Cardinality(A \ {a}) = Cardinality(A) - 1
  BY <1>1, FS_RemoveElement
<1> QED
  BY <1>4, <1>5

-----------------------------------------------------------------------------
(* The invariant.                                                           *)

\* The chunks that are to be listed.
Listed == {c \in inUse : HasAvailableArenas(c)}

\* The arenas of one chunk, as ArenasAccounted has them.
ChunkAccounted(c) ==
  /\ used[c] \cup free[c] \cup decommitted[c] \cup Held(c) = Arenas
  /\ used[c] \cap (free[c] \cup decommitted[c] \cup Held(c)) = {}
  /\ free[c] \cap (decommitted[c] \cup Held(c)) = {}
  /\ decommitted[c] \cap Held(c) = {}
  /\ numFree[c] = Cardinality(free[c] \cup decommitted[c])

FreeCounted == freeCommitted = Cardinality(Slots(inUse \cup pool, free))

\* A chunk of the pool is not in use, only a chunk in use has arenas in use,
\* and what the sweep is to release is in use.
Owners ==
  /\ inUse \cap pool = {}
  /\ \A c \in Chunks \ inUse : used[c] = {}
  /\ \A s \in garbage : s[2] \in used[s[1]]

\* The helper thread and a collection exclude each other, and the chunk of
\* the decommit loop is listed as long as the loop has the lock.
Phases ==
  /\ pc # "idle" => mainPc # "collect"
  /\ pc = "scan" => chunk \in Listed
  /\ pc = "decommit" =>
       /\ chunk \in inUse /\ aheader \in Arenas
       /\ savedPrevp \in inUse \cup {HeadAddr}

Inv ==
  /\ TypeOK
  /\ Linked(List, Listed)
  /\ \A c \in inUse : ChunkAccounted(c)
  /\ FreeCounted
  /\ Owners
  /\ Phases

ListTypes ==
  /\ head \in Chunks \cup {Nil}
  /\ next \in [Chunks -> Chunks \cup {Nil}]
  /\ prevp \in [Chunks -> Chunks \cup {Nil, HeadAddr}]

\* The list as a value.
LEMMA ListTyped == ListTypes => List \in Lists
  BY DEF ListTypes, List, Lists, Nexts, Prevs, Ptrs, Backs

\* What SetList leaves.
LEMMA ListSet ==
  ASSUME NEW R \in Lists, SetList(R)
  PROVE  List' = R /\ ListTypes'
<1>1. R = [head |-> R.head, next |-> R.next, prevp |-> R.prevp]
  BY DEF Lists
<1>2. List' = R
  BY <1>1 DEF SetList, List
<1>3. R.head \in Ptrs /\ R.next \in Nexts /\ R.prevp \in Prevs
  BY DEF Lists
<1>4. ListTypes'
  BY <1>3 DEF SetList, ListTypes, Nexts, Prevs, Ptrs, Backs
<1> QED
  BY <1>2, <1>4

\* A free arena is taken from a listed chunk.
LEMMA FetchStep ==
  ASSUME Inv, NEW c \in Listed, NEW a \in Arenas, Fetch(c, a),
         SetList(IF numFree'[c] = 0 THEN Remove(List, c) ELSE List),
         UNCHANGED chunkVars
  PROVE  /\ numFree' \in [Chunks -> 0..ArenasPerChunk]
         /\ free' \in Sets /\ decommitted' \in Sets /\ freeCommitted' \in Nat
         /\ ListTypes' /\ Linked(List', Listed')
         /\ FreeCounted'
         /\ \A d \in Chunks : d # c => /\ numFree'[d] = numFree[d] /\ free'[d] = free[d]
                                      /\ decommitted'[d] = decommitted[d]
         /\ a \in free[c] \cup decommitted[c]
         /\ free'[c] = free[c] \ {a} /\ decommitted'[c] = decommitted[c] \ {a}
         /\ numFree'[c] = Cardinality(free'[c] \cup decommitted'[c])
<1>1. c \in inUse /\ c \in Chunks /\ ChunkAccounted(c)
  BY DEF Inv, TypeOK, Listed
<1>2. free \in Sets /\ decommitted \in Sets /\ numFree \in [Chunks -> 0..ArenasPerChunk]
  BY DEF Inv, TypeOK, Sets
<1>3. free[c] \in SUBSET Arenas /\ decommitted[c] \in SUBSET Arenas
  BY <1>1, <1>2 DEF Sets
<1>4. a \in free[c] \cup decommitted[c]
  BY DEF Fetch
<1>5. /\ free'[c] = free[c] \ {a} /\ decommitted'[c] = decommitted[c] \ {a}
      /\ numFree'[c] = numFree[c] - 1
      /\ free' \in Sets /\ decommitted' \in Sets
  BY <1>1, <1>2 DEF Fetch, Sets
<1>6. \A d \in Chunks : d # c => /\ numFree'[d] = numFree[d] /\ free'[d] = free[d]
                               /\ decommitted'[d] = decommitted[d]
  BY <1>2 DEF Fetch, Sets
<1>7. numFree'[c] = Cardinality(free'[c] \cup decommitted'[c])
  <2> DEFINE A == free[c] \cup decommitted[c]
  <2>1. A \in ArenaSets /\ free'[c] \cup decommitted'[c] = A \ {a} /\ a \in A
    BY <1>3, <1>4, <1>5 DEF ArenaSets
  <2>2. numFree[c] = Cardinality(A)
    BY <1>1 DEF ChunkAccounted
  <2> HIDE DEF A
  <2>3. Cardinality(A \ {a}) = Cardinality(A) - 1
    BY <2>1, ArenaCount
  <2> QED
    BY <1>5, <2>1, <2>2, <2>3
<1>8. numFree' \in [Chunks -> 0..ArenasPerChunk]
  <2> DEFINE A == free'[c] \cup decommitted'[c]
  <2>1. A \in ArenaSets /\ numFree'[c] = Cardinality(A)
    BY <1>3, <1>5, <1>7 DEF ArenaSets
  <2> HIDE DEF A
  <2>2. numFree'[c] \in 0..ArenasPerChunk
    BY <2>1, ArenaBounds
  <2>3. numFree' = [numFree EXCEPT ![c] = @ - 1]
    BY DEF Fetch
  <2> QED
    BY <1>1, <1>2, <2>2, <2>3
<1>9. ListTypes' /\ Linked(List', Listed')
  <2>1. List \in Lists /\ Linked(List, Listed) /\ Listed \in SUBSET Chunks
    BY ListTyped DEF Inv, TypeOK, ListTypes, Listed
  <2>2. inUse' = inUse
    BY DEF chunkVars
  <2>3. CASE numFree'[c] = 0
    <3>1. Listed' = Listed \ {c}
      BY <1>1, <1>6, <2>2, <2>3 DEF Listed, HasAvailableArenas, Inv, TypeOK
    <3>2. Remove(List, c) \in Lists /\ Linked(Remove(List, c), Listed \ {c})
      BY <2>1, RemoveLinks
    <3>3. SetList(Remove(List, c))
      BY <2>3
    <3>4. List' = Remove(List, c) /\ ListTypes'
      BY <3>2, <3>3, ListSet
    <3> QED
      BY <3>1, <3>2, <3>4
  <2>4. CASE numFree'[c] # 0
    <3>1. Listed' = Listed
      BY <1>1, <1>6, <2>2, <2>4 DEF Listed, HasAvailableArenas, Inv, TypeOK
    <3>2. SetList(List)
      BY <2>4
    <3>3. List' = List /\ ListTypes'
      BY <2>1, <3>2, ListSet
    <3> QED
      BY <2>1, <3>1, <3>3
  <2> QED
    BY <2>3, <2>4
<1>10. FreeCounted' /\ freeCommitted' \in Nat
  <2>1. inUse' = inUse /\ pool' = pool /\ inUse \cup pool \in SUBSET Chunks
        /\ c \in inUse \cup pool
    BY <1>1 DEF chunkVars, Inv, TypeOK
  <2>2. /\ free' = [free EXCEPT ![c] = @ \ {a}]
        /\ freeCommitted' = freeCommitted - (IF free[c] # {} THEN 1 ELSE 0)
    BY DEF Fetch
  <2>3. freeCommitted = Cardinality(Slots(inUse \cup pool, free)) /\ freeCommitted \in Nat
    BY DEF Inv, FreeCounted, TypeOK
  <2>4. CASE free[c] # {}
    <3>1. a \in free[c]
      BY <2>4 DEF Fetch
    <3>2. Cardinality(Slots(inUse \cup pool, free'))
            = Cardinality(Slots(inUse \cup pool, free)) - 1
      BY <1>2, <1>5, <2>1, <2>2, <3>1, SlotsRemove
    <3>3. Cardinality(Slots(inUse \cup pool, free')) \in Nat
      BY <2>1, SlotsFinite
    <3>4. freeCommitted' = Cardinality(Slots(inUse \cup pool, free'))
      BY <2>2, <2>3, <2>4, <3>2
    <3>5. FreeCounted'
      BY <2>1, <3>4 DEF FreeCounted
    <3> QED
      BY <3>3, <3>4, <3>5
  <2>5. CASE free[c] = {}
    <3>1. free' = free
      BY <1>2, <1>5, <1>6, <2>2, <2>5 DEF Sets
    <3> QED
      BY <2>1, <2>2, <2>3, <2>5, <3>1 DEF FreeCounted
  <2> QED
    BY <2>4, <2>5
<1> QED
  BY <1>4, <1>5, <1>6, <1>7, <1>8, <1>9, <1>10

\* An arena becomes free, committed or not.
LEMMA PutStep ==
  ASSUME Inv, NEW c \in inUse, NEW a \in Arenas \ (free[c] \cup decommitted[c]),
         numFree' = [numFree EXCEPT ![c] = @ + 1],
         \/ /\ free' = [free EXCEPT ![c] = @ \cup {a}]
            /\ freeCommitted' = freeCommitted + 1
            /\ decommitted' = decommitted
         \/ /\ decommitted' = [decommitted EXCEPT ![c] = @ \cup {a}]
            /\ free' = free /\ freeCommitted' = freeCommitted,
         inUse' \cup pool' = inUse \cup pool
  PROVE  /\ numFree' \in [Chunks -> 0..ArenasPerChunk]
         /\ free' \in Sets /\ decommitted' \in Sets /\ freeCommitted' \in Nat
         /\ FreeCounted'
         /\ \A d \in Chunks : d # c => /\ numFree'[d] = numFree[d] /\ free'[d] = free[d]
                                      /\ decommitted'[d] = decommitted[d]
         /\ \/ free'[c] = free[c] \cup {a} /\ decommitted'[c] = decommitted[c]
            \/ free'[c] = free[c] /\ decommitted'[c] = decommitted[c] \cup {a}
         /\ numFree'[c] = Cardinality(free'[c] \cup decommitted'[c])
         /\ numFree'[c] = numFree[c] + 1
<1>1. c \in Chunks /\ ChunkAccounted(c)
  BY DEF Inv, TypeOK
<1>2. free \in Sets /\ decommitted \in Sets /\ numFree \in [Chunks -> 0..ArenasPerChunk]
  BY DEF Inv, TypeOK, Sets
<1>3. free[c] \in SUBSET Arenas /\ decommitted[c] \in SUBSET Arenas
  BY <1>1, <1>2 DEF Sets
<1>4. \/ free'[c] = free[c] \cup {a} /\ decommitted'[c] = decommitted[c]
      \/ free'[c] = free[c] /\ decommitted'[c] = decommitted[c] \cup {a}
  BY <1>1, <1>2 DEF Sets
<1>5. free' \in Sets /\ decommitted' \in Sets
  BY <1>2 DEF Sets
<1>6. \A d \in Chunks : d # c => /\ numFree'[d] = numFree[d] /\ free'[d] = free[d]
                               /\ decommitted'[d] = decommitted[d]
  BY <1>2 DEF Sets
<1>7. numFree'[c] = numFree[c] + 1
  BY <1>1, <1>2
<1> DEFINE A == free[c] \cup decommitted[c]
           B == free'[c] \cup decommitted'[c]
<1>8. A \in ArenaSets /\ B \in ArenaSets /\ B = A \cup {a} /\ a \notin A
  BY <1>3, <1>4 DEF ArenaSets
<1>9. numFree[c] = Cardinality(A)
  BY <1>1 DEF ChunkAccounted
<1>10. numFree'[c] = Cardinality(B) /\ numFree'[c] \in 0..ArenasPerChunk
  <2> HIDE DEF A, B
  <2>1. Cardinality(A \cup {a}) = Cardinality(A) + 1 /\ Cardinality(B) \in 0..ArenasPerChunk
    BY <1>8, ArenaCount, ArenaBounds
  <2> QED
    BY <1>7, <1>8, <1>9, <2>1
<1>11. numFree' \in [Chunks -> 0..ArenasPerChunk]
  BY <1>1, <1>2, <1>10
<1>12. FreeCounted' /\ freeCommitted' \in Nat
  <2> DEFINE S == inUse \cup pool
  <2>1. S \in SUBSET Chunks /\ c \in S /\ inUse' \cup pool' = S
    BY <1>1 DEF Inv, TypeOK
  <2>2. freeCommitted = Cardinality(Slots(S, free)) /\ freeCommitted \in Nat
    BY DEF Inv, FreeCounted, TypeOK
  <2> HIDE DEF S
  <2>3. CASE free' = [free EXCEPT ![c] = @ \cup {a}] /\ freeCommitted' = freeCommitted + 1
    <3>0. Added(free, free', c, a)
      BY <1>1, <1>2, <1>6, <2>3 DEF Sets, Added
    <3>1. Cardinality(Slots(S, free')) = Cardinality(Slots(S, free)) + 1
      BY <1>2, <1>5, <2>1, <3>0, SlotsAdd
    <3>2. Slots(inUse' \cup pool', free') = Slots(S, free')
      BY <2>1, Zenon
    <3> QED
      BY <2>1, <2>2, <2>3, <3>1, <3>2 DEF FreeCounted
  <2>4. CASE free' = free /\ freeCommitted' = freeCommitted
    BY <2>1, <2>2, <2>4 DEF FreeCounted
  <2> QED
    BY <2>3, <2>4
<1> QED
  BY <1>4, <1>5, <1>6, <1>7, <1>10, <1>11, <1>12

Changed(f, g, c, x) == g = [f EXCEPT ![c] = x]

\* A chunk that was not in use is taken into the heap, with the arenas of F
\* committed and those of D not, and listed.
LEMMA ChunkStep ==
  ASSUME Inv, NEW c \in Chunks, PickChunk(c),
         NEW F \in ArenaSets, NEW D \in ArenaSets, F \cup D # {},
         SetList(Insert(List, c, HeadAddr)),
         Changed(free, free', c, F), Changed(decommitted, decommitted', c, D),
         Changed(numFree, numFree', c, Cardinality(F \cup D)),
         freeCommitted' = freeCommitted + Cardinality(F)
                            - (IF c \in pool THEN Cardinality(free[c]) ELSE 0)
  PROVE  /\ numFree' \in [Chunks -> 0..ArenasPerChunk]
         /\ free' \in Sets /\ decommitted' \in Sets /\ freeCommitted' \in Nat
         /\ ListTypes' /\ Linked(List', Listed')
         /\ FreeCounted'
         /\ \A d \in Chunks : d # c => /\ numFree'[d] = numFree[d] /\ free'[d] = free[d]
                                      /\ decommitted'[d] = decommitted[d]
         /\ free'[c] = F /\ decommitted'[c] = D /\ numFree'[c] = Cardinality(F \cup D)
         /\ c \notin inUse /\ used[c] = {} /\ Held(c) = {}
<1>1. c \notin inUse /\ used[c] = {} /\ Held(c) = {}
  BY DEF PickChunk, Inv, Owners, Phases, Held
<1>2. free \in Sets /\ decommitted \in Sets /\ numFree \in [Chunks -> 0..ArenasPerChunk]
  BY DEF Inv, TypeOK, Sets
<1>3. free' \in Sets /\ decommitted' \in Sets
  BY <1>2 DEF Sets, ArenaSets, Changed
<1>4. free'[c] = F /\ decommitted'[c] = D /\ numFree'[c] = Cardinality(F \cup D)
  BY <1>2 DEF Sets, Changed
<1>5. \A d \in Chunks : d # c => /\ numFree'[d] = numFree[d] /\ free'[d] = free[d]
                               /\ decommitted'[d] = decommitted[d]
  BY <1>2 DEF Sets, Changed
<1>6. numFree'[c] \in 0..ArenasPerChunk /\ numFree'[c] # 0
  <2> DEFINE A == F \cup D
  <2>1. A \in ArenaSets /\ A # {} /\ numFree'[c] = Cardinality(A)
    BY <1>4 DEF ArenaSets
  <2> HIDE DEF A
  <2> QED
    BY <2>1, ArenaBounds
<1>7. numFree' \in [Chunks -> 0..ArenasPerChunk]
  BY <1>2, <1>4, <1>6 DEF Changed
<1>8. ListTypes' /\ Linked(List', Listed')
  <2>1. List \in Lists /\ Linked(List, Listed) /\ Listed \in SUBSET Chunks
    BY ListTyped DEF Inv, TypeOK, ListTypes, Listed
  <2>2. c \notin Listed /\ Listed' = Listed \cup {c}
    BY <1>1, <1>5, <1>6 DEF PickChunk, Listed, HasAvailableArenas, Inv, TypeOK
  <2>3. /\ Insert(List, c, HeadAddr) \in Lists
        /\ Linked(Insert(List, c, HeadAddr), Listed \cup {c})
    BY <2>1, <2>2, InsertLinks
  <2> QED
    BY <2>2, <2>3, ListSet
<1>9. FreeCounted' /\ freeCommitted' \in Nat
  <2> DEFINE S == (inUse \cup pool) \ {c}
             T == inUse' \cup pool'
  <2>1. /\ S \in SUBSET Chunks /\ Grown(S, T, c)
        /\ inUse \cup pool \in SUBSET Chunks
    BY <1>1 DEF PickChunk, Inv, TypeOK, Grown
  <2>2. Same(S, free, free')
    BY <1>5 DEF Inv, TypeOK, Same
  <2>3. freeCommitted = Cardinality(Slots(inUse \cup pool, free))
    BY DEF Inv, FreeCounted
  <2>4. Cardinality(Slots(S, free))
          = freeCommitted - (IF c \in pool THEN Cardinality(free[c]) ELSE 0)
    <3>1. CASE c \in pool
      <4>1. {c} \in SUBSET (inUse \cup pool)
        BY <3>1
      <4>2. Cardinality(Slots((inUse \cup pool) \ {c}, free))
              = Cardinality(Slots(inUse \cup pool, free)) - Cardinality(Slots({c}, free))
        BY <2>1, <4>1, SlotsDrop DEF S
      <4>3. Cardinality(Slots({c}, free)) = Cardinality(free[c])
        BY <1>2, SlotsOfOne
      <4>4. Cardinality(Slots((inUse \cup pool) \ {c}, free))
              = freeCommitted - Cardinality(free[c])
        BY <2>3, <4>2, <4>3, Zenon
      <4> QED
        BY <3>1, <4>4 DEF S
    <3>2. CASE c \notin pool
      <4>1. S = inUse \cup pool
        BY <1>1, <3>2
      <4>2. Slots(S, free) = Slots(inUse \cup pool, free)
        BY <4>1, Zenon
      <4>3. freeCommitted \in Nat
        BY DEF Inv, TypeOK
      <4> HIDE DEF S
      <4> QED
        BY <2>3, <3>2, <4>2, <4>3
    <3> QED
      BY <3>1, <3>2
  <2> HIDE DEF S, T
  <2>5. Cardinality(Slots(T, free')) = Cardinality(Slots(S, free)) + Cardinality(free'[c])
    <3>1. S \in SUBSET Chunks /\ Grown(S, T, c) /\ Same(S, free, free')
      BY <2>1, <2>2
    <3>2. free \in Sets /\ free' \in Sets
      BY <1>2, <1>3
    <3> QED
      BY <3>1, <3>2, SlotsAddChunk
  <2>6. /\ Cardinality(Slots(S, free)) \in Nat /\ Cardinality(F) \in Nat
        /\ freeCommitted \in Nat
        /\ (IF c \in pool THEN Cardinality(free[c]) ELSE 0) \in Nat
    <3>1. free[c] \in ArenaSets
      BY <1>2 DEF Sets, ArenaSets
    <3>2. Cardinality(free[c]) \in Nat /\ Cardinality(F) \in Nat
      BY <3>1, ArenaBounds DEF ArenasPerChunk
    <3>3. Cardinality(Slots(S, free)) \in Nat
      BY <2>1, SlotsFinite
    <3>4. freeCommitted \in Nat
      BY DEF Inv, TypeOK
    <3> QED
      BY <3>2, <3>3, <3>4
  <2>7. freeCommitted' = Cardinality(Slots(T, free')) /\ freeCommitted' \in Nat
    BY <1>4, <2>4, <2>5, <2>6
  <2> QED
    BY <2>7 DEF FreeCounted, T
<1> QED
  BY <1>1, <1>3, <1>4, <1>5, <1>7, <1>8, <1>9

-----------------------------------------------------------------------------
(* Each action preserves the invariant.                                     *)

\* A list that is not empty begins with a listed chunk.
LEMMA HeadListed ==
  ASSUME Inv
  PROVE  IF head = Nil THEN Listed = {} ELSE head \in Listed
<1>1. PICK n \in Nat : \E L \in [1..n -> Chunks] : Links(List, n, L, Listed)
  BY DEF Inv, Linked
<1>2. PICK L \in [1..n -> Chunks] : Links(List, n, L, Listed)
  BY <1>1
<1>3. List.head = head
  BY DEF List
<1>4. CASE n = 0
  BY <1>2, <1>3, <1>4 DEF Links
<1>5. CASE n # 0
  <2>1. 1 \in 1..n /\ L[1] \in Chunks /\ L[1] # Nil
    BY <1>5
  <2> QED
    BY <1>2, <1>3, <1>5, <2>1 DEF Links
<1> QED
  BY <1>4, <1>5

LEMMA AllocateAvailableInv == Inv /\ AllocateAvailable => Inv'
<1> SUFFICES ASSUME Inv, AllocateAvailable PROVE Inv'
  OBVIOUS
<1>1. head \in Listed
  BY HeadListed DEF AllocateAvailable
<1>2. PICK a \in Arenas :
        /\ Fetch(head, a)
        /\ used' = [used EXCEPT ![head] = @ \cup {a}]
        /\ SetList(IF numFree'[head] = 0 THEN Remove(List, head) ELSE List)
  BY DEF AllocateAvailable, AllocateArena
<1>3. UNCHANGED <<chunkVars, newChunk, mainPc, pc, garbage, decommitVars>>
  BY DEF AllocateAvailable
<1>4. /\ numFree' \in [Chunks -> 0..ArenasPerChunk]
      /\ free' \in Sets /\ decommitted' \in Sets /\ freeCommitted' \in Nat
      /\ ListTypes' /\ Linked(List', Listed')
      /\ FreeCounted'
      /\ \A d \in Chunks : d # head => /\ numFree'[d] = numFree[d] /\ free'[d] = free[d]
                                      /\ decommitted'[d] = decommitted[d]
      /\ a \in free[head] \cup decommitted[head]
      /\ free'[head] = free[head] \ {a} /\ decommitted'[head] = decommitted[head] \ {a}
      /\ numFree'[head] = Cardinality(free'[head] \cup decommitted'[head])
  BY <1>1, <1>2, <1>3, FetchStep
<1>5. head \in Chunks /\ head \in inUse /\ used \in Sets
  BY <1>1 DEF Listed, Inv, TypeOK, Sets
<1>6. /\ used'[head] = used[head] \cup {a} /\ used' \in Sets
      /\ \A d \in Chunks : d # head => used'[d] = used[d]
  BY <1>2, <1>5 DEF Sets
<1>7. TypeOK'
  BY <1>3, <1>4, <1>6 DEF Inv, TypeOK, ListTypes, chunkVars, decommitVars, Sets
<1>8. \A d \in inUse' : ChunkAccounted(d)'
  <2> SUFFICES ASSUME NEW d \in inUse' PROVE ChunkAccounted(d)'
    OBVIOUS
  <2>1. d \in inUse /\ d \in Chunks /\ ChunkAccounted(d) /\ Held(d)' = Held(d)
    BY <1>3 DEF chunkVars, decommitVars, Inv, TypeOK, Held
  <2>2. CASE d = head
    BY <1>4, <1>6, <2>1, <2>2 DEF ChunkAccounted
  <2>3. CASE d # head
    BY <1>4, <1>6, <2>1, <2>3 DEF ChunkAccounted
  <2> QED
    BY <2>2, <2>3
<1>9. Owners'
  BY <1>3, <1>5, <1>6 DEF Inv, Owners, TypeOK, chunkVars
<1>10. Phases'
  BY <1>3 DEF Inv, Phases, AllocateAvailable, LockFree, chunkVars, decommitVars
<1> QED
  BY <1>4, <1>7, <1>8, <1>9, <1>10 DEF Inv

\* The free arenas of a chunk that is taken into the heap.
LEMMA FreeOfChunk ==
  ASSUME Inv, NEW c \in Chunks
  PROVE  /\ FreeOf(c) \in ArenaSets /\ DecommittedOf(c) \in ArenaSets
         /\ FreeOf(c) \cup DecommittedOf(c) = Arenas /\ FreeOf(c) \cap DecommittedOf(c) = {}
         /\ c \in pool => FreeOf(c) = free[c]
         /\ c \notin pool => FreeOf(c) = Arenas
         /\ ArenasPerChunk \in Nat /\ ArenasPerChunk > 1
         /\ Arenas \in ArenaSets /\ Arenas # {}
  <1>1. free \in Sets
    BY DEF Inv, TypeOK, Sets
  <1>2. ArenasPerChunk \in Nat
    BY FS_CardinalityType DEF ArenasPerChunk
  <1>3. Arenas # {}
    BY FS_EmptySet
  <1>4. FreeOf(c) \in ArenaSets
    BY <1>1 DEF FreeOf, ArenaSets, Sets
  <1> QED
    BY <1>2, <1>3, <1>4 DEF FreeOf, DecommittedOf, ArenaSets, ArenasPerChunk

LEMMA AllocateNewChunkInv ==
  ASSUME Inv, NEW c \in Chunks, AllocateNewChunk(c)
  PROVE  Inv'
<1>1. PickChunk(c) /\ SetList(Insert(List, c, HeadAddr))
      /\ UNCHANGED <<mainPc, pc, garbage, decommitVars>>
  BY DEF AllocateNewChunk
<1>2. PICK a \in IF FreeOf(c) # {} THEN FreeOf(c) ELSE Arenas :
       /\ used' = [used EXCEPT ![c] = {a}]
       /\ free' = [free EXCEPT ![c] = FreeOf(c) \ {a}]
       /\ decommitted' = [decommitted EXCEPT ![c] = DecommittedOf(c) \ {a}]
       /\ numFree' = [numFree EXCEPT ![c] = ArenasPerChunk - 1]
       /\ freeCommitted' = freeCommitted + (IF c \in pool THEN 0 ELSE ArenasPerChunk)
                           - (IF FreeOf(c) # {} THEN 1 ELSE 0)
  BY DEF AllocateNewChunk
<1> DEFINE F == FreeOf(c) \ {a}
           D == DecommittedOf(c) \ {a}
<1>3. a \in Arenas /\ F \in ArenaSets /\ D \in ArenaSets /\ F \cup D = Arenas \ {a}
      /\ F \cap D = {}
  BY <1>2, FreeOfChunk DEF ArenaSets
<1>4. Cardinality(F \cup D) = ArenasPerChunk - 1 /\ F \cup D # {}
  <2>1. Cardinality(Arenas \ {a}) = ArenasPerChunk - 1
    BY <1>3, FreeOfChunk, ArenaCount DEF ArenasPerChunk
  <2>2. Cardinality(F \cup D) = Cardinality(Arenas \ {a})
    BY <1>3, Zenon
  <2>3. Cardinality(F \cup D) # 0
    BY <2>1, <2>2, FreeOfChunk
  <2> QED
    BY <2>1, <2>2, <2>3, FS_EmptySet
<1>5. freeCommitted' = freeCommitted + Cardinality(F)
                         - (IF c \in pool THEN Cardinality(free[c]) ELSE 0)
  <2>1. /\ Cardinality(FreeOf(c)) \in Nat /\ ArenasPerChunk \in Nat
        /\ c \in pool => Cardinality(FreeOf(c)) = Cardinality(free[c])
        /\ c \notin pool => FreeOf(c) # {} /\ Cardinality(FreeOf(c)) = ArenasPerChunk
    <3>1. FreeOf(c) \in ArenaSets
      BY FreeOfChunk
    <3> QED
      BY <3>1, FreeOfChunk, ArenaBounds DEF ArenasPerChunk
  <2>2. Cardinality(F) = Cardinality(FreeOf(c)) - (IF FreeOf(c) # {} THEN 1 ELSE 0)
    <3>1. CASE FreeOf(c) # {}
      <4>1. a \in FreeOf(c)
        BY <1>2, <3>1
      <4>2. FreeOf(c) \in ArenaSets
        BY FreeOfChunk
      <4> QED
        BY <3>1, <4>1, <4>2, ArenaCount
    <3>2. CASE FreeOf(c) = {}
      <4>1. F = {}
        BY <3>2
      <4>2. Cardinality(F) = 0 /\ Cardinality(FreeOf(c)) = 0
        BY <3>2, <4>1, FS_EmptySet
      <4> HIDE DEF F
      <4> QED
        BY <3>2, <4>2
    <3> QED
      BY <3>1, <3>2
  <2>3. freeCommitted \in Nat
    BY DEF Inv, TypeOK
  <2> HIDE DEF F
  <2> QED
    BY <1>2, <2>1, <2>2, <2>3
<1>6. /\ Changed(free, free', c, F) /\ Changed(decommitted, decommitted', c, D)
      /\ Changed(numFree, numFree', c, Cardinality(F \cup D))
      /\ Changed(used, used', c, {a})
  BY <1>2, <1>4 DEF Changed
<1> HIDE <1>2
<1> HIDE DEF F, D
<1>7. /\ numFree' \in [Chunks -> 0..ArenasPerChunk]
      /\ free' \in Sets /\ decommitted' \in Sets /\ freeCommitted' \in Nat
      /\ ListTypes' /\ Linked(List', Listed')
      /\ FreeCounted'
      /\ \A d \in Chunks : d # c => /\ numFree'[d] = numFree[d] /\ free'[d] = free[d]
                                   /\ decommitted'[d] = decommitted[d]
      /\ free'[c] = F /\ decommitted'[c] = D /\ numFree'[c] = Cardinality(F \cup D)
      /\ c \notin inUse /\ used[c] = {} /\ Held(c) = {}
  BY <1>1, <1>3, <1>4, <1>5, <1>6, ChunkStep
<1>8. used \in Sets
  BY DEF Inv, TypeOK, Sets
<1>9. used'[c] = {a} /\ used' \in Sets /\ \A d \in Chunks : d # c => used'[d] = used[d]
  BY <1>3, <1>6, <1>8 DEF Sets, Changed
<1>10. inUse' = inUse \cup {c} /\ pool' = pool \ {c} /\ newChunk' = TRUE
  BY <1>1 DEF PickChunk
<1>11. TypeOK'
  BY <1>1, <1>7, <1>9, <1>10 DEF Inv, TypeOK, ListTypes, decommitVars, Sets
<1>12. \A d \in inUse' : ChunkAccounted(d)'
  <2> SUFFICES ASSUME NEW d \in inUse' PROVE ChunkAccounted(d)'
    OBVIOUS
  <2>1. d \in Chunks /\ Held(d)' = Held(d)
    BY <1>1, <1>10 DEF decommitVars, Inv, TypeOK, Held
  <2>2. CASE d = c
    BY <1>3, <1>7, <1>9, <2>1, <2>2 DEF ChunkAccounted
  <2>3. CASE d # c
    <3>1. ChunkAccounted(d)
      BY <1>10, <2>3 DEF Inv
    <3> QED
      BY <1>7, <1>9, <2>1, <2>3, <3>1 DEF ChunkAccounted
  <2> QED
    BY <2>2, <2>3
<1>13. Owners'
  BY <1>1, <1>7, <1>9, <1>10 DEF Inv, Owners, TypeOK
<1>14. Phases'
  BY <1>1, <1>10 DEF Inv, Phases, PickChunk, LockFree, decommitVars
<1> QED
  BY <1>7, <1>11, <1>12, <1>13, <1>14 DEF Inv

LEMMA AllocateFailsInv ==
  ASSUME Inv, NEW c \in Chunks, AllocateFails(c)
  PROVE  Inv'
<1>1. /\ PickChunk(c) /\ SetList(Insert(List, c, HeadAddr))
      /\ free' = [free EXCEPT ![c] = FreeOf(c)]
      /\ decommitted' = [decommitted EXCEPT ![c] = DecommittedOf(c)]
      /\ numFree' = [numFree EXCEPT ![c] = ArenasPerChunk]
      /\ freeCommitted' = freeCommitted + (IF c \in pool THEN 0 ELSE ArenasPerChunk)
      /\ UNCHANGED <<used, mainPc, pc, garbage, decommitVars>>
  BY DEF AllocateFails
<1> DEFINE F == FreeOf(c)
           D == DecommittedOf(c)
<1>3. F \in ArenaSets /\ D \in ArenaSets /\ F \cup D = Arenas /\ F \cap D = {}
      /\ F \cup D # {}
  BY FreeOfChunk
<1>4. Cardinality(F \cup D) = ArenasPerChunk
  BY <1>3, Zenon DEF ArenasPerChunk
<1>5. freeCommitted' = freeCommitted + Cardinality(F)
                         - (IF c \in pool THEN Cardinality(free[c]) ELSE 0)
  <2>1. /\ Cardinality(FreeOf(c)) \in Nat /\ ArenasPerChunk \in Nat
        /\ c \in pool => Cardinality(FreeOf(c)) = Cardinality(free[c])
        /\ c \notin pool => Cardinality(FreeOf(c)) = ArenasPerChunk
    BY <1>3, FreeOfChunk, ArenaBounds DEF ArenasPerChunk
  <2>3. freeCommitted \in Nat
    BY DEF Inv, TypeOK
  <2> QED
    BY <1>1, <2>1, <2>3
<1>6. /\ Changed(free, free', c, F) /\ Changed(decommitted, decommitted', c, D)
      /\ Changed(numFree, numFree', c, Cardinality(F \cup D))
  BY <1>1, <1>4 DEF Changed
<1>2. /\ PickChunk(c) /\ SetList(Insert(List, c, HeadAddr))
      /\ UNCHANGED <<used, mainPc, pc, garbage, decommitVars>>
  BY <1>1
<1> HIDE DEF F, D
<1>7. /\ numFree' \in [Chunks -> 0..ArenasPerChunk]
      /\ free' \in Sets /\ decommitted' \in Sets /\ freeCommitted' \in Nat
      /\ ListTypes' /\ Linked(List', Listed')
      /\ FreeCounted'
      /\ \A d \in Chunks : d # c => /\ numFree'[d] = numFree[d] /\ free'[d] = free[d]
                                   /\ decommitted'[d] = decommitted[d]
      /\ free'[c] = F /\ decommitted'[c] = D /\ numFree'[c] = Cardinality(F \cup D)
      /\ c \notin inUse /\ used[c] = {} /\ Held(c) = {}
  BY <1>2, <1>3, <1>5, <1>6, ChunkStep
<1>8. used \in Sets
  BY DEF Inv, TypeOK, Sets
<1>10. inUse' = inUse \cup {c} /\ pool' = pool \ {c} /\ newChunk' = TRUE
  BY <1>2 DEF PickChunk
<1>11. TypeOK'
  BY <1>2, <1>7, <1>8, <1>10 DEF Inv, TypeOK, ListTypes, decommitVars, Sets
<1>12. \A d \in inUse' : ChunkAccounted(d)'
  <2> SUFFICES ASSUME NEW d \in inUse' PROVE ChunkAccounted(d)'
    OBVIOUS
  <2>1. d \in Chunks /\ Held(d)' = Held(d)
    BY <1>2, <1>10 DEF decommitVars, Inv, TypeOK, Held
  <2>2. CASE d = c
    BY <1>2, <1>3, <1>7, <2>1, <2>2 DEF ChunkAccounted
  <2>3. CASE d # c
    <3>1. ChunkAccounted(d)
      BY <1>10, <2>3 DEF Inv
    <3> QED
      BY <1>2, <1>7, <2>1, <2>3, <3>1 DEF ChunkAccounted
  <2> QED
    BY <2>2, <2>3
<1>13. Owners'
  BY <1>2, <1>7, <1>10 DEF Inv, Owners, TypeOK
<1>14. Phases'
  BY <1>2, <1>10 DEF Inv, Phases, PickChunk, LockFree, decommitVars
<1> QED
  BY <1>7, <1>11, <1>12, <1>13, <1>14 DEF Inv

\* Chunks of the pool are given back to the system.
LEMMA DropStep ==
  ASSUME Inv, NEW G \in SUBSET pool,
         inUse' = inUse, pool' = pool \ G, free' = free,
         freeCommitted' = freeCommitted - Cardinality(Slots(G, free))
  PROVE  FreeCounted' /\ freeCommitted' \in Nat
<1> DEFINE S == inUse \cup pool
           T == inUse' \cup pool'
<1>1. S \in SUBSET Chunks /\ G \in SUBSET S /\ T = S \ G /\ T \in SUBSET Chunks
  BY DEF Inv, TypeOK, Owners
<1>2. freeCommitted = Cardinality(Slots(S, free))
  BY DEF Inv, FreeCounted
<1>3. Slots(S \ G, free) = Slots(T, free')
  BY <1>1, Zenon
<1> HIDE DEF S, T
<1>4. Cardinality(Slots(S \ G, free)) = Cardinality(Slots(S, free)) - Cardinality(Slots(G, free))
  BY <1>1, SlotsDrop
<1>5. freeCommitted' = Cardinality(Slots(T, free'))
  BY <1>2, <1>3, <1>4
<1>6. Cardinality(Slots(T, free')) \in Nat
  BY <1>1, SlotsFinite
<1> QED
  BY <1>5, <1>6 DEF FreeCounted, T

LEMMA AddToSetFailsInv ==
  ASSUME Inv, NEW c \in Chunks, AddToSetFails(c)
  PROVE  Inv'
<1>1. /\ c \in Chunks \ inUse
      /\ pool' = pool \ {c}
      /\ freeCommitted' = freeCommitted - (IF c \in pool THEN Cardinality(free[c]) ELSE 0)
      /\ newChunk' = TRUE
      /\ UNCHANGED <<listVars, numFree, free, decommitted, used, inUse, mainPc, pc, garbage,
                     decommitVars>>
  BY DEF AddToSetFails, Inv, Owners
<1>2. FreeCounted' /\ freeCommitted' \in Nat
  <2>1. CASE c \in pool
    <3>1. Cardinality(Slots({c}, free)) = Cardinality(free[c])
      BY SlotsOfOne DEF Inv, TypeOK, Sets
    <3>2. freeCommitted' = freeCommitted - Cardinality(free[c])
      BY <1>1, <2>1
    <3>3. freeCommitted' = freeCommitted - Cardinality(Slots({c}, free))
      BY <3>1, <3>2, Zenon
    <3> DEFINE G == {c}
    <3>4. G \in SUBSET pool /\ inUse' = inUse /\ pool' = pool \ G /\ free' = free
      BY <1>1, <2>1
    <3>5. freeCommitted' = freeCommitted - Cardinality(Slots(G, free))
      BY <3>3
    <3> HIDE DEF G
    <3> QED
      BY <3>4, <3>5, DropStep
  <2>2. CASE c \notin pool
    <3>1. inUse' \cup pool' = inUse \cup pool /\ free' = free /\ freeCommitted \in Nat
          /\ freeCommitted' = freeCommitted
      BY <1>1, <2>2 DEF Inv, TypeOK
    <3>2. Slots(inUse' \cup pool', free') = Slots(inUse \cup pool, free)
      BY <3>1, Zenon
    <3> QED
      BY <3>1, <3>2 DEF FreeCounted, Inv
  <2> QED
    BY <2>1, <2>2
<1>3. TypeOK'
  BY <1>1, <1>2 DEF Inv, TypeOK, listVars, decommitVars
<1>4. List' = List /\ Listed' = Listed
  BY <1>1 DEF List, Listed, HasAvailableArenas, listVars
<1>5. \A d \in inUse' : ChunkAccounted(d)'
  BY <1>1 DEF Inv, ChunkAccounted, Held, decommitVars
<1>6. Owners' /\ Phases'
  BY <1>1, <1>4 DEF Inv, Owners, Phases, decommitVars
<1> QED
  BY <1>2, <1>3, <1>4, <1>5, <1>6 DEF Inv

\* The steps of the main thread that leave the heap alone.
LEMMA SessionInv ==
  ASSUME Inv, BeginCollection \/ Mark \/ StartBackgroundSweep \/ EndSession
  PROVE  Inv'
<1>1. UNCHANGED <<listVars, arenaVars, chunkVars, decommitVars>>
  BY DEF BeginCollection, Mark, StartBackgroundSweep, EndSession
<1>2. TypeOK'
  BY <1>1 DEF BeginCollection, Mark, StartBackgroundSweep, EndSession, Inv, TypeOK,
              listVars, arenaVars, chunkVars, decommitVars
<1>3. List' = List /\ Listed' = Listed
  BY <1>1 DEF List, Listed, HasAvailableArenas, listVars, arenaVars, chunkVars
<1>4. pc' = "decommit" <=> pc = "decommit"
  BY DEF BeginCollection, Mark, StartBackgroundSweep, EndSession, Inv, Phases
<1>5. \A d \in inUse' : ChunkAccounted(d)'
  BY <1>1, <1>4 DEF Inv, ChunkAccounted, Held, arenaVars, chunkVars, decommitVars
<1>6. FreeCounted'
  BY <1>1 DEF Inv, FreeCounted, arenaVars, chunkVars
<1>7. Owners'
  BY <1>1 DEF Inv, Owners, arenaVars, chunkVars, BeginCollection, Mark, StartBackgroundSweep,
              EndSession
<1>8. Phases'
  BY <1>1, <1>3 DEF Inv, Phases, TypeOK, chunkVars, decommitVars, BeginCollection, Mark,
              StartBackgroundSweep, EndSession
<1> QED
  BY <1>2, <1>3, <1>5, <1>6, <1>7, <1>8 DEF Inv

LEMMA ReleaseArenaInv ==
  ASSUME Inv, NEW c \in Chunks, NEW a \in Arenas, ReleaseArena(c, a)
  PROVE  Inv'
<1>1. /\ mainPc = "collect" \/ pc = "sweep"
      /\ <<c, a>> \in garbage
      /\ garbage' = garbage \ {<<c, a>>}
      /\ decommitted' = decommitted /\ newChunk' = newChunk /\ mainPc' = mainPc /\ pc' = pc
      /\ chunk' = chunk /\ aheader' = aheader /\ savedPrevp' = savedPrevp
  BY DEF ReleaseArena, decommitVars
<1>2. /\ Changed(used, used', c, used[c] \ {a})
      /\ numFree' = [numFree EXCEPT ![c] = @ + 1]
      /\ free' = [free EXCEPT ![c] = @ \cup {a}]
      /\ freeCommitted' = freeCommitted + 1
  BY DEF ReleaseArena, Changed
<1>3. IF BecomesAvailable(c)
      THEN SetList(Insert(List, c, HeadAddr)) /\ UNCHANGED chunkVars
      ELSE IF numFree'[c] = ArenasPerChunk
      THEN /\ SetList(Remove(List, c))
           /\ inUse' = inUse \ {c} /\ pool' = pool \cup {c}
      ELSE UNCHANGED <<listVars, chunkVars>>
  BY DEF ReleaseArena
<1>4. a \in used[c] /\ c \in inUse /\ pc \notin {"scan", "decommit"}
  BY <1>1 DEF Inv, Owners, Phases
<1>5. ChunkAccounted(c) /\ a \notin free[c] \cup decommitted[c]
  BY <1>4 DEF Inv, ChunkAccounted
<1>6. inUse' \cup pool' = inUse \cup pool
  BY <1>3, <1>4 DEF chunkVars
<1>7. /\ numFree' \in [Chunks -> 0..ArenasPerChunk]
      /\ free' \in Sets /\ decommitted' \in Sets /\ freeCommitted' \in Nat
      /\ FreeCounted'
      /\ \A d \in Chunks : d # c => /\ numFree'[d] = numFree[d] /\ free'[d] = free[d]
                                   /\ decommitted'[d] = decommitted[d]
      /\ \/ free'[c] = free[c] \cup {a} /\ decommitted'[c] = decommitted[c]
         \/ free'[c] = free[c] /\ decommitted'[c] = decommitted[c] \cup {a}
      /\ numFree'[c] = Cardinality(free'[c] \cup decommitted'[c])
      /\ numFree'[c] = numFree[c] + 1
  BY <1>1, <1>2, <1>4, <1>5, <1>6, PutStep
<1>8. used \in Sets
  BY DEF Inv, TypeOK, Sets
<1>9. /\ used'[c] = used[c] \ {a} /\ used' \in Sets
      /\ \A d \in Chunks : d # c => used'[d] = used[d]
  BY <1>2, <1>8 DEF Sets, Changed
<1>10. ChunkAccounted(c)'
  <2>1. Held(c) = {} /\ Held(c)' = {}
    BY <1>1, <1>4 DEF Held
  <2> QED
    BY <1>4, <1>5, <1>7, <1>9, <2>1 DEF ChunkAccounted
<1>11. numFree \in [Chunks -> 0..ArenasPerChunk] /\ ArenasPerChunk \in Nat
       /\ ArenasPerChunk > 1
  BY FS_CardinalityType DEF Inv, TypeOK, ArenasPerChunk
<1>12. ListTypes' /\ Linked(List', Listed') /\ inUse' \in SUBSET inUse
       /\ inUse \ inUse' \in SUBSET {c}
       /\ (c \notin inUse' => numFree'[c] = ArenasPerChunk)
  <2>1. List \in Lists /\ Linked(List, Listed) /\ Listed \in SUBSET Chunks
    BY ListTyped DEF Inv, TypeOK, ListTypes, Listed
  <2>2. CASE BecomesAvailable(c)
    <3>1. numFree[c] = 0 /\ inUse' = inUse
      BY <1>3, <1>7, <1>11, <2>2 DEF BecomesAvailable, chunkVars
    <3>2. c \notin Listed /\ Listed' = Listed \cup {c}
      BY <1>4, <1>7, <3>1 DEF Listed, HasAvailableArenas, Inv, TypeOK
    <3>3. /\ Insert(List, c, HeadAddr) \in Lists
          /\ Linked(Insert(List, c, HeadAddr), Listed \cup {c})
      BY <2>1, <3>2, InsertLinks
    <3> QED
      BY <1>3, <1>4, <2>2, <3>1, <3>2, <3>3, ListSet
  <2>3. CASE ~BecomesAvailable(c) /\ numFree'[c] = ArenasPerChunk
    <3>1. numFree[c] # 0 /\ inUse' = inUse \ {c} /\ SetList(Remove(List, c))
      BY <1>3, <1>7, <1>11, <2>3 DEF BecomesAvailable
    <3>2. c \in Listed /\ Listed' = Listed \ {c}
      BY <1>4, <1>7, <3>1 DEF Listed, HasAvailableArenas, Inv, TypeOK
    <3>3. Remove(List, c) \in Lists /\ Linked(Remove(List, c), Listed \ {c})
      BY <2>1, <3>2, RemoveLinks
    <3> QED
      BY <2>3, <3>1, <3>2, <3>3, ListSet
  <2>4. CASE ~BecomesAvailable(c) /\ numFree'[c] # ArenasPerChunk
    <3>1. numFree[c] # 0 /\ inUse' = inUse /\ UNCHANGED listVars
      BY <1>3, <1>7, <1>11, <2>4 DEF BecomesAvailable, chunkVars
    <3>2. numFree'[c] # 0
      BY <1>7, <1>11
    <3>3. Listed' = Listed
      BY <1>4, <1>7, <3>1, <3>2 DEF Listed, HasAvailableArenas, Inv, TypeOK
    <3>4. List' = List /\ ListTypes'
      BY <3>1 DEF List, ListTypes, listVars, Inv, TypeOK
    <3> QED
      BY <1>4, <2>1, <3>1, <3>3, <3>4
  <2> QED
    BY <2>2, <2>3, <2>4
<1>13. pool' \in SUBSET Chunks /\ inUse' \in SUBSET Chunks /\ inUse' \cap pool' = {}
  BY <1>3, <1>4 DEF Inv, TypeOK, Owners, chunkVars
<1>14. TypeOK'
  BY <1>1, <1>7, <1>9, <1>12, <1>13 DEF Inv, TypeOK, ListTypes, Sets
<1>15. \A d \in inUse' : ChunkAccounted(d)'
  <2> SUFFICES ASSUME NEW d \in inUse' PROVE ChunkAccounted(d)'
    OBVIOUS
  <2>1. CASE d = c
    BY <1>10, <2>1
  <2>2. CASE d # c
    <3>1. ChunkAccounted(d) /\ Held(d)' = Held(d) /\ d \in Chunks
      BY <1>1, <1>12 DEF Inv, TypeOK, Held
    <3> QED
      BY <1>7, <1>9, <2>2, <3>1 DEF ChunkAccounted
  <2> QED
    BY <2>1, <2>2
<1>16. Owners'
  <2>1. c \notin inUse' => used'[c] = {}
    <3> DEFINE A == free'[c] \cup decommitted'[c]
    <3>1. HAVE c \notin inUse'
    <3>2. A \in ArenaSets /\ Cardinality(A) = ArenasPerChunk
      BY <1>7, <1>12, <3>1 DEF ArenaSets, Sets
    <3> HIDE DEF A
    <3>3. A = Arenas
      BY <3>2, ArenaBounds
    <3>4. free'[c] \cup decommitted'[c] = Arenas
      BY <3>3 DEF A
    <3> QED
      BY <1>9, <1>10, <3>4 DEF ChunkAccounted, Sets
  <2>2. \A d \in Chunks \ inUse' : used'[d] = {}
    BY <1>9, <1>12, <2>1 DEF Inv, Owners
  <2>3. \A s \in garbage' : s[2] \in used'[s[1]]
    <3> SUFFICES ASSUME NEW s \in garbage' PROVE s[2] \in used'[s[1]]
      OBVIOUS
    <3>1. s \in garbage /\ s # <<c, a>> /\ s[2] \in used[s[1]]
      BY <1>1 DEF Inv, Owners
    <3>2. s[1] \in Chunks /\ s = <<s[1], s[2]>>
      BY <3>1 DEF Inv, TypeOK
    <3> QED
      BY <1>9, <3>1, <3>2
  <2> QED
    BY <1>13, <2>2, <2>3 DEF Owners
<1>17. Phases'
  BY <1>1, <1>4 DEF Inv, Phases
<1> QED
  BY <1>7, <1>12, <1>14, <1>15, <1>16, <1>17 DEF Inv

LEMMA ExpireInv == Inv /\ Expire => Inv'
<1> SUFFICES ASSUME Inv, Expire PROVE Inv'
  OBVIOUS
<1>1. PICK G \in SUBSET pool, shrink \in BOOLEAN :
        /\ pool' = pool \ G
        /\ freeCommitted' = freeCommitted - Cardinality({s \in G \X Arenas : s[2] \in free[s[1]]})
        /\ pc' = IF shrink THEN "start" ELSE "idle"
  BY DEF Expire
<1>2. /\ pc = "sweep"
      /\ UNCHANGED <<listVars, numFree, free, decommitted, used, inUse, newChunk, mainPc,
                     garbage, decommitVars>>
  BY DEF Expire
<1>3. freeCommitted' = freeCommitted - Cardinality(Slots(G, free))
  BY <1>1 DEF Slots
<1>4. FreeCounted' /\ freeCommitted' \in Nat
  BY <1>1, <1>2, <1>3, DropStep
<1>5. TypeOK'
  BY <1>1, <1>2, <1>4 DEF Inv, TypeOK, listVars, decommitVars
<1>6. List' = List /\ Listed' = Listed
  BY <1>2 DEF List, Listed, HasAvailableArenas, listVars
<1>7. \A d \in inUse' : ChunkAccounted(d)'
  BY <1>1, <1>2 DEF Inv, ChunkAccounted, Held, decommitVars
<1>8. Owners' /\ Phases'
  BY <1>1, <1>2 DEF Inv, Owners, Phases
<1> QED
  BY <1>4, <1>5, <1>6, <1>7, <1>8 DEF Inv

\* The chunk the walk begins with, or goes on to, is listed.
LEMMA BackListed ==
  ASSUME Inv, NEW c \in Chunks
  PROVE  /\ prevp[c] # Nil => c \in Listed
         /\ prevp[c] \in Listed \cup {HeadAddr, Nil}
<1>1. PICK n \in Nat : \E L \in [1..n -> Chunks] : Links(List, n, L, Listed)
  BY DEF Inv, Linked
<1>2. PICK L \in [1..n -> Chunks] : Links(List, n, L, Listed)
  BY <1>1
<1>3. List.prevp = prevp
  BY DEF List
<1>4. prevp[c] # Nil => c \in Listed
  BY <1>2, <1>3 DEF Links
<1>5. ASSUME c \in Listed PROVE prevp[c] \in Listed \cup {HeadAddr}
  <2>1. PICK i \in 1..n : L[i] = c
    BY <1>2, <1>5 DEF Links
  <2>2. prevp[c] = IF i = 1 THEN HeadAddr ELSE L[i - 1]
    BY <1>2, <1>3, <2>1 DEF Links
  <2>3. i # 1 => i - 1 \in 1..n
    OBVIOUS
  <2> QED
    BY <1>2, <2>2, <2>3 DEF Links
<1> QED
  BY <1>4, <1>5

\* The steps of the walk that leave the heap alone.
LEMMA WalkInv ==
  ASSUME Inv, StartDecommit \/ NextChunk
  PROVE  Inv'
<1>1. /\ UNCHANGED <<listVars, arenaVars, chunkVars, newChunk, mainPc, garbage, aheader,
                     savedPrevp>>
      /\ pc \in {"start", "scan"} /\ pc' \in {"idle", "scan"}
      /\ pc' = "scan" => chunk' \in Listed
      /\ chunk' \in Chunks \cup {Nil}
  <2>1. CASE StartDecommit
    <3>1. \A c \in Chunks : IsTail(c) => c \in Listed
      BY BackListed DEF IsTail
    <3> QED
      BY <2>1, <3>1 DEF StartDecommit, Inv, TypeOK
  <2>2. CASE NextChunk
    <3>1. chunk \in Chunks
      BY <2>2 DEF NextChunk, Inv, Phases, Listed, TypeOK
    <3>2. prevp[chunk] \in Listed \cup {HeadAddr, Nil}
      BY <3>1, BackListed
    <3>3. Listed \in SUBSET Chunks
      BY DEF Listed, Inv, TypeOK
    <3> QED
      BY <2>2, <3>2, <3>3 DEF NextChunk, PreviousChunk
  <2> QED
    BY <2>1, <2>2
<1>2. TypeOK'
  BY <1>1 DEF Inv, TypeOK, listVars, arenaVars, chunkVars
<1>3. List' = List /\ Listed' = Listed
  BY <1>1 DEF List, Listed, HasAvailableArenas, listVars, arenaVars, chunkVars
<1>4. \A d \in inUse' : ChunkAccounted(d)'
  BY <1>1 DEF Inv, ChunkAccounted, Held, arenaVars, chunkVars
<1>5. FreeCounted'
  BY <1>1 DEF Inv, FreeCounted, arenaVars, chunkVars
<1>6. Owners'
  BY <1>1 DEF Inv, Owners, arenaVars, chunkVars
<1>7. Phases'
  BY <1>1, <1>3 DEF Inv, Phases
<1> QED
  BY <1>2, <1>3, <1>4, <1>5, <1>6, <1>7 DEF Inv

LEMMA FetchForDecommitInv == Inv /\ FetchForDecommit => Inv'
<1> SUFFICES ASSUME Inv, FetchForDecommit PROVE Inv'
  OBVIOUS
<1>1. pc = "scan" /\ chunk \in Listed
  BY DEF FetchForDecommit, Inv, Phases
<1>2. PICK a \in Arenas : Fetch(chunk, a) /\ aheader' = a
  BY DEF FetchForDecommit
<1>3. /\ savedPrevp' = prevp[chunk]
      /\ SetList(IF numFree'[chunk] = 0 THEN Remove(List, chunk) ELSE List)
      /\ pc' = "decommit"
      /\ UNCHANGED <<used, chunkVars, newChunk, mainPc, garbage, chunk>>
  BY DEF FetchForDecommit
<1>4. /\ numFree' \in [Chunks -> 0..ArenasPerChunk]
      /\ free' \in Sets /\ decommitted' \in Sets /\ freeCommitted' \in Nat
      /\ ListTypes' /\ Linked(List', Listed')
      /\ FreeCounted'
      /\ \A d \in Chunks : d # chunk => /\ numFree'[d] = numFree[d] /\ free'[d] = free[d]
                                       /\ decommitted'[d] = decommitted[d]
      /\ a \in free[chunk] \cup decommitted[chunk]
      /\ free'[chunk] = free[chunk] \ {a} /\ decommitted'[chunk] = decommitted[chunk] \ {a}
      /\ numFree'[chunk] = Cardinality(free'[chunk] \cup decommitted'[chunk])
  BY <1>1, <1>2, <1>3, FetchStep
<1>5. chunk \in Chunks /\ chunk \in inUse
  BY <1>1 DEF Listed, Inv, TypeOK
<1>6. savedPrevp' \in inUse \cup {HeadAddr}
  <2>1. prevp[chunk] \in Listed \cup {HeadAddr, Nil}
    BY <1>5, BackListed
  <2>2. prevp[chunk] # Nil
    <3>1. PICK n \in Nat : \E L \in [1..n -> Chunks] : Links(List, n, L, Listed)
      BY DEF Inv, Linked
    <3>2. List.prevp = prevp
      BY DEF List
    <3> QED
      BY <1>1, <1>5, <3>1, <3>2 DEF Links
  <2> QED
    BY <1>3, <2>1, <2>2 DEF Listed
<1>7. TypeOK'
  BY <1>2, <1>3, <1>4, <1>6 DEF Inv, TypeOK, ListTypes, chunkVars, Sets
<1>8. \A d \in inUse' : ChunkAccounted(d)'
  <2> SUFFICES ASSUME NEW d \in inUse' PROVE ChunkAccounted(d)'
    OBVIOUS
  <2>1. d \in inUse /\ d \in Chunks /\ ChunkAccounted(d) /\ Held(d) = {}
    BY <1>1, <1>3 DEF chunkVars, Inv, TypeOK, Held
  <2>2. CASE d = chunk
    <3>1. Held(d)' = {a}
      BY <1>2, <1>3, <2>2 DEF Held
    <3>2. /\ used'[d] = used[d] /\ free'[d] = free[d] \ {a}
          /\ decommitted'[d] = decommitted[d] \ {a} /\ a \in free[d] \cup decommitted[d]
          /\ numFree'[d] = Cardinality(free'[d] \cup decommitted'[d])
      BY <1>3, <1>4, <2>2
    <3> QED
      BY <2>1, <3>1, <3>2 DEF ChunkAccounted
  <2>3. CASE d # chunk
    <3>1. Held(d)' = {}
      BY <1>3, <2>3 DEF Held
    <3> QED
      BY <1>3, <1>4, <2>1, <2>3, <3>1 DEF ChunkAccounted
  <2> QED
    BY <2>2, <2>3
<1>9. Owners'
  BY <1>3 DEF Inv, Owners, chunkVars
<1>10. Phases'
  BY <1>1, <1>2, <1>3, <1>5, <1>6 DEF Inv, Phases, chunkVars
<1> QED
  BY <1>4, <1>7, <1>8, <1>9, <1>10 DEF Inv

LEMMA DecommittedInv ==
  ASSUME Inv, NEW ok \in BOOLEAN, Decommitted(ok)
  PROVE  Inv'
<1>1. /\ pc = "decommit"
      /\ numFree' = [numFree EXCEPT ![chunk] = @ + 1]
      /\ \/ /\ free' = [free EXCEPT ![chunk] = @ \cup {aheader}]
            /\ freeCommitted' = freeCommitted + 1
            /\ decommitted' = decommitted
         \/ /\ decommitted' = [decommitted EXCEPT ![chunk] = @ \cup {aheader}]
            /\ free' = free /\ freeCommitted' = freeCommitted
  BY DEF Decommitted
<1>2. /\ SetList(IF numFree'[chunk] = 1 THEN Insert(List, chunk, InsertPoint) ELSE List)
      /\ pc' = IF newChunk THEN "idle" ELSE "scan"
      /\ aheader' = Nil /\ savedPrevp' = Nil
      /\ UNCHANGED <<used, chunkVars, newChunk, mainPc, garbage, chunk>>
  BY DEF Decommitted
<1>3. /\ chunk \in inUse /\ chunk \in Chunks /\ aheader \in Arenas
      /\ savedPrevp \in inUse \cup {HeadAddr}
      /\ Held(chunk) = {aheader}
  BY <1>1 DEF Inv, Phases, TypeOK, Held
<1>4. ChunkAccounted(chunk) /\ aheader \notin free[chunk] \cup decommitted[chunk]
  BY <1>3 DEF Inv, ChunkAccounted
<1>5. inUse' = inUse /\ pool' = pool
  BY <1>2 DEF chunkVars
<1>6. /\ numFree' \in [Chunks -> 0..ArenasPerChunk]
      /\ free' \in Sets /\ decommitted' \in Sets /\ freeCommitted' \in Nat
      /\ FreeCounted'
      /\ \A d \in Chunks : d # chunk => /\ numFree'[d] = numFree[d] /\ free'[d] = free[d]
                                       /\ decommitted'[d] = decommitted[d]
      /\ \/ free'[chunk] = free[chunk] \cup {aheader} /\ decommitted'[chunk] = decommitted[chunk]
         \/ free'[chunk] = free[chunk] /\ decommitted'[chunk] = decommitted[chunk] \cup {aheader}
      /\ numFree'[chunk] = Cardinality(free'[chunk] \cup decommitted'[chunk])
      /\ numFree'[chunk] = numFree[chunk] + 1
  <2>1. aheader \in Arenas \ (free[chunk] \cup decommitted[chunk])
        /\ inUse' \cup pool' = inUse \cup pool
    BY <1>3, <1>4, <1>5
  <2> QED
    BY <1>1, <1>3, <2>1, PutStep
<1>7. numFree \in [Chunks -> 0..ArenasPerChunk] /\ ArenasPerChunk \in Nat
  BY FS_CardinalityType DEF Inv, TypeOK, ArenasPerChunk
<1>8. ListTypes' /\ Linked(List', Listed') /\ chunk \in Listed'
  <2>1. List \in Lists /\ Linked(List, Listed) /\ Listed \in SUBSET Chunks
    BY ListTyped DEF Inv, TypeOK, ListTypes, Listed
  <2>2. CASE numFree'[chunk] = 1
    <3>1. numFree[chunk] = 0
      BY <1>3, <1>6, <1>7, <2>2
    <3>2. chunk \notin Listed /\ Listed' = Listed \cup {chunk}
      BY <1>3, <1>5, <1>6, <2>2, <3>1 DEF Listed, HasAvailableArenas, Inv, TypeOK
    <3>3. InsertPoint \in Listed \cup {HeadAddr}
      BY <1>3 DEF InsertPoint, Listed
    <3>4. /\ Insert(List, chunk, InsertPoint) \in Lists
          /\ Linked(Insert(List, chunk, InsertPoint), Listed \cup {chunk})
      BY <1>3, <2>1, <3>2, <3>3, InsertLinks
    <3>5. SetList(Insert(List, chunk, InsertPoint))
      BY <1>2, <2>2
    <3>6. List' = Insert(List, chunk, InsertPoint) /\ ListTypes'
      BY <3>4, <3>5, ListSet
    <3> QED
      BY <3>2, <3>4, <3>6
  <2>3. CASE numFree'[chunk] # 1
    <3>1. numFree[chunk] # 0 /\ numFree'[chunk] # 0
      BY <1>3, <1>6, <1>7, <2>3
    <3>2. Listed' = Listed /\ chunk \in Listed
      BY <1>3, <1>5, <1>6, <3>1 DEF Listed, HasAvailableArenas, Inv, TypeOK
    <3>3. SetList(List)
      BY <1>2, <2>3
    <3>4. List' = List /\ ListTypes'
      BY <2>1, <3>3, ListSet
    <3> QED
      BY <2>1, <3>2, <3>4
  <2> QED
    BY <2>2, <2>3
<1>9. TypeOK'
  BY <1>2, <1>5, <1>6, <1>8 DEF Inv, TypeOK, ListTypes, Sets
<1>10. \A d \in inUse' : ChunkAccounted(d)'
  <2> SUFFICES ASSUME NEW d \in inUse' PROVE ChunkAccounted(d)'
    OBVIOUS
  <2>1. d \in inUse /\ d \in Chunks /\ ChunkAccounted(d) /\ Held(d)' = {}
    BY <1>2, <1>5 DEF Inv, TypeOK, Held
  <2>2. CASE d = chunk
    BY <1>2, <1>3, <1>6, <2>1, <2>2 DEF ChunkAccounted
  <2>3. CASE d # chunk
    <3>1. Held(d) = {}
      BY <2>3 DEF Held
    <3> QED
      BY <1>2, <1>6, <2>1, <2>3, <3>1 DEF ChunkAccounted
  <2> QED
    BY <2>2, <2>3
<1>11. Owners'
  BY <1>2, <1>5 DEF Inv, Owners
<1>12. Phases'
  BY <1>1, <1>2, <1>8 DEF Inv, Phases
<1> QED
  BY <1>6, <1>8, <1>9, <1>10, <1>11, <1>12 DEF Inv

LEMMA InitInv == Init => Inv
<1> SUFFICES ASSUME Init PROVE Inv
  OBVIOUS
<1>1. TypeOK
  <2>1. 0 \in 0..ArenasPerChunk
    BY FS_CardinalityType DEF ArenasPerChunk
  <2> QED
    BY <2>1 DEF Init, TypeOK
<1>2. Listed = {}
  BY DEF Init, Listed
<1>3. Linked(List, Listed)
  <2> DEFINE L == [i \in 1..0 |-> Nil]
  <2>1. L \in [1..0 -> Chunks] /\ Links(List, 0, L, {})
    BY DEF Init, List, Links
  <2> QED
    BY <1>2, <2>1 DEF Linked
<1>4. FreeCounted
  <2>1. Slots(inUse \cup pool, free) = {}
    BY DEF Init, Slots
  <2> QED
    BY <2>1, FS_EmptySet DEF Init, FreeCounted
<1>5. Owners /\ Phases /\ \A c \in inUse : ChunkAccounted(c)
  BY DEF Init, Owners, Phases
<1> QED
  BY <1>1, <1>3, <1>4, <1>5 DEF Inv

LEMMA NextInv == Inv /\ [Next]_vars => Inv'
<1> SUFFICES ASSUME Inv, [Next]_vars PROVE Inv'
  OBVIOUS
<1>1. CASE Main
  BY <1>1, AllocateAvailableInv, AllocateNewChunkInv, AllocateFailsInv, AddToSetFailsInv,
     SessionInv DEF Main
<1>2. CASE Sweep
  BY <1>2, ReleaseArenaInv DEF Sweep
<1>3. CASE Helper
  BY <1>3, ExpireInv, WalkInv, FetchForDecommitInv, DecommittedInv DEF Helper
<1>4. CASE UNCHANGED vars
  <2>1. UNCHANGED <<listVars, arenaVars, chunkVars, newChunk, mainPc, pc, garbage, decommitVars>>
    BY <1>4 DEF vars
  <2>2. TypeOK'
    BY <2>1 DEF Inv, TypeOK, listVars, arenaVars, chunkVars, decommitVars
  <2>3. List' = List /\ Listed' = Listed
    BY <2>1 DEF List, Listed, HasAvailableArenas, listVars, arenaVars, chunkVars
  <2>4. \A d \in inUse' : ChunkAccounted(d)'
    BY <2>1 DEF Inv, ChunkAccounted, Held, arenaVars, chunkVars, decommitVars
  <2>5. FreeCounted'
    BY <2>1 DEF Inv, FreeCounted, arenaVars, chunkVars
  <2>6. Owners'
    BY <2>1 DEF Inv, Owners, arenaVars, chunkVars
  <2>7. Phases'
    BY <2>1, <2>3 DEF Inv, Phases, chunkVars, decommitVars
  <2> QED
    BY <2>2, <2>3, <2>4, <2>5, <2>6, <2>7 DEF Inv
<1> QED
  BY <1>1, <1>2, <1>3, <1>4 DEF Next

\* Inv holds of every state of the program.
THEOREM Invariance == Spec => []Inv
  BY InitInv, NextInv, PTL DEF Spec

\* The type invariant.
THEOREM TypeCorrect == Spec => []TypeOK
<1>1. Inv => TypeOK
  BY DEF Inv
<1> QED
  BY <1>1, Invariance, PTL

\* The list of chunks with available arenas is well formed and complete, even
\* where the decommit loop puts a chunk back after it gave up the lock
\* (insertToAvailableList, removeFromAvailableList, the loop's insert point).
THEOREM ListIsCoherent == Spec => []ListCoherent
<1>1. Inv => ListCoherent
  <2> SUFFICES ASSUME Inv PROVE ListCoherent
    OBVIOUS
  <2>1. PICK n \in Nat : \E L \in [1..n -> Chunks] : Links(List, n, L, Listed)
    BY DEF Inv, Linked
  <2>2. PICK L \in [1..n -> Chunks] : Links(List, n, L, Listed)
    BY <2>1
  <2>3. n \in 0..Cardinality(Chunks)
    BY <2>2, ListLength DEF Links
  <2>4. {L[i] : i \in 1..n} = Listed
    BY <2>2 DEF Links
  <2>5. IsList(n, L)
    BY <2>2, <2>4 DEF Links, List, IsList, Listed
  <2> QED
    BY <2>3, <2>5 DEF ListCoherent
<1> QED
  BY <1>1, Invariance, PTL

\* Every arena of a chunk in use is used, free, decommitted or in the hands of
\* the decommit loop, and the counters of the heap are exact (allocateArena,
\* releaseArena, the decommit loop, gcNumArenasFreeCommitted).
THEOREM ArenasAreAccounted == Spec => []ArenasAccounted
<1>1. Inv => ArenasAccounted
  BY DEF Inv, ArenasAccounted, ChunkAccounted, FreeCounted, Slots
<1> QED
  BY <1>1, Invariance, PTL

-----------------------------------------------------------------------------
(* The heap implements ArenaHeap.                                           *)

\* What the arena a of the chunk c is to the users of the heap.
Status(c, a) ==
  IF c \notin inUse THEN "none"
  ELSE IF a \in used[c] THEN "used"
  ELSE IF a \in free[c] \cup decommitted[c] THEN "free" ELSE "held"

Maps == [Chunks \X Arenas -> Heap!States]

LEMMA StatusOf ==
  ASSUME NEW c \in Chunks, NEW a \in Arenas
  PROVE  HeapArena[<<c, a>>] = Status(c, a) /\ HeapArena'[<<c, a>>] = Status(c, a)'
  BY DEF HeapArena, Status, Maps

\* The map follows the arenas one by one.
LEMMA HeapStep ==
  ASSUME NEW V \in Maps,
         \A c \in Chunks, a \in Arenas : Status(c, a)' = V[<<c, a>>]
  PROVE  HeapArena' = V
  BY DEF HeapArena, Status, Maps

LEMMA HeapType == HeapArena \in Maps
  BY DEF HeapArena, Maps, Heap!States

\* A step that changes no arena.
LEMMA HeapStutter ==
  ASSUME \A c \in Chunks, a \in Arenas : Status(c, a)' = Status(c, a)
  PROVE  HeapArena' = HeapArena
  BY HeapStep, HeapType, StatusOf

Becomes(f, g, c, a, v) == g = [f EXCEPT ![<<c, a>>] = v]

\* A step that changes one arena.
LEMMA HeapOne ==
  ASSUME NEW c \in Chunks, NEW a \in Arenas, NEW v \in Heap!States,
         \A d \in Chunks, b \in Arenas :
           Status(d, b)' = IF d = c /\ b = a THEN v ELSE Status(d, b)
  PROVE  Becomes(HeapArena, HeapArena', c, a, v)
<1> DEFINE V == [HeapArena EXCEPT ![<<c, a>>] = v]
<1>1. V \in Maps
  BY HeapType DEF Maps, Heap!States
<1>2. \A d \in Chunks, b \in Arenas : Status(d, b)' = V[<<d, b>>]
  <2> SUFFICES ASSUME NEW d \in Chunks, NEW b \in Arenas PROVE Status(d, b)' = V[<<d, b>>]
    OBVIOUS
  <2>1. V[<<d, b>>] = IF <<d, b>> = <<c, a>> THEN v ELSE HeapArena[<<d, b>>]
    BY HeapType DEF Maps, Heap!States
  <2> QED
    BY <2>1, StatusOf
<1> HIDE DEF V
<1>3. HeapArena' = V
  BY <1>1, <1>2, HeapStep
<1> QED
  BY <1>3 DEF V, Becomes

\* The heap tells what an arena is.
LEMMA StatusMeans ==
  ASSUME Inv, NEW c \in inUse, NEW a \in Arenas
  PROVE  /\ Status(c, a) = "used" <=> a \in used[c]
         /\ Status(c, a) = "free" <=> a \in free[c] \cup decommitted[c]
         /\ Status(c, a) = "held" <=> a \in Held(c)
         /\ Status(c, a) # "none"
<1>1. ChunkAccounted(c)
  BY DEF Inv
<1> QED
  BY <1>1 DEF ChunkAccounted, Status

LEMMA AllocateAvailableHeap == Inv /\ AllocateAvailable => Heap!Next
<1> SUFFICES ASSUME Inv, AllocateAvailable PROVE Heap!Next
  OBVIOUS
<1>1. head \in Chunks /\ head \in inUse
  BY HeadListed DEF AllocateAvailable, Listed, Inv, TypeOK
<1>2. PICK a \in Arenas : Fetch(head, a) /\ used' = [used EXCEPT ![head] = @ \cup {a}]
  BY DEF AllocateAvailable, AllocateArena
<1>3. inUse' = inUse
  BY DEF AllocateAvailable, chunkVars
<1>4. a \in free[head] \cup decommitted[head] /\ Status(head, a) = "free"
  BY <1>1, <1>2, StatusMeans DEF Fetch
<1>5. \A d \in Chunks, b \in Arenas :
        Status(d, b)' = IF d = head /\ b = a THEN "used" ELSE Status(d, b)
  BY <1>1, <1>2, <1>3, <1>4 DEF Fetch, Status, Inv, TypeOK
<1>6. Becomes(HeapArena, HeapArena', head, a, "used")
  BY <1>1, <1>5, HeapOne DEF Heap!States
<1>7. HeapArena[<<head, a>>] = "free"
  BY <1>1, <1>4, StatusOf
<1>8. <<head, a>> \in Heap!Slots
  BY <1>1 DEF Heap!Slots
<1>9. Heap!Allocate(<<head, a>>)
  BY <1>6, <1>7 DEF Heap!Allocate, Becomes
<1> QED
  BY <1>8, <1>9 DEF Heap!Next

\* A chunk is added when the list is empty: no arena of the heap is free.
LEMMA NoneFree ==
  ASSUME Inv, NEW c \in Chunks, PickChunk(c)
  PROVE  /\ c \notin inUse
         /\ \A s \in Heap!Slots : HeapArena[s] # "free"
         /\ \A b \in Arenas : HeapArena[<<c, b>>] = "none"
<1>1. c \notin inUse /\ Listed = {}
  BY HeadListed DEF PickChunk, Inv, Owners
<1>2. ASSUME NEW d \in Chunks, NEW b \in Arenas PROVE HeapArena[<<d, b>>] # "free"
  <2>1. CASE d \in inUse
    <3> DEFINE A == free[d] \cup decommitted[d]
    <3>1. A \in ArenaSets /\ Cardinality(A) = 0
      BY <1>1, <2>1 DEF Listed, HasAvailableArenas, Inv, ChunkAccounted, ArenaSets, TypeOK
    <3> HIDE DEF A
    <3>2. A = {}
      BY <3>1, ArenaBounds
    <3> QED
      BY <2>1, <3>2, StatusOf DEF A, Status
  <2>2. CASE d \notin inUse
    BY <2>2, StatusOf DEF Status
  <2> QED
    BY <2>1, <2>2
<1>3. \A s \in Heap!Slots : HeapArena[s] # "free"
  <2> SUFFICES ASSUME NEW s \in Chunks \X Arenas PROVE HeapArena[s] # "free"
    BY DEF Heap!Slots
  <2>1. s = <<s[1], s[2]>> /\ s[1] \in Chunks /\ s[2] \in Arenas
    OBVIOUS
  <2> QED
    BY <1>2, <2>1
<1>4. \A b \in Arenas : HeapArena[<<c, b>>] = "none"
  BY <1>1, StatusOf DEF Status
<1> QED
  BY <1>1, <1>3, <1>4

LEMMA AllocateNewChunkHeap ==
  ASSUME Inv, NEW c \in Chunks, AllocateNewChunk(c)
  PROVE  Heap!Next
<1>1. PickChunk(c) /\ inUse' = inUse \cup {c}
  BY DEF AllocateNewChunk, PickChunk
<1>2. PICK a \in IF FreeOf(c) # {} THEN FreeOf(c) ELSE Arenas :
       /\ used' = [used EXCEPT ![c] = {a}]
       /\ free' = [free EXCEPT ![c] = FreeOf(c) \ {a}]
       /\ decommitted' = [decommitted EXCEPT ![c] = DecommittedOf(c) \ {a}]
  BY DEF AllocateNewChunk
<1>3. a \in Arenas /\ FreeOf(c) \cup DecommittedOf(c) = Arenas
  BY <1>2, FreeOfChunk DEF ArenaSets
<1>4. c \notin inUse /\ (\A s \in Heap!Slots : HeapArena[s] # "free")
      /\ \A b \in Arenas : HeapArena[<<c, b>>] = "none"
  BY <1>1, NoneFree
<1> DEFINE V == [s \in Chunks \X Arenas |-> IF s = <<c, a>> THEN "used"
                                           ELSE IF s[1] = c THEN "free" ELSE HeapArena[s]]
<1>5. V \in Maps
  BY HeapType DEF Maps, Heap!States
<1>6. \A d \in Chunks, b \in Arenas :
        Status(d, b)' = IF d = c THEN IF b = a THEN "used" ELSE "free" ELSE Status(d, b)
  BY <1>1, <1>2, <1>3, <1>4 DEF Status, Inv, TypeOK
<1>7. \A d \in Chunks, b \in Arenas : Status(d, b)' = V[<<d, b>>]
  BY <1>6, StatusOf
<1> HIDE DEF V
<1>8. HeapArena' = V
  BY <1>5, <1>7, HeapStep
<1>9. Heap!AddChunk(c, a)
  BY <1>4, <1>8 DEF Heap!AddChunk, Heap!Slots, V
<1> QED
  BY <1>3, <1>9 DEF Heap!Next

LEMMA AllocateFailsHeap ==
  ASSUME Inv, NEW c \in Chunks, AllocateFails(c)
  PROVE  Heap!Next
<1>1. /\ PickChunk(c) /\ inUse' = inUse \cup {c} /\ used' = used
      /\ free' = [free EXCEPT ![c] = FreeOf(c)]
      /\ decommitted' = [decommitted EXCEPT ![c] = DecommittedOf(c)]
  BY DEF AllocateFails, PickChunk
<1>3. FreeOf(c) \cup DecommittedOf(c) = Arenas
  BY FreeOfChunk
<1>4. c \notin inUse /\ (\A s \in Heap!Slots : HeapArena[s] # "free")
      /\ \A b \in Arenas : HeapArena[<<c, b>>] = "none"
  BY <1>1, NoneFree
<1> DEFINE V == [s \in Chunks \X Arenas |-> IF s[1] = c THEN "free" ELSE HeapArena[s]]
<1>5. V \in Maps
  BY HeapType DEF Maps, Heap!States
<1>2. used[c] = {}
  BY <1>4 DEF Inv, Owners
<1>6. \A d \in Chunks, b \in Arenas :
        Status(d, b)' = IF d = c THEN "free" ELSE Status(d, b)
  BY <1>1, <1>2, <1>3, <1>4 DEF Status, Inv, TypeOK
<1>7. \A d \in Chunks, b \in Arenas : Status(d, b)' = V[<<d, b>>]
  BY <1>6, StatusOf
<1> HIDE DEF V
<1>8. HeapArena' = V
  BY <1>5, <1>7, HeapStep
<1>9. Heap!AddUnusedChunk(c)
  BY <1>4, <1>8 DEF Heap!AddUnusedChunk, Heap!Slots, V
<1> QED
  BY <1>9 DEF Heap!Next

LEMMA FetchForDecommitHeap == Inv /\ FetchForDecommit => Heap!Next
<1> SUFFICES ASSUME Inv, FetchForDecommit PROVE Heap!Next
  OBVIOUS
<1>1. pc = "scan" /\ chunk \in inUse /\ chunk \in Chunks /\ inUse' = inUse /\ used' = used
  BY DEF FetchForDecommit, Inv, Phases, Listed, TypeOK, chunkVars
<1>2. PICK a \in Arenas : Fetch(chunk, a)
  BY DEF FetchForDecommit
<1>3. a \in free[chunk] \cup decommitted[chunk] /\ a \notin used[chunk]
      /\ Status(chunk, a) = "free"
  <2>1. ChunkAccounted(chunk)
    BY <1>1 DEF Inv
  <2> QED
    BY <1>1, <1>2, <2>1, StatusMeans DEF Fetch, ChunkAccounted
<1>4. \A d \in Chunks, b \in Arenas :
        Status(d, b)' = IF d = chunk /\ b = a THEN "held" ELSE Status(d, b)
  BY <1>1, <1>2, <1>3 DEF Fetch, Status, Inv, TypeOK
<1>5. Becomes(HeapArena, HeapArena', chunk, a, "held")
  BY <1>1, <1>4, HeapOne DEF Heap!States
<1>6. \A s \in Heap!Slots : HeapArena[s] # "held"
  <2> SUFFICES ASSUME NEW s \in Chunks \X Arenas PROVE HeapArena[s] # "held"
    BY DEF Heap!Slots
  <2>1. s = <<s[1], s[2]>> /\ s[1] \in Chunks /\ s[2] \in Arenas
    OBVIOUS
  <2>2. Held(s[1]) = {}
    BY <1>1 DEF Held
  <2>3. Status(s[1], s[2]) # "held"
    <3>1. CASE s[1] \in inUse
      BY <2>1, <2>2, <3>1, StatusMeans
    <3>2. CASE s[1] \notin inUse
      BY <3>2 DEF Status
    <3> QED
      BY <3>1, <3>2
  <2> QED
    BY <2>1, <2>3, StatusOf
<1>7. HeapArena[<<chunk, a>>] = "free"
  BY <1>1, <1>3, StatusOf
<1>8. Heap!Hold(<<chunk, a>>)
  BY <1>5, <1>6, <1>7 DEF Heap!Hold, Becomes
<1>9. <<chunk, a>> \in Heap!Slots
  BY <1>1 DEF Heap!Slots
<1> QED
  BY <1>8, <1>9 DEF Heap!Next

LEMMA DecommittedHeap ==
  ASSUME Inv, NEW ok \in BOOLEAN, Decommitted(ok)
  PROVE  Heap!Next
<1>1. /\ pc = "decommit"
      /\ \/ /\ free' = [free EXCEPT ![chunk] = @ \cup {aheader}]
            /\ decommitted' = decommitted
         \/ /\ decommitted' = [decommitted EXCEPT ![chunk] = @ \cup {aheader}]
            /\ free' = free
      /\ used' = used /\ inUse' = inUse
  BY DEF Decommitted, chunkVars
<1>2. chunk \in inUse /\ chunk \in Chunks /\ aheader \in Arenas /\ Held(chunk) = {aheader}
  BY <1>1 DEF Inv, Phases, TypeOK, Held
<1>3. Status(chunk, aheader) = "held" /\ aheader \notin used[chunk]
  BY <1>2, StatusMeans
<1>4. free'[chunk] \cup decommitted'[chunk] = (free[chunk] \cup decommitted[chunk]) \cup {aheader}
      /\ \A d \in Chunks : d # chunk => free'[d] = free[d] /\ decommitted'[d] = decommitted[d]
  BY <1>1, <1>2 DEF Inv, TypeOK
<1>5. \A d \in Chunks, b \in Arenas :
        Status(d, b)' = IF d = chunk /\ b = aheader THEN "free" ELSE Status(d, b)
  <2> SUFFICES ASSUME NEW d \in Chunks, NEW b \in Arenas
               PROVE  Status(d, b)' = IF d = chunk /\ b = aheader THEN "free" ELSE Status(d, b)
    OBVIOUS
  <2>1. used' = used /\ inUse' = inUse
    BY <1>1
  <2>2. CASE d = chunk
    BY <1>2, <1>3, <1>4, <2>1, <2>2 DEF Status
  <2>3. CASE d # chunk
    BY <1>4, <2>1, <2>3 DEF Status
  <2> QED
    BY <2>2, <2>3
<1>6. Becomes(HeapArena, HeapArena', chunk, aheader, "free")
  BY <1>2, <1>5, HeapOne DEF Heap!States
<1>7. HeapArena[<<chunk, aheader>>] = "held"
  BY <1>2, <1>3, StatusOf
<1>8. Heap!Unhold(<<chunk, aheader>>)
  BY <1>6, <1>7 DEF Heap!Unhold, Becomes
<1>9. <<chunk, aheader>> \in Heap!Slots
  BY <1>2 DEF Heap!Slots
<1> QED
  BY <1>8, <1>9 DEF Heap!Next

LEMMA ReleaseArenaHeap ==
  ASSUME Inv, NEW c \in Chunks, NEW a \in Arenas, ReleaseArena(c, a)
  PROVE  Heap!Next
<1>1. /\ mainPc = "collect" \/ pc = "sweep"
      /\ <<c, a>> \in garbage
      /\ Changed(used, used', c, used[c] \ {a})
      /\ Changed(free, free', c, free[c] \cup {a})
      /\ numFree' = [numFree EXCEPT ![c] = @ + 1]
      /\ decommitted' = decommitted
      /\ inUse' = IF numFree'[c] # 1 /\ numFree'[c] = ArenasPerChunk THEN inUse \ {c} ELSE inUse
  BY DEF ReleaseArena, BecomesAvailable, Changed, chunkVars
<1>2. a \in used[c] /\ c \in inUse /\ pc \notin {"scan", "decommit"} /\ Held(c) = {}
  BY <1>1 DEF Inv, Owners, Phases, Held
<1>3. ChunkAccounted(c) /\ a \notin free[c] \cup decommitted[c]
  BY <1>2 DEF Inv, ChunkAccounted
<1> DEFINE A == free[c] \cup decommitted[c]
           B == A \cup {a}
<1>4. c \notin inUse' <=> B = Arenas
  <2>1. A \in ArenaSets /\ B \in ArenaSets /\ a \notin A /\ numFree[c] = Cardinality(A)
        /\ Arenas \in ArenaSets
    BY <1>3 DEF ArenaSets, ChunkAccounted, Inv, TypeOK
  <2>2. numFree'[c] = numFree[c] + 1
    BY <1>1 DEF Inv, TypeOK
  <2> HIDE DEF A
  <2>3. Cardinality(B) = Cardinality(A) + 1
    BY <2>1, ArenaCount
  <2> HIDE DEF B
  <2>4. Cardinality(B) = ArenasPerChunk <=> B = Arenas
    BY <2>1, ArenaBounds, Zenon DEF ArenasPerChunk
  <2>5. ArenasPerChunk > 1
    BY DEF ArenasPerChunk
  <2> QED
    BY <1>1, <1>2, <2>1, <2>2, <2>3, <2>4, <2>5
<1>5. B = Arenas <=> \A b \in Arenas : b # a => HeapArena[<<c, b>>] = "free"
  <2>1. \A b \in Arenas : HeapArena[<<c, b>>] = "free" <=> b \in A
    BY <1>2, StatusOf, StatusMeans
  <2>2. B \in SUBSET Arenas
    BY DEF Inv, TypeOK
  <2> HIDE DEF A
  <2> QED
    BY <2>1, <2>2
<1>6. HeapArena[<<c, a>>] = "used"
  BY <1>2, StatusOf, StatusMeans
<1>7. /\ used'[c] = used[c] \ {a} /\ free'[c] = free[c] \cup {a}
      /\ \A d \in Chunks : d # c => used'[d] = used[d] /\ free'[d] = free[d]
  BY <1>1 DEF Changed, Inv, TypeOK
<1>8. CASE B = Arenas
  <2> DEFINE V == [t \in Chunks \X Arenas |-> IF t[1] = c THEN "none" ELSE HeapArena[t]]
  <2>1. V \in Maps
    BY HeapType DEF Maps, Heap!States
  <2>2. c \notin inUse' /\ \A d \in Chunks : d # c => (d \in inUse' <=> d \in inUse)
    BY <1>1, <1>4, <1>8
  <2>3. \A d \in Chunks, b \in Arenas : Status(d, b)' = IF d = c THEN "none" ELSE Status(d, b)
    BY <1>1, <1>7, <2>2 DEF Status
  <2>4. \A d \in Chunks, b \in Arenas : Status(d, b)' = V[<<d, b>>]
    BY <2>3, StatusOf
  <2> HIDE DEF V
  <2>5. HeapArena' = V
    BY <2>1, <2>4, HeapStep
  <2> DEFINE s == <<c, a>>
  <2>6. Heap!Release(s)
    <3>1. s[1] = c /\ s[2] = a /\ HeapArena[s] = "used"
      BY <1>6
    <3>2. \A b \in Arenas : b # s[2] => HeapArena[<<s[1], b>>] = "free"
      BY <1>5, <1>8, <3>1
    <3>3. HeapArena' = [t \in Heap!Slots |-> IF t[1] = s[1] THEN "none" ELSE HeapArena[t]]
      BY <2>5, <3>1 DEF V, Heap!Slots
    <3> HIDE DEF s
    <3> QED
      BY <3>1, <3>2, <3>3 DEF Heap!Release
  <2>7. s \in Heap!Slots
    BY DEF Heap!Slots
  <2> HIDE DEF s
  <2> QED
    BY <2>6, <2>7 DEF Heap!Next
<1>9. CASE B # Arenas
  <2>1. inUse' = inUse
    BY <1>1, <1>2, <1>4, <1>9
  <2>2. \A d \in Chunks, b \in Arenas :
          Status(d, b)' = IF d = c /\ b = a THEN "free" ELSE Status(d, b)
    BY <1>1, <1>2, <1>7, <2>1 DEF Status
  <2>3. Becomes(HeapArena, HeapArena', c, a, "free")
    BY <2>2, HeapOne DEF Heap!States
  <2> DEFINE s == <<c, a>>
  <2>4. Heap!Release(s)
    <3>1. s[1] = c /\ s[2] = a /\ HeapArena[s] = "used"
      BY <1>6
    <3>2. ~\A b \in Arenas : b # s[2] => HeapArena[<<s[1], b>>] = "free"
      BY <1>5, <1>9, <3>1
    <3>3. HeapArena' = [HeapArena EXCEPT ![s] = "free"]
      BY <2>3 DEF Becomes
    <3> HIDE DEF s
    <3> QED
      BY <3>1, <3>2, <3>3 DEF Heap!Release
  <2>5. s \in Heap!Slots
    BY DEF Heap!Slots
  <2> HIDE DEF s
  <2> QED
    BY <2>4, <2>5 DEF Heap!Next
<1> QED
  BY <1>8, <1>9

\* The steps that the users of the heap do not see.
LEMMA HiddenSteps ==
  ASSUME Inv,
         \/ \E c \in Chunks : AddToSetFails(c)
         \/ BeginCollection \/ Mark \/ StartBackgroundSweep \/ EndSession
         \/ Expire \/ StartDecommit \/ NextChunk \/ UNCHANGED vars
  PROVE  HeapArena' = HeapArena
<1>1. inUse' = inUse /\ used' = used /\ free' = free /\ decommitted' = decommitted
  BY DEF AddToSetFails, BeginCollection, Mark, StartBackgroundSweep, EndSession, Expire,
         StartDecommit, NextChunk, vars, arenaVars, chunkVars
<1> QED
  BY <1>1, HeapStutter DEF Status

\* The chunk heap implements ArenaHeap: no arena is handed out twice, no chunk
\* is added while an arena is free, a chunk leaves with its last arena, and
\* the decommit loop gives back what it holds (allocateArena, PickChunk,
\* releaseArena, DecommitArenasFromAvailableList).
THEOREM HeapImplemented == Spec => ImplementsHeap
<1>1. Init => Heap!Init
  BY DEF Init, Heap!Init, Heap!Slots, HeapArena
<1>2. Inv /\ [Next]_vars => [Heap!Next]_HeapArena
  <2> SUFFICES ASSUME Inv, [Next]_vars PROVE Heap!Next \/ HeapArena' = HeapArena
    OBVIOUS
  <2>1. CASE Main
    BY <2>1, AllocateAvailableHeap, AllocateNewChunkHeap, AllocateFailsHeap, HiddenSteps DEF Main
  <2>2. CASE Sweep
    BY <2>2, ReleaseArenaHeap DEF Sweep
  <2>3. CASE Helper
    BY <2>3, FetchForDecommitHeap, DecommittedHeap, HiddenSteps DEF Helper
  <2>4. CASE UNCHANGED vars
    BY <2>4, HiddenSteps
  <2> QED
    BY <2>1, <2>2, <2>3, <2>4 DEF Next
<1> QED
  BY <1>1, <1>2, Invariance, PTL DEF Spec, ImplementsHeap, Heap!Spec
=============================================================================
