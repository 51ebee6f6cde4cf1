--------------------------- MODULE IonScriptsProofs ---------------------------
(* Proofs about IonScripts, for any number of scripts and addresses and a    *)
(* native stack of any depth: reference counts are exact, no frame that runs  *)
(* or is unwound is one of an IonScript that has been destroyed, and the      *)
(* frames that were patched are those of invalidated code.                   *)
EXTENDS IonScripts, FiniteSetTheorems, SequenceTheorems, TLAPS

\* What the theorems assume, besides the types of the constants: where it does
\* not hold the code breaks the properties.
Sound == ~RejectedFrames /\ ~TwoForms /\ "generator" \notin LiveIterators

-----------------------------------------------------------------------------
(* The inductive invariant.                                                 *)

Entries == [kind : {"entry"}, comp : Compartments]
Frames  == [kind : {"js"}, script : Scripts, ion : Ions, patched : BOOLEAN]
Exits   == [kind : {"exit"}, adi : Ions \cup {NoIon}]
Elements == Entries \cup Frames \cup Exits

HeapTyped == heap \in [DOMAIN heap -> Nat] /\ DOMAIN heap \subseteq Ions

Typed ==
    /\ ion \in [Scripts -> Ions \cup {NoIon, Disabled}]
    /\ HeapTyped
    /\ stack \in Seq(Elements) /\ Len(stack) <= MaxStack
    /\ entering \in [script : Scripts \cup {NoIon}, fresh : BOOLEAN]
    /\ unwind \in 0..Len(stack)
    /\ exception \in {"none", "pending", "uncatchable"}
    /\ override \in BOOLEAN

\* Control is in one place.
OneRuns == (entering.fresh => ~NotEntering) /\ (~NotEntering => unwind = 0)

\* The stack is made of activations: the first element is an entry, and below
\* every frame of Ion code is the entry of its activation, which is one of the
\* compartment of its script.
Activations ==
    /\ stack # <<>> => stack[1].kind = "entry"
    /\ \A k \in JSFrames : \E j \in 1..k :
          /\ stack[j].kind = "entry" /\ stack[j].comp = CompartmentOf[stack[k].script]
          /\ \A m \in (j + 1)..k : stack[m].kind # "entry"

\* C++ code that watches for the invalidation of its caller has one.
CallersKnown ==
    \A k \in DOMAIN stack :
        stack[k].kind = "exit" /\ stack[k].adi # NoIon =>
            k > 1 /\ stack[k - 1].kind = "js" /\ stack[k - 1].ion = stack[k].adi

\* An IonScript belongs to one script, and to no frame of another one.
IonsOwned ==
    /\ \A s \in Scripts : HasIonScript(s) => ion[s] \in DOMAIN heap
    /\ \A s, t \in Scripts : HasIonScript(s) /\ ion[s] = ion[t] => s = t
    /\ \A k \in Standing : \A s \in Scripts :
          ion[s] = stack[k].ion => s = stack[k].script

StandingHeld == \A k \in Standing : stack[k].ion \in DOMAIN heap

\* The part of the invariant that relates scripts, IonScripts and frames.
Core == IonsOwned /\ StandingHeld /\ RefcountExact /\ NothingLeaks /\ InvalidatedIsPatched

IndInv == Typed /\ Core /\ OneRuns /\ Activations /\ CallersKnown /\ OverrideIsTaken

-----------------------------------------------------------------------------
(* Facts about the stack.                                                   *)

\* The frames that hold a reference to IonScript i.
Holders(i) == {k \in Standing : stack[k].patched /\ stack[k].ion = i}

\* The elements of the stack have the fields of their kind.
LEMMA StackFacts ==
  ASSUME Typed
  PROVE  /\ Len(stack) \in Nat /\ DOMAIN stack = 1..Len(stack)
         /\ \A k \in 1..Len(stack) :
               /\ stack[k] \in Elements
               /\ stack[k].kind \in {"entry", "js", "exit"}
               /\ stack[k].kind = "js" => stack[k] \in Frames
               /\ stack[k].kind = "exit" => stack[k] \in Exits
               /\ stack[k].kind = "entry" => stack[k] \in Entries
         /\ JSFrames \subseteq 1..Len(stack) /\ Standing \subseteq JSFrames
         /\ \A k \in JSFrames : stack[k] \in Frames
<1>1. Len(stack) \in Nat /\ DOMAIN stack = 1..Len(stack)
  BY LenProperties DEF Typed
<1>2. \A k \in 1..Len(stack) : stack[k] \in Elements
  BY ElementOfSeq DEF Typed
<1> QED
  BY <1>1, <1>2 DEF JSFrames, Standing, Elements, Entries, Frames, Exits

\* Sets of frames are finite.
LEMMA FramesFinite ==
  ASSUME Typed
  PROVE  \A F \in SUBSET JSFrames : IsFiniteSet(F) /\ Cardinality(F) \in 0..Len(stack)
<1> SUFFICES ASSUME NEW F \in SUBSET JSFrames
             PROVE  IsFiniteSet(F) /\ Cardinality(F) \in 0..Len(stack)
  OBVIOUS
<1>1. Len(stack) \in Nat /\ F \in SUBSET (1..Len(stack))
  BY StackFacts
<1>2. IsFiniteSet(1..Len(stack)) /\ Cardinality(1..Len(stack)) = Len(stack)
  <2>1. \A a, b \in Int : IsFiniteSet(a..b)
                          /\ Cardinality(a..b) = IF a > b THEN 0 ELSE b - a + 1
    BY FS_Interval, Zenon
  <2>2. 1 \in Int /\ Len(stack) \in Int
    BY <1>1
  <2>3. IsFiniteSet(1..Len(stack))
        /\ Cardinality(1..Len(stack)) = IF 1 > Len(stack) THEN 0 ELSE Len(stack) - 1 + 1
    BY <2>1, <2>2, Zenon
  <2> QED
    BY <1>1, <2>3
<1>3. IsFiniteSet(F) /\ Cardinality(F) <= Len(stack)
  BY <1>1, <1>2, FS_Subset
<1>4. Cardinality(F) \in Nat
  BY <1>3, FS_CardinalityType
<1> QED
  BY <1>1, <1>3, <1>4

\* The frame of a script's current IonScript is not patched, and the others are;
\* so nobody holds a reference to a current IonScript.
LEMMA CurrentFacts ==
  ASSUME Typed, Core
  PROVE  /\ \A k \in Standing : ~stack[k].patched <=>
                HasIonScript(stack[k].script) /\ ion[stack[k].script] = stack[k].ion
         /\ \A k \in Standing : stack[k].patched \in BOOLEAN
         /\ \A s \in Scripts : HasIonScript(s) => Holders(ion[s]) = {} /\ heap[ion[s]] = 0
<1>1. \A k \in Standing : stack[k].patched \in BOOLEAN
  BY StackFacts DEF Frames
<1>2. \A k \in Standing : ~stack[k].patched <=>
          HasIonScript(stack[k].script) /\ ion[stack[k].script] = stack[k].ion
  BY <1>1 DEF Core, InvalidatedIsPatched, CheckInvalidation, HasIonScript
<1>3. ASSUME NEW s \in Scripts, HasIonScript(s)
      PROVE  Holders(ion[s]) = {} /\ heap[ion[s]] = 0
  <2>1. Holders(ion[s]) = {}
    BY <1>1, <1>2, <1>3 DEF Holders, Core, IonsOwned
  <2>2. ion[s] \in DOMAIN heap
    BY <1>3 DEF Core, IonsOwned
  <2>3. heap[ion[s]] = Cardinality(Holders(ion[s]))
    BY <2>2 DEF Core, RefcountExact, Holders
  <2> QED
    BY <2>1, <2>3, FS_EmptySet
<1> QED
  BY <1>1, <1>2, <1>3

-----------------------------------------------------------------------------
(* What the steps do to the frames.                                         *)

\* Nothing.
LEMMA KeepStep ==
  ASSUME Typed, Core, UNCHANGED <<ion, heap>>,
         Standing' = Standing, \A k \in Standing : stack'[k] = stack[k]
  PROVE  Core'
<1>1. IonsOwned'
  BY DEF Core, IonsOwned, HasIonScript
<1>2. StandingHeld'
  BY DEF Core, StandingHeld
<1>3. InvalidatedIsPatched'
  BY DEF Core, InvalidatedIsPatched, CheckInvalidation, HasIonScript
<1>4. ASSUME NEW i
      PROVE  {k \in Standing : stack[k].patched /\ stack[k].ion = i}
                = {k \in Standing' : stack'[k].patched /\ stack'[k].ion = i}
  OBVIOUS
<1>5. RefcountExact'
  BY <1>4, Zenon DEF Core, RefcountExact
<1>6. NothingLeaks'
  BY DEF Core, NothingLeaks
<1> QED
  BY <1>1, <1>2, <1>3, <1>5, <1>6 DEF Core

\* A script is called: its current IonScript gets another frame.
LEMMA PushStep ==
  ASSUME Typed, Core, UNCHANGED <<ion, heap>>,
         NEW s \in Scripts, HasIonScript(s), NEW n,
         Standing' = Standing \cup {n}, n \notin Standing,
         stack'[n] = JSFrame(s, ion[s]), \A k \in Standing : stack'[k] = stack[k]
  PROVE  Core'
<1>0. /\ ~stack'[n].patched /\ stack'[n].script = s /\ stack'[n].ion = ion[s]
      /\ ion[s] \in DOMAIN heap
  BY DEF JSFrame, Core, IonsOwned
<1>1. IonsOwned'
  BY <1>0 DEF Core, IonsOwned, HasIonScript
<1>2. StandingHeld'
  BY <1>0 DEF Core, StandingHeld
<1>3. InvalidatedIsPatched'
  <2>1. CheckInvalidation(stack[n])' = FALSE
    BY <1>0 DEF CheckInvalidation, HasIonScript
  <2>2. stack'[n].patched = FALSE
    BY DEF JSFrame
  <2> QED
    BY <2>1, <2>2 DEF Core, InvalidatedIsPatched, CheckInvalidation, HasIonScript
<1>4. ASSUME NEW i
      PROVE  {k \in Standing : stack[k].patched /\ stack[k].ion = i}
                = {k \in Standing' : stack'[k].patched /\ stack'[k].ion = i}
  BY <1>0
<1>5. RefcountExact'
  BY <1>4, Zenon DEF Core, RefcountExact
<1>6. NothingLeaks'
  BY <1>0 DEF Core, NothingLeaks
<1> QED
  BY <1>1, <1>2, <1>3, <1>5, <1>6 DEF Core

\* An IonScript is made for a script that has none.
LEMMA CompileStep ==
  ASSUME Typed, Core, ConstantsAssumption, UNCHANGED Standing,
         \A k \in Standing : stack'[k] = stack[k],
         NEW s \in Scripts, ion[s] = NoIon, NEW i \in Ions \ DOMAIN heap,
         ion' = [ion EXCEPT ![s] = i],
         heap' = [j \in DOMAIN heap \cup {i} |-> IF j = i THEN 0 ELSE heap[j]]
  PROVE  Core' /\ HeapTyped'
<1>0. /\ \A k \in Standing : stack[k].ion # i /\ stack[k].ion \in DOMAIN heap
      /\ \A t \in Scripts : ion'[t] = IF t = s THEN i ELSE ion[t]
      /\ \A t \in Scripts : HasIonScript(t) => ion[t] # i
      /\ ~HasIonScript(s)
  BY DEF Core, StandingHeld, IonsOwned, Typed, HeapTyped, HasIonScript, ConstantsAssumption
<1>1. IonsOwned'
  BY <1>0 DEF Core, IonsOwned, HasIonScript
<1>2. StandingHeld'
  BY <1>0 DEF Core, StandingHeld
<1>3. InvalidatedIsPatched'
  <2> SUFFICES ASSUME NEW k \in Standing
               PROVE  CheckInvalidation(stack[k])' = CheckInvalidation(stack[k])
    BY DEF Core, InvalidatedIsPatched, CheckInvalidation, HasIonScript
  <2>1. stack[k].script \in Scripts
    BY StackFacts DEF Frames
  <2> QED
    BY <2>1, <1>0 DEF CheckInvalidation, HasIonScript
<1>4. ASSUME NEW j
      PROVE  {k \in Standing : stack[k].patched /\ stack[k].ion = j}
                = {k \in Standing' : stack'[k].patched /\ stack'[k].ion = j}
  OBVIOUS
<1>5. RefcountExact'
  <2>1. {k \in Standing : stack[k].patched /\ stack[k].ion = i} = {}
    BY <1>0
  <2>2. {k \in Standing' : stack'[k].patched /\ stack'[k].ion = i} = {}
    BY <2>1, <1>4, Zenon
  <2>3. heap'[i] = Cardinality({k \in Standing' : stack'[k].patched /\ stack'[k].ion = i})
    BY <2>2, FS_EmptySet
  <2>4. ASSUME NEW j \in DOMAIN heap
        PROVE  heap'[j] = Cardinality({k \in Standing' : stack'[k].patched
                                                        /\ stack'[k].ion = j})
    <3>1. heap'[j] = heap[j]
      OBVIOUS
    <3> QED
      BY <3>1, <1>4, Zenon DEF Core, RefcountExact
  <2> QED
    BY <2>3, <2>4 DEF RefcountExact
<1>6. NothingLeaks'
  <2>1. \A j \in DOMAIN heap, t \in Scripts : ion[t] = j => ion'[t] = j
    BY <1>0 DEF Typed, HeapTyped, ConstantsAssumption
  <2> QED
    BY <1>0, <2>1 DEF Core, NothingLeaks
<1>7. HeapTyped'
  BY DEF Typed, HeapTyped
<1> QED
  BY <1>1, <1>2, <1>3, <1>5, <1>6, <1>7 DEF Core

\* A frame is left, by a return, a bailout or the exception handler: if it is
\* patched, it gives its reference back, and the last one destroys the IonScript.
LEMMA LeaveStep ==
  ASSUME Typed, Core, UNCHANGED ion, NEW n \in Standing,
         Standing' = Standing \ {n}, \A k \in Standing' : stack'[k] = stack[k],
         heap' = IF stack[n].patched THEN Decref(heap, stack[n].ion) ELSE heap
  PROVE  Core' /\ HeapTyped'
<1> DEFINE i == stack[n].ion
<1>0. stack[n].patched \in BOOLEAN
  BY CurrentFacts
<1>1. CASE ~stack[n].patched
  <2>1. ASSUME NEW j
        PROVE  {k \in Standing : stack[k].patched /\ stack[k].ion = j}
                  = {k \in Standing' : stack'[k].patched /\ stack'[k].ion = j}
    BY <1>1
  <2>2. heap' = heap
    BY <1>1
  <2>3. RefcountExact'
    BY <2>1, <2>2, Zenon DEF Core, RefcountExact
  <2>4. IonsOwned' /\ StandingHeld'
    BY <2>2 DEF Core, IonsOwned, StandingHeld, HasIonScript
  <2>5. InvalidatedIsPatched'
    BY DEF Core, InvalidatedIsPatched, CheckInvalidation, HasIonScript
  <2>6. NothingLeaks'
    BY <1>1, <2>2 DEF Core, NothingLeaks
  <2>7. HeapTyped'
    BY <2>2 DEF Typed, HeapTyped
  <2> QED
    BY <2>3, <2>4, <2>5, <2>6, <2>7 DEF Core
<1>2. CASE stack[n].patched
  <2>1. i \in DOMAIN heap /\ heap' = Decref(heap, i)
    BY <1>2 DEF Core, StandingHeld
  <2>2. \A s \in Scripts : ion[s] # i
    <3> SUFFICES ASSUME NEW s \in Scripts, ion[s] = i PROVE FALSE
      OBVIOUS
    <3>1. stack[n].script = s /\ i \in Ions
      BY StackFacts DEF Core, IonsOwned, Frames
    <3> QED
      BY <1>2, <3>1, CurrentFacts DEF HasIonScript
  <2>3. \A j : Holders(j) \in SUBSET JSFrames
    BY StackFacts DEF Holders
  <2>4. IsFiniteSet(Holders(i)) /\ Cardinality(Holders(i)) \in Nat
    BY <2>3, FramesFinite, StackFacts
  <2>5. n \in Holders(i) /\ heap[i] = Cardinality(Holders(i))
    BY <1>2, <2>1 DEF Holders, Core, RefcountExact
  <2>6. Cardinality(Holders(i) \ {n}) = heap[i] - 1 /\ IsFiniteSet(Holders(i) \ {n})
    BY <2>4, <2>5, FS_RemoveElement
  <2>7. heap[i] \in Nat /\ (heap[i] = 1 <=> Holders(i) = {n})
    <3>1. Cardinality(Holders(i) \ {n}) = 0 <=> Holders(i) \ {n} = {}
      BY <2>6, FS_EmptySet
    <3> QED
      BY <2>4, <2>5, <2>6, <3>1
  <2>8. /\ {k \in Standing' : stack'[k].patched /\ stack'[k].ion = i} = Holders(i) \ {n}
        /\ \A j : j # i =>
              {k \in Standing' : stack'[k].patched /\ stack'[k].ion = j} = Holders(j)
    BY DEF Holders
  <2>9. /\ DOMAIN heap' = IF heap[i] = 1 THEN DOMAIN heap \ {i} ELSE DOMAIN heap
        /\ \A j \in DOMAIN heap' : heap'[j] = IF j = i THEN heap[i] - 1 ELSE heap[j]
    BY <2>1 DEF Decref, Restrict
  <2>10. RefcountExact'
    <3> SUFFICES ASSUME NEW j \in DOMAIN heap'
                 PROVE  heap'[j] = Cardinality({k \in Standing' : stack'[k].patched
                                                                 /\ stack'[k].ion = j})
      BY DEF RefcountExact
    <3>1. CASE j = i
      BY <3>1, <2>6, <2>8, <2>9
    <3>2. CASE j # i
      <4>1. j \in DOMAIN heap /\ heap'[j] = heap[j]
        BY <2>9, <3>2
      <4>2. heap[j] = Cardinality(Holders(j))
        BY <4>1 DEF Core, RefcountExact, Holders
      <4> QED
        BY <4>1, <4>2, <3>2, <2>8, Zenon
    <3> QED
      BY <3>1, <3>2
  <2>11. IonsOwned'
    BY <2>2, <2>9 DEF Core, IonsOwned, HasIonScript
  <2>12. StandingHeld'
    <3> SUFFICES ASSUME NEW k \in Standing', stack[k].ion = i
                 PROVE  heap[i] # 1
      BY <2>9 DEF Core, StandingHeld
    <3>1. k \in Standing /\ k # n /\ stack[k].script \in Scripts
      BY StackFacts DEF Frames
    <3>2. stack[k].patched
      BY <2>2, <3>1, CurrentFacts
    <3> QED
      BY <2>7, <3>1, <3>2 DEF Holders
  <2>13. InvalidatedIsPatched'
    BY DEF Core, InvalidatedIsPatched, CheckInvalidation, HasIonScript
  <2>14. NothingLeaks'
    <3> SUFFICES ASSUME NEW j \in DOMAIN heap'
                 PROVE  \/ \E s \in Scripts : ion[s] = j
                        \/ \E k \in Standing' : stack'[k].patched /\ stack'[k].ion = j
      BY DEF NothingLeaks
    <3>1. CASE j = i
      <4>1. heap[i] # 1
        BY <2>9, <3>1
      <4>2. PICK k \in Holders(i) : k # n
        BY <4>1, <2>5, <2>7
      <4> QED
        BY <3>1, <4>2 DEF Holders
    <3>2. CASE j # i
      BY <3>2, <2>9 DEF Core, NothingLeaks
    <3> QED
      BY <3>1, <3>2
  <2>15. HeapTyped'
    <3>1. heap[i] - 1 \in Nat
      BY <2>6, FS_CardinalityType
    <3> QED
      BY <2>1, <3>1 DEF Typed, HeapTyped, Decref, Restrict
  <2> QED
    BY <2>10, <2>11, <2>12, <2>13, <2>14, <2>15 DEF Core
<1> QED
  BY <1>0, <1>1, <1>2

-----------------------------------------------------------------------------
(* Invalidation: the scripts S lose their IonScripts, their frames are       *)
(* patched and take references, and IonScripts without any are destroyed.    *)

\* The frames of the current IonScripts of S.
FramesToPatch(S) == {k \in Standing : stack[k].script \in S /\ ~stack[k].patched}

\* The references with those of the frames.
Counts(S) ==
  [i \in DOMAIN heap |->
      heap[i] + Cardinality({k \in FramesToPatch(S) : stack[k].ion = i})]

\* The IonScripts of S of which no frame is on the stack.
Idle(S) == {i \in DOMAIN heap : (\E s \in S : ion[s] = i) /\ Counts(S)[i] = 0}

LEMMA DropStep ==
  ASSUME Typed, Core, ConstantsAssumption,
         NEW S \in SUBSET Scripts, \A s \in S : HasIonScript(s),
         unwind = 0, unwind' = 0,
         stack' = Patch(FramesToPatch(S)),
         heap' = Restrict(Counts(S), DOMAIN Counts(S) \ Idle(S)),
         ion' = [s \in Scripts |-> IF s \in S THEN NoIon ELSE ion[s]]
  PROVE  Core' /\ HeapTyped'
<1> DEFINE frames == FramesToPatch(S)
<1>1. /\ DOMAIN stack' = DOMAIN stack /\ frames \subseteq JSFrames
      /\ \A k \in DOMAIN stack :
            /\ stack'[k].kind = stack[k].kind
            /\ stack[k].kind = "js" =>
                  /\ stack'[k].script = stack[k].script /\ stack'[k].ion = stack[k].ion
                  /\ stack'[k].patched <=> stack[k].patched \/ k \in frames
                  /\ stack'[k].patched \in BOOLEAN
  BY StackFacts DEF Patch, FramesToPatch, Frames, Entries, Exits
<1>2. Standing = JSFrames /\ JSFrames' = JSFrames /\ Standing' = JSFrames
  BY <1>1 DEF Standing, JSFrames
<1>3. DOMAIN heap' = DOMAIN heap \ Idle(S)
      /\ \A i \in DOMAIN heap' : heap'[i] = Counts(S)[i]
  BY DEF Restrict, Counts
<1>4. \A s \in Scripts : ion'[s] = IF s \in S THEN NoIon ELSE ion[s]
  OBVIOUS
<1>5. \A k \in JSFrames : stack[k].script \in Scripts /\ stack[k].ion \in Ions
  BY StackFacts DEF Frames
<1>6. ASSUME NEW i
      PROVE  {k \in Standing' : stack'[k].patched /\ stack'[k].ion = i}
                = Holders(i) \cup {k \in frames : stack[k].ion = i}
  BY <1>1, <1>2 DEF Holders, JSFrames
<1>7. RefcountExact'
  <2> SUFFICES ASSUME NEW i \in DOMAIN heap'
               PROVE  heap'[i] = Cardinality({k \in Standing' : stack'[k].patched
                                                               /\ stack'[k].ion = i})
    BY DEF RefcountExact
  <2> DEFINE T == {k \in frames : stack[k].ion = i}
  <2>1. T \in SUBSET JSFrames /\ Holders(i) \in SUBSET JSFrames
    BY <1>1, <1>2 DEF Holders
  <2>2. /\ IsFiniteSet(T) /\ IsFiniteSet(Holders(i))
        /\ Cardinality(T) \in Nat /\ Cardinality(Holders(i)) \in Nat
    BY <2>1, FramesFinite, StackFacts
  <2>3. Holders(i) \cap T = {}
    BY DEF Holders, FramesToPatch
  <2>4. Cardinality(Holders(i) \cap T) = 0
    BY <2>3, FS_EmptySet
  <2>5. Cardinality(Holders(i) \cup T) = Cardinality(Holders(i)) + Cardinality(T)
    <3>1. \A U, V : IsFiniteSet(U) /\ IsFiniteSet(V) =>
              Cardinality(U \cup V) = Cardinality(U) + Cardinality(V) - Cardinality(U \cap V)
      BY FS_Union, Zenon
    <3>2. Cardinality(Holders(i) \cup T)
             = Cardinality(Holders(i)) + Cardinality(T) - Cardinality(Holders(i) \cap T)
      BY <2>2, <3>1, Zenon
    <3> HIDE DEF T
    <3> QED
      BY <3>2, <2>2, <2>4
  <2>6. i \in DOMAIN heap /\ heap[i] = Cardinality(Holders(i))
    BY <1>3 DEF Core, RefcountExact, Holders
  <2>7. heap'[i] = heap[i] + Cardinality(T)
    BY <1>3, <2>6 DEF Counts
  <2> QED
    BY <2>5, <2>6, <2>7, <1>6
<1>8. InvalidatedIsPatched'
  <2> SUFFICES ASSUME NEW k \in JSFrames
               PROVE  CheckInvalidation(stack[k])' = stack'[k].patched
    BY <1>2 DEF InvalidatedIsPatched
  <2>1. /\ k \in Standing /\ stack[k].script \in Scripts /\ stack[k].ion \in Ions
        /\ stack'[k].script = stack[k].script /\ stack'[k].ion = stack[k].ion
        /\ stack'[k].patched <=> stack[k].patched \/ k \in frames
        /\ stack'[k].patched \in BOOLEAN
    BY <1>1, <1>2, <1>5 DEF JSFrames
  <2>2. CASE stack[k].script \in S
    <3>1. stack'[k].patched
      BY <2>1, <2>2 DEF FramesToPatch
    <3>2. CheckInvalidation(stack[k])'
      BY <2>1, <2>2, <1>4 DEF CheckInvalidation, HasIonScript, ConstantsAssumption
    <3> QED
      BY <3>1, <3>2, <2>1 DEF CheckInvalidation
  <2>3. CASE stack[k].script \notin S
    <3>1. stack'[k].patched <=> stack[k].patched
      BY <2>1, <2>3 DEF FramesToPatch
    <3>2. CheckInvalidation(stack[k])' = CheckInvalidation(stack[k])
      BY <2>1, <2>3, <1>4 DEF CheckInvalidation, HasIonScript
    <3> QED
      BY <3>1, <3>2, <2>1, CurrentFacts DEF Core, InvalidatedIsPatched
  <2> QED
    BY <2>2, <2>3
<1>9. IonsOwned'
  <2>1. ASSUME NEW s \in Scripts, HasIonScript(s)'
        PROVE  s \notin S /\ ion'[s] = ion[s] /\ HasIonScript(s) /\ ion'[s] \in DOMAIN heap'
    <3>1. s \notin S /\ ion'[s] = ion[s] /\ HasIonScript(s)
      BY <2>1, <1>4 DEF HasIonScript, ConstantsAssumption
    <3>2. ion[s] \in DOMAIN heap /\ ion[s] \notin Idle(S)
      BY <3>1 DEF Core, IonsOwned, Idle
    <3> QED
      BY <3>1, <3>2, <1>3
  <2>2. ASSUME NEW k \in JSFrames, NEW s \in Scripts, ion'[s] = stack'[k].ion
        PROVE  s = stack'[k].script
    <3>1. stack'[k].ion = stack[k].ion /\ stack'[k].script = stack[k].script
          /\ stack[k].ion \in Ions /\ k \in Standing
      BY <1>1, <1>2, <1>5 DEF JSFrames
    <3>2. HasIonScript(s)'
      BY <2>2, <3>1 DEF HasIonScript
    <3> QED
      BY <2>1, <2>2, <3>1, <3>2 DEF Core, IonsOwned
  <2>3. ASSUME NEW s \in Scripts, NEW t \in Scripts, HasIonScript(s)', ion'[s] = ion'[t]
        PROVE  s = t
    <3>1. HasIonScript(t)'
      BY <2>3 DEF HasIonScript
    <3> QED
      BY <2>1, <2>3, <3>1 DEF Core, IonsOwned
  <2> QED
    BY <2>1, <2>2, <2>3, <1>2 DEF IonsOwned
<1>10. StandingHeld'
  <2> SUFFICES ASSUME NEW k \in JSFrames PROVE stack[k].ion \in DOMAIN heap'
    BY <1>1, <1>2 DEF StandingHeld, JSFrames
  <2> SUFFICES ASSUME stack[k].ion \in Idle(S) PROVE FALSE
    BY <1>2, <1>3 DEF Core, StandingHeld
  <2> DEFINE i == stack[k].ion
             T == {m \in frames : stack[m].ion = i}
  <2>1. PICK s \in S : ion[s] = i
    BY DEF Idle
  <2>2. stack[k].script = s
    BY <2>1, <1>2 DEF Core, IonsOwned
  <2>3. k \in T
    BY <2>1, <2>2, <1>2, CurrentFacts DEF FramesToPatch
  <2>4. i \in DOMAIN heap /\ heap[i] + Cardinality(T) = 0
    BY DEF Idle, Counts
  <2>5. T \in SUBSET JSFrames
    BY <1>1
  <2>6. IsFiniteSet(T) /\ Cardinality(T) \in Nat
    BY <2>5, FramesFinite, StackFacts
  <2>7. Cardinality(T) # 0
    BY <2>3, <2>6, FS_EmptySet
  <2>8. heap[i] \in Nat
    BY <2>4 DEF Typed, HeapTyped
  <2> QED
    BY <2>4, <2>6, <2>7, <2>8
<1>11. NothingLeaks'
  <2> SUFFICES ASSUME NEW i \in DOMAIN heap'
               PROVE  \/ \E s \in Scripts : ion'[s] = i
                      \/ \E k \in Standing' : stack'[k].patched /\ stack'[k].ion = i
    BY DEF NothingLeaks
  <2>1. i \in DOMAIN heap /\ i \notin Idle(S)
    BY <1>3
  <2>2. CASE \E k \in Standing : stack[k].patched /\ stack[k].ion = i
    BY <2>2, <1>1, <1>2 DEF JSFrames
  <2>3. CASE \E s \in Scripts \ S : ion[s] = i
    BY <2>3, <1>4
  <2>4. CASE \E s \in S : ion[s] = i
    <3> DEFINE T == {k \in frames : stack[k].ion = i}
    <3>1. PICK s \in S : ion[s] = i
      BY <2>4
    <3>2. heap[i] = 0
      BY <3>1, CurrentFacts
    <3>3. heap[i] + Cardinality(T) # 0
      BY <2>1, <2>4 DEF Idle, Counts
    <3>4. T # {}
      <4>1. T = {} => Cardinality(T) = 0
        BY FS_EmptySet, Zenon
      <4> HIDE DEF T
      <4> QED
        BY <4>1, <3>2, <3>3
    <3>5. PICK k \in frames : stack[k].ion = i
      BY <3>4
    <3> QED
      BY <3>5, <1>1, <1>2 DEF JSFrames
  <2> QED
    BY <2>1, <2>2, <2>3, <2>4 DEF Core, NothingLeaks
<1>12. HeapTyped'
  <2>1. ASSUME NEW i \in DOMAIN heap PROVE Counts(S)[i] \in Nat
    <3> DEFINE T == {m \in frames : stack[m].ion = i}
    <3>1. T \in SUBSET JSFrames
      BY <1>1
    <3>2. Cardinality(T) \in Nat
      BY <3>1, FramesFinite, StackFacts
    <3> QED
      BY <3>2 DEF Counts, Typed, HeapTyped
  <2> QED
    BY <2>1, <1>3 DEF Typed, HeapTyped, Restrict, Counts
<1> QED
  BY <1>7, <1>8, <1>9, <1>10, <1>11, <1>12 DEF Core

-----------------------------------------------------------------------------
(* What the steps do to the rest of the stack.                              *)

StackTyped == stack \in Seq(Elements) /\ Len(stack) <= MaxStack

\* Nothing.
LEMMA StackKept ==
  ASSUME IndInv, UNCHANGED stack
  PROVE  StackTyped' /\ Activations' /\ CallersKnown' /\ JSFrames' = JSFrames
BY DEF IndInv, Typed, StackTyped, Activations, CallersKnown, JSFrames

\* The innermost elements are popped.
LEMMA StackPrefix ==
  ASSUME IndInv, ConstantsAssumption, NEW m \in 0..Len(stack), stack' = SubSeq(stack, 1, m)
  PROVE  /\ StackTyped' /\ Activations' /\ CallersKnown'
         /\ Len(stack') = m /\ \A k \in 1..m : stack'[k] = stack[k]
         /\ JSFrames' = {k \in JSFrames : k <= m}
<1>1. /\ Len(stack) \in Nat /\ DOMAIN stack = 1..Len(stack) /\ Len(stack) <= MaxStack
      /\ \A k \in 1..Len(stack) : stack[k] \in Elements
  BY StackFacts DEF IndInv, Typed
<1>2. /\ stack' \in Seq(Elements) /\ Len(stack') = m
      /\ \A k \in 1..m : stack'[k] = stack[k]
  <2>1. \A k \in 1..m : stack[k] \in Elements
    BY <1>1
  <2>2. /\ SubSeq(stack, 1, m) \in Seq(Elements)
        /\ Len(SubSeq(stack, 1, m)) = IF 1 <= m THEN m - 1 + 1 ELSE 0
        /\ \A k \in 1..(m - 1 + 1) : SubSeq(stack, 1, m)[k] = stack[1 + k - 1]
    BY <2>1, SubSeqProperties, 1 \in Int, m \in Int
  <2> QED
    BY <2>2
<1>3. DOMAIN stack' = 1..m
  BY <1>2, LenProperties
<1>4. StackTyped'
  BY <1>1, <1>2 DEF StackTyped, ConstantsAssumption
<1>5. JSFrames' = {k \in JSFrames : k <= m}
  BY <1>1, <1>2, <1>3 DEF JSFrames
<1>6. Activations'
  <2>1. stack' # <<>> => stack'[1].kind = "entry"
    <3> SUFFICES ASSUME stack' # <<>> PROVE stack'[1].kind = "entry"
      OBVIOUS
    <3>1. m # 0
      BY <1>2, EmptySeq
    <3>2. stack # <<>> /\ 1 \in 1..m
      BY <3>1, EmptySeq
    <3> QED
      BY <3>2, <1>2 DEF IndInv, Activations
  <2>2. ASSUME NEW k \in JSFrames'
        PROVE  \E j \in 1..k :
                  /\ stack'[j].kind = "entry" /\ stack'[j].comp = CompartmentOf[stack'[k].script]
                  /\ \A l \in (j + 1)..k : stack'[l].kind # "entry"
    <3>1. k \in JSFrames /\ k \in 1..m
      BY <1>1, <1>5 DEF JSFrames
    <3>2. PICK j \in 1..k :
             /\ stack[j].kind = "entry" /\ stack[j].comp = CompartmentOf[stack[k].script]
             /\ \A l \in (j + 1)..k : stack[l].kind # "entry"
      BY <3>1 DEF IndInv, Activations
    <3> QED
      BY <3>1, <3>2, <1>2
  <2> QED
    BY <2>1, <2>2 DEF Activations
<1>7. CallersKnown'
  BY <1>1, <1>2, <1>3 DEF IndInv, CallersKnown
<1> QED
  BY <1>2, <1>4, <1>5, <1>6, <1>7

\* Elements stay what they are, patched or not.
LEMMA StackPatched ==
  ASSUME IndInv, NEW F \in SUBSET JSFrames, stack' = Patch(F)
  PROVE  StackTyped' /\ Activations' /\ CallersKnown'
<1>1. /\ Len(stack) \in Nat /\ DOMAIN stack = 1..Len(stack) /\ Len(stack) <= MaxStack
      /\ \A k \in 1..Len(stack) : stack[k] \in Elements
  BY StackFacts DEF IndInv, Typed
<1>2. /\ DOMAIN stack' = 1..Len(stack)
      /\ \A k \in 1..Len(stack) :
            /\ stack'[k] \in Elements /\ stack'[k].kind = stack[k].kind
            /\ stack[k].kind = "entry" => stack'[k].comp = stack[k].comp
            /\ stack[k].kind = "js" =>
                  stack'[k].script = stack[k].script /\ stack'[k].ion = stack[k].ion
            /\ stack[k].kind = "exit" => stack'[k].adi = stack[k].adi
  BY <1>1 DEF Patch, JSFrames, Elements, Entries, Frames, Exits
<1>3. stack' \in [1..Len(stack) -> Elements]
  BY <1>1, <1>2 DEF Patch
<1>4. stack' \in Seq(Elements) /\ Len(stack') = Len(stack)
  BY <1>1, <1>3
<1>5. JSFrames' = JSFrames /\ JSFrames \subseteq 1..Len(stack)
  BY <1>1, <1>2 DEF JSFrames
<1>6. Activations'
  <2>1. stack' # <<>> => stack'[1].kind = "entry"
    <3>1. ASSUME stack' # <<>> PROVE stack # <<>> /\ 1 \in 1..Len(stack)
      BY <3>1, <1>1, <1>4, EmptySeq
    <3> QED
      BY <3>1, <1>2 DEF IndInv, Activations
  <2>2. ASSUME NEW k \in JSFrames
        PROVE  \E j \in 1..k :
                  /\ stack'[j].kind = "entry" /\ stack'[j].comp = CompartmentOf[stack'[k].script]
                  /\ \A l \in (j + 1)..k : stack'[l].kind # "entry"
    <3>1. PICK j \in 1..k :
             /\ stack[j].kind = "entry" /\ stack[j].comp = CompartmentOf[stack[k].script]
             /\ \A l \in (j + 1)..k : stack[l].kind # "entry"
      BY DEF IndInv, Activations
    <3>2. k \in 1..Len(stack) /\ stack[k].kind = "js"
      BY <1>5 DEF JSFrames
    <3> QED
      BY <3>1, <3>2, <1>1, <1>2
  <2> QED
    BY <2>1, <2>2, <1>5 DEF Activations
<1>7. CallersKnown'
  BY <1>1, <1>2 DEF IndInv, CallersKnown
<1> QED
  BY <1>1, <1>4, <1>6, <1>7 DEF StackTyped

\* The frame on top becomes the exit frame of a bailout.
LEMMA StackConverted ==
  ASSUME IndInv, stack # <<>>, Top.kind = "js", stack' = [stack EXCEPT ![Len(stack)] = Exit(NoIon)]
  PROVE  /\ StackTyped' /\ Activations' /\ CallersKnown'
         /\ Len(stack') = Len(stack) /\ Len(stack) \in JSFrames
         /\ JSFrames' = JSFrames \ {Len(stack)}
         /\ \A k \in JSFrames' : stack'[k] = stack[k]
<1> DEFINE n == Len(stack)
<1>1. /\ n \in Nat \ {0} /\ DOMAIN stack = 1..n /\ n <= MaxStack
      /\ \A k \in 1..n : stack[k] \in Elements
  BY StackFacts, EmptySeq DEF IndInv, Typed
<1>2. Exit(NoIon) \in Elements /\ Exit(NoIon).kind = "exit" /\ Exit(NoIon).adi = NoIon
  BY DEF Exit, Elements, Exits
<1>3. /\ stack' \in Seq(Elements) /\ Len(stack') = n
      /\ \A k \in 1..n : stack'[k] = IF k = n THEN Exit(NoIon) ELSE stack[k]
  BY <1>1, <1>2, ExceptSeq DEF IndInv, Typed
<1>4. DOMAIN stack' = 1..n
  BY <1>3, LenProperties
<1>5. n \in JSFrames /\ JSFrames' = JSFrames \ {n} /\ JSFrames \subseteq 1..n
  BY <1>1, <1>2, <1>3, <1>4 DEF JSFrames, Top, Last
<1>6. Activations'
  <2>1. stack'[1].kind = "entry"
    <3>1. stack[1].kind = "entry" /\ stack[n].kind = "js"
      BY DEF IndInv, Activations, Top, Last
    <3> QED
      BY <3>1, <1>1, <1>3
  <2>2. ASSUME NEW k \in JSFrames \ {n}
        PROVE  \E j \in 1..k :
                  /\ stack'[j].kind = "entry" /\ stack'[j].comp = CompartmentOf[stack'[k].script]
                  /\ \A l \in (j + 1)..k : stack'[l].kind # "entry"
    <3>1. PICK j \in 1..k :
             /\ stack[j].kind = "entry" /\ stack[j].comp = CompartmentOf[stack[k].script]
             /\ \A l \in (j + 1)..k : stack[l].kind # "entry"
      BY DEF IndInv, Activations
    <3>2. n \in Nat /\ k \in 1..n /\ k # n
      BY <1>1, <1>5, Zenon
    <3>3. /\ j \in 1..n /\ j # n /\ k \in 1..n /\ k # n
          /\ \A l \in (j + 1)..k : l \in 1..n /\ l # n
      BY <3>2
    <3>4. stack'[j] = stack[j] /\ stack'[k] = stack[k]
          /\ \A l \in (j + 1)..k : stack'[l] = stack[l]
      BY <1>3, <3>3, Zenon
    <3> QED
      BY <3>1, <3>4
  <2> QED
    BY <2>1, <2>2, <1>5 DEF Activations
<1>7. CallersKnown'
  <2> SUFFICES ASSUME NEW k \in 1..n, stack'[k].kind = "exit", stack'[k].adi # NoIon
               PROVE  k > 1 /\ stack'[k - 1].kind = "js" /\ stack'[k - 1].ion = stack'[k].adi
    BY <1>4 DEF CallersKnown
  <2>1. k # n /\ stack'[k] = stack[k]
    BY <1>2, <1>3
  <2>2. k > 1 /\ stack[k - 1].kind = "js" /\ stack[k - 1].ion = stack[k].adi
    BY <2>1, <1>1 DEF IndInv, CallersKnown
  <2>3. k - 1 \in 1..n /\ k - 1 # n
    <3>1. n \in Nat /\ k \in 1..n /\ k > 1
      BY <2>2, <1>1, Zenon
    <3> HIDE DEF n
    <3> QED
      BY <3>1
  <2>4. stack'[k - 1] = stack[k - 1]
    BY <1>3, <2>3, Zenon
  <2> QED
    BY <2>1, <2>2, <2>4
<1> QED
  BY <1>1, <1>3, <1>5, <1>6, <1>7 DEF StackTyped

\* Elements are pushed.
LEMMA StackGrown ==
  ASSUME IndInv, NEW d \in Nat \ {0}, stack' \in Seq(Elements),
         Len(stack') = Len(stack) + d, Len(stack') <= MaxStack,
         \A k \in 1..Len(stack) : stack'[k] = stack[k],
         stack = <<>> => stack'[1].kind = "entry",
         \A k \in (Len(stack) + 1)..(Len(stack) + d) :
            /\ stack'[k].kind = "js" => \E j \in 1..k :
                  /\ stack'[j].kind = "entry" /\ stack'[j].comp = CompartmentOf[stack'[k].script]
                  /\ \A l \in (j + 1)..k : stack'[l].kind # "entry"
            /\ stack'[k].kind = "exit" /\ stack'[k].adi # NoIon =>
                  k > 1 /\ stack'[k - 1].kind = "js" /\ stack'[k - 1].ion = stack'[k].adi
  PROVE  /\ StackTyped' /\ Activations' /\ CallersKnown'
         /\ JSFrames' = JSFrames \cup {k \in (Len(stack) + 1)..(Len(stack) + d) :
                                          stack'[k].kind = "js"}
<1> DEFINE n == Len(stack)
           Active(k) == \E j \in 1..k :
                  /\ stack'[j].kind = "entry" /\ stack'[j].comp = CompartmentOf[stack'[k].script]
                  /\ \A l \in (j + 1)..k : stack'[l].kind # "entry"
<1>1. n \in Nat /\ DOMAIN stack = 1..n
  BY StackFacts DEF IndInv
<1>2. DOMAIN stack' = 1..(n + d)
  BY LenProperties
<1>3. JSFrames' = JSFrames \cup {k \in (n + 1)..(n + d) : stack'[k].kind = "js"}
  BY <1>1, <1>2 DEF JSFrames
<1>4. Activations'
  <2>1. stack'[1].kind = "entry"
    <3>1. CASE stack = <<>>
      BY <3>1
    <3>2. CASE stack # <<>>
      <4>1. 1 \in 1..n
        BY <3>2, <1>1, EmptySeq DEF IndInv, Typed
      <4> QED
        BY <4>1, <3>2 DEF IndInv, Activations
    <3> QED
      BY <3>1, <3>2
  <2>2. ASSUME NEW k \in JSFrames PROVE Active(k)
    <3>1. n \in Nat /\ k \in 1..n
      BY <1>1 DEF JSFrames
    <3>2. PICK j \in 1..k :
             /\ stack[j].kind = "entry" /\ stack[j].comp = CompartmentOf[stack[k].script]
             /\ \A l \in (j + 1)..k : stack[l].kind # "entry"
      BY DEF IndInv, Activations
    <3>3. j \in 1..n /\ \A l \in (j + 1)..k : l \in 1..n
      BY <3>1
    <3>4. stack'[j] = stack[j] /\ stack'[k] = stack[k]
          /\ \A l \in (j + 1)..k : stack'[l] = stack[l]
      BY <3>1, <3>3, Zenon
    <3> QED
      BY <3>2, <3>4
  <2>3. ASSUME NEW k \in (n + 1)..(n + d), stack'[k].kind = "js" PROVE Active(k)
    BY <2>3, Zenon
  <2> HIDE DEF Active
  <2>4. \A k \in JSFrames' : Active(k)
    BY <1>3, <2>2, <2>3
  <2> QED
    BY <2>1, <2>4 DEF Activations, Active
<1>5. CallersKnown'
  <2> SUFFICES ASSUME NEW k \in 1..(n + d), stack'[k].kind = "exit", stack'[k].adi # NoIon
               PROVE  k > 1 /\ stack'[k - 1].kind = "js" /\ stack'[k - 1].ion = stack'[k].adi
    BY <1>2 DEF CallersKnown
  <2>1. CASE k \in 1..n
    <3>1. stack'[k] = stack[k]
      BY <2>1
    <3>2. k > 1 /\ stack[k - 1].kind = "js" /\ stack[k - 1].ion = stack[k].adi
      BY <3>1, <2>1, <1>1 DEF IndInv, CallersKnown
    <3>3. k - 1 \in 1..n
      BY <2>1, <3>2, <1>1
    <3>4. stack'[k - 1] = stack[k - 1]
      BY <3>3
    <3> QED
      BY <3>1, <3>2, <3>4
  <2>2. CASE k \in (n + 1)..(n + d)
    BY <2>2, Zenon
  <2> QED
    BY <2>1, <2>2, <1>1
<1> QED
  BY <1>3, <1>4, <1>5 DEF StackTyped

-----------------------------------------------------------------------------
(* The actions.                                                             *)

\* While C++ or Ion code runs no exception is handled, and no override is set;
\* the frame of running Ion code is the current one of its script.
LEMMA RunFacts ==
  ASSUME IndInv
  PROVE  /\ unwind = 0 => Standing = JSFrames
         /\ Native \/ Jit \/ ~NotEntering => unwind = 0 /\ override = FALSE
         /\ Jit \/ AtPatch => Len(stack) \in Standing /\ Len(stack) > 1
         /\ Jit => /\ HasIonScript(Top.script) /\ ion[Top.script] = Top.ion
                   /\ Top.script \in Scripts
         /\ stack # <<>> => Len(stack) \in Nat \ {0}
<1>1. unwind = 0 => Standing = JSFrames
  BY DEF Standing
<1>2. Native \/ Jit \/ ~NotEntering => unwind = 0 /\ override = FALSE
  <2>1. Native \/ Jit \/ ~NotEntering => unwind = 0 /\ ~AtPatch
    BY DEF IndInv, OneRuns, Native, Jit, AtPatch
  <2> QED
    BY <2>1 DEF IndInv, OverrideIsTaken, Typed
<1>3. stack # <<>> => Len(stack) \in Nat \ {0}
  BY EmptySeq DEF IndInv, Typed
<1>4. Jit \/ AtPatch => Len(stack) \in Standing /\ Len(stack) > 1
  <2> SUFFICES ASSUME Jit \/ AtPatch PROVE Len(stack) \in Standing /\ Len(stack) > 1
    OBVIOUS
  <2>1. unwind = 0 /\ stack # <<>> /\ stack[Len(stack)].kind = "js"
    BY DEF Jit, AtPatch, Top, Last
  <2>2. stack[1].kind = "entry"
    BY <2>1 DEF IndInv, Activations
  <2>3. Len(stack) \in 1..Len(stack) /\ Len(stack) > 1
    BY <2>1, <2>2, <1>3
  <2>4. DOMAIN stack = 1..Len(stack)
    BY StackFacts DEF IndInv
  <2> QED
    BY <2>1, <2>3, <2>4 DEF Standing, JSFrames
<1>5. Jit => /\ HasIonScript(Top.script) /\ ion[Top.script] = Top.ion
             /\ Top.script \in Scripts
  <2> SUFFICES ASSUME Jit
               PROVE  /\ HasIonScript(Top.script) /\ ion[Top.script] = Top.ion
                      /\ Top.script \in Scripts
    OBVIOUS
  <2>1. Len(stack) \in Standing /\ ~stack[Len(stack)].patched
    BY <1>4 DEF Jit, Top, Last
  <2>2. stack[Len(stack)] \in Frames
    BY <2>1, StackFacts DEF IndInv
  <2> QED
    BY <2>1, <2>2, CurrentFacts DEF IndInv, Top, Last, Frames
<1> QED
  BY <1>1, <1>2, <1>3, <1>4, <1>5

LEMMA CanEnterKeepsInv ==
  ASSUME ConstantsAssumption, IndInv, NEW s \in Scripts, CanEnter(s)
  PROVE  IndInv'
<1>1. UNCHANGED <<ion, heap, stack, unwind, exception, override>> /\ unwind = 0 /\ ~override
  BY RunFacts DEF CanEnter
<1>2. Core'
  <2>1. Standing' = Standing
    BY <1>1 DEF Standing, JSFrames
  <2> QED
    BY <1>1, <2>1, KeepStep DEF IndInv
<1>3. Activations' /\ CallersKnown'
  BY <1>1, StackKept
<1>4. Typed' /\ OneRuns' /\ OverrideIsTaken'
  BY <1>1 DEF IndInv, Typed, HeapTyped, OneRuns, NotEntering, OverrideIsTaken, CanEnter
<1> QED
  BY <1>2, <1>3, <1>4 DEF IndInv

LEMMA SkipKeepsInv ==
  ASSUME IndInv, Skip
  PROVE  IndInv'
<1>1. UNCHANGED <<ion, heap, stack, unwind, exception, override>> /\ unwind = 0 /\ ~override
  BY RunFacts DEF Skip
<1>2. Core'
  <2>1. Standing' = Standing
    BY <1>1 DEF Standing, JSFrames
  <2> QED
    BY <1>1, <2>1, KeepStep DEF IndInv
<1>3. Activations' /\ CallersKnown'
  BY <1>1, StackKept
<1>4. Typed' /\ OneRuns' /\ OverrideIsTaken'
  BY <1>1 DEF IndInv, Typed, HeapTyped, OneRuns, NotEntering, OverrideIsTaken, Skip
<1> QED
  BY <1>2, <1>3, <1>4 DEF IndInv

LEMMA CannotCompileKeepsInv ==
  ASSUME ConstantsAssumption, Sound, IndInv, NEW s \in Scripts, CannotCompile(s)
  PROVE  IndInv'
<1>1. /\ UNCHANGED <<heap, stack, entering, unwind, exception, override>>
      /\ ion[s] = NoIon /\ ion' = [ion EXCEPT ![s] = Disabled]
      /\ unwind = 0 /\ ~override
  BY RunFacts DEF CannotCompile, Sound
<1>2. /\ Standing' = Standing /\ \A k \in Standing : stack[k].ion \in Ions
      /\ \A k \in Standing : stack[k].script \in Scripts
  BY <1>1, StackFacts DEF Standing, JSFrames, IndInv, Frames
<1>3. /\ \A t \in Scripts : ion'[t] = IF t = s THEN Disabled ELSE ion[t]
      /\ \A t \in Scripts : HasIonScript(t)' = HasIonScript(t)
      /\ \A t \in Scripts, i \in Ions : ion'[t] = i <=> ion[t] = i
  BY <1>1 DEF IndInv, Typed, HasIonScript, ConstantsAssumption
<1>4. Core'
  <2>1. IonsOwned' /\ StandingHeld'
    BY <1>1, <1>2, <1>3 DEF IndInv, Core, IonsOwned, StandingHeld, HasIonScript
  <2>2. RefcountExact'
    BY <1>1, <1>2 DEF IndInv, Core, RefcountExact
  <2>3. NothingLeaks'
    BY <1>1, <1>2, <1>3 DEF IndInv, Core, NothingLeaks, Typed, HeapTyped
  <2>4. ASSUME NEW k \in Standing PROVE CheckInvalidation(stack[k])' = CheckInvalidation(stack[k])
    BY <1>1, <1>2, <1>3 DEF CheckInvalidation
  <2>5. InvalidatedIsPatched'
    BY <1>1, <1>2, <2>4 DEF IndInv, Core, InvalidatedIsPatched
  <2> QED
    BY <2>1, <2>2, <2>3, <2>5 DEF Core
<1>5. Activations' /\ CallersKnown'
  BY <1>1, StackKept
<1>6. Typed' /\ OneRuns' /\ OverrideIsTaken'
  BY <1>1 DEF IndInv, Typed, HeapTyped, OneRuns, NotEntering, OverrideIsTaken
<1> QED
  BY <1>4, <1>5, <1>6 DEF IndInv

LEMMA CompileKeepsInv ==
  ASSUME ConstantsAssumption, IndInv, NEW s \in Scripts, Compile(s)
  PROVE  IndInv'
<1>1. PICK i \in Ions \ DOMAIN heap :
         /\ ion' = [ion EXCEPT ![s] = i]
         /\ heap' = [j \in DOMAIN heap \cup {i} |-> IF j = i THEN 0 ELSE heap[j]]
  BY DEF Compile
<1>2. /\ UNCHANGED <<stack, unwind, exception, override>>
      /\ ion[s] = NoIon /\ unwind = 0 /\ ~override /\ entering' = [script |-> s, fresh |-> TRUE]
  BY RunFacts DEF Compile
<1>3. UNCHANGED Standing
  BY <1>2 DEF Standing, JSFrames
<1>4. Core' /\ HeapTyped'
  BY <1>1, <1>2, <1>3, CompileStep DEF IndInv
<1>5. Activations' /\ CallersKnown'
  BY <1>2, StackKept
<1>6. Typed' /\ OneRuns' /\ OverrideIsTaken'
  BY <1>1, <1>2, <1>4
     DEF IndInv, Typed, OneRuns, NotEntering, OverrideIsTaken, ConstantsAssumption
<1> QED
  BY <1>4, <1>5, <1>6 DEF IndInv

\* Two elements are pushed.
LEMMA CannonFacts ==
  ASSUME ConstantsAssumption, IndInv, Cannon
  PROVE  LET n == Len(stack)
             s == entering.script
             e == Entry(CompartmentOf[s])
             f == JSFrame(s, ion[s])
         IN  /\ UNCHANGED <<ion, heap, unwind, exception, override>> /\ unwind = 0
             /\ ~override /\ entering' = [script |-> NoIon, fresh |-> FALSE]
             /\ n + 2 <= MaxStack /\ s \in Scripts /\ HasIonScript(s)
             /\ n \in Nat /\ JSFrames \subseteq 1..n /\ DOMAIN stack = 1..n
             /\ stack' \in Seq(Elements) /\ Len(stack') = n + 2
             /\ \A k \in 1..n : stack'[k] = stack[k]
             /\ stack'[n + 1] = e /\ stack'[n + 2] = f
<1> DEFINE n == Len(stack)
           s == entering.script
           e == Entry(CompartmentOf[s])
           f == JSFrame(s, ion[s])
<1>1. /\ UNCHANGED <<ion, heap, unwind, exception, override>> /\ unwind = 0 /\ ~override
      /\ entering' = [script |-> NoIon, fresh |-> FALSE]
      /\ n + 2 <= MaxStack /\ stack' = stack \o <<e, f>>
  BY RunFacts DEF Cannon
<1>2. s \in Scripts /\ HasIonScript(s) /\ ion[s] \in Ions
  BY DEF Cannon, IndInv, Typed, NotEntering, HasIonScript
<1>3. e \in Elements /\ f \in Elements /\ e \in Entries /\ f \in Frames
  BY <1>2 DEF Elements, Entries, Frames, Entry, JSFrame, Compartments, ConstantsAssumption
<1>4. n \in Nat /\ DOMAIN stack = 1..n /\ JSFrames \subseteq 1..n /\ stack \in Seq(Elements)
  BY StackFacts DEF IndInv, Typed
<1>5. /\ stack' \in Seq(Elements) /\ Len(stack') = n + 2
      /\ \A k \in 1..n : stack'[k] = stack[k]
      /\ stack'[n + 1] = e /\ stack'[n + 2] = f
  <2>1. <<e, f>> \in Seq(Elements) /\ Len(<<e, f>>) = 2
        /\ <<e, f>>[1] = e /\ <<e, f>>[2] = f
    BY <1>3
  <2> DEFINE q == <<e, f>>
  <2> HIDE DEF q, n
  <2>2. /\ stack \o q \in Seq(Elements) /\ Len(stack \o q) = n + 2
        /\ \A k \in 1..(n + 2) : (stack \o q)[k] = IF k <= n THEN stack[k] ELSE q[k - n]
    BY <1>4, <2>1, ConcatProperties DEF q, n
  <2>3. \A k \in 1..n : k <= n /\ k \in 1..(n + 2)
    BY <1>4
  <2>4. /\ n + 1 \in 1..(n + 2) /\ ~(n + 1 <= n) /\ (n + 1) - n = 1
        /\ n + 2 \in 1..(n + 2) /\ ~(n + 2 <= n) /\ (n + 2) - n = 2
    BY <1>4
  <2>5. q[1] = e /\ q[2] = f /\ stack' = stack \o q
    BY <2>1, <1>1 DEF q
  <2> QED
    BY <2>2, <2>3, <2>4, <2>5
<1> QED
  BY <1>1, <1>2, <1>4, <1>5

LEMMA CannonKeepsInv ==
  ASSUME ConstantsAssumption, IndInv, Cannon
  PROVE  IndInv'
<1> DEFINE n == Len(stack)
           s == entering.script
           e == Entry(CompartmentOf[s])
           f == JSFrame(s, ion[s])
<1>1. /\ UNCHANGED <<ion, heap, unwind, exception, override>> /\ unwind = 0 /\ ~override
      /\ entering' = [script |-> NoIon, fresh |-> FALSE]
      /\ n + 2 <= MaxStack
  BY CannonFacts
<1>2. s \in Scripts /\ HasIonScript(s)
  BY CannonFacts
<1>4. n \in Nat /\ JSFrames \subseteq 1..n
  BY CannonFacts
<1>5. /\ stack' \in Seq(Elements) /\ Len(stack') = n + 2
      /\ \A k \in 1..n : stack'[k] = stack[k]
      /\ stack'[n + 1] = e /\ stack'[n + 2] = f
  BY CannonFacts
<1>6. /\ e.kind = "entry" /\ e.comp = CompartmentOf[s]
      /\ f.kind = "js" /\ f.script = s /\ f.ion = ion[s]
  BY DEF Entry, JSFrame
<1> HIDE DEF e, f, n
<1>7. /\ StackTyped' /\ Activations' /\ CallersKnown'
      /\ JSFrames' = JSFrames \cup {n + 2}
  <2>1. \A k \in (n + 1)..(n + 2) : k = n + 1 \/ k = n + 2
    BY <1>4
  <2>2. \A k \in (n + 1)..(n + 2) :
            /\ stack'[k].kind = "js" => \E j \in 1..k :
                  /\ stack'[j].kind = "entry" /\ stack'[j].comp = CompartmentOf[stack'[k].script]
                  /\ \A l \in (j + 1)..k : stack'[l].kind # "entry"
            /\ stack'[k].kind = "exit" /\ stack'[k].adi # NoIon =>
                  k > 1 /\ stack'[k - 1].kind = "js" /\ stack'[k - 1].ion = stack'[k].adi
    <3>1. stack'[n + 1].kind = "entry" /\ stack'[n + 2].kind = "js"
      BY <1>5, <1>6
    <3>2. n + 1 \in 1..(n + 2) /\ \A l \in ((n + 1) + 1)..(n + 2) : l = n + 2
      BY <1>4
    <3>3. /\ stack'[n + 1].comp = CompartmentOf[stack'[n + 2].script]
          /\ \A l \in ((n + 1) + 1)..(n + 2) : stack'[l].kind # "entry"
      BY <1>5, <1>6, <3>1, <3>2
    <3> QED
      BY <2>1, <3>1, <3>2, <3>3
  <2>3. stack = <<>> => stack'[1].kind = "entry"
    <3> SUFFICES ASSUME stack = <<>> PROVE stack'[1].kind = "entry"
      OBVIOUS
    <3>1. n = 0
      BY DEF n
    <3> QED
      BY <3>1, <1>5, <1>6
  <2>4. /\ StackTyped' /\ Activations' /\ CallersKnown'
        /\ JSFrames' = JSFrames \cup {k \in (n + 1)..(n + 2) : stack'[k].kind = "js"}
    BY <1>1, <1>5, <2>2, <2>3, StackGrown, 2 \in Nat \ {0} DEF n
  <2>5. {k \in (n + 1)..(n + 2) : stack'[k].kind = "js"} = {n + 2}
    BY <2>1, <1>4, <1>5, <1>6
  <2> QED
    BY <2>4, <2>5
<1>8. Core'
  <2>1. Standing = JSFrames /\ Standing' = JSFrames'
    BY <1>1 DEF Standing
  <2>2. n + 2 \notin Standing /\ \A k \in Standing : stack'[k] = stack[k]
    BY <2>1, <1>4, <1>5
  <2> QED
    BY <1>1, <1>2, <1>5, <1>7, <2>1, <2>2, PushStep DEF IndInv, f
<1>9. Typed' /\ OneRuns' /\ OverrideIsTaken'
  <2>1. unwind' \in 0..Len(stack')
    BY <1>1, <1>4, <1>5
  <2> QED
    BY <1>1, <1>7, <2>1
       DEF IndInv, Typed, HeapTyped, StackTyped, OneRuns, NotEntering, OverrideIsTaken
<1> QED
  BY <1>7, <1>8, <1>9 DEF IndInv

\* One element is pushed.
LEMMA AppendFacts ==
  ASSUME IndInv, NEW x \in Elements, stack' = Append(stack, x)
  PROVE  /\ stack' \in Seq(Elements) /\ Len(stack') = Len(stack) + 1
         /\ \A k \in 1..Len(stack) : stack'[k] = stack[k]
         /\ stack'[Len(stack) + 1] = x
         /\ \A k \in (Len(stack) + 1)..(Len(stack) + 1) : k = Len(stack) + 1
         /\ Len(stack) \in Nat /\ JSFrames \subseteq 1..Len(stack)
<1>1. stack \in Seq(Elements) /\ Len(stack) \in Nat /\ JSFrames \subseteq 1..Len(stack)
  BY StackFacts DEF IndInv, Typed
<1>2. /\ Append(stack, x) \in Seq(Elements) /\ Len(Append(stack, x)) = Len(stack) + 1
      /\ \A k \in 1..Len(stack) : Append(stack, x)[k] = stack[k]
      /\ Append(stack, x)[Len(stack) + 1] = x
  BY <1>1, AppendProperties
<1> QED
  BY <1>1, <1>2

LEMMA CallIonKeepsInv ==
  ASSUME ConstantsAssumption, IndInv, NEW s \in Scripts, CallIon(s)
  PROVE  IndInv'
<1> DEFINE n == Len(stack)
           f == JSFrame(s, ion[s])
<1>1. /\ UNCHANGED <<ion, heap, entering, unwind, exception, override>>
      /\ unwind = 0 /\ ~override /\ NotEntering /\ HasIonScript(s)
      /\ CompartmentOf[s] = CompartmentOf[Top.script]
      /\ n < MaxStack /\ stack' = Append(stack, f) /\ n \in Standing /\ stack # <<>>
  BY RunFacts DEF CallIon, Jit
<1>2. f \in Elements /\ f.kind = "js" /\ f.script = s /\ f.ion = ion[s]
  BY <1>1 DEF JSFrame, Elements, Frames, HasIonScript
<1>3. /\ stack' \in Seq(Elements) /\ Len(stack') = n + 1 /\ n \in Nat
      /\ \A k \in 1..n : stack'[k] = stack[k]
      /\ stack'[n + 1] = f /\ JSFrames \subseteq 1..n
      /\ \A k \in (n + 1)..(n + 1) : k = n + 1
  BY <1>1, <1>2, AppendFacts
<1>4. n \in JSFrames /\ n \in 1..n /\ stack[n] = Top
  BY <1>1, <1>3 DEF Standing, Top, Last
<1>5. \E j \in 1..(n + 1) :
         /\ stack'[j].kind = "entry" /\ stack'[j].comp = CompartmentOf[s]
         /\ \A l \in (j + 1)..(n + 1) : stack'[l].kind # "entry"
  <2>1. PICK j \in 1..n :
           /\ stack[j].kind = "entry" /\ stack[j].comp = CompartmentOf[stack[n].script]
           /\ \A l \in (j + 1)..n : stack[l].kind # "entry"
    BY <1>4 DEF IndInv, Activations
  <2>2. j \in 1..(n + 1) /\ \A l \in (j + 1)..(n + 1) :
            l = n + 1 \/ (l \in 1..n /\ l \in (j + 1)..n)
    BY <1>3
  <2>3. stack'[j].kind = "entry" /\ stack'[j].comp = CompartmentOf[s]
    BY <1>1, <1>3, <1>4, <2>1
  <2>4. stack'[n + 1].kind # "entry"
    BY <1>2, <1>3
  <2>5. \A l \in (j + 1)..n : l \in 1..n => stack'[l].kind # "entry"
    BY <1>3, <2>1
  <2> QED
    BY <2>2, <2>3, <2>4, <2>5
<1> HIDE DEF f, n
<1>6. /\ StackTyped' /\ Activations' /\ CallersKnown'
      /\ JSFrames' = JSFrames \cup {n + 1}
  <2>1. \A k \in (n + 1)..(n + 1) :
            /\ stack'[k].kind = "js" => \E j \in 1..k :
                  /\ stack'[j].kind = "entry" /\ stack'[j].comp = CompartmentOf[stack'[k].script]
                  /\ \A l \in (j + 1)..k : stack'[l].kind # "entry"
            /\ stack'[k].kind = "exit" /\ stack'[k].adi # NoIon =>
                  k > 1 /\ stack'[k - 1].kind = "js" /\ stack'[k - 1].ion = stack'[k].adi
    BY <1>2, <1>3, <1>5
  <2>2. Len(stack') <= MaxStack
    BY <1>1, <1>3 DEF ConstantsAssumption
  <2>3. /\ StackTyped' /\ Activations' /\ CallersKnown'
        /\ JSFrames' = JSFrames \cup {k \in (n + 1)..(n + 1) : stack'[k].kind = "js"}
    BY <1>1, <1>3, <2>1, <2>2, StackGrown, 1 \in Nat \ {0} DEF n
  <2>4. {k \in (n + 1)..(n + 1) : stack'[k].kind = "js"} = {n + 1}
    BY <1>2, <1>3
  <2> QED
    BY <2>3, <2>4
<1>7. Core'
  <2>1. Standing = JSFrames /\ Standing' = JSFrames'
    BY <1>1 DEF Standing
  <2>2. n + 1 \notin Standing /\ \A k \in Standing : stack'[k] = stack[k]
    BY <2>1, <1>3
  <2> QED
    BY <1>1, <1>3, <1>6, <2>1, <2>2, PushStep DEF IndInv, f
<1>8. Typed' /\ OneRuns' /\ OverrideIsTaken'
  <2>1. unwind' \in 0..Len(stack')
    BY <1>1, <1>3
  <2> QED
    BY <1>1, <1>6, <2>1
       DEF IndInv, Typed, HeapTyped, StackTyped, OneRuns, NotEntering, OverrideIsTaken
<1> QED
  BY <1>6, <1>7, <1>8 DEF IndInv

LEMMA CallVMKeepsInv ==
  ASSUME ConstantsAssumption, IndInv, CallVM
  PROVE  IndInv'
<1> DEFINE n == Len(stack)
<1>1. PICK a \in {NoIon, ion[Top.script]} : stack' = Append(stack, Exit(a))
  BY DEF CallVM
<1> DEFINE x == Exit(a)
<1>2. /\ UNCHANGED <<ion, heap, entering, unwind, exception, override>>
      /\ unwind = 0 /\ ~override /\ NotEntering /\ stack # <<>>
      /\ n < MaxStack /\ stack' = Append(stack, x) /\ n \in Standing /\ n > 1
      /\ HasIonScript(Top.script) /\ ion[Top.script] = Top.ion
  BY <1>1, RunFacts DEF CallVM, Jit
<1>3. x \in Elements /\ x.kind = "exit" /\ x.adi = a
  BY <1>2 DEF Exit, Elements, Exits, HasIonScript
<1>4. /\ stack' \in Seq(Elements) /\ Len(stack') = n + 1 /\ n \in Nat
      /\ \A k \in 1..n : stack'[k] = stack[k]
      /\ stack'[n + 1] = x /\ JSFrames \subseteq 1..n
      /\ \A k \in (n + 1)..(n + 1) : k = n + 1
  BY <1>2, <1>3, AppendFacts
<1>5. /\ n \in 1..n /\ (n + 1) - 1 = n /\ stack'[n] = Top
      /\ stack'[n].kind = "js" /\ (a # NoIon => stack'[n].ion = a)
  BY <1>2, <1>4 DEF Standing, JSFrames, Top, Last
<1> HIDE DEF x, n
<1>6. StackTyped' /\ Activations' /\ CallersKnown' /\ JSFrames' = JSFrames
  <2>1. \A k \in (n + 1)..(n + 1) :
            /\ stack'[k].kind = "js" => \E j \in 1..k :
                  /\ stack'[j].kind = "entry" /\ stack'[j].comp = CompartmentOf[stack'[k].script]
                  /\ \A l \in (j + 1)..k : stack'[l].kind # "entry"
            /\ stack'[k].kind = "exit" /\ stack'[k].adi # NoIon =>
                  k > 1 /\ stack'[k - 1].kind = "js" /\ stack'[k - 1].ion = stack'[k].adi
    <3>1. stack'[n + 1].kind = "exit" /\ stack'[n + 1].adi = a /\ n + 1 > 1
      BY <1>2, <1>3, <1>4
    <3> QED
      BY <3>1, <1>4, <1>5
  <2>2. Len(stack') <= MaxStack
    BY <1>2, <1>4 DEF ConstantsAssumption
  <2>3. /\ StackTyped' /\ Activations' /\ CallersKnown'
        /\ JSFrames' = JSFrames \cup {k \in (n + 1)..(n + 1) : stack'[k].kind = "js"}
    BY <1>2, <1>4, <2>1, <2>2, StackGrown, 1 \in Nat \ {0} DEF n
  <2>4. {k \in (n + 1)..(n + 1) : stack'[k].kind = "js"} = {}
    BY <1>3, <1>4
  <2> QED
    BY <2>3, <2>4
<1>7. Core'
  <2>1. Standing = JSFrames /\ Standing' = Standing
    BY <1>2, <1>6 DEF Standing
  <2>2. \A k \in Standing : stack'[k] = stack[k]
    BY <2>1, <1>4
  <2> QED
    BY <1>2, <2>1, <2>2, KeepStep DEF IndInv
<1>8. Typed' /\ OneRuns' /\ OverrideIsTaken'
  <2>1. unwind' \in 0..Len(stack')
    BY <1>2, <1>4
  <2> QED
    BY <1>2, <1>6, <2>1
       DEF IndInv, Typed, HeapTyped, StackTyped, OneRuns, NotEntering, OverrideIsTaken
<1> QED
  BY <1>6, <1>7, <1>8 DEF IndInv

\* What is left when the element on top is done.
LEMMA PopFacts ==
  ASSUME IndInv, ConstantsAssumption, stack # <<>>, Top.kind # "entry", stack' = Popped
  PROVE  LET n == Len(stack) - 1
             m == IF stack[n].kind = "entry" THEN n - 1 ELSE n
         IN  /\ n \in 1..Len(stack) /\ m \in 0..n /\ n \in Nat
             /\ StackTyped' /\ Activations' /\ CallersKnown'
             /\ Len(stack') = m /\ \A k \in 1..m : stack'[k] = stack[k]
             /\ JSFrames' = JSFrames \ {Len(stack)}
             /\ \A k \in JSFrames' : stack'[k] = stack[k]
<1> DEFINE n == Len(stack) - 1
           m == IF stack[n].kind = "entry" THEN n - 1 ELSE n
<1>1. Len(stack) \in Nat /\ Len(stack) # 0 /\ JSFrames \subseteq 1..Len(stack)
  BY StackFacts, EmptySeq DEF IndInv, Typed
<1>2. stack[1].kind = "entry" /\ stack[Len(stack)].kind # "entry"
  BY DEF IndInv, Activations, Top, Last
<1>3. n \in 1..Len(stack) /\ n \in Nat /\ m \in 0..n
  BY <1>1, <1>2
<1>4. stack' = SubSeq(stack, 1, m)
  BY DEF Popped
<1>5. m \in 0..Len(stack)
  BY <1>1, <1>3
<1> HIDE DEF n, m
<1>6. /\ StackTyped' /\ Activations' /\ CallersKnown'
      /\ Len(stack') = m /\ \A k \in 1..m : stack'[k] = stack[k]
      /\ JSFrames' = {k \in JSFrames : k <= m}
  BY <1>4, <1>5, StackPrefix
<1>7. ASSUME NEW k \in JSFrames PROVE k <= m <=> k # Len(stack)
  <2>1. k \in 1..Len(stack) /\ stack[k].kind = "js"
    BY <1>1 DEF JSFrames
  <2>2. CASE k = n
    <3>1. m = n /\ n # Len(stack)
      BY <2>1, <2>2, <1>1 DEF m, n
    <3> QED
      BY <3>1, <2>2, <1>3
  <2>3. CASE k # n
    BY <2>1, <2>3, <1>1 DEF m, n
  <2> QED
    BY <2>2, <2>3
<1>8. JSFrames' = JSFrames \ {Len(stack)}
  BY <1>6, <1>7
<1>9. \A k \in JSFrames' : k \in 1..m
  BY <1>1, <1>3, <1>6
<1> QED
  BY <1>3, <1>6, <1>8, <1>9 DEF m, n

LEMMA ReturnKeepsInv ==
  ASSUME ConstantsAssumption, IndInv, Return
  PROVE  IndInv'
<1>1. /\ UNCHANGED <<ion, heap, entering, unwind, exception, override>>
      /\ unwind = 0 /\ ~override /\ NotEntering /\ stack # <<>>
      /\ Top.kind = "js" /\ ~Top.patched /\ stack' = Popped /\ Len(stack) \in Standing
  BY RunFacts DEF Return, Jit
<1>2. /\ StackTyped' /\ Activations' /\ CallersKnown'
      /\ JSFrames' = JSFrames \ {Len(stack)} /\ \A k \in JSFrames' : stack'[k] = stack[k]
      /\ Len(stack') \in Nat
  BY <1>1, PopFacts
<1>3. Core'
  <2>1. Standing' = Standing \ {Len(stack)} /\ \A k \in Standing' : stack'[k] = stack[k]
    BY <1>1, <1>2 DEF Standing
  <2> QED
    BY <1>1, <2>1, LeaveStep DEF IndInv, Top, Last
<1>4. Typed' /\ OneRuns' /\ OverrideIsTaken'
  BY <1>1, <1>2 DEF IndInv, Typed, HeapTyped, StackTyped, OneRuns, NotEntering, OverrideIsTaken
<1> QED
  BY <1>2, <1>3, <1>4 DEF IndInv

LEMMA VMReturnKeepsInv ==
  ASSUME ConstantsAssumption, IndInv, VMReturn
  PROVE  IndInv'
<1> DEFINE n == Len(stack) - 1
           m == IF stack[n].kind = "entry" THEN n - 1 ELSE n
<1>1. /\ UNCHANGED <<ion, heap, entering, unwind, exception>>
      /\ override' = (override \/ Detected)
      /\ unwind = 0 /\ ~override /\ NotEntering /\ stack # <<>>
      /\ Top.kind = "exit" /\ stack' = Popped
  BY RunFacts DEF VMReturn, Native
<1>2. /\ n \in 1..Len(stack) /\ n \in Nat /\ m \in 0..n
      /\ StackTyped' /\ Activations' /\ CallersKnown'
      /\ Len(stack') = m /\ \A k \in 1..m : stack'[k] = stack[k]
      /\ JSFrames' = JSFrames \ {Len(stack)} /\ \A k \in JSFrames' : stack'[k] = stack[k]
  BY <1>1, PopFacts
<1>0. /\ Len(stack) \in Nat \ {0} /\ n = Len(stack) - 1 /\ n \in 1..Len(stack)
      /\ stack[n].kind # "entry" => m = n
  BY <1>1, <1>2, RunFacts
<1> HIDE DEF n, m
<1>3. Core'
  <2>1. Standing' = Standing /\ \A k \in Standing : stack'[k] = stack[k]
    BY <1>1, <1>2 DEF Standing, JSFrames, Top, Last
  <2> QED
    BY <1>1, <2>1, KeepStep DEF IndInv
<1>4. OverrideIsTaken'
  <2> SUFFICES ASSUME Detected PROVE AtPatch'
    BY <1>1 DEF OverrideIsTaken
  <2>1. DOMAIN stack = 1..Len(stack) /\ Len(stack) \in Nat
    BY StackFacts DEF IndInv
  <2>2. /\ Len(stack) \in DOMAIN stack /\ stack[Len(stack)].kind = "exit"
        /\ stack[Len(stack)].adi # NoIon /\ ion[stack[n].script] # stack[Len(stack)].adi
    <3>1. Len(stack) \in 1..Len(stack)
      BY <1>0
    <3> QED
      BY <1>0, <1>1, <2>1, <3>1 DEF Detected, Top, Last
  <2>3. stack[n].kind = "js" /\ stack[n].ion = stack[Len(stack)].adi
    BY <1>0, <2>2 DEF IndInv, CallersKnown
  <2>4. n \in Standing /\ m = n
    <3>1. n \in DOMAIN stack
      BY <1>0, <2>1, Zenon
    <3>2. stack[n].kind # "entry"
      BY <2>3
    <3> QED
      BY <1>0, <1>1, <2>3, <3>1, <3>2 DEF Standing, JSFrames
  <2>5. stack[n].patched
    BY <2>2, <2>3, <2>4, CurrentFacts DEF IndInv
  <2>6. Len(stack') = n /\ stack'[n] = stack[n] /\ n # 0
    <3>1. n \in 1..n /\ n # 0
      BY <1>0
    <3> QED
      BY <3>1, <1>2, <2>4
  <2>7. stack' # <<>> /\ Last(stack)' = stack[n]
    BY <2>6 DEF Last
  <2> QED
    BY <1>1, <2>3, <2>5, <2>7 DEF AtPatch, NotEntering, Top
<1>5. Typed' /\ OneRuns'
  <2>1. Detected \in BOOLEAN /\ unwind' \in 0..Len(stack')
    BY <1>1, <1>2 DEF Detected
  <2> QED
    BY <1>1, <1>2, <2>1 DEF IndInv, Typed, HeapTyped, StackTyped, OneRuns, NotEntering
<1> QED
  BY <1>2, <1>3, <1>4, <1>5 DEF IndInv

\* A frame of Ion code bails out, or fails to.
LEMMA ConvertFacts ==
  ASSUME IndInv, Jit \/ AtPatch, ConvertFrame, UNCHANGED <<ion, entering>>,
         heap' = IF Top.patched THEN Decref(heap, Top.ion) ELSE heap,
         override' = FALSE
  PROVE  IndInv'
<1> DEFINE n == Len(stack)
<1>1. /\ n \in Standing /\ n > 1 /\ stack # <<>> /\ Top = stack[n] /\ Top.kind = "js"
      /\ unwind = 0 /\ NotEntering
  BY RunFacts DEF Jit, AtPatch, Top, Last
<1>2. /\ stack' = [stack EXCEPT ![Len(stack)] = Exit(NoIon)]
      /\ unwind' \in {0, n} /\ exception' \in {"none", "pending"}
  BY DEF ConvertFrame
<1>3. /\ StackTyped' /\ Activations' /\ CallersKnown'
      /\ Len(stack') = n /\ JSFrames' = JSFrames \ {n}
      /\ \A k \in JSFrames' : stack'[k] = stack[k]
  BY <1>1, <1>2, StackConverted
<1>4. n \in Nat /\ JSFrames \subseteq 1..n
  BY StackFacts DEF IndInv
<1>5. Core' /\ HeapTyped'
  <2>1. Standing = JSFrames
        /\ Standing' = {k \in JSFrames \ {n} : unwind' = 0 \/ k <= unwind'}
    BY <1>1, <1>3 DEF Standing
  <2>2. \A k \in JSFrames : k <= n
    BY <1>4
  <2>3. Standing' = Standing \ {n}
    BY <1>2, <2>1, <2>2
  <2>4. \A k \in Standing' : stack'[k] = stack[k]
    BY <1>3, <2>1, <2>3
  <2>5. heap' = IF stack[n].patched THEN Decref(heap, stack[n].ion) ELSE heap
    BY <1>1
  <2> QED
    BY <1>1, <2>3, <2>4, <2>5, LeaveStep DEF IndInv
<1>6. Typed' /\ OneRuns' /\ OverrideIsTaken'
  <2>1. unwind' \in 0..Len(stack')
    <3>1. n \in Nat /\ Len(stack') = n /\ unwind' \in {0, n}
      BY <1>2, <1>3, <1>4, Zenon
    <3> HIDE DEF n
    <3> QED
      BY <3>1
  <2> QED
    BY <1>1, <1>2, <1>3, <1>5, <2>1
       DEF IndInv, Typed, StackTyped, OneRuns, NotEntering, OverrideIsTaken
<1> QED
  BY <1>3, <1>5, <1>6 DEF IndInv

LEMMA BailoutKeepsInv ==
  ASSUME IndInv, Bailout \/ InvalidationBailout
  PROVE  IndInv'
<1>1. CASE Bailout
  <2>1. ~Top.patched /\ override' = FALSE
    BY <1>1, RunFacts DEF Bailout, Jit
  <2> QED
    BY <1>1, <2>1, ConvertFacts DEF Bailout
<1>2. CASE InvalidationBailout
  <2>1. Top.patched
    BY <1>2 DEF InvalidationBailout, AtPatch
  <2> QED
    BY <1>2, <2>1, ConvertFacts DEF InvalidationBailout
<1> QED
  BY <1>1, <1>2

LEMMA VMFailKeepsInv ==
  ASSUME IndInv, VMFail
  PROVE  IndInv'
<1>1. /\ UNCHANGED <<ion, heap, stack, entering>>
      /\ override' = (override \/ Detected) /\ unwind' = Len(stack)
      /\ exception' \in {"pending", "uncatchable"}
      /\ unwind = 0 /\ NotEntering /\ stack # <<>>
  BY DEF VMFail, Native
<1>2. Len(stack) \in Nat \ {0} /\ JSFrames \subseteq 1..Len(stack)
  BY <1>1, RunFacts, StackFacts DEF IndInv
<1>3. StackTyped' /\ Activations' /\ CallersKnown' /\ JSFrames' = JSFrames
  BY <1>1, StackKept
<1>4. Core'
  <2>1. Standing' = {k \in JSFrames : unwind' = 0 \/ k <= unwind'} /\ Standing = JSFrames
    BY <1>1, <1>3 DEF Standing
  <2>2. \A k \in JSFrames : k <= unwind'
    BY <1>1, <1>2
  <2>3. Standing' = Standing
    BY <2>1, <2>2
  <2> QED
    BY <1>1, <2>3, KeepStep DEF IndInv
<1>5. Typed' /\ OneRuns' /\ OverrideIsTaken'
  <2>1. Detected \in BOOLEAN /\ unwind' \in 0..Len(stack') /\ unwind' # 0
    BY <1>1, <1>2 DEF Detected
  <2> QED
    BY <1>1, <1>3, <2>1
       DEF IndInv, Typed, HeapTyped, StackTyped, OneRuns, NotEntering, OverrideIsTaken
<1> QED
  BY <1>3, <1>4, <1>5 DEF IndInv

LEMMA HandleExceptionFrameKeepsInv ==
  ASSUME IndInv, HandleExceptionFrame
  PROVE  IndInv'
<1>1. /\ UNCHANGED <<ion, stack, entering, override>>
      /\ unwind # 0 /\ stack[unwind].kind # "entry" /\ unwind' = unwind - 1
  BY DEF HandleExceptionFrame
<1>2. /\ Len(stack) \in Nat /\ DOMAIN stack = 1..Len(stack)
      /\ unwind \in 1..Len(stack) /\ JSFrames \subseteq 1..Len(stack)
  BY <1>1, StackFacts DEF IndInv, Typed
<1>3. unwind > 1 /\ unwind' # 0 /\ unwind' \in 0..Len(stack)
  <2>1. stack # <<>>
    BY <1>2
  <2>2. stack[1].kind = "entry"
    BY <2>1 DEF IndInv, Activations
  <2> QED
    BY <2>2, <1>1, <1>2
<1>4. StackTyped' /\ Activations' /\ CallersKnown' /\ JSFrames' = JSFrames
  BY <1>1, StackKept
<1>5. Standing' = Standing \ {unwind}
  <2>1. unwind \in Nat /\ \A k \in JSFrames : k \in Nat
    BY <1>2
  <2>2. \A k \in JSFrames : k <= unwind - 1 <=> k <= unwind /\ k # unwind
    BY <2>1
  <2>3. Standing' = {k \in JSFrames : k <= unwind - 1}
    BY <1>1, <1>3, <1>4 DEF Standing
  <2>4. Standing = {k \in JSFrames : k <= unwind}
    BY <1>1 DEF Standing
  <2> QED
    BY <2>2, <2>3, <2>4
<1>6. exception' \in {"none", "pending", "uncatchable"}
  BY DEF HandleExceptionFrame, CloseLiveIterators, IndInv, Typed
<1>7. Core' /\ HeapTyped'
  <2>1. CASE stack[unwind].kind = "js"
    <3>1. unwind \in Standing
      BY <2>1, <1>2 DEF Standing, JSFrames
    <3>2. heap' = IF stack[unwind].patched THEN Decref(heap, stack[unwind].ion) ELSE heap
      <4>1. heap' = IF CheckInvalidation(stack[unwind])
                    THEN Decref(heap, stack[unwind].ion) ELSE heap
        BY <2>1 DEF HandleExceptionFrame
      <4>2. CheckInvalidation(stack[unwind]) = stack[unwind].patched
        BY <3>1 DEF IndInv, Core, InvalidatedIsPatched
      <4> QED
        BY <4>1, <4>2
    <3> QED
      BY <1>1, <1>5, <3>1, <3>2, LeaveStep DEF IndInv
  <2>2. CASE stack[unwind].kind # "js"
    <3>1. Standing' = Standing /\ heap' = heap
      BY <2>2, <1>5 DEF Standing, JSFrames, HandleExceptionFrame
    <3> QED
      BY <1>1, <3>1, KeepStep DEF IndInv, Typed, HeapTyped
  <2> QED
    BY <2>1, <2>2
<1>8. Typed' /\ OneRuns' /\ OverrideIsTaken'
  BY <1>1, <1>3, <1>4, <1>6, <1>7
     DEF IndInv, Typed, StackTyped, OneRuns, NotEntering, OverrideIsTaken
<1> QED
  BY <1>4, <1>7, <1>8 DEF IndInv

LEMMA HandleExceptionEntryKeepsInv ==
  ASSUME ConstantsAssumption, IndInv, HandleExceptionEntry
  PROVE  IndInv'
<1> DEFINE m == unwind - 1
<1>1. /\ UNCHANGED <<ion, heap, entering>>
      /\ unwind # 0 /\ stack[unwind].kind = "entry" /\ stack' = SubSeq(stack, 1, m)
      /\ unwind' = 0 /\ exception' = "none" /\ override' = FALSE
  BY DEF HandleExceptionEntry
<1>2. /\ Len(stack) \in Nat /\ unwind \in 1..Len(stack) /\ JSFrames \subseteq 1..Len(stack)
      /\ m \in 0..Len(stack)
  BY <1>1, StackFacts DEF IndInv, Typed
<1>3. /\ StackTyped' /\ Activations' /\ CallersKnown'
      /\ Len(stack') = m /\ \A k \in 1..m : stack'[k] = stack[k]
      /\ JSFrames' = {k \in JSFrames : k <= m}
  BY <1>1, <1>2, StackPrefix
<1>4. Core'
  <2>1. Standing' = {k \in JSFrames : k <= m} /\ Standing = {k \in JSFrames : k <= unwind}
    BY <1>1, <1>3 DEF Standing
  <2>2. ASSUME NEW k \in JSFrames PROVE k <= unwind <=> k <= m
    BY <1>1, <1>2 DEF JSFrames
  <2>3. Standing' = Standing
    BY <2>1, <2>2
  <2>4. \A k \in Standing : k \in 1..m
    BY <2>1, <2>3, <1>2
  <2> QED
    BY <1>1, <1>3, <2>3, <2>4, KeepStep DEF IndInv
<1>5. Typed' /\ OneRuns' /\ OverrideIsTaken'
  <2>1. unwind' \in 0..Len(stack')
    BY <1>1, <1>2, <1>3
  <2> QED
    BY <1>1, <1>3, <2>1
       DEF IndInv, Typed, HeapTyped, StackTyped, OneRuns, NotEntering, OverrideIsTaken
<1> QED
  BY <1>3, <1>4, <1>5 DEF IndInv

\* The activation a frame is found on is the one it was made for.
LEMMA ActivationFacts ==
  ASSUME IndInv, NEW k \in JSFrames
  PROVE  stack[ActivationOf(k)].comp = CompartmentOf[stack[k].script]
<1> DEFINE E == {j \in 1..k : stack[j].kind = "entry"}
<1>1. k \in Nat
  BY StackFacts DEF IndInv
<1>2. PICK j \in 1..k :
         /\ stack[j].kind = "entry" /\ stack[j].comp = CompartmentOf[stack[k].script]
         /\ \A m \in (j + 1)..k : stack[m].kind # "entry"
  BY DEF IndInv, Activations
<1>3. j \in E /\ \A m \in E : m \in Nat /\ j >= m
  <2>1. ASSUME NEW m \in E PROVE m \in Nat /\ j >= m
    <3>1. m \in 1..k /\ stack[m].kind = "entry"
      OBVIOUS
    <3>2. m \notin (j + 1)..k
      BY <1>2, <3>1
    <3> QED
      BY <1>1, <3>1, <3>2
  <2> QED
    BY <1>2, <2>1
<1>4. Max(E) = j
  <2>1. \A x \in E : (\A y \in E : x >= y) => x = j
    BY <1>3
  <2>2. Max(E) \in E /\ \A y \in E : Max(E) >= y
    BY <1>3 DEF Max
  <2> QED
    BY <2>1, <2>2
<1> QED
  BY <1>2, <1>4 DEF ActivationOf

\* When code is dropped, no exception is handled, so all frames may still run.
LEMMA DropFacts ==
  ASSUME IndInv, ConstantsAssumption,
         unwind = 0, UNCHANGED <<entering, unwind, exception, override>>,
         OverrideIsTaken',
         NEW S \in SUBSET Scripts, \A s \in S : HasIonScript(s),
         stack' = Patch(FramesToPatch(S)),
         heap' = Restrict(Counts(S), DOMAIN Counts(S) \ Idle(S)),
         ion' = [s \in Scripts |-> IF s \in S THEN NoIon ELSE ion[s]]
  PROVE  IndInv'
<1>1. unwind' = 0
  OBVIOUS
<1>2. Core' /\ HeapTyped'
  BY <1>1, DropStep DEF IndInv
<1>3. FramesToPatch(S) \in SUBSET JSFrames
  BY DEF FramesToPatch, Standing
<1>4. StackTyped' /\ Activations' /\ CallersKnown'
  BY <1>3, StackPatched
<1>5. ion' \in [Scripts -> Ions \cup {NoIon, Disabled}]
  BY DEF IndInv, Typed
<1>6. unwind' \in 0..Len(stack')
  <2>1. Len(stack') \in Nat
    BY <1>4, LenProperties DEF StackTyped
  <2> QED
    BY <1>1, <2>1
<1>7. Typed' /\ OneRuns'
  BY <1>2, <1>4, <1>5, <1>6 DEF IndInv, Typed, StackTyped, OneRuns, NotEntering
<1> QED
  BY <1>2, <1>4, <1>7 DEF IndInv

LEMMA CollectKeepsInv ==
  ASSUME ConstantsAssumption, Sound, IndInv, NEW c \in Compartments, Collect(c)
  PROVE  IndInv'
<1> DEFINE S == {s \in Scripts : CompartmentOf[s] = c /\ HasIonScript(s)}
<1>1. /\ UNCHANGED <<entering, unwind, exception, override>> /\ ReleaseAllJITCode(c)
      /\ unwind = 0 /\ override = FALSE
  <2>1. ~ClosingRuns
    BY DEF ClosingRuns, Sound
  <2> QED
    BY <2>1, RunFacts DEF Collect
<1>2. InvalidateAll(c) = FramesToPatch(S)
  <2>1. Standing = JSFrames /\ \A k \in JSFrames : stack[k].script \in Scripts
    BY <1>1, RunFacts, StackFacts DEF IndInv, Frames
  <2>2. ASSUME NEW k \in JSFrames
        PROVE  k \in InvalidateAll(c) <=> k \in FramesToPatch(S)
    <3>1. stack[ActivationOf(k)].comp = CompartmentOf[stack[k].script]
      BY ActivationFacts
    <3>2. ~CheckInvalidation(stack[k]) <=> ~stack[k].patched
      BY <2>1, CurrentFacts DEF IndInv, CheckInvalidation
    <3>3. ~stack[k].patched => HasIonScript(stack[k].script)
      BY <2>1, CurrentFacts DEF IndInv
    <3> QED
      BY <2>1, <3>1, <3>2, <3>3 DEF InvalidateAll, Invalidates, FramesToPatch
  <2>3. InvalidateAll(c) \subseteq JSFrames /\ FramesToPatch(S) \subseteq JSFrames
    BY <2>1 DEF InvalidateAll, Invalidates, FramesToPatch
  <2> QED
    BY <2>2, <2>3
<1>3. Increfs(heap, InvalidateAll(c)) = Counts(S)
  BY <1>2, Zenon DEF Increfs, Counts
<1>4. /\ stack' = Patch(FramesToPatch(S)) /\ FinishInvalidation(S, Counts(S))
  BY <1>1, <1>2, <1>3, Zenon DEF ReleaseAllJITCode
<1>5. {ion[s] : s \in {t \in S : Counts(S)[ion[t]] = 0}} = Idle(S)
  <2>1. \A s \in S : ion[s] \in DOMAIN heap
    BY DEF IndInv, Core, IonsOwned
  <2> HIDE DEF S
  <2> QED
    BY <2>1 DEF Idle
<1>6. /\ heap' = Restrict(Counts(S), DOMAIN Counts(S) \ Idle(S))
      /\ ion' = [s \in Scripts |-> IF s \in S THEN NoIon ELSE ion[s]]
  BY <1>4, <1>5, Zenon DEF FinishInvalidation
<1>7. S \in SUBSET Scripts /\ \A s \in S : HasIonScript(s)
  OBVIOUS
<1>8. OverrideIsTaken'
  BY <1>1 DEF OverrideIsTaken
<1> HIDE DEF S
<1> QED
  BY <1>1, <1>4, <1>6, <1>7, <1>8, DropFacts

LEMMA ProcessPendingRecompilesKeepsInv ==
  ASSUME ConstantsAssumption, Sound, IndInv, NEW c \in Compartments,
         ProcessPendingRecompiles(c)
  PROVE  IndInv'
<1>1. PICK S \in SUBSET {s \in Scripts : CompartmentOf[s] = c /\ HasIonScript(s)} :
         S # {} /\ Invalidate(S, {})
  BY DEF ProcessPendingRecompiles, ListedTwice, Sound
<1>2. /\ UNCHANGED <<entering, unwind, exception, override>>
      /\ unwind = 0 /\ override = FALSE
  <2>1. UNCHANGED <<entering, unwind, exception, override>> /\ (Native \/ entering.fresh)
    BY DEF ProcessPendingRecompiles
  <2>2. entering.fresh => ~NotEntering
    BY DEF IndInv, OneRuns
  <2> QED
    BY <2>1, <2>2, RunFacts
<1>3. /\ S \in SUBSET Scripts /\ \A s \in S : HasIonScript(s)
      /\ {s \in S : HasIonScript(s)} = S /\ S \cap {} = {}
  OBVIOUS
<1> DEFINE held == [i \in DOMAIN heap |->
                      heap[i] + Cardinality({s \in S : ion[s] = i})
                              + Cardinality({s \in S \cap {} : ion[s] = i})]
           dropped == {ion[s] : s \in S}
           frames == Invalidates(held, FALSE)
           counts == [i \in DOMAIN heap |->
                        Increfs(held, frames)[i] - (IF i \in dropped THEN 1 ELSE 0)]
           idle == {i \in dropped : counts[i] = 0}
<1>4. /\ stack' = Patch(frames)
      /\ heap' = Restrict(counts, DOMAIN counts \ idle)
      /\ ion' = [s \in Scripts |-> IF s \in S THEN NoIon ELSE ion[s]]
  <2>1. {s \in S : HasIonScript(s)} = S
    BY <1>3
  <2> QED
    BY <1>1, <2>1 DEF Invalidate
    \* While the code is dropped, its IonScripts are held once more.
<1>5. ASSUME NEW i \in DOMAIN heap
      PROVE  heap[i] \in Nat /\ held[i] = heap[i] + (IF i \in dropped THEN 1 ELSE 0)
  <2>1. heap[i] \in Nat
    BY DEF IndInv, Typed, HeapTyped
  <2>2. Cardinality({s \in S \cap {} : ion[s] = i}) = 0
    <3>1. {s \in S \cap {} : ion[s] = i} = {}
      OBVIOUS
    <3> QED
      BY <3>1, FS_EmptySet
  <2>3. Cardinality({s \in S : ion[s] = i}) = IF i \in dropped THEN 1 ELSE 0
    <3>1. CASE i \notin dropped
      <4>1. {s \in S : ion[s] = i} = {}
        BY <3>1
      <4> QED
        BY <3>1, <4>1, FS_EmptySet
    <3>2. CASE i \in dropped
      <4>1. PICK t \in S : ion[t] = i
        BY <3>2
      <4>2. {s \in S : ion[s] = i} = {t}
        BY <4>1, <1>3 DEF IndInv, Core, IonsOwned
      <4>3. Cardinality({t}) = 1
        BY FS_Singleton
      <4> QED
        BY <3>2, <4>2, <4>3
    <3> QED
      BY <3>1, <3>2
  <2> HIDE DEF dropped
  <2> QED
    BY <2>1, <2>2, <2>3
<1>6. frames = FramesToPatch(S)
  <2>1. Standing = JSFrames
    BY <1>2, RunFacts
  <2>2. ASSUME NEW k \in JSFrames
        PROVE  k \in frames <=> k \in FramesToPatch(S)
    <3> DEFINE s == stack[k].script
    <3>1. s \in Scripts
      BY StackFacts DEF IndInv, Frames
    <3>2. ~CheckInvalidation(stack[k]) <=> ~stack[k].patched
      BY <2>1, CurrentFacts DEF IndInv, CheckInvalidation
    <3>3. CASE ~stack[k].patched
      <4>1. HasIonScript(s) /\ ion[s] \in DOMAIN heap /\ heap[ion[s]] = 0
        BY <2>1, <3>1, <3>3, CurrentFacts DEF IndInv, Core, IonsOwned
      <4>2. ion[s] \in dropped <=> s \in S
        BY <4>1, <3>1, <1>3 DEF IndInv, Core, IonsOwned
      <4>3. held[ion[s]] # 0 <=> s \in S
        <5> HIDE DEF held, dropped
        <5> QED
          BY <4>1, <4>2, <1>5
      <4> HIDE DEF held
      <4> QED
        BY <2>1, <3>2, <3>3, <4>3 DEF Invalidates, FramesToPatch
    <3>4. CASE stack[k].patched
      BY <3>2, <3>4 DEF Invalidates, FramesToPatch
    <3> QED
      BY <3>3, <3>4
  <2>3. frames \subseteq JSFrames /\ FramesToPatch(S) \subseteq JSFrames
    BY <2>1 DEF Invalidates, FramesToPatch
  <2> QED
    BY <2>2, <2>3
<1>7. \A F : {k \in FramesToPatch(S) : stack[k].ion = F} \in SUBSET JSFrames
  BY DEF FramesToPatch, Standing
<1>8. counts = Counts(S)
  <2>1. ASSUME NEW i \in DOMAIN heap PROVE counts[i] = Counts(S)[i]
    <3> DEFINE x == Cardinality({k \in FramesToPatch(S) : stack[k].ion = i})
    <3>1. x \in Nat
      BY <1>7, FramesFinite, StackFacts DEF IndInv
    <3>2. Increfs(held, frames)[i] = held[i] + x
      BY <1>6 DEF Increfs
    <3>3. Counts(S)[i] = heap[i] + x
      BY DEF Counts
    <3>4. counts[i] = Increfs(held, frames)[i] - (IF i \in dropped THEN 1 ELSE 0)
      OBVIOUS
    <3> HIDE DEF held, dropped, frames, counts, x
    <3> QED
      BY <1>5, <3>1, <3>2, <3>3, <3>4
  <2>2. DOMAIN Counts(S) = DOMAIN heap /\ Counts(S) = [i \in DOMAIN heap |-> Counts(S)[i]]
    BY DEF Counts
  <2>3. DOMAIN counts = DOMAIN heap /\ counts = [i \in DOMAIN heap |-> counts[i]]
    OBVIOUS
  <2> HIDE DEF counts
  <2> QED
    BY <2>1, <2>2, <2>3
<1>9. idle = Idle(S)
  <2>1. \A s \in S : ion[s] \in DOMAIN heap
    BY <1>3 DEF IndInv, Core, IonsOwned
  <2> HIDE DEF counts
  <2> QED
    BY <1>8, <2>1 DEF Idle
<1>10. /\ stack' = Patch(FramesToPatch(S))
       /\ heap' = Restrict(Counts(S), DOMAIN Counts(S) \ Idle(S))
  <2> HIDE DEF frames, counts, idle
  <2> QED
    BY <1>4, <1>6, <1>8, <1>9
<1>11. OverrideIsTaken'
  BY <1>2 DEF OverrideIsTaken
<1> QED
  BY <1>2, <1>3, <1>4, <1>10, <1>11, DropFacts

-----------------------------------------------------------------------------
(* The theorems.                                                            *)

LEMMA InitInv ==
  ASSUME ConstantsAssumption, Init
  PROVE  IndInv
<1>1. stack = <<>> /\ Len(stack) = 0 /\ DOMAIN stack = {}
  BY DEF Init
<1>2. heap \in [DOMAIN heap -> Nat] /\ DOMAIN heap = {}
  BY DEF Init
<1>3. JSFrames = {} /\ Standing = {}
  BY <1>1 DEF JSFrames, Standing
<1>4. Core
  BY <1>2, <1>3 DEF Core, IonsOwned, StandingHeld, RefcountExact, NothingLeaks,
                    InvalidatedIsPatched, HasIonScript, Init, ConstantsAssumption
<1>5. Activations /\ CallersKnown /\ OneRuns /\ OverrideIsTaken
  BY <1>1, <1>3 DEF Activations, CallersKnown, OneRuns, NotEntering, OverrideIsTaken, Init
<1>6. Typed
  <2>1. stack \in Seq(Elements) /\ Len(stack) <= MaxStack
    BY <1>1 DEF ConstantsAssumption
  <2>2. unwind \in 0..Len(stack)
    BY <1>1 DEF Init
  <2> QED
    BY <1>2, <2>1, <2>2 DEF Typed, HeapTyped, Init
<1> QED
  BY <1>4, <1>5, <1>6 DEF IndInv

LEMMA StepInv ==
  ASSUME ConstantsAssumption, Sound, IndInv, [Next]_vars
  PROVE  IndInv'
<1>1. ASSUME NEW c \in Compartments, Collect(c) \/ ProcessPendingRecompiles(c)
      PROVE  IndInv'
  BY <1>1, CollectKeepsInv, ProcessPendingRecompilesKeepsInv
<1>2. ASSUME NEW s \in Scripts,
             CannotCompile(s) \/ Compile(s) \/ CanEnter(s) \/ CallIon(s)
      PROVE  IndInv'
  BY <1>2, CannotCompileKeepsInv, CompileKeepsInv, CanEnterKeepsInv, CallIonKeepsInv
<1>3. CASE Skip \/ Cannon \/ CallVM \/ Return \/ VMReturn
  BY <1>3, SkipKeepsInv, CannonKeepsInv, CallVMKeepsInv, ReturnKeepsInv, VMReturnKeepsInv
<1>4. CASE Bailout \/ InvalidationBailout
  BY <1>4, BailoutKeepsInv
<1>5. CASE VMFail \/ HandleExceptionFrame \/ HandleExceptionEntry
  BY <1>5, VMFailKeepsInv, HandleExceptionFrameKeepsInv, HandleExceptionEntryKeepsInv
<1>6. CASE UNCHANGED vars
  <2>1. UNCHANGED <<ion, heap, stack, entering, unwind, exception, override>>
    BY <1>6 DEF vars
  <2>2. Standing' = Standing
    BY <2>1 DEF Standing, JSFrames
  <2>3. Core'
    BY <2>1, <2>2, KeepStep DEF IndInv
  <2>4. Activations' /\ CallersKnown'
    BY <2>1, StackKept
  <2>5. Typed' /\ OneRuns' /\ OverrideIsTaken'
    BY <2>1 DEF IndInv, Typed, HeapTyped, OneRuns, NotEntering, OverrideIsTaken, AtPatch,
                Top, Last
  <2> QED
    BY <2>3, <2>4, <2>5 DEF IndInv
<1> QED
  BY <1>1, <1>2, <1>3, <1>4, <1>5, <1>6 DEF Next

\* The invariant holds in every state, whatever scripts are compiled, called,
\* invalidated and unwound.
THEOREM Invariance == ConstantsAssumption /\ Sound => (Spec => []IndInv)
<1> SUFFICES ASSUME ConstantsAssumption, Sound PROVE Spec => []IndInv
  OBVIOUS
<1>1. Init => IndInv
  BY InitInv
<1>2. IndInv /\ [Next]_vars => IndInv'
  BY StepInv
<1> QED
  BY <1>1, <1>2, PTL DEF Spec

\* No frame that will run, bail out, be unwound or be traced by a collection is
\* one of an IonScript that InvalidateAll, Invalidate or a decref has destroyed.
THEOREM FramesAreHeld == ConstantsAssumption /\ Sound => (Spec => []FramesHeld)
<1> SUFFICES ASSUME ConstantsAssumption, Sound PROVE Spec => []FramesHeld
  OBVIOUS
<1>1. IndInv => FramesHeld
  BY DEF IndInv, Core, StandingHeld, FramesHeld, ClosingRuns, Sound
<1>2. Spec => []IndInv
  BY Invariance
<1> QED
  BY <1>1, <1>2, PTL

\* refcount_ counts the patched frames that are still to be left, and an
\* IonScript that nobody uses is not kept.
THEOREM CountsAreExact == ConstantsAssumption /\ Sound => (Spec => []CountsExact)
<1> SUFFICES ASSUME ConstantsAssumption, Sound PROVE Spec => []CountsExact
  OBVIOUS
<1>1. IndInv => CountsExact
  BY DEF IndInv, Core, CountsExact
<1>2. Spec => []IndInv
  BY Invariance
<1> QED
  BY <1>1, <1>2, PTL

LEMMA CoherentFromInv ==
  ASSUME ConstantsAssumption, IndInv
  PROVE  FramesCoherent
<1>1. /\ Len(stack) \in Nat /\ Len(stack) <= MaxStack /\ DOMAIN stack = 1..Len(stack)
      /\ \A k \in DOMAIN stack :
            /\ stack[k].kind \in {"entry", "js", "exit"}
            /\ stack[k].kind = "js" => stack[k] \in Frames
            /\ stack[k].kind = "exit" => stack[k] \in Exits
            /\ stack[k].kind = "entry" => stack[k] \in Entries
  BY StackFacts DEF IndInv, Typed
<1>2. \A i \in DOMAIN heap : heap[i] \in 0..(MaxStack + 1)
  <2> SUFFICES ASSUME NEW i \in DOMAIN heap PROVE heap[i] \in 0..(MaxStack + 1)
    OBVIOUS
  <2>1. heap[i] = Cardinality(Holders(i)) /\ Holders(i) \in SUBSET JSFrames
    BY StackFacts DEF IndInv, Core, RefcountExact, Holders
  <2>2. Cardinality(Holders(i)) \in 0..Len(stack)
    BY <2>1, FramesFinite DEF IndInv
  <2> QED
    BY <1>1, <2>1, <2>2 DEF ConstantsAssumption
<1>3. TypeOK
  <2>1. \A k \in DOMAIN stack : CASE
            stack[k].kind = "entry" -> stack[k].comp \in Compartments
         [] stack[k].kind = "js" -> stack[k].script \in Scripts /\ stack[k].ion \in Ions
         [] stack[k].kind = "exit" -> stack[k].adi \in Ions \cup {NoIon}
    BY <1>1 DEF Entries, Frames, Exits
  <2> QED
    BY <1>1, <1>2, <2>1 DEF TypeOK, IndInv, Typed, HeapTyped
<1>4. RunningIsCurrent
  BY RunFacts DEF RunningIsCurrent
<1> QED
  BY <1>3, <1>4 DEF FramesCoherent, IndInv, Core

\* checkInvalidation answers TRUE exactly for patched frames, Ion code that runs
\* is the code its script has, and an override is taken before Ion code goes on.
THEOREM FramesAreCoherent == ConstantsAssumption /\ Sound => (Spec => []FramesCoherent)
<1> SUFFICES ASSUME ConstantsAssumption, Sound PROVE Spec => []FramesCoherent
  OBVIOUS
<1>1. IndInv => FramesCoherent
  BY CoherentFromInv
<1>2. Spec => []IndInv
  BY Invariance
<1> QED
  BY <1>1, <1>2, PTL

\* An IonScript with references gets no frame but those it has.
LEMMA NoNewFrames ==
  ASSUME ConstantsAssumption, IndInv, [Next]_vars, NEW i, i \in DOMAIN heap, heap[i] # 0
  PROVE  FramesOf(i)' \subseteq FramesOf(i)
<1>1. \A s \in Scripts : HasIonScript(s) => ion[s] # i
  BY CurrentFacts DEF IndInv
<1>2. Len(stack) \in Nat /\ DOMAIN stack = 1..Len(stack) /\ JSFrames \subseteq 1..Len(stack)
  BY StackFacts DEF IndInv
<1>3. CASE UNCHANGED stack
  BY <1>3 DEF FramesOf, JSFrames
<1>4. ASSUME NEW F \in SUBSET JSFrames, stack' = Patch(F)
      PROVE  FramesOf(i)' \subseteq FramesOf(i)
  BY <1>2, <1>4, StackFacts DEF FramesOf, JSFrames, Patch, IndInv, Frames
<1>5. CASE \E c \in Compartments : Collect(c) \/ ProcessPendingRecompiles(c)
  <2>1. \E F \in SUBSET JSFrames : stack' = Patch(F)
    BY <1>5 DEF Collect, ReleaseAllJITCode, InvalidateAll, ProcessPendingRecompiles,
                Invalidate, Invalidates
  <2> QED
    BY <2>1, <1>4
<1>6. ASSUME NEW m \in 0..Len(stack), stack' = SubSeq(stack, 1, m)
      PROVE  FramesOf(i)' \subseteq FramesOf(i)
  <2>1. /\ JSFrames' = {k \in JSFrames : k <= m}
        /\ \A k \in 1..m : stack'[k] = stack[k]
    BY <1>6, StackPrefix
  <2>2. \A k \in JSFrames' : k \in 1..m /\ k \in JSFrames
    BY <1>2, <2>1
  <2> QED
    BY <2>1, <2>2 DEF FramesOf
<1>7. CASE Return \/ VMReturn
  <2>1. stack # <<>> /\ Top.kind # "entry" /\ stack' = Popped
    BY <1>7 DEF Return, VMReturn, Jit, Native
  <2>2. /\ JSFrames' = JSFrames \ {Len(stack)} /\ \A k \in JSFrames' : stack'[k] = stack[k]
    BY <2>1, PopFacts
  <2> QED
    BY <2>2 DEF FramesOf
<1>8. CASE HandleExceptionEntry
  <2>1. unwind - 1 \in 0..Len(stack) /\ stack' = SubSeq(stack, 1, unwind - 1)
    BY <1>2, <1>8 DEF HandleExceptionEntry, IndInv, Typed
  <2> QED
    BY <2>1, <1>6
<1>9. CASE Bailout \/ InvalidationBailout
  <2>1. /\ stack # <<>> /\ Top.kind = "js"
        /\ stack' = [stack EXCEPT ![Len(stack)] = Exit(NoIon)]
    BY <1>9 DEF Bailout, InvalidationBailout, ConvertFrame, Jit, AtPatch
  <2>2. /\ JSFrames' = JSFrames \ {Len(stack)} /\ \A k \in JSFrames' : stack'[k] = stack[k]
    BY <2>1, StackConverted
  <2> QED
    BY <2>2 DEF FramesOf
<1>10. CASE Cannon
  <2> DEFINE n == Len(stack)
             s == entering.script
  <2>1. /\ s \in Scripts /\ HasIonScript(s) /\ n \in Nat
        /\ stack' \in Seq(Elements) /\ Len(stack') = n + 2
        /\ \A k \in 1..n : stack'[k] = stack[k]
        /\ stack'[n + 1] = Entry(CompartmentOf[s]) /\ stack'[n + 2] = JSFrame(s, ion[s])
    BY <1>10, CannonFacts
  <2>2. DOMAIN stack' = 1..(n + 2)
    BY <2>1, LenProperties
  <2>3. stack'[n + 1].kind = "entry" /\ stack'[n + 2].ion # i
    BY <2>1, <1>1 DEF Entry, JSFrame
  <2>4. ASSUME NEW k \in FramesOf(i)' PROVE k \in FramesOf(i)
    <3>1. k \in 1..(n + 2) /\ stack'[k].kind = "js" /\ stack'[k].ion = i
      BY <2>2 DEF FramesOf, JSFrames
    <3>2. k \in 1..n
      BY <2>1, <2>3, <3>1
    <3> QED
      BY <2>1, <3>1, <3>2, <1>2 DEF FramesOf, JSFrames
  <2> QED
    BY <2>4
<1>11. ASSUME NEW x \in Elements, stack' = Append(stack, x), x.kind = "js" => x.ion # i
       PROVE  FramesOf(i)' \subseteq FramesOf(i)
  <2> DEFINE n == Len(stack)
  <2>1. /\ stack' \in Seq(Elements) /\ Len(stack') = n + 1 /\ n \in Nat
        /\ \A k \in 1..n : stack'[k] = stack[k]
        /\ stack'[n + 1] = x
    BY <1>11, AppendFacts
  <2>2. DOMAIN stack' = 1..(n + 1)
    BY <2>1, LenProperties
  <2>3. ASSUME NEW k \in FramesOf(i)' PROVE k \in FramesOf(i)
    <3>1. k \in 1..(n + 1) /\ stack'[k].kind = "js" /\ stack'[k].ion = i
      BY <2>2 DEF FramesOf, JSFrames
    <3>2. k \in 1..n
      BY <1>11, <2>1, <3>1
    <3> QED
      BY <2>1, <3>1, <3>2, <1>2 DEF FramesOf, JSFrames
  <2> QED
    BY <2>3
<1>12. CASE \E s \in Scripts : CallIon(s)
  <2>1. PICK s \in Scripts : HasIonScript(s) /\ stack' = Append(stack, JSFrame(s, ion[s]))
    BY <1>12 DEF CallIon
  <2>2. JSFrame(s, ion[s]) \in Elements /\ JSFrame(s, ion[s]).ion # i
    BY <2>1, <1>1 DEF JSFrame, Elements, Frames, HasIonScript
  <2> QED
    BY <2>1, <2>2, <1>11
<1>13. CASE CallVM
  <2>1. PICK a \in {NoIon, ion[Top.script]} : stack' = Append(stack, Exit(a))
    BY <1>13 DEF CallVM
  <2>2. HasIonScript(Top.script)
    BY <1>13, RunFacts DEF CallVM
  <2>3. Exit(a) \in Elements /\ Exit(a).kind = "exit"
    BY <2>2 DEF Exit, Elements, Exits, HasIonScript
  <2> QED
    BY <2>1, <2>3, <1>11
<1>14. CASE \/ \E s \in Scripts : CannotCompile(s) \/ Compile(s) \/ CanEnter(s)
            \/ Skip \/ VMFail \/ HandleExceptionFrame
  BY <1>3, <1>14 DEF CannotCompile, Compile, CanEnter, Skip, VMFail, HandleExceptionFrame
<1>15. CASE UNCHANGED vars
  BY <1>3, <1>15 DEF vars
<1> QED
  BY <1>5, <1>7, <1>8, <1>9, <1>10, <1>12, <1>13, <1>14, <1>15 DEF Next

\* Frames of an IonScript that has been invalidated and is held by its frames
\* only leave the stack, until it is destroyed: neither CanEnter nor a call from
\* other Ion code gets to it.
THEOREM InvalidatedIsNotEntered ==
  ConstantsAssumption /\ Sound => (Spec => InvalidatedNeverEntered)
<1> SUFFICES ASSUME ConstantsAssumption, Sound PROVE Spec => InvalidatedNeverEntered
  OBVIOUS
<1>1. ASSUME IndInv, [Next]_vars
      PROVE  [\A i \in Ions : (i \in DOMAIN heap /\ heap[i] # 0 /\ i \in DOMAIN heap')
                                  => FramesOf(i)' \subseteq FramesOf(i)]_vars
  BY <1>1, NoNewFrames
<1>2. Spec => []IndInv
  BY Invariance
<1> QED
  BY <1>1, <1>2, PTL DEF Spec, InvalidatedNeverEntered
=============================================================================
