----------------------------- MODULE IonScripts -----------------------------
(***************************************************************************)
(* The life of Ion code: a script is compiled (ion/Ion.cpp Compile), its   *)
(* code is entered from the interpreter (CanEnter, Cannon) or called by    *)
(* other Ion code, and is invalidated, while frames of it may be anywhere  *)
(* on the native stack, by type inference (Invalidate) or by a collection  *)
(* (InvalidateAll, FinishInvalidation).  An invalidated frame is patched:  *)
(* when control returns to it, it bails out to the interpreter             *)
(* (InvalidationBailout).  The frame holds a reference to the IonScript,   *)
(* because the bailout, the exception handler and the marker of the        *)
(* collector still read it.                                                *)
(*                                                                         *)
(* One JSContext runs, so one stack is all the concurrency there is; what  *)
(* makes this hard is that invalidation happens below a frame that goes on *)
(* later.  `stack` is the native stack, innermost last: an "entry" opens   *)
(* an IonActivation (EnterIon), a "js" element is a frame of Ion code, an  *)
(* "exit" is C++ code called by the Ion frame below it or running in place *)
(* of a frame that has bailed out.  C++ code runs when the stack is empty  *)
(* or ends in an exit; Ion code runs when it ends in a js frame.           *)
(*                                                                         *)
(* Left out: the use counts (a compilation starts when it likes), what     *)
(* bytecode pc a loop is entered at (OSR enters the same code), inlined    *)
(* frames, and the values a bailout reconstructs.                          *)
(***************************************************************************)
EXTENDS Integers, Sequences, FiniteSets, SequencesExt, FiniteSetsExt, Functions

CONSTANTS
    Scripts,         \* JSScripts
    Ions,            \* addresses at which an IonScript may be allocated
    CompartmentOf,   \* the compartment of every script
    MaxStack,        \* bound: elements of the native stack
    RejectedFrames,  \* TRUE: CheckFrame may refuse a frame of compiled code
    TwoForms,        \* TRUE: scripts have method JIT code for `new` as well
    LiveIterators,   \* kinds of iterators open in frames that are unwound
    NoIon, Disabled  \* script->ion is NULL or ION_DISABLED_SCRIPT

ASSUME ConstantsAssumption ==
    /\ CompartmentOf \in [Scripts -> Range(CompartmentOf)]
    /\ MaxStack \in Nat
    /\ {RejectedFrames, TwoForms} \subseteq BOOLEAN
    /\ LiveIterators \subseteq {"native", "generator"}
    /\ NoIon \notin Scripts \cup Ions /\ Disabled \notin Ions /\ NoIon # Disabled

VARIABLES
    ion,        \* script->ion
    heap,       \* refcount_ of every allocated IonScript
    stack,      \* the native stack
    entering,   \* the script CanEnter has answered Method_Compiled for
    unwind,     \* the element HandleException has come to, 0 when it is not running
    exception,  \* how the running C++ code fails: "none", "pending", "uncatchable"
    override    \* hasIonReturnOverride()

vars == <<ion, heap, stack, entering, unwind, exception, override>>

Compartments == Range(CompartmentOf)

Entry(c) == [kind |-> "entry", comp |-> c]
JSFrame(s, i) == [kind |-> "js", script |-> s, ion |-> i, patched |-> FALSE]
\* adi: the ion_ an AutoDetectInvalidation on the C++ stack remembers.
Exit(a) == [kind |-> "exit", adi |-> a]

Init ==
    /\ ion = [s \in Scripts |-> NoIon]
    /\ heap = [i \in {} |-> 0]
    /\ stack = <<>>
    /\ entering = [script |-> NoIon, fresh |-> FALSE]
    /\ unwind = 0
    /\ exception = "none"
    /\ override = FALSE

-----------------------------------------------------------------------------
(* Who runs. *)

Top == Last(stack)
NotEntering == entering.script = NoIon

\* C++ code: the interpreter, a VM function, a bailout's interpreter.
Native == unwind = 0 /\ NotEntering /\ (stack # <<>> => Top.kind = "exit")

\* Ion code.
Jit == unwind = 0 /\ NotEntering /\ stack # <<>> /\ Top.kind = "js" /\ ~Top.patched

\* Control has come back to a frame whose code has been patched meanwhile.
AtPatch == unwind = 0 /\ NotEntering /\ stack # <<>> /\ Top.kind = "js" /\ Top.patched

JSFrames == {k \in DOMAIN stack : stack[k].kind = "js"}
ActivationOf(k) == Max({j \in 1..k : stack[j].kind = "entry"})

HasIonScript(s) == ion[s] \in Ions

\* The frame is not one of its script's current IonScript.
CheckInvalidation(f) == ~HasIonScript(f.script) \/ ion[f.script] # f.ion

\* decref: the last reference destroys the IonScript.
Decref(h, i) ==
    IF h[i] = 1 THEN Restrict(h, DOMAIN h \ {i}) ELSE [h EXCEPT ![i] = @ - 1]

-----------------------------------------------------------------------------
(* Invalidation. *)

\* The frames InvalidateActivation patches when IonScripts have the counts h.
Invalidates(h, all) ==
    {k \in JSFrames : /\ ~CheckInvalidation(stack[k])
                      /\ all \/ h[ion[stack[k].script]] # 0}

\* Bug: Frames do not take references.
IncrefsNone(h, frames) == h

\* Every patched frame takes a reference.
Increfs(h, frames) ==
    [i \in DOMAIN h |-> h[i] + Cardinality({k \in frames : stack[k].ion = i})]

\* Bug: Invalidation patches no frame.
PatchNone(frames) == stack

Patch(frames) ==
    [k \in DOMAIN stack |->
        IF k \in frames THEN [stack[k] EXCEPT !.patched = TRUE] ELSE stack[k]]

\* The frames of compartment c, on all of its activations.
InvalidateAll(c) == {k \in Invalidates(heap, TRUE) : stack[ActivationOf(k)].comp = c}

\* The scripts lose their IonScripts, and those without references are freed.
FinishInvalidation(scripts, counts) ==
    LET idle == {ion[s] : s \in {t \in scripts : counts[ion[t]] = 0}}
    IN  /\ heap' = Restrict(counts, DOMAIN counts \ idle)
        /\ ion' = [s \in Scripts |-> IF s \in scripts THEN NoIon ELSE ion[s]]

ReleaseAllJITCode(c) ==
    LET frames == InvalidateAll(c)
    IN  /\ stack' = Patch(frames)
        /\ FinishInvalidation({s \in Scripts : CompartmentOf[s] = c /\ HasIonScript(s)},
                              Increfs(heap, frames))

\* Type inference drops the scripts named; `twice` are on the list twice.
Invalidate(named, twice) ==
    LET scripts == {s \in named : HasIonScript(s)}
        held == [i \in DOMAIN heap |->
                    heap[i] + Cardinality({s \in scripts : ion[s] = i})
                            + Cardinality({s \in scripts \cap twice : ion[s] = i})]
        frames == Invalidates(held, FALSE)
        dropped == {ion[s] : s \in scripts}
        counts == [i \in DOMAIN heap |->
                      Increfs(held, frames)[i] - (IF i \in dropped THEN 1 ELSE 0)]
        idle == {i \in dropped : counts[i] = 0}
    IN  /\ stack' = Patch(frames)
        /\ heap' = Restrict(counts, DOMAIN counts \ idle)
        /\ ion' = [s \in Scripts |-> IF s \in scripts THEN NoIon ELSE ion[s]]

\* An iterator of the frame being unwound is a generator with work to do, and
\* an uncatchable error closes it: the generator runs.
ClosingRuns ==
    /\ unwind # 0 /\ stack[unwind].kind = "js"
    /\ exception = "uncatchable" /\ "generator" \in LiveIterators

\* A collection of compartment c discards its code.  It may start in C++ code,
\* in enterJIT, and in the generators closed by the exception handler.
Collect(c) ==
    /\ TRUE \in {Native, ~NotEntering, ClosingRuns}
    /\ \E s \in Scripts : CompartmentOf[s] = c /\ HasIonScript(s)
    /\ ReleaseAllJITCode(c)
    /\ UNCHANGED <<entering, unwind, exception, override>>

\* addPendingRecompile merges equal entries only, so a script with two forms of
\* method JIT code is on the list twice.
ListedTwice(named) == IF TwoForms THEN {{}, named} ELSE {{}}

\* Types change under C++ code, or were found wrong by the compilation that
\* has just ended.
ProcessPendingRecompiles(c) ==
    /\ TRUE \in {Native, entering.fresh}
    /\ \E named \in SUBSET {s \in Scripts : CompartmentOf[s] = c /\ HasIonScript(s)} :
          /\ named # {}
          /\ \E twice \in ListedTwice(named) : Invalidate(named, twice)
    /\ UNCHANGED <<entering, unwind, exception, override>>

-----------------------------------------------------------------------------
(* Entering Ion code. *)

\* CanEnter and CanEnterAtBranch when Compile gives the script up.
CannotCompile(s) ==
    /\ Native
    /\ ion[s] \in {NoIon} \cup IF RejectedFrames THEN Ions ELSE {}
    /\ ion' = [ion EXCEPT ![s] = Disabled]
    /\ UNCHANGED <<heap, stack, entering, unwind, exception, override>>

\* Compile makes an IonScript, at any address that is free.
Compile(s) ==
    /\ Native
    /\ ion[s] = NoIon
    /\ \E i \in Ions \ DOMAIN heap :
          /\ ion' = [ion EXCEPT ![s] = i]
          /\ heap' = [j \in DOMAIN heap \cup {i} |-> IF j = i THEN 0 ELSE heap[j]]
    /\ entering' = [script |-> s, fresh |-> TRUE]
    /\ UNCHANGED <<stack, unwind, exception, override>>

\* The script has code already.
CanEnter(s) ==
    /\ Native
    /\ HasIonScript(s)
    /\ entering' = [script |-> s, fresh |-> FALSE]
    /\ UNCHANGED <<ion, heap, stack, unwind, exception, override>>

\* After enterJIT: the script may have lost its code, or enterJIT has failed.
Skip ==
    /\ ~NotEntering
    /\ entering' = [script |-> NoIon, fresh |-> FALSE]
    /\ UNCHANGED <<ion, heap, stack, unwind, exception, override>>

Cannon ==
    /\ ~NotEntering
    /\ HasIonScript(entering.script)
    /\ Len(stack) + 2 <= MaxStack
    /\ stack' = stack \o <<Entry(CompartmentOf[entering.script]),
                           JSFrame(entering.script, ion[entering.script])>>
    /\ entering' = [script |-> NoIon, fresh |-> FALSE]
    /\ UNCHANGED <<ion, heap, unwind, exception, override>>

-----------------------------------------------------------------------------
(* Ion code running. *)

\* A call of a function whose script has Ion code; the others go through C++.
CallIon(s) ==
    /\ Jit
    /\ HasIonScript(s)
    /\ CompartmentOf[s] = CompartmentOf[Top.script]
    /\ Len(stack) < MaxStack
    /\ stack' = Append(stack, JSFrame(s, ion[s]))
    /\ UNCHANGED <<ion, heap, entering, unwind, exception, override>>

\* A VM function, some of which watch for the invalidation of their caller.
CallVM ==
    /\ Jit
    /\ Len(stack) < MaxStack
    /\ \E a \in {NoIon, ion[Top.script]} : stack' = Append(stack, Exit(a))
    /\ UNCHANGED <<ion, heap, entering, unwind, exception, override>>

\* The element on top is done; with the last frame its activation ends.
Popped == LET n == Len(stack) - 1
          IN  SubSeq(stack, 1, IF stack[n].kind = "entry" THEN n - 1 ELSE n)

Return ==
    /\ Jit
    /\ stack' = Popped
    /\ UNCHANGED <<ion, heap, entering, unwind, exception, override>>

\* ~AutoDetectInvalidation: the caller lost its code during the VM call.
Detected == Top.adi # NoIon /\ ion[stack[Len(stack) - 1].script] # Top.adi

VMReturn ==
    /\ Native /\ stack # <<>>
    /\ override' = (override \/ Detected)
    /\ stack' = Popped
    /\ UNCHANGED <<ion, heap, entering, unwind, exception>>

-----------------------------------------------------------------------------
(* Bailouts. *)

\* The frame becomes an exit frame in which the interpreter goes on, or, when
\* the interpreter's frames cannot be made, an error is handled.
ConvertFrame ==
    /\ stack' = [stack EXCEPT ![Len(stack)] = Exit(NoIon)]
    /\ \/ unwind' = 0 /\ exception' = "none"
       \/ unwind' = Len(stack) /\ exception' = "pending"

Bailout ==
    /\ Jit
    /\ ConvertFrame
    /\ UNCHANGED <<ion, heap, entering, override>>

\* The frame gives its reference back; the override is the value of the call.
InvalidationBailout ==
    /\ AtPatch
    /\ ConvertFrame
    /\ heap' = Decref(heap, Top.ion)
    /\ override' = FALSE
    /\ UNCHANGED <<ion, entering>>

-----------------------------------------------------------------------------
(* Exceptions. *)

\* A VM function or the interpreter of a bailout fails.
VMFail ==
    /\ Native /\ stack # <<>>
    /\ override' = (override \/ Detected)
    /\ unwind' = Len(stack)
    /\ exception' \in {"pending", "uncatchable"}
    /\ UNCHANGED <<ion, heap, stack, entering>>

\* CloseLiveIterator takes the branches as they are written: an uncatchable
\* error goes to UnwindIteratorForException, which reads, clears and sets the
\* pending exception.
CloseLiveIterators ==
    \/ UNCHANGED exception
    \/ LiveIterators # {} /\ exception = "uncatchable" /\ exception' = "pending"

\* Bug: The exception handler does not return the references.
HandleExceptionKeeps ==
    /\ unwind # 0 /\ stack[unwind].kind # "entry"
    /\ IF stack[unwind].kind = "js" THEN CloseLiveIterators ELSE UNCHANGED exception
    /\ unwind' = unwind - 1
    /\ UNCHANGED <<ion, heap, stack, entering, override>>

HandleExceptionFrame ==
    /\ unwind # 0 /\ stack[unwind].kind # "entry"
    /\ IF stack[unwind].kind = "js"
       THEN /\ CloseLiveIterators
            /\ heap' = IF CheckInvalidation(stack[unwind])
                       THEN Decref(heap, stack[unwind].ion) ELSE heap
       ELSE UNCHANGED <<exception, heap>>
    /\ unwind' = unwind - 1
    /\ UNCHANGED <<ion, stack, entering, override>>

\* The entry frame: the activation ends, and its caller sees the failure.
HandleExceptionEntry ==
    /\ unwind # 0 /\ stack[unwind].kind = "entry"
    /\ stack' = SubSeq(stack, 1, unwind - 1)
    /\ unwind' = 0
    /\ exception' = "none"
    /\ override' = FALSE
    /\ UNCHANGED <<ion, heap, entering>>

-----------------------------------------------------------------------------
Next ==
    \/ \E c \in Compartments : Collect(c) \/ ProcessPendingRecompiles(c)
    \/ \E s \in Scripts : CannotCompile(s) \/ Compile(s) \/ CanEnter(s) \/ CallIon(s)
    \/ Skip \/ Cannon \/ CallVM \/ Return \/ VMReturn
    \/ Bailout \/ InvalidationBailout
    \/ VMFail \/ HandleExceptionFrame \/ HandleExceptionEntry

Spec == Init /\ [][Next]_vars

-----------------------------------------------------------------------------
(* Properties. *)

\* The frames HandleException has not passed yet.
Standing == {k \in JSFrames : unwind = 0 \/ k <= unwind}

\* Every variable has its type; an activation is an entry, frames of Ion code
\* and at most one exit (IonActivation, IonFrameIterator).
TypeOK ==
    /\ ion \in [Scripts -> Ions \cup {NoIon, Disabled}]
    /\ DOMAIN heap \subseteq Ions
    /\ \A i \in DOMAIN heap : heap[i] \in 0..(MaxStack + 1)
    /\ Len(stack) <= MaxStack
    /\ \A k \in DOMAIN stack : CASE
          stack[k].kind = "entry" -> stack[k].comp \in Compartments
       [] stack[k].kind = "js" -> stack[k].script \in Scripts /\ stack[k].ion \in Ions
       [] stack[k].kind = "exit" -> stack[k].adi \in Ions \cup {NoIon}
    /\ entering.script \in Scripts \cup {NoIon} /\ entering.fresh \in BOOLEAN
    /\ unwind \in 0..Len(stack)
    /\ exception \in {"none", "pending", "uncatchable"}
    /\ override \in BOOLEAN

\* No frame that will run, bail out, be unwound or be traced by a collection
\* (MarkIonJSFrame) is one of an IonScript that has been destroyed.
FramesHeld ==
    \A k \in IF ClosingRuns THEN JSFrames ELSE Standing : stack[k].ion \in DOMAIN heap

\* refcount_ is the number of invalidated frames still on the stack: neither
\* a frame patched twice nor one unwound by an exception is counted wrongly.
RefcountExact ==
    \A i \in DOMAIN heap :
        heap[i] = Cardinality({k \in Standing : stack[k].patched /\ stack[k].ion = i})

\* "If a script was never active, its IonScript will be immediately destroyed.
\* Otherwise, it will be held live until its last invalidated frame is
\* destroyed" (ion::Invalidate): nothing allocated is out of reach.
NothingLeaks ==
    \A i \in DOMAIN heap :
        \/ \E s \in Scripts : ion[s] = i
        \/ \E k \in Standing : stack[k].patched /\ stack[k].ion = i

\* checkInvalidation answers TRUE only for frames whose code was patched: only
\* there does it find an IonScript in the invalidation epilogue.
InvalidatedIsPatched ==
    \A k \in Standing : CheckInvalidation(stack[k]) = stack[k].patched

\* Ion code that runs is the code its script has now, where a bailout of the
\* running frame looks for the snapshots (FrameRecovery::ionScript).
RunningIsCurrent == Jit => ion[Top.script] = Top.ion

\* The return override waits only for the invalidation bailout of the frame on
\* top or for the exception handler: EnterIon asserts that none is left.
OverrideIsTaken == override => AtPatch \/ unwind # 0

\* What invalidation leaves on the stack is what bailouts, returns and the
\* exception handler rely on.
FramesCoherent == TypeOK /\ InvalidatedIsPatched /\ RunningIsCurrent /\ OverrideIsTaken

\* An IonScript is freed when, and not before, its last user is gone.
CountsExact == RefcountExact /\ NothingLeaks

\* Once invalidated, an IonScript gets no new frame until it is destroyed.
FramesOf(i) == {k \in JSFrames : stack[k].ion = i}
InvalidatedNeverEntered ==
    [][\A i \in Ions :
          (i \in DOMAIN heap /\ heap[i] # 0 /\ i \in DOMAIN heap')
          => FramesOf(i)' \subseteq FramesOf(i)]_vars

\* Closing iterators does not turn the termination of a script into an
\* exception that scripts can catch (getPendingException: JS_ASSERT(throwing)).
TerminationSticks ==
    [][unwind # 0 /\ exception = "uncatchable" => exception' # "pending"]_vars
=============================================================================
