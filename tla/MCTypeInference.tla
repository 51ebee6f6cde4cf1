-------------------------- MODULE MCTypeInference --------------------------
(* Small programs for TypeInference.  f reads property p, carries the value *)
(* round two loops and stores it in q; g reads q and stores it, and a        *)
(* double, in p.  A behaviour has the bounds of one family.                  *)
EXTENDS Integers, Sequences, TLC

CONSTANT Checked    \* the families that a run checks

VARIABLES
    family, ti, active, todo, compiling, ran, enabled, disabled, request, compiles, gcs, ooms

vars == <<family, ti, active, todo, compiling, ran, enabled, disabled, request,
          compiles, gcs, ooms>>

Sub(s, t) == [op |-> "constraint", set |-> s, con |-> [kind |-> "subset", target |-> t]]
Bar(s, t) == [op |-> "constraint", set |-> s, con |-> [kind |-> "barrier", target |-> t]]
Ask(o, s) == [op |-> o, set |-> s]

MCObserved == [r \in {"fp", "gq"} |-> IF r = "fp" THEN [script |-> "f", source |-> "p"]
                                      ELSE [script |-> "g", source |-> "q"]]

MCAnalysis(g) == [s \in {"f", "g"} |->
    IF s = "f" THEN <<Bar("p", "fp"), Sub("fp", "v"), Sub("v", "w"), Sub("w", "v"), Sub("w", "q")>>
    ELSE g]

StoreBoth == <<[op |-> "type", set |-> "k", type |-> "double"],
               Bar("q", "gq"), Sub("gq", "p"), Sub("k", "p")>>

MCCompilation ==
    LET ion == [s \in {"f", "g"} |->
            IF s = "f" THEN <<Ask("freeze", "arg"), Ask("site", "fp"), Ask("tag", "fp"),
                              [op |-> "inline", script |-> "g"]>>
            ELSE <<Ask("site", "gq"), Ask("tag", "gq")>>]
    IN [j \in {"ion", "mjit"} |->
           IF j = "ion" THEN ion
           ELSE [s \in {"f", "g"} |-> SelectSeq(ion[s], LAMBDA o : o.op # "inline")]]

Numbers == [g |-> StoreBoth, objects |-> {}, contributed |-> {}, writes |-> {<<"p", "int">>}, objectLimit |-> 3, barrierLimit |-> 2,
            breaks |-> {}, compiles |-> 1, gcs |-> 0, ooms |-> 0, sweepOom |-> FALSE]
OneObject == [objects |-> {"o1"}, writes |-> {<<"p", "int">>, <<"p", "o1">>}]
TwoObjects == [objects |-> {"o1", "o2"}, writes |-> {<<"p", "o1">>, <<"p", "o2">>}]

(* flow: barriers that are broken and inlined calls.  objects: more objects *)
(* than a set holds; limit: than a read has barriers for.  contributed: one *)
(* object is in too many sets already.  gc: collections between and during  *)
(* activations.  ooms: allocations that fail.  answers: compilations until  *)
(* the use counts give up.  The others show where the code breaks its       *)
(* promise: broken barriers on objects, a failure in the sweep, and a       *)
(* compilation that is asked for again and again after one.                 *)
Families ==
    [flow |-> [Numbers EXCEPT !.objects = {"o1"}, !.writes = {<<"p", "o1">>, <<"arg", "int">>},
                              !.breaks = {"fp", "gq"}],
     objects |-> TwoObjects @@ [Numbers EXCEPT !.g = <<Bar("q", "gq"), Sub("gq", "p")>>, !.objectLimit = 2, !.barrierLimit = 1],
     limit |-> TwoObjects @@ [Numbers EXCEPT !.g = <<Bar("q", "gq"), Sub("gq", "p")>>, !.barrierLimit = 1],
     contributed |-> TwoObjects @@ [Numbers EXCEPT !.g = <<Bar("q", "gq"), Sub("gq", "p")>>,
                                               !.contributed = {"o2"}],
     gc |-> OneObject @@ [Numbers EXCEPT !.gcs = 1],
     ooms |-> [Numbers EXCEPT !.gcs = 1, !.ooms = 1, !.sweepOom = TRUE],
     answers |-> [Numbers EXCEPT !.compiles = 3],
     broken |-> TwoObjects @@ [Numbers EXCEPT !.breaks = {"fp"}],
     sweepOom |-> TwoObjects @@ [Numbers EXCEPT !.gcs = 1, !.ooms = 1, !.sweepOom = TRUE],
     restart |-> [Numbers EXCEPT !.compiles = 2, !.ooms = 1]]

Program(f) == INSTANCE TypeInference WITH
    Scripts <- {"f", "g"}, Sets <- {"p", "q", "fp", "gq", "k", "v", "w", "arg"},
    Transient <- {"k", "v", "w"}, Observed <- MCObserved, Objects <- Families[f].objects,
    UnknownProps <- {}, Contributed <- Families[f].contributed,
    Analysis <- MCAnalysis(Families[f].g), Compilation <- MCCompilation,
    Writes <- Families[f].writes, ObjectLimit <- Families[f].objectLimit,
    BarrierLimit <- Families[f].barrierLimit, Breaks <- Families[f].breaks,
    MaxCompiles <- Families[f].compiles, MaxGCs <- Families[f].gcs,
    MaxOoms <- Families[f].ooms, SweepOom <- Families[f].sweepOom

ASSUME FamiliesAssumption == \A f \in Checked : Program(f)!ProgramAssumption

Init == \E f \in Checked : family = f /\ Program(f)!Init
Next == \E f \in Checked : family = f /\ Program(f)!Next /\ UNCHANGED family
(* Fairness, and what must eventually happen, for the smaller families.      *)
Ending == {"objects", "ooms", "answers"}
Work == \E f \in Ending : family = f /\ Program(f)!Work /\ UNCHANGED family
Spec == Init /\ [][Next]_vars /\ WF_vars(Work)

(* The properties of TypeInference, for the programs of each family.        *)

\* Between activations every set has the types its constraints promise, and a
\* set never has more objects than its limit.
TypesFlow == \A f \in Checked : family = f => Program(f)!TypeOK /\ Program(f)!TypesFlow

\* Code that scripts may run relies only on what still holds.
CodeSound == \A f \in Checked : family = f => Program(f)!CodeSound

\* A failure is dealt with before the activation ends, when it is not in a sweep.
NukedAtOnce == \A f \in Checked : family = f => Program(f)!NukedAtOnce

\* The worklist is emptied and the activation ends.
InferenceEnds == (family \in Ending /\ active) ~> ~active

\* CanMethodJIT gives an answer, when no allocation fails.
RequestReturns ==
    (family \in Ending \ {"ooms"} /\ request.kind # "none") ~> request.kind = "none"

\* Inference comes to an end, and so do the requests that wait for it.
InferenceProgress == InferenceEnds /\ RequestReturns
=============================================================================
