-------------------------------- MODULE Labs --------------------------------
(* Six parts of the system that share no state, explored side by side: a      *)
(* behaviour picks one and runs it while the others stay as they started.     *)
EXTENDS Integers, Sequences, FiniteSets

CONSTANTS
    Published, People,                                      \* FieldReview
    Assets, Transactions, Pages, Requests, MaxVersions,     \* OutcomeKernel
    Evaluators, Scores, Choices, Experiments, Target,       \* PreservationStudy
    Width, Greys, SourceGreys, Geometries,                  \* PixelPreservation
    Actors, Blueprints, Profiles, Bound,                    \* RequirementCatalog
    Variables, Conditionals, Policy, Inputs, MaxSpecs       \* SpecAuthority

VARIABLES
    focus,
    field, reviewAsks, screen,
    versions, assetHead, txn, leases, patch, runs, verified, commits, shown,
    experiment, enrolled, stored, studyAsks, page, learned, decided,
    phase, geometry, policy, source, raw, candidate, verdict,
    blueprints, profiles, bindings, actor, resolved,
    specs, specHead, bound, verification, authorized

Review == INSTANCE FieldReview WITH asks <- reviewAsks
Kernel == INSTANCE OutcomeKernel WITH head <- assetHead
Study == INSTANCE PreservationStudy WITH asks <- studyAsks
Pixels == INSTANCE PixelPreservation
Catalog == INSTANCE RequirementCatalog WITH Transactions <- Bound
Specification == INSTANCE SpecAuthority WITH head <- specHead

\* What the parts need of their constants, for a proof of any instance: a page
\* opens on some outcome,
ASSUME ReviewConstants == Published # {}

\* the lab asks what its forms can express,
ASSUME KernelConstants == MaxVersions \in Nat /\ Requests \subseteq Kernel!AllRequests

\* so does the study (PairwisePreferenceSchema, AcceptanceJudgmentSchema), and a
\* decision needs a case,
ASSUME StudyConstants ==
    /\ Choices.preferences \subseteq Study!Preferences
    /\ Choices.acceptances \subseteq Study!Acceptances
    /\ Experiments \subseteq Study!PixelGains \cup {"FAILED"}
    /\ Target \in Nat \ {0}

\* a pixel is a byte,
ASSUME PixelConstants ==
    Width \in Nat \ {0} /\ Greys \subseteq 0..255 /\ SourceGreys \subseteq 0..255

\* and a blueprint is what OutcomeBlueprintDefinitionSchema lets through: ids are
\* unique, a fixed variable has a value, conditionals name variables, nothing is
\* both granted and denied. The schema does not ask for the last two conjuncts
\* on conditionals, which the Precision Edit blueprint satisfies: none decides
\* about the condition of another, and a default is an allowed value.
ASSUME BlueprintConstants ==
    /\ MaxSpecs \in Nat
    /\ \A v \in Variables :
        /\ v.kind \in {"FIXED", "PARAMETERIZED"}
        /\ v.kind = "FIXED" => Specification!Known(v)
        /\ \A w \in Variables : v.id = w.id => v = w
    /\ Policy.denied \cap (Policy.required \cup Policy.optional) = {}
    /\ \A c \in Conditionals :
        /\ {c.when, c.target} \subseteq {v.id : v \in Variables}
        /\ c.equals # Specification!None
        /\ \A d \in Conditionals : c.when # d.target
        /\ \A v \in Variables : v.id = c.target /\ v.kind = "PARAMETERIZED"
                                => Specification!Fits(v, c.default)

-----------------------------------------------------------------------------

reviewVars == <<field, reviewAsks, screen>>
kernelVars == <<versions, assetHead, txn, leases, patch, runs, verified, commits, shown>>
studyVars == <<experiment, enrolled, stored, studyAsks, page, learned, decided>>
pixelVars == <<phase, geometry, policy, source, raw, candidate, verdict>>
catalogVars == <<blueprints, profiles, bindings, actor, resolved>>
specVars == <<specs, specHead, bound, verification, authorized>>

\* Of several initial states, the parts that stay still keep one.
Still(part) == focus # part
Init ==
    /\ focus \in {"review", "kernel", "study", "pixels", "catalog", "specification"}
    /\ Review!Init
    /\ Still("review") => \A o \in Published : field[o].machine = "PASSED" /\ field[o].sameSpec = "PASSED"
    /\ Kernel!Init
    /\ Still("kernel") => \A t \in Transactions : txn[t].asset = CHOOSE a \in Assets : TRUE
    /\ Study!Init
    /\ Still("study") => experiment = CHOOSE e \in Experiments : TRUE
    /\ Pixels!Init
    /\ Still("pixels") => /\ geometry = CHOOSE g \in Geometries : TRUE
                          /\ policy = [x |-> 0, width |-> 1, band |-> 0]
    /\ Catalog!Init
    /\ Specification!Init

Next ==
    /\ UNCHANGED focus
    /\ \/ /\ focus = "review" /\ Review!Next
          /\ UNCHANGED <<kernelVars, studyVars, pixelVars, catalogVars, specVars>>
       \/ /\ focus = "kernel" /\ Kernel!Next
          /\ UNCHANGED <<reviewVars, studyVars, pixelVars, catalogVars, specVars>>
       \/ /\ focus = "study" /\ Study!Next
          /\ UNCHANGED <<reviewVars, kernelVars, pixelVars, catalogVars, specVars>>
       \/ /\ focus = "pixels" /\ Pixels!Next
          /\ UNCHANGED <<reviewVars, kernelVars, studyVars, catalogVars, specVars>>
       \/ /\ focus = "catalog" /\ Catalog!Next
          /\ UNCHANGED <<reviewVars, kernelVars, studyVars, pixelVars, specVars>>
       \/ /\ focus = "specification" /\ Specification!Next
          /\ UNCHANGED <<reviewVars, kernelVars, studyVars, pixelVars, catalogVars>>

vars == <<focus, reviewVars, kernelVars, studyVars, pixelVars, catalogVars, specVars>>
Spec == Init /\ [][Next]_vars

-----------------------------------------------------------------------------

\* The properties of the parts, each stated and explained in its module and
\* checked together with the types of the part: what people record about a
\* delivered outcome,
HumanRecordsAgree == Review!TypeOK /\ Review!HumanRecordsAgree

\* what a commit of the transaction lab stands on,
CommitsStand == Kernel!TypeOK /\ Kernel!CommitsStand

\* what an evaluator of the value study is shown and what is made of it,
StudyIsBlind == Study!TypeOK /\ Study!StudyIsBlind

\* what the preservation engines do to pixels,
PreservationKept == Pixels!TypeOK /\ Pixels!PreservationKept

\* what bindings and resolutions of requirements refer to,
BindingsResolve == Catalog!TypeOK /\ Catalog!BindingsResolve

\* and what a task spec's authority was earned by.
AuthorizationEarned == Specification!TypeOK /\ Specification!AuthorizationEarned
=============================================================================
