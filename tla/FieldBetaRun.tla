---------------------------- MODULE FieldBetaRun ----------------------------
(* One Field Beta transaction from its first row to its field outcome: the    *)
(* live request (FieldBetaService.run over PreservationVerificationService)   *)
(* and the durable redrives that complete it after a crash                    *)
(* (completeFieldOutcome). Every await that writes is a step of its own; a    *)
(* request can die at any of them. FieldReview has what people record then.   *)
EXTENDS Naturals, FiniteSets

CONSTANTS
    Recoverers,     \* redrive requests an operator can have open
    Plans,          \* what the live request may ask: topology and override
    MaxAborts,      \* bound on the requests that die between two awaits
    NoRun, NoOutcome

Strategies == {"P0_RAW", "P1_SOFT", "P2_MODERATE", "P3_HARD"}
Recommended ==
    [LOCAL_INDEPENDENT |-> "P3_HARD", LOCAL_COUPLED |-> "P2_MODERATE",
     STRUCTURAL |-> "P1_SOFT", GLOBAL |-> "P0_RAW"]
AllPlans == [topology: DOMAIN Recommended, chosen: Strategies \cup {"NONE"}]

ASSUME PlansAssumption == Plans \subseteq AllPlans
ASSUME WorkersAssumption == "live" \notin Recoverers
ASSUME AbortsAssumption == MaxAborts \in Nat
Workers == {"live"} \cup Recoverers
Criteria == <<"REQUESTED_EDIT_HAS_CHANGE", "SOURCE_VERSION_MATCHES", "SAME_TASK_SPEC">>
DerivedStrategies == {"P1_SOFT", "P2_MODERATE"}
Derived == <<"P1_SOFT", "P2_MODERATE">>
Ladder == <<"P0_RAW", "P1_SOFT", "P2_MODERATE", "P3_HARD">>

\* The straight-line writes of runExperiment: each row and the await after it.
SourceSteps ==
    [policy |-> "project", project |-> "asset", asset |-> "sourceBlob",
     sourceBlob |-> "version", version |-> "media", media |-> "head",
     head |-> "transaction"]
IntentSteps ==
    [intent |-> "patch", patch |-> "instructionIntent",
     instructionIntent |-> "instructionPatch", instructionPatch |-> "lease",
     lease |-> "PREPARED"]
AdmissionSteps == [executionRun |-> "rawBlob", failureRun |-> "FAILED"]
RawSteps ==
    [raw |-> "checkpoint", checkpoint |-> "receipt", receipt |-> "snapshot",
     snapshot |-> "cost", cost |-> "preservationRun"]
PreservationSteps ==
    [preservationRun |-> "preserve", preserved |-> "preservationSuccess",
     preservationSuccess |-> "evidencePair", imageEvidence |-> "VERIFYING",
     preservationFailure |-> "FAILED"]
\* Mutant: the transaction executes without having been READY.
SkipReady ==
    [PREPARED |-> "EXECUTING", EXECUTING |-> "bindSpec",
     VERIFYING |-> "verify", FAILED |-> "dead"]
StatusSteps ==
    [PREPARED |-> "READY", READY |-> "EXECUTING", EXECUTING |-> "bindSpec",
     VERIFYING |-> "verify", FAILED |-> "dead"]
EvidencePair == {"rawEvidence", "preservedEvidence"}
Rows == DOMAIN SourceSteps \cup DOMAIN IntentSteps \cup DOMAIN AdmissionSteps
          \cup DOMAIN RawSteps \cup DOMAIN PreservationSteps \cup EvidencePair
          \cup {"transaction", "reservation", "consumption", "rawBlob",
                "preservedBlob", "verification", "sample"}
Statuses == {"NONE", "DRAFT", "PREPARED", "READY", "EXECUTING", "VERIFYING",
             "VERIFIED", "FAILED"}
Verdicts == {"NONE", "PASSED", "FAILED"}

\* P0 is the provider's candidate and P3 the engine's; P1 and P2 are derived
\* on the way to the ladder, each copy a new artifact.
Candidates == [strategy: Strategies, copy: Nat]
Original(s) == [strategy |-> s, copy |-> 0]
StrategyRuns == [candidate: Candidates, role: {"DELIVERED", "SHADOW"}]
Outcomes == [strategy: Strategies, delivered: Candidates, machine: Verdicts]

ASSUME NullsAssumption ==
    NoRun \notin StrategyRuns /\ NoOutcome \notin Outcomes

TailSteps == {"readEvidence", "evidence", "derive", "create", "record", "ladder",
              "rung", "findOutcome", "createOutcome", "sample", "view"}
Steps == {"idle", "experiment", "misread", "dead", "done", "conclude", "evidencePair"}
           \cup Rows \cup Statuses \cup TailSteps
           \cup {"bindSpec", "reserve", "consume", "execute", "preserve", "verify"}

VARIABLES
    plan,        \* topology and chosen strategy of the live request
    rows,        \* the rows and blobs of the experiment that exist
    status,      \* outcome_transactions.status
    verdict,     \* verification_runs.status
    artifacts,   \* derived candidates stored for the transaction
    criteria,    \* verification_criterion_evidence rows, by criterion
    ladder,      \* preservation_strategy_runs, by strategy
    outcome,     \* the field_outcomes row
    pc, cursor, seen, view,   \* each request: await, loop index, what it read
    aborts, overlapped        \* history: dead requests; two writers at once

store == <<rows, status, verdict, artifacts, criteria, ladder, outcome>>
local == <<pc, cursor, seen, view>>
vars == <<plan, store, local, aborts, overlapped>>

Fresh == [s \in DerivedStrategies |-> Original(s)]

Init ==
    /\ plan \in Plans
    /\ rows = {} /\ status = "NONE" /\ verdict = "NONE"
    /\ artifacts = {} /\ criteria = {} /\ outcome = NoOutcome
    /\ ladder = [s \in Strategies |-> NoRun]
    /\ pc = [w \in Workers |-> IF w = "live" THEN "policy" ELSE "idle"]
    /\ cursor = [w \in Workers |-> 1]
    /\ seen = [w \in Workers |-> {}]
    /\ view = [w \in Workers |-> Fresh]
    /\ aborts = 0 /\ overlapped = FALSE

-----------------------------------------------------------------------------
(* The experiment: every row of the live request, in its order.              *)

Goto(w, step) == pc' = [pc EXCEPT ![w] = step]
Elsewhere == UNCHANGED <<plan, aborts, overlapped>>
TailRows == <<artifacts, criteria, ladder, outcome>>
Own == UNCHANGED <<cursor, seen, view>>

Persist(steps) ==
    /\ pc["live"] \in DOMAIN steps
    /\ rows' = rows \cup {pc["live"]}
    /\ Goto("live", steps[pc["live"]])
    /\ UNCHANGED <<status, verdict, TailRows>> /\ Own /\ Elsewhere

PersistSource == Persist(SourceSteps)
PersistIntent == Persist(IntentSteps)
PersistRun == Persist(AdmissionSteps)
PersistRaw == Persist(RawSteps)
PersistPreservation == Persist(PreservationSteps)

OpenTransaction ==
    /\ pc["live"] = "transaction"
    /\ rows' = rows \cup {"transaction"} /\ status' = "DRAFT"
    /\ Goto("live", "intent")
    /\ UNCHANGED <<verdict, TailRows>> /\ Own /\ Elsewhere

\* updateStatus enforces no transition table; the order is the caller's.
UpdateStatus ==
    /\ pc["live"] \in DOMAIN StatusSteps
    /\ status' = pc["live"]
    /\ Goto("live", StatusSteps[pc["live"]])
    /\ UNCHANGED <<rows, verdict, TailRows>> /\ Own /\ Elsewhere

\* A Task Spec that is not bound to this transaction throws outside the try.
BindSpec ==
    /\ pc["live"] = "bindSpec"
    /\ \E next \in {"reserve", "dead"} : Goto("live", next)
    /\ UNCHANGED store /\ Own /\ Elsewhere

\* D6: resolve the lease and reserve, then consume; an error after the commit
\* of either call leaves the row and still fails the run.
Admit(step, row, next) ==
    /\ pc["live"] = step
    /\ \/ rows' = rows \cup {row} /\ \E n \in {next, "failureRun"} : Goto("live", n)
       \/ rows' = rows /\ Goto("live", "failureRun")
    /\ UNCHANGED <<status, verdict, TailRows>> /\ Own /\ Elsewhere

Reserve == Admit("reserve", "reservation", "consume")
Consume == Admit("consume", "consumption", "execute")

\* The provider call and the checks of what it returned.
Execute ==
    /\ pc["live"] = "execute"
    /\ \E next \in {"executionRun", "failureRun"} : Goto("live", next)
    /\ UNCHANGED store /\ Own /\ Elsewhere

\* storage.put: a refused upload fails the run, and a preserved one its row too.
PutBlob(blob, next, failure) ==
    /\ pc["live"] = blob
    /\ \/ rows' = rows \cup {blob} /\ Goto("live", next)
       \/ rows' = rows /\ Goto("live", failure)
    /\ UNCHANGED <<status, verdict, TailRows>> /\ Own /\ Elsewhere

StoreRaw == PutBlob("rawBlob", "raw", "FAILED")
StorePreserved == PutBlob("preservedBlob", "preserved", "preservationFailure")

Preserve ==
    /\ pc["live"] = "preserve"
    /\ \E next \in {"preservedBlob", "preservationFailure"} : Goto("live", next)
    /\ UNCHANGED store /\ Own /\ Elsewhere

\* Promise.all over the two evidence rows: they land in either order.
StoreEvidence ==
    /\ pc["live"] = "evidencePair"
    /\ \E row \in EvidencePair \ rows :
        /\ rows' = rows \cup {row}
        /\ Goto("live", IF EvidencePair \subseteq rows' THEN "imageEvidence" ELSE "evidencePair")
    /\ UNCHANGED <<status, verdict, TailRows>> /\ Own /\ Elsewhere

Verify ==
    /\ pc["live"] = "verify"
    /\ verdict' \in Verdicts \ {"NONE"}
    /\ rows' = rows \cup {"verification"}
    /\ Goto("live", "conclude")
    /\ UNCHANGED <<status, TailRows>> /\ Own /\ Elsewhere

Conclude ==
    /\ pc["live"] = "conclude"
    /\ status' = IF verdict = "PASSED" THEN "VERIFIED" ELSE "FAILED"
    /\ Goto("live", "readEvidence")
    /\ UNCHANGED <<rows, verdict, TailRows>> /\ Own /\ Elsewhere

-----------------------------------------------------------------------------
(* The redrive: load the checkpoint, rebuild the experiment, run the tail.   *)

Busy(w) == pc[w] \notin {"idle", "dead", "done"}
ChainComplete ==
    {"executionRun", "preservationSuccess", "raw", "preserved", "verification"}
        \cup EvidencePair \subseteq rows

Redrive(w) ==
    /\ pc[w] = "idle" /\ "checkpoint" \in rows
    /\ Goto(w, "experiment")
    /\ UNCHANGED store /\ Own /\ Elsewhere

\* getExperiment takes whichever PRESERVED row comes first; a derived artifact
\* has no preservation evidence and ends in EXPERIMENT_INCOMPLETE.
ReadExperiment(w) ==
    /\ pc[w] = "experiment"
    /\ \/ /\ ~(ChainComplete /\ verdict = "PASSED")
          /\ Goto(w, "idle") /\ UNCHANGED overlapped
       \/ /\ ChainComplete /\ artifacts # {}
          /\ Goto(w, "misread") /\ UNCHANGED overlapped
       \/ /\ ChainComplete /\ verdict = "PASSED"
          /\ Goto(w, "readEvidence")
          /\ overlapped' = (overlapped \/ \E v \in Workers \ {w} : Busy(v))
    /\ UNCHANGED <<plan, store, aborts>> /\ Own

Return(w) ==
    /\ pc[w] = "misread" /\ Goto(w, "idle")
    /\ UNCHANGED store /\ Own /\ Elsewhere

-----------------------------------------------------------------------------
(* The tail the live request and the redrives share.                         *)

\* Mutant: the chosen strategy without its default.
ChosenOnly(w) == IF w = "live" THEN plan.chosen ELSE Recommended[plan.topology]
Target(w) ==
    IF w = "live" /\ plan.chosen # "NONE" THEN plan.chosen ELSE Recommended[plan.topology]
Viewed(w, s) == IF s \in DerivedStrategies THEN view[w][s] ELSE Original(s)
Role(w, s) == IF s = Target(w) THEN "DELIVERED" ELSE "SHADOW"

\* An error ends the request; a redrive can be called again.
Throw(w) ==
    /\ pc' = [pc EXCEPT ![w] = IF w = "live" THEN "dead" ELSE "idle"]
    /\ cursor' = [cursor EXCEPT ![w] = 1]
    /\ seen' = [seen EXCEPT ![w] = {}]
    /\ view' = [view EXCEPT ![w] = Fresh]

Advance(w, more, step, next) ==
    /\ pc' = [pc EXCEPT ![w] = IF more THEN step ELSE next]
    /\ cursor' = [cursor EXCEPT ![w] = IF more THEN cursor[w] + 1 ELSE 1]

ReadEvidence(w) ==
    /\ pc[w] = "readEvidence"
    /\ seen' = [seen EXCEPT ![w] = criteria]
    /\ Goto(w, "evidence")
    /\ UNCHANGED <<store, cursor, view>> /\ Elsewhere

\* Mutant: every criterion is inserted, whether the read showed it or not.
WriteEvidenceBlindly(w) ==
    LET c == Criteria[cursor[w]] IN
    /\ pc[w] = "evidence"
    /\ \/ c \in criteria /\ Throw(w) /\ UNCHANGED criteria
       \/ /\ c \notin criteria /\ criteria' = criteria \cup {c}
          /\ Advance(w, cursor[w] < 3, "evidence", "derive")
          /\ UNCHANGED <<seen, view>>
    /\ UNCHANGED <<rows, status, verdict, artifacts, ladder, outcome>> /\ Elsewhere

\* ensureCriterionEvidence: create what the first read did not show.
WriteEvidence(w) ==
    LET c == Criteria[cursor[w]] IN
    /\ pc[w] = "evidence"
    /\ \/ /\ c \notin seen[w] /\ c \in criteria
          /\ Throw(w) /\ UNCHANGED criteria
       \/ /\ c \in seen[w] \/ c \notin criteria
          /\ criteria' = criteria \cup {c}
          /\ Advance(w, cursor[w] < 3, "evidence", "derive")
          /\ UNCHANGED <<seen, view>>
    /\ UNCHANGED <<rows, status, verdict, artifacts, ladder, outcome>> /\ Elsewhere

\* Mutant: a reused strategy run does not set the view of its candidate.
DeriveForgetfully(w) ==
    LET s == Derived[cursor[w]] IN
    /\ pc[w] = "derive" /\ UNCHANGED view
    /\ \/ ladder[s] # NoRun /\ Advance(w, cursor[w] < 2, "derive", "ladder")
       \/ ladder[s] = NoRun /\ Goto(w, "create") /\ UNCHANGED cursor
    /\ UNCHANGED <<store, seen>> /\ Elsewhere

\* The lookup of a derived strategy: reuse its run, or go and derive it.
Derive(w) ==
    LET s == Derived[cursor[w]] IN
    /\ pc[w] = "derive"
    /\ \/ /\ ladder[s] # NoRun
          /\ view' = [view EXCEPT ![w][s] = ladder[s].candidate]
          /\ Advance(w, cursor[w] < 2, "derive", "ladder")
       \/ /\ ladder[s] = NoRun
          /\ Goto(w, "create") /\ UNCHANGED <<cursor, view>>
    /\ UNCHANGED <<store, seen>> /\ Elsewhere

\* A new artifact; only the redrive records its strategy run at once.
CreateDerived(w) ==
    LET s == Derived[cursor[w]]
        new == [strategy |-> s, copy |-> Cardinality(artifacts) + 1] IN
    /\ pc[w] = "create"
    /\ artifacts' = artifacts \cup {new}
    /\ view' = [view EXCEPT ![w][s] = new]
    /\ IF w = "live" THEN Advance(w, cursor[w] < 2, "derive", "ladder")
                     ELSE Goto(w, "record") /\ UNCHANGED cursor
    /\ UNCHANGED <<rows, status, verdict, criteria, ladder, outcome, seen>> /\ Elsewhere

\* unique (tenant_id, transaction_id, strategy_id)
CreateStrategyRun(w, s, count, step, next) ==
    /\ \/ ladder[s] # NoRun /\ Throw(w) /\ UNCHANGED ladder
       \/ /\ ladder[s] = NoRun
          /\ ladder' = [ladder EXCEPT ![s] = [candidate |-> Viewed(w, s), role |-> Role(w, s)]]
          /\ Advance(w, cursor[w] < count, step, next)
          /\ UNCHANGED <<seen, view>>
    /\ UNCHANGED <<rows, status, verdict, artifacts, criteria, outcome>> /\ Elsewhere

RecordDerived(w) ==
    pc[w] = "record" /\ CreateStrategyRun(w, Derived[cursor[w]], 2, "derive", "ladder")

\* Mutant: the loop over the rungs stops one short.
FindFewRungs(w) ==
    LET s == Ladder[cursor[w]] IN
    /\ pc[w] = "ladder"
    /\ \/ ladder[s] # NoRun /\ Advance(w, cursor[w] < 3, "ladder", "findOutcome")
       \/ ladder[s] = NoRun /\ Goto(w, "rung") /\ UNCHANGED cursor
    /\ UNCHANGED <<store, seen, view>> /\ Elsewhere

FindRung(w) ==
    LET s == Ladder[cursor[w]] IN
    /\ pc[w] = "ladder"
    /\ \/ ladder[s] # NoRun /\ Advance(w, cursor[w] < 4, "ladder", "findOutcome")
       \/ ladder[s] = NoRun /\ Goto(w, "rung") /\ UNCHANGED cursor
    /\ UNCHANGED <<store, seen, view>> /\ Elsewhere

CreateRung(w) ==
    pc[w] = "rung" /\ CreateStrategyRun(w, Ladder[cursor[w]], 4, "ladder", "findOutcome")

\* An outcome of another strategy is an identity conflict for the live request;
\* the redrive does not see it and collides when it inserts.
FindOutcome(w) ==
    /\ pc[w] = "findOutcome"
    /\ \/ /\ outcome # NoOutcome /\ outcome.strategy = Target(w)
          /\ Goto(w, "view") /\ Own
       \/ /\ outcome # NoOutcome /\ outcome.strategy # Target(w)
          /\ IF w = "live" THEN Throw(w) ELSE Goto(w, "createOutcome") /\ Own
       \/ /\ outcome = NoOutcome
          /\ Goto(w, "createOutcome") /\ Own
    /\ UNCHANGED store /\ Elsewhere

\* Mutant: the outcome is written over an existing one.
UpsertOutcome(w) ==
    /\ pc[w] = "createOutcome"
    /\ outcome' = [strategy |-> Target(w), delivered |-> Viewed(w, Target(w)),
                   machine |-> verdict]
    /\ Goto(w, IF w = "live" THEN "sample" ELSE "view") /\ Own
    /\ UNCHANGED <<rows, status, verdict, artifacts, criteria, ladder>> /\ Elsewhere

\* unique (transaction_id)
CreateOutcome(w) ==
    /\ pc[w] = "createOutcome"
    /\ \/ outcome # NoOutcome /\ Throw(w) /\ UNCHANGED outcome
       \/ /\ outcome = NoOutcome
          /\ outcome' = [strategy |-> Target(w), delivered |-> Viewed(w, Target(w)),
                         machine |-> verdict]
          /\ Goto(w, IF w = "live" THEN "sample" ELSE "view") /\ Own
    /\ UNCHANGED <<rows, status, verdict, artifacts, criteria, ladder>> /\ Elsewhere

\* maybeCreateSample: the sampling rate decides.
MaybeCreateSample(w) ==
    /\ pc[w] = "sample"
    /\ \E drawn \in {{}, {"sample"}} : rows' = rows \cup drawn
    /\ Goto(w, "view")
    /\ UNCHANGED <<status, verdict, TailRows>> /\ Own /\ Elsewhere

BuildView(w) ==
    /\ pc[w] = "view"
    /\ pc' = [pc EXCEPT ![w] = IF w = "live" THEN "done" ELSE "idle"]
    /\ cursor' = [cursor EXCEPT ![w] = 1]
    /\ seen' = [seen EXCEPT ![w] = {}]
    /\ view' = [view EXCEPT ![w] = Fresh]
    /\ UNCHANGED store /\ Elsewhere

\* The six points at which the tests stop the live request; the fourth and the
\* fifth are what a redrive is for.
FaultPoints ==
    {"transaction", "intent", "rawBlob", "receipt", "createOutcome"}
      \cup (IF status = "VERIFIED" THEN {"readEvidence"} ELSE {})

InjectFault ==
    /\ pc["live"] \in FaultPoints
    /\ Throw("live")
    /\ UNCHANGED store /\ Elsewhere

\* Any other await can reject, and any process can die between two of them.
Abort(w) ==
    /\ Busy(w) /\ aborts < MaxAborts
    /\ aborts' = aborts + 1
    /\ Throw(w)
    /\ UNCHANGED <<plan, store, overlapped>>

-----------------------------------------------------------------------------
AllCriteria == {Criteria[i] : i \in 1..3}

\* Derived again from the durable rows, whose preserved candidate is P3's.
SameSpec ==
    IF criteria # AllCriteria \/ outcome.delivered # Original("P3_HARD")
    THEN "INCOMPLETE" ELSE verdict

-----------------------------------------------------------------------------
LiveExperiment ==
    \/ PersistSource \/ PersistIntent \/ PersistRun \/ PersistRaw
    \/ PersistPreservation \/ OpenTransaction \/ UpdateStatus \/ BindSpec
    \/ Reserve \/ Consume \/ Execute \/ StoreRaw \/ Preserve \/ StorePreserved
    \/ StoreEvidence \/ Verify \/ Conclude

Tail(w) ==
    \/ ReadEvidence(w) \/ WriteEvidence(w) \/ Derive(w) \/ CreateDerived(w)
    \/ RecordDerived(w) \/ FindRung(w) \/ CreateRung(w) \/ FindOutcome(w)
    \/ CreateOutcome(w) \/ MaybeCreateSample(w) \/ BuildView(w)

RedriveStep(w) == Redrive(w) \/ ReadExperiment(w) \/ Return(w) \/ Tail(w)

Next ==
    \/ LiveExperiment
    \/ Tail("live")
    \/ InjectFault
    \/ \E w \in Recoverers : RedriveStep(w)
    \/ \E w \in Workers : Abort(w)

Spec == Init /\ [][Next]_vars

\* The server runs a request it has accepted, and an operator keeps redriving.
FairSpec ==
    /\ Spec
    /\ WF_vars(Tail("live"))
    /\ \A w \in Recoverers : WF_vars(RedriveStep(w))

-----------------------------------------------------------------------------
(* Properties.                                                               *)

\* Every variable keeps its type.
TypeOK ==
    /\ plan \in Plans
    /\ rows \subseteq Rows /\ status \in Statuses /\ verdict \in Verdicts
    /\ artifacts \subseteq [strategy: DerivedStrategies, copy: Nat \ {0}]
    /\ criteria \subseteq AllCriteria
    /\ ladder \in [Strategies -> StrategyRuns \cup {NoRun}]
    /\ outcome \in Outcomes \cup {NoOutcome}
    /\ pc \in [Workers -> Steps] /\ cursor \in [Workers -> 1..4]
    /\ seen \in [Workers -> SUBSET AllCriteria]
    /\ view \in [Workers -> [DerivedStrategies -> Candidates]]
    /\ aborts \in 0..MaxAborts /\ overlapped \in BOOLEAN

\* An outcome exists only on a whole experiment, whoever wrote it and however
\* many requests died before: the chain of rows a redrive needs, the verdict it
\* carries, the three criterion records and all four rungs of the ladder. Its
\* transaction carries the verdict too, or still says VERIFYING when the live
\* request died before it could (a redrive never moves the status); and its
\* evidence is of the same spec, as a commit requires, only on a PASSED P3.
OutcomeComplete ==
    outcome # NoOutcome =>
        /\ ChainComplete /\ "checkpoint" \in rows
        /\ outcome.machine = verdict
        /\ status \in {IF verdict = "PASSED" THEN "VERIFIED" ELSE "FAILED", "VERIFYING"}
        /\ status = "VERIFYING" => pc["live"] = "dead" \/ pc["live"] = "conclude"
        /\ criteria = AllCriteria
        /\ \A s \in Strategies : ladder[s] # NoRun
        /\ SameSpec = "PASSED" => verdict = "PASSED" /\ outcome.strategy = "P3_HARD"

\* What is delivered is the rung of its strategy, so that the outcome can be
\* shown again (buildView looks it up among the rungs), unless a redrive ran
\* while another writer was at work; without an override the rungs' roles
\* name it as the delivered one.
DeliveredOnLadder ==
    outcome # NoOutcome /\ (~overlapped \/ outcome.strategy \in {"P0_RAW", "P3_HARD"}) =>
        /\ ladder[outcome.strategy].candidate = outcome.delivered
        /\ plan.chosen \in {"NONE", Recommended[plan.topology]} =>
             \A s \in Strategies :
                ladder[s].role = "DELIVERED" <=> s = outcome.strategy

\* The status moves only along VALID_TRANSITIONS, which no repository enforces.
StatusMove ==
    CASE status = "NONE" -> status' = "DRAFT"
      [] status = "DRAFT" -> status' = "PREPARED"
      [] status = "PREPARED" -> status' = "READY"
      [] status = "READY" -> status' = "EXECUTING"
      [] status = "EXECUTING" -> status' \in {"VERIFYING", "FAILED"}
      [] status = "VERIFYING" -> status' \in {"VERIFIED", "FAILED"}
      [] OTHER -> FALSE
LegalTransitions == [][StatusMove]_status

\* A recorded outcome is final, and redriving a completed transaction stores no
\* artifact, rung or criterion again, as long as no two writers overlapped.
OutcomeIsFinal ==
    [][outcome # NoOutcome =>
        /\ outcome' = outcome
        /\ rows' \subseteq rows \cup {"sample"}
        /\ ~overlapped => UNCHANGED <<status, verdict, artifacts, criteria, ladder>>]_vars

\* A verified experiment gets its outcome although requests die: redriving
\* completes it, unless the unordered read of the candidates returns a derived
\* artifact again and again.
RedriveCompletes ==
    \/ \E w \in Recoverers : []<>(pc[w] = "misread")
    \/ (status = "VERIFIED" ~> outcome # NoOutcome)
=============================================================================
