----------------------------- MODULE SpecAuthority -----------------------------
(* The specification layer of one transaction: a blueprint and an input are   *)
(* compiled to a task spec, an execution is bound to it, the evidence of the  *)
(* execution is judged by the same-spec gate, the rows stored of it on their  *)
(* own, and the gate authorizes a commit or not. A spec may be compiled again *)
(* and the head may move between any two steps.                               *)
EXTENDS Naturals, Sequences, FiniteSets

CONSTANTS
    Variables,      \* the FIXED and PARAMETERIZED variables of the blueprint
    Conditionals,   \* its CONDITIONAL ones; none names the target of another
    Policy,         \* its capabilities: required, optional, denied
    Inputs,         \* what a compilation may be given
    MaxSpecs        \* bound: compilations

\* The quality profile of the Precision Edit blueprint: each criterion is
\* critical and takes one type of evidence.
EvidenceType == [REQUESTED_EDIT_HAS_CHANGE |-> "METRIC", SOURCE_VERSION_MATCHES |-> "HASH",
                 SAME_TASK_SPEC |-> "POLICY_CHECK", HUMAN_ACCEPTED |-> "HUMAN_JUDGMENT"]
Criteria == DOMAIN EvidenceType
MachineCriteria == Criteria \ {"HUMAN_ACCEPTED"}

RoleCapabilities == [IMAGE_EXECUTOR |-> {"READ_SOURCE", "CALL_IMAGE_PROVIDER", "WRITE_CANDIDATE"},
                     PRESERVATION_ENGINE |-> {"READ_SOURCE", "APPLY_PRESERVATION", "WRITE_CANDIDATE"},
                     VERIFIER |-> {"READ_SOURCE"}]

\* What was found of the candidate: the assertions the live evidence reads by
\* name, the other five as one, and the judgment of the human evaluator.
Facts == [edit : BOOLEAN, source : BOOLEAN, rest : BOOLEAN, human : BOOLEAN]

VARIABLES
    specs,          \* compiled task specs, the newest last; the index is the id
    head,           \* the canonical version of the asset
    bound,          \* the spec an execution is bound to, or 0
    verification,   \* the same-spec verification run with what it was made of, or NoRun
    authorized      \* the verifications that authorized a commit

vars == <<specs, head, bound, verification, authorized>>

NoRun == [status |-> "none"]
Init == specs = <<>> /\ head = 0 /\ bound = 0 /\ verification = NoRun /\ authorized = {}

-----------------------------------------------------------------------------
(* Compilation *)

None == "undefined"
Known(value) == value.value # None
Defaults == [id \in {v.id : v \in {w \in Variables : w.kind = "PARAMETERIZED" /\ w.default # None}} |->
                (CHOOSE v \in Variables : v.id = id).default]

\* Who may give a value, the strongest first.
Givers(input) ==
    <<[provenance |-> "CUSTOMER_STATED", values |-> input.customer],
      [provenance |-> "APPROVED", values |-> input.approved],
      [provenance |-> "INFERRED", values |-> input.inferred],
      [provenance |-> "APPROVED", values |-> Defaults]>>

Given(v, input) ==
    LET givers == {i \in 1..4 : v.id \in DOMAIN Givers(input)[i].values}
        giver == CHOOSE i \in givers : \A j \in givers : i <= j
    IN IF v.kind = "FIXED" THEN [provenance |-> "APPROVED", value |-> v.value]
       ELSE IF givers = {} THEN [provenance |-> "UNKNOWN", value |-> None]
       ELSE [provenance |-> Givers(input)[giver].provenance, value |-> Givers(input)[giver].values[v.id]]

\* A conditional gives its target a default, or requires it, when its condition
\* holds of the values and nobody gave the target one.  The value it defaults
\* also gets its flag "critical", which only an unknown value is asked for.
Pending(values) ==
    {c \in Conditionals : values[c.when].value = c.equals /\ ~Known(values[c.target])}
AllGiven(input) ==
    [id \in {v.id : v \in Variables} |-> Given(CHOOSE v \in Variables : v.id = id, input)]
Values(input) ==
    LET given == AllGiven(input) IN
    [id \in DOMAIN given |->
        IF \E c \in Pending(given) : c.target = id /\ c.default # None
        THEN [provenance |-> "APPROVED",
              value |-> (CHOOSE c \in Pending(given) : c.target = id /\ c.default # None).default]
        ELSE given[id]]

\* A value of the wrong type is one outside the allowed values.
Fits(v, value) ==
    IF v.kind = "FIXED" THEN value = v.value ELSE value = None \/ value \in v.allowed

Reasons(input) ==
    {v.id : v \in {w \in Variables :
        IF w.kind = "FIXED" THEN w.id \in DOMAIN input.customer /\ ~Fits(w, input.customer[w.id])
        ELSE ~Fits(w, Given(w, input).value)}}
    \cup (Policy.required \ input.runtime)
    \cup {c \in input.requested : c \notin Policy.required \cup Policy.optional \/ c \in Policy.denied}
    \cup (IF input.wellFormed THEN {} ELSE {"INVALID_BLUEPRINT_SOURCE_INSTRUCTION_OR_ROI"})

\* A required value that only a default of a conditional supplies is asked for
\* all the same: the conditionals come after the requirements.
Requirements(input) ==
    {v.id : v \in {w \in Variables : w.kind = "PARAMETERIZED" /\ w.required /\ ~Known(Given(w, input))}}
    \cup {c.target : c \in {d \in Pending(AllGiven(input)) : d.default = None /\ d.required}}

Compiled(input, previous) ==
    [version  |-> IF previous = <<>> THEN 1 ELSE previous[1].version + 1,
     previous |-> previous,
     status   |-> IF Reasons(input) # {} THEN "REJECTED"
                  ELSE IF Requirements(input) = {} THEN "READY"
                  ELSE IF input.unknownInputPolicy = "REJECT" THEN "REJECTED" ELSE "INPUT_REQUIRED",
     source   |-> head,
     values   |-> Values(input),
     grant    |-> (Policy.required \cup input.requested) \cap (Policy.required \cup Policy.optional)
                  \cap input.runtime]

\* TaskSpecSchema: a READY spec with a critical value nobody knows is not
\* stored, the compilation throws.
WellFormed(spec) ==
    spec.status = "READY" => \A v \in Variables : v.critical => Known(spec.values[v.id])

\* The hash covers everything but id and time: compiled twice from the same
\* input, and without a previous spec, the hash is the same.
Compile(input) ==
    /\ Len(specs) < MaxSpecs /\ ~input.secret
    /\ \E previous \in {<<>>} \cup {<<specs[i]>> : i \in 1..Len(specs)} :
        LET spec == Compiled(input, previous) IN
        /\ WellFormed(spec)
        /\ specs' = Append(specs, spec)
    /\ UNCHANGED <<head, bound, verification, authorized>>

\* A commit elsewhere moves the head.
MoveHead ==
    /\ head = 0 /\ head' = 1
    /\ UNCHANGED <<specs, bound, verification, authorized>>

-----------------------------------------------------------------------------
(* Evidence *)

\* taskSpecFactory: an execution is bound to the READY spec compiled last.
Bind ==
    /\ bound = 0 /\ specs # <<>> /\ specs[Len(specs)].status = "READY"
    /\ bound' = Len(specs)
    /\ UNCHANGED <<specs, head, verification, authorized>>

\* What a role is shown of the grant.
Lens(spec, role) == spec.grant \cap RoleCapabilities[role]

Passed(facts) == [REQUESTED_EDIT_HAS_CHANGE |-> facts.edit, SOURCE_VERSION_MATCHES |-> facts.source,
                  SAME_TASK_SPEC |-> TRUE, HUMAN_ACCEPTED |-> facts.human]
Issuer == [REQUESTED_EDIT_HAS_CHANGE |-> "VERIFIER", SOURCE_VERSION_MATCHES |-> "VERIFIER",
           SAME_TASK_SPEC |-> "SYSTEM_GATE", HUMAN_ACCEPTED |-> "HUMAN_EVALUATOR"]

\* Evidence of a criterion: the row of who has to judge it, a claim of the
\* executor in the type asked for, or no row at all.
Kinds == {"judged", "claimed", "missing"}
Row(c, kind, facts) ==
    [type   |-> EvidenceType[c],
     status |-> IF kind = "missing" THEN "UNKNOWN"
                ELSE IF kind = "claimed" \/ Passed(facts)[c] THEN "PASS" ELSE "FAIL",
     issuer |-> IF kind = "claimed" THEN "IMAGE_EXECUTOR" ELSE Issuer[c]]

\* Mutant: a claim of the executor counts when it has the type asked for.
StatusOfAnyIssuer(c, row) == IF row.type = EvidenceType[c] THEN row.status ELSE "UNKNOWN"

Status(c, row) ==
    IF row.type = EvidenceType[c] /\ row.issuer = Issuer[c] THEN row.status ELSE "UNKNOWN"

Judged(criteria, withinAuthority) ==
    IF ~withinAuthority \/ \E c \in Criteria : criteria[c] = "FAIL" THEN "FAILED"
    ELSE IF \E c \in Criteria : criteria[c] = "UNKNOWN" THEN "BLOCKED" ELSE "PASSED"

\* verifySameSpecExecution of the bound spec, by a producer of some role that
\* used some capability; the rows judged by machine are stored too.
Verify ==
    /\ bound # 0 /\ verification = NoRun
    /\ \E facts \in Facts, kinds \in [Criteria -> Kinds],
          withinAuthority \in {({c} \subseteq Lens(specs[bound], role)) :
                               c \in specs[bound].grant, role \in DOMAIN RoleCapabilities} :
        LET criteria == [c \in Criteria |-> Status(c, Row(c, kinds[c], facts))] IN
        verification' = [spec |-> bound, criteria |-> criteria, facts |-> facts,
                         status |-> Judged(criteria, withinAuthority),
                         stored |-> {c \in MachineCriteria : kinds[c] = "judged"}]
    /\ UNCHANGED <<specs, head, bound, authorized>>

\* buildPrecisionEditCriterionEvidence and deriveMachineSameSpecFromDurableEvidence:
\* stored rows carry all seven assertions, and provenance is one of them.
DurableVerdict ==
    LET facts == verification.facts IN
    IF verification.stored # MachineCriteria THEN "INCOMPLETE"
    ELSE IF facts.edit /\ facts.source /\ facts.rest THEN "PASSED" ELSE "FAILED"

\* authorizeSameSpecCommit: the spec is the current one by its hash, which is all
\* of it but the id, and it was compiled on the version that is still the head.
Authorize(id) ==
    /\ id \in 1..Len(specs) /\ specs[id].status = "READY" /\ specs[Len(specs)] = specs[id]
    /\ verification # NoRun /\ verification.spec = id /\ specs[id].source = head
    /\ verification.status = "PASSED" /\ \A c \in Criteria : verification.criteria[c] = "PASS"
    /\ authorized' = authorized \cup {verification}
    /\ UNCHANGED <<specs, head, bound, verification>>

Next ==
    \/ \E input \in Inputs : Compile(input)
    \/ MoveHead \/ Bind \/ Verify
    \/ \E id \in 1..MaxSpecs : Authorize(id)

Spec == Init /\ [][Next]_vars

-----------------------------------------------------------------------------

\* Every variable keeps its type.
TypeOK ==
    /\ Len(specs) <= MaxSpecs /\ bound \in 0..Len(specs) /\ head \in {0, 1}
    /\ \A i \in DOMAIN specs :
        /\ specs[i].version \in 1..i /\ specs[i].source \in {0, 1}
        /\ specs[i].status \in {"READY", "INPUT_REQUIRED", "REJECTED"}
        /\ specs[i].grant \subseteq Policy.required \cup Policy.optional
    /\ verification # NoRun =>
        /\ verification.spec = bound /\ verification.facts \in Facts
        /\ verification.criteria \in [Criteria -> {"PASS", "FAIL", "UNKNOWN"}]
        /\ verification.status \in {"PASSED", "FAILED", "BLOCKED"}
    /\ authorized \subseteq {verification}

\* What is authorized was earned at every step before: no value of its spec is
\* critical and unknown, overrides a fixed one, is outside what the blueprint
\* allows or is missing though a condition requires it; the grant has what the
\* blueprint requires and nothing it denies; and the edit, the source and the
\* human judgment are positive facts, no claim of the executor standing in for
\* one. The stored rows, judged later and alone, never say PASSED of what the
\* live gate failed for a machine criterion (compiler, gate, criterion evidence).
AuthorizationEarned ==
    /\ \A run \in authorized :
        LET spec == specs[run.spec] IN
        /\ \A v \in Variables :
              /\ Fits(v, spec.values[v.id].value)
              /\ v.critical => Known(spec.values[v.id])
        /\ \A c \in Conditionals : spec.values[c.when].value = c.equals /\ c.required
                                   => Known(spec.values[c.target])
        /\ Policy.required \subseteq spec.grant /\ spec.grant \cap Policy.denied = {}
        /\ run.facts.edit /\ run.facts.source /\ run.facts.human
    /\ verification # NoRun /\ DurableVerdict = "PASSED"
       => \A c \in MachineCriteria : verification.criteria[c] = "PASS"
=============================================================================
