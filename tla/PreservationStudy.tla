-------------------------- MODULE PreservationStudy --------------------------
(* One case of the preservation value study: enrolled from a verified         *)
(* experiment, its intent locked before anything is shown, each candidate     *)
(* rated blind, the pair compared, the identities revealed, the acceptances   *)
(* recorded. Several evaluators work on it at once; a case is read table by   *)
(* table (Promise.all), so what a request reads may mix two moments.          *)
EXTENDS Integers, FiniteSets

CONSTANTS
    Evaluators,     \* open pages, each with at most one request in flight
    Scores,         \* the ratings given: [preservation: 0..2, usefulness: 0..2]
    Choices,        \* the preferences and acceptances given
    Experiments,    \* the experiments there are
    Target          \* completed cases a decision needs

Labels == {"A", "B"}
Identities == {"RAW", "PRESERVED"}
Preferences == {"A_BETTER", "B_BETTER", "TIE", "BOTH_BAD"}
DerivedPreferences == {"RAW_BETTER", "PRESERVED_BETTER", "TIE", "BOTH_BAD"}
PixelGains == {"LARGE", "SMALL", "OTHER"}
DivergenceTags ==
    {"NONE", "LARGE_PIXEL_GAIN_NO_HUMAN_PREFERENCE",
     "LARGE_PIXEL_GAIN_PRESERVED_PREFERENCE", "LARGE_PIXEL_GAIN_RAW_PREFERENCE",
     "SMALL_PIXEL_DIFFERENCE_HUMAN_PRESERVATION_FAILURE"}
Decisions == {"NONE", "NEGATIVE_SIGNAL", "STRONG_SIGNAL", "CONDITIONAL_SIGNAL", "NO_SIGNAL"}
StudySteps == {"HUMAN_INTENT", "RATING_A", "RATING_B", "PAIRWISE", "ACCEPTANCE", "COMPLETE"}

\* The tables of a case; each holds at most one row here (ratings per label).
Pairwise == [preference: Preferences, derived: DerivedPreferences, tag: DivergenceTags]
Acceptances == [RAW: BOOLEAN, PRESERVED: BOOLEAN]
Tables == {"intent", "presentation", "ratings", "pairwise", "acceptance"}
Bundles ==
    [intent: SUBSET {TRUE}, presentation: SUBSET Identities,
     ratings: SUBSET [label: Labels, score: Scores],
     pairwise: SUBSET Pairwise, acceptance: SUBSET Acceptances]
Inserts == {"lockIntent", "rateA", "rateB", "recordPairwise", "recordAcceptance"}
Actions == {"view", "media", "dashboard"} \cup Inserts

VARIABLES
    experiment, \* "FAILED", or the pixel gain of a verified experiment
    enrolled,   \* the row of preservation_study_cases exists
    stored,     \* the tables of the case
    asks,       \* asks[p]: request in flight; the case as it is being or was read
    page,       \* page[p]: the step the page shows
    learned,    \* learned[p]: what the evaluator has been shown
    decided     \* decided[p]: the decision the dashboard suggested

vars == <<experiment, enrolled, stored, asks, page, learned, decided>>

Empty == [t \in Tables |-> {}]
Quiet == [action |-> "none", phase |-> "read", case |-> Empty]

Init ==
    /\ experiment \in Experiments
    /\ enrolled = FALSE /\ stored = Empty /\ asks = [p \in Evaluators |-> Quiet]
    /\ page = [p \in Evaluators |-> "CASES"]
    /\ learned = [p \in Evaluators |-> {}]
    /\ decided = [p \in Evaluators |-> "NONE"]

HasRated(bundle, label) == \E r \in bundle.ratings : r.label = label

DetermineStep(bundle) ==
    IF bundle.intent = {} \/ bundle.presentation = {} THEN "HUMAN_INTENT"
    ELSE IF ~HasRated(bundle, "A") THEN "RATING_A"
    ELSE IF ~HasRated(bundle, "B") THEN "RATING_B"
    ELSE IF bundle.pairwise = {} THEN "PAIRWISE"
    ELSE IF bundle.acceptance = {} THEN "ACCEPTANCE" ELSE "COMPLETE"

\* addCase: enrolled once (unique study and transaction), verified only.
AddCase ==
    /\ ~enrolled /\ experiment # "FAILED"
    /\ enrolled' = TRUE
    /\ UNCHANGED <<experiment, stored, asks, page, learned, decided>>

\* What the page offers at the step it shows; it may be behind the tables.
Offered(step) ==
    {"view", "dashboard"} \cup
    CASE step = "HUMAN_INTENT" -> {"lockIntent"}
      [] step = "RATING_A" -> {"rateA", "media"}
      [] step = "RATING_B" -> {"rateB", "media"}
      [] step = "PAIRWISE" -> {"recordPairwise", "media"}
      [] step = "ACCEPTANCE" -> {"recordAcceptance", "media"}
      [] OTHER -> {}

Ask(p, action) ==
    /\ enrolled /\ asks[p] = Quiet
    /\ action \in Offered(page[p])
    /\ asks' = [asks EXCEPT ![p] = [action |-> action, phase |-> "read", case |-> stored]]
    /\ UNCHANGED <<experiment, enrolled, stored, page, learned, decided>>

\* getCaseBundle: its reads run in parallel, so each table is seen as it was at
\* some moment between the request and now.
GetCaseBundle(p) ==
    LET before == asks[p].case
        Between(t) == {rows \in SUBSET stored[t] : before[t] \subseteq rows} IN
    {bundle \in {[intent |-> i, presentation |-> o, ratings |-> r, pairwise |-> w,
                  acceptance |-> a] :
            i \in Between("intent"), o \in Between("presentation"), r \in Between("ratings"),
            w \in Between("pairwise"), a \in Between("acceptance")} :
        HasRated(bundle, "B") => HasRated(bundle, "A")}

ReadCase(p) ==
    /\ asks[p].action \in Inserts /\ asks[p].phase = "read"
    /\ \E bundle \in GetCaseBundle(p) :
        asks' = [asks EXCEPT ![p].phase = "write", ![p].case = bundle]
    /\ UNCHANGED <<experiment, enrolled, stored, page, learned, decided>>

Other(identity) == CHOOSE i \in Identities : i # identity

DeriveStudyPreference(preference, candidateA) ==
    LET selected == IF preference = "A_BETTER" THEN candidateA ELSE Other(candidateA) IN
    IF preference \in {"TIE", "BOTH_BAD"} THEN preference
    ELSE IF selected = "RAW" THEN "RAW_BETTER" ELSE "PRESERVED_BETTER"

DeriveDivergenceTag(gain, ratings, derived) ==
    CASE gain = "LARGE" /\ derived = "TIE" -> "LARGE_PIXEL_GAIN_NO_HUMAN_PREFERENCE"
      [] gain = "LARGE" /\ derived = "PRESERVED_BETTER" -> "LARGE_PIXEL_GAIN_PRESERVED_PREFERENCE"
      [] gain = "LARGE" /\ derived = "RAW_BETTER" -> "LARGE_PIXEL_GAIN_RAW_PREFERENCE"
      [] gain = "SMALL" /\ \E r \in ratings : r.score.preservation = 0 ->
            "SMALL_PIXEL_DIFFERENCE_HUMAN_PRESERVATION_FAILURE"
      [] OTHER -> "NONE"

\* The rows a request may add, as far as what it read lets it.  A rating carries
\* the label of the page it was given on, which must be the active one.
Proposed(action, bundle, gain) ==
    LET step == DetermineStep(bundle) IN
    CASE action = "lockIntent" /\ bundle.intent = {} /\ bundle.presentation = {} ->
            {[Empty EXCEPT !.intent = {TRUE}, !.presentation = {i}] : i \in Identities}
      [] action = "rateA" /\ step = "RATING_A" ->
            {[Empty EXCEPT !.ratings = {[score |-> s, label |-> "A"]}] : s \in Scores}
      [] action = "rateB" /\ step = "RATING_B" ->
            {[Empty EXCEPT !.ratings = {[score |-> s, label |-> "B"]}] : s \in Scores}
      [] action = "recordPairwise" /\ step = "PAIRWISE" ->
            {[Empty EXCEPT !.pairwise =
                {LET derived == DeriveStudyPreference(f, CHOOSE i \in bundle.presentation : TRUE)
                 IN [preference |-> f, derived |-> derived,
                     tag |-> DeriveDivergenceTag(gain, bundle.ratings, derived)]}] :
                f \in Choices.preferences}
      [] action = "recordAcceptance" /\ step = "ACCEPTANCE" ->
            {[Empty EXCEPT !.acceptance = {a}] : a \in Choices.acceptances}
      [] OTHER -> {}

\* Unique rows, the sequence trigger and the locking function, all in one
\* statement each; the in-memory repository refuses the same.
SequenceAllows(row) ==
    /\ \A t \in Tables \ {"ratings"} : row[t] = {} \/ stored[t] = {}
    /\ \A r \in row.ratings :
        /\ ~HasRated(stored, r.label) /\ stored.presentation # {}
        /\ r.label = "B" => HasRated(stored, "A")
        /\ r.label = "A" => stored.ratings = {}
    /\ row.pairwise # {} =>
        /\ Cardinality(stored.ratings) = 2
        /\ \A w \in row.pairwise, i \in stored.presentation :
                w.derived = DeriveStudyPreference(w.preference, i)
    /\ row.acceptance # {} => stored.pairwise # {}

Finish(p) == asks' = [asks EXCEPT ![p] = Quiet]

Refuse(p) ==
    /\ asks[p].phase = "write"
    /\ LET rows == Proposed(asks[p].action, asks[p].case, experiment) IN
        rows = {} \/ \E row \in rows : ~SequenceAllows(row)
    /\ Finish(p)
    /\ UNCHANGED <<experiment, enrolled, stored, page, learned, decided>>

\* The insert, after which the request reads the case again for its answer.
Insert(p) ==
    /\ asks[p].phase = "write"
    /\ \E row \in Proposed(asks[p].action, asks[p].case, experiment) :
        /\ SequenceAllows(row)
        /\ stored' = [t \in Tables |-> stored[t] \cup row[t]]
    /\ asks' = [asks EXCEPT ![p] = [action |-> "view", phase |-> "read", case |-> stored']]
    /\ UNCHANGED <<experiment, enrolled, page, learned, decided>>

\* Mutant: the reveal needs only that an order was drawn.
ShownEarly(bundle) ==
    (IF bundle.presentation # {} THEN {"identity"} ELSE {}) \cup
    CASE DetermineStep(bundle) = "RATING_A" -> {"A"}
      [] DetermineStep(bundle) = "RATING_B" -> {"B"}
      [] DetermineStep(bundle) = "PAIRWISE" -> Labels
      [] OTHER -> {}

\* What a view of the case carries.
Shown(bundle) ==
    (IF bundle.presentation # {} /\ bundle.pairwise # {} THEN {"identity"} ELSE {}) \cup
    CASE DetermineStep(bundle) = "RATING_A" -> {"A"}
      [] DetermineStep(bundle) = "RATING_B" -> {"B"}
      [] DetermineStep(bundle) = "PAIRWISE" -> Labels
      [] OTHER -> {}

\* getCaseView. It fails when the ratings of a completed case were read too
\* early, or the experiment no longer matches the snapshot of the case.
View(p) ==
    /\ asks[p].action = "view" /\ Finish(p)
    /\ \/ UNCHANGED <<page, learned>>
       \/ \E bundle \in GetCaseBundle(p) :
          /\ bundle.acceptance # {} /\ bundle.presentation # {} => Cardinality(bundle.ratings) = 2
          /\ page' = [page EXCEPT ![p] = DetermineStep(bundle)]
          /\ learned' = [learned EXCEPT ![p] = @ \cup Shown(bundle)]
    /\ UNCHANGED <<experiment, enrolled, stored, decided>>

\* getBlindCandidateSource: the picture of a label, never its identity.
Media(p) ==
    /\ asks[p].action = "media" /\ Finish(p)
    /\ \E bundle \in GetCaseBundle(p) : LET step == DetermineStep(bundle) IN
        learned' = [learned EXCEPT ![p] = @ \cup
            IF step = "RATING_A" THEN {"A"} ELSE IF step = "RATING_B" THEN {"B"}
            ELSE IF step = "HUMAN_INTENT" THEN {} ELSE Labels]
    /\ UNCHANGED <<experiment, enrolled, stored, page, decided>>

\* The report counts a case only when it is complete; with one case its rates
\* are 0 or 1, so the thresholds of 0.1 and 0.05 ask for the sign.
Completed(bundle) ==
    bundle.acceptance # {} /\ bundle.pairwise # {} /\ Cardinality(bundle.ratings) = 2

Useful(bundle, identity) ==
    (CHOOSE r \in bundle.ratings :
        (r.label = "A") = (identity \in bundle.presentation)).score.usefulness

SuggestDecision(bundle) ==
    LET accepted == CHOOSE a \in bundle.acceptance : TRUE
        Rate(b) == IF b THEN 1 ELSE 0
        lift == Rate(accepted.PRESERVED) - Rate(accepted.RAW)
        usefulness == Useful(bundle, "PRESERVED") - Useful(bundle, "RAW") IN
    IF lift < 0 \/ usefulness < 0 THEN "NEGATIVE_SIGNAL"
    ELSE IF lift > 0 /\ usefulness > 0 THEN "STRONG_SIGNAL"
    ELSE IF lift > 0 \/ usefulness > 0 THEN "CONDITIONAL_SIGNAL"
    ELSE "NO_SIGNAL"

\* A complete case without the order it was shown in fails the dashboard.
Dashboard(p) ==
    /\ asks[p].action = "dashboard" /\ Finish(p)
    /\ \E bundle \in GetCaseBundle(p) :
       LET count == IF Completed(bundle) THEN 1 ELSE 0 IN
       decided' = [decided EXCEPT ![p] =
            IF count > 0 /\ bundle.presentation = {} THEN @
            ELSE IF count >= Target THEN SuggestDecision(bundle) ELSE "NONE"]
    /\ UNCHANGED <<experiment, enrolled, stored, page, learned>>

Next ==
    \/ AddCase
    \/ \E p \in Evaluators :
        \/ \E action \in Actions : Ask(p, action)
        \/ ReadCase(p) \/ Refuse(p) \/ Insert(p) \/ View(p) \/ Media(p) \/ Dashboard(p)

Spec == Init /\ [][Next]_vars

-----------------------------------------------------------------------------
(* Properties.                                                               *)

\* Every variable keeps its type.
TypeOK ==
    /\ experiment \in PixelGains \cup {"FAILED"} /\ enrolled \in BOOLEAN
    /\ stored \in Bundles
    /\ asks \in [Evaluators ->
            [action: Actions \cup {"none"}, phase: {"read", "write"}, case: Bundles]]
    /\ page \in [Evaluators -> StudySteps \cup {"CASES"}]
    /\ learned \in [Evaluators -> SUBSET (Labels \cup {"identity"})]
    /\ decided \in [Evaluators -> Decisions]

\* The study is blind, whoever works on the case at once and however torn the
\* reads are: a candidate is seen only after the intent is locked, B only after
\* A was rated, who is who only after the comparison is; the comparison stored
\* says what the order drawn and the ratings stored make of it, and a decision
\* is one of the complete case.
StudyIsBlind ==
    /\ \A p \in Evaluators :
        /\ learned[p] # {} => stored.intent # {}
        /\ "B" \in learned[p] => HasRated(stored, "A")
        /\ "identity" \in learned[p] => stored.pairwise # {}
        /\ decided[p] # "NONE" => Completed(stored) /\ decided[p] = SuggestDecision(stored)
    /\ \A w \in stored.pairwise, i \in stored.presentation :
        /\ w.derived = DeriveStudyPreference(w.preference, i)
        /\ w.tag = DeriveDivergenceTag(experiment, stored.ratings, w.derived)
    /\ HasRated(stored, "B") => HasRated(stored, "A")
    /\ stored.acceptance # {} => stored.pairwise # {} /\ Cardinality(stored.ratings) = 2
=============================================================================
