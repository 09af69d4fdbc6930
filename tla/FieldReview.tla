---------------------------- MODULE FieldReview ----------------------------
(* What people record about delivered Field Beta outcomes (FieldBetaService:  *)
(* feedback, regression candidates, golden cases, blind judgments) and the    *)
(* lab screen that asks for it. Every record is checked in one await and      *)
(* inserted in another; an answer can be lost.                                *)
EXTENDS Naturals, FiniteSets

CONSTANTS
    Published,      \* field outcomes that get delivered
    People          \* open screens, each with at most one request in flight

Machine == {"PASSED", "FAILED", "INCOMPLETE"}
Feedbacks == {"NONE", "ACCEPTED", "REJECTED"}
Goldens == [feedback: Feedbacks, regression: BOOLEAN]
Records ==
    [exists: BOOLEAN, machine: {"PASSED", "FAILED"}, sameSpec: Machine,
     sample: BOOLEAN, feedback: Feedbacks, regression: BOOLEAN, judgment: BOOLEAN,
     golden: SUBSET Goldens]
Inserts == {"accept", "reject", "regression", "judgment", "golden"}
Steps == {"idle", "goldenFeedback", "goldenRegression"} \cup Inserts
Screens == {"open", "accepted", "rejected", "error"}

VARIABLES
    field,      \* field[o]: the outcome o and the human records on it
    asks,       \* asks[p]: the request in flight: await, outcome, what it read
    screen      \* screen[p]: what the lab shows after its last answer

vars == <<field, asks, screen>>

NoAsk(o) == [step |-> "idle", outcome |-> o, feedback |-> "NONE", regression |-> FALSE]

\* The verification's verdict; the same-spec status derived from its evidence
\* agrees with it or is INCOMPLETE (FieldBetaRun!SameSpec).
Init ==
    /\ field \in [Published -> {[exists |-> FALSE, machine |-> m, sameSpec |-> s,
            sample |-> FALSE, feedback |-> "NONE", regression |-> FALSE,
            judgment |-> FALSE, golden |-> {}] :
                m \in {"PASSED", "FAILED"}, s \in {"PASSED", "INCOMPLETE"}}]
    /\ \A o \in Published : field[o].machine = "FAILED" => field[o].sameSpec = "INCOMPLETE"
    /\ asks = [p \in People |-> NoAsk(CHOOSE o \in Published : TRUE)]
    /\ screen = [p \in People |-> "open"]

Deliver(o) ==
    /\ ~field[o].exists
    /\ \E drawn \in BOOLEAN :
        field' = [field EXCEPT ![o].exists = TRUE, ![o].sample = drawn]
    /\ UNCHANGED <<asks, screen>>

\* The first await of each request: its checks, on the rows as they are now.
Ask(p, o, step) ==
    /\ asks[p].step = "idle" /\ screen[p] = "open" /\ field[o].exists
    /\ asks' = [asks EXCEPT ![p] = [NoAsk(o) EXCEPT !.step = step]]
    /\ UNCHANGED <<field, screen>>

RecordFeedback(p, o) ==
    /\ field[o].feedback = "NONE"
    /\ \E answer \in {"accept", "reject"} : Ask(p, o, answer)

FlagRegression(p, o) ==
    /\ field[o].feedback = "REJECTED" /\ ~field[o].regression
    /\ Ask(p, o, "regression")

RecordJudgment(p, o) ==
    /\ field[o].sample /\ ~field[o].judgment
    /\ Ask(p, o, "judgment")

PromoteGolden(p, o) == field[o].golden = {} /\ Ask(p, o, "goldenFeedback")

\* A golden case quotes the feedback, then the regression, read one by one.
ReadForGolden(p) ==
    LET record == field[asks[p].outcome] IN
    /\ \/ /\ asks[p].step = "goldenFeedback"
          /\ asks' = [asks EXCEPT ![p].feedback = record.feedback,
                                  ![p].step = "goldenRegression"]
       \/ /\ asks[p].step = "goldenRegression"
          /\ asks' = [asks EXCEPT ![p].regression = record.regression,
                                  ![p].step = "golden"]
    /\ UNCHANGED <<field, screen>>

\* Mutant: the second feedback replaces the first (no unique constraint).
InsertLast(record, ask) ==
    CASE ask.step = "accept" -> [record EXCEPT !.feedback = "ACCEPTED"]
      [] ask.step = "reject" -> [record EXCEPT !.feedback = "REJECTED"]
      [] ask.step = "regression" -> [record EXCEPT !.regression = TRUE]
      [] ask.step = "judgment" -> [record EXCEPT !.judgment = TRUE]
      [] ask.step = "golden" ->
            [record EXCEPT !.golden = {[feedback |-> ask.feedback, regression |-> ask.regression]}]

\* The insert: one feedback, regression and golden case per outcome, one
\* judgment per sample; the second of two that passed the check is refused.
Inserted(record, ask) ==
    CASE ask.step = "accept" /\ record.feedback = "NONE" ->
            [record EXCEPT !.feedback = "ACCEPTED"]
      [] ask.step = "reject" /\ record.feedback = "NONE" ->
            [record EXCEPT !.feedback = "REJECTED"]
      [] ask.step = "regression" -> [record EXCEPT !.regression = TRUE]
      [] ask.step = "judgment" -> [record EXCEPT !.judgment = TRUE]
      [] ask.step = "golden" /\ record.golden = {} ->
            [record EXCEPT !.golden = {[feedback |-> ask.feedback, regression |-> ask.regression]}]
      [] OTHER -> record

\* The screen keeps an answer only if the server confirmed it; when the answer
\* is lost on the way back it shows an error and asks again.
Shown(ask, stored) ==
    IF ~stored THEN "error"
    ELSE CASE ask.step = "accept" -> "accepted"
           [] ask.step = "reject" -> "rejected"
           [] OTHER -> "open"

Insert(p) ==
    LET o == asks[p].outcome IN
    /\ asks[p].step \in Inserts
    /\ field' = [field EXCEPT ![o] = Inserted(field[o], asks[p])]
    /\ screen' \in {[screen EXCEPT ![p] = Shown(asks[p], field'[o] # field[o])],
                    [screen EXCEPT ![p] = "error"]}
    /\ asks' = [asks EXCEPT ![p] = NoAsk(o)]

\* A new run clears the screen.
Reload(p) ==
    /\ screen[p] # "open" /\ screen' = [screen EXCEPT ![p] = "open"]
    /\ UNCHANGED <<field, asks>>

\* deriveFieldSemanticStatus
OutcomeAcceptance(record) ==
    IF record.sameSpec = "FAILED" \/ record.machine = "FAILED" THEN "MACHINE_FAILED"
    ELSE IF record.sameSpec = "INCOMPLETE" THEN "INCOMPLETE"
    ELSE IF record.feedback = "NONE" THEN "AWAITING_HUMAN" ELSE record.feedback
Eligible(record) == record.exists /\ OutcomeAcceptance(record) = "ACCEPTED"

Next ==
    \/ \E o \in Published : Deliver(o)
    \/ \E p \in People, o \in Published :
        \/ RecordFeedback(p, o) \/ FlagRegression(p, o)
        \/ RecordJudgment(p, o) \/ PromoteGolden(p, o)
    \/ \E p \in People : ReadForGolden(p) \/ Insert(p) \/ Reload(p)

Spec == Init /\ [][Next]_vars

TypeOK ==
    /\ field \in [Published -> Records]
    /\ asks \in [People -> [step: Steps, outcome: Published, feedback: Feedbacks,
                            regression: BOOLEAN]]
    /\ screen \in [People -> Screens]

\* The human records stand on each other although each is checked and inserted
\* in two awaits: a regression is of a rejected outcome, a judgment judges a
\* sample, a golden case quotes feedback and a regression that were recorded,
\* and a screen that says YES or NO says what is stored.
HumanRecordsAgree ==
    /\ \A o \in Published :
        /\ field[o].feedback # "NONE" => field[o].exists
        /\ field[o].regression => field[o].feedback = "REJECTED"
        /\ field[o].judgment => field[o].sample
        /\ \A g \in field[o].golden :
            /\ g.feedback \in {"NONE", field[o].feedback}
            /\ g.regression => field[o].regression
    /\ \A p \in People :
        /\ screen[p] = "accepted" => field[asks[p].outcome].feedback = "ACCEPTED"
        /\ screen[p] = "rejected" => field[asks[p].outcome].feedback = "REJECTED"

\* What makes an outcome eligible for a commit never changes afterwards.
EligibilityIsFinal ==
    [][\A o \in Published : Eligible(field[o]) => Eligible(field'[o])]_vars
=============================================================================
