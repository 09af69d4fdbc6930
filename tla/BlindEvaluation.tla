--------------------------- MODULE BlindEvaluation ---------------------------
(***************************************************************************)
(* One blind A/B session of BlindEvaluationService over the Supabase       *)
(* repository: human intent, compilation of the two responses, the two     *)
(* sequential ratings, the judgment, and the view that decides what the    *)
(* evaluator is asked next and when the identities are revealed.           *)
(*                                                                         *)
(* Every await of the service is one step, so requests interleave between  *)
(* the rows they read and the rows they write; only the unique constraints *)
(* of the tables are atomic.  An evaluator follows the step that the last  *)
(* view offered, keeps it after an error like the page does, and can       *)
(* resume with GET /sessions/[id]; an API client asks for anything.  A     *)
(* comparison is named by its case: (session_id, evaluation_case_id) is    *)
(* unique.  The cases of a set never change and are named by position.     *)
(* What the two models answer, and which of them is A, does not change the *)
(* protocol and is left out.                                               *)
(***************************************************************************)
EXTENDS Naturals, Sequences, FiniteSets

CONSTANTS
  CaseCount,  \* cases of the evaluation set
  Evaluators, \* clients that follow the session view
  ApiClients, \* clients that call the routes in any order
  MaxAborts   \* bound of the requests that die at an await

ASSUME CaseCountAssumption == CaseCount \in Nat \ {0}
ASSUME MaxAbortsAssumption == MaxAborts \in Nat
ASSUME ClientAssumption == Evaluators \cap ApiClients = {}

VARIABLES
  status,      \* blind_evaluation_sessions.status
  comparisons, \* cases of blind_evaluation_comparisons in order of created_at
  intents,     \* intents[c]: the row of blind_evaluation_human_intents
  ratings,     \* ratings[c]: output positions of blind_evaluation_step_ratings
  judged,      \* cases whose comparison has a blind_evaluation_judgments row
  requests,    \* requests[w]: the request of client w inside the service
  offers,      \* offers[t]: what the last view told evaluator t to do
  disclosed,   \* history: cases whose two responses were sent to a client
  revealed,    \* history: the A/B identities were sent to a client
  aborts       \* requests that died

rows    == <<status, comparisons, intents, ratings, judged>>
history == <<disclosed, revealed>>
vars    == <<rows, requests, offers, history, aborts>>

Cases     == 1..CaseCount
Positions == {1, 2}
Clients   == Evaluators \cup ApiClients
Compared  == {comparisons[i] : i \in DOMAIN comparisons}

Operation(kind, c, position) == [kind |-> kind, case |-> c, position |-> position]
View == Operation("VIEW", 1, 1)
Done == Operation("DONE", 1, 1)
Operations ==
  {View}
    \cup {Operation(kind, c, 1) : kind \in {"HUMAN_INTENT", "JUDGMENT"}, c \in Cases}
    \cup {Operation("RATING", c, position) : c \in Cases, position \in Positions}

\* The locals of a request: its operation and what its view has read so far.
NothingSeen == [status |-> "IN_PROGRESS", comparisons |-> <<>>, unread |-> {},
                judged |-> {}, linked |-> FALSE]
Idle == [pc |-> "IDLE", case |-> 1, position |-> 1, seen |-> NothingSeen]

Init ==
  /\ status = "IN_PROGRESS"
  /\ comparisons = <<>>
  /\ intents = [c \in Cases |-> "NONE"]
  /\ ratings = [c \in Cases |-> {}]
  /\ judged = {}
  /\ requests = [w \in Clients |-> Idle]
  /\ offers = [t \in Evaluators |-> View]
  /\ disclosed = {}
  /\ revealed = FALSE
  /\ aborts = 0

At(w, pc) == requests[w].pc = pc
Goto(w, pc) == requests' = [requests EXCEPT ![w].pc = pc]

\* The request ends with a view; an evaluator remembers what it was offered.
Answer(w, offer) ==
  /\ requests' = [requests EXCEPT ![w] = Idle]
  /\ offers' = [t \in Evaluators |-> IF t = w THEN offer ELSE offers[t]]

\* The request ends with an error.
Refuse(w) ==
  /\ requests' = [requests EXCEPT ![w] = Idle]
  /\ UNCHANGED <<rows, offers, history, aborts>>

Continue(w, pc) ==
  /\ Goto(w, pc)
  /\ UNCHANGED <<rows, offers, history, aborts>>

FirstStep(kind) ==
  CASE kind = "VIEW"         -> "READ_SESSION"
    [] kind = "HUMAN_INTENT" -> "FIND_INTENT"
    [] kind = "RATING"       -> "CHECK_RATING"
    [] kind = "JUDGMENT"     -> "CHECK_JUDGMENT"

Submit(w, operation) ==
  /\ At(w, "IDLE")
  /\ requests' = [requests EXCEPT ![w] = [Idle EXCEPT
                    !.pc = FirstStep(operation.kind),
                    !.case = operation.case,
                    !.position = operation.position]]
  /\ UNCHANGED <<rows, offers, history, aborts>>

FollowOffer(t) == offers[t] # Done /\ Submit(t, offers[t])

Resume(t) == offers[t] # Done /\ Submit(t, View)

CallApi(a) == \E operation \in Operations : Submit(a, operation)
----------------------------------------------------------------------------
(* submitHumanIntent.  The status of the session is not looked at.         *)

FindIntent(w) ==
  /\ At(w, "FIND_INTENT")
  /\ IF intents[requests[w].case] = "NONE" THEN Continue(w, "COMPILE") ELSE Refuse(w)

\* Both compilations and the insert of the comparison.
CompileComparison(w) ==
  LET c == requests[w].case IN
  /\ At(w, "COMPILE")
  /\ IF c \in Compared
       THEN Refuse(w)
       ELSE /\ comparisons' = Append(comparisons, c)
            /\ Goto(w, "RECORD")
            /\ UNCHANGED <<status, intents, ratings, judged, offers, history, aborts>>

\* A request gets here only after its own insert of the comparison, so that
\* unique (session_id, evaluation_case_id) of the intents holds.
RecordIntent(w) ==
  /\ At(w, "RECORD")
  /\ intents' = [intents EXCEPT ![requests[w].case] = "RECORDED"]
  /\ Goto(w, "LINK")
  /\ UNCHANGED <<status, comparisons, ratings, judged, offers, history, aborts>>

\* Mutant: the intent is never linked to the comparison.
ForgetLink(w) == At(w, "LINK") /\ Continue(w, "READ_SESSION")

LinkIntent(w) ==
  /\ At(w, "LINK")
  /\ intents' = [intents EXCEPT ![requests[w].case] = "LINKED"]
  /\ Goto(w, "READ_SESSION")
  /\ UNCHANGED <<status, comparisons, ratings, judged, offers, history, aborts>>
----------------------------------------------------------------------------
(* submitStepRating and submitJudgment.  The comparison never disappears,  *)
(* so reading it and reading its session are one step.                     *)

Open(c) == c \in Compared /\ status = "IN_PROGRESS"

CheckRating(w) ==
  /\ At(w, "CHECK_RATING")
  /\ IF Open(requests[w].case) THEN Continue(w, "FIND_LINK") ELSE Refuse(w)

FindLink(w) ==
  /\ At(w, "FIND_LINK")
  /\ IF intents[requests[w].case] = "LINKED" THEN Continue(w, "COUNT") ELSE Refuse(w)

ExpectedStep(c) == Cardinality(ratings[c]) + 1

\* Mutant: the output position is not compared with the expected one.
AnyRating(w) == At(w, "COUNT") /\ Continue(w, "INSERT_RATING")

CountRatings(w) ==
  /\ At(w, "COUNT")
  /\ IF requests[w].position = ExpectedStep(requests[w].case)
       THEN Continue(w, "INSERT_RATING")
       ELSE Refuse(w)

\* unique (comparison_id, output_position)
InsertRating(w) ==
  LET c == requests[w].case
      p == requests[w].position
  IN
  /\ At(w, "INSERT_RATING")
  /\ IF p \in ratings[c]
       THEN Refuse(w)
       ELSE /\ ratings' = [ratings EXCEPT ![c] = @ \cup {p}]
            /\ Goto(w, "READ_SESSION")
            /\ UNCHANGED <<status, comparisons, intents, judged, offers, history, aborts>>

CheckJudgment(w) ==
  /\ At(w, "CHECK_JUDGMENT")
  /\ IF Open(requests[w].case) THEN Continue(w, "FIND_RATINGS") ELSE Refuse(w)

FindRatings(w) ==
  /\ At(w, "FIND_RATINGS")
  /\ IF ratings[requests[w].case] = Positions
       THEN Continue(w, "INSERT_JUDGMENT")
       ELSE Refuse(w)

\* comparison_id of the judgments is unique.
InsertJudgment(w) ==
  LET c == requests[w].case IN
  /\ At(w, "INSERT_JUDGMENT")
  /\ IF c \in judged
       THEN Refuse(w)
       ELSE /\ judged' = judged \cup {c}
            /\ Goto(w, "READ_SESSION")
            /\ UNCHANGED <<status, comparisons, intents, ratings, offers, history, aborts>>
----------------------------------------------------------------------------
(* getSessionView, which also ends every successful submission.            *)

Read(w, pc, seen) ==
  /\ requests' = [requests EXCEPT ![w].pc = pc, ![w].seen = seen]
  /\ UNCHANGED <<rows, offers, history, aborts>>

ReadSession(w) ==
  /\ At(w, "READ_SESSION")
  /\ Read(w, "READ_COMPARISONS", [requests[w].seen EXCEPT !.status = status])

ReadComparisons(w) ==
  /\ At(w, "READ_COMPARISONS")
  /\ Read(w, "READ_JUDGMENTS",
          [requests[w].seen EXCEPT !.comparisons = comparisons, !.unread = Compared])

\* Mutant: the session is read again after the judgments.
ReadJudgmentThenSession(w) ==
  LET seen == requests[w].seen IN
  /\ At(w, "READ_JUDGMENTS")
  /\ \E c \in seen.unread :
       Read(w, "READ_JUDGMENTS",
            [seen EXCEPT !.unread = @ \ {c}, !.judged = @ \cup ({c} \cap judged),
                         !.status = status])

\* One of the concurrent reads of Promise.all.
ReadJudgment(w) ==
  LET seen == requests[w].seen IN
  /\ At(w, "READ_JUDGMENTS")
  /\ \E c \in seen.unread :
       Read(w, "READ_JUDGMENTS",
            [seen EXCEPT !.unread = @ \ {c}, !.judged = @ \cup ({c} \cap judged)])

SeenCases(seen) == {seen.comparisons[i] : i \in DOMAIN seen.comparisons}

\* Mutant: judgments are counted against the comparisons, not the cases.
AllComparedJudged(seen) ==
  seen.comparisons # <<>> /\ seen.judged = SeenCases(seen)

AllJudged(seen) == seen.judged = Cases
OpenIndexes(seen) == {i \in DOMAIN seen.comparisons : seen.comparisons[i] \notin seen.judged}
Uncompared(seen) == Cases \ SeenCases(seen)
\* {the least member of S}
First(S) == {n \in S : \A m \in S : n <= m}

\* A completed session with open judgments, or no case left to offer.
Contradicts(seen) ==
  /\ ~ AllJudged(seen)
  /\ seen.status = "COMPLETED" \/ (OpenIndexes(seen) = {} /\ Uncompared(seen) = {})

\* A session that was read as completed is not updated, and still is.
CompleteSession(w) ==
  /\ status' = "COMPLETED"
  /\ Goto(w, "REVEAL")
  /\ UNCHANGED <<comparisons, intents, ratings, judged, offers, history, aborts>>

\* The branches of getSessionView after its reads.
Conclude(w) ==
  LET seen == requests[w].seen IN
  /\ At(w, "READ_JUDGMENTS")
  /\ seen.unread = {}
  /\ IF AllJudged(seen) THEN CompleteSession(w)
     ELSE IF Contradicts(seen) THEN Refuse(w)
     ELSE IF OpenIndexes(seen) # {}
       THEN /\ \E i \in First(OpenIndexes(seen)) :
                 requests' = [requests EXCEPT ![w].pc = "READ_LINK",
                                              ![w].case = seen.comparisons[i]]
            /\ UNCHANGED <<rows, offers, history, aborts>>
     ELSE /\ \E c \in First(Uncompared(seen)) : Answer(w, Operation("HUMAN_INTENT", c, 1))
          /\ UNCHANGED <<rows, history, aborts>>

Reveal(w) ==
  /\ At(w, "REVEAL")
  /\ revealed' = TRUE
  /\ Answer(w, Done)
  /\ UNCHANGED <<rows, disclosed, aborts>>

\* Mutant: the intent is looked up by session and case, linked or not.
ReadAnyIntent(w) ==
  /\ At(w, "READ_LINK")
  /\ Read(w, "READ_RATINGS",
          [requests[w].seen EXCEPT !.linked = (intents[requests[w].case] # "NONE")])

ReadLink(w) ==
  /\ At(w, "READ_LINK")
  /\ Read(w, "READ_RATINGS",
          [requests[w].seen EXCEPT !.linked = (intents[requests[w].case] = "LINKED")])

\* Mutant: the next rating is offered after the last one too.
NextRating(c) == Operation("RATING", c, Cardinality(ratings[c]) + 1)

StepAfter(c) ==
  CASE ratings[c] = {}         -> Operation("RATING", c, 1)
    [] Cardinality(ratings[c]) = 1 -> Operation("RATING", c, 2)
    [] OTHER                   -> Operation("JUDGMENT", c, 1)

\* buildActiveCaseView: the responses are in the answer unless the step is
\* HUMAN_INTENT.
ShowCase(w) ==
  LET c == requests[w].case IN
  /\ At(w, "READ_RATINGS")
  /\ IF requests[w].seen.linked
       THEN Answer(w, StepAfter(c)) /\ disclosed' = disclosed \cup {c}
       ELSE Answer(w, Operation("HUMAN_INTENT", c, 1)) /\ UNCHANGED disclosed
  /\ UNCHANGED <<rows, revealed, aborts>>
----------------------------------------------------------------------------
\* An await rejects or the process dies: frozen versions that no longer match,
\* a lost connection, a timeout.  What was written stays.
Abort(w) ==
  /\ ~ At(w, "IDLE")
  /\ aborts < MaxAborts
  /\ aborts' = aborts + 1
  /\ requests' = [requests EXCEPT ![w] = Idle]
  /\ UNCHANGED <<rows, offers, history>>

ServiceStep(w) ==
  \/ FindIntent(w) \/ CompileComparison(w) \/ RecordIntent(w) \/ LinkIntent(w)
  \/ CheckRating(w) \/ FindLink(w) \/ CountRatings(w) \/ InsertRating(w)
  \/ CheckJudgment(w) \/ FindRatings(w) \/ InsertJudgment(w)
  \/ ReadSession(w) \/ ReadComparisons(w) \/ ReadJudgment(w) \/ Conclude(w)
  \/ Reveal(w) \/ ReadLink(w) \/ ShowCase(w)

Next ==
  \/ \E t \in Evaluators : FollowOffer(t) \/ Resume(t)
  \/ \E a \in ApiClients : CallApi(a)
  \/ \E w \in Clients : ServiceStep(w) \/ Abort(w)

\* A request that was accepted runs on.  An evaluator keeps submitting and
\* now and then resumes, which it can do only between two requests (SF);
\* nobody has to call the API, and nothing has to fail.
Fairness ==
  /\ \A w \in Clients : WF_vars(ServiceStep(w))
  /\ \A t \in Evaluators : SF_vars(FollowOffer(t)) /\ SF_vars(Resume(t))

Spec == Init /\ [][Next]_vars
FairSpec == Spec /\ Fairness
----------------------------------------------------------------------------
(* Properties. *)

Steps ==
  {"IDLE", "FIND_INTENT", "COMPILE", "RECORD", "LINK", "CHECK_RATING", "FIND_LINK",
   "COUNT", "INSERT_RATING", "CHECK_JUDGMENT", "FIND_RATINGS", "INSERT_JUDGMENT",
   "READ_SESSION", "READ_COMPARISONS", "READ_JUDGMENTS", "REVEAL", "READ_LINK",
   "READ_RATINGS"}

Sights ==
  [status : {"IN_PROGRESS", "COMPLETED"}, comparisons : Seq(Cases),
   unread : SUBSET Cases, judged : SUBSET Cases, linked : BOOLEAN]

Requests == [pc : Steps, case : Cases, position : Positions, seen : Sights]

\* Every variable keeps its type (the column checks of the blind tables).
TypeOK ==
  /\ status \in {"IN_PROGRESS", "COMPLETED"}
  /\ comparisons \in Seq(Cases)
  /\ intents \in [Cases -> {"NONE", "RECORDED", "LINKED"}]
  /\ ratings \in [Cases -> SUBSET Positions]
  /\ judged \in SUBSET Cases
  /\ requests \in [Clients -> Requests]
  /\ offers \in [Evaluators -> Operations \cup {Done}]
  /\ disclosed \in SUBSET Cases
  /\ revealed \in BOOLEAN
  /\ aborts \in 0..MaxAborts

\* The responses of a case reach a client only after its human intent was
\* recorded and linked, however the requests of several clients interleave
\* (INV-011: "Human intent must be locked before blind output disclosure").
IntentBeforeDisclosure ==
  /\ \A c \in disclosed : intents[c] = "LINKED"
  /\ revealed => \A c \in Cases : intents[c] = "LINKED"

\* Ratings of a case follow its linked intent in the order 1, 2, and a
\* judgment stands on both (submitStepRating, submitJudgment).
RatingsAreSequential ==
  \A c \in Cases :
    /\ ratings[c] # {} => intents[c] = "LINKED"
    /\ 2 \in ratings[c] => 1 \in ratings[c]
    /\ c \in judged => ratings[c] = Positions

\* The identities of A and B are revealed, and the session is completed, only
\* when every case of the set was compared and judged (getSessionView counts
\* the judgments it read one by one against the cases).
RevealAfterLastJudgment ==
  /\ revealed => status = "COMPLETED"
  /\ status = "COMPLETED" => judged = Cases /\ Compared = Cases

\* The rows one view read at different moments never make it fail with "conteo
\* de juicios inconsistente" or "No quedan casos" (getSessionView).
ViewsAreConsistent ==
  \A w \in Clients :
    At(w, "READ_JUDGMENTS") /\ requests[w].seen.unread = {}
      => ~ Contradicts(requests[w].seen)

\* As long as no request dies at an await, evaluators who keep going complete
\* the session, in spite of each other and of API clients.
SessionCompletes == <>(status = "COMPLETED" \/ aborts > 0)

\* What 20260809160000_build_001_1_2_human_intent_anchored_eval.sql:1 says of
\* comparisons: "Compilation is deferred until human intent is recorded."
CompilationAfterIntent == \A c \in Compared : intents[c] # "NONE"
==============================================================================
