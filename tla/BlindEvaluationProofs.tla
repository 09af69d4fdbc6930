------------------------ MODULE BlindEvaluationProofs ------------------------
(***************************************************************************)
(* Theorems about BlindEvaluation for every number of cases, every set of  *)
(* evaluators and API clients and every bound of the failures.             *)
(***************************************************************************)
EXTENDS BlindEvaluation, FiniteSetTheorems, TLAPS

USE CaseCountAssumption, MaxAbortsAssumption, ClientAssumption

LEMMA CasesStart == 1 \in Cases /\ Cases \subseteq Nat
  BY DEF Cases

LEMMA OperationFields ==
  ASSUME NEW operation \in Operations
  PROVE  /\ operation.kind \in {"VIEW", "HUMAN_INTENT", "RATING", "JUDGMENT"}
         /\ operation.case \in Cases
         /\ operation.position \in Positions
<1>1. CASE operation = View
  BY <1>1, CasesStart DEF View, Operation, Positions
<1>2. CASE \E kind \in {"HUMAN_INTENT", "JUDGMENT"}, c \in Cases :
             operation = Operation(kind, c, 1)
  BY <1>2 DEF Operation, Positions
<1>3. CASE \E c \in Cases, position \in Positions : operation = Operation("RATING", c, position)
  BY <1>3 DEF Operation, Positions
<1> QED
  BY <1>1, <1>2, <1>3 DEF Operations

LEMMA OffersTyped ==
  /\ View \in Operations
  /\ Done \in Operations \cup {Done}
  /\ \A c \in Cases : /\ Operation("HUMAN_INTENT", c, 1) \in Operations
                      /\ StepAfter(c) \in Operations
<1>1. View \in Operations
  BY DEF Operations
<1>2. ASSUME NEW c \in Cases
      PROVE  /\ Operation("HUMAN_INTENT", c, 1) \in Operations
             /\ Operation("JUDGMENT", c, 1) \in Operations
             /\ Operation("RATING", c, 1) \in Operations
             /\ Operation("RATING", c, 2) \in Operations
  BY DEF Operations, Positions
<1> QED
  BY <1>1, <1>2 DEF StepAfter

LEMMA IdleTyped == Idle \in Requests
  BY CasesStart DEF Idle, Requests, Steps, Sights, NothingSeen, Positions

LEMMA ComparedTyped ==
  ASSUME comparisons \in Seq(Cases)
  PROVE  Compared \in SUBSET Cases
  BY DEF Compared

\* The ways a step leaves the request of its client.
LEMMA RefuseTyped ==
  ASSUME TypeOK, NEW w \in Clients, Refuse(w)
  PROVE  TypeOK'
  BY IdleTyped DEF TypeOK, Refuse, rows, history

LEMMA AnswerTyped ==
  ASSUME TypeOK, NEW w \in Clients, NEW offer \in Operations \cup {Done}, Answer(w, offer)
  PROVE  /\ requests' \in [Clients -> Requests]
         /\ offers' \in [Evaluators -> Operations \cup {Done}]
  BY IdleTyped DEF TypeOK, Answer

LEMMA GotoTyped ==
  ASSUME TypeOK, NEW w \in Clients, NEW pc \in Steps, Goto(w, pc)
  PROVE  requests' \in [Clients -> Requests]
  BY DEF TypeOK, Goto, Requests

LEMMA ContinueTyped ==
  ASSUME TypeOK, NEW w \in Clients, NEW pc \in Steps, Continue(w, pc)
  PROVE  TypeOK'
  BY GotoTyped DEF TypeOK, Continue, rows, history

LEMMA ReadTyped ==
  ASSUME TypeOK, NEW w \in Clients, NEW pc \in Steps, NEW seen \in Sights, Read(w, pc, seen)
  PROVE  TypeOK'
<1>1. requests' \in [Clients -> Requests]
  BY DEF TypeOK, Read, Requests
<1> QED
  BY <1>1 DEF TypeOK, Read, rows, history

LEMMA SubmitTyped ==
  ASSUME TypeOK, NEW w \in Clients, NEW operation \in Operations, Submit(w, operation)
  PROVE  TypeOK'
<1>1. /\ FirstStep(operation.kind) \in Steps
      /\ operation.case \in Cases
      /\ operation.position \in Positions
  BY OperationFields DEF FirstStep, Steps
<1>2. requests' \in [Clients -> Requests]
  BY <1>1, IdleTyped DEF TypeOK, Submit, Requests
<1> QED
  BY <1>2 DEF TypeOK, Submit, rows, history

LEMMA ConcludeTyped ==
  ASSUME TypeOK, NEW w \in Clients, Conclude(w)
  PROVE  TypeOK'
<1> DEFINE seen == requests[w].seen
<1>1. seen \in Sights
  BY DEF TypeOK, Requests
<1>2. CASE AllJudged(seen)
  <2>1. CompleteSession(w)
    BY <1>2 DEF Conclude
  <2> QED
    BY <2>1, GotoTyped DEF CompleteSession, TypeOK, Steps, history
<1>3. CASE ~ AllJudged(seen) /\ Contradicts(seen)
  BY <1>3, RefuseTyped DEF Conclude
<1>4. CASE ~ AllJudged(seen) /\ ~ Contradicts(seen) /\ OpenIndexes(seen) # {}
  <2>1. PICK i \in First(OpenIndexes(seen)) :
          requests' = [requests EXCEPT ![w].pc = "READ_LINK", ![w].case = seen.comparisons[i]]
    BY <1>4 DEF Conclude
  <2>2. seen.comparisons[i] \in Cases
    BY <1>1 DEF First, OpenIndexes, Sights
  <2>3. requests' \in [Clients -> Requests]
    <3> DEFINE c == seen.comparisons[i]
    <3> HIDE DEF c
    <3>1. [requests[w] EXCEPT !.pc = "READ_LINK", !.case = c] \in Requests
      BY <2>2 DEF TypeOK, Requests, Steps, c
    <3>2. requests' = [requests EXCEPT ![w] = [requests[w] EXCEPT !.pc = "READ_LINK", !.case = c]]
      BY <2>1 DEF c, TypeOK, Requests
    <3> QED
      BY <3>1, <3>2 DEF TypeOK
  <2> QED
    BY <1>4, <2>3 DEF Conclude, TypeOK, rows, history
<1>5. CASE ~ AllJudged(seen) /\ ~ Contradicts(seen) /\ OpenIndexes(seen) = {}
  <2>1. PICK c \in First(Uncompared(seen)) : Answer(w, Operation("HUMAN_INTENT", c, 1))
    BY <1>5 DEF Conclude
  <2>2. c \in Cases
    BY DEF First, Uncompared
  <2> QED
    BY <1>5, <2>1, <2>2, OffersTyped, AnswerTyped DEF Conclude, TypeOK, rows, history
<1> QED
  BY <1>2, <1>3, <1>4, <1>5

\* Every step of the service keeps the types.
LEMMA ServiceStepTyped ==
  ASSUME TypeOK, NEW w \in Clients, ServiceStep(w)
  PROVE  TypeOK'
<1> DEFINE c == requests[w].case
<1> DEFINE p == requests[w].position
<1> DEFINE seen == requests[w].seen
<1>0. c \in Cases /\ p \in Positions /\ seen \in Sights
  BY DEF TypeOK, Requests
<1>1. CASE FindIntent(w)
  BY <1>1, ContinueTyped, RefuseTyped DEF FindIntent, Steps
<1>2. CASE CompileComparison(w)
  <2>1. CASE c \in Compared
    BY <1>2, <2>1, RefuseTyped DEF CompileComparison
  <2>2. CASE c \notin Compared
    <3>1. comparisons' \in Seq(Cases)
      BY <1>0, <1>2, <2>2 DEF CompileComparison, TypeOK
    <3>2. requests' \in [Clients -> Requests]
      BY <1>2, <2>2, GotoTyped DEF CompileComparison, Steps
    <3> QED
      BY <1>2, <2>2, <3>1, <3>2 DEF CompileComparison, TypeOK, history
  <2> QED
    BY <2>1, <2>2
<1>3. CASE RecordIntent(w)
  BY <1>3, GotoTyped DEF RecordIntent, TypeOK, Steps, history
<1>4. CASE LinkIntent(w)
  BY <1>4, GotoTyped DEF LinkIntent, TypeOK, Steps, history
<1>5. CASE CheckRating(w)
  BY <1>5, ContinueTyped, RefuseTyped DEF CheckRating, Steps
<1>6. CASE FindLink(w)
  BY <1>6, ContinueTyped, RefuseTyped DEF FindLink, Steps
<1>7. CASE CountRatings(w)
  BY <1>7, ContinueTyped, RefuseTyped DEF CountRatings, Steps
<1>8. CASE InsertRating(w)
  <2>1. CASE p \in ratings[c]
    BY <1>8, <2>1, RefuseTyped DEF InsertRating
  <2>2. CASE p \notin ratings[c]
    <3>1. ratings' \in [Cases -> SUBSET Positions]
      BY <1>0, <1>8, <2>2 DEF InsertRating, TypeOK
    <3>2. requests' \in [Clients -> Requests]
      BY <1>8, <2>2, GotoTyped DEF InsertRating, Steps
    <3> QED
      BY <1>8, <2>2, <3>1, <3>2 DEF InsertRating, TypeOK, history
  <2> QED
    BY <2>1, <2>2
<1>9. CASE CheckJudgment(w)
  BY <1>9, ContinueTyped, RefuseTyped DEF CheckJudgment, Steps
<1>10. CASE FindRatings(w)
  BY <1>10, ContinueTyped, RefuseTyped DEF FindRatings, Steps
<1>11. CASE InsertJudgment(w)
  <2>1. CASE c \in judged
    BY <1>11, <2>1, RefuseTyped DEF InsertJudgment
  <2>2. CASE c \notin judged
    BY <1>0, <1>11, <2>2, GotoTyped DEF InsertJudgment, TypeOK, Steps, history
  <2> QED
    BY <2>1, <2>2
<1>12. CASE ReadSession(w)
  <2>1. [seen EXCEPT !.status = status] \in Sights
    BY <1>0 DEF Sights, TypeOK
  <2> QED
    BY <1>12, <2>1, ReadTyped DEF ReadSession, Steps
<1>13. CASE ReadComparisons(w)
  <2>1. [seen EXCEPT !.comparisons = comparisons, !.unread = Compared] \in Sights
    BY <1>0, ComparedTyped DEF Sights, TypeOK
  <2> QED
    BY <1>13, <2>1, ReadTyped DEF ReadComparisons, Steps
<1>14. CASE ReadJudgment(w)
  <2>1. PICK d \in seen.unread :
          Read(w, "READ_JUDGMENTS",
               [seen EXCEPT !.unread = @ \ {d}, !.judged = @ \cup ({d} \cap judged)])
    BY <1>14 DEF ReadJudgment
  <2>2. [seen EXCEPT !.unread = @ \ {d}, !.judged = @ \cup ({d} \cap judged)] \in Sights
    BY <1>0 DEF Sights, TypeOK
  <2> QED
    BY <2>1, <2>2, ReadTyped DEF Steps
<1>15. CASE Conclude(w)
  BY <1>15, ConcludeTyped
<1>16. CASE Reveal(w)
  BY <1>16, OffersTyped, AnswerTyped DEF Reveal, TypeOK, rows
<1>17. CASE ReadLink(w)
  <2>1. [seen EXCEPT !.linked = (intents[c] = "LINKED")] \in Sights
    BY <1>0 DEF Sights
  <2> QED
    BY <1>17, <2>1, ReadTyped DEF ReadLink, Steps
<1>18. CASE ShowCase(w)
  <2>1. CASE seen.linked
    BY <1>0, <1>18, <2>1, OffersTyped, AnswerTyped DEF ShowCase, TypeOK, rows
  <2>2. CASE ~ seen.linked
    BY <1>0, <1>18, <2>2, OffersTyped, AnswerTyped DEF ShowCase, TypeOK, rows
  <2> QED
    BY <2>1, <2>2
<1> QED
  BY <1>1, <1>2, <1>3, <1>4, <1>5, <1>6, <1>7, <1>8, <1>9, <1>10, <1>11, <1>12, <1>13,
     <1>14, <1>15, <1>16, <1>17, <1>18 DEF ServiceStep

LEMMA StepTyped == TypeOK /\ [Next]_vars => TypeOK'
<1> SUFFICES ASSUME TypeOK, [Next]_vars PROVE TypeOK'
  OBVIOUS
<1>1. CASE \E t \in Evaluators : FollowOffer(t) \/ Resume(t)
  <2>1. PICK t \in Evaluators : FollowOffer(t) \/ Resume(t)
    BY <1>1
  <2>2. t \in Clients /\ (offers[t] # Done => offers[t] \in Operations)
    BY DEF Clients, TypeOK
  <2> QED
    BY <2>1, <2>2, OffersTyped, SubmitTyped DEF FollowOffer, Resume
<1>2. CASE \E a \in ApiClients : CallApi(a)
  BY <1>2, SubmitTyped DEF CallApi, Clients
<1>3. CASE \E w \in Clients : ServiceStep(w)
  BY <1>3, ServiceStepTyped
<1>4. CASE \E w \in Clients : Abort(w)
  BY <1>4, IdleTyped DEF Abort, TypeOK, rows, history
<1>5. CASE UNCHANGED vars
  BY <1>5 DEF vars, rows, history, TypeOK
<1> QED
  BY <1>1, <1>2, <1>3, <1>4, <1>5 DEF Next

\* The rows, requests and answers of a blind session keep their types whatever
\* its clients send and whichever requests die (the blind tables and routes).
THEOREM TypeInvariant == Spec => []TypeOK
<1>1. Init => TypeOK
  <2> SUFFICES ASSUME Init PROVE TypeOK
    OBVIOUS
  <2>1. comparisons \in Seq(Cases) /\ aborts \in 0..MaxAborts
    BY DEF Init
  <2>2. requests \in [Clients -> Requests]
    BY IdleTyped DEF Init
  <2>3. offers \in [Evaluators -> Operations \cup {Done}]
    BY OffersTyped DEF Init
  <2> QED
    BY <2>1, <2>2, <2>3 DEF Init, TypeOK
<1> QED
  BY <1>1, StepTyped, PTL DEF Spec
----------------------------------------------------------------------------
(* What a request knows stays true, because the rows only grow.            *)

Covered(r) == Cases \subseteq r.seen.unread \cup r.seen.judged

\* What request r established about the rows before its next step.
Sound(r) ==
  /\ r.pc \in {"RECORD", "LINK"} => r.case \in Compared
  /\ r.pc \in {"COUNT", "INSERT_RATING"} => intents[r.case] = "LINKED"
  /\ r.pc = "INSERT_RATING" /\ r.position = 2 => 1 \in ratings[r.case]
  /\ r.pc = "INSERT_JUDGMENT" => ratings[r.case] = Positions
  /\ r.pc = "READ_RATINGS" /\ r.seen.linked => intents[r.case] = "LINKED"
  /\ r.pc = "REVEAL" => status = "COMPLETED"
  /\ r.seen.judged \subseteq judged
  /\ r.seen.status = "COMPLETED" => status = "COMPLETED"
  /\ r.pc = "READ_JUDGMENTS" /\ r.seen.status = "COMPLETED" => Covered(r)

RequestsSound == \A w \in Clients : Sound(requests[w])

\* An intent is written by the one request that inserted the comparison.
IntentOwned ==
  /\ \A c \in Cases : intents[c] # "NONE" => c \in Compared
  /\ \A w \in Clients : At(w, "RECORD") => intents[requests[w].case] = "NONE"
  /\ \A w \in Clients : At(w, "LINK") => intents[requests[w].case] = "RECORDED"
  /\ \A v, w \in Clients :
       /\ requests[v].pc \in {"RECORD", "LINK"}
       /\ requests[w].pc \in {"RECORD", "LINK"}
       /\ requests[v].case = requests[w].case
       => v = w

BlindInv ==
  /\ RequestsSound
  /\ IntentOwned
  /\ RatingsAreSequential
  /\ \A c \in disclosed : intents[c] = "LINKED"
  /\ revealed => status = "COMPLETED"
  /\ status = "COMPLETED" => judged = Cases

\* The rows only grow.
RowsGrow ==
  /\ Compared \subseteq Compared'
  /\ \A c \in Cases : intents[c] = "LINKED" => intents'[c] = "LINKED"
  /\ \A c \in Cases : ratings[c] \subseteq ratings'[c]
  /\ judged \subseteq judged'
  /\ status = "COMPLETED" => status' = "COMPLETED"

LEMMA SoundStays ==
  ASSUME TypeOK, TypeOK', RowsGrow, NEW r \in Requests, Sound(r)
  PROVE  Sound(r)'
  BY DEF TypeOK, RowsGrow, Sound, Covered, Requests, Positions

\* A request that changes makes only its own knowledge new.
LEMMA OthersStay ==
  ASSUME TypeOK, TypeOK', RequestsSound, RowsGrow, NEW w \in Clients, Sound(requests[w])',
         \A v \in Clients \ {w} : requests'[v] = requests[v]
  PROVE  RequestsSound'
<1>1. ASSUME NEW v \in Clients \ {w} PROVE Sound(requests[v])'
  <2>1. PICK r \in Requests : r = requests[v]
    BY DEF TypeOK
  <2>2. Sound(r)
    BY <2>1 DEF RequestsSound
  <2>3. Sound(r)'
    BY <2>2, SoundStays
  <2>4. r = requests'[v]
    BY <2>1
  <2> QED
    BY <2>3, <2>4 DEF Sound, Covered, Compared
<1> QED
  BY <1>1 DEF RequestsSound

\* Steps that write no row, and take their request to no insert of an intent.
LEMMA QuietStep ==
  ASSUME TypeOK, TypeOK', BlindInv, UNCHANGED <<rows, history>>, NEW w \in Clients,
         \A v \in Clients \ {w} : requests'[v] = requests[v],
         requests'[w].pc \notin {"RECORD", "LINK"}, Sound(requests[w])'
  PROVE  BlindInv'
<1>1. RowsGrow
  BY DEF RowsGrow, rows, Compared
<1>2. RequestsSound'
  BY <1>1, OthersStay DEF BlindInv
<1>3. IntentOwned'
  BY DEF BlindInv, IntentOwned, rows, At, Compared
<1> QED
  BY <1>2, <1>3 DEF BlindInv, RatingsAreSequential, rows, history

LEMMA RefuseSound ==
  ASSUME TypeOK, TypeOK', BlindInv, NEW w \in Clients, Refuse(w)
  PROVE  BlindInv'
<1>1. /\ \A v \in Clients \ {w} : requests'[v] = requests[v]
      /\ requests'[w] = Idle
  BY DEF Refuse, TypeOK
<1>2. Sound(requests[w])' /\ requests'[w].pc \notin {"RECORD", "LINK"}
  BY <1>1 DEF Sound, Idle, NothingSeen
<1> QED
  BY <1>1, <1>2, QuietStep DEF Refuse

LEMMA SubmitSound ==
  ASSUME TypeOK, TypeOK', BlindInv, NEW w \in Clients, NEW operation \in Operations,
         Submit(w, operation)
  PROVE  BlindInv'
<1>1. /\ FirstStep(operation.kind) \in
           {"READ_SESSION", "FIND_INTENT", "CHECK_RATING", "CHECK_JUDGMENT"}
      /\ \A v \in Clients \ {w} : requests'[v] = requests[v]
      /\ requests'[w].pc = FirstStep(operation.kind)
      /\ requests'[w].seen = NothingSeen
  <2>1. FirstStep(operation.kind) \in
          {"READ_SESSION", "FIND_INTENT", "CHECK_RATING", "CHECK_JUDGMENT"}
    BY OperationFields DEF FirstStep
  <2> QED
    BY <2>1 DEF Submit, TypeOK, Idle
<1>2. Sound(requests[w])' /\ requests'[w].pc \notin {"RECORD", "LINK"}
  BY <1>1 DEF Sound, NothingSeen
<1> QED
  BY <1>1, <1>2, QuietStep DEF Submit

\* A step that only takes its request to pc.
LEMMA ContinueSound ==
  ASSUME TypeOK, TypeOK', BlindInv, NEW w \in Clients, NEW pc \in Steps, Continue(w, pc),
         pc \in {"COMPILE", "FIND_LINK", "COUNT", "INSERT_RATING", "FIND_RATINGS",
                 "INSERT_JUDGMENT"},
         pc \in {"COUNT", "INSERT_RATING"} => intents[requests[w].case] = "LINKED",
         pc = "INSERT_RATING" /\ requests[w].position = 2 => 1 \in ratings[requests[w].case],
         pc = "INSERT_JUDGMENT" => ratings[requests[w].case] = Positions
  PROVE  BlindInv'
<1>1. /\ \A v \in Clients \ {w} : requests'[v] = requests[v]
      /\ requests'[w].pc = pc
      /\ requests'[w].case = requests[w].case
      /\ requests'[w].position = requests[w].position
      /\ requests'[w].seen = requests[w].seen
  BY DEF Continue, Goto, TypeOK, Requests
<1>2. Sound(requests[w])
  BY DEF BlindInv, RequestsSound
<1>3. Sound(requests[w])'
  BY <1>1, <1>2 DEF Sound, Continue, rows
<1> QED
  BY <1>1, <1>3, QuietStep DEF Continue

\* A step of the view.
LEMMA ReadSound ==
  ASSUME TypeOK, TypeOK', BlindInv, NEW w \in Clients, NEW pc \in Steps, NEW seen \in Sights,
         Read(w, pc, seen),
         pc \in {"READ_COMPARISONS", "READ_JUDGMENTS", "READ_RATINGS"},
         seen.judged \subseteq judged,
         seen.status = "COMPLETED" => status = "COMPLETED",
         pc = "READ_JUDGMENTS" /\ seen.status = "COMPLETED"
           => Cases \subseteq seen.unread \cup seen.judged,
         pc = "READ_RATINGS" /\ seen.linked => intents[requests[w].case] = "LINKED"
  PROVE  BlindInv'
<1>1. /\ \A v \in Clients \ {w} : requests'[v] = requests[v]
      /\ requests'[w].pc = pc
      /\ requests'[w].case = requests[w].case
      /\ requests'[w].seen = seen
  BY DEF Read, TypeOK, Requests
<1>2. Sound(requests[w])'
  BY <1>1 DEF Sound, Covered, Read, rows
<1> QED
  BY <1>1, <1>2, QuietStep DEF Read

\* Sequence of ratings: the second is admitted only when there is a first one.
LEMMA SecondAfterFirst ==
  ASSUME TypeOK, RatingsAreSequential, NEW c \in Cases, ExpectedStep(c) = 2
  PROVE  1 \in ratings[c]
<1>1. ratings[c] # {}
  BY FS_EmptySet DEF ExpectedStep
<1>2. ratings[c] \subseteq {1, 2}
  BY DEF TypeOK, Positions
<1> QED
  BY <1>1, <1>2 DEF RatingsAreSequential

LEMMA ShowCaseSound ==
  ASSUME TypeOK, TypeOK', BlindInv, NEW w \in Clients, ShowCase(w)
  PROVE  BlindInv'
<1>1. /\ \A v \in Clients \ {w} : requests'[v] = requests[v]
      /\ requests'[w] = Idle
  BY DEF ShowCase, Answer, TypeOK
<1>2. Sound(requests[w])'
  BY <1>1 DEF Sound, Idle, NothingSeen
<1>3. RowsGrow
  BY DEF RowsGrow, rows, Compared, ShowCase
<1>4. RequestsSound'
  BY <1>1, <1>2, <1>3, OthersStay DEF BlindInv
<1>5. IntentOwned'
  BY <1>1 DEF BlindInv, IntentOwned, rows, At, Compared, Idle, ShowCase
<1>6. \A c \in disclosed' : intents'[c] = "LINKED"
  BY DEF ShowCase, At, rows, BlindInv, RequestsSound, Sound
<1> QED
  BY <1>4, <1>5, <1>6 DEF BlindInv, RatingsAreSequential, rows, ShowCase

\* What Goto does to the requests.
LEMMA GotoKeeps ==
  ASSUME TypeOK, NEW w \in Clients, NEW pc \in Steps, Goto(w, pc)
  PROVE  /\ \A v \in Clients \ {w} : requests'[v] = requests[v]
         /\ requests'[w].pc = pc
         /\ requests'[w].case = requests[w].case
         /\ requests'[w].position = requests[w].position
         /\ requests'[w].seen = requests[w].seen
  BY DEF Goto, TypeOK, Requests

LEMMA CompileSound ==
  ASSUME TypeOK, TypeOK', BlindInv, NEW w \in Clients, CompileComparison(w)
  PROVE  BlindInv'
<1> DEFINE c == requests[w].case
<1>1. CASE c \in Compared
  BY <1>1, RefuseSound DEF CompileComparison
<1>2. CASE c \notin Compared
  <2>0. c \in Cases /\ comparisons \in Seq(Cases) /\ comparisons' = Append(comparisons, c)
    BY <1>2 DEF TypeOK, Requests, CompileComparison
  <2>1. Compared' = Compared \cup {c}
    BY <2>0 DEF Compared
  <2>2. Goto(w, "RECORD") /\ UNCHANGED <<status, intents, ratings, judged, history>>
    BY <1>2 DEF CompileComparison
  <2>3. RowsGrow
    BY <2>1, <2>2 DEF RowsGrow
  <2>4. /\ \A v \in Clients \ {w} : requests'[v] = requests[v]
        /\ requests'[w].pc = "RECORD"
        /\ requests'[w].case = c
        /\ requests'[w].seen = requests[w].seen
    BY <2>2, GotoKeeps DEF Steps
  <2>5. Sound(requests[w])'
    BY <2>1, <2>2, <2>4 DEF BlindInv, RequestsSound, Sound
  <2>6. RequestsSound'
    BY <2>3, <2>4, <2>5, OthersStay DEF BlindInv
  <2>7. intents[c] = "NONE"
    BY <1>2, <2>0 DEF BlindInv, IntentOwned, TypeOK
  <2>8. \A v \in Clients \ {w} : requests[v].pc \in {"RECORD", "LINK"} => requests[v].case # c
    BY <1>2 DEF BlindInv, RequestsSound, Sound
  <2>9. IntentOwned'
    BY <2>1, <2>2, <2>4, <2>7, <2>8 DEF BlindInv, IntentOwned, At
  <2> QED
    BY <2>2, <2>6, <2>9 DEF BlindInv, RatingsAreSequential, history
<1> QED
  BY <1>1, <1>2

LEMMA RecordSound ==
  ASSUME TypeOK, TypeOK', BlindInv, NEW w \in Clients, RecordIntent(w)
  PROVE  BlindInv'
<1> DEFINE c == requests[w].case
<1>0. /\ c \in Cases /\ c \in Compared /\ intents[c] = "NONE"
      /\ intents' = [intents EXCEPT ![c] = "RECORDED"]
  BY DEF BlindInv, RequestsSound, Sound, IntentOwned, RecordIntent, At, TypeOK, Requests
<1>1. Goto(w, "LINK") /\ UNCHANGED <<status, comparisons, ratings, judged, history>>
  BY DEF RecordIntent
<1>2. Compared' = Compared
  BY <1>1 DEF Compared
<1>3. RowsGrow
  BY <1>0, <1>1, <1>2 DEF RowsGrow, TypeOK
<1>4. /\ \A v \in Clients \ {w} : requests'[v] = requests[v]
      /\ requests'[w].pc = "LINK"
      /\ requests'[w].case = c
      /\ requests'[w].seen = requests[w].seen
  BY <1>1, GotoKeeps DEF Steps
<1>5. Sound(requests[w])'
  BY <1>0, <1>1, <1>2, <1>4 DEF BlindInv, RequestsSound, Sound
<1>6. RequestsSound'
  BY <1>3, <1>4, <1>5, OthersStay DEF BlindInv
<1>7. intents'[c] = "RECORDED" /\ \A d \in Cases \ {c} : intents'[d] = intents[d]
  BY <1>0 DEF TypeOK
<1>8. \A v \in Clients \ {w} : requests[v].pc \in {"RECORD", "LINK"} => requests[v].case # c
  BY DEF BlindInv, IntentOwned, RecordIntent, At
<1>9. \A v \in Clients : requests[v].case \in Cases
  BY DEF TypeOK, Requests
<1>10. IntentOwned'
  BY <1>0, <1>2, <1>4, <1>7, <1>8, <1>9 DEF BlindInv, IntentOwned, At, RecordIntent
<1>11. RatingsAreSequential' /\ \A d \in disclosed' : intents'[d] = "LINKED"
  BY <1>0, <1>1, <1>7 DEF BlindInv, RatingsAreSequential, history, TypeOK
<1> QED
  BY <1>1, <1>6, <1>10, <1>11 DEF BlindInv, history

LEMMA LinkSound ==
  ASSUME TypeOK, TypeOK', BlindInv, NEW w \in Clients, LinkIntent(w)
  PROVE  BlindInv'
<1> DEFINE c == requests[w].case
<1>0. /\ c \in Cases /\ c \in Compared
      /\ intents' = [intents EXCEPT ![c] = "LINKED"]
  BY DEF BlindInv, RequestsSound, Sound, LinkIntent, At, TypeOK, Requests
<1>1. Goto(w, "READ_SESSION") /\ UNCHANGED <<status, comparisons, ratings, judged, history>>
  BY DEF LinkIntent
<1>2. Compared' = Compared
  BY <1>1 DEF Compared
<1>3. RowsGrow
  BY <1>0, <1>1, <1>2 DEF RowsGrow, TypeOK
<1>4. /\ \A v \in Clients \ {w} : requests'[v] = requests[v]
      /\ requests'[w].pc = "READ_SESSION"
      /\ requests'[w].seen = requests[w].seen
  BY <1>1, GotoKeeps DEF Steps
<1>5. Sound(requests[w])'
  BY <1>1, <1>4 DEF BlindInv, RequestsSound, Sound
<1>6. RequestsSound'
  BY <1>3, <1>4, <1>5, OthersStay DEF BlindInv
<1>7. intents'[c] = "LINKED" /\ \A d \in Cases \ {c} : intents'[d] = intents[d]
  BY <1>0 DEF TypeOK
<1>8. \A v \in Clients \ {w} : requests[v].pc \in {"RECORD", "LINK"} => requests[v].case # c
  BY DEF BlindInv, IntentOwned, LinkIntent, At
<1>9. \A v \in Clients : requests[v].case \in Cases
  BY DEF TypeOK, Requests
<1>10. IntentOwned'
  BY <1>0, <1>2, <1>4, <1>7, <1>8, <1>9 DEF BlindInv, IntentOwned, At
<1>11. RatingsAreSequential' /\ \A d \in disclosed' : intents'[d] = "LINKED"
  BY <1>0, <1>1, <1>7 DEF BlindInv, RatingsAreSequential, history, TypeOK
<1> QED
  BY <1>1, <1>6, <1>10, <1>11 DEF BlindInv, history

\* After a step that takes the request of w to READ_SESSION or REVEAL and
\* writes no intent, the intents are owned as before.
LEMMA OwnershipStays ==
  ASSUME TypeOK, BlindInv, NEW w \in Clients, NEW pc \in Steps \ {"RECORD", "LINK"},
         Goto(w, pc), UNCHANGED <<comparisons, intents>>
  PROVE  IntentOwned'
<1>1. /\ \A v \in Clients \ {w} : requests'[v] = requests[v]
      /\ requests'[w].pc = pc
  BY GotoKeeps
<1> QED
  BY <1>1 DEF BlindInv, IntentOwned, At, Compared

LEMMA InsertRatingSound ==
  ASSUME TypeOK, TypeOK', BlindInv, NEW w \in Clients, InsertRating(w)
  PROVE  BlindInv'
<1> DEFINE c == requests[w].case
<1> DEFINE p == requests[w].position
<1>1. CASE p \in ratings[c]
  BY <1>1, RefuseSound DEF InsertRating
<1>2. CASE p \notin ratings[c]
  <2>0. /\ c \in Cases /\ p \in Positions /\ intents[c] = "LINKED"
        /\ p = 2 => 1 \in ratings[c]
    BY DEF BlindInv, RequestsSound, Sound, InsertRating, At, TypeOK, Requests
  <2>1. /\ Goto(w, "READ_SESSION")
        /\ UNCHANGED <<status, comparisons, intents, judged, history>>
        /\ ratings' = [ratings EXCEPT ![c] = @ \cup {p}]
    BY <1>2 DEF InsertRating
  <2>2. /\ ratings'[c] = ratings[c] \cup {p}
        /\ \A d \in Cases \ {c} : ratings'[d] = ratings[d]
    BY <2>0, <2>1 DEF TypeOK
  <2>3. RowsGrow
    BY <2>1, <2>2 DEF RowsGrow, Compared
  <2>4. /\ \A v \in Clients \ {w} : requests'[v] = requests[v]
        /\ requests'[w].pc = "READ_SESSION"
        /\ requests'[w].seen = requests[w].seen
    BY <2>1, GotoKeeps DEF Steps
  <2>5. Sound(requests[w])'
    BY <2>1, <2>4 DEF BlindInv, RequestsSound, Sound
  <2>6. RequestsSound'
    BY <2>3, <2>4, <2>5, OthersStay DEF BlindInv
  <2>7. IntentOwned'
    BY <2>1, OwnershipStays DEF Steps
  <2>8. RatingsAreSequential'
    BY <2>0, <2>1, <2>2 DEF BlindInv, RatingsAreSequential, Positions, TypeOK
  <2> QED
    BY <2>1, <2>6, <2>7, <2>8 DEF BlindInv, history
<1> QED
  BY <1>1, <1>2

LEMMA InsertJudgmentSound ==
  ASSUME TypeOK, TypeOK', BlindInv, NEW w \in Clients, InsertJudgment(w)
  PROVE  BlindInv'
<1> DEFINE c == requests[w].case
<1>1. CASE c \in judged
  BY <1>1, RefuseSound DEF InsertJudgment
<1>2. CASE c \notin judged
  <2>0. c \in Cases /\ ratings[c] = Positions
    BY DEF BlindInv, RequestsSound, Sound, InsertJudgment, At, TypeOK, Requests
  <2>1. /\ Goto(w, "READ_SESSION")
        /\ UNCHANGED <<status, comparisons, intents, ratings, history>>
        /\ judged' = judged \cup {c}
    BY <1>2 DEF InsertJudgment
  <2>2. RowsGrow
    BY <2>1 DEF RowsGrow, Compared
  <2>3. /\ \A v \in Clients \ {w} : requests'[v] = requests[v]
        /\ requests'[w].pc = "READ_SESSION"
        /\ requests'[w].seen = requests[w].seen
    BY <2>1, GotoKeeps DEF Steps
  <2>4. Sound(requests[w])'
    BY <2>1, <2>3 DEF BlindInv, RequestsSound, Sound
  <2>5. RequestsSound'
    BY <2>2, <2>3, <2>4, OthersStay DEF BlindInv
  <2>6. IntentOwned'
    BY <2>1, OwnershipStays DEF Steps
  <2>7. RatingsAreSequential'
    BY <2>0, <2>1 DEF BlindInv, RatingsAreSequential
  <2>8. status' = "COMPLETED" => judged' = Cases
    BY <2>0, <2>1 DEF BlindInv
  <2> QED
    BY <2>1, <2>5, <2>6, <2>7, <2>8 DEF BlindInv, history
<1> QED
  BY <1>1, <1>2

LEMMA RevealSound ==
  ASSUME TypeOK, TypeOK', BlindInv, NEW w \in Clients, Reveal(w)
  PROVE  BlindInv'
<1>1. /\ \A v \in Clients \ {w} : requests'[v] = requests[v]
      /\ requests'[w] = Idle
  BY DEF Reveal, Answer, TypeOK
<1>2. Sound(requests[w])'
  BY <1>1 DEF Sound, Idle, NothingSeen
<1>3. RowsGrow
  BY DEF RowsGrow, rows, Compared, Reveal
<1>4. RequestsSound'
  BY <1>1, <1>2, <1>3, OthersStay DEF BlindInv
<1>5. IntentOwned'
  BY <1>1 DEF BlindInv, IntentOwned, rows, At, Compared, Idle, Reveal
<1>6. status = "COMPLETED"
  BY DEF Reveal, At, BlindInv, RequestsSound, Sound
<1> QED
  BY <1>4, <1>5, <1>6 DEF BlindInv, RatingsAreSequential, rows, Reveal

\* getSessionView completes the session only after it read a judgment of every
\* case; the judgments it read are still there.
LEMMA ConcludeSound ==
  ASSUME TypeOK, TypeOK', BlindInv, NEW w \in Clients, Conclude(w)
  PROVE  BlindInv'
<1> DEFINE seen == requests[w].seen
<1>0. Sound(requests[w])
  BY DEF BlindInv, RequestsSound
<1>1. CASE AllJudged(seen)
  <2>1. CompleteSession(w)
    BY <1>1 DEF Conclude
  <2>2. /\ Goto(w, "REVEAL") /\ status' = "COMPLETED"
        /\ UNCHANGED <<comparisons, intents, ratings, judged, history>>
    BY <2>1 DEF CompleteSession
  <2>3. judged = Cases
    BY <1>0, <1>1 DEF Sound, AllJudged, TypeOK
  <2>4. RowsGrow
    BY <2>2 DEF RowsGrow, Compared
  <2>5. /\ \A v \in Clients \ {w} : requests'[v] = requests[v]
        /\ requests'[w].pc = "REVEAL"
        /\ requests'[w].seen = requests[w].seen
    BY <2>2, GotoKeeps DEF Steps
  <2>6. Sound(requests[w])'
    BY <1>0, <2>2, <2>5 DEF Sound
  <2>7. RequestsSound'
    BY <2>4, <2>5, <2>6, OthersStay DEF BlindInv
  <2>8. IntentOwned'
    BY <2>2, OwnershipStays DEF Steps
  <2> QED
    BY <2>2, <2>3, <2>7, <2>8 DEF BlindInv, RatingsAreSequential, history
<1>2. CASE ~ AllJudged(seen) /\ Contradicts(seen)
  BY <1>2, RefuseSound DEF Conclude
<1>3. CASE ~ AllJudged(seen) /\ ~ Contradicts(seen) /\ OpenIndexes(seen) # {}
  <2>1. PICK i \in First(OpenIndexes(seen)) :
          requests' = [requests EXCEPT ![w].pc = "READ_LINK", ![w].case = seen.comparisons[i]]
    BY <1>3 DEF Conclude
  <2>2. /\ \A v \in Clients \ {w} : requests'[v] = requests[v]
        /\ requests'[w].pc = "READ_LINK"
        /\ requests'[w].seen = requests[w].seen
    BY <2>1 DEF TypeOK, Requests
  <2>3. UNCHANGED <<rows, history>>
    BY <1>3 DEF Conclude
  <2>4. Sound(requests[w])'
    BY <1>0, <2>2, <2>3 DEF Sound, rows
  <2> QED
    BY <2>2, <2>3, <2>4, QuietStep
<1>4. CASE ~ AllJudged(seen) /\ ~ Contradicts(seen) /\ OpenIndexes(seen) = {}
  <2>1. /\ \A v \in Clients \ {w} : requests'[v] = requests[v]
        /\ requests'[w] = Idle
    BY <1>4 DEF Conclude, Answer, TypeOK
  <2>2. Sound(requests[w])' /\ requests'[w].pc \notin {"RECORD", "LINK"}
    BY <2>1 DEF Sound, Idle, NothingSeen
  <2>3. UNCHANGED <<rows, history>>
    BY <1>4 DEF Conclude
  <2> QED
    BY <2>1, <2>2, <2>3, QuietStep
<1> QED
  BY <1>1, <1>2, <1>3, <1>4

LEMMA ServiceStepSound ==
  ASSUME TypeOK, TypeOK', BlindInv, NEW w \in Clients, ServiceStep(w)
  PROVE  BlindInv'
<1> DEFINE c == requests[w].case
<1> DEFINE seen == requests[w].seen
<1>0. c \in Cases /\ seen \in Sights /\ Sound(requests[w])
  BY DEF TypeOK, Requests, BlindInv, RequestsSound
<1>1. CASE FindIntent(w)
  BY <1>1, ContinueSound, RefuseSound DEF FindIntent, Steps
<1>2. CASE CompileComparison(w) \/ RecordIntent(w) \/ LinkIntent(w)
  BY <1>2, CompileSound, RecordSound, LinkSound
<1>3. CASE CheckRating(w)
  BY <1>3, ContinueSound, RefuseSound DEF CheckRating, Steps
<1>4. CASE FindLink(w)
  BY <1>4, ContinueSound, RefuseSound DEF FindLink, Steps
<1>5. CASE CountRatings(w)
  <2>1. CASE requests[w].position # ExpectedStep(c)
    BY <1>5, <2>1, RefuseSound DEF CountRatings
  <2>2. CASE requests[w].position = ExpectedStep(c)
    <3>1. intents[c] = "LINKED"
      BY <1>0, <1>5 DEF CountRatings, At, Sound
    <3>2. requests[w].position = 2 => 1 \in ratings[c]
      BY <1>0, <2>2, SecondAfterFirst DEF BlindInv
    <3>3. Continue(w, "INSERT_RATING")
      BY <1>5, <2>2 DEF CountRatings
    <3> QED
      BY <3>1, <3>2, <3>3, ContinueSound DEF Steps
  <2> QED
    BY <2>1, <2>2
<1>6. CASE CheckJudgment(w)
  BY <1>6, ContinueSound, RefuseSound DEF CheckJudgment, Steps
<1>7. CASE FindRatings(w)
  BY <1>7, ContinueSound, RefuseSound DEF FindRatings, Steps
<1>8. CASE InsertRating(w) \/ InsertJudgment(w)
  BY <1>8, InsertRatingSound, InsertJudgmentSound
<1>9. CASE ReadSession(w)
  <2> DEFINE now == [seen EXCEPT !.status = status]
  <2>1. /\ now \in Sights /\ now.status = status /\ now.judged = seen.judged
    BY <1>0 DEF Sights, TypeOK
  <2>2. Read(w, "READ_COMPARISONS", now) /\ seen.judged \subseteq judged
    BY <1>0, <1>9 DEF ReadSession, Sound
  <2> HIDE DEF now, seen
  <2> QED
    BY <2>1, <2>2, ReadSound DEF Steps
<1>10. CASE ReadComparisons(w)
  <2> DEFINE now == [seen EXCEPT !.comparisons = comparisons, !.unread = Compared]
  <2>1. now \in Sights
    BY <1>0, ComparedTyped DEF Sights, TypeOK
  <2>2. /\ now.status = seen.status /\ now.judged = seen.judged /\ now.unread = Compared
    BY <1>0 DEF Sights
  <2>3. Read(w, "READ_JUDGMENTS", now)
    BY <1>10 DEF ReadComparisons
  <2>4. status = "COMPLETED" => Cases \subseteq Compared
    BY DEF BlindInv, IntentOwned, RatingsAreSequential, Positions
  <2>5. seen.judged \subseteq judged /\ (seen.status = "COMPLETED" => status = "COMPLETED")
    BY <1>0 DEF Sound
  <2> HIDE DEF now, seen
  <2> QED
    BY <2>1, <2>2, <2>3, <2>4, <2>5, ReadSound DEF Steps
<1>11. CASE ReadJudgment(w)
  <2>1. PICK d \in seen.unread :
          Read(w, "READ_JUDGMENTS",
               [seen EXCEPT !.unread = @ \ {d}, !.judged = @ \cup ({d} \cap judged)])
    BY <1>11 DEF ReadJudgment
  <2> DEFINE now == [seen EXCEPT !.unread = @ \ {d}, !.judged = @ \cup ({d} \cap judged)]
  <2>2. now \in Sights
    BY <1>0 DEF Sights, TypeOK
  <2>3. /\ now.status = seen.status
        /\ now.unread = seen.unread \ {d}
        /\ now.judged = seen.judged \cup ({d} \cap judged)
    BY <1>0 DEF Sights
  <2>4. /\ seen.judged \subseteq judged
        /\ seen.status = "COMPLETED" => status = "COMPLETED"
        /\ seen.status = "COMPLETED" => Cases \subseteq seen.unread \cup seen.judged
    BY <1>0, <1>11 DEF Sound, ReadJudgment, At, Covered
  <2>5. seen.status = "COMPLETED" => d \in judged
    BY <1>0, <2>4 DEF BlindInv, Sights
  <2>6. Read(w, "READ_JUDGMENTS", now)
    BY <2>1
  <2> HIDE DEF now, seen
  <2>7. now.status = "COMPLETED" => Cases \subseteq now.unread \cup now.judged
    BY <2>3, <2>4, <2>5
  <2> QED
    BY <2>2, <2>3, <2>4, <2>6, <2>7, ReadSound DEF Steps
<1>12. CASE Conclude(w) \/ Reveal(w) \/ ShowCase(w)
  BY <1>12, ConcludeSound, RevealSound, ShowCaseSound
<1>13. CASE ReadLink(w)
  <2> DEFINE now == [seen EXCEPT !.linked = (intents[c] = "LINKED")]
  <2>1. now \in Sights
    BY <1>0 DEF Sights
  <2>2. /\ now.status = seen.status /\ now.judged = seen.judged
        /\ now.linked = (intents[c] = "LINKED")
    BY <1>0 DEF Sights
  <2>3. Read(w, "READ_RATINGS", now)
    BY <1>13 DEF ReadLink
  <2>4. seen.judged \subseteq judged /\ (seen.status = "COMPLETED" => status = "COMPLETED")
    BY <1>0 DEF Sound
  <2> HIDE DEF now, seen
  <2> QED
    BY <2>1, <2>2, <2>3, <2>4, ReadSound DEF Steps
<1> QED
  BY <1>1, <1>2, <1>3, <1>4, <1>5, <1>6, <1>7, <1>8, <1>9, <1>10, <1>11, <1>12, <1>13
  DEF ServiceStep

LEMMA StepSound == TypeOK /\ TypeOK' /\ BlindInv /\ [Next]_vars => BlindInv'
<1> SUFFICES ASSUME TypeOK, TypeOK', BlindInv, [Next]_vars PROVE BlindInv'
  OBVIOUS
<1>1. CASE \E t \in Evaluators : FollowOffer(t) \/ Resume(t)
  <2>1. PICK t \in Evaluators : FollowOffer(t) \/ Resume(t)
    BY <1>1
  <2>2. t \in Clients /\ (offers[t] # Done => offers[t] \in Operations)
    BY DEF Clients, TypeOK
  <2> QED
    BY <2>1, <2>2, OffersTyped, SubmitSound DEF FollowOffer, Resume
<1>2. CASE \E a \in ApiClients : CallApi(a)
  BY <1>2, SubmitSound DEF CallApi, Clients
<1>3. CASE \E w \in Clients : ServiceStep(w)
  BY <1>3, ServiceStepSound
<1>4. CASE \E w \in Clients : Abort(w)
  <2>1. PICK w \in Clients : Abort(w)
    BY <1>4
  <2>2. /\ \A v \in Clients \ {w} : requests'[v] = requests[v]
        /\ requests'[w] = Idle
    BY <2>1 DEF Abort, TypeOK
  <2>3. Sound(requests[w])' /\ requests'[w].pc \notin {"RECORD", "LINK"}
    BY <2>2 DEF Sound, Idle, NothingSeen
  <2> QED
    BY <2>1, <2>2, <2>3, QuietStep DEF Abort
<1>5. CASE UNCHANGED vars
  BY <1>5 DEF vars, rows, history, BlindInv, RequestsSound, IntentOwned, RatingsAreSequential,
     Sound, Covered, Compared, At
<1> QED
  BY <1>1, <1>2, <1>3, <1>4, <1>5 DEF Next

\* The inductive invariant: what every request knows of the rows still holds,
\* and each intent belongs to the request that inserted its comparison.
THEOREM BlindInvariant == Spec => []BlindInv
<1>1. Init => BlindInv
  BY DEF Init, BlindInv, RequestsSound, Sound, Idle, NothingSeen, IntentOwned, Compared, At,
     RatingsAreSequential
<1> QED
  BY <1>1, StepSound, TypeInvariant, PTL DEF Spec

\* INV-011 for every interleaving: the responses of a case reach a client only
\* after its human intent was linked (buildActiveCaseView).
THEOREM BlindDisclosure == Spec => []IntentBeforeDisclosure
<1>1. BlindInv => IntentBeforeDisclosure
  BY DEF BlindInv, IntentBeforeDisclosure, RatingsAreSequential, Positions
<1> QED
  BY <1>1, BlindInvariant, PTL

\* Concurrent ratings stay in sequence and a judgment stands on both
\* (submitStepRating, submitJudgment and the unique constraints).
THEOREM SequentialRatings == Spec => []RatingsAreSequential
<1>1. BlindInv => RatingsAreSequential
  BY DEF BlindInv
<1> QED
  BY <1>1, BlindInvariant, PTL

\* Identities are revealed only after the last judgment (getSessionView).
THEOREM RevealLast == Spec => []RevealAfterLastJudgment
<1>1. TypeOK /\ BlindInv => RevealAfterLastJudgment
  <2> SUFFICES ASSUME TypeOK, BlindInv, status = "COMPLETED" PROVE Compared = Cases
    BY DEF BlindInv, RevealAfterLastJudgment
  <2>1. Compared \subseteq Cases
    BY ComparedTyped DEF TypeOK
  <2>2. Cases \subseteq Compared
    BY DEF BlindInv, IntentOwned, RatingsAreSequential, Positions
  <2> QED
    BY <2>1, <2>2
<1> QED
  BY <1>1, TypeInvariant, BlindInvariant, PTL

\* No view fails because of the moments at which it read its rows
\* (the two consistency errors of getSessionView).
THEOREM ConsistentViews == Spec => []ViewsAreConsistent
<1>1. TypeOK /\ BlindInv => ViewsAreConsistent
  <2> SUFFICES ASSUME TypeOK, BlindInv, NEW w \in Clients, At(w, "READ_JUDGMENTS"),
                      requests[w].seen.unread = {}, Contradicts(requests[w].seen)
               PROVE  FALSE
    BY DEF ViewsAreConsistent
  <2> DEFINE seen == requests[w].seen
  <2>0. seen \in Sights /\ Sound(requests[w])
    BY DEF TypeOK, Requests, BlindInv, RequestsSound
  <2>1. CASE seen.status = "COMPLETED"
    BY <2>0, <2>1 DEF Sound, At, Covered, Sights, Contradicts, AllJudged
  <2>2. CASE OpenIndexes(seen) = {} /\ Uncompared(seen) = {}
    <3>1. \A c \in Cases : \E i \in DOMAIN seen.comparisons : seen.comparisons[i] = c
      BY <2>2 DEF Uncompared, SeenCases
    <3>2. \A i \in DOMAIN seen.comparisons : seen.comparisons[i] \in seen.judged
      BY <2>2 DEF OpenIndexes
    <3>3. Cases \subseteq seen.judged
      BY <3>1, <3>2
    <3> QED
      BY <2>0, <3>3 DEF Sights, Contradicts, AllJudged
  <2> QED
    BY <2>1, <2>2 DEF Contradicts
<1> QED
  BY <1>1, TypeInvariant, BlindInvariant, PTL
=============================================================================
