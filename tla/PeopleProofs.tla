---------------------------- MODULE PeopleProofs ----------------------------
(* What people say, and what they are shown: the review of delivered         *)
(* outcomes and the blind value study, proved for any people, outcomes,      *)
(* scores and target, alone and beside the other parts of Labs.              *)
EXTENDS Labs, FiniteSetTheorems, TLAPS

-----------------------------------------------------------------------------
(* Field review: types.                                                      *)

\* What an insert makes of a record is a record.
LEMMA InsertedType ==
    ASSUME NEW record \in Review!Records, NEW ask \in [step: Review!Steps, outcome: Published,
               feedback: Review!Feedbacks, regression: BOOLEAN]
    PROVE  Review!Inserted(record, ask) \in Review!Records
<1> DEFINE quoted == [feedback |-> ask.feedback, regression |-> ask.regression]
<1>1. quoted \in Review!Goldens
  BY DEF Review!Goldens
<1>2. /\ [record EXCEPT !.feedback = "ACCEPTED"] \in Review!Records
      /\ [record EXCEPT !.feedback = "REJECTED"] \in Review!Records
  BY DEF Review!Records, Review!Feedbacks
<1>3. /\ [record EXCEPT !.regression = TRUE] \in Review!Records
      /\ [record EXCEPT !.judgment = TRUE] \in Review!Records
  BY DEF Review!Records
<1>4. [record EXCEPT !.golden = {quoted}] \in Review!Records
  BY <1>1 DEF Review!Records
<1> QED BY <1>2, <1>3, <1>4 DEF Review!Inserted

\* What a screen shows of an answer is one of its states.
LEMMA ShownType ==
    ASSUME NEW ask, NEW wasStored PROVE Review!Shown(ask, wasStored) \in Review!Screens
BY DEF Review!Shown, Review!Screens

\* Records, requests and screens keep their types.
THEOREM ReviewTypes == Review!Spec => []Review!TypeOK
<1> DEFINE Asks == [step: Review!Steps, outcome: Published, feedback: Review!Feedbacks,
                    regression: BOOLEAN]
<1>1. Review!Init => Review!TypeOK
  <2> SUFFICES ASSUME Review!Init PROVE Review!TypeOK
    OBVIOUS
  <2>1. (CHOOSE o \in Published : TRUE) \in Published
    BY ReviewConstants
  <2>2. field \in [Published -> Review!Records]
    <3> DEFINE Fresh(m, s) == [exists |-> FALSE, machine |-> m, sameSpec |-> s,
                  sample |-> FALSE, feedback |-> "NONE", regression |-> FALSE,
                  judgment |-> FALSE, golden |-> {}]
    <3>1. \A m \in {"PASSED", "FAILED"}, s \in {"PASSED", "INCOMPLETE"} : Fresh(m, s) \in Review!Records
      BY DEF Review!Records, Review!Machine, Review!Feedbacks
    <3> DEFINE Starts == {Fresh(m, s) : m \in {"PASSED", "FAILED"}, s \in {"PASSED", "INCOMPLETE"}}
    <3>2. Starts \subseteq Review!Records
      <4> SUFFICES ASSUME NEW x \in Starts PROVE x \in Review!Records
        OBVIOUS
      <4>1. PICK m \in {"PASSED", "FAILED"}, s \in {"PASSED", "INCOMPLETE"} : x = Fresh(m, s)
        OBVIOUS
      <4> QED BY <3>1, <4>1
    <3>3. field \in [Published -> Starts]
      BY DEF Review!Init
    <3> HIDE DEF Starts
    <3> QED BY <3>2, <3>3
  <2>3. reviewAsks \in [People -> Asks]
    BY <2>1 DEF Review!Init, Review!NoAsk, Review!Steps, Review!Feedbacks
  <2> QED BY <2>2, <2>3 DEF Review!Init, Review!TypeOK, Review!Screens
<1>2. Review!TypeOK /\ [Review!Next]_(Review!vars) => Review!TypeOK'
  <2> SUFFICES ASSUME Review!TypeOK, [Review!Next]_(Review!vars) PROVE Review!TypeOK'
    OBVIOUS
  <2> USE DEF Review!TypeOK
  <2>1. ASSUME NEW o \in Published, Review!Deliver(o) PROVE Review!TypeOK'
    <3>1. PICK drawn \in BOOLEAN :
             field' = [field EXCEPT ![o].exists = TRUE, ![o].sample = drawn]
      BY <2>1 DEF Review!Deliver
    <3>2. [field[o] EXCEPT !.exists = TRUE, !.sample = drawn] \in Review!Records
      <4>1. field[o] \in Review!Records
        OBVIOUS
      <4> HIDE DEF Review!TypeOK
      <4> QED BY <4>1 DEF Review!Records
    <3>3. field' \in [Published -> Review!Records]
      BY <3>1, <3>2
    <3> QED BY <2>1, <3>3 DEF Review!Deliver
  <2>2. ASSUME NEW p \in People, NEW o \in Published, NEW step \in Review!Steps, Review!Ask(p, o, step)
        PROVE Review!TypeOK'
    <3>1. [Review!NoAsk(o) EXCEPT !.step = step] \in Asks
      BY DEF Review!NoAsk, Review!Feedbacks
    <3> QED BY <2>2, <3>1 DEF Review!Ask
  <2>3. ASSUME NEW p \in People, NEW o \in Published, Review!RecordFeedback(p, o)
        PROVE  Review!TypeOK'
    BY <2>2, <2>3 DEF Review!RecordFeedback, Review!Steps, Review!Inserts
  <2>4. ASSUME NEW p \in People, NEW o \in Published, Review!FlagRegression(p, o)
        PROVE  Review!TypeOK'
    BY <2>2, <2>4 DEF Review!FlagRegression, Review!Steps, Review!Inserts
  <2>5. ASSUME NEW p \in People, NEW o \in Published, Review!RecordJudgment(p, o)
        PROVE  Review!TypeOK'
    BY <2>2, <2>5 DEF Review!RecordJudgment, Review!Steps, Review!Inserts
  <2>6. ASSUME NEW p \in People, NEW o \in Published, Review!PromoteGolden(p, o)
        PROVE  Review!TypeOK'
    BY <2>2, <2>6 DEF Review!PromoteGolden, Review!Steps
  <2>7. ASSUME NEW p \in People, Review!ReadForGolden(p) PROVE Review!TypeOK'
    <3>1. reviewAsks[p] \in Asks /\ field[reviewAsks[p].outcome] \in Review!Records
      OBVIOUS
    <3>2. reviewAsks' \in [People -> Asks]
      <4> DEFINE record == field[reviewAsks[p].outcome]
      <4>1. record.feedback \in Review!Feedbacks /\ record.regression \in BOOLEAN
        BY <3>1 DEF Review!Records
      <4>2. \/ reviewAsks' = [reviewAsks EXCEPT ![p].feedback = record.feedback,
                                               ![p].step = "goldenRegression"]
            \/ reviewAsks' = [reviewAsks EXCEPT ![p].regression = record.regression,
                                               ![p].step = "golden"]
        BY <2>7 DEF Review!ReadForGolden
      <4>3. {"goldenRegression", "golden"} \subseteq Review!Steps
        BY DEF Review!Steps, Review!Inserts
      <4> QED BY <3>1, <4>1, <4>2, <4>3
    <3> QED BY <2>7, <3>2 DEF Review!ReadForGolden
  <2>8. ASSUME NEW p \in People, Review!Insert(p) PROVE Review!TypeOK'
    <3>1. reviewAsks[p] \in Asks /\ field[reviewAsks[p].outcome] \in Review!Records
      OBVIOUS
    <3>2. Review!Inserted(field[reviewAsks[p].outcome], reviewAsks[p]) \in Review!Records
      BY <3>1, InsertedType
    <3>3. field' \in [Published -> Review!Records]
      BY <2>8, <3>2 DEF Review!Insert
    <3>4. Review!NoAsk(reviewAsks[p].outcome) \in Asks
      BY <3>1 DEF Review!NoAsk, Review!Steps, Review!Feedbacks
    <3>5. reviewAsks' \in [People -> Asks]
      BY <2>8, <3>4 DEF Review!Insert
    <3>6. screen' \in [People -> Review!Screens]
      BY <2>8, ShownType DEF Review!Insert, Review!Screens
    <3> QED BY <3>3, <3>5, <3>6
  <2>9. ASSUME NEW p \in People, Review!Reload(p) PROVE Review!TypeOK'
    BY <2>9 DEF Review!Reload, Review!Screens
  <2>10. CASE UNCHANGED Review!vars
    BY <2>10 DEF Review!vars
  <2> QED BY <2>1, <2>3, <2>4, <2>5, <2>6, <2>7, <2>8, <2>9, <2>10 DEF Review!Next
<1> QED BY <1>1, <1>2, PTL DEF Review!Spec

-----------------------------------------------------------------------------
(* Field review: agreement.                                                  *)

\* What a request has checked or read of a record still holds of it: rows are
\* only added, and each only once.
Kept(record, ask) ==
    /\ ask.step # "idle" => record.exists
    /\ ask.step = "regression" => record.feedback = "REJECTED"
    /\ ask.step = "judgment" => record.sample
    /\ ask.step \in {"goldenRegression", "golden"} => ask.feedback \in {"NONE", record.feedback}
    /\ ask.step = "golden" => (ask.regression => record.regression)

\* The human records of one outcome agree, and none precedes its delivery.
Agreed(record) ==
    /\ record.feedback # "NONE" \/ record.judgment \/ record.golden # {} => record.exists
    /\ record.regression => record.feedback = "REJECTED"
    /\ record.judgment => record.sample
    /\ \A g \in record.golden : /\ g.feedback \in {"NONE", record.feedback}
                                /\ g.regression => record.regression

\* A screen that shows an answer has no request in flight, and its last one was
\* about the outcome that holds the answer.
Truthful(record, ask, display) ==
    /\ display # "open" => ask.step = "idle"
    /\ display = "accepted" => record.feedback = "ACCEPTED"
    /\ display = "rejected" => record.feedback = "REJECTED"

ReviewInv ==
    /\ \A o \in Published : Agreed(field[o])
    /\ \A p \in People : /\ Kept(field[reviewAsks[p].outcome], reviewAsks[p])
                         /\ Truthful(field[reviewAsks[p].outcome], reviewAsks[p], screen[p])

\* What a record may become: delivered once, and then with more rows.
Grows(old, new) ==
    /\ old.exists => new.exists /\ new.sample = old.sample
    /\ old.feedback # "NONE" => new.feedback = old.feedback
    /\ old.regression => new.regression
    /\ new.machine = old.machine /\ new.sameSpec = old.sameSpec

\* What other requests know survives growth.
LEMMA KeptStays ==
    ASSUME NEW old \in Review!Records, NEW new \in Review!Records, Grows(old, new), NEW ask,
           Kept(old, ask)
    PROVE  Kept(new, ask)
BY DEF Kept, Grows, Review!Records, Review!Feedbacks

\* And so does what screens show.
LEMMA TruthStays ==
    ASSUME NEW old \in Review!Records, NEW new \in Review!Records, Grows(old, new),
           NEW ask, NEW display,
           Truthful(old, ask, display)
    PROVE  Truthful(new, ask, display)
BY DEF Truthful, Grows, Review!Records, Review!Feedbacks

\* An insert grows its record, which stays in agreement when the request knew
\* what it says.
LEMMA InsertGrows ==
    ASSUME NEW record \in Review!Records, NEW ask \in [step: Review!Steps, outcome: Published,
               feedback: Review!Feedbacks, regression: BOOLEAN],
           ask.step \in Review!Inserts, Kept(record, ask), Agreed(record)
    PROVE  /\ Grows(record, Review!Inserted(record, ask))
           /\ Agreed(Review!Inserted(record, ask))
<1> DEFINE new == Review!Inserted(record, ask)
           quoted == [feedback |-> ask.feedback, regression |-> ask.regression]
<1>1. CASE ask.step \in {"accept", "reject"} /\ record.feedback = "NONE"
  <2>1. new \in {[record EXCEPT !.feedback = "ACCEPTED"], [record EXCEPT !.feedback = "REJECTED"]}
    BY <1>1 DEF Review!Inserted
  <2> QED BY <1>1, <2>1 DEF Grows, Agreed, Review!Records, Review!Feedbacks, Kept, Review!Goldens
<1>2. CASE ask.step = "regression"
  <2>1. new = [record EXCEPT !.regression = TRUE]
    BY <1>2 DEF Review!Inserted
  <2> QED BY <1>2, <2>1 DEF Grows, Agreed, Review!Records, Review!Feedbacks, Kept, Review!Goldens
<1>3. CASE ask.step = "judgment"
  <2>1. new = [record EXCEPT !.judgment = TRUE]
    BY <1>3 DEF Review!Inserted
  <2> QED BY <1>3, <2>1 DEF Grows, Agreed, Review!Records, Review!Feedbacks, Kept, Review!Goldens
<1>4. CASE ask.step = "golden" /\ record.golden = {}
  <2>1. new = [record EXCEPT !.golden = {quoted}]
    BY <1>4 DEF Review!Inserted
  <2> QED BY <1>4, <2>1 DEF Grows, Agreed, Review!Records, Review!Feedbacks, Kept, Review!Goldens
<1>5. CASE \/ ask.step \in {"accept", "reject"} /\ record.feedback # "NONE"
           \/ ask.step = "golden" /\ record.golden # {}
  <2>1. new = record
    BY <1>5 DEF Review!Inserted
  <2> QED BY <2>1 DEF Grows
<1> QED BY <1>1, <1>2, <1>3, <1>4, <1>5 DEF Review!Inserts

\* An answer that is shown was stored.
LEMMA ShownStored ==
    ASSUME NEW record \in Review!Records, NEW ask \in [step: Review!Steps, outcome: Published,
               feedback: Review!Feedbacks, regression: BOOLEAN],
           NEW s \in {Review!Shown(ask, Review!Inserted(record, ask) # record), "error"}
    PROVE  /\ s = "accepted" => Review!Inserted(record, ask).feedback = "ACCEPTED"
           /\ s = "rejected" => Review!Inserted(record, ask).feedback = "REJECTED"
BY DEF Review!Shown, Review!Inserted, Review!Records, Review!Feedbacks

\* Each insert finds its record agreed and leaves it so: what was checked in one
\* await still holds in the next (FieldBetaService and its unique constraints).
THEOREM Agreement == Review!Spec => []Review!HumanRecordsAgree
<1> DEFINE Asks == [step: Review!Steps, outcome: Published, feedback: Review!Feedbacks,
                    regression: BOOLEAN]
<1>1. Review!Init => ReviewInv
  BY DEF Review!Init, ReviewInv, Agreed, Kept, Truthful, Review!NoAsk
<1>2. Review!TypeOK /\ Review!TypeOK' /\ ReviewInv /\ [Review!Next]_(Review!vars) => ReviewInv'
  <2> SUFFICES ASSUME Review!TypeOK, Review!TypeOK', ReviewInv, [Review!Next]_(Review!vars)
      PROVE  ReviewInv'
    OBVIOUS
  <2>1. /\ \A o \in Published : field[o] \in Review!Records /\ field'[o] \in Review!Records
        /\ \A p \in People : reviewAsks[p] \in Asks /\ reviewAsks'[p] \in Asks
    BY DEF Review!TypeOK
  <2>2. ASSUME NEW o \in Published, Review!Deliver(o) PROVE ReviewInv'
    <3>1. \A u \in Published : Agreed(field'[u]) /\ Grows(field[u], field'[u])
      BY <2>2, <2>1 DEF Review!Deliver, ReviewInv, Agreed, Grows, Review!TypeOK, Review!Records
    <3>2. ASSUME NEW p \in People
          PROVE  /\ Kept(field'[reviewAsks[p].outcome], reviewAsks[p])
                 /\ Truthful(field'[reviewAsks[p].outcome], reviewAsks[p], screen[p])
      BY <2>1, <3>1, KeptStays, TruthStays DEF ReviewInv
    <3> QED BY <2>2, <3>1, <3>2 DEF Review!Deliver, ReviewInv
  <2>3. ASSUME NEW p \in People, NEW o \in Published, NEW step \in Review!Steps, Review!Ask(p, o, step),
               Kept(field[o], [Review!NoAsk(o) EXCEPT !.step = step])
        PROVE ReviewInv'
    <3>1. reviewAsks'[p] = [Review!NoAsk(o) EXCEPT !.step = step] /\ reviewAsks'[p].outcome = o
      BY <2>3 DEF Review!Ask, Review!TypeOK, Review!NoAsk
    <3>2. \A q \in People \ {p} : reviewAsks'[q] = reviewAsks[q]
      BY <2>3 DEF Review!Ask, Review!TypeOK
    <3>3. Kept(field'[o], reviewAsks'[p]) /\ Truthful(field'[o], reviewAsks'[p], screen'[p])
      BY <2>3, <3>1 DEF Review!Ask, Truthful
    <3> QED BY <2>3, <3>1, <3>2, <3>3 DEF Review!Ask, ReviewInv
  <2>4. ASSUME NEW p \in People, NEW o \in Published, Review!RecordFeedback(p, o) PROVE ReviewInv'
    <3>1. PICK step \in {"accept", "reject"} : Review!Ask(p, o, step)
      BY <2>4 DEF Review!RecordFeedback
    <3>2. Kept(field[o], [Review!NoAsk(o) EXCEPT !.step = step])
      BY <3>1 DEF Review!Ask, Kept, Review!NoAsk
    <3> QED BY <2>3, <3>1, <3>2 DEF Review!Steps, Review!Inserts
  <2>5. ASSUME NEW p \in People, NEW o \in Published, Review!FlagRegression(p, o) PROVE ReviewInv'
    <3>1. Kept(field[o], [Review!NoAsk(o) EXCEPT !.step = "regression"])
      BY <2>5 DEF Review!FlagRegression, Review!Ask, Kept, Review!NoAsk
    <3> QED BY <2>3, <2>5, <3>1 DEF Review!FlagRegression, Review!Steps, Review!Inserts
  <2>6. ASSUME NEW p \in People, NEW o \in Published, Review!RecordJudgment(p, o) PROVE ReviewInv'
    <3>1. Kept(field[o], [Review!NoAsk(o) EXCEPT !.step = "judgment"])
      BY <2>6 DEF Review!RecordJudgment, Review!Ask, Kept, Review!NoAsk
    <3> QED BY <2>3, <2>6, <3>1 DEF Review!RecordJudgment, Review!Steps, Review!Inserts
  <2>7. ASSUME NEW p \in People, NEW o \in Published, Review!PromoteGolden(p, o) PROVE ReviewInv'
    <3>1. Kept(field[o], [Review!NoAsk(o) EXCEPT !.step = "goldenFeedback"])
      BY <2>7 DEF Review!PromoteGolden, Review!Ask, Kept, Review!NoAsk
    <3> QED BY <2>3, <2>7, <3>1 DEF Review!PromoteGolden, Review!Steps
  <2>8. ASSUME NEW p \in People, Review!ReadForGolden(p) PROVE ReviewInv'
    <3>1. /\ reviewAsks'[p].outcome = reviewAsks[p].outcome
          /\ Kept(field'[reviewAsks[p].outcome], reviewAsks'[p])
          /\ Truthful(field'[reviewAsks[p].outcome], reviewAsks'[p], screen'[p])
      BY <2>8, <2>1 DEF Review!ReadForGolden, ReviewInv, Kept, Truthful, Review!TypeOK
    <3>2. \A q \in People \ {p} : reviewAsks'[q] = reviewAsks[q]
      BY <2>8 DEF Review!ReadForGolden, Review!TypeOK
    <3> QED BY <2>8, <3>1, <3>2 DEF Review!ReadForGolden, ReviewInv
  <2>9. ASSUME NEW p \in People, Review!Insert(p) PROVE ReviewInv'
    <3> DEFINE o == reviewAsks[p].outcome
               new == Review!Inserted(field[o], reviewAsks[p])
    <3>1. /\ o \in Published /\ field[o] \in Review!Records /\ reviewAsks[p] \in Asks
          /\ reviewAsks[p].step \in Review!Inserts
      BY <2>1, <2>9 DEF Review!Insert
    <3>2. Kept(field[o], reviewAsks[p]) /\ Agreed(field[o])
      BY <3>1 DEF ReviewInv
    <3>3. Grows(field[o], new) /\ Agreed(new)
      BY <3>1, <3>2, InsertGrows
    <3>4. /\ field'[o] = new
          /\ \A u \in Published \ {o} : field'[u] = field[u]
      BY <2>9, <3>1 DEF Review!Insert, Review!TypeOK
    <3>5. \A u \in Published : Agreed(field'[u]) /\ Grows(field[u], field'[u])
      BY <3>3, <3>4 DEF ReviewInv, Grows
    <3>6. PICK s \in {Review!Shown(reviewAsks[p], new # field[o]), "error"} :
             screen' = [screen EXCEPT ![p] = s]
      BY <2>9, <3>4 DEF Review!Insert
    <3>7. /\ s = "accepted" => new.feedback = "ACCEPTED"
          /\ s = "rejected" => new.feedback = "REJECTED"
      BY <3>1, <3>6, ShownStored
    <3>8. reviewAsks'[p] = Review!NoAsk(o) /\ screen'[p] = s
      BY <2>9, <3>6 DEF Review!Insert, Review!TypeOK
    <3>9. /\ reviewAsks'[p].outcome = o
          /\ Kept(field'[o], reviewAsks'[p]) /\ Truthful(field'[o], reviewAsks'[p], screen'[p])
      BY <3>4, <3>7, <3>8 DEF Kept, Truthful, Review!NoAsk
    <3>10. \A q \in People \ {p} : reviewAsks'[q] = reviewAsks[q] /\ screen'[q] = screen[q]
      BY <2>9, <3>6 DEF Review!Insert, Review!TypeOK
    <3>11. \A q \in People \ {p} : /\ Kept(field'[reviewAsks[q].outcome], reviewAsks[q])
                                   /\ Truthful(field'[reviewAsks[q].outcome], reviewAsks[q], screen[q])
      BY <2>1, <3>5, KeptStays, TruthStays DEF ReviewInv
    <3> HIDE DEF o, new
    <3> QED BY <3>5, <3>9, <3>10, <3>11 DEF ReviewInv
  <2>10. ASSUME NEW p \in People, Review!Reload(p) PROVE ReviewInv'
    BY <2>10 DEF Review!Reload, ReviewInv, Truthful, Review!TypeOK
  <2>11. CASE UNCHANGED Review!vars
    BY <2>11 DEF Review!vars, ReviewInv
  <2> QED BY <2>2, <2>4, <2>5, <2>6, <2>7, <2>8, <2>9, <2>10, <2>11 DEF Review!Next
<1>3. ReviewInv => Review!HumanRecordsAgree
  BY DEF ReviewInv, Review!HumanRecordsAgree, Agreed, Truthful
<1> QED BY <1>1, <1>2, <1>3, ReviewTypes, PTL DEF Review!Spec

\* A step grows every record, whatever it is.
LEMMA StepGrows ==
    ASSUME Review!TypeOK, [Review!Next]_(Review!vars)
    PROVE  \A o \in Published : Grows(field[o], field'[o])
<1>1. \A o \in Published : field[o] \in Review!Records
  BY DEF Review!TypeOK
<1>2. CASE UNCHANGED field
  BY <1>2 DEF Grows
<1>3. ASSUME NEW o \in Published, Review!Deliver(o)
      PROVE  \A u \in Published : Grows(field[u], field'[u])
  BY <1>1, <1>3 DEF Review!Deliver, Grows, Review!TypeOK, Review!Records
<1>4. ASSUME NEW p \in People, Review!Insert(p)
      PROVE  \A u \in Published : Grows(field[u], field'[u])
  <2> DEFINE o == reviewAsks[p].outcome
  <2>1. o \in Published /\ field[o] \in Review!Records
    BY DEF Review!TypeOK
  <2>2. Grows(field[o], Review!Inserted(field[o], reviewAsks[p]))
    BY <2>1 DEF Review!Inserted, Grows, Review!Records, Review!Feedbacks
  <2>3. /\ field'[o] = Review!Inserted(field[o], reviewAsks[p])
        /\ \A u \in Published \ {o} : field'[u] = field[u]
    BY <1>4, <2>1 DEF Review!Insert, Review!TypeOK
  <2> QED BY <2>2, <2>3 DEF Grows
<1>5. Review!Next => \/ UNCHANGED field
                     \/ \E o \in Published : Review!Deliver(o)
                     \/ \E p \in People : Review!Insert(p)
  <2>1. \A p \in People, o \in Published : \A step : Review!Ask(p, o, step) => UNCHANGED field
    BY DEF Review!Ask
  <2>2. \A p \in People : Review!ReadForGolden(p) \/ Review!Reload(p) => UNCHANGED field
    BY DEF Review!ReadForGolden, Review!Reload
  <2>3. \A p \in People, o \in Published :
           Review!RecordFeedback(p, o) \/ Review!FlagRegression(p, o) \/ Review!RecordJudgment(p, o)
             \/ Review!PromoteGolden(p, o) => UNCHANGED field
    BY <2>1 DEF Review!RecordFeedback, Review!FlagRegression, Review!RecordJudgment,
       Review!PromoteGolden
  <2>4. Review!Next => \/ \E o \in Published : Review!Deliver(o)
                       \/ \E p \in People : Review!Insert(p)
                       \/ \E p \in People : Review!ReadForGolden(p) \/ Review!Reload(p)
                       \/ \E p \in People, o \in Published :
                              \/ Review!RecordFeedback(p, o) \/ Review!FlagRegression(p, o)
                              \/ Review!RecordJudgment(p, o) \/ Review!PromoteGolden(p, o)
    BY DEF Review!Next
  <2> QED BY <2>2, <2>3, <2>4
<1> QED BY <1>2, <1>3, <1>4, <1>5 DEF Review!vars

\* An outcome eligible for a commit stays eligible: verdicts, delivery and
\* feedback are written once.
THEOREM EligibilityFinal == Review!Spec => Review!EligibilityIsFinal
<1>1. Review!TypeOK /\ [Review!Next]_(Review!vars)
        => [\A o \in Published :
              Review!Eligible(field[o]) => Review!Eligible(field'[o])]_(Review!vars)
  <2> SUFFICES ASSUME Review!TypeOK, [Review!Next]_(Review!vars), NEW o \in Published,
                      Review!Eligible(field[o])
               PROVE  Review!Eligible(field'[o])
    OBVIOUS
  <2>1. Grows(field[o], field'[o]) /\ field[o] \in Review!Records
    BY StepGrows DEF Review!TypeOK
  <2> QED BY <2>1 DEF Grows, Review!Eligible, Review!OutcomeAcceptance, Review!Records,
             Review!Feedbacks
<1> QED BY <1>1, ReviewTypes, PTL DEF Review!Spec, Review!EligibilityIsFinal

-----------------------------------------------------------------------------
(* The value study: types.                                                   *)

\* The study counts with the operator the theorems of the library are about.
LEMMA StudyCardinality == ASSUME NEW S PROVE Study!Cardinality(S) = Cardinality(S)
BY DEF Study!Cardinality, Cardinality, Study!IsFiniteSet, IsFiniteSet

\* A bundle, table by table.
LEMMA BundleTables ==
    ASSUME NEW bundle
    PROVE  bundle \in Study!Bundles <=>
             /\ bundle = [t \in Study!Tables |-> bundle[t]]
             /\ bundle["intent"] \subseteq {TRUE}
             /\ bundle["presentation"] \subseteq Study!Identities
             /\ bundle["ratings"] \subseteq [label: Study!Labels, score: Scores]
             /\ bundle["pairwise"] \subseteq Study!Pairwise
             /\ bundle["acceptance"] \subseteq Study!Acceptances
BY DEF Study!Bundles, Study!Tables

\* The row a request proposes, table by table, and what it went by.
Proposal(row, bundle, gain) ==
    \/ /\ row["intent"] = {TRUE} /\ \E i \in Study!Identities : row["presentation"] = {i}
       /\ row["ratings"] = {} /\ row["pairwise"] = {} /\ row["acceptance"] = {}
    \/ /\ \E r \in [label: Study!Labels, score: Scores] : row["ratings"] = {r}
       /\ row["intent"] = {} /\ row["presentation"] = {}
       /\ row["pairwise"] = {} /\ row["acceptance"] = {}
    \/ /\ Study!DetermineStep(bundle) = "PAIRWISE"
       /\ \E w \in Study!Pairwise :
             /\ row["pairwise"] = {w}
             /\ w.tag = Study!DeriveDivergenceTag(gain, bundle.ratings, w.derived)
       /\ row["intent"] = {} /\ row["presentation"] = {}
       /\ row["ratings"] = {} /\ row["acceptance"] = {}
    \/ /\ \E a \in Study!Acceptances : row["acceptance"] = {a}
       /\ row["intent"] = {} /\ row["presentation"] = {}
       /\ row["ratings"] = {} /\ row["pairwise"] = {}

\* What a request proposes is one row of one table, at the step it is for.
LEMMA ProposedRow ==
    ASSUME NEW action, NEW bundle, NEW gain, NEW row \in Study!Proposed(action, bundle, gain)
    PROVE  Proposal(row, bundle, gain)
<1> DEFINE step == Study!DetermineStep(bundle)
<1>1. CASE action = "lockIntent"
  <2>1. PICK i \in Study!Identities :
           row = [Study!Empty EXCEPT !.intent = {TRUE}, !.presentation = {i}]
    BY <1>1 DEF Study!Proposed
  <2> QED BY <2>1 DEF Proposal, Study!Empty, Study!Tables
<1>2. CASE action \in {"rateA", "rateB"}
  <2> DEFINE rating(s) == [score |-> s, label |-> IF action = "rateA" THEN "A" ELSE "B"]
  <2>1. PICK s \in Scores : row = [Study!Empty EXCEPT !.ratings = {rating(s)}]
    <3>1. CASE action = "rateA"
      BY <3>1 DEF Study!Proposed
    <3>2. CASE action = "rateB"
      BY <3>2 DEF Study!Proposed
    <3> QED BY <1>2, <3>1, <3>2
  <2>2. rating(s) \in [label: Study!Labels, score: Scores]
    BY DEF Study!Labels
  <2>3. row["ratings"] = {rating(s)}
    BY <2>1 DEF Study!Empty, Study!Tables
  <2> HIDE DEF rating
  <2> QED BY <2>1, <2>2, <2>3 DEF Proposal, Study!Empty, Study!Tables
<1>3. CASE action = "recordPairwise"
  <2> DEFINE derived(f) == Study!DeriveStudyPreference(f, CHOOSE i \in bundle.presentation : TRUE)
             tag(f) == Study!DeriveDivergenceTag(gain, bundle.ratings, derived(f))
             compared(f) == [preference |-> f, derived |-> derived(f), tag |-> tag(f)]
  <2>1. PICK f \in Choices.preferences :
           step = "PAIRWISE" /\ row = [Study!Empty EXCEPT !.pairwise = {compared(f)}]
    BY <1>3 DEF Study!Proposed
  <2>2. f \in Study!Preferences
    BY StudyConstants
  <2>3. derived(f) \in Study!DerivedPreferences
    BY <2>2 DEF Study!DeriveStudyPreference, Study!DerivedPreferences
  <2>4. tag(f) \in Study!DivergenceTags
    BY DEF Study!DeriveDivergenceTag, Study!DivergenceTags
  <2> HIDE DEF derived, tag
  <2>5. compared(f) \in Study!Pairwise
    BY <2>2, <2>3, <2>4 DEF Study!Pairwise
  <2>6. compared(f).tag = Study!DeriveDivergenceTag(gain, bundle.ratings, compared(f).derived)
    BY DEF tag
  <2>7. row["pairwise"] = {compared(f)}
    BY <2>1 DEF Study!Empty, Study!Tables
  <2> HIDE DEF compared
  <2> QED BY <2>1, <2>5, <2>6, <2>7 DEF Proposal, Study!Empty, Study!Tables
<1>4. CASE action = "recordAcceptance"
  <2>1. PICK a \in Choices.acceptances : row = [Study!Empty EXCEPT !.acceptance = {a}]
    BY <1>4 DEF Study!Proposed
  <2>2. a \in Study!Acceptances
    BY StudyConstants
  <2> QED BY <2>1, <2>2 DEF Proposal, Study!Empty, Study!Tables
<1> QED BY <1>1, <1>2, <1>3, <1>4 DEF Study!Proposed

\* What a request reads of the case lies between what was there when it asked
\* and what is there now.
LEMMA CaseRead ==
    ASSUME stored \in Study!Bundles, NEW p, NEW bundle \in Study!GetCaseBundle(p)
    PROVE  /\ bundle \in Study!Bundles
           /\ \A t \in Study!Tables : bundle[t] \subseteq stored[t]
<1> DEFINE Between(t) == {rows \in SUBSET stored[t] : studyAsks[p].case[t] \subseteq rows}
<1>1. PICK i \in Between("intent"), o \in Between("presentation"), r \in Between("ratings"),
           w \in Between("pairwise"), a \in Between("acceptance") :
         bundle = [intent |-> i, presentation |-> o, ratings |-> r, pairwise |-> w,
                   acceptance |-> a]
  BY DEF Study!GetCaseBundle
<1>2. /\ i \subseteq stored["intent"] /\ o \subseteq stored["presentation"]
      /\ r \subseteq stored["ratings"] /\ w \subseteq stored["pairwise"]
      /\ a \subseteq stored["acceptance"]
  OBVIOUS
<1> HIDE DEF Between
<1>3. \A t \in Study!Tables : bundle[t] \subseteq stored[t]
  BY <1>1, <1>2 DEF Study!Tables
<1>4. bundle \in Study!Bundles
  BY <1>1, <1>2 DEF Study!Bundles
<1> QED BY <1>3, <1>4

StudyAsking ==
    [action: Study!Actions \cup {"none"}, phase: {"read", "write"}, case: Study!Bundles]

\* A study starts with its types.
LEMMA StudyInitTypes == Study!Init => Study!TypeOK
<1> SUFFICES ASSUME Study!Init PROVE Study!TypeOK
  OBVIOUS
<1>1. Study!Empty \in Study!Bundles
  BY DEF Study!Empty, Study!Tables, Study!Bundles
<1>2. Study!Quiet \in StudyAsking
  BY <1>1 DEF Study!Quiet, StudyAsking
<1>3. studyAsks \in [Evaluators -> StudyAsking]
  BY <1>2 DEF Study!Init
<1>4. experiment \in Study!PixelGains \cup {"FAILED"}
  BY StudyConstants DEF Study!Init
<1> QED BY <1>1, <1>3, <1>4 DEF Study!Init, Study!TypeOK, StudyAsking, Study!Decisions

\* The inserted row is typed, and so is the case with it.
LEMMA StoredType ==
    ASSUME stored \in Study!Bundles, NEW row, NEW bundle, Proposal(row, bundle, experiment),
           stored' = [t \in Study!Tables |-> stored[t] \cup row[t]]
    PROVE  stored' \in Study!Bundles
<1>1. /\ row["intent"] \subseteq {TRUE}
      /\ row["presentation"] \subseteq Study!Identities
      /\ row["ratings"] \subseteq [label: Study!Labels, score: Scores]
      /\ row["pairwise"] \subseteq Study!Pairwise
      /\ row["acceptance"] \subseteq Study!Acceptances
  BY DEF Proposal
<1>2. \A t \in Study!Tables : stored'[t] = stored[t] \cup row[t]
  OBVIOUS
<1>3. stored' = [t \in Study!Tables |-> stored'[t]]
  BY <1>2
<1> QED BY <1>1, <1>2, <1>3, BundleTables DEF Study!Tables

\* What a request holds of the case while it is in flight.
LEMMA StudyStepTypes == Study!TypeOK /\ [Study!Next]_(Study!vars) => Study!TypeOK'
<1> SUFFICES ASSUME Study!TypeOK, [Study!Next]_(Study!vars) PROVE Study!TypeOK'
  OBVIOUS
<1>0. /\ stored \in Study!Bundles /\ studyAsks \in [Evaluators -> StudyAsking]
      /\ experiment \in Study!PixelGains \cup {"FAILED"} /\ enrolled \in BOOLEAN
      /\ page \in [Evaluators -> Study!StudySteps \cup {"CASES"}]
      /\ learned \in [Evaluators -> SUBSET (Study!Labels \cup {"identity"})]
      /\ decided \in [Evaluators -> Study!Decisions]
  BY DEF Study!TypeOK, StudyAsking
<1>1. Study!Quiet \in StudyAsking
  <2>1. Study!Empty \in Study!Bundles
    BY DEF Study!Empty, Study!Tables, Study!Bundles
  <2> QED BY <2>1 DEF Study!Quiet, StudyAsking
<1>2. \A p \in Evaluators : Study!Finish(p) => studyAsks' \in [Evaluators -> StudyAsking]
  BY <1>0, <1>1 DEF Study!Finish
<1>3. ASSUME UNCHANGED <<experiment, stored>>, enrolled' \in BOOLEAN,
             studyAsks' \in [Evaluators -> StudyAsking],
             page' \in [Evaluators -> Study!StudySteps \cup {"CASES"}],
             learned' \in [Evaluators -> SUBSET (Study!Labels \cup {"identity"})],
             decided' \in [Evaluators -> Study!Decisions]
      PROVE  Study!TypeOK'
  BY <1>0, <1>3 DEF Study!TypeOK, StudyAsking
<1>4. CASE Study!AddCase
  BY <1>0, <1>3, <1>4 DEF Study!AddCase
<1>5. ASSUME NEW p \in Evaluators, NEW action \in Study!Actions, Study!Ask(p, action)
      PROVE  Study!TypeOK'
  <2>1. [action |-> action, phase |-> "read", case |-> stored] \in StudyAsking
    BY <1>0 DEF StudyAsking
  <2> QED BY <1>0, <1>3, <1>5, <2>1 DEF Study!Ask
<1>6. ASSUME NEW p \in Evaluators, Study!ReadCase(p) PROVE Study!TypeOK'
  <2>1. PICK bundle \in Study!GetCaseBundle(p) :
           studyAsks' = [studyAsks EXCEPT ![p].phase = "write", ![p].case = bundle]
    BY <1>6 DEF Study!ReadCase
  <2>2. bundle \in Study!Bundles
    BY <1>0, CaseRead
  <2>3. studyAsks' \in [Evaluators -> StudyAsking]
    <3>1. studyAsks \in [Evaluators -> StudyAsking]
      BY <1>0
    <3>2. [studyAsks[p] EXCEPT !.phase = "write", !.case = bundle] \in StudyAsking
      BY <2>2, <3>1 DEF StudyAsking
    <3>3. studyAsks' = [studyAsks EXCEPT ![p] =
                          [studyAsks[p] EXCEPT !.phase = "write", !.case = bundle]]
      BY <2>1, <3>1 DEF StudyAsking
    <3> QED BY <3>1, <3>2, <3>3
  <2> QED BY <1>0, <1>3, <1>6, <2>3 DEF Study!ReadCase
<1>7. ASSUME NEW p \in Evaluators, Study!Refuse(p) PROVE Study!TypeOK'
  BY <1>0, <1>2, <1>3, <1>7 DEF Study!Refuse
<1>8. ASSUME NEW p \in Evaluators, Study!Insert(p) PROVE Study!TypeOK'
  <2>1. PICK row \in Study!Proposed(studyAsks[p].action, studyAsks[p].case, experiment) :
           stored' = [t \in Study!Tables |-> stored[t] \cup row[t]]
    BY <1>8 DEF Study!Insert
  <2>2. stored' \in Study!Bundles
    BY <1>0, <2>1, ProposedRow, StoredType
  <2>3. [action |-> "view", phase |-> "read", case |-> stored'] \in StudyAsking
    BY <2>2 DEF StudyAsking, Study!Actions
  <2>4. studyAsks' \in [Evaluators -> StudyAsking]
    BY <1>0, <1>8, <2>3 DEF Study!Insert
  <2> QED BY <1>0, <1>8, <2>2, <2>4 DEF Study!Insert, Study!TypeOK, StudyAsking
<1>9. ASSUME NEW p \in Evaluators, Study!View(p) PROVE Study!TypeOK'
  <2>1. CASE UNCHANGED <<page, learned>>
    BY <1>0, <1>2, <1>3, <1>9, <2>1 DEF Study!View
  <2>2. ASSUME NEW bundle, page' = [page EXCEPT ![p] = Study!DetermineStep(bundle)],
               learned' = [learned EXCEPT ![p] = @ \cup Study!Shown(bundle)]
        PROVE  Study!TypeOK'
    <3>1. Study!DetermineStep(bundle) \in Study!StudySteps
      BY DEF Study!DetermineStep, Study!StudySteps
    <3>2. Study!Shown(bundle) \subseteq Study!Labels \cup {"identity"}
      BY DEF Study!Shown, Study!Labels
    <3> QED BY <1>0, <1>2, <1>3, <1>9, <2>2, <3>1, <3>2 DEF Study!View
  <2> QED BY <1>9, <2>1, <2>2 DEF Study!View
<1>10. ASSUME NEW p \in Evaluators, Study!Media(p) PROVE Study!TypeOK'
  <2>1. PICK shows \in SUBSET Study!Labels : learned' = [learned EXCEPT ![p] = @ \cup shows]
    <3>1. PICK bundle \in Study!GetCaseBundle(p) : LET step == Study!DetermineStep(bundle) IN
             learned' = [learned EXCEPT ![p] = @ \cup
                 IF step = "RATING_A" THEN {"A"} ELSE IF step = "RATING_B" THEN {"B"}
                 ELSE IF step = "HUMAN_INTENT" THEN {} ELSE Study!Labels]
      BY <1>10 DEF Study!Media
    <3> QED BY <3>1 DEF Study!Labels
  <2> QED BY <1>0, <1>2, <1>3, <1>10, <2>1 DEF Study!Media
<1>11. ASSUME NEW p \in Evaluators, Study!Dashboard(p) PROVE Study!TypeOK'
  <2>1. PICK d \in Study!Decisions : decided' = [decided EXCEPT ![p] = d]
    <3>1. \A bundle : Study!SuggestDecision(bundle) \in Study!Decisions
      BY DEF Study!SuggestDecision, Study!Decisions
    <3>2. decided[p] \in Study!Decisions /\ "NONE" \in Study!Decisions
      BY <1>0 DEF Study!Decisions
    <3> QED BY <1>0, <1>11, <3>1, <3>2 DEF Study!Dashboard
  <2> QED BY <1>0, <1>2, <1>3, <1>11, <2>1 DEF Study!Dashboard
<1>12. CASE UNCHANGED Study!vars
  BY <1>0, <1>3, <1>12 DEF Study!vars
<1> QED BY <1>4, <1>5, <1>6, <1>7, <1>8, <1>9, <1>10, <1>11, <1>12 DEF Study!Next

\* The case, the requests and what pages show keep their types.
THEOREM StudyTypes == Study!Spec => []Study!TypeOK
BY StudyInitTypes, StudyStepTypes, PTL DEF Study!Spec

-----------------------------------------------------------------------------
(* The value study: blindness.                                               *)

\* The tables of a case are filled in one order, each row once, and the
\* comparison was derived from the order drawn and the ratings given.
Sequenced(case) ==
    /\ case["intent"] = {} <=> case["presentation"] = {}
    /\ \A i, j \in case["presentation"] : i = j
    /\ \A r, s \in case["ratings"] : r.label = s.label => r = s
    /\ case["ratings"] # {} => case["presentation"] # {}
    /\ Study!HasRated(case, "B") => Study!HasRated(case, "A")
    /\ case["pairwise"] # {} => Study!HasRated(case, "A") /\ Study!HasRated(case, "B")
    /\ case["acceptance"] # {} => case["pairwise"] # {}
    /\ \A a, b \in case["acceptance"] : a = b

Derived(case, gain) ==
    \A w \in case["pairwise"] :
        /\ \A i \in case["presentation"] : w.derived = Study!DeriveStudyPreference(w.preference, i)
        /\ w.tag = Study!DeriveDivergenceTag(gain, case["ratings"], w.derived)

\* What an evaluator was shown, and was told to decide, the case had earned.
Earned(case, shows, decision) ==
    /\ shows # {} => case["intent"] # {}
    /\ "B" \in shows => Study!HasRated(case, "A")
    /\ "identity" \in shows => case["pairwise"] # {}
    /\ decision # "NONE" => Study!Completed(case) /\ decision = Study!SuggestDecision(case)

\* However old what a request has read is, it is part of what is stored now.
Part(read, case) == \A t \in Study!Tables : read[t] \subseteq case[t]

StudyInv ==
    /\ Sequenced(stored) /\ Derived(stored, experiment)
    /\ \A p \in Evaluators : /\ Part(studyAsks[p].case, stored)
                             /\ Earned(stored, learned[p], decided[p])

\* What a case must hold to be at a step.
LEMMA StepMeans ==
    ASSUME NEW bundle, NEW step, step = Study!DetermineStep(bundle)
    PROVE  /\ step # "HUMAN_INTENT" => bundle["intent"] # {}
           /\ step \notin {"HUMAN_INTENT", "RATING_A"} => Study!HasRated(bundle, "A")
           /\ step \notin {"HUMAN_INTENT", "RATING_A", "RATING_B"} => Study!HasRated(bundle, "B")
<1>1. CASE bundle["intent"] = {} \/ bundle["presentation"] = {}
  BY <1>1 DEF Study!DetermineStep
<1>2. CASE ~(bundle["intent"] = {} \/ bundle["presentation"] = {})
  <2>1. CASE ~Study!HasRated(bundle, "A")
    BY <1>2, <2>1 DEF Study!DetermineStep, Study!HasRated
  <2>2. CASE Study!HasRated(bundle, "A") /\ ~Study!HasRated(bundle, "B")
    BY <1>2, <2>2 DEF Study!DetermineStep, Study!HasRated
  <2>3. CASE Study!HasRated(bundle, "A") /\ Study!HasRated(bundle, "B")
    BY <1>2, <2>3
  <2> QED BY <2>1, <2>2, <2>3
<1> QED BY <1>1, <1>2

\* Two ratings are one of each label.
LEMMA RatedPair ==
    ASSUME NEW R \in SUBSET [label: Study!Labels, score: Scores],
           \A r, s \in R : r.label = s.label => r = s
    PROVE  Study!Cardinality(R) = 2
             <=> (\E r \in R : r.label = "A") /\ (\E r \in R : r.label = "B")
<1>1. \A r \in R : r.label \in {"A", "B"}
  BY DEF Study!Labels
<1>2. ASSUME NEW a \in R, NEW b \in R, a.label = "A", b.label = "B"
      PROVE  Cardinality(R) = 2
  <2>1. R = {a} \cup {b} /\ b \notin {a}
    BY <1>1, <1>2
  <2>2. IsFiniteSet({a}) /\ Cardinality({a}) = 1
    BY FS_Singleton
  <2>3. Cardinality({a} \cup {b}) = Cardinality({a}) + 1
    BY <2>1, <2>2, FS_AddElement
  <2> QED BY <2>1, <2>2, <2>3
<1>3. ASSUME NEW label, \A r \in R : r.label = label PROVE Cardinality(R) # 2
  <2>1. CASE R = {}
    BY <2>1, FS_EmptySet
  <2>2. ASSUME NEW r \in R PROVE Cardinality(R) # 2
    <3>1. R = {r}
      BY <1>3
    <3> QED BY <3>1, FS_Singleton
  <2> QED BY <2>1, <2>2
<1>4. CASE ~\E r \in R : r.label = "A"
  BY <1>1, <1>3, <1>4, StudyCardinality
<1>5. CASE ~\E r \in R : r.label = "B"
  BY <1>1, <1>3, <1>5, StudyCardinality
<1> QED BY <1>2, <1>4, <1>5, StudyCardinality

\* A case both of whose candidates were rated was read with all its ratings.
LEMMA AllRatings ==
    ASSUME NEW case \in Study!Bundles, Sequenced(case), NEW bundle \in Study!Bundles,
           Part(bundle, case), Study!HasRated(bundle, "A"), Study!HasRated(bundle, "B")
    PROVE  bundle["ratings"] = case["ratings"]
<1>1. bundle["ratings"] \subseteq case["ratings"]
  BY DEF Part, Study!Tables
<1>2. \A r \in case["ratings"] : r.label \in {"A", "B"}
  <2>1. case["ratings"] \subseteq [label: Study!Labels, score: Scores]
    BY BundleTables
  <2> QED BY <2>1 DEF Study!Labels
<1>3. PICK a \in bundle["ratings"] : a.label = "A"
  BY DEF Study!HasRated
<1>4. PICK b \in bundle["ratings"] : b.label = "B"
  BY DEF Study!HasRated
<1>5. \A r \in case["ratings"] : r = a \/ r = b
  BY <1>1, <1>2, <1>3, <1>4 DEF Sequenced
<1> QED BY <1>1, <1>3, <1>4, <1>5

\* A complete case has both ratings.
LEMMA CompleteRated ==
    ASSUME NEW bundle \in Study!Bundles, Study!Completed(bundle),
           \A r, s \in bundle["ratings"] : r.label = s.label => r = s
    PROVE  Study!HasRated(bundle, "A") /\ Study!HasRated(bundle, "B")
BY BundleTables, RatedPair DEF Study!Completed, Study!HasRated

\* The suggestion is made of three tables.
Suggestion(acceptance, ratings, presentation) ==
    LET accepted == CHOOSE a \in acceptance : TRUE
        Rate(b) == IF b THEN 1 ELSE 0
        Useful(identity) ==
            (CHOOSE r \in ratings :
                (r.label = "A") = (identity \in presentation)).score.usefulness
        lift == Rate(accepted.PRESERVED) - Rate(accepted.RAW)
        usefulness == Useful("PRESERVED") - Useful("RAW") IN
    IF lift < 0 \/ usefulness < 0 THEN "NEGATIVE_SIGNAL"
    ELSE IF lift > 0 /\ usefulness > 0 THEN "STRONG_SIGNAL"
    ELSE IF lift > 0 \/ usefulness > 0 THEN "CONDITIONAL_SIGNAL"
    ELSE "NO_SIGNAL"

\* No other table of the case takes part in suggestDecision.
LEMMA SuggestionOf ==
    ASSUME NEW bundle
    PROVE  Study!SuggestDecision(bundle)
             = Suggestion(bundle["acceptance"], bundle["ratings"], bundle["presentation"])
BY DEF Study!SuggestDecision, Study!Useful, Suggestion

\* A bundle read complete, with the order it was shown in, is the whole case.
LEMMA WholeCase ==
    ASSUME NEW case \in Study!Bundles, Sequenced(case), NEW bundle \in Study!Bundles,
           Part(bundle, case), Study!Completed(bundle), bundle["presentation"] # {}
    PROVE  Study!Completed(case) /\ Study!SuggestDecision(bundle) = Study!SuggestDecision(case)
<1>1. \A t \in Study!Tables : bundle[t] \subseteq case[t]
  BY DEF Part
<1>2. Study!HasRated(bundle, "A") /\ Study!HasRated(bundle, "B")
  <2>1. \A r, s \in bundle["ratings"] : r.label = s.label => r = s
    BY <1>1 DEF Sequenced, Study!Tables
  <2> QED BY <2>1, CompleteRated
<1>3. bundle["ratings"] = case["ratings"]
  BY <1>2, AllRatings
<1>4. bundle["acceptance"] # {} /\ bundle["pairwise"] # {}
  BY DEF Study!Completed
<1>5. bundle["acceptance"] = case["acceptance"] /\ bundle["presentation"] = case["presentation"]
  BY <1>1, <1>4 DEF Sequenced, Study!Tables
<1>6. case["pairwise"] # {}
  BY <1>1, <1>4 DEF Study!Tables
<1>7. Study!Completed(case)
  BY <1>3, <1>4, <1>5, <1>6 DEF Study!Completed
<1> QED BY <1>3, <1>5, <1>7, SuggestionOf

\* What was earned stays earned when the case grows and, once complete, does not
\* change any more.
Frozen(old, new) ==
    Study!Completed(old) => /\ new["presentation"] = old["presentation"]
                            /\ new["ratings"] = old["ratings"]
                            /\ new["acceptance"] = old["acceptance"]

\* So what was earned of an older case is earned of a newer one.
LEMMA EarnedStays ==
    ASSUME NEW old, NEW new, Part(old, new), Frozen(old, new),
           NEW shows, NEW decision, Earned(old, shows, decision)
    PROVE  Earned(new, shows, decision)
<1>1. /\ old["intent"] # {} => new["intent"] # {}
      /\ Study!HasRated(old, "A") => Study!HasRated(new, "A")
      /\ old["pairwise"] # {} => new["pairwise"] # {}
  BY DEF Part, Study!Tables, Study!HasRated
<1>2. Study!Completed(old) => /\ Study!Completed(new)
                              /\ Study!SuggestDecision(old) = Study!SuggestDecision(new)
  BY <1>1, SuggestionOf DEF Frozen, Study!Completed
<1> QED BY <1>1, <1>2 DEF Earned

\* What the sequence trigger lets through keeps the order of the tables, and
\* changes nothing a complete case was judged by.
LEMMA InsertKeeps ==
    ASSUME stored \in Study!Bundles, Sequenced(stored), Derived(stored, experiment),
           NEW bundle \in Study!Bundles, Part(bundle, stored),
           NEW row, Proposal(row, bundle, experiment), Study!SequenceAllows(row),
           NEW new, new = [t \in Study!Tables |-> stored[t] \cup row[t]]
    PROVE  /\ Sequenced(new) /\ Derived(new, experiment)
           /\ Part(stored, new) /\ Frozen(stored, new)
<1>1. /\ new["intent"] = stored["intent"] \cup row["intent"]
      /\ new["presentation"] = stored["presentation"] \cup row["presentation"]
      /\ new["ratings"] = stored["ratings"] \cup row["ratings"]
      /\ new["pairwise"] = stored["pairwise"] \cup row["pairwise"]
      /\ new["acceptance"] = stored["acceptance"] \cup row["acceptance"]
  BY DEF Study!Tables
<1>2. Part(stored, new)
  BY DEF Part
<1>3. stored["ratings"] \subseteq [label: Study!Labels, score: Scores]
  BY BundleTables
<1>4. Study!Completed(stored) => Study!HasRated(stored, "A") /\ Study!HasRated(stored, "B")
  BY CompleteRated DEF Sequenced
<1>5. Study!Completed(stored) => stored["presentation"] # {} /\ stored["acceptance"] # {}
  BY <1>4 DEF Sequenced, Study!Completed, Study!HasRated
<1>6. /\ row["intent"] = {} \/ stored["intent"] = {}
      /\ row["presentation"] = {} \/ stored["presentation"] = {}
      /\ row["pairwise"] = {} \/ stored["pairwise"] = {}
      /\ row["acceptance"] = {} \/ stored["acceptance"] = {}
  BY DEF Study!SequenceAllows, Study!Tables
<1>7. \A r \in row["ratings"] :
         /\ ~Study!HasRated(stored, r.label) /\ stored["presentation"] # {}
         /\ r.label = "B" => Study!HasRated(stored, "A")
         /\ r.label = "A" => stored["ratings"] = {}
  BY DEF Study!SequenceAllows
<1>8. \A label : Study!HasRated(new, label)
                   <=> Study!HasRated(stored, label) \/ \E r \in row["ratings"] : r.label = label
  BY <1>1 DEF Study!HasRated
<1>9. ASSUME NEW i \in Study!Identities, row["intent"] = {TRUE}, row["presentation"] = {i},
             row["ratings"] = {}, row["pairwise"] = {}, row["acceptance"] = {}
      PROVE  Sequenced(new) /\ Derived(new, experiment) /\ Frozen(stored, new)
  <2>1. stored["pairwise"] = {} /\ stored["ratings"] = {} /\ stored["presentation"] = {}
    BY <1>6, <1>9 DEF Sequenced, Study!HasRated
  <2>2. Sequenced(new)
    BY <1>1, <1>6, <1>8, <1>9, <2>1 DEF Sequenced
  <2>3. Derived(new, experiment)
    BY <1>1, <1>9, <2>1 DEF Derived
  <2>4. Frozen(stored, new)
    BY <1>5, <2>1 DEF Frozen
  <2> QED BY <2>2, <2>3, <2>4
<1>10. ASSUME NEW r \in [label: Study!Labels, score: Scores], row["ratings"] = {r},
              row["intent"] = {}, row["presentation"] = {},
              row["pairwise"] = {}, row["acceptance"] = {}
       PROVE  Sequenced(new) /\ Derived(new, experiment) /\ Frozen(stored, new)
  <2>1. /\ ~Study!HasRated(stored, r.label) /\ stored["presentation"] # {}
        /\ r.label = "B" => Study!HasRated(stored, "A")
        /\ r.label \in {"A", "B"}
    BY <1>7, <1>10 DEF Study!Labels
  <2>2. stored["pairwise"] = {}
    BY <2>1 DEF Sequenced
  <2>3. \A s, q \in new["ratings"] : s.label = q.label => s = q
    BY <1>1, <1>10, <2>1 DEF Sequenced, Study!HasRated
  <2>4. Sequenced(new)
    BY <1>1, <1>8, <1>10, <2>1, <2>2, <2>3 DEF Sequenced
  <2>5. Derived(new, experiment)
    BY <1>1, <1>10, <2>2 DEF Derived
  <2>6. ~Study!Completed(stored)
    BY <2>2 DEF Study!Completed
  <2> QED BY <2>4, <2>5, <2>6 DEF Frozen
<1>11. ASSUME NEW w \in Study!Pairwise, row["pairwise"] = {w},
              Study!DetermineStep(bundle) = "PAIRWISE",
              w.tag = Study!DeriveDivergenceTag(experiment, bundle.ratings, w.derived),
              row["intent"] = {}, row["presentation"] = {},
              row["ratings"] = {}, row["acceptance"] = {}
       PROVE  Sequenced(new) /\ Derived(new, experiment) /\ Frozen(stored, new)
  <2>1. Study!HasRated(bundle, "A") /\ Study!HasRated(bundle, "B")
    BY <1>11, StepMeans
  <2>2. bundle["ratings"] = stored["ratings"]
    BY <2>1, AllRatings
  <2>3. Study!HasRated(stored, "A") /\ Study!HasRated(stored, "B")
    BY <2>1, <2>2 DEF Study!HasRated
  <2>4. \A i \in stored["presentation"] : w.derived = Study!DeriveStudyPreference(w.preference, i)
    BY <1>11 DEF Study!SequenceAllows
  <2>5. /\ new["ratings"] = stored["ratings"] /\ new["presentation"] = stored["presentation"]
        /\ new["acceptance"] = stored["acceptance"] /\ new["intent"] = stored["intent"]
        /\ new["pairwise"] = stored["pairwise"] \cup {w}
    BY <1>1, <1>11
  <2>6. Sequenced(new)
    <3>1. /\ \A l : Study!HasRated(new, l) <=> Study!HasRated(stored, l)
          /\ Sequenced(stored)
      BY <1>8, <2>5 DEF Study!HasRated
    <3> QED BY <2>3, <2>5, <3>1 DEF Sequenced
  <2>7. w.tag = Study!DeriveDivergenceTag(experiment, new["ratings"], w.derived)
    BY <1>11, <2>2, <2>5
  <2>8. Derived(new, experiment)
    BY <2>4, <2>5, <2>7 DEF Derived
  <2> QED BY <2>5, <2>6, <2>8 DEF Frozen
<1>12. ASSUME NEW a \in Study!Acceptances, row["acceptance"] = {a},
              row["intent"] = {}, row["presentation"] = {},
              row["ratings"] = {}, row["pairwise"] = {}
       PROVE  Sequenced(new) /\ Derived(new, experiment) /\ Frozen(stored, new)
  <2>1. stored["acceptance"] = {}
    BY <1>6, <1>12
  <2>2. stored["pairwise"] # {}
    BY <1>12 DEF Study!SequenceAllows
  <2>3. Sequenced(new)
    BY <1>1, <1>8, <1>12, <2>1, <2>2 DEF Sequenced
  <2>4. Derived(new, experiment)
    <3>1. /\ new["pairwise"] = stored["pairwise"] /\ new["ratings"] = stored["ratings"]
          /\ new["presentation"] = stored["presentation"]
      BY <1>1, <1>12
    <3> QED BY <3>1 DEF Derived
  <2>5. ~Study!Completed(stored)
    BY <2>1 DEF Study!Completed
  <2> QED BY <2>3, <2>4, <2>5 DEF Frozen
<1> QED BY <1>2, <1>9, <1>10, <1>11, <1>12 DEF Proposal

\* A study starts with an empty case, and nobody has seen anything.
LEMMA StudyInitInv == Study!Init => StudyInv
<1> SUFFICES ASSUME Study!Init PROVE StudyInv
  OBVIOUS
<1>1. \A t \in Study!Tables : stored[t] = {} /\ Study!Empty[t] = {}
  BY DEF Study!Init, Study!Empty
<1>2. Sequenced(stored) /\ Derived(stored, experiment)
  BY <1>1 DEF Sequenced, Derived, Study!Tables, Study!HasRated
<1>3. \A p \in Evaluators : Part(studyAsks[p].case, stored)
  BY <1>1 DEF Part, Study!Init, Study!Quiet
<1>4. \A p \in Evaluators : Earned(stored, learned[p], decided[p])
  BY DEF Earned, Study!Init
<1> QED BY <1>2, <1>3, <1>4 DEF StudyInv

\* What a view or a picture shows, what was read of the case had earned.
Pictured(bundle) ==
    LET step == Study!DetermineStep(bundle) IN
    IF step = "RATING_A" THEN {"A"} ELSE IF step = "RATING_B" THEN {"B"}
    ELSE IF step = "HUMAN_INTENT" THEN {} ELSE Study!Labels

\* A view of what was read shows only what the stored case has earned.
LEMMA ShownEarned ==
    ASSUME NEW case, Sequenced(case), NEW bundle, Part(bundle, case),
           NEW shows \in {Study!Shown(bundle), Pictured(bundle)}
    PROVE  /\ shows # {} => case["intent"] # {}
           /\ "B" \in shows => Study!HasRated(case, "A")
           /\ "identity" \in shows => case["pairwise"] # {}
<1> DEFINE step == Study!DetermineStep(bundle)
<1>1. /\ bundle["intent"] # {} => case["intent"] # {}
      /\ bundle["pairwise"] # {} => case["pairwise"] # {}
      /\ Study!HasRated(bundle, "A") => Study!HasRated(case, "A")
  BY DEF Part, Study!Tables, Study!HasRated
<1>2. case["pairwise"] # {} => case["intent"] # {}
  BY DEF Sequenced, Study!HasRated
<1>3. /\ step # "HUMAN_INTENT" => bundle["intent"] # {}
      /\ step \notin {"HUMAN_INTENT", "RATING_A"} => Study!HasRated(bundle, "A")
  BY StepMeans
<1> HIDE DEF step
<1>4. CASE shows = Study!Shown(bundle)
  BY <1>1, <1>2, <1>3, <1>4 DEF Study!Shown, Study!Labels, step
<1>5. CASE shows = Pictured(bundle)
  BY <1>1, <1>2, <1>3, <1>5 DEF Pictured, Study!Labels, step
<1> QED BY <1>4, <1>5

\* Every request keeps the case in order and shows only what was earned.
LEMMA StudyStepInv ==
    Study!TypeOK /\ StudyInv /\ [Study!Next]_(Study!vars) => StudyInv'
<1> SUFFICES ASSUME Study!TypeOK, StudyInv, [Study!Next]_(Study!vars) PROVE StudyInv'
  OBVIOUS
<1>0. /\ stored \in Study!Bundles /\ Sequenced(stored) /\ Derived(stored, experiment)
      /\ \A p \in Evaluators : /\ studyAsks[p].case \in Study!Bundles
                               /\ Part(studyAsks[p].case, stored)
                               /\ Earned(stored, learned[p], decided[p])
  BY DEF Study!TypeOK, StudyInv
\* Most steps leave the case, and change what one request read, what one page
\* shows or what one evaluator was told.
<1>1. ASSUME UNCHANGED <<experiment, stored>>,
             \A q \in Evaluators : Part(studyAsks'[q].case, stored),
             \A q \in Evaluators : Earned(stored, learned'[q], decided'[q])
      PROVE  StudyInv'
  BY <1>0, <1>1 DEF StudyInv
<1>2. ASSUME NEW p \in Evaluators, Study!Finish(p)
      PROVE  \A q \in Evaluators : Part(studyAsks'[q].case, stored)
  <2>1. \A q \in Evaluators : studyAsks'[q] = IF q = p THEN Study!Quiet ELSE studyAsks[q]
    BY <1>2 DEF Study!Finish, Study!TypeOK
  <2>2. Part(Study!Quiet.case, stored)
    BY DEF Part, Study!Quiet, Study!Empty
  <2> QED BY <1>0, <2>1, <2>2
<1>3. CASE Study!AddCase
  BY <1>0, <1>1, <1>3 DEF Study!AddCase
<1>4. ASSUME NEW p \in Evaluators, NEW action \in Study!Actions, Study!Ask(p, action)
      PROVE  StudyInv'
  <2>1. \A q \in Evaluators : studyAsks'[q].case = IF q = p THEN stored ELSE studyAsks[q].case
    BY <1>4 DEF Study!Ask, Study!TypeOK
  <2>2. Part(stored, stored)
    BY DEF Part
  <2> QED BY <1>0, <1>1, <1>4, <2>1, <2>2 DEF Study!Ask
<1>5. ASSUME NEW p \in Evaluators, Study!ReadCase(p) PROVE StudyInv'
  <2>1. PICK bundle \in Study!GetCaseBundle(p) :
           studyAsks' = [studyAsks EXCEPT ![p].phase = "write", ![p].case = bundle]
    BY <1>5 DEF Study!ReadCase
  <2>2. Part(bundle, stored)
    BY <1>0, CaseRead DEF Part
  <2>3. \A q \in Evaluators : studyAsks'[q].case = IF q = p THEN bundle ELSE studyAsks[q].case
    BY <2>1 DEF Study!TypeOK
  <2> QED BY <1>0, <1>1, <1>5, <2>2, <2>3 DEF Study!ReadCase
<1>6. ASSUME NEW p \in Evaluators, Study!Refuse(p) PROVE StudyInv'
  BY <1>0, <1>1, <1>2, <1>6 DEF Study!Refuse
<1>7. ASSUME NEW p \in Evaluators, Study!Insert(p) PROVE StudyInv'
  <2> DEFINE bundle == studyAsks[p].case
  <2>1. PICK row \in Study!Proposed(studyAsks[p].action, bundle, experiment) :
           /\ Study!SequenceAllows(row)
           /\ stored' = [t \in Study!Tables |-> stored[t] \cup row[t]]
    BY <1>7 DEF Study!Insert
  <2>2. Proposal(row, bundle, experiment)
    BY ProposedRow
  <2>3. bundle \in Study!Bundles /\ Part(bundle, stored)
    BY <1>0
  <2> HIDE DEF bundle
  <2>4. /\ Sequenced(stored') /\ Derived(stored', experiment)
        /\ Part(stored, stored') /\ Frozen(stored, stored')
    BY <1>0, <2>1, <2>2, <2>3, InsertKeeps
  <2>5. \A q \in Evaluators :
           studyAsks'[q].case = IF q = p THEN stored' ELSE studyAsks[q].case
    BY <1>7 DEF Study!Insert, Study!TypeOK
  <2>6. Part(stored', stored')
    BY DEF Part
  <2>7. \A q \in Evaluators : Part(studyAsks'[q].case, stored')
    BY <1>0, <2>4, <2>5, <2>6 DEF Part
  <2>8. \A q \in Evaluators : Earned(stored', learned[q], decided[q])
    BY <1>0, <2>4, EarnedStays
  <2>9. UNCHANGED <<experiment, learned, decided>>
    BY <1>7 DEF Study!Insert
  <2> QED BY <2>4, <2>7, <2>8, <2>9 DEF StudyInv
<1>8. ASSUME NEW p \in Evaluators, Study!Finish(p), UNCHANGED <<experiment, stored, decided>>,
             NEW bundle \in Study!GetCaseBundle(p),
             NEW shows \in {Study!Shown(bundle), Pictured(bundle)},
             learned' = [learned EXCEPT ![p] = @ \cup shows]
      PROVE  StudyInv'
  <2>1. Part(bundle, stored)
    BY <1>0, CaseRead DEF Part
  <2>2. /\ shows # {} => stored["intent"] # {}
        /\ "B" \in shows => Study!HasRated(stored, "A")
        /\ "identity" \in shows => stored["pairwise"] # {}
    BY <1>0, <2>1, ShownEarned
  <2>3. \A q \in Evaluators : learned'[q] = IF q = p THEN learned[q] \cup shows ELSE learned[q]
    BY <1>8 DEF Study!TypeOK
  <2>4. \A q \in Evaluators : Earned(stored, learned'[q], decided[q])
    BY <1>0, <2>2, <2>3 DEF Earned
  <2> QED BY <1>1, <1>2, <1>8, <2>4
<1>9. ASSUME NEW p \in Evaluators, Study!View(p) PROVE StudyInv'
  <2>1. CASE UNCHANGED <<page, learned>>
    BY <1>0, <1>1, <1>2, <1>9, <2>1 DEF Study!View
  <2>2. CASE \E bundle \in Study!GetCaseBundle(p) :
                learned' = [learned EXCEPT ![p] = @ \cup Study!Shown(bundle)]
    BY <1>8, <1>9, <2>2 DEF Study!View
  <2> QED BY <1>9, <2>1, <2>2 DEF Study!View
<1>10. ASSUME NEW p \in Evaluators, Study!Media(p) PROVE StudyInv'
  <2>1. PICK bundle \in Study!GetCaseBundle(p) :
           learned' = [learned EXCEPT ![p] = @ \cup Pictured(bundle)]
    BY <1>10 DEF Study!Media, Pictured
  <2> QED BY <1>8, <1>10, <2>1 DEF Study!Media
<1>11. ASSUME NEW p \in Evaluators, Study!Dashboard(p) PROVE StudyInv'
  <2>1. PICK bundle \in Study!GetCaseBundle(p) :
           LET count == IF Study!Completed(bundle) THEN 1 ELSE 0 IN
           decided' = [decided EXCEPT ![p] =
                IF count > 0 /\ bundle.presentation = {} THEN @
                ELSE IF count >= Target THEN Study!SuggestDecision(bundle) ELSE "NONE"]
    BY <1>11 DEF Study!Dashboard
  <2>2. bundle \in Study!Bundles /\ Part(bundle, stored)
    BY <1>0, CaseRead DEF Part
  <2>3. \/ UNCHANGED decided
        \/ decided' = [decided EXCEPT ![p] = "NONE"]
        \/ /\ Study!Completed(bundle) /\ bundle["presentation"] # {}
           /\ decided' = [decided EXCEPT ![p] = Study!SuggestDecision(bundle)]
    <3>1. CASE Study!Completed(bundle) /\ bundle["presentation"] = {}
      <4> DEFINE count == IF Study!Completed(bundle) THEN 1 ELSE 0
      <4>0. count > 0 /\ bundle.presentation = {}
        BY <3>1
      <4>1. decided' = [decided EXCEPT ![p] = decided[p]]
        BY ONLY <2>1, <4>0
      <4> QED BY <1>0, <4>1 DEF Study!TypeOK
    <3>2. CASE Study!Completed(bundle) /\ bundle["presentation"] # {}
      BY <2>1, <3>2
    <3>3. CASE ~Study!Completed(bundle)
      <4>1. ~(0 >= Target)
        BY StudyConstants
      <4> QED BY <2>1, <3>3, <4>1
    <3> QED BY <3>1, <3>2, <3>3
  <2>4. \A q \in Evaluators : Earned(stored, learned[q], decided'[q])
    <3>1. CASE UNCHANGED decided
      BY <1>0, <3>1
    <3>2. ASSUME NEW d, decided' = [decided EXCEPT ![p] = d],
                 d # "NONE" => Study!Completed(stored) /\ d = Study!SuggestDecision(stored)
          PROVE  \A q \in Evaluators : Earned(stored, learned[q], decided'[q])
      <4>1. \A q \in Evaluators : decided'[q] = IF q = p THEN d ELSE decided[q]
        BY <3>2 DEF Study!TypeOK
      <4> QED BY <1>0, <3>2, <4>1 DEF Earned
    <3>3. Study!Completed(bundle) /\ bundle["presentation"] # {} =>
             Study!Completed(stored) /\ Study!SuggestDecision(bundle) = Study!SuggestDecision(stored)
      BY <1>0, <2>2, WholeCase
    <3> QED BY <2>3, <3>1, <3>2, <3>3
  <2>5. UNCHANGED <<experiment, stored, learned>> /\ Study!Finish(p)
    BY <1>11 DEF Study!Dashboard
  <2> QED BY <1>1, <1>2, <2>4, <2>5
<1>12. CASE UNCHANGED Study!vars
  BY <1>0, <1>1, <1>12 DEF Study!vars
<1> QED
  BY <1>3, <1>4, <1>5, <1>6, <1>7, <1>9, <1>10, <1>11, <1>12 DEF Study!Next

\* The study is blind and its decision is the case's, however many evaluators
\* work on the case and however torn their reads of it are (getCaseBundle, the
\* sequence trigger, getCaseView, the dashboard).
THEOREM Blindness == Study!Spec => []Study!StudyIsBlind
<1>1. Study!TypeOK /\ StudyInv => Study!StudyIsBlind
  <2> SUFFICES ASSUME Study!TypeOK, StudyInv PROVE Study!StudyIsBlind
    OBVIOUS
  <2>1. stored["pairwise"] # {} => Study!Cardinality(stored["ratings"]) = 2
    <3>1. stored["ratings"] \subseteq [label: Study!Labels, score: Scores]
      BY BundleTables DEF Study!TypeOK
    <3> QED BY <3>1, RatedPair DEF StudyInv, Sequenced, Study!HasRated
  <2> QED BY <2>1 DEF StudyInv, Sequenced, Derived, Earned, Study!StudyIsBlind
<1> QED
  BY <1>1, StudyTypes, StudyInitInv, StudyStepInv, PTL DEF Study!Spec

-----------------------------------------------------------------------------
(* Review beside the other parts.                                            *)

\* A behaviour of Labs is one of Review, which stutters while another part runs.
LEMMA ReviewRuns == Spec => Review!Spec
<1>1. Init => Review!Init
  BY DEF Init
<1>2. [Next]_vars => [Review!Next]_(Review!vars)
  BY DEF Next, vars, reviewVars, kernelVars, studyVars, pixelVars, catalogVars, specVars,
         Review!vars
<1> QED BY <1>1, <1>2, PTL DEF Spec, Review!Spec

\* HumanRecordsAgree of Labs: whoever records of an outcome at once, what is stored
\* agrees with itself and with what the screens confirm.
THEOREM RecordsOfPeopleAgree == Spec => []HumanRecordsAgree
BY ReviewRuns, ReviewTypes, Agreement, PTL DEF HumanRecordsAgree

-----------------------------------------------------------------------------
(* Study beside the other parts.                                             *)

\* A behaviour of Labs is one of Study, which stutters while another part runs.
LEMMA StudyRuns == Spec => Study!Spec
<1>1. Init => Study!Init
  BY DEF Init
<1>2. [Next]_vars => [Study!Next]_(Study!vars)
  BY DEF Next, vars, reviewVars, kernelVars, studyVars, pixelVars, catalogVars, specVars,
         Study!vars
<1> QED BY <1>1, <1>2, PTL DEF Spec, Study!Spec

\* StudyIsBlind of Labs: no evaluator sees more than the case has earned, and a
\* decision is one of the complete case.
THEOREM StudyStaysBlind == Spec => []StudyIsBlind
BY StudyRuns, StudyTypes, Blindness, PTL DEF StudyIsBlind

=============================================================================
