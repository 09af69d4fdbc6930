------------------------- MODULE FieldBetaRunProofs -------------------------
(* The Field Beta run, for any plans, any number of redrives and any number of *)
(* requests that die: its status moves legally, its outcome stands on a whole  *)
(* experiment and a whole ladder, is shown as it was delivered, and is final.  *)
EXTENDS FieldBetaRun, FiniteSetTheorems, TLAPS

-----------------------------------------------------------------------------
(* Types.                                                                    *)

Deriving == {"derive", "create", "record"}
Climbing == {"ladder", "rung"}
Looping == {"evidence"} \cup Deriving \cup Climbing

CursorOK(w) ==
    /\ cursor[w] \in 1..4
    /\ pc[w] = "evidence" => cursor[w] \in 1..3
    /\ pc[w] \in Deriving => cursor[w] \in 1..2
    /\ pc[w] \notin Looping => cursor[w] = 1

Typed ==
    /\ TypeOK /\ IsFiniteSet(artifacts)
    /\ \A w \in Workers : CursorOK(w)

\* The straight-line steps store rows and lead to steps outside the loops.
Straight == Steps \ (TailSteps \ {"readEvidence"})

LEMMA SourceMap ==
    \A p \in DOMAIN SourceSteps : p \in Rows \cap Straight /\ SourceSteps[p] \in Straight
<1>1. DOMAIN SourceSteps =
        {"policy", "project", "asset", "sourceBlob", "version", "media", "head"}
  BY DEF SourceSteps
<1> QED BY <1>1 DEF SourceSteps, Rows, Straight, Steps, TailSteps

LEMMA IntentMap ==
    \A p \in DOMAIN IntentSteps : p \in Rows \cap Straight /\ IntentSteps[p] \in Straight
<1>1. DOMAIN IntentSteps =
        {"intent", "patch", "instructionIntent", "instructionPatch", "lease"}
  BY DEF IntentSteps
<1> QED BY <1>1 DEF IntentSteps, Rows, Straight, Steps, Statuses, TailSteps

LEMMA AdmissionMap ==
    \A p \in DOMAIN AdmissionSteps : p \in Rows \cap Straight /\ AdmissionSteps[p] \in Straight
BY DEF AdmissionSteps, Rows, Straight, Steps, Statuses, TailSteps

LEMMA RawMap ==
    \A p \in DOMAIN RawSteps : p \in Rows \cap Straight /\ RawSteps[p] \in Straight
<1>1. DOMAIN RawSteps = {"raw", "checkpoint", "receipt", "snapshot", "cost"}
  BY DEF RawSteps
<1>2. "preservationRun" \in Rows
  BY DEF Rows, PreservationSteps
<1> QED BY <1>1, <1>2 DEF RawSteps, Rows, Straight, Steps, TailSteps

LEMMA PreservationMap ==
    \A p \in DOMAIN PreservationSteps : p \in Rows \cap Straight /\ PreservationSteps[p] \in Straight
<1>1. DOMAIN PreservationSteps =
        {"preservationRun", "preserved", "preservationSuccess", "imageEvidence",
         "preservationFailure"}
  BY DEF PreservationSteps
<1> QED BY <1>1 DEF PreservationSteps, Rows, Straight, Steps, Statuses, TailSteps

LEMMA StatusMap ==
    \A p \in DOMAIN StatusSteps : p \in Statuses \cap Straight /\ StatusSteps[p] \in Straight
<1>1. DOMAIN StatusSteps = {"PREPARED", "READY", "EXECUTING", "VERIFYING", "FAILED"}
  BY DEF StatusSteps
<1> QED BY <1>1 DEF StatusSteps, Straight, Steps, Statuses, TailSteps

LiveMoves ==
    /\ pc["live"] \in Straight /\ \E n \in Straight : Goto("live", n)
    /\ rows' \subseteq Rows /\ status' \in Statuses /\ verdict' \in Verdicts
    /\ UNCHANGED <<artifacts, criteria, ladder, outcome, cursor, seen, view,
                   plan, aborts, overlapped>>

LEMMA LiveExperimentMoves == Typed /\ LiveExperiment => LiveMoves
<1> SUFFICES ASSUME Typed, LiveExperiment PROVE LiveMoves
  OBVIOUS
<1> USE DEF TailRows, Own, Elsewhere, LiveMoves, store
<1>0. rows \subseteq Rows /\ status \in Statuses /\ verdict \in Verdicts
  BY DEF Typed, TypeOK
<1>1. CASE PersistSource \/ PersistIntent \/ PersistRun \/ PersistRaw \/ PersistPreservation
  BY <1>0, <1>1, SourceMap, IntentMap, AdmissionMap, RawMap, PreservationMap
     DEF PersistSource, PersistIntent, PersistRun, PersistRaw, PersistPreservation, Persist
<1>2. CASE OpenTransaction
  BY <1>0, <1>2 DEF OpenTransaction, Rows, Statuses, Straight, Steps, IntentSteps, TailSteps
<1>3. CASE UpdateStatus
  BY <1>0, <1>3, StatusMap DEF UpdateStatus
<1>4. CASE BindSpec
  BY <1>0, <1>4 DEF BindSpec, Straight, Steps, TailSteps
<1>5. CASE Reserve \/ Consume
  <2>1. "failureRun" \in Straight
    BY DEF Straight, Steps, Rows, AdmissionSteps, TailSteps
  <2>2. {"reserve", "consume", "execute"} \subseteq Straight /\ {"reservation", "consumption"} \subseteq Rows
    BY DEF Straight, Steps, Rows, TailSteps
  <2> QED BY <1>0, <1>5, <2>1, <2>2 DEF Reserve, Consume, Admit
<1>6. CASE Execute
  BY <1>0, <1>6 DEF Execute, Straight, Steps, Rows, AdmissionSteps, TailSteps
<1>7. CASE StoreRaw \/ StorePreserved
  <2>1. {"raw", "FAILED", "preserved", "preservationFailure"} \subseteq Straight
    BY DEF Straight, Steps, Rows, RawSteps, PreservationSteps, Statuses, TailSteps
  <2>2. {"rawBlob", "preservedBlob"} \subseteq Rows \cap Straight
    BY DEF Rows, Straight, Steps, TailSteps
  <2> QED BY <1>0, <1>7, <2>1, <2>2 DEF StoreRaw, StorePreserved, PutBlob
<1>8. CASE Preserve
  BY <1>0, <1>8 DEF Preserve, Straight, Steps, Rows, PreservationSteps, TailSteps
<1>9. CASE StoreEvidence
  <2>1. {"imageEvidence", "evidencePair"} \subseteq Straight /\ EvidencePair \subseteq Rows
    BY DEF Straight, Steps, Rows, PreservationSteps, TailSteps
  <2> QED BY <1>0, <1>9, <2>1 DEF StoreEvidence
<1>10. CASE Verify
  <2>1. {"verify", "conclude"} \subseteq Straight /\ "verification" \in Rows
    BY DEF Straight, Steps, Rows, TailSteps
  <2> QED BY <1>0, <1>10, <2>1 DEF Verify
<1>11. CASE Conclude
  BY <1>0, <1>11 DEF Conclude, Straight, Steps, Statuses, TailSteps
<1> QED BY <1>1, <1>2, <1>3, <1>4, <1>5, <1>6, <1>7, <1>8, <1>9, <1>10, <1>11
        DEF LiveExperiment

LEMMA LiveType == Typed /\ LiveMoves => Typed'
<1> SUFFICES ASSUME Typed, LiveMoves PROVE Typed'
  OBVIOUS
<1> PICK n \in Straight : Goto("live", n)
  BY DEF LiveMoves
<1>1. pc' = [pc EXCEPT !["live"] = n] /\ n \in Steps /\ n \notin Looping /\ "live" \in Workers
  BY DEF Goto, Straight, Workers, TailSteps, Looping, Deriving, Climbing
<1>2. pc["live"] \notin Looping
  BY DEF LiveMoves, Straight, TailSteps, Looping, Deriving, Climbing
<1>3. TypeOK'
  BY <1>1 DEF Typed, TypeOK, LiveMoves
<1>4. ASSUME NEW w \in Workers PROVE CursorOK(w)'
  <2>1. CASE w = "live"
    <3>1. cursor'[w] = 1 /\ pc'[w] = n
      BY <1>1, <1>2, <2>1 DEF Typed, TypeOK, CursorOK, LiveMoves
    <3> QED BY <1>1, <3>1 DEF CursorOK, Looping
  <2>2. CASE w # "live"
    BY <1>1, <2>2 DEF Typed, TypeOK, CursorOK, LiveMoves
  <2> QED BY <2>1, <2>2
<1> QED BY <1>3, <1>4 DEF Typed, LiveMoves

\* What a step of a request does to the types, said once.
LocalTyped ==
    /\ pc' \in [Workers -> Steps] /\ cursor' \in [Workers -> 1..4]
    /\ seen' \in [Workers -> SUBSET AllCriteria]
    /\ view' \in [Workers -> [DerivedStrategies -> Candidates]]
    /\ \A v \in Workers : CursorOK(v)'

\* A step of one request that keeps its cursor within its loop.
LEMMA LocalType ==
    ASSUME Typed, NEW w \in Workers, NEW n \in Steps, NEW k \in 1..4,
           seen' \in [Workers -> SUBSET AllCriteria],
           view' \in [Workers -> [DerivedStrategies -> Candidates]],
           pc' = [pc EXCEPT ![w] = n],
           cursor' = [cursor EXCEPT ![w] = k] \/ (cursor' = cursor /\ cursor[w] = k),
           n = "evidence" => k \in 1..3, n \in Deriving => k \in 1..2, n \notin Looping => k = 1
    PROVE  LocalTyped
<1>1. /\ pc' \in [Workers -> Steps] /\ cursor' \in [Workers -> 1..4]
      /\ seen' \in [Workers -> SUBSET AllCriteria]
      /\ view' \in [Workers -> [DerivedStrategies -> Candidates]]
  BY DEF Typed, TypeOK
<1>2. pc'[w] = n /\ cursor'[w] = k
  BY DEF Typed, TypeOK
<1>3. ASSUME NEW v \in Workers, v # w PROVE pc'[v] = pc[v] /\ cursor'[v] = cursor[v]
  BY <1>3 DEF Typed, TypeOK
<1>4. ASSUME NEW v \in Workers PROVE CursorOK(v)'
  <2>1. CASE v = w
    BY <1>2, <2>1 DEF CursorOK
  <2>2. CASE v # w
    BY <1>3, <2>2 DEF CursorOK, Typed
  <2> QED BY <2>1, <2>2
<1> QED BY <1>1, <1>4 DEF LocalTyped

LEMMA FreshType == Fresh \in [DerivedStrategies -> Candidates]
BY DEF Fresh, Original, DerivedStrategies, Candidates, Strategies

LEMMA ThrowType ==
    ASSUME Typed, NEW w \in Workers, Throw(w) PROVE LocalTyped
<1>1. {"dead", "idle"} \subseteq Steps /\ {"dead", "idle"} \cap Looping = {}
  BY DEF Steps, Looping, Deriving, Climbing
<1>2. PICK n \in {"dead", "idle"} : pc' = [pc EXCEPT ![w] = n]
  BY DEF Throw
<1>3. n \in Steps /\ n # "evidence" /\ n \notin Deriving /\ n \notin Looping
  BY <1>1, <1>2 DEF Looping
<1>4. /\ seen' \in [Workers -> SUBSET AllCriteria]
      /\ view' \in [Workers -> [DerivedStrategies -> Candidates]]
  BY FreshType DEF Throw, Typed, TypeOK
<1>5. 1 \in 1..4 /\ cursor' = [cursor EXCEPT ![w] = 1]
  BY DEF Throw
<1> QED BY <1>2, <1>3, <1>4, <1>5, LocalType

\* A step that only moves the request on, within or after its loop.
LEMMA GotoType ==
    ASSUME Typed, NEW w \in Workers, NEW n \in Steps, Goto(w, n), UNCHANGED <<cursor, seen, view>>,
           \/ n \notin Looping /\ pc[w] \notin Looping
           \/ n \in Deriving /\ pc[w] \in Deriving
           \/ n \in Climbing /\ pc[w] \in Climbing
           \/ n = "evidence" /\ pc[w] \notin Looping
    PROVE  LocalTyped
<1>1. cursor[w] \in 1..4 /\ CursorOK(w)
  BY DEF Typed, CursorOK
<1>2. /\ n = "evidence" => cursor[w] \in 1..3
      /\ n \in Deriving => cursor[w] \in 1..2
      /\ n \notin Looping => cursor[w] = 1
  BY <1>1 DEF CursorOK, Looping, Deriving, Climbing
<1>3. /\ seen' \in [Workers -> SUBSET AllCriteria]
      /\ view' \in [Workers -> [DerivedStrategies -> Candidates]]
  BY DEF Typed, TypeOK
<1> QED BY <1>1, <1>2, <1>3, LocalType DEF Goto

\* A loop goes on below its bound, or ends.
LEMMA AdvanceType ==
    ASSUME Typed, NEW w \in Workers, NEW step, NEW next \in Steps, NEW count \in {2, 3, 4},
           Advance(w, cursor[w] < count, step, next), UNCHANGED seen,
           NEW u \in [DerivedStrategies -> Candidates],
           view' = [view EXCEPT ![w] = u] \/ view' = view,
           \/ step = "evidence" /\ count = 3
           \/ step = "derive" /\ count = 2
           \/ step = "ladder" /\ count = 4,
           next \notin Looping \/ next \in {"derive", "ladder"}
    PROVE  LocalTyped
<1>1. cursor[w] \in 1..4 /\ {"evidence", "derive", "ladder"} \subseteq Steps
  BY DEF Typed, TypeOK, Steps, TailSteps
<1>2. /\ seen' \in [Workers -> SUBSET AllCriteria]
      /\ view' \in [Workers -> [DerivedStrategies -> Candidates]]
  BY DEF Typed, TypeOK
<1>3. CASE cursor[w] < count
  <2>1. cursor[w] + 1 \in 1..4 /\ cursor[w] + 1 \in 1..count
    BY <1>1, <1>3
  <2>2. step \in Looping /\ (step = "evidence" => count = 3) /\ (step \in Deriving => count = 2)
    BY DEF Looping, Deriving, Climbing
  <2>3. cursor' = [cursor EXCEPT ![w] = cursor[w] + 1] /\ pc' = [pc EXCEPT ![w] = step]
    BY <1>3 DEF Advance
  <2> QED BY <1>1, <1>2, <2>1, <2>2, <2>3, LocalType
<1>4. CASE ~(cursor[w] < count)
  <2>1. cursor' = [cursor EXCEPT ![w] = 1] /\ pc' = [pc EXCEPT ![w] = next]
    BY <1>4 DEF Advance
  <2>2. 1 \in 1..4 /\ 1 \in 1..3 /\ 1 \in 1..2
    OBVIOUS
  <2> QED BY <1>2, <2>1, <2>2, LocalType
<1> QED BY <1>3, <1>4

LEMMA Sequences ==
    /\ \A i \in 1..3 : Criteria[i] \in AllCriteria
    /\ \A i \in 1..2 : Derived[i] \in DerivedStrategies
    /\ \A i \in 1..4 : Ladder[i] \in Strategies
    /\ \A s \in Strategies : \E i \in 1..4 : Ladder[i] = s
    /\ \A s \in DerivedStrategies : \E i \in 1..2 : Derived[i] = s
    /\ DerivedStrategies \subseteq Strategies
<1>1. \A i \in 1..3 : Criteria[i] \in AllCriteria
  BY DEF AllCriteria
<1>2. Derived[1] = "P1_SOFT" /\ Derived[2] = "P2_MODERATE"
  BY DEF Derived
<1>3. \A i \in 1..2 : i = 1 \/ i = 2
  OBVIOUS
<1>4. /\ Ladder[1] = "P0_RAW" /\ Ladder[2] = "P1_SOFT"
      /\ Ladder[3] = "P2_MODERATE" /\ Ladder[4] = "P3_HARD"
  BY DEF Ladder
<1>5. \A i \in 1..4 : i = 1 \/ i = 2 \/ i = 3 \/ i = 4
  OBVIOUS
<1>6. /\ \A i \in 1..4 : Ladder[i] \in Strategies
      /\ \A s \in Strategies : \E i \in 1..4 : Ladder[i] = s
  BY <1>4, <1>5 DEF Strategies
<1>7. /\ \A i \in 1..2 : Derived[i] \in DerivedStrategies
      /\ \A s \in DerivedStrategies : \E i \in 1..2 : Derived[i] = s
  BY <1>2, <1>3 DEF DerivedStrategies
<1> QED BY <1>1, <1>6, <1>7 DEF DerivedStrategies, Strategies
LEMMA ViewedType ==
    ASSUME Typed, NEW w \in Workers, NEW s \in Strategies PROVE Viewed(w, s) \in Candidates
BY DEF Typed, TypeOK, Viewed, Original, Candidates

\* The types of what a request of the tail stores.
Stored ==
    /\ rows' \subseteq Rows /\ UNCHANGED <<status, verdict, plan, aborts, overlapped>>
    /\ artifacts' \subseteq [strategy: DerivedStrategies, copy: Nat \ {0}]
    /\ IsFiniteSet(artifacts') /\ criteria' \subseteq AllCriteria
    /\ ladder' \in [Strategies -> StrategyRuns \cup {NoRun}]
    /\ outcome' \in Outcomes \cup {NoOutcome}

LEMMA StoreUnchanged ==
    ASSUME Typed, UNCHANGED store, UNCHANGED <<plan, aborts, overlapped>> PROVE Stored
BY DEF Typed, TypeOK, Stored, store

LEMMA StrategyRunTyped ==
    ASSUME Typed, NEW w \in Workers, NEW s \in Strategies, NEW count \in {2, 4}, NEW step,
           NEW next \in Steps,
           \/ step = "derive" /\ count = 2
           \/ step = "ladder" /\ count = 4,
           next \notin Looping \/ next \in {"derive", "ladder"},
           CreateStrategyRun(w, s, count, step, next)
    PROVE  Stored /\ LocalTyped
<1>1. [candidate |-> Viewed(w, s), role |-> Role(w, s)] \in StrategyRuns
  BY ViewedType DEF StrategyRuns, Role
<1>2. Stored
  BY <1>1 DEF CreateStrategyRun, Stored, Typed, TypeOK, Elsewhere
<1>3. CASE Throw(w)
  BY <1>2, <1>3, ThrowType
<1>4. CASE Advance(w, cursor[w] < count, step, next) /\ UNCHANGED <<seen, view>>
  BY <1>2, <1>4, FreshType, AdvanceType
<1> QED BY <1>2, <1>3, <1>4 DEF CreateStrategyRun

LEMMA TailType ==
    ASSUME Typed, NEW w \in Workers, Tail(w) PROVE Stored /\ LocalTyped
<1> USE DEF Elsewhere
<1>0. TailSteps \subseteq Steps /\ {"dead", "idle", "done"} \subseteq Steps
  BY DEF Steps
<1>1. CASE ReadEvidence(w)
  <2>1. Stored
    BY <1>1, StoreUnchanged DEF ReadEvidence
  <2>2. /\ seen' \in [Workers -> SUBSET AllCriteria]
        /\ view' \in [Workers -> [DerivedStrategies -> Candidates]]
    BY <1>1 DEF ReadEvidence, Typed, TypeOK
  <2>3. /\ cursor[w] = 1 /\ pc' = [pc EXCEPT ![w] = "evidence"] /\ cursor' = cursor
    BY <1>1 DEF ReadEvidence, Goto, Typed, CursorOK, Looping, Deriving, Climbing
  <2>4. 1 \in 1..4 /\ 1 \in 1..3 /\ "evidence" \in Steps
    BY <1>0 DEF TailSteps
  <2>5. "evidence" \in Looping /\ "evidence" \notin Deriving
    BY DEF Looping, Deriving
  <2> QED BY <2>1, <2>2, <2>3, <2>4, <2>5, LocalType
<1>2. CASE WriteEvidence(w)
  <2>1. Criteria[cursor[w]] \in AllCriteria
    BY <1>2, Sequences DEF WriteEvidence, Typed, CursorOK
  <2>2. Stored
    BY <1>2, <2>1 DEF WriteEvidence, Stored, Typed, TypeOK
  <2>3. CASE Throw(w)
    BY <2>2, <2>3, ThrowType
  <2>4. CASE Advance(w, cursor[w] < 3, "evidence", "derive") /\ UNCHANGED <<seen, view>>
    <3>1. "derive" \in Steps
      BY <1>0 DEF TailSteps
    <3> QED BY <2>2, <2>4, <3>1, FreshType, AdvanceType
  <2> QED BY <1>2, <2>3, <2>4 DEF WriteEvidence
<1>3. CASE Derive(w)
  <2>1. Derived[cursor[w]] \in DerivedStrategies /\ DerivedStrategies \subseteq Strategies
    BY <1>3, Sequences DEF Derive, Typed, CursorOK, Deriving
  <2> PICK s \in DerivedStrategies : s = Derived[cursor[w]]
    BY <2>1
  <2>2. Stored
    BY <1>3, StoreUnchanged DEF Derive
  <2>3. CASE ladder[s] # NoRun
    <3>1. ladder[s].candidate \in Candidates
      BY <2>1, <2>3 DEF Typed, TypeOK, StrategyRuns
    <3>2. PICK u \in [DerivedStrategies -> Candidates] : u = [view[w] EXCEPT ![s] = ladder[s].candidate]
      BY <3>1 DEF Typed, TypeOK
    <3>3. view' = [view EXCEPT ![w] = u] /\ Advance(w, cursor[w] < 2, "derive", "ladder")
          /\ UNCHANGED seen
      BY <1>3, <2>3, <3>2 DEF Derive
    <3>4. "ladder" \in Steps
      BY <1>0 DEF TailSteps
    <3> QED BY <2>2, <3>3, <3>4, AdvanceType
  <2>4. CASE ladder[s] = NoRun
    <3>1. "create" \in Steps /\ "create" \in Deriving /\ pc[w] \in Deriving
      BY <1>0, <1>3 DEF TailSteps, Deriving, Derive
    <3> QED BY <1>3, <2>2, <2>4, <3>1, GotoType DEF Derive
  <2> QED BY <2>3, <2>4
<1>4. CASE CreateDerived(w)
  <2>1. Derived[cursor[w]] \in DerivedStrategies /\ DerivedStrategies \subseteq Strategies
    BY <1>4, Sequences DEF CreateDerived, Typed, CursorOK, Deriving
  <2> PICK s \in DerivedStrategies : s = Derived[cursor[w]]
    BY <2>1
  <2> PICK new : new = [strategy |-> s, copy |-> Cardinality(artifacts) + 1]
    OBVIOUS
  <2>2. Cardinality(artifacts) \in Nat
    BY FS_CardinalityType DEF Typed
  <2>3. new \in [strategy: DerivedStrategies, copy: Nat \ {0}] /\ new \in Candidates
    BY <2>1, <2>2 DEF Candidates
  <2>4. IsFiniteSet(artifacts \cup {new})
    BY FS_AddElement DEF Typed
  <2>5. Stored
    BY <1>4, <2>3, <2>4 DEF CreateDerived, Stored, Typed, TypeOK
  <2>6. PICK u \in [DerivedStrategies -> Candidates] : u = [view[w] EXCEPT ![s] = new]
    BY <2>3 DEF Typed, TypeOK
  <2>7. view' = [view EXCEPT ![w] = u] /\ UNCHANGED seen
    BY <1>4, <2>6 DEF CreateDerived
  <2>8. CASE Advance(w, cursor[w] < 2, "derive", "ladder")
    <3>1. "ladder" \in Steps
      BY <1>0 DEF TailSteps
    <3> QED BY <2>5, <2>7, <2>8, <3>1, AdvanceType
  <2>9. CASE Goto(w, "record") /\ UNCHANGED cursor
    <3>1. "record" \in Steps /\ "record" \in Deriving /\ "record" # "evidence"
          /\ cursor[w] \in 1..2 /\ cursor[w] \in 1..4 /\ "record" \in Looping
      BY <1>0, <1>4 DEF TailSteps, Deriving, CreateDerived, Typed, CursorOK, Looping
    <3>2. view' \in [Workers -> [DerivedStrategies -> Candidates]]
      BY <2>7 DEF Typed, TypeOK
    <3>3. seen' \in [Workers -> SUBSET AllCriteria]
      BY <2>7 DEF Typed, TypeOK
    <3> QED BY <2>5, <2>9, <3>1, <3>2, <3>3, LocalType DEF Goto
  <2> QED BY <1>4, <2>8, <2>9 DEF CreateDerived
<1>5. CASE RecordDerived(w)
  <2>1. Derived[cursor[w]] \in Strategies
    BY <1>5, Sequences DEF RecordDerived, Typed, CursorOK, Deriving
  <2>2. "ladder" \in Steps
    BY <1>0 DEF TailSteps
  <2> QED BY <1>5, <2>1, <2>2, StrategyRunTyped DEF RecordDerived
<1>6. CASE FindRung(w)
  <2>1. Stored
    BY <1>6, StoreUnchanged DEF FindRung
  <2>2. "findOutcome" \in Steps /\ "findOutcome" \notin Looping /\ "rung" \in Steps
        /\ "rung" \in Climbing /\ pc[w] \in Climbing
    BY <1>0, <1>6 DEF TailSteps, Looping, Deriving, Climbing, FindRung
  <2>3. CASE Advance(w, cursor[w] < 4, "ladder", "findOutcome") /\ UNCHANGED <<seen, view>>
    BY <2>1, <2>2, <2>3, FreshType, AdvanceType
  <2>4. CASE Goto(w, "rung") /\ UNCHANGED <<cursor, seen, view>>
    BY <2>1, <2>2, <2>4, GotoType
  <2> QED BY <1>6, <2>3, <2>4 DEF FindRung
<1>7. CASE CreateRung(w)
  <2>1. Ladder[cursor[w]] \in Strategies
    BY <1>7, Sequences DEF CreateRung, Typed, CursorOK
  <2>2. "findOutcome" \in Steps /\ "findOutcome" \notin Looping
    BY <1>0 DEF TailSteps, Looping, Deriving, Climbing
  <2> QED BY <1>7, <2>1, <2>2, StrategyRunTyped DEF CreateRung
<1>8. CASE FindOutcome(w)
  <2>1. Stored
    BY <1>8, StoreUnchanged DEF FindOutcome
  <2>2. CASE Throw(w)
    BY <2>1, <2>2, ThrowType
  <2>3. CASE (Goto(w, "view") \/ Goto(w, "createOutcome")) /\ Own
    <3>1. /\ "view" \in Steps /\ "createOutcome" \in Steps /\ pc[w] \notin Looping
          /\ "view" \notin Looping /\ "createOutcome" \notin Looping
      BY <1>0, <1>8 DEF TailSteps, Looping, Deriving, Climbing, FindOutcome
    <3> QED BY <2>1, <2>3, <3>1, GotoType DEF Own
  <2> QED BY <1>8, <2>2, <2>3 DEF FindOutcome
<1>9. CASE CreateOutcome(w)
  <2>1. Target(w) \in Strategies
    BY PlansAssumption DEF Target, Typed, TypeOK, AllPlans, Recommended, Strategies
  <2>2. [strategy |-> Target(w), delivered |-> Viewed(w, Target(w)), machine |-> verdict] \in Outcomes
    BY <2>1, ViewedType DEF Outcomes, Typed, TypeOK
  <2>3. Stored
    BY <1>9, <2>2 DEF CreateOutcome, Stored, Typed, TypeOK
  <2>4. CASE Throw(w)
    BY <2>3, <2>4, ThrowType
  <2>5. CASE (Goto(w, "sample") \/ Goto(w, "view")) /\ Own
    <3>1. /\ "view" \in Steps /\ "sample" \in Steps /\ pc[w] \notin Looping
          /\ "view" \notin Looping /\ "sample" \notin Looping
      BY <1>0, <1>9 DEF TailSteps, Looping, Deriving, Climbing, CreateOutcome
    <3> QED BY <2>3, <2>5, <3>1, GotoType DEF Own
  <2> QED BY <1>9, <2>4, <2>5 DEF CreateOutcome
<1>10. CASE MaybeCreateSample(w)
  <2>1. "sample" \in Rows
    BY DEF Rows
  <2>2. Stored
    BY <1>10, <2>1 DEF MaybeCreateSample, Stored, Typed, TypeOK, TailRows
  <2>3. "view" \in Steps /\ "view" \notin Looping /\ pc[w] \notin Looping
    BY <1>0, <1>10 DEF TailSteps, Looping, Deriving, Climbing, MaybeCreateSample
  <2> QED BY <1>10, <2>2, <2>3, GotoType DEF MaybeCreateSample, Own
<1>11. CASE BuildView(w)
  <2>1. Stored
    BY <1>11, StoreUnchanged DEF BuildView
  <2>2. PICK n \in {"done", "idle"} : pc' = [pc EXCEPT ![w] = n]
    BY <1>11 DEF BuildView
  <2>3. n \in Steps /\ n \notin Looping /\ n # "evidence" /\ n \notin Deriving
    BY <1>0 DEF Looping, Deriving, Climbing
  <2>4. /\ seen' \in [Workers -> SUBSET AllCriteria]
        /\ view' \in [Workers -> [DerivedStrategies -> Candidates]]
    BY <1>11, FreshType DEF BuildView, Typed, TypeOK
  <2>5. 1 \in 1..4 /\ cursor' = [cursor EXCEPT ![w] = 1]
    BY <1>11 DEF BuildView
  <2> QED BY <2>1, <2>2, <2>3, <2>4, <2>5, LocalType
<1> QED BY <1>1, <1>2, <1>3, <1>4, <1>5, <1>6, <1>7, <1>8, <1>9, <1>10, <1>11 DEF Tail
LEMMA TypeStep == Typed /\ [Next]_vars => Typed'
<1> SUFFICES ASSUME Typed, [Next]_vars PROVE Typed'
  OBVIOUS
<1>1. CASE UNCHANGED vars
  BY <1>1 DEF vars, store, local, Typed, TypeOK, CursorOK
<1>2. ASSUME Stored, LocalTyped PROVE Typed'
  BY <1>2 DEF Stored, LocalTyped, Typed, TypeOK
<1>3. CASE LiveExperiment
  BY <1>3, LiveExperimentMoves, LiveType
<1>4. ASSUME NEW w \in Workers, Tail(w) PROVE Typed'
  BY <1>2, <1>4, TailType
<1>5. CASE InjectFault
  <2>1. "live" \in Workers
    BY DEF Workers
  <2> QED BY <1>2, <1>5, <2>1, StoreUnchanged, ThrowType DEF InjectFault, Elsewhere
<1>6. ASSUME NEW w \in Recoverers, Redrive(w) \/ ReadExperiment(w) \/ Return(w) PROVE Typed'
  <2>1. w \in Workers
    BY DEF Workers
  <2>2. /\ {"experiment", "idle", "misread", "readEvidence"} \subseteq Steps
        /\ {"experiment", "idle", "misread", "readEvidence"} \cap Looping = {}
    BY DEF Steps, TailSteps, Looping, Deriving, Climbing
  <2>3. pc[w] \notin Looping
    BY <1>6 DEF Redrive, ReadExperiment, Return, Looping, Deriving, Climbing
  <2>4. PICK n \in {"experiment", "idle", "misread", "readEvidence"} : Goto(w, n)
    BY <1>6 DEF Redrive, ReadExperiment, Return
  <2>5. UNCHANGED <<store, cursor, seen, view, plan, aborts>> /\ overlapped' \in BOOLEAN
    BY <1>6 DEF Redrive, ReadExperiment, Return, Own, Elsewhere, Typed, TypeOK
  <2>6. LocalTyped
    BY <2>1, <2>2, <2>3, <2>4, <2>5, GotoType
  <2> QED BY <2>5, <2>6 DEF LocalTyped, Typed, TypeOK, store
<1>7. ASSUME NEW w \in Workers, Abort(w) PROVE Typed'
  <2>1. LocalTyped
    BY <1>7, ThrowType DEF Abort
  <2>2. aborts' \in 0..MaxAborts
    BY <1>7, AbortsAssumption DEF Abort, Typed, TypeOK
  <2> QED BY <1>7, <2>1, <2>2 DEF Abort, LocalTyped, Typed, TypeOK, store
<1>8. "live" \in Workers /\ Recoverers \subseteq Workers
  BY DEF Workers
<1> QED BY <1>1, <1>3, <1>4, <1>5, <1>6, <1>7, <1>8 DEF Next, RedriveStep

LEMMA TypeInit == Init => Typed
<1> SUFFICES ASSUME Init PROVE Typed
  OBVIOUS
<1>1. IsFiniteSet({}) /\ 0 \in 0..MaxAborts
  BY FS_EmptySet, AbortsAssumption
<1>2. {"policy", "idle"} \subseteq Steps
  <2>1. "policy" \in DOMAIN SourceSteps
    BY DEF SourceSteps
  <2> QED BY <2>1 DEF Steps, Rows
<1>3. /\ pc \in [Workers -> Steps] /\ cursor \in [Workers -> 1..4]
      /\ seen \in [Workers -> SUBSET AllCriteria]
      /\ view \in [Workers -> [DerivedStrategies -> Candidates]]
  <2>1. 1 \in 1..4 /\ {} \in SUBSET AllCriteria
    OBVIOUS
  <2> QED BY <1>2, <2>1, FreshType DEF Init
<1>4. /\ plan \in Plans /\ rows \subseteq Rows /\ status \in Statuses /\ verdict \in Verdicts
      /\ artifacts = {} /\ criteria = {} /\ outcome = NoOutcome
      /\ ladder \in [Strategies -> StrategyRuns \cup {NoRun}]
      /\ aborts \in 0..MaxAborts /\ overlapped \in BOOLEAN
  BY <1>1 DEF Init, Statuses, Verdicts
<1>5. TypeOK
  BY <1>3, <1>4 DEF TypeOK
<1>6. \A w \in Workers : CursorOK(w)
  BY DEF Init, CursorOK, Looping, Deriving, Climbing
<1> QED BY <1>1, <1>4, <1>5, <1>6 DEF Typed

\* Every variable keeps its type, for any number of redrives and deaths.
THEOREM TypeInvariant == Spec => []TypeOK
<1>1. Typed => TypeOK
  BY DEF Typed
<1> QED BY <1>1, TypeInit, TypeStep, PTL DEF Spec

-----------------------------------------------------------------------------
(* The experiment.                                                           *)

\* Where the live request can be once a row it waits for exists.
AfterVerification == {"conclude"} \cup TailSteps
AfterEvidence == {"imageEvidence", "VERIFYING", "verify"} \cup AfterVerification
AfterPreservation == {"evidencePair"} \cup AfterEvidence
AfterPreserved == {"preservationSuccess"} \cup AfterPreservation
AfterCheckpoint ==
    {"receipt", "snapshot", "cost", "preservationRun", "preserve", "preservedBlob",
     "preserved"} \cup AfterPreserved
AfterRaw == {"checkpoint"} \cup AfterCheckpoint
AfterExecution == {"rawBlob", "raw"} \cup AfterRaw

Held ==
    LET at == pc["live"] IN
    /\ at \in AfterVerification => "verification" \in rows
    /\ at \in AfterEvidence => EvidencePair \subseteq rows
    /\ at \in AfterPreservation => "preservationSuccess" \in rows
    /\ at \in AfterPreserved => "preserved" \in rows
    /\ at \in AfterCheckpoint => "checkpoint" \in rows
    /\ at \in AfterRaw => "raw" \in rows
    /\ at \in AfterExecution => "executionRun" \in rows

\* The status of the transaction while the live request writes it.
StatusHeld ==
    LET at == pc["live"] IN
    /\ at \in {"policy", "project", "asset", "sourceBlob", "version", "media", "head",
               "transaction"} => status = "NONE"
    /\ at \in {"intent", "patch", "instructionIntent", "instructionPatch", "lease",
               "PREPARED"} => status = "DRAFT"
    /\ at = "READY" => status = "PREPARED"
    /\ at = "EXECUTING" => status = "READY"
    /\ at \in {"bindSpec", "reserve", "consume", "execute", "executionRun", "failureRun",
               "rawBlob", "raw", "checkpoint", "receipt", "snapshot", "cost",
               "preservationRun", "preserve", "preservedBlob", "preserved",
               "preservationSuccess", "evidencePair", "imageEvidence",
               "preservationFailure", "FAILED", "VERIFYING"} => status = "EXECUTING"
    /\ at \in {"verify", "conclude"} => status = "VERIFYING"

StatusAgrees ==
    /\ status \in {IF verdict = "PASSED" THEN "VERIFIED" ELSE "FAILED", "VERIFYING"}
    /\ status = "VERIFYING" => pc["live"] \in {"dead", "conclude"}

ExperimentInv ==
    /\ Held /\ StatusHeld
    /\ "verification" \in rows =>
          /\ pc["live"] \in {"conclude", "dead", "done"} \cup TailSteps
          /\ verdict # "NONE" /\ StatusAgrees
    /\ \A w \in Recoverers :
          /\ pc[w] \in {"idle", "experiment", "misread"} \cup TailSteps
          /\ pc[w] # "idle" => "checkpoint" \in rows
    /\ \A w \in Workers : pc[w] \in TailSteps => ChainComplete /\ "checkpoint" \in rows

-----------------------------------------------------------------------------
(* The tail.                                                                 *)

AfterLadder == {"findOutcome", "createOutcome", "sample", "view"}

ProgressOK(w) ==
    /\ pc[w] = "evidence" =>
          seen[w] \subseteq criteria /\ \A i \in 1..3 : i < cursor[w] => Criteria[i] \in criteria
    /\ pc[w] \in Deriving \cup Climbing \cup AfterLadder => criteria = AllCriteria
    /\ pc[w] \in Climbing => \A i \in 1..4 : i < cursor[w] => ladder[Ladder[i]] # NoRun
    /\ pc[w] \in AfterLadder => \A s \in Strategies : ladder[s] # NoRun
    /\ \A s \in DerivedStrategies : view[w][s].strategy = s

Natural == plan.chosen \in {"NONE", Recommended[plan.topology]}

RungOK(s) ==
    ladder[s] # NoRun =>
        /\ ladder[s].candidate.strategy = s
        /\ s \notin DerivedStrategies => ladder[s].candidate = Original(s)
        /\ Natural => (ladder[s].role = "DELIVERED" <=> s = Recommended[plan.topology])

OutcomeOK ==
    outcome # NoOutcome =>
        /\ ChainComplete /\ "checkpoint" \in rows /\ criteria = AllCriteria
        /\ \A s \in Strategies : ladder[s] # NoRun
        /\ outcome.machine = verdict /\ outcome.delivered.strategy = outcome.strategy
        /\ outcome.strategy \notin DerivedStrategies =>
             outcome.delivered = Original(outcome.strategy)
        /\ Natural => outcome.strategy = Recommended[plan.topology]

TailInv ==
    /\ \A w \in Workers : ProgressOK(w)
    /\ \A s \in Strategies : RungOK(s)
    /\ OutcomeOK

\* As long as no redrive ran beside another writer, one request at a time is in
\* the tail, and it views the derived candidates that the rungs hold.
Within(w) == pc[w] \in TailSteps \cup {"conclude"}
ViewHeld(w, i) ==
    LET s == Derived[i] IN
    /\ \/ pc[w] \in Climbing \cup AfterLadder
       \/ pc[w] \in Deriving /\ i < cursor[w]
    /\ ladder[s] # NoRun
    => view[w][s] = ladder[s].candidate
AloneInv ==
    ~overlapped =>
        /\ \A w, v \in Workers : w # v => ~(Within(w) /\ Within(v))
        /\ \A w \in Workers :
              /\ pc[w] \in {"create", "record"} =>
                    ladder[Derived[cursor[w]]] = NoRun /\ outcome = NoOutcome
              /\ \A i \in 1..2 : ViewHeld(w, i)
        /\ outcome # NoOutcome =>
              /\ pc["live"] # "conclude"
              /\ ladder[outcome.strategy].candidate = outcome.delivered
\* A step of the live request before its tail: where it goes, what it stores.
LiveTo(n) ==
    /\ pc' = [pc EXCEPT !["live"] = n]
    /\ UNCHANGED <<artifacts, criteria, ladder, outcome, cursor, seen, view,
                   plan, aborts, overlapped>>

Unverified == {"policy", "project", "asset", "sourceBlob", "version", "media", "head",
               "transaction", "intent", "patch", "instructionIntent", "instructionPatch",
               "lease", "PREPARED", "READY", "EXECUTING", "bindSpec", "reserve", "consume",
               "execute", "executionRun", "failureRun", "rawBlob", "raw", "checkpoint",
               "receipt", "snapshot", "cost", "preservationRun", "preserve",
               "preservedBlob", "preserved", "preservationSuccess", "evidencePair",
               "imageEvidence", "preservationFailure", "FAILED", "VERIFYING", "verify"}

LEMMA UnverifiedApart ==
    /\ Unverified \cap ({"conclude", "dead", "done"} \cup TailSteps) = {}
    /\ "verification" \notin Unverified
BY DEF Unverified, TailSteps

LEMMA ChainKept ==
    ASSUME Typed, ExperimentInv, rows \subseteq rows', NEW n, pc' = [pc EXCEPT !["live"] = n],
           n \in TailSteps => ChainComplete' /\ "checkpoint" \in rows'
    PROVE  /\ \A w \in Recoverers :
                /\ pc'[w] \in {"idle", "experiment", "misread"} \cup TailSteps
                /\ pc'[w] # "idle" => "checkpoint" \in rows'
           /\ \A w \in Workers : pc'[w] \in TailSteps => ChainComplete' /\ "checkpoint" \in rows'
<1>1. ChainComplete => ChainComplete'
  BY DEF ChainComplete
<1>2. \A w \in Recoverers : w # "live" /\ w \in Workers /\ pc'[w] = pc[w]
  BY WorkersAssumption DEF Typed, TypeOK, Workers
<1>3. "live" \in Workers /\ pc'["live"] = n
  BY DEF Typed, TypeOK, Workers
<1>4. \A w \in Workers : w = "live" \/ w \in Recoverers
  BY DEF Workers
<1> QED BY <1>1, <1>2, <1>3, <1>4 DEF ExperimentInv

\* Before the verification is stored.
LEMMA UnverifiedStep ==
    ASSUME Typed, ExperimentInv, rows \subseteq rows', NEW n \in Unverified, LiveTo(n),
           pc["live"] \in Unverified, "verification" \in rows' => "verification" \in rows,
           Held', StatusHeld'
    PROVE  ExperimentInv'
<1>1. "verification" \notin rows'
  BY UnverifiedApart DEF ExperimentInv
<1>2. pc' = [pc EXCEPT !["live"] = n] /\ n \notin TailSteps
  BY UnverifiedApart DEF LiveTo
<1> QED BY <1>1, <1>2, ChainKept DEF ExperimentInv

LEMMA PersistStep ==
    ASSUME Typed, ExperimentInv,
           \/ PersistSource \/ PersistIntent \/ PersistRun \/ PersistRaw \/ PersistPreservation
    PROVE  ExperimentInv'
<1> PICK p : p = pc["live"]
  OBVIOUS
<1> PICK n : Goto("live", n) /\ n = pc'["live"]
  BY DEF PersistSource, PersistIntent, PersistRun, PersistRaw, PersistPreservation, Persist,
         Goto, Typed, TypeOK, Workers
<1>1. rows' = rows \cup {p} /\ LiveTo(n) /\ UNCHANGED status
  BY DEF PersistSource, PersistIntent, PersistRun, PersistRaw, PersistPreservation, Persist,
         LiveTo, Goto, TailRows, Own, Elsewhere
<1>2. Held /\ StatusHeld
  BY DEF ExperimentInv
<1>3. "live" \in Workers
  BY DEF Workers
<1> USE DEF AfterVerification, AfterEvidence, AfterPreservation, AfterPreserved,
            AfterCheckpoint, AfterRaw, AfterExecution
<1>4. CASE PersistSource
  <2>1. DOMAIN SourceSteps =
          {"policy", "project", "asset", "sourceBlob", "version", "media", "head"}
    BY DEF SourceSteps
  <2>2. /\ p \in {"policy", "project", "asset", "sourceBlob", "version", "media", "head"}
        /\ n = SourceSteps[p]
    BY <1>3, <1>4, <2>1 DEF PersistSource, Persist, Goto, Typed, TypeOK
  <2>3. n \in {"project", "asset", "sourceBlob", "version", "media", "head", "transaction"}
    BY <2>2 DEF SourceSteps
  <2>4. n \in Unverified /\ p \in Unverified /\ p # "verification"
    BY <2>2, <2>3 DEF Unverified
  <2>5. Held'
    BY <1>1, <1>3, <2>3 DEF Held, LiveTo, Typed, TypeOK, TailSteps
  <2>6. StatusHeld'
    BY <1>1, <1>2, <1>3, <2>2, <2>3 DEF StatusHeld, LiveTo, Typed, TypeOK
  <2> QED BY <1>1, <2>4, <2>5, <2>6, UnverifiedStep
<1>5. CASE PersistIntent
  <2>1. DOMAIN IntentSteps =
          {"intent", "patch", "instructionIntent", "instructionPatch", "lease"}
    BY DEF IntentSteps
  <2>2. /\ p \in {"intent", "patch", "instructionIntent", "instructionPatch", "lease"}
        /\ n = IntentSteps[p]
    BY <1>3, <1>5, <2>1 DEF PersistIntent, Persist, Goto, Typed, TypeOK
  <2>3. n \in {"patch", "instructionIntent", "instructionPatch", "lease", "PREPARED"}
    BY <2>2 DEF IntentSteps
  <2>4. n \in Unverified /\ p \in Unverified /\ p # "verification"
    BY <2>2, <2>3 DEF Unverified
  <2>5. Held'
    BY <1>1, <1>3, <2>3 DEF Held, LiveTo, Typed, TypeOK, TailSteps
  <2>6. StatusHeld'
    BY <1>1, <1>2, <1>3, <2>2, <2>3 DEF StatusHeld, LiveTo, Typed, TypeOK
  <2> QED BY <1>1, <2>4, <2>5, <2>6, UnverifiedStep
<1>6. CASE PersistRun
  <2>1. DOMAIN AdmissionSteps = {"executionRun", "failureRun"}
    BY DEF AdmissionSteps
  <2>2. \/ p = "executionRun" /\ n = "rawBlob"
        \/ p = "failureRun" /\ n = "FAILED"
    BY <1>3, <1>6, <2>1 DEF PersistRun, Persist, Goto, Typed, TypeOK, AdmissionSteps
  <2>4. n \in Unverified /\ p \in Unverified /\ p # "verification"
    BY <2>2 DEF Unverified
  <2>5. Held'
    BY <1>1, <1>3, <2>2 DEF Held, LiveTo, Typed, TypeOK, TailSteps
  <2>6. StatusHeld'
    BY <1>1, <1>2, <1>3, <2>2 DEF StatusHeld, LiveTo, Typed, TypeOK
  <2> QED BY <1>1, <2>4, <2>5, <2>6, UnverifiedStep
<1>7. CASE PersistRaw
  <2>1. DOMAIN RawSteps = {"raw", "checkpoint", "receipt", "snapshot", "cost"}
    BY DEF RawSteps
  <2>2. p \in {"raw", "checkpoint", "receipt", "snapshot", "cost"} /\ n = RawSteps[p]
    BY <1>3, <1>7, <2>1 DEF PersistRaw, Persist, Goto, Typed, TypeOK
  <2>3. \/ p = "raw" /\ n = "checkpoint"
        \/ p = "checkpoint" /\ n = "receipt"
        \/ p \in {"receipt", "snapshot", "cost"} /\ n \in {"snapshot", "cost", "preservationRun"}
    BY <2>2 DEF RawSteps
  <2>4. n \in Unverified /\ p \in Unverified /\ p # "verification"
    BY <2>3 DEF Unverified
  <2>5. Held'
    BY <1>1, <1>2, <1>3, <2>3 DEF Held, LiveTo, Typed, TypeOK, TailSteps
  <2>6. StatusHeld'
    BY <1>1, <1>2, <1>3, <2>3 DEF StatusHeld, LiveTo, Typed, TypeOK
  <2> QED BY <1>1, <2>4, <2>5, <2>6, UnverifiedStep
<1>8. CASE PersistPreservation
  <2>1. DOMAIN PreservationSteps =
          {"preservationRun", "preserved", "preservationSuccess", "imageEvidence",
           "preservationFailure"}
    BY DEF PreservationSteps
  <2>2. /\ n = PreservationSteps[p]
        /\ p \in {"preservationRun", "preserved", "preservationSuccess", "imageEvidence",
                  "preservationFailure"}
    BY <1>3, <1>8, <2>1 DEF PersistPreservation, Persist, Goto, Typed, TypeOK
  <2>3. \/ p = "preservationRun" /\ n = "preserve"
        \/ p = "preserved" /\ n = "preservationSuccess"
        \/ p = "preservationSuccess" /\ n = "evidencePair"
        \/ p = "imageEvidence" /\ n = "VERIFYING"
        \/ p = "preservationFailure" /\ n = "FAILED"
    BY <2>2 DEF PreservationSteps
  <2>4. n \in Unverified /\ p \in Unverified /\ p # "verification"
    BY <2>3 DEF Unverified
  <2>5. Held'
    BY <1>1, <1>2, <1>3, <2>3 DEF Held, LiveTo, Typed, TypeOK, TailSteps
  <2>6. StatusHeld'
    BY <1>1, <1>2, <1>3, <2>3 DEF StatusHeld, LiveTo, Typed, TypeOK
  <2> QED BY <1>1, <2>4, <2>5, <2>6, UnverifiedStep
<1> QED BY <1>4, <1>5, <1>6, <1>7, <1>8
\* The other steps before the verification is stored.
LEMMA CallStep ==
    ASSUME Typed, ExperimentInv,
           \/ OpenTransaction \/ UpdateStatus \/ BindSpec \/ Reserve \/ Consume \/ Execute
           \/ StoreRaw \/ Preserve \/ StorePreserved \/ StoreEvidence
    PROVE  ExperimentInv'
<1> PICK p : p = pc["live"]
  OBVIOUS
<1>0. Held /\ StatusHeld /\ "live" \in Workers /\ pc \in [Workers -> Steps]
  BY DEF ExperimentInv, Typed, TypeOK, Workers
<1> USE DEF AfterVerification, AfterEvidence, AfterPreservation, AfterPreserved,
            AfterCheckpoint, AfterRaw, AfterExecution
<1>1. CASE OpenTransaction
  <2>1. p = "transaction" /\ LiveTo("intent") /\ status' = "DRAFT"
        /\ rows' = rows \cup {"transaction"}
    BY <1>1 DEF OpenTransaction, LiveTo, Goto, TailRows, Own, Elsewhere
  <2>2. Held' /\ StatusHeld'
    BY <1>0, <2>1 DEF Held, StatusHeld, LiveTo, TailSteps
  <2> QED BY <2>1, <2>2, UnverifiedStep DEF Unverified
<1>2. CASE UpdateStatus
  <2>1. DOMAIN StatusSteps = {"PREPARED", "READY", "EXECUTING", "VERIFYING", "FAILED"}
    BY DEF StatusSteps
  <2>2. p \in DOMAIN StatusSteps /\ LiveTo(StatusSteps[p]) /\ status' = p /\ rows' = rows
    BY <1>2 DEF UpdateStatus, LiveTo, Goto, TailRows, Own, Elsewhere
  <2> PICK n : n = StatusSteps[p]
    OBVIOUS
  <2>3. \/ p = "PREPARED" /\ n = "READY"
        \/ p = "READY" /\ n = "EXECUTING"
        \/ p = "EXECUTING" /\ n = "bindSpec"
        \/ p = "VERIFYING" /\ n = "verify"
        \/ p = "FAILED" /\ n = "dead"
    BY <2>1, <2>2 DEF StatusSteps
  <2>4. Held' /\ StatusHeld'
    BY <1>0, <2>2, <2>3 DEF Held, StatusHeld, LiveTo, TailSteps
  <2>5. CASE n = "dead"
    <3>1. "verification" \notin rows
      BY <2>3, <2>5, UnverifiedApart DEF ExperimentInv, Unverified
    <3>2. pc' = [pc EXCEPT !["live"] = "dead"] /\ "dead" \notin TailSteps
      BY <2>2, <2>5 DEF LiveTo, TailSteps
    <3> QED BY <2>2, <2>4, <3>1, <3>2, ChainKept DEF ExperimentInv
  <2>6. CASE n # "dead"
    <3>1. n \in Unverified /\ p \in Unverified
      BY <2>3, <2>6 DEF Unverified
    <3> QED BY <2>2, <2>4, <3>1, UnverifiedStep
  <2> QED BY <2>5, <2>6
<1>3. CASE BindSpec
  <2> PICK n \in {"reserve", "dead"} : Goto("live", n)
    BY <1>3 DEF BindSpec
  <2>1. p = "bindSpec" /\ LiveTo(n) /\ UNCHANGED <<rows, status, verdict>>
    BY <1>3 DEF BindSpec, LiveTo, Goto, store, Own, Elsewhere
  <2>2. Held' /\ StatusHeld'
    BY <1>0, <2>1 DEF Held, StatusHeld, LiveTo, TailSteps
  <2>3. "verification" \notin rows
    BY <2>1, UnverifiedApart DEF ExperimentInv, Unverified
  <2>4. pc' = [pc EXCEPT !["live"] = n] /\ n \notin TailSteps
    BY <2>1 DEF LiveTo, TailSteps
  <2> QED BY <2>1, <2>2, <2>3, <2>4, ChainKept DEF ExperimentInv
<1>4. CASE Reserve \/ Consume
  <2> PICK row \in {"reservation", "consumption"}, n \in {"consume", "execute", "failureRun"} :
        (rows' = rows \/ rows' = rows \cup {row}) /\ Goto("live", n)
    BY <1>4 DEF Reserve, Consume, Admit
  <2>1. p \in {"reserve", "consume"} /\ LiveTo(n) /\ UNCHANGED status
    BY <1>4 DEF Reserve, Consume, Admit, LiveTo, Goto, TailRows, Own, Elsewhere
  <2>2. Held' /\ StatusHeld'
    BY <1>0, <2>1 DEF Held, StatusHeld, LiveTo, TailSteps
  <2>3. n \in Unverified /\ p \in Unverified /\ row # "verification"
    BY <2>1 DEF Unverified
  <2> QED BY <2>1, <2>2, <2>3, UnverifiedStep
<1>5. CASE Execute \/ Preserve
  <2> PICK n \in {"executionRun", "failureRun", "preservedBlob", "preservationFailure"} :
        /\ Goto("live", n)
        /\ \/ p = "execute" /\ n \in {"executionRun", "failureRun"}
           \/ p = "preserve" /\ n \in {"preservedBlob", "preservationFailure"}
    BY <1>5 DEF Execute, Preserve
  <2>1. LiveTo(n) /\ UNCHANGED <<rows, status, verdict>>
    BY <1>5 DEF Execute, Preserve, LiveTo, Goto, store, Own, Elsewhere
  <2>2. Held' /\ StatusHeld'
    BY <1>0, <2>1 DEF Held, StatusHeld, LiveTo, TailSteps
  <2>3. n \in Unverified /\ p \in Unverified
    BY DEF Unverified
  <2> QED BY <2>1, <2>2, <2>3, UnverifiedStep
<1>6. CASE StoreRaw \/ StorePreserved
  <2> PICK n :
        /\ Goto("live", n) /\ (rows' = rows \/ rows' = rows \cup {p})
        /\ \/ p = "rawBlob" /\ n \in {"raw", "FAILED"}
           \/ p = "preservedBlob" /\ n \in {"preserved", "preservationFailure"}
    BY <1>6 DEF StoreRaw, StorePreserved, PutBlob
  <2>1. LiveTo(n) /\ UNCHANGED status
    BY <1>6 DEF StoreRaw, StorePreserved, PutBlob, LiveTo, Goto, TailRows, Own, Elsewhere
  <2>2. Held' /\ StatusHeld'
    BY <1>0, <2>1 DEF Held, StatusHeld, LiveTo, TailSteps
  <2>3. n \in Unverified /\ p \in Unverified /\ p # "verification"
    BY DEF Unverified
  <2> QED BY <2>1, <2>2, <2>3, UnverifiedStep
<1>7. CASE StoreEvidence
  <2> PICK row \in EvidencePair : rows' = rows \cup {row}
    BY <1>7 DEF StoreEvidence
  <2> PICK n : n = IF EvidencePair \subseteq rows' THEN "imageEvidence" ELSE "evidencePair"
    OBVIOUS
  <2>1. p = "evidencePair" /\ LiveTo(n) /\ UNCHANGED status
    BY <1>7 DEF StoreEvidence, LiveTo, Goto, TailRows, Own, Elsewhere
  <2>2. Held' /\ StatusHeld'
    BY <1>0, <2>1 DEF Held, StatusHeld, LiveTo, TailSteps
  <2>3. n \in Unverified /\ p \in Unverified /\ row # "verification"
    BY <2>1 DEF Unverified, EvidencePair
  <2> QED BY <2>1, <2>2, <2>3, UnverifiedStep
<1> QED BY <1>1, <1>2, <1>3, <1>4, <1>5, <1>6, <1>7

LEMMA VerdictStep ==
    ASSUME Typed, ExperimentInv, Verify \/ Conclude PROVE ExperimentInv'
<1>0. Held /\ StatusHeld /\ "live" \in Workers /\ pc \in [Workers -> Steps]
  BY DEF ExperimentInv, Typed, TypeOK, Workers
<1>1. CASE Verify
  <2>1. pc["live"] = "verify" /\ LiveTo("conclude") /\ rows' = rows \cup {"verification"}
        /\ status = "VERIFYING" /\ UNCHANGED status /\ verdict' # "NONE"
    BY <1>0, <1>1 DEF Verify, LiveTo, Goto, TailRows, Own, Elsewhere, StatusHeld
  <2>2. pc'["live"] = "conclude" /\ "conclude" \notin TailSteps
    BY <1>0, <2>1 DEF LiveTo, TailSteps
  <2>3. Held' /\ StatusHeld'
    BY <1>0, <2>1, <2>2 DEF Held, StatusHeld, AfterVerification, AfterEvidence,
          AfterPreservation, AfterPreserved, AfterCheckpoint, AfterRaw, AfterExecution
  <2>4. StatusAgrees'
    BY <2>1, <2>2 DEF StatusAgrees
  <2> QED BY <2>1, <2>2, <2>3, <2>4, ChainKept DEF ExperimentInv, LiveTo
<1>2. CASE Conclude
  <2>1. pc["live"] = "conclude" /\ LiveTo("readEvidence") /\ rows' = rows
        /\ status' = (IF verdict = "PASSED" THEN "VERIFIED" ELSE "FAILED") /\ verdict' = verdict
    BY <1>2 DEF Conclude, LiveTo, Goto, TailRows, Own, Elsewhere
  <2>2. pc'["live"] = "readEvidence" /\ "readEvidence" \in TailSteps
    BY <1>0, <2>1 DEF LiveTo, TailSteps
  <2>3. ChainComplete /\ "checkpoint" \in rows /\ "verification" \in rows
    BY <1>0, <2>1 DEF Held, ChainComplete, AfterVerification, AfterEvidence,
          AfterPreservation, AfterPreserved, AfterCheckpoint, AfterRaw, AfterExecution
  <2>4. Held'
    BY <2>1, <2>3 DEF Held, ChainComplete
  <2>5. StatusHeld'
    BY <2>2 DEF StatusHeld
  <2>6. StatusAgrees'
    BY <2>1 DEF StatusAgrees
  <2>7. ChainComplete'
    BY <2>1, <2>3 DEF ChainComplete
  <2> QED BY <2>1, <2>2, <2>3, <2>4, <2>5, <2>6, <2>7, ChainKept DEF ExperimentInv, LiveTo
<1> QED BY <1>1, <1>2
\* Where a request can be after a step of the tail.
Ends(w) == IF w = "live" THEN {"dead", "done"} ELSE {"idle"}

TailGoes(w) ==
    /\ pc[w] \in TailSteps
    /\ \E n \in TailSteps \cup Ends(w) : pc' = [pc EXCEPT ![w] = n]
    /\ rows \subseteq rows' /\ rows' \subseteq rows \cup {"sample"}
    /\ UNCHANGED <<status, verdict, plan, aborts, overlapped>>

LEMMA TailKeepsRows == ASSUME NEW w \in Workers, Tail(w) PROVE TailGoes(w)
<1>1. Throw(w) => \E n \in Ends(w) : pc' = [pc EXCEPT ![w] = n]
  BY DEF Throw, Ends
<1>2. \A more, step, next : step \in TailSteps /\ next \in TailSteps /\ Advance(w, more, step, next)
        => \E n \in TailSteps : pc' = [pc EXCEPT ![w] = n]
  BY DEF Advance
<1>3. \A n \in TailSteps : Goto(w, n) => \E m \in TailSteps : pc' = [pc EXCEPT ![w] = m]
  BY DEF Goto
<1>4. /\ {"evidence", "derive", "ladder", "create", "record", "rung", "findOutcome",
          "createOutcome", "sample", "view", "readEvidence"} = TailSteps
  BY DEF TailSteps
<1>5. CASE ReadEvidence(w)
  BY <1>3, <1>4, <1>5 DEF ReadEvidence, TailGoes, store, Elsewhere
<1>6. CASE WriteEvidence(w)
  BY <1>1, <1>2, <1>4, <1>6 DEF WriteEvidence, TailGoes, Elsewhere
<1>7. CASE Derive(w)
  BY <1>2, <1>3, <1>4, <1>7 DEF Derive, TailGoes, store, Elsewhere
<1>8. CASE CreateDerived(w)
  BY <1>2, <1>3, <1>4, <1>8 DEF CreateDerived, TailGoes, Elsewhere
<1>9. CASE RecordDerived(w)
  BY <1>1, <1>2, <1>4, <1>9 DEF RecordDerived, CreateStrategyRun, TailGoes, Elsewhere
<1>10. CASE FindRung(w)
  BY <1>2, <1>3, <1>4, <1>10 DEF FindRung, TailGoes, store, Elsewhere
<1>11. CASE CreateRung(w)
  BY <1>1, <1>2, <1>4, <1>11 DEF CreateRung, CreateStrategyRun, TailGoes, Elsewhere
<1>12. CASE FindOutcome(w)
  BY <1>1, <1>3, <1>4, <1>12 DEF FindOutcome, TailGoes, store, Elsewhere
<1>13. CASE CreateOutcome(w)
  BY <1>1, <1>3, <1>4, <1>13 DEF CreateOutcome, TailGoes, Elsewhere
<1>14. CASE MaybeCreateSample(w)
  BY <1>3, <1>4, <1>14 DEF MaybeCreateSample, TailGoes, Elsewhere
<1>15. CASE BuildView(w)
  BY <1>4, <1>15 DEF BuildView, TailGoes, store, Elsewhere, Ends
<1> QED BY <1>5, <1>6, <1>7, <1>8, <1>9, <1>10, <1>11, <1>12, <1>13, <1>14, <1>15 DEF Tail

\* A step that stores nothing the experiment depends on.
LEMMA RequestMoves ==
    ASSUME Typed, ExperimentInv, NEW w \in Workers, NEW n, pc' = [pc EXCEPT ![w] = n],
           rows \subseteq rows', rows' \subseteq rows \cup {"sample"},
           UNCHANGED <<status, verdict>>,
           \/ w = "live" /\ n = "dead"
           \/ w = "live" /\ pc[w] \in TailSteps /\ n \in TailSteps \cup {"done"}
           \/ w # "live" /\ n = "idle"
           \/ w # "live" /\ n \in {"experiment", "misread"} /\ "checkpoint" \in rows
           \/ w # "live" /\ n \in TailSteps /\ ChainComplete /\ "checkpoint" \in rows
    PROVE  ExperimentInv'
<1>1. /\ \A v \in Workers : pc'[v] = IF v = w THEN n ELSE pc[v]
      /\ "live" \in Workers /\ Workers = {"live"} \cup Recoverers /\ "live" \notin Recoverers
  BY WorkersAssumption DEF Typed, TypeOK, Workers
<1>2. ChainComplete => ChainComplete'
  BY DEF ChainComplete
<1>3. "verification" \in rows' => "verification" \in rows
  OBVIOUS
<1>4. {"dead", "done", "idle", "experiment", "misread", "conclude"} \cap TailSteps = {}
  BY DEF TailSteps
<1>5. pc["live"] \in TailSteps => ChainComplete /\ "checkpoint" \in rows
  BY <1>1 DEF ExperimentInv
<1>6. ChainComplete => /\ EvidencePair \subseteq rows
                       /\ {"executionRun", "preservationSuccess", "raw", "preserved",
                           "verification"} \subseteq rows
  BY DEF ChainComplete
<1>7. CASE w = "live"
  <2>1. pc'["live"] = n
    BY <1>1, <1>7
  <2>2. Held'
    <3>1. CASE n = "dead"
      BY <2>1, <3>1 DEF Held, TailSteps, AfterVerification, AfterEvidence, AfterPreservation,
            AfterPreserved, AfterCheckpoint, AfterRaw, AfterExecution
    <3>2. CASE pc["live"] \in TailSteps
      BY <1>5, <1>6, <3>2 DEF Held
    <3> QED BY <1>7, <3>1, <3>2
  <2>3. StatusHeld'
    BY <1>7, <2>1 DEF StatusHeld, TailSteps
  <2>4. StatusAgrees /\ pc["live"] \in TailSteps => status # "VERIFYING"
    BY <1>4 DEF StatusAgrees
  <2>5. "verification" \in rows' => /\ pc'["live"] \in {"conclude", "dead", "done"} \cup TailSteps
                                    /\ verdict' # "NONE" /\ StatusAgrees'
    BY <1>3, <1>4, <1>7, <2>1, <2>4 DEF ExperimentInv, StatusAgrees
  <2>6. \A v \in Recoverers :
          /\ pc'[v] \in {"idle", "experiment", "misread"} \cup TailSteps
          /\ pc'[v] # "idle" => "checkpoint" \in rows'
    BY <1>1, <1>7 DEF ExperimentInv
  <2>7. \A v \in Workers : pc'[v] \in TailSteps => ChainComplete' /\ "checkpoint" \in rows'
    BY <1>1, <1>2, <1>4, <1>5, <1>7 DEF ExperimentInv
  <2> QED BY <2>2, <2>3, <2>5, <2>6, <2>7 DEF ExperimentInv
<1>8. CASE w # "live"
  <2>1. pc'["live"] = pc["live"] /\ w \in Recoverers
    BY <1>1, <1>8
  <2>2. Held' /\ StatusHeld' /\ (StatusAgrees => StatusAgrees')
    BY <2>1 DEF Held, StatusHeld, StatusAgrees, ExperimentInv
  <2>3. \A v \in Recoverers :
          /\ pc'[v] \in {"idle", "experiment", "misread"} \cup TailSteps
          /\ pc'[v] # "idle" => "checkpoint" \in rows'
    BY <1>1, <1>8 DEF ExperimentInv
  <2>4. \A v \in Workers : pc'[v] \in TailSteps => ChainComplete' /\ "checkpoint" \in rows'
    BY <1>1, <1>2, <1>4, <1>8 DEF ExperimentInv
  <2> QED BY <1>3, <2>1, <2>2, <2>3, <2>4 DEF ExperimentInv
<1> QED BY <1>7, <1>8

LEMMA ExperimentStep == Typed /\ ExperimentInv /\ [Next]_vars => ExperimentInv'
<1> SUFFICES ASSUME Typed, ExperimentInv, [Next]_vars PROVE ExperimentInv'
  OBVIOUS
<1>1. CASE UNCHANGED vars
  BY <1>1 DEF vars, store, local, ExperimentInv, Held, StatusHeld, StatusAgrees, ChainComplete
<1>2. CASE LiveExperiment
  BY <1>2, PersistStep, CallStep, VerdictStep DEF LiveExperiment
<1>3. ASSUME NEW w \in Workers, Tail(w) PROVE ExperimentInv'
  <2>1. TailGoes(w)
    BY <1>3, TailKeepsRows
  <2>2. PICK n \in TailSteps \cup Ends(w) : pc' = [pc EXCEPT ![w] = n]
    BY <2>1 DEF TailGoes
  <2>3. ChainComplete /\ "checkpoint" \in rows
    BY <2>1 DEF TailGoes, ExperimentInv
  <2> QED BY <2>1, <2>2, <2>3, RequestMoves DEF TailGoes, Ends
<1>4. CASE InjectFault
  <2>1. "live" \in Workers /\ pc' = [pc EXCEPT !["live"] = "dead"] /\ UNCHANGED <<rows, status, verdict>>
    BY <1>4 DEF InjectFault, Throw, Workers, store
  <2> QED BY <2>1, RequestMoves
<1>5. ASSUME NEW w \in Workers, Abort(w) PROVE ExperimentInv'
  <2>1. /\ pc' = [pc EXCEPT ![w] = IF w = "live" THEN "dead" ELSE "idle"]
        /\ UNCHANGED <<rows, status, verdict>>
    BY <1>5 DEF Abort, Throw, store
  <2> QED BY <2>1, RequestMoves
<1>6. ASSUME NEW w \in Recoverers, Redrive(w) \/ ReadExperiment(w) \/ Return(w)
      PROVE  ExperimentInv'
  <2>1. w \in Workers /\ w # "live"
    BY WorkersAssumption DEF Workers
  <2>2. UNCHANGED <<rows, status, verdict>>
    BY <1>6 DEF Redrive, ReadExperiment, Return, store
  <2>3. "checkpoint" \in rows
    BY <1>6 DEF Redrive, ReadExperiment, Return, ExperimentInv
  <2>4. PICK n : /\ pc' = [pc EXCEPT ![w] = n]
                 /\ \/ n \in {"idle", "experiment", "misread"}
                    \/ n = "readEvidence" /\ ChainComplete
    BY <1>6 DEF Redrive, ReadExperiment, Return, Goto
  <2>5. "readEvidence" \in TailSteps
    BY DEF TailSteps
  <2> QED BY <2>1, <2>2, <2>3, <2>4, <2>5, RequestMoves
<1>7. "live" \in Workers /\ Recoverers \subseteq Workers
  BY DEF Workers
<1> QED BY <1>1, <1>2, <1>3, <1>4, <1>5, <1>6, <1>7 DEF Next, RedriveStep

LEMMA ExperimentInit == Init => ExperimentInv
<1> SUFFICES ASSUME Init PROVE ExperimentInv
  OBVIOUS
<1>1. pc["live"] = "policy" /\ \A w \in Recoverers : pc[w] = "idle" /\ rows = {} /\ status = "NONE"
  BY WorkersAssumption DEF Init, Workers
<1>2. rows = {} /\ status = "NONE" /\ {"policy", "idle"} \cap TailSteps = {}
  BY DEF Init, TailSteps
<1>3. Held /\ StatusHeld
  BY <1>1, <1>2 DEF Held, StatusHeld, AfterVerification, AfterEvidence,
        AfterPreservation, AfterPreserved, AfterCheckpoint, AfterRaw, AfterExecution
<1> QED BY <1>1, <1>2, <1>3 DEF ExperimentInv, Workers
-----------------------------------------------------------------------------
(* The tail keeps what it has stored.                                        *)

LEMMA LiveGrows ==
    ASSUME Typed, ExperimentInv, LiveExperiment
    PROVE  rows \subseteq rows' /\ (verdict' = verdict \/ outcome = NoOutcome \/ ~ChainComplete)
<1>1. CASE Verify
  <2>1. "verification" \notin rows
    BY <1>1, UnverifiedApart DEF Verify, ExperimentInv, TailSteps
  <2> QED BY <1>1, <2>1 DEF Verify, ChainComplete
<1>2. CASE \/ PersistSource \/ PersistIntent \/ PersistRun \/ PersistRaw \/ PersistPreservation
           \/ OpenTransaction \/ UpdateStatus \/ BindSpec \/ Reserve \/ Consume \/ Execute
           \/ StoreRaw \/ Preserve \/ StorePreserved \/ StoreEvidence \/ Conclude
  BY <1>2 DEF PersistSource, PersistIntent, PersistRun, PersistRaw, PersistPreservation,
       Persist, OpenTransaction, UpdateStatus, BindSpec, Reserve, Consume, Admit, Execute,
       StoreRaw, PutBlob, Preserve, StorePreserved, StoreEvidence, Conclude, store
<1> QED BY <1>1, <1>2 DEF LiveExperiment

TailGrows ==
    /\ criteria \subseteq criteria' /\ criteria' \subseteq AllCriteria
    /\ \A s \in Strategies : ladder[s] # NoRun => ladder'[s] = ladder[s]
    /\ outcome # NoOutcome => outcome' = outcome
    /\ rows \subseteq rows' /\ plan' = plan
    /\ verdict' = verdict \/ outcome = NoOutcome

OnlyAt(w) ==
    \A v \in Workers \ {w} :
        /\ pc'[v] = pc[v] /\ cursor'[v] = cursor[v]
        /\ seen'[v] = seen[v] /\ view'[v] = view[v]

LEMMA TailKept ==
    ASSUME TailInv, TailGrows, NEW w \in Workers, OnlyAt(w), ProgressOK(w)',
           \A s \in Strategies : ladder'[s] = ladder[s] \/ RungOK(s)',
           outcome' = outcome \/ OutcomeOK'
    PROVE  TailInv'
<1>1. ASSUME NEW v \in Workers PROVE ProgressOK(v)'
  <2>1. CASE v = w
    BY <2>1
  <2>2. CASE v # w
    <3>1. /\ pc'[v] = pc[v] /\ cursor'[v] = cursor[v] /\ seen'[v] = seen[v]
          /\ view'[v] = view[v] /\ ProgressOK(v)
      BY <2>2 DEF OnlyAt, TailInv
    <3>2. pc'[v] = "evidence" => /\ seen'[v] \subseteq criteria'
                                /\ \A i \in 1..3 : i < cursor'[v] => Criteria[i] \in criteria'
      BY <3>1 DEF ProgressOK, TailGrows
    <3>3. pc'[v] \in Deriving \cup Climbing \cup AfterLadder => criteria' = AllCriteria
      BY <3>1 DEF ProgressOK, TailGrows
    <3>4. pc'[v] \in Climbing => \A i \in 1..4 : i < cursor'[v] => ladder'[Ladder[i]] # NoRun
      BY <3>1, Sequences DEF ProgressOK, TailGrows
    <3>5. pc'[v] \in AfterLadder => \A s \in Strategies : ladder'[s] # NoRun
      BY <3>1 DEF ProgressOK, TailGrows
    <3> QED BY <3>1, <3>2, <3>3, <3>4, <3>5 DEF ProgressOK
  <2> QED BY <2>1, <2>2
<1>2. ASSUME NEW s \in Strategies PROVE RungOK(s)'
  BY DEF TailInv, TailGrows, RungOK, Natural
<1>3. OutcomeOK'
  <2>1. CASE outcome' = outcome /\ outcome # NoOutcome
    BY <2>1 DEF TailInv, TailGrows, OutcomeOK, ChainComplete, Natural
  <2>2. CASE outcome' = NoOutcome
    BY <2>2 DEF OutcomeOK
  <2> QED BY <2>1, <2>2
<1> QED BY <1>1, <1>2, <1>3 DEF TailInv

\* A step to a place outside the loops that stores nothing in the tail's rows.
Outside == {"evidence"} \cup Deriving \cup Climbing \cup AfterLadder

LEMMA MoveOutside ==
    ASSUME Typed, TailInv, NEW w \in Workers, NEW n, n \notin Outside,
           pc' = [pc EXCEPT ![w] = n], UNCHANGED <<artifacts, criteria, ladder, outcome, plan>>,
           rows \subseteq rows', verdict' = verdict \/ outcome = NoOutcome,
           \/ UNCHANGED <<cursor, seen, view>>
           \/ /\ cursor' = [cursor EXCEPT ![w] = 1]
              /\ seen' = [seen EXCEPT ![w] = {}]
              /\ view' = [view EXCEPT ![w] = Fresh]
    PROVE  TailInv'
<1>1. TailGrows
  BY DEF TailGrows, Typed, TypeOK
<1>2. OnlyAt(w)
  BY DEF OnlyAt, Typed, TypeOK
<1>3. \A s \in DerivedStrategies : view'[w][s].strategy = s
  BY DEF TailInv, ProgressOK, Fresh, Original, Typed, TypeOK
<1>4. pc'[w] = n
  BY DEF Typed, TypeOK
<1>5. ProgressOK(w)'
  BY <1>3, <1>4 DEF ProgressOK, Outside
<1> QED BY <1>1, <1>2, <1>5, TailKept

\* What one request of the tail keeps of the others.
LEMMA TailOthers ==
    ASSUME Typed, NEW w \in Workers, Tail(w) PROVE OnlyAt(w)
<1> USE DEF OnlyAt, Typed, TypeOK
<1>1. Throw(w) => OnlyAt(w)
  BY DEF Throw
<1>2. \A more, step, next : Advance(w, more, step, next)
        => \A v \in Workers \ {w} : pc'[v] = pc[v] /\ cursor'[v] = cursor[v]
  BY DEF Advance
<1>3. \A n : Goto(w, n) => \A v \in Workers \ {w} : pc'[v] = pc[v]
  BY DEF Goto
<1>5. CASE ReadEvidence(w)
  BY <1>3, <1>5 DEF ReadEvidence
<1>6. CASE WriteEvidence(w)
  BY <1>1, <1>2, <1>6 DEF WriteEvidence
<1>7. CASE Derive(w)
  BY <1>2, <1>3, <1>7 DEF Derive
<1>8. CASE CreateDerived(w)
  BY <1>2, <1>3, <1>8 DEF CreateDerived
<1>9. CASE RecordDerived(w)
  BY <1>1, <1>2, <1>9 DEF RecordDerived, CreateStrategyRun
<1>10. CASE FindRung(w)
  BY <1>2, <1>3, <1>10 DEF FindRung
<1>11. CASE CreateRung(w)
  BY <1>1, <1>2, <1>11 DEF CreateRung, CreateStrategyRun
<1>12. CASE FindOutcome(w)
  BY <1>1, <1>3, <1>12 DEF FindOutcome, Own
<1>13. CASE CreateOutcome(w)
  BY <1>1, <1>3, <1>13 DEF CreateOutcome, Own
<1>14. CASE MaybeCreateSample(w)
  BY <1>3, <1>14 DEF MaybeCreateSample, Own
<1>15. CASE BuildView(w)
  BY <1>15 DEF BuildView
<1> QED BY <1>5, <1>6, <1>7, <1>8, <1>9, <1>10, <1>11, <1>12, <1>13, <1>14, <1>15 DEF Tail
\* A rung is stored as its strategy, and with the role of the request.
LEMMA ViewedAs ==
    ASSUME Typed, TailInv, NEW w \in Workers, NEW s \in Strategies
    PROVE  /\ Viewed(w, s).strategy = s
           /\ s \notin DerivedStrategies => Viewed(w, s) = Original(s)
           /\ Natural => Target(w) = Recommended[plan.topology]
BY DEF TailInv, ProgressOK, Viewed, Original, Natural, Target

LEMMA TargetType == ASSUME Typed, NEW w \in Workers PROVE Target(w) \in Strategies
BY PlansAssumption DEF Target, Typed, TypeOK, AllPlans, Recommended, Strategies

\* Inserting a strategy run keeps the others and advances its loop.
LEMMA RunInserted ==
    ASSUME Typed, Typed', TailInv, NEW w \in Workers, NEW s \in Strategies, NEW count \in {2, 4},
           NEW step, NEW next, CreateStrategyRun(w, s, count, step, next), OnlyAt(w)
    PROVE  /\ TailGrows /\ \A u \in Strategies : ladder'[u] = ladder[u] \/ RungOK(u)'
           /\ UNCHANGED <<criteria, outcome, plan>>
           /\ \/ Throw(w) /\ ladder' = ladder
              \/ /\ Advance(w, cursor[w] < count, step, next)
                 /\ UNCHANGED <<seen, view>> /\ ladder[s] = NoRun
                 /\ ladder' = [ladder EXCEPT ![s] = [candidate |-> Viewed(w, s),
                                                     role |-> Role(w, s)]]
<1>1. UNCHANGED <<rows, status, verdict, artifacts, criteria, outcome, plan, aborts, overlapped>>
  BY DEF CreateStrategyRun, Elsewhere
<1>2. \/ Throw(w) /\ ladder' = ladder
      \/ /\ Advance(w, cursor[w] < count, step, next)
         /\ UNCHANGED <<seen, view>> /\ ladder[s] = NoRun
         /\ ladder' = [ladder EXCEPT ![s] = [candidate |-> Viewed(w, s), role |-> Role(w, s)]]
  BY DEF CreateStrategyRun
<1>3. TailGrows
  BY <1>1, <1>2 DEF TailGrows, Typed, TypeOK
<1>4. ASSUME NEW u \in Strategies, ladder'[u] # ladder[u] PROVE RungOK(u)'
  <2>1. u = s /\ ladder'[u] = [candidate |-> Viewed(w, s), role |-> Role(w, s)]
    BY <1>2, <1>4 DEF Typed, TypeOK
  <2>2. plan' = plan
    BY <1>1
  <2> QED BY <2>1, <2>2, ViewedAs DEF RungOK, Role, Natural, Original
<1> QED BY <1>1, <1>2, <1>3, <1>4

LEMMA ThrowProgress ==
    ASSUME Typed, NEW w \in Workers, Throw(w) PROVE ProgressOK(w)'
<1>1. pc'[w] \notin Outside
  BY DEF Throw, Typed, TypeOK, Outside, Deriving, Climbing, AfterLadder
<1>2. view'[w] = Fresh
  BY DEF Throw, Typed, TypeOK
<1> QED BY <1>1, <1>2 DEF ProgressOK, Outside, Fresh, Original

LEMMA TailStep ==
    ASSUME Typed, Typed', ExperimentInv, TailInv, NEW w \in Workers, Tail(w) PROVE TailInv'
<1>0. OnlyAt(w) /\ TailGoes(w) /\ ProgressOK(w)
  BY TailOthers, TailKeepsRows DEF TailInv
<1>1. ASSUME UNCHANGED <<criteria, ladder, outcome>>, ProgressOK(w)' PROVE TailInv'
  <2>1. TailGrows
    BY <1>0, <1>1 DEF TailGrows, TailGoes, Typed, TypeOK
  <2> QED BY <1>0, <1>1, <2>1, TailKept
<1>2. ASSUME UNCHANGED <<criteria, ladder, outcome>>, Throw(w) PROVE TailInv'
  BY <1>1, <1>2, ThrowProgress
<1>3. CASE ReadEvidence(w)
  <2>1. pc'[w] = "evidence" /\ seen'[w] = criteria /\ cursor'[w] = 1 /\ view'[w] = view[w]
        /\ UNCHANGED <<criteria, ladder, outcome>>
    BY <1>3 DEF ReadEvidence, Goto, store, Typed, TypeOK, CursorOK, Looping, Deriving, Climbing
  <2>2. "evidence" \notin Deriving \cup Climbing \cup AfterLadder
    BY DEF Deriving, Climbing, AfterLadder
  <2>3. ProgressOK(w)'
    BY <1>0, <2>1, <2>2 DEF ProgressOK
  <2> QED BY <1>1, <2>1, <2>3
<1>4. CASE WriteEvidence(w)
  <2> PICK c : c = Criteria[cursor[w]]
    OBVIOUS
  <2>1. cursor[w] \in 1..3 /\ c \in AllCriteria /\ pc[w] = "evidence" /\ seen[w] \subseteq criteria
    BY <1>0, <1>4, Sequences DEF WriteEvidence, Typed, CursorOK, ProgressOK
  <2>2. \/ Throw(w) /\ UNCHANGED criteria
        \/ /\ criteria' = criteria \cup {c} /\ UNCHANGED <<seen, view>>
           /\ Advance(w, cursor[w] < 3, "evidence", "derive")
    BY <1>4 DEF WriteEvidence
  <2>3. UNCHANGED <<ladder, outcome>>
    BY <1>4 DEF WriteEvidence
  <2>4. CASE Throw(w) /\ UNCHANGED criteria
    BY <1>2, <2>3, <2>4
  <2>5. CASE /\ criteria' = criteria \cup {c} /\ UNCHANGED <<seen, view>>
             /\ Advance(w, cursor[w] < 3, "evidence", "derive")
    <3>1. TailGrows
      BY <1>0, <2>1, <2>3, <2>5 DEF TailGrows, TailGoes, Typed, TypeOK
    <3>2. \A i \in 1..3 : i < cursor[w] \/ i = cursor[w] => Criteria[i] \in criteria'
      BY <1>0, <2>1, <2>5 DEF ProgressOK
    <3>3. CASE cursor[w] < 3
      <4>1. pc'[w] = "evidence" /\ cursor'[w] = cursor[w] + 1 /\ seen'[w] = seen[w] /\ view'[w] = view[w]
        BY <2>5, <3>3 DEF Advance, Typed, TypeOK
      <4>2. \A i \in 1..3 : i < cursor'[w] => Criteria[i] \in criteria'
        BY <2>1, <3>2, <4>1
      <4>3. "evidence" \notin Deriving \cup Climbing \cup AfterLadder
        BY DEF Deriving, Climbing, AfterLadder
      <4>4. ProgressOK(w)'
        BY <1>0, <2>1, <2>5, <4>1, <4>2, <4>3 DEF ProgressOK
      <4> QED BY <1>0, <2>3, <3>1, <4>4, TailKept
    <3>4. CASE ~(cursor[w] < 3)
      <4>1. pc'[w] = "derive" /\ view'[w] = view[w]
        BY <2>5, <3>4 DEF Advance, Typed, TypeOK
      <4>2. \A i \in 1..3 : Criteria[i] \in criteria'
        BY <2>1, <3>2, <3>4
      <4>3. criteria' = AllCriteria
        BY <3>1, <4>2 DEF AllCriteria, TailGrows
      <4>4. "derive" \notin Climbing \cup AfterLadder
        BY DEF Climbing, AfterLadder
      <4>5. ProgressOK(w)'
        BY <1>0, <4>1, <4>3, <4>4 DEF ProgressOK
      <4> QED BY <1>0, <2>3, <3>1, <4>5, TailKept
    <3> QED BY <3>3, <3>4
  <2> QED BY <2>2, <2>4, <2>5
<1>5. ASSUME UNCHANGED <<criteria, ladder, outcome>>, criteria = AllCriteria,
             \A s \in DerivedStrategies : view'[w][s].strategy = s,
             \/ pc'[w] \in Deriving
             \/ pc'[w] = "ladder" /\ cursor'[w] = 1
      PROVE  TailInv'
  <2>1. \A i \in 1..4 : ~(i < 1)
    OBVIOUS
  <2>2. ProgressOK(w)'
    BY <1>5, <2>1 DEF ProgressOK, Deriving, Climbing, AfterLadder
  <2> QED BY <1>1, <1>5, <2>2
<1>6. CASE Derive(w) \/ CreateDerived(w)
  <2> PICK s : s = Derived[cursor[w]]
    OBVIOUS
  <2>1. cursor[w] \in 1..2 /\ s \in DerivedStrategies /\ s \in Strategies /\ pc[w] \in Deriving
    BY <1>6, Sequences DEF Derive, CreateDerived, Typed, CursorOK, Deriving
  <2>2. UNCHANGED <<criteria, ladder, outcome>> /\ criteria = AllCriteria
    BY <1>0, <1>6, <2>1 DEF Derive, CreateDerived, store, ProgressOK
  <2>3. \A u \in DerivedStrategies : view'[w][u].strategy = u
    <3>1. \A u \in DerivedStrategies : view[w][u].strategy = u
      BY <1>0 DEF ProgressOK
    <3>2. ladder[s] # NoRun => ladder[s].candidate.strategy = s
      BY <2>1 DEF TailInv, RungOK
    <3>3. view' = view \/ \E c : view' = [view EXCEPT ![w][s] = c] /\ c.strategy = s
      BY <1>6, <3>2 DEF Derive, CreateDerived
    <3>4. view[w] = [u \in DerivedStrategies |-> view[w][u]] /\ w \in DOMAIN view
      BY DEF Typed, TypeOK
    <3>5. ASSUME NEW c, view' = [view EXCEPT ![w][s] = c], c.strategy = s,
                 NEW u \in DerivedStrategies
          PROVE  view'[w][u].strategy = u
      <4>1. view'[w][u] = IF u = s THEN c ELSE view[w][u]
        BY <3>4, <3>5
      <4> QED BY <3>1, <3>5, <4>1
    <3> QED BY <3>1, <3>3, <3>5
  <2>4. pc'[w] \in Deriving \/ (pc'[w] = "ladder" /\ cursor'[w] = 1)
    BY <1>6 DEF Derive, CreateDerived, Advance, Goto, Deriving, Typed, TypeOK
  <2> QED BY <1>5, <2>2, <2>3, <2>4
<1>7. CASE RecordDerived(w)
  <2> PICK s : s = Derived[cursor[w]]
    OBVIOUS
  <2>1. s \in Strategies /\ pc[w] \in Deriving /\ CreateStrategyRun(w, s, 2, "derive", "ladder")
    BY <1>7, Sequences DEF RecordDerived, Typed, CursorOK, Deriving
  <2>2. /\ TailGrows /\ \A u \in Strategies : ladder'[u] = ladder[u] \/ RungOK(u)'
        /\ UNCHANGED <<criteria, outcome, plan>>
        /\ \/ Throw(w)
           \/ Advance(w, cursor[w] < 2, "derive", "ladder") /\ UNCHANGED <<seen, view>>
    BY <1>0, <2>1, RunInserted
  <2>3. ProgressOK(w)'
    <3>1. CASE Throw(w)
      BY <3>1, ThrowProgress
    <3>2. CASE Advance(w, cursor[w] < 2, "derive", "ladder") /\ UNCHANGED <<seen, view>>
      <4>1. pc'[w] = "derive" \/ (pc'[w] = "ladder" /\ cursor'[w] = 1)
        BY <3>2 DEF Advance, Typed, TypeOK
      <4>2. \A i \in 1..4 : ~(i < 1)
        OBVIOUS
      <4>3. criteria' = AllCriteria /\ \A u \in DerivedStrategies : view'[w][u].strategy = u
        BY <1>0, <2>1, <2>2, <3>2 DEF ProgressOK
      <4> QED BY <4>1, <4>2, <4>3 DEF ProgressOK, Deriving, Climbing, AfterLadder
    <3> QED BY <2>2, <3>1, <3>2
  <2> QED BY <1>0, <2>2, <2>3, TailKept
<1>8. ASSUME TailGrows, \A u \in Strategies : ladder'[u] = ladder[u] \/ RungOK(u)',
             UNCHANGED <<criteria, outcome, plan, seen, view>>, pc[w] \in Climbing,
             ladder'[Ladder[cursor[w]]] # NoRun,
             Advance(w, cursor[w] < 4, "ladder", "findOutcome")
      PROVE  TailInv'
  <2>1. cursor[w] \in 1..4 /\ criteria = AllCriteria
    BY <1>0, <1>8 DEF Typed, CursorOK, ProgressOK
  <2>2. \A i \in 1..4 : i < cursor[w] \/ i = cursor[w] => ladder'[Ladder[i]] # NoRun
    BY <1>0, <1>8, <2>1, Sequences DEF ProgressOK, TailGrows
  <2>3. CASE cursor[w] < 4
    <3>1. pc'[w] = "ladder" /\ cursor'[w] = cursor[w] + 1 /\ view'[w] = view[w]
      BY <1>8, <2>3 DEF Advance, Typed, TypeOK
    <3>2. \A i \in 1..4 : i < cursor'[w] => ladder'[Ladder[i]] # NoRun
      BY <2>1, <2>2, <3>1
    <3>3. ProgressOK(w)'
      BY <1>0, <1>8, <2>1, <3>1, <3>2 DEF ProgressOK, Deriving, Climbing, AfterLadder
    <3> QED BY <1>0, <1>8, <3>3, TailKept
  <2>4. CASE ~(cursor[w] < 4)
    <3>1. pc'[w] = "findOutcome" /\ view'[w] = view[w]
      BY <1>8, <2>4 DEF Advance, Typed, TypeOK
    <3>2. \A i \in 1..4 : ladder'[Ladder[i]] # NoRun
      BY <2>1, <2>2, <2>4
    <3>3. \A s \in Strategies : ladder'[s] # NoRun
      BY <3>2, Sequences
    <3>4. ProgressOK(w)'
      BY <1>0, <1>8, <2>1, <3>1, <3>3 DEF ProgressOK, Deriving, Climbing, AfterLadder
    <3> QED BY <1>0, <1>8, <3>4, TailKept
  <2> QED BY <2>3, <2>4
<1>9. CASE FindRung(w)
  <2>1. UNCHANGED <<criteria, ladder, outcome, plan, seen, view>> /\ pc[w] = "ladder"
    BY <1>9 DEF FindRung, store, Elsewhere
  <2>2. TailGrows
    BY <1>0, <2>1 DEF TailGrows, TailGoes, Typed, TypeOK
  <2>3. CASE ladder[Ladder[cursor[w]]] # NoRun /\ Advance(w, cursor[w] < 4, "ladder", "findOutcome")
    BY <1>8, <2>1, <2>2, <2>3 DEF Climbing
  <2>4. CASE Goto(w, "rung") /\ UNCHANGED cursor
    <3>1. pc'[w] = "rung" /\ pc[w] \in Climbing /\ cursor'[w] = cursor[w] /\ view'[w] = view[w]
      BY <2>1, <2>4 DEF Goto, Climbing, Typed, TypeOK
    <3>2. "rung" \in Climbing /\ "rung" # "evidence" /\ "rung" \notin AfterLadder
      BY DEF Climbing, AfterLadder
    <3>3. ProgressOK(w)'
      BY <1>0, <2>1, <3>1, <3>2 DEF ProgressOK
    <3> QED BY <1>1, <2>1, <3>3
  <2> QED BY <1>9, <2>3, <2>4 DEF FindRung
<1>10. CASE CreateRung(w)
  <2> PICK s : s = Ladder[cursor[w]]
    OBVIOUS
  <2>1. s \in Strategies /\ pc[w] \in Climbing /\ CreateStrategyRun(w, s, 4, "ladder", "findOutcome")
    BY <1>10, Sequences DEF CreateRung, Typed, CursorOK, Climbing
  <2>2. /\ TailGrows /\ \A u \in Strategies : ladder'[u] = ladder[u] \/ RungOK(u)'
        /\ UNCHANGED <<criteria, outcome, plan>>
        /\ \/ Throw(w) /\ ladder' = ladder
           \/ /\ Advance(w, cursor[w] < 4, "ladder", "findOutcome")
              /\ UNCHANGED <<seen, view>> /\ ladder[s] = NoRun
              /\ ladder' = [ladder EXCEPT ![s] = [candidate |-> Viewed(w, s), role |-> Role(w, s)]]
    BY <1>0, <2>1, RunInserted
  <2>3. CASE Throw(w) /\ ladder' = ladder
    BY <1>2, <2>2, <2>3
  <2>4. CASE /\ Advance(w, cursor[w] < 4, "ladder", "findOutcome") /\ UNCHANGED <<seen, view>>
             /\ ladder' = [ladder EXCEPT ![s] = [candidate |-> Viewed(w, s), role |-> Role(w, s)]]
    <3>1. [candidate |-> Viewed(w, s), role |-> Role(w, s)] \in StrategyRuns
      BY <2>1, ViewedType DEF StrategyRuns, Role
    <3>2. ladder'[s] # NoRun
      BY <2>1, <2>4, <3>1, NullsAssumption DEF Typed, TypeOK
    <3> QED BY <1>8, <2>1, <2>2, <2>4, <3>2
  <2> QED BY <2>2, <2>3, <2>4
<1>11. ASSUME criteria' = criteria, ladder' = ladder, pc[w] \in AfterLadder,
              pc'[w] \in AfterLadder, view'[w] = view[w]
       PROVE  ProgressOK(w)'
  BY <1>0, <1>11 DEF ProgressOK, AfterLadder, Deriving, Climbing
<1>12. CASE FindOutcome(w)
  <2>1. UNCHANGED <<criteria, ladder, outcome>> /\ pc[w] = "findOutcome"
    BY <1>12 DEF FindOutcome, store
  <2>2. CASE Throw(w)
    BY <1>2, <2>1, <2>2
  <2>3. CASE (Goto(w, "view") \/ Goto(w, "createOutcome")) /\ Own
    BY <1>1, <1>11, <2>1, <2>3 DEF Goto, Own, AfterLadder, Typed, TypeOK
  <2> QED BY <1>12, <2>2, <2>3 DEF FindOutcome
<1>13. CASE CreateOutcome(w)
  <2>1. UNCHANGED <<criteria, ladder, rows, verdict, plan>> /\ pc[w] = "createOutcome"
    BY <1>13 DEF CreateOutcome, Elsewhere
  <2>2. CASE Throw(w) /\ UNCHANGED outcome
    BY <1>2, <2>1, <2>2
  <2>3. CASE /\ outcome = NoOutcome /\ (Goto(w, "sample") \/ Goto(w, "view")) /\ Own
             /\ outcome' = [strategy |-> Target(w), delivered |-> Viewed(w, Target(w)),
                            machine |-> verdict]
    <3>1. ProgressOK(w)'
      BY <1>11, <2>1, <2>3 DEF Goto, Own, AfterLadder, Typed, TypeOK
    <3>2. TailGrows
      BY <2>1, <2>3 DEF TailGrows, Typed, TypeOK
    <3>3. /\ ChainComplete /\ "checkpoint" \in rows /\ criteria = AllCriteria
          /\ \A s \in Strategies : ladder[s] # NoRun
      BY <1>0, <2>1 DEF ExperimentInv, ProgressOK, AfterLadder, TailSteps
    <3>4. ChainComplete'
      BY <2>1, <3>3 DEF ChainComplete
    <3>5. OutcomeOK'
      BY <2>1, <2>3, <3>3, <3>4, TargetType, ViewedAs DEF OutcomeOK, Natural
    <3> QED BY <1>0, <2>1, <3>1, <3>2, <3>5, TailKept
  <2> QED BY <1>13, <2>2, <2>3 DEF CreateOutcome
<1>14. CASE MaybeCreateSample(w)
  <2>1. UNCHANGED <<criteria, ladder, outcome>> /\ pc[w] = "sample" /\ pc'[w] = "view"
        /\ view'[w] = view[w]
    BY <1>14 DEF MaybeCreateSample, TailRows, Goto, Own, Typed, TypeOK
  <2> QED BY <1>1, <1>11, <2>1 DEF AfterLadder
<1>15. CASE BuildView(w)
  <2>1. UNCHANGED <<criteria, ladder, outcome>> /\ view'[w] = Fresh /\ pc'[w] \in {"done", "idle"}
    BY <1>15 DEF BuildView, store, Typed, TypeOK
  <2>2. ProgressOK(w)'
    BY <2>1 DEF ProgressOK, Fresh, Original, Deriving, Climbing, AfterLadder
  <2> QED BY <1>1, <2>1, <2>2
<1> QED BY <1>3, <1>4, <1>6, <1>7, <1>9, <1>10, <1>12, <1>13, <1>14, <1>15 DEF Tail

LEMMA TailInvStep == Typed /\ Typed' /\ ExperimentInv /\ TailInv /\ [Next]_vars => TailInv'
<1> SUFFICES ASSUME Typed, Typed', ExperimentInv, TailInv, [Next]_vars PROVE TailInv'
  OBVIOUS
<1>0. "live" \in Workers /\ Recoverers \subseteq Workers
  BY DEF Workers
<1>1. {"dead", "idle", "experiment", "misread", "readEvidence"} \cap Outside = {}
      /\ Straight \cap Outside = {}
  BY DEF Outside, Straight, TailSteps, Deriving, Climbing, AfterLadder
<1>2. CASE UNCHANGED vars
  BY <1>2 DEF vars, store, local, TailInv, ProgressOK, RungOK, OutcomeOK, ChainComplete, Natural
<1>3. CASE LiveExperiment
  <2>1. LiveMoves /\ rows \subseteq rows'
        /\ (verdict' = verdict \/ outcome = NoOutcome \/ ~ChainComplete)
    BY <1>3, LiveExperimentMoves, LiveGrows
  <2>2. ~ChainComplete => outcome = NoOutcome
    BY DEF TailInv, OutcomeOK
  <2>3. PICK n \in Straight : pc' = [pc EXCEPT !["live"] = n]
    BY <2>1 DEF LiveMoves, Goto
  <2> QED BY <1>0, <1>1, <2>1, <2>2, <2>3, MoveOutside DEF LiveMoves
<1>4. ASSUME NEW w \in Workers, Tail(w) PROVE TailInv'
  BY <1>4, TailStep
<1>5. CASE InjectFault
  <2>1. /\ pc' = [pc EXCEPT !["live"] = "dead"]
        /\ cursor' = [cursor EXCEPT !["live"] = 1] /\ seen' = [seen EXCEPT !["live"] = {}]
        /\ view' = [view EXCEPT !["live"] = Fresh]
        /\ UNCHANGED <<rows, verdict, artifacts, criteria, ladder, outcome, plan>>
    BY <1>5 DEF InjectFault, Throw, store, Elsewhere
  <2> QED BY <1>0, <1>1, <2>1, MoveOutside
<1>6. ASSUME NEW w \in Recoverers, Redrive(w) \/ ReadExperiment(w) \/ Return(w) PROVE TailInv'
  <2>1. PICK n \in {"experiment", "idle", "misread", "readEvidence"} : pc' = [pc EXCEPT ![w] = n]
    BY <1>6 DEF Redrive, ReadExperiment, Return, Goto
  <2>2. UNCHANGED <<rows, verdict, artifacts, criteria, ladder, outcome, plan, cursor, seen, view>>
    BY <1>6 DEF Redrive, ReadExperiment, Return, store, Own, Elsewhere
  <2> QED BY <1>0, <1>1, <2>1, <2>2, MoveOutside
<1>7. ASSUME NEW w \in Workers, Abort(w) PROVE TailInv'
  <2>1. PICK n \in {"dead", "idle"} :
          /\ pc' = [pc EXCEPT ![w] = n]
          /\ cursor' = [cursor EXCEPT ![w] = 1] /\ seen' = [seen EXCEPT ![w] = {}]
          /\ view' = [view EXCEPT ![w] = Fresh]
    BY <1>7 DEF Abort, Throw
  <2>2. UNCHANGED <<rows, verdict, artifacts, criteria, ladder, outcome, plan>>
    BY <1>7 DEF Abort, store
  <2> QED BY <1>1, <2>1, <2>2, MoveOutside
<1> QED BY <1>0, <1>2, <1>3, <1>4, <1>5, <1>6, <1>7 DEF Next, RedriveStep

LEMMA TailInit == Init => TailInv
<1> SUFFICES ASSUME Init PROVE TailInv
  OBVIOUS
<1>1. \A w \in Workers : pc[w] \in {"policy", "idle"} /\ view[w] = Fresh
  BY DEF Init
<1>2. {"policy", "idle"} \cap Outside = {}
  BY DEF Outside, Deriving, Climbing, AfterLadder
<1>3. \A w \in Workers : ProgressOK(w)
  <2>1. \A s \in DerivedStrategies : Fresh[s].strategy = s
    BY DEF Fresh, Original
  <2> QED BY <1>1, <1>2, <2>1 DEF ProgressOK, Outside
<1>4. (\A s \in Strategies : RungOK(s)) /\ OutcomeOK
  BY DEF Init, RungOK, OutcomeOK
<1> QED BY <1>3, <1>4 DEF TailInv
-----------------------------------------------------------------------------
(* One writer at a time.                                                     *)

LEMMA LiveUnverified ==
    ASSUME LiveExperiment, ~Verify, ~Conclude
    PROVE  pc["live"] \in Unverified /\ ("verification" \in rows' => "verification" \in rows)
<1> USE DEF Unverified
<1>1. CASE PersistSource \/ PersistIntent
  <2>1. /\ DOMAIN SourceSteps =
             {"policy", "project", "asset", "sourceBlob", "version", "media", "head"}
        /\ DOMAIN IntentSteps =
             {"intent", "patch", "instructionIntent", "instructionPatch", "lease"}
    BY DEF SourceSteps, IntentSteps
  <2> QED BY <1>1, <2>1 DEF PersistSource, PersistIntent, Persist
<1>2. CASE PersistRun \/ PersistRaw \/ PersistPreservation
  <2>1. /\ DOMAIN AdmissionSteps = {"executionRun", "failureRun"}
        /\ DOMAIN RawSteps = {"raw", "checkpoint", "receipt", "snapshot", "cost"}
        /\ DOMAIN PreservationSteps =
             {"preservationRun", "preserved", "preservationSuccess", "imageEvidence",
              "preservationFailure"}
    BY DEF AdmissionSteps, RawSteps, PreservationSteps
  <2> QED BY <1>2, <2>1 DEF PersistRun, PersistRaw, PersistPreservation, Persist
<1>3. CASE UpdateStatus
  <2>1. DOMAIN StatusSteps = {"PREPARED", "READY", "EXECUTING", "VERIFYING", "FAILED"}
    BY DEF StatusSteps
  <2> QED BY <1>3, <2>1 DEF UpdateStatus
<1>4. CASE \/ OpenTransaction \/ BindSpec \/ Reserve \/ Consume \/ Execute
           \/ StoreRaw \/ Preserve \/ StorePreserved \/ StoreEvidence
  BY <1>4 DEF OpenTransaction, BindSpec, Reserve, Consume, Admit, Execute, StoreRaw, PutBlob,
       Preserve, StorePreserved, StoreEvidence, EvidencePair, store
<1> QED BY <1>1, <1>2, <1>3, <1>4 DEF LiveExperiment

\* A rung and an outcome, once stored, stay.
LEMMA TailStays ==
    ASSUME Typed, NEW w \in Workers, Tail(w)
    PROVE  /\ \A s \in Strategies : ladder[s] # NoRun => ladder'[s] = ladder[s]
           /\ outcome # NoOutcome => outcome' = outcome
<1>1. CASE RecordDerived(w) \/ CreateRung(w)
  BY <1>1 DEF RecordDerived, CreateRung, CreateStrategyRun, Typed, TypeOK
<1>2. CASE \/ ReadEvidence(w) \/ WriteEvidence(w) \/ Derive(w) \/ CreateDerived(w)
           \/ FindRung(w) \/ FindOutcome(w) \/ CreateOutcome(w) \/ MaybeCreateSample(w)
           \/ BuildView(w)
  BY <1>2 DEF ReadEvidence, WriteEvidence, Derive, CreateDerived, FindRung, FindOutcome,
       CreateOutcome, MaybeCreateSample, BuildView, store, TailRows
<1> QED BY <1>1, <1>2 DEF Tail

LEMMA WithinTail ==
    /\ TailSteps = {"readEvidence", "evidence", "findOutcome", "createOutcome", "sample", "view"}
                     \cup Deriving \cup Climbing
    /\ {"dead", "done", "idle", "experiment", "misread"} \cap (TailSteps \cup {"conclude"}) = {}
    /\ AfterLadder \subseteq TailSteps /\ "conclude" \notin TailSteps
BY DEF TailSteps, Deriving, Climbing, AfterLadder

LEMMA DerivedApart ==
    ASSUME NEW i \in 1..2, NEW j \in 1..2, Derived[i] = Derived[j] PROVE i = j
<1>1. Derived[1] = "P1_SOFT" /\ Derived[2] = "P2_MODERATE"
  BY DEF Derived
<1> QED BY <1>1

\* A request outside the tail may move anywhere outside it.
LEMMA AloneOutside ==
    ASSUME Typed, AloneInv, NEW w \in Workers, NEW n, pc' = [pc EXCEPT ![w] = n],
           n \notin TailSteps \cup {"conclude"}, UNCHANGED <<ladder, outcome, overlapped>>,
           \/ UNCHANGED <<cursor, view>>
           \/ /\ cursor' = [cursor EXCEPT ![w] = 1]
              /\ view' = [view EXCEPT ![w] = Fresh]
    PROVE  AloneInv'
<1> SUFFICES ASSUME ~overlapped'
             PROVE  AloneInv'
  BY DEF AloneInv
<1>1. ~overlapped /\ pc'[w] = n
  BY DEF Typed, TypeOK
<1>2. \A v \in Workers \ {w} : pc'[v] = pc[v] /\ cursor'[v] = cursor[v] /\ view'[v] = view[v]
  BY DEF Typed, TypeOK
<1>3. ~Within(w)' /\ n \notin Deriving \cup Climbing \cup AfterLadder /\ n \notin {"create", "record"}
  BY <1>1, WithinTail DEF Within, Deriving
<1>4. \A v, u \in Workers : v # u => ~(Within(v)' /\ Within(u)')
  BY <1>1, <1>2, <1>3 DEF AloneInv, Within
<1>5. ASSUME NEW v \in Workers
      PROVE  /\ pc'[v] \in {"create", "record"} =>
                  ladder'[Derived[cursor'[v]]] = NoRun /\ outcome' = NoOutcome
             /\ \A i \in 1..2 : ViewHeld(v, i)'
  <2>1. CASE v = w
    BY <1>1, <1>3, <2>1 DEF ViewHeld
  <2>2. CASE v # w
    BY <1>1, <1>2, <2>2 DEF AloneInv, ViewHeld
  <2> QED BY <2>1, <2>2
<1>6. outcome' # NoOutcome => /\ pc'["live"] # "conclude"
                              /\ ladder'[outcome'.strategy].candidate = outcome'.delivered
  <2>1. "live" \in Workers
    BY DEF Workers
  <2> QED BY <1>1, <1>2, <2>1 DEF AloneInv
<1> QED BY <1>4, <1>5, <1>6 DEF AloneInv

\* The live request enters the tail through its verdict, when nobody is within.
LEMMA AloneLive ==
    ASSUME Typed, ExperimentInv, ExperimentInv', TailInv, AloneInv, LiveExperiment
    PROVE  AloneInv'
<1> SUFFICES ASSUME ~overlapped' PROVE AloneInv'
  BY DEF AloneInv
<1>1. LiveMoves /\ "live" \in Workers /\ ~overlapped
  BY LiveExperimentMoves DEF LiveMoves, Workers
<1>2. PICK n \in Straight : pc' = [pc EXCEPT !["live"] = n]
  BY <1>1 DEF LiveMoves, Goto
<1>3. UNCHANGED <<ladder, outcome, overlapped, cursor, view>>
  BY <1>1 DEF LiveMoves
<1>4. CASE n \notin TailSteps \cup {"conclude"}
  BY <1>1, <1>2, <1>3, <1>4, AloneOutside
<1>5. CASE n \in TailSteps \cup {"conclude"}
  <2>1. /\ pc'["live"] = n
        /\ \A v \in Workers \ {"live"} : pc'[v] = pc[v]
    BY <1>1, <1>2 DEF Typed, TypeOK
  <2>2. "verification" \in rows'
    BY <1>5, <2>1 DEF ExperimentInv, Held, AfterVerification
  <2>3. Verify \/ Conclude
    <3> SUFFICES ASSUME ~Verify, ~Conclude PROVE FALSE
      OBVIOUS
    <3>1. pc["live"] \in Unverified /\ "verification" \in rows
      BY <2>2, LiveUnverified
    <3> QED BY <3>1, UnverifiedApart DEF ExperimentInv
  <2>4. \A v \in Workers \ {"live"} : pc[v] \notin TailSteps \cup {"conclude"}
    <3>1. CASE Verify
      <4>1. "verification" \notin rows
        BY <3>1, UnverifiedApart DEF Verify, ExperimentInv, Unverified
      <4>2. \A v \in Workers : pc[v] \notin TailSteps
        BY <4>1 DEF ExperimentInv, ChainComplete
      <4>3. \A v \in Workers \ {"live"} : pc[v] # "conclude"
        BY WithinTail DEF ExperimentInv, Workers
      <4> QED BY <4>2, <4>3
    <3>2. CASE Conclude
      <4>1. Within("live")
        BY <3>2 DEF Conclude, Within
      <4> QED BY <1>1, <4>1 DEF AloneInv, Within
    <3> QED BY <2>3, <3>1, <3>2
  <2>5. n = "conclude" => outcome = NoOutcome
    <3>1. CASE Verify
      <4>1. "verification" \notin rows
        BY <3>1, UnverifiedApart DEF Verify, ExperimentInv, Unverified
      <4> QED BY <4>1 DEF TailInv, OutcomeOK, ChainComplete
    <3>2. CASE Conclude
      <4>1. pc'["live"] = "readEvidence"
        BY <1>1, <3>2 DEF Conclude, Goto, Typed, TypeOK
      <4> QED BY <2>1, <4>1
    <3> QED BY <2>3, <3>1, <3>2
  <2>6. n \notin Deriving \cup Climbing \cup AfterLadder /\ n \notin {"create", "record"}
    BY WithinTail DEF Straight, Deriving, Climbing, AfterLadder, TailSteps
  <2>7. \A v, u \in Workers : v # u => ~(Within(v)' /\ Within(u)')
    BY <2>1, <2>4 DEF Within
  <2>8. ASSUME NEW v \in Workers
        PROVE  /\ pc'[v] \in {"create", "record"} =>
                    ladder'[Derived[cursor'[v]]] = NoRun /\ outcome' = NoOutcome
               /\ \A i \in 1..2 : ViewHeld(v, i)'
    <3>1. CASE v = "live"
      BY <2>1, <2>6, <3>1 DEF ViewHeld
    <3>2. CASE v # "live"
      BY <2>1, <2>4, <3>2, WithinTail DEF ViewHeld, Deriving
    <3> QED BY <3>1, <3>2
  <2>9. outcome' # NoOutcome => /\ pc'["live"] # "conclude"
                                /\ ladder'[outcome'.strategy].candidate = outcome'.delivered
    BY <1>1, <1>3, <2>1, <2>5 DEF AloneInv
  <2> QED BY <2>7, <2>8, <2>9 DEF AloneInv
<1> QED BY <1>4, <1>5
\* A request in the tail answers for its own views only: nobody else is within.
LEMMA AloneRequest ==
    ASSUME Typed, AloneInv, ~overlapped, NEW w \in Workers, Tail(w),
           pc'[w] \in {"create", "record"} =>
              ladder'[Derived[cursor'[w]]] = NoRun /\ outcome' = NoOutcome,
           \A i \in 1..2 : ViewHeld(w, i)',
           outcome' = outcome
              \/ ladder'[outcome'.strategy].candidate = outcome'.delivered,
           TailInv
    PROVE  AloneInv'
<1>1. OnlyAt(w) /\ TailGoes(w)
  BY TailOthers, TailKeepsRows
<1>2. Within(w) /\ \A v \in Workers \ {w} : ~Within(v) /\ ~Within(v)'
  BY <1>1 DEF TailGoes, Within, AloneInv, OnlyAt
<1>3. \A v, u \in Workers : v # u => ~(Within(v)' /\ Within(u)')
  BY <1>2
<1>4. \A v \in Workers \ {w} : /\ pc'[v] \notin {"create", "record"}
                               /\ \A i \in 1..2 : ViewHeld(v, i)'
  BY <1>2, WithinTail DEF Within, ViewHeld, Deriving
<1>5. "live" \in Workers /\ pc'["live"] # "conclude"
  <2>1. "live" \in Workers
    BY DEF Workers
  <2>2. CASE w = "live"
    BY <1>1, <2>1, <2>2, WithinTail DEF TailGoes, Typed, TypeOK, Ends
  <2>3. CASE w # "live"
    BY <1>2, <2>1, <2>3 DEF Within
  <2> QED BY <2>1, <2>2, <2>3
<1>6. outcome' # NoOutcome => ladder'[outcome'.strategy].candidate = outcome'.delivered
  <2>1. CASE outcome' = outcome /\ outcome # NoOutcome
    <3>1. outcome.strategy \in Strategies
      BY <2>1 DEF Typed, TypeOK, Outcomes
    <3>2. ladder'[outcome.strategy] = ladder[outcome.strategy]
      BY <2>1, <3>1, TailStays DEF TailInv, OutcomeOK
    <3> QED BY <2>1, <3>2 DEF AloneInv
  <2> QED BY <2>1
<1> QED BY <1>3, <1>4, <1>5, <1>6 DEF AloneInv

LEMMA AloneTail ==
    ASSUME Typed, Typed', ExperimentInv, TailInv, AloneInv, NEW w \in Workers, Tail(w)
    PROVE  AloneInv'
<1>0. OnlyAt(w) /\ TailGoes(w) /\ ProgressOK(w)
  BY TailOthers, TailKeepsRows DEF TailInv
<1> SUFFICES ASSUME ~overlapped' PROVE AloneInv'
  BY DEF AloneInv
<1>1. /\ ~overlapped
      /\ pc[w] \in {"create", "record"} => ladder[Derived[cursor[w]]] = NoRun /\ outcome = NoOutcome
      /\ \A i \in 1..2 : ViewHeld(w, i)
  BY <1>0 DEF TailGoes, AloneInv
\* Out of the loops over the candidates nothing is asked.
<1>2. ASSUME outcome' = outcome, pc'[w] \notin Deriving \cup Climbing \cup AfterLadder
      PROVE  AloneInv'
  <2>1. pc'[w] \notin {"create", "record"} /\ \A i \in 1..2 : ViewHeld(w, i)'
    BY <1>2 DEF ViewHeld, Deriving
  <2> QED BY <1>1, <1>2, <2>1, AloneRequest
<1>3. ASSUME Throw(w), outcome' = outcome PROVE AloneInv'
  BY <1>2, <1>3 DEF Throw, Typed, TypeOK, Deriving, Climbing, AfterLadder
<1>4. CASE ReadEvidence(w)
  BY <1>2, <1>4 DEF ReadEvidence, Goto, store, Typed, TypeOK, Deriving, Climbing, AfterLadder
<1>5. CASE WriteEvidence(w)
  <2>1. outcome' = outcome
    BY <1>5 DEF WriteEvidence
  <2>2. CASE Throw(w)
    BY <1>3, <2>1, <2>2
  <2>3. CASE Advance(w, cursor[w] < 3, "evidence", "derive")
    <3>1. \/ pc'[w] = "evidence"
          \/ pc'[w] = "derive" /\ cursor'[w] = 1
      BY <2>3 DEF Advance, Typed, TypeOK
    <3>2. \A i \in 1..2 : ~(i < 1)
      OBVIOUS
    <3>3. pc'[w] \notin {"create", "record"} /\ \A i \in 1..2 : ViewHeld(w, i)'
      BY <3>1, <3>2 DEF ViewHeld, Deriving, Climbing, AfterLadder
    <3> QED BY <1>1, <2>1, <3>3, AloneRequest
  <2> QED BY <1>5, <2>2, <2>3 DEF WriteEvidence
\* The loop over the derived strategies goes on with this one's view as its run.
<1>6. ASSUME NEW s, s = Derived[cursor[w]], cursor[w] \in 1..2, pc[w] \in Deriving,
             UNCHANGED outcome, Advance(w, cursor[w] < 2, "derive", "ladder"),
             \A u \in DerivedStrategies \ {s} : ladder'[u] = ladder[u] /\ view'[w][u] = view[w][u],
             ladder'[s] # NoRun => view'[w][s] = ladder'[s].candidate
      PROVE  AloneInv'
  <2>1. \/ cursor[w] = 1 /\ pc'[w] = "derive" /\ cursor'[w] = 2
        \/ cursor[w] = 2 /\ pc'[w] = "ladder"
    BY <1>6 DEF Advance, Typed, TypeOK
  <2>2. ASSUME NEW i \in 1..2 PROVE ViewHeld(w, i)'
    <3>1. CASE i = cursor[w]
      BY <1>6, <3>1 DEF ViewHeld
    <3>2. CASE i < cursor[w]
      <4>1. Derived[i] \in DerivedStrategies \ {s}
        BY <1>6, <3>2, Sequences, DerivedApart
      <4>2. ViewHeld(w, i)
        BY <1>1
      <4> QED BY <1>6, <3>2, <4>1, <4>2 DEF ViewHeld
    <3>3. CASE i > cursor[w]
      <4>1. pc'[w] = "derive" /\ ~(i < cursor'[w])
        BY <1>6, <2>1, <3>3
      <4> QED BY <4>1 DEF ViewHeld, Climbing, AfterLadder
    <3> QED BY <1>6, <3>1, <3>2, <3>3
  <2>3. pc'[w] \notin {"create", "record"}
    BY <2>1
  <2> QED BY <1>1, <1>6, <2>2, <2>3, AloneRequest
<1>7. CASE Derive(w)
  <2> PICK s : s = Derived[cursor[w]]
    OBVIOUS
  <2>1. cursor[w] \in 1..2 /\ s \in DerivedStrategies /\ s \in Strategies /\ pc[w] = "derive"
    BY <1>7, Sequences DEF Derive, Typed, CursorOK, Deriving
  <2>2. UNCHANGED <<ladder, outcome>>
    BY <1>7 DEF Derive, store
  <2>3. CASE ladder[s] # NoRun
    <3>1. view' = [view EXCEPT ![w][s] = ladder[s].candidate]
          /\ Advance(w, cursor[w] < 2, "derive", "ladder")
      BY <1>7, <2>3 DEF Derive
    <3>2. /\ \A u \in DerivedStrategies \ {s} : view'[w][u] = view[w][u]
          /\ view'[w][s] = ladder[s].candidate
      BY <2>1, <3>1 DEF Typed, TypeOK
    <3> QED BY <1>6, <2>1, <2>2, <3>1, <3>2 DEF Deriving
  <2>4. CASE ladder[s] = NoRun
    <3>1. pc'[w] = "create" /\ UNCHANGED <<cursor, view>>
      BY <1>7, <2>4 DEF Derive, Goto, Typed, TypeOK
    <3>2. outcome = NoOutcome
      BY <2>1, <2>4 DEF TailInv, OutcomeOK
    <3>3. "create" \in Deriving /\ "derive" \in Deriving
          /\ "create" \notin Climbing \cup AfterLadder
      BY DEF Deriving, Climbing, AfterLadder
    <3>4. \A i \in 1..2 : ViewHeld(w, i)'
      BY <1>1, <2>1, <2>2, <3>1, <3>3 DEF ViewHeld
    <3> QED BY <1>1, <2>2, <2>4, <3>1, <3>2, <3>4, AloneRequest
  <2> QED BY <2>3, <2>4
<1>8. CASE CreateDerived(w)
  <2> PICK s : s = Derived[cursor[w]]
    OBVIOUS
  <2>1. cursor[w] \in 1..2 /\ s \in DerivedStrategies /\ pc[w] = "create"
    BY <1>8, Sequences DEF CreateDerived, Typed, CursorOK, Deriving
  <2>2. UNCHANGED <<ladder, outcome>> /\ ladder[s] = NoRun /\ outcome = NoOutcome
    BY <1>1, <1>8, <2>1 DEF CreateDerived
  <2>3. \A u \in DerivedStrategies \ {s} : view'[w][u] = view[w][u]
    BY <1>8, <2>1 DEF CreateDerived, Typed, TypeOK
  <2>4. CASE Advance(w, cursor[w] < 2, "derive", "ladder")
    BY <1>6, <2>1, <2>2, <2>3, <2>4 DEF Deriving
  <2>5. CASE Goto(w, "record") /\ UNCHANGED cursor
    <3>1. pc'[w] = "record" /\ cursor'[w] = cursor[w]
      BY <2>5 DEF Goto, Typed, TypeOK
    <3>2. ASSUME NEW i \in 1..2 PROVE ViewHeld(w, i)'
      <4>1. CASE i < cursor[w]
        <5>1. Derived[i] \in DerivedStrategies \ {s}
          BY <2>1, <4>1, Sequences, DerivedApart
        <5> QED BY <1>1, <2>1, <2>2, <2>3, <4>1, <5>1 DEF ViewHeld, Deriving
      <4>2. CASE ~(i < cursor[w])
        BY <3>1, <4>2 DEF ViewHeld, Climbing, AfterLadder
      <4> QED BY <4>1, <4>2
    <3> QED BY <1>1, <2>2, <3>1, <3>2, AloneRequest
  <2> QED BY <1>8, <2>4, <2>5 DEF CreateDerived
<1>9. CASE RecordDerived(w)
  <2> PICK s : s = Derived[cursor[w]]
    OBVIOUS
  <2>1. /\ cursor[w] \in 1..2 /\ s \in DerivedStrategies /\ s \in Strategies /\ pc[w] = "record"
        /\ CreateStrategyRun(w, s, 2, "derive", "ladder")
    BY <1>9, Sequences DEF RecordDerived, Typed, CursorOK, Deriving
  <2>2. /\ UNCHANGED <<criteria, outcome, plan>>
        /\ \/ Throw(w) /\ ladder' = ladder
           \/ /\ Advance(w, cursor[w] < 2, "derive", "ladder")
              /\ UNCHANGED <<seen, view>> /\ ladder[s] = NoRun
              /\ ladder' = [ladder EXCEPT ![s] = [candidate |-> Viewed(w, s), role |-> Role(w, s)]]
    BY <1>0, <2>1, RunInserted
  <2>3. CASE Throw(w)
    BY <1>3, <2>2, <2>3
  <2>4. CASE /\ Advance(w, cursor[w] < 2, "derive", "ladder") /\ UNCHANGED <<seen, view>>
             /\ ladder' = [ladder EXCEPT ![s] = [candidate |-> Viewed(w, s), role |-> Role(w, s)]]
    <3>1. /\ \A u \in DerivedStrategies \ {s} : ladder'[u] = ladder[u] /\ view'[w][u] = view[w][u]
          /\ view'[w][s] = ladder'[s].candidate
      BY <2>1, <2>4, Sequences DEF Viewed, Typed, TypeOK
    <3> QED BY <1>6, <2>1, <2>2, <2>4, <3>1 DEF Deriving
  <2> QED BY <2>2, <2>3, <2>4
\* The loop over the rungs does not touch the views.
<1>10. ASSUME UNCHANGED <<outcome, view>>, pc[w] \in Climbing \cup AfterLadder,
              pc'[w] \in Climbing \cup AfterLadder,
              \A s \in DerivedStrategies :
                 ladder'[s] = ladder[s] \/ ladder'[s].candidate = view[w][s]
       PROVE  AloneInv'
  <2>1. \A i \in 1..2 : ViewHeld(w, i)'
    BY <1>1, <1>10, Sequences DEF ViewHeld
  <2>2. pc'[w] \notin {"create", "record"}
    BY <1>10 DEF Climbing, AfterLadder
  <2> QED BY <1>1, <1>10, <2>1, <2>2, AloneRequest
<1>11. CASE FindRung(w)
  BY <1>10, <1>11 DEF FindRung, Advance, Goto, store, Climbing, AfterLadder, Typed, TypeOK
<1>12. CASE CreateRung(w)
  <2> PICK s : s = Ladder[cursor[w]]
    OBVIOUS
  <2>1. s \in Strategies /\ pc[w] \in Climbing /\ CreateStrategyRun(w, s, 4, "ladder", "findOutcome")
    BY <1>12, Sequences DEF CreateRung, Typed, CursorOK, Climbing
  <2>2. /\ UNCHANGED <<criteria, outcome, plan>>
        /\ \/ Throw(w) /\ ladder' = ladder
           \/ /\ Advance(w, cursor[w] < 4, "ladder", "findOutcome")
              /\ UNCHANGED <<seen, view>> /\ ladder[s] = NoRun
              /\ ladder' = [ladder EXCEPT ![s] = [candidate |-> Viewed(w, s), role |-> Role(w, s)]]
    BY <1>0, <2>1, RunInserted
  <2>3. CASE Throw(w)
    BY <1>3, <2>2, <2>3
  <2>4. CASE /\ Advance(w, cursor[w] < 4, "ladder", "findOutcome") /\ UNCHANGED <<seen, view>>
             /\ ladder' = [ladder EXCEPT ![s] = [candidate |-> Viewed(w, s), role |-> Role(w, s)]]
    <3>1. \A u \in DerivedStrategies : ladder'[u] = ladder[u] \/ ladder'[u].candidate = view[w][u]
      BY <2>1, <2>4 DEF Viewed, Typed, TypeOK
    <3>2. pc'[w] \in Climbing \cup AfterLadder
      BY <2>4 DEF Advance, Climbing, AfterLadder, Typed, TypeOK
    <3> QED BY <1>10, <2>1, <2>2, <2>4, <3>1, <3>2
  <2> QED BY <2>2, <2>3, <2>4
<1>13. CASE FindOutcome(w)
  <2>1. UNCHANGED <<ladder, outcome>> /\ pc[w] \in AfterLadder
    BY <1>13 DEF FindOutcome, store, AfterLadder
  <2>2. CASE Throw(w)
    BY <1>3, <2>1, <2>2
  <2>3. CASE (Goto(w, "view") \/ Goto(w, "createOutcome")) /\ Own
    BY <1>10, <2>1, <2>3 DEF Goto, Own, AfterLadder, Typed, TypeOK
  <2> QED BY <1>13, <2>2, <2>3 DEF FindOutcome
<1>14. CASE CreateOutcome(w)
  <2>1. UNCHANGED ladder /\ pc[w] = "createOutcome"
    BY <1>14 DEF CreateOutcome
  <2>2. CASE Throw(w) /\ UNCHANGED outcome
    BY <1>3, <2>2
  <2>3. CASE /\ outcome = NoOutcome /\ (Goto(w, "sample") \/ Goto(w, "view")) /\ Own
             /\ outcome' = [strategy |-> Target(w), delivered |-> Viewed(w, Target(w)),
                            machine |-> verdict]
    <3> PICK s \in Strategies : s = Target(w)
      BY TargetType
    <3>1. ladder[s] # NoRun
      BY <1>0, <2>1 DEF ProgressOK, AfterLadder
    <3>2. ladder[s].candidate = Viewed(w, s)
      <4>1. CASE s \in DerivedStrategies
        <5>1. PICK i \in 1..2 : Derived[i] = s
          BY <4>1, Sequences
        <5>2. ViewHeld(w, i)
          BY <1>1
        <5> QED BY <2>1, <3>1, <4>1, <5>1, <5>2 DEF ViewHeld, Viewed, AfterLadder
      <4>2. CASE s \notin DerivedStrategies
        BY <3>1, <4>2 DEF TailInv, RungOK, Viewed
      <4> QED BY <4>1, <4>2
    <3>3. ladder'[outcome'.strategy].candidate = outcome'.delivered
      BY <2>1, <2>3, <3>2
    <3>4. pc'[w] \in AfterLadder /\ pc'[w] \notin {"create", "record"} /\ view' = view
      BY <2>3 DEF Goto, Own, AfterLadder, Typed, TypeOK
    <3>5. \A i \in 1..2 : ViewHeld(w, i)'
      BY <1>1, <2>1, <3>4 DEF ViewHeld, AfterLadder
    <3> QED BY <1>1, <3>3, <3>4, <3>5, AloneRequest
  <2> QED BY <1>14, <2>2, <2>3 DEF CreateOutcome
<1>15. CASE MaybeCreateSample(w)
  BY <1>10, <1>15 DEF MaybeCreateSample, TailRows, Goto, Own, AfterLadder, Typed, TypeOK
<1>16. CASE BuildView(w)
  BY <1>2, <1>16 DEF BuildView, store, Typed, TypeOK, Deriving, Climbing, AfterLadder
<1> QED BY <1>4, <1>5, <1>7, <1>8, <1>9, <1>11, <1>12, <1>13, <1>14, <1>15, <1>16 DEF Tail
LEMMA AloneStep ==
    Typed /\ Typed' /\ ExperimentInv /\ ExperimentInv' /\ TailInv /\ AloneInv /\ [Next]_vars
      => AloneInv'
<1> SUFFICES ASSUME Typed, Typed', ExperimentInv, ExperimentInv', TailInv, AloneInv, [Next]_vars
             PROVE  AloneInv'
  OBVIOUS
<1>0. "live" \in Workers /\ Recoverers \subseteq Workers
  BY DEF Workers
<1>1. {"dead", "idle", "experiment", "misread"} \cap (TailSteps \cup {"conclude"}) = {}
  BY WithinTail
<1>2. CASE UNCHANGED vars
  BY <1>2 DEF vars, store, local, AloneInv, Within, ViewHeld
<1>3. CASE LiveExperiment
  BY <1>3, AloneLive
<1>4. ASSUME NEW w \in Workers, Tail(w) PROVE AloneInv'
  BY <1>4, AloneTail
<1>5. CASE InjectFault
  <2>1. /\ pc' = [pc EXCEPT !["live"] = "dead"]
        /\ cursor' = [cursor EXCEPT !["live"] = 1]
        /\ view' = [view EXCEPT !["live"] = Fresh]
        /\ UNCHANGED <<ladder, outcome, overlapped>>
    BY <1>5 DEF InjectFault, Throw, store, Elsewhere
  <2> QED BY <1>0, <1>1, <2>1, AloneOutside
<1>6. ASSUME NEW w \in Workers, Abort(w) PROVE AloneInv'
  <2>1. PICK n \in {"dead", "idle"} :
          /\ pc' = [pc EXCEPT ![w] = n]
          /\ cursor' = [cursor EXCEPT ![w] = 1]
          /\ view' = [view EXCEPT ![w] = Fresh]
    BY <1>6 DEF Abort, Throw
  <2>2. UNCHANGED <<ladder, outcome, overlapped>>
    BY <1>6 DEF Abort, store
  <2> QED BY <1>1, <2>1, <2>2, AloneOutside
<1>7. ASSUME NEW w \in Recoverers, Redrive(w) \/ Return(w) PROVE AloneInv'
  <2>1. PICK n \in {"experiment", "idle"} : pc' = [pc EXCEPT ![w] = n]
    BY <1>7 DEF Redrive, Return, Goto
  <2>2. UNCHANGED <<ladder, outcome, overlapped, cursor, view>>
    BY <1>7 DEF Redrive, Return, store, Own, Elsewhere
  <2> QED BY <1>0, <1>1, <2>1, <2>2, AloneOutside
<1>8. ASSUME NEW w \in Recoverers, ReadExperiment(w) PROVE AloneInv'
  <2>1. UNCHANGED <<ladder, outcome, cursor, view>> /\ w \in Workers /\ w # "live"
    BY <1>0, <1>8, WorkersAssumption DEF ReadExperiment, store, Own
  <2>2. CASE UNCHANGED overlapped /\ \E n \in {"idle", "misread"} : Goto(w, n)
    BY <1>1, <2>1, <2>2, AloneOutside DEF Goto
  <2>3. CASE /\ Goto(w, "readEvidence")
             /\ overlapped' = (overlapped \/ \E v \in Workers \ {w} : Busy(v))
    <3> SUFFICES ASSUME ~overlapped' PROVE AloneInv'
      BY DEF AloneInv
    <3>1. ~overlapped /\ \A v \in Workers \ {w} : ~Busy(v)
      BY <2>3
    <3>2. /\ pc'[w] = "readEvidence"
          /\ \A v \in Workers \ {w} : pc'[v] = pc[v] /\ pc[v] \in {"idle", "dead", "done"}
      BY <2>1, <2>3, <3>1 DEF Goto, Busy, Typed, TypeOK
    <3>3. \A v \in Workers : /\ v # w => ~Within(v)'
                             /\ pc'[v] \notin Deriving \cup Climbing \cup AfterLadder
      BY <3>2, WithinTail DEF Within, Deriving, Climbing, AfterLadder
    <3>4. \A v, u \in Workers : v # u => ~(Within(v)' /\ Within(u)')
      BY <3>3
    <3>5. \A v \in Workers : /\ pc'[v] \notin {"create", "record"}
                             /\ \A i \in 1..2 : ViewHeld(v, i)'
      BY <3>3 DEF ViewHeld, Deriving
    <3>6. pc'["live"] # "conclude"
      BY <1>0, <2>1, <3>2
    <3>7. outcome' # NoOutcome => ladder'[outcome'.strategy].candidate = outcome'.delivered
      BY <2>1, <3>1 DEF AloneInv
    <3> QED BY <3>4, <3>5, <3>6, <3>7 DEF AloneInv
  <2> QED BY <1>8, <2>2, <2>3 DEF ReadExperiment
<1> QED BY <1>0, <1>2, <1>3, <1>4, <1>5, <1>6, <1>7, <1>8 DEF Next, RedriveStep

LEMMA AloneInit == Init => AloneInv
<1> SUFFICES ASSUME Init PROVE AloneInv
  OBVIOUS
<1>1. \A w \in Workers : pc[w] \in {"policy", "idle"}
  BY DEF Init
<1>2. {"policy", "idle"} \cap (TailSteps \cup {"conclude", "create", "record"}) = {}
  BY DEF TailSteps
<1>3. \A w \in Workers : ~Within(w) /\ \A i \in 1..2 : ViewHeld(w, i)
  BY <1>1, <1>2 DEF Within, ViewHeld, Deriving, Climbing, AfterLadder
<1>4. outcome = NoOutcome
  BY DEF Init
<1> QED BY <1>1, <1>2, <1>3, <1>4 DEF AloneInv

-----------------------------------------------------------------------------
(* The theorems.                                                             *)

RunInv == Typed /\ ExperimentInv /\ TailInv /\ AloneInv

LEMMA Invariance == Spec => []RunInv
<1>1. Init => RunInv
  BY TypeInit, ExperimentInit, TailInit, AloneInit DEF RunInv
<1>2. RunInv /\ [Next]_vars => RunInv'
  BY TypeStep, ExperimentStep, TailInvStep, AloneStep DEF RunInv
<1> QED BY <1>1, <1>2, PTL DEF Spec

\* No outcome without its whole experiment, criterion records and ladder,
\* whoever wrote it and however many requests died
\* (FieldBetaService.run, completeFieldOutcome).
THEOREM Complete == Spec => []OutcomeComplete
<1>1. RunInv => OutcomeComplete
  <2> SUFFICES ASSUME RunInv, outcome # NoOutcome PROVE OutcomeComplete
    BY DEF OutcomeComplete
  <2>1. OutcomeOK /\ "verification" \in rows
    BY DEF RunInv, TailInv, OutcomeOK, ChainComplete
  <2>2. StatusAgrees
    BY <2>1 DEF RunInv, ExperimentInv
  <2>3. SameSpec = "PASSED" => verdict = "PASSED" /\ outcome.strategy = "P3_HARD"
    <3>1. SameSpec = "PASSED" => verdict = "PASSED" /\ outcome.delivered = Original("P3_HARD")
      BY DEF SameSpec
    <3> QED BY <2>1, <3>1 DEF OutcomeOK, Original
  <2> QED BY <2>1, <2>2, <2>3 DEF OutcomeComplete, OutcomeOK, StatusAgrees
<1> QED BY <1>1, Invariance, PTL

\* The delivered candidate is the rung of its strategy, unless a redrive ran
\* beside another writer (FieldBetaService.buildView).
THEOREM Delivered == Spec => []DeliveredOnLadder
<1>1. RunInv => DeliveredOnLadder
  <2> SUFFICES ASSUME RunInv, outcome # NoOutcome,
                      ~overlapped \/ outcome.strategy \in {"P0_RAW", "P3_HARD"}
               PROVE  /\ ladder[outcome.strategy].candidate = outcome.delivered
                      /\ plan.chosen \in {"NONE", Recommended[plan.topology]} =>
                           \A s \in Strategies :
                              ladder[s].role = "DELIVERED" <=> s = outcome.strategy
    BY DEF DeliveredOnLadder
  <2>1. OutcomeOK /\ outcome.strategy \in Strategies /\ \A s \in Strategies : RungOK(s)
    BY DEF RunInv, TailInv, Typed, TypeOK, Outcomes
  <2>2. ladder[outcome.strategy].candidate = outcome.delivered
    <3>1. CASE ~overlapped
      BY <3>1 DEF RunInv, AloneInv
    <3>2. CASE outcome.strategy \in {"P0_RAW", "P3_HARD"}
      <4>1. outcome.strategy \notin DerivedStrategies
        BY <3>2 DEF DerivedStrategies
      <4> QED BY <2>1, <4>1 DEF OutcomeOK, RungOK
    <3> QED BY <3>1, <3>2
  <2>3. Natural => \A s \in Strategies : ladder[s].role = "DELIVERED" <=> s = outcome.strategy
    BY <2>1 DEF OutcomeOK, RungOK
  <2> QED BY <2>2, <2>3 DEF Natural
<1> QED BY <1>1, Invariance, PTL

\* The status of the transaction moves along VALID_TRANSITIONS only, although
\* updateStatus enforces none (PreservationVerificationService.runExperiment).
THEOREM Transitions == Spec => LegalTransitions
<1>1. RunInv /\ [Next]_vars => [StatusMove]_status
  <2> SUFFICES ASSUME RunInv, [Next]_vars, status' # status PROVE StatusMove
    OBVIOUS
  <2>1. OpenTransaction \/ UpdateStatus \/ Conclude
    <3>1. ~ (UNCHANGED vars \/ InjectFault)
      BY DEF vars, store, InjectFault
    <3>2. \A w \in Workers : ~ (Tail(w) \/ Abort(w))
      BY TailKeepsRows DEF TailGoes, Abort, store
    <3>3. \A w \in Recoverers : ~ (Redrive(w) \/ ReadExperiment(w) \/ Return(w))
      BY DEF Redrive, ReadExperiment, Return, store
    <3>4. "live" \in Workers /\ Recoverers \subseteq Workers
      BY DEF Workers
    <3>5. LiveExperiment
      BY <3>1, <3>2, <3>3, <3>4 DEF Next, RedriveStep
    <3>6. ~ (\/ PersistSource \/ PersistIntent \/ PersistRun \/ PersistRaw \/ PersistPreservation
             \/ BindSpec \/ Reserve \/ Consume \/ Execute \/ StoreRaw \/ Preserve
             \/ StorePreserved \/ StoreEvidence \/ Verify)
      BY DEF PersistSource, PersistIntent, PersistRun, PersistRaw, PersistPreservation, Persist,
           BindSpec, Reserve, Consume, Admit, Execute, StoreRaw, PutBlob, Preserve,
           StorePreserved, StoreEvidence, Verify, store
    <3> QED BY <3>5, <3>6 DEF LiveExperiment
  <2>2. StatusHeld
    BY DEF RunInv, ExperimentInv
  <2>3. CASE OpenTransaction
    BY <2>2, <2>3 DEF OpenTransaction, StatusHeld, StatusMove
  <2>4. CASE UpdateStatus
    <3>1. DOMAIN StatusSteps = {"PREPARED", "READY", "EXECUTING", "VERIFYING", "FAILED"}
      BY DEF StatusSteps
    <3>2. \/ status = "DRAFT" /\ status' = "PREPARED"
          \/ status = "PREPARED" /\ status' = "READY"
          \/ status = "READY" /\ status' = "EXECUTING"
          \/ status = "EXECUTING" /\ status' \in {"VERIFYING", "FAILED"}
      BY <2>2, <2>4, <3>1 DEF UpdateStatus, StatusHeld
    <3> QED BY <3>2 DEF StatusMove
  <2>5. CASE Conclude
    <3>1. status = "VERIFYING" /\ status' \in {"VERIFIED", "FAILED"}
      BY <2>2, <2>5 DEF Conclude, StatusHeld
    <3> QED BY <3>1 DEF StatusMove
  <2> QED BY <2>1, <2>3, <2>4, <2>5
<1> QED BY <1>1, Invariance, PTL DEF Spec, LegalTransitions

\* A recorded outcome is final, and a redrive of a completed transaction stores
\* nothing again (FieldBetaService.completeFieldOutcome).
THEOREM Final == Spec => OutcomeIsFinal
<1>1. RunInv /\ [Next]_vars =>
        [outcome # NoOutcome =>
          /\ outcome' = outcome
          /\ rows' \subseteq rows \cup {"sample"}
          /\ ~overlapped => UNCHANGED <<status, verdict, artifacts, criteria, ladder>>]_vars
  <2> SUFFICES ASSUME RunInv, Next, outcome # NoOutcome
               PROVE  /\ outcome' = outcome
                      /\ rows' \subseteq rows \cup {"sample"}
                      /\ ~overlapped =>
                           UNCHANGED <<status, verdict, artifacts, criteria, ladder>>
    OBVIOUS
  <2>1. /\ OutcomeOK /\ "verification" \in rows /\ criteria = AllCriteria
        /\ \A s \in Strategies : ladder[s] # NoRun
    BY DEF RunInv, TailInv, OutcomeOK, ChainComplete
  <2>2. "live" \in Workers /\ Recoverers \subseteq Workers
    BY DEF Workers
  <2>3. CASE LiveExperiment
    <3>1. pc["live"] \notin Unverified
      BY <2>1, UnverifiedApart DEF RunInv, ExperimentInv
    <3>2. ~ Verify
      BY <3>1 DEF Verify, Unverified
    <3>3. Conclude
      BY <2>3, <3>1, <3>2, LiveUnverified
    <3> QED BY <3>3 DEF Conclude, TailRows, RunInv, AloneInv
  <2>4. ASSUME NEW w \in Workers, Tail(w)
        PROVE  /\ outcome' = outcome
               /\ rows' \subseteq rows \cup {"sample"}
               /\ ~overlapped => UNCHANGED <<status, verdict, artifacts, criteria, ladder>>
    <3>1. /\ rows' \subseteq rows \cup {"sample"} /\ UNCHANGED <<status, verdict>>
          /\ outcome' = outcome /\ Stored /\ Typed
      BY <2>4, TailKeepsRows, TailStays, TailType DEF TailGoes, RunInv
    <3>2. ~overlapped => UNCHANGED artifacts
      <4>1. ~overlapped => ~ CreateDerived(w)
        BY DEF CreateDerived, RunInv, AloneInv
      <4> QED BY <2>4, <4>1
          DEF Tail, ReadEvidence, WriteEvidence, Derive, RecordDerived, FindRung, CreateRung,
              CreateStrategyRun, FindOutcome, CreateOutcome, MaybeCreateSample, BuildView,
              store, TailRows
    <3>3. criteria' = criteria
      <4>1. CASE WriteEvidence(w)
        <5>1. Criteria[cursor[w]] \in criteria
          BY <2>1, <3>1, <4>1, Sequences DEF WriteEvidence, Typed, CursorOK
        <5> QED BY <4>1, <5>1 DEF WriteEvidence
      <4> QED BY <2>4, <4>1
          DEF Tail, ReadEvidence, Derive, CreateDerived, RecordDerived, FindRung, CreateRung,
              CreateStrategyRun, FindOutcome, CreateOutcome, MaybeCreateSample, BuildView,
              store, TailRows
    <3>4. ladder' = ladder
      <4>1. \A s \in Strategies : ladder'[s] = ladder[s]
        BY <2>1, <2>4, <3>1, TailStays
      <4> QED BY <3>1, <4>1 DEF Stored, Typed, TypeOK
    <3> QED BY <3>1, <3>2, <3>3, <3>4
  <2>5. ASSUME NEW w \in Workers, Abort(w) \/ Redrive(w) \/ ReadExperiment(w) \/ Return(w)
        PROVE  UNCHANGED store
    BY <2>5 DEF Abort, Redrive, ReadExperiment, Return, store
  <2>6. CASE InjectFault
    BY <2>6 DEF InjectFault, store
  <2>7. UNCHANGED store => /\ outcome' = outcome /\ rows' = rows
                           /\ UNCHANGED <<status, verdict, artifacts, criteria, ladder>>
    BY DEF store
  <2> QED BY <2>2, <2>3, <2>4, <2>5, <2>6, <2>7 DEF Next, RedriveStep
<1> QED BY <1>1, Invariance, PTL DEF Spec, OutcomeIsFinal
=============================================================================
