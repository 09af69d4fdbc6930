------------------------- MODULE ReadinessAuthority -------------------------
(* BUILD 002 readiness (A to D4): from the signals recorded about a           *)
(* transaction to a committed readiness, a delegability admission and an      *)
(* execution authority. Every resolver reads in awaits of its own; only the   *)
(* three database functions are serialized, and they read their clock before  *)
(* they wait for locks. One transaction; its binding, profile and blueprint   *)
(* are immutable rows, signals are inserted and never changed.                *)
EXTENDS Naturals, Sequences, FiniteSets

CONSTANTS
    Principals,     \* members of the tenant, each with one request at a time
    Requirements,   \* the compiled requirements, in the order of their ids
    Signals,        \* the signals that producers may record
    MaxTime,        \* bound on the clock
    MaxCommits      \* bound on readiness commits

Never == MaxTime + 1                        \* validUntil null
Times == 0..MaxTime
Horizons == 0..Never
Provenances == {"OBSERVED", "INFERRED", "UNKNOWN"}
RequirementType ==
    [critical: BOOLEAN, review: BOOLEAN, single: BOOLEAN, accepts: SUBSET Provenances]
SignalType ==
    [requirement: DOMAIN Requirements, value: {"a", "b"}, provenance: Provenances,
     onBase: BOOLEAN, captured: Times, until: Horizons]
ReadinessStates == {"READY", "HUMAN_REVIEW_REQUIRED", "INSUFFICIENT_SIGNAL"}
Commits ==
    [by: Principals, refs: SUBSET Signals, evaluated: Times, state: ReadinessStates,
     until: Horizons, started: Times]
Admissions == [by: Principals, commit: Commits, revalidated: Times, started: Times]

ASSUME InputAssumption ==
    /\ MaxTime \in Nat /\ MaxCommits \in Nat
    /\ Requirements \in Seq(RequirementType) /\ Requirements # <<>>
    /\ Signals \subseteq SignalType

VARIABLES
    now,
    signals,        \* build002_signals of the transaction
    head,           \* is the asset's head still the transaction's base version?
    prepared,       \* is the transaction still PREPARED?
    members,        \* principals whose membership is ACTIVE
    commits, admissions, authorities,   \* D0, D3 and D4 rows
    request         \* request[p]: await, and what it has read so far

vars == <<now, signals, head, prepared, members, commits, admissions, authorities, request>>
world == <<now, signals, head, prepared, members>>
facts == <<commits, admissions, authorities>>

\* What a request has read: the universe up to requirement `next`, the instant
\* it took from its clock, its result; `was`, for the properties, says whether
\* the commit it examines was current when it took that instant.
Idle == [step |-> "idle", kind |-> "commit", next |-> 1, universe |-> {}, instant |-> 0, started |-> 0,
         state |-> "INSUFFICIENT_SIGNAL", until |-> 0, about |-> {}, was |-> FALSE,
         result |-> "NONE"]
Steps == {"idle", "universe", "dependency", "candidate", "material", "begin", "finish"}
Results == {"NONE", "CURRENT"}

Init ==
    /\ now = 0 /\ signals = {} /\ head = TRUE /\ prepared = TRUE
    /\ members = Principals
    /\ commits = {} /\ admissions = {} /\ authorities = {}
    /\ request = [p \in Principals |-> Idle]

-----------------------------------------------------------------------------
(* Evaluation.                                                               *)

Of(universe, r) == {s \in universe : s.requirement = r}

\* evaluateSignalQualification, in the order of its returns. The hash and scope
\* checks before these pass for rows that came out of the repositories.
Qualification(r, evidence, t) ==
    LET rule == Requirements[r] IN
    IF evidence = {} THEN "MISSING"
    ELSE IF \E s \in evidence : s.until <= s.captured \/ s.captured > t THEN "INVALID"
    ELSE IF \E s \in evidence : s.until <= t \/ ~s.onBase THEN "STALE_SOURCE"
    ELSE IF \E s \in evidence : s.provenance \notin rule.accepts
         THEN "INCOMPATIBLE_PROVENANCE"
    ELSE IF \E s \in evidence : s.provenance = "UNKNOWN" THEN "UNKNOWN"
    ELSE IF rule.review THEN "REQUIRES_HUMAN_REVIEW"
    ELSE IF rule.single /\ \E s, u \in evidence : s.value # u.value THEN "CONTRADICTORY"
    ELSE "QUALIFIED"

Critical == {r \in DOMAIN Requirements : Requirements[r].critical}

\* evaluateDelegationReadiness: an INVALID qualification makes the set
\* structurally invalid, also when its requirement is not critical.
Readiness(universe, t) ==
    LET outcome == [r \in DOMAIN Requirements |-> Qualification(r, Of(universe, r), t)] IN
    IF \E r \in DOMAIN Requirements : outcome[r] = "INVALID" THEN "INSUFFICIENT_SIGNAL"
    ELSE IF \E r \in Critical : outcome[r] = "REQUIRES_HUMAN_REVIEW"
         THEN "HUMAN_REVIEW_REQUIRED"
    ELSE IF \E r \in Critical : outcome[r] # "QUALIFIED" THEN "INSUFFICIENT_SIGNAL"
    ELSE "READY"

\* Mutant: the horizon is the latest expiry instead of the earliest.
HorizonLatest(universe, t) ==
    LET ends == {s.until : s \in universe} IN
    CHOOSE u \in ends \cup {Never} : \A v \in ends : v <= u

\* The earliest expiry of the evidence of the qualified critical requirements.
Horizon(universe, t) ==
    LET ends == {s.until : s \in {e \in universe : /\ e.requirement \in Critical
                    /\ Qualification(e.requirement, Of(universe, e.requirement), t)
                            = "QUALIFIED"}}
    IN CHOOSE u \in ends \cup {Never} : \A v \in ends \cup {Never} : u <= v

\* evaluateReadinessValidity of a commit against a universe and an instant.
Validity(commit, universe, t) ==
    IF commit.refs # universe THEN "STALE"
    ELSE IF commit.until <= t THEN "EXPIRED" ELSE "CURRENT"

-----------------------------------------------------------------------------
(* The resolvers.                                                            *)

To(p, q) == request' = [request EXCEPT ![p] = q]
\* The answer, or an error: whoever asked keeps nothing of it, and may ask again.
Answer(p) == To(p, Idle)

\* A read, the network or the process fails: every phase throws, with nothing
\* written.
Fail(p) ==
    /\ request[p].step # "idle" /\ Answer(p)
    /\ UNCHANGED <<world, facts>>

\* OutcomeRequirementAuthorityResolver.resolve: binding, profile and blueprint.
ResolveAuthority(p) ==
    /\ request[p].step = "idle"
    /\ To(p, [Idle EXCEPT !.step = "universe"])
    /\ UNCHANGED <<world, facts>>

\* The revalidator reads the commit and its historical rows, then its clock.
Revalidate(p, commit) ==
    /\ request[p].step = "idle"
    /\ To(p, [Idle EXCEPT !.step = "universe", !.kind = "admit", !.about = {commit},
                          !.instant = now,
                          !.was = Validity(commit, signals, now) = "CURRENT" /\ head])
    /\ UNCHANGED <<world, facts>>

\* Mutant: one requirement too many is asked for.
ReadSignalsBeyond(p) ==
    LET q == request[p]
        read == [q EXCEPT !.universe = @ \cup Of(signals, q.next)]
    IN
    /\ q.step = "universe"
    /\ To(p, IF q.next > Len(Requirements) THEN [read EXCEPT !.step = "dependency"]
             ELSE [read EXCEPT !.next = q.next + 1])
    /\ UNCHANGED <<world, facts>>

\* Mutant: the last requirement is not read.
ReadSignalsShort(p) ==
    LET q == request[p] IN
    /\ q.step = "universe"
    /\ To(p, IF q.next = Len(Requirements) THEN [q EXCEPT !.step = "dependency"]
             ELSE [q EXCEPT !.universe = @ \cup Of(signals, q.next), !.next = q.next + 1])
    /\ UNCHANGED <<world, facts>>

\* listSignalsForRequirement, one requirement and one await after the other.
ReadSignals(p) ==
    LET q == request[p]
        read == [q EXCEPT !.universe = @ \cup Of(signals, q.next)]
    IN
    /\ q.step = "universe"
    /\ To(p, IF q.next = Len(Requirements) THEN [read EXCEPT !.step = "dependency"]
             ELSE [read EXCEPT !.next = q.next + 1])
    /\ UNCHANGED <<world, facts>>

\* The dependency snapshot; a moved head stops the orchestrator.
ReadDependency(p) ==
    LET q == request[p] IN
    /\ q.step = "dependency" /\ q.kind = "commit"
    /\ IF head THEN To(p, [q EXCEPT !.step = "candidate"]) ELSE Answer(p)
    /\ UNCHANGED <<world, facts>>

\* What the revalidator answers: STALE for a moved head, else the validity.
Currentness(commit, q) == IF head THEN Validity(commit, q.universe, q.instant) ELSE "STALE"

Delegable(commit, currentness) == commit.state = "READY" /\ currentness = "CURRENT"

\* OutcomeDelegabilityAdmissionService.admit, after the revalidation.
AnswerCurrentness(p) ==
    LET q == request[p] IN
    /\ q.step = "dependency" /\ q.kind = "admit"
    /\ \E commit \in q.about :
        IF Delegable(commit, Currentness(commit, q))
        THEN To(p, [q EXCEPT !.step = "material", !.result = "CURRENT", !.universe = {}])
        ELSE Answer(p)
    /\ UNCHANGED <<world, facts>>

\* OutcomeReadinessCandidateResolver: reads its clock and evaluates.
EvaluateCandidate(p) ==
    LET q == request[p] IN
    /\ q.step = "candidate"
    /\ To(p, [q EXCEPT !.step = "material", !.instant = now,
                       !.state = Readiness(q.universe, now),
                       !.until = Horizon(q.universe, now)])
    /\ UNCHANGED <<world, facts>>

\* validateInput: the candidate is current by the clock of the server.
ValidInput(q) == now < q.until

\* The material of the commit is read again: the head may have moved.
ReadMaterial(p) ==
    LET q == request[p] IN
    /\ q.step = "material" /\ q.kind = "commit"
    /\ IF head /\ ValidInput(q) THEN To(p, [q EXCEPT !.step = "begin"]) ELSE Answer(p)
    /\ UNCHANGED <<world, facts>>

\* The material of the admission carries the head it read: the database compares it.
ReadSerializedMaterial(p) ==
    /\ request[p].step = "material" /\ request[p].kind = "admit"
    /\ To(p, [request[p] EXCEPT !.step = "begin"])
    /\ UNCHANGED <<world, facts>>

-----------------------------------------------------------------------------
(* The database functions. Each takes its clock when it is called and decides  *)
(* when it holds its locks: tenant, membership, transaction and asset rows,    *)
(* whose locks also hold back signal inserts.                                  *)

Begin(p) ==
    /\ request[p].step = "begin"
    /\ To(p, [request[p] EXCEPT !.step = "finish", !.started = now])
    /\ UNCHANGED <<world, facts>>
Started(p) == request[p].started

\* Mutant: what was read is committed without another look at the signals.
SerializedUnread(p, refs) == p \in members /\ prepared /\ head

Serialized(p, refs) == p \in members /\ prepared /\ head /\ refs = signals

\* build002_commit_readiness_authority
CommitReadiness(p) ==
    LET q == request[p] IN
    /\ q.step = "finish" /\ q.kind = "commit" /\ Cardinality(commits) < MaxCommits
    /\ \/ /\ Serialized(p, q.universe)
          /\ q.instant <= Started(p)
          /\ q.state = "READY" => Started(p) < q.until
          /\ commits' = commits \cup {[by |-> p, refs |-> q.universe, evaluated |-> q.instant,
                state |-> q.state, until |-> q.until, started |-> Started(p)]}
          /\ Answer(p)
       \/ ~Serialized(p, q.universe) /\ Answer(p) /\ UNCHANGED commits
       \/ /\ q.state = "READY" /\ q.until <= Started(p)
          /\ Answer(p) /\ UNCHANGED commits
    /\ UNCHANGED <<world, admissions, authorities>>

\* build002_admit_delegability: one admission per commit and principal; a retry
\* gets the first one.
AdmitDelegability(p) ==
    LET q == request[p] IN
    /\ q.step = "finish" /\ q.kind = "admit"
    /\ \E commit \in q.about :
        \/ /\ Serialized(p, commit.refs) /\ commit.by = p /\ commit.state = "READY"
           /\ Started(p) < commit.until
           /\ commit.evaluated <= q.instant /\ q.instant <= Started(p)
           /\ admissions' = IF \E a \in admissions : a.commit = commit THEN admissions
                ELSE admissions \cup {[by |-> p, commit |-> commit, revalidated |-> q.instant,
                                       started |-> Started(p)]}
           /\ Answer(p)
        \/ /\ ~Serialized(p, commit.refs) \/ commit.by # p \/ commit.until <= Started(p)
           /\ Answer(p) /\ UNCHANGED admissions
    /\ UNCHANGED <<world, commits, authorities>>

\* build002_grant_execution_authority, given a task spec that passes its checks:
\* one authority per admission.
RequestGrant(p, admission) ==
    /\ request[p].step = "idle" /\ admission.by = p
    /\ To(p, [Idle EXCEPT !.step = "begin", !.kind = "grant", !.about = {admission.commit}])
    /\ UNCHANGED <<world, facts>>

GrantExecutionAuthority(p) ==
    LET q == request[p] IN
    /\ q.step = "finish" /\ q.kind = "grant"
    /\ \E admission \in {a \in admissions : a.by = p /\ a.commit \in q.about} :
        \/ /\ Serialized(p, admission.commit.refs)
           /\ Started(p) < admission.commit.until
           /\ authorities' = authorities \cup {admission}
           /\ Answer(p)
        \/ /\ ~Serialized(p, admission.commit.refs) \/ admission.commit.until <= Started(p)
           /\ Answer(p) /\ UNCHANGED authorities
    /\ UNCHANGED <<world, commits, admissions>>

-----------------------------------------------------------------------------
(* Everybody else.                                                           *)

Tick == /\ now < MaxTime /\ now' = now + 1
        /\ UNCHANGED <<signals, head, prepared, members, facts, request>>
InsertSignal(s) ==
    /\ signals' = signals \cup {s}
    /\ UNCHANGED <<now, head, prepared, members, facts, request>>
MoveHead == /\ head' = FALSE
            /\ UNCHANGED <<now, signals, prepared, members, facts, request>>
LeavePrepared == /\ prepared' = FALSE
                 /\ UNCHANGED <<now, signals, head, members, facts, request>>
Revoke(p) == /\ members' = members \ {p}
             /\ UNCHANGED <<now, signals, head, prepared, facts, request>>

Next ==
    \/ Tick \/ MoveHead \/ LeavePrepared
    \/ \E s \in Signals : InsertSignal(s)
    \/ \E p \in Principals :
        \/ Revoke(p) \/ Fail(p)
        \/ ResolveAuthority(p) \/ \E commit \in commits : Revalidate(p, commit)
        \/ ReadSignals(p) \/ ReadDependency(p) \/ AnswerCurrentness(p)
        \/ EvaluateCandidate(p) \/ ReadMaterial(p) \/ ReadSerializedMaterial(p)
        \/ Begin(p) \/ CommitReadiness(p) \/ AdmitDelegability(p)
        \/ \E admission \in admissions : RequestGrant(p, admission)
        \/ GrantExecutionAuthority(p)

Spec == Init /\ [][Next]_vars

-----------------------------------------------------------------------------
(* Properties.                                                               *)

\* Every variable keeps its type.
TypeOK ==
    /\ now \in Times /\ signals \subseteq Signals
    /\ head \in BOOLEAN /\ prepared \in BOOLEAN /\ members \subseteq Principals
    /\ commits \subseteq Commits /\ admissions \subseteq Admissions
    /\ authorities \subseteq Admissions
    /\ request \in [Principals -> [step: Steps, kind: {"commit", "admit", "grant"},
            next: DOMAIN Requirements, universe: SUBSET Signals,
            instant: Times, started: Times, state: ReadinessStates, until: Horizons,
            about: SUBSET Commits, was: BOOLEAN, result: Results]]

\* A committed READY is not a stale one: it was evaluated before the database
\* looked, over signals that are all recorded, and the evaluation repeated at any
\* instant up to the one the commit decided on gives READY again.
CommittedReadinessHolds ==
    \A c \in commits :
        /\ c.refs \subseteq signals /\ c.evaluated <= c.started
        /\ c.state = "READY" => \A t \in c.evaluated..c.started : Readiness(c.refs, t) = "READY"

\* The revalidation is not atomic: it takes its clock first, then reads the
\* signals requirement by requirement, then the head. Its CURRENT was still true
\* at the moment it took its clock.
CurrentWasTrue == \A p \in Principals : request[p].result = "CURRENT" => request[p].was

\* A consequence follows from the present, not from the past: whoever admits or
\* grants is a member now, the transaction is PREPARED on an unmoved head, and a
\* fresh evaluation of the signals recorded now, at the instant the database
\* decides on, says READY.
ConsequencesAreFresh ==
    [][(admissions' # admissions \/ authorities' # authorities) =>
        \E p \in members : /\ prepared /\ head /\ request[p].step = "finish"
                           /\ Readiness(signals, Started(p)) = "READY"]_vars
=============================================================================
