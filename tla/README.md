# Formal models of Virro's outcome authority

Virro turns a human goal into a finished, verified digital outcome. Its runtime is a
Next.js modular monolith in TypeScript over Supabase; the rules that decide *what becomes
canonical*, *who may cause an image-provider call* and *what an evaluator may see* are
spread over SQL functions, unique constraints and services that read and write one await
at a time. This directory models those rules in TLA+, model-checks them on small
instances with TLC and proves the most important ones for every instance with TLAPS.

Commands, run in this directory:

    tlc -workers 2 -config CommitSafety.cfg MCCanonicalCommit.tla
    tlapm CanonicalCommitProofs.tla

`PROJECT.json` lists components, runs, hazards, theorems, the mutation of the code each
property is shown to detect, and for every definition the source lines it models.

## 1. Inventory

Paths are relative to the repository root; `M/` is `supabase/migrations/`.

| Component | State it keeps | Operations | Talks to | What is hard | What makes it correct | Status |
|---|---|---|---|---|---|---|
| **Canonical commit** `M/20260815030000…`, F1 `M/20260815040000…`, F4 `M/20260816090000…` | assets and head, asset versions, `state_commits`, transaction status, feedback, memberships | `commit_accepted_field_outcome`; publication, feedback, revocation and suspension race with it | tenant authority, Field Beta, verification evidence | READ COMMITTED with an authority read before the first lock; row locks taken in a loop; retries after lost answers | one linear history per asset, all four writes or none, only proven and accepted outcomes, under authority that is still current, idempotent replay | modelled |
| **Execution admission** D5 `M/20260825080000…`, `…090000…`, D6 `M/20260825110000…`, `canonical-field-beta-provider-gateway.ts` | leases, attempt reservations, consumptions | grant a lease, reserve, consume, call the provider | readiness chain (the D4 authority), tenant authority, image executor | two SQL functions re-enter a third; table locks and row locks in different orders; time passes while waiting; clients vanish while the function runs on | one attempt per lease, at most one provider call per attempt, admission only under current authority, a lease that cannot be renewed | modelled |
| **Blind evaluation** `blind-evaluation-service.ts`, `supabase-repositories.ts` | session, comparisons, human intents, step ratings, judgments | submit intent, rating, judgment; read the view | intent compiler, model adapters | every service call is a chain of awaits without a transaction; a view is assembled from reads of different moments | outputs hidden until the intent is linked, sequential ratings, identities hidden until the last judgment | partly (the set import and the reveal's arithmetic are not) |
| **Readiness chain in SQL** (B, D0, D3, D4) | signals, readiness commits, delegability admissions, execution authorities | insert signal, commit readiness, admit delegability, grant authority | admission (consumes the D4 authority) | each function takes its clock before it waits for its locks | a consequence only on a READY that a fresh evaluation would give again | partly (snapshots and qualifications inserted on their own are not) |
| **Readiness orchestration** `outcome-readiness-authority-orchestrator.ts` and resolvers, `signal-readiness.ts` | none of its own | resolve authority, signals, dependency, candidate, material; commit; revalidate; admit | the SQL chain, the catalog | everything resolved may be stale when it is used; the universe is read one requirement per await | the verdict follows from the signals; CURRENT was true when the clock was taken | modelled |
| **Requirement catalog and bindings** (C0) `outcome-blueprint.ts`, `outcome-requirement-profile.ts`, their repositories | blueprints, requirement profiles, bindings | publish, bind, resolve | readiness | checks read in awaits before an atomic insert | unbroken version lines; a binding always resolves to the same requirements | modelled |
| **Identity and tenants** `M/20260814090000…` and the two phase-B migrations | principals, tenants, memberships | provision, invite, accept, revoke, suspend | everything above | two owners revoking each other; concurrent first logins | revocation takes effect at a definite point | partly (revocation and suspension) |
| **Field Beta and recovery** `field-beta-service.ts`, `recovery/*` | criterion evidence, strategy runs, field outcomes, feedback, samples, judgments, regressions, golden cases, recovery checkpoints | run, redrive a crashed run, record feedback and judgment, flag a regression, promote | verification runtime, admission, canonical commit | crash after any write; a redrive beside the live run; check-then-insert | an outcome stands on a whole experiment, delivers a rung of its ladder and is final | modelled |
| **Preservation and verification** `preservation-verification-service.ts` | transaction status, runs, candidates, evidence, verification | `runExperiment`, `getExperiment` | image engines, admission, Field Beta | 30-odd awaits without a transaction; several error paths, not all of which record a failure | legal transitions; partial chains are never published | partly (preference, approval and rejection, behind a retired route, are not) |
| **Preservation study** `preservation-study-service.ts` | case, locked intent, presentation, ratings, comparison, acceptance | enrol, lock intent, rate, compare, accept, view, decide | SQL lock function | order of the gates under concurrent clients; torn parallel reads | blindness at every step, a decision of complete cases only | partly (the study row and aggregates are not) |
| **Outcome kernel** `outcome-transaction-service.ts` | in-memory transactions, leases, versions, commits | prepare, execute, verify, commit, abort, rollback | fake executor, lab page | handlers that throw half way; pages with old heads; two notions of a locked path | no lost update, no commit without proof | modelled |
| **Specification layer** `specification/*` | task specs, criterion evidence | compile, bind, judge, authorize | verification, Field Beta | many small conjunctions; two judges of the same evidence | what is authorized was earned at every step before | partly (the linters are not) |
| **Image engines** `infrastructure/preservation`, `evidence`, `creative-assertions.ts` | pixels | geometry check, compositing, ladder, metrics, assertions | runtime | three roundings of one region; thresholds beside exact comparisons | a locked pixel of a passed candidate is the source's | partly (codec and HTTP are not) |
| Models, intent compiler, benchmarks, marketplace | one insert each | prompts, heuristics | | text | | not modelled |
| UI, proxy, scripts, assurance manifests | page state, cookies | presentation | the services | a lost answer on the screen | a screen says what is stored | partly (three pages) |

The components meet as follows. A request is compiled to a task spec; the *readiness chain*
turns human signals into a D4 execution authority; *admission* turns that authority into a
lease, a reserved attempt, one consumption and one provider call; the *runtime* stores
execution, candidates and verification; *Field Beta* publishes an outcome and collects
feedback; the *canonical commit* makes the accepted outcome the head of its asset. Tenant
authority is read, under locks, by admission, by readiness and by the commit. The
*requirement catalog* says which signals readiness asks for; the *image engines* and the
*specification layer* are what the runtime and its evidence are made of; the transaction
lab and the preservation study stand beside this line with tables of their own. The blind evaluation is a
closed loop of its own over the intent compiler.

## 2. Modules

### CanonicalCommit, CanonicalHead, CanonicalCommitProofs, MCCanonicalCommit

`CanonicalCommit` is the PL/pgSQL function as database sessions execute it. A **step is one
lock acquisition with the reads up to the next lock**: under READ COMMITTED each statement
sees what is committed when it starts, and `FOR UPDATE` waits and re-reads. The sequence of
`pc` values is the order of the F4 wrapper (read outcome, lock tenant, lock memberships in
`id` order, check authority) and then of the F1 body (read transaction, lock asset,
validate, apply). Which rows a session holds follows from its `pc` and from `held`.

| Code | Model |
|---|---|
| wrapper's first SELECTs, before any lock | `ReadOutcome` fills `accepter[s]` |
| `tenants … FOR UPDATE` | `LockTenant`, blocked while `~TenantFree` |
| membership loop, `ORDER BY id FOR UPDATE` | `LockMembership` / `VisitMembership` over `toLock`, `MembershipId` |
| F4 authority checks | `CheckAuthority` with the errors of `Denials` |
| F1 unlocked read of the transaction | `ReadTransaction` fills `seen[s]` |
| asset lock, replay and validation | `LockAsset`, `Verdict` (in the order of the code's IFs), `Validate` |
| version, StateCommit, head and status writes | `Apply` = `RecordCommit /\ MoveHead /\ FinishTransaction` |
| field feedback, `revoke_tenant_membership`, suspension | `SubmitFeedback`, `RevokeMembership`, `SuspendTenant` |
| publication of an outcome, by the live request or by a redrive that overtook it | `PublishOutcome`, with the transaction VERIFIED, FAILED or still VERIFYING (then in `pending`) |
| `updateStatus` at the end of `runExperiment`, which looks at nothing and waits for no lock | `FinishVerification` |
| a client that goes away | `Disconnect` (the answer is lost; a later `Call` is the retry) |

`FinishVerification` writes only VERIFIED: a redrive publishes nothing unless the
verification run PASSED, and that run decides the status. The live request may have died,
so no fairness obliges it. No other statement writes the status of a Field Beta
transaction: approval and rejection of an experiment are reached by no route, and the
commits of the transaction lab have transactions of their own.

`CanonicalHead` is the promise without sessions or locks: an outcome is proven, accepted,
and promoted at most once by compare-and-set of its base against the head.

### ExecutionAdmission, AdmissionGate, ExecutionAdmissionProofs, MCExecutionAdmission

Workers are gateway invocations or lease requests. Since D6 re-enters the D5 function
inside its own transaction, the D5 steps (`Freeze`, `LockTenant`, `GraphCurrent`) are
shared and `call[w]` says which function continues (`GrantLease`, `ReenterLease` then
`ReuseReservation`/`CreateReservation`, or `Admit`). `LockReservation` is consume's first
lock. `LoseClient` models a PostgREST client that disconnects or a process that dies: the
database function it started runs on (`orphan`), the gateway does not. `Tick` moves
`clock`; `now[w]` is the `v_now` the D5 body took **before** it waited. `ChangeGraph` and
`ChangeSemantics` stand for every write to rows D5 compares: transaction status, asset
head, readiness, signals, task spec and patch. `BreakDeadlock` is PostgreSQL's detector.

`AdmissionGate` is the promise: an attempt is reserved, admitted at most once, and
presented to the provider at most once and only after admission.

### BlindEvaluation, BlindEvaluationProofs, MCBlindEvaluation

**Every await of the service is a step**; only the unique constraints of the tables are
atomic. A client's request carries `pc`, its operation and `seen`, the part of the session
its view has read. `submitHumanIntent` is `FindIntent`, `CompileComparison`,
`RecordIntent`, `LinkIntent`; `submitStepRating` is `CheckRating`, `FindLink`,
`CountRatings`, `InsertRating`; `submitJudgment` is `CheckJudgment`, `FindRatings`,
`InsertJudgment`; each goes on into `getSessionView`: `ReadSession`, `ReadComparisons`, one
`ReadJudgment` per comparison in any order (`Promise.all`), `Conclude`, and then `Reveal`,
or `ReadLink` and `ShowCase` (`buildActiveCaseView`). `Abort` lets any request die at any
await with its writes kept. Evaluators follow the offered step, keep their form after an
error as the page does, and can resume through `GET /sessions/[id]`; API clients send any
operation. The page itself never calls that GET route: an evaluator who resumes stands for
a client that does.
The routes are internal (they answer only where the internal legacy routes are
enabled), and nothing in the service assumes a single client.

### FieldBetaRun, FieldBetaRunProofs, MCFieldBetaRun

One Field Beta transaction. The `live` request is `FieldBetaService.run` over
`runExperiment`; each of the `Recoverers` is an operator's redrive
(`completeFieldOutcome`). **Every await that writes is a step**, in the order of the code.
The rows that only accumulate are the set `rows`, and the straight-line parts of
`runExperiment` are functions from a row to the await after it (`SourceSteps`,
`IntentSteps`, `RawSteps`, ...), so that the order reads off one table; status, verdict,
artifacts, criterion evidence, ladder and outcome are variables of their own because later
steps depend on them.

| Code | Model |
|---|---|
| rows written one after the other | `PersistSource` ... `PersistPreservation`, `OpenTransaction`, `StoreEvidence` (a `Promise.all`) |
| `updateStatus`, which checks no transition | `UpdateStatus`, `Conclude` |
| task-spec binding that throws outside the `try` | `BindSpec` |
| D6 reserve and consume, provider, storage, preservation | `Reserve`, `Consume`, `Execute`, `StoreRaw`, `Preserve`, `StorePreserved`: each may fail, D6 also after its own commit |
| recovery checkpoint, `getExperiment` | `Redrive`, `ReadExperiment`, `ChainComplete` |
| `ensureCriterionEvidence` | `ReadEvidence`, `WriteEvidence` (reads all, then creates what was missing) |
| derived candidates, ladder rungs | `Derive`, `CreateDerived`, `RecordDerived`, `FindRung`, `CreateRung` |
| outcome, sample, view | `FindOutcome`, `CreateOutcome`, `MaybeCreateSample`, `BuildView` |
| unique constraints | the first disjunct of `CreateStrategyRun`, `CreateOutcome`, `WriteEvidence`: `Throw` |
| the fault points of the tests; any death | `InjectFault`; `Abort`, at most `MaxAborts` times |

`getExperiment` takes the first PRESERVED row of an unordered query, and derived
candidates are PRESERVED rows too: `ReadExperiment` may go to `misread`, which answers
`EXPERIMENT_INCOMPLETE`. `overlapped` records that a redrive started on a whole experiment
while another writer was at work; the code does not prevent it, and two properties say
what is lost then.

### FieldReview

What people record about delivered outcomes: each request is the check (`RecordFeedback`,
`FlagRegression`, `RecordJudgment`, `PromoteGolden`, `ReadForGolden`) and the insert
(`Insert`, with the unique constraints in `Inserted`), and `screen` is what the lab page
shows after an answer that may have been lost. `Eligible` is `deriveFieldSemanticStatus`,
which the canonical commit asks for.

### ReadinessAuthority, ReadinessAuthorityProofs, MCReadinessAuthority

One transaction and its members, each with one request in flight. A request is the
orchestrator's commit (`ResolveAuthority`, `ReadSignals` per requirement,
`ReadDependency`, `EvaluateCandidate`, `ReadMaterial`), the delegability admission
(`Revalidate`, the same reads, `AnswerCurrentness`, `ReadSerializedMaterial`) or a grant
(`RequestGrant`); `request[p]` carries what was read so far, and `Fail` ends it anywhere.
All three end in `Begin`, which takes the database clock, and a step with all locks held:
`CommitReadiness`, `AdmitDelegability`, `GrantExecutionAuthority`. The locks (tenant,
membership, transaction, asset) also hold back signal inserts, whose foreign key needs
the transaction row, so one step is faithful; `Tick` may come between the two.
`Qualification`, `Readiness`, `Horizon` and `Validity` are the pure functions of
`signal-readiness.ts` in the order of their returns. ExecutionAdmission starts where this
module ends: `authorities` are its D4 rows, and what moves here is its `ChangeGraph`.

### RequirementCatalog

Publication of blueprints and profiles, `BeginBinding`/`Bind`, and resolution
(`ReadBinding`, `ReadProfile`, `ReadBlueprint`), one read or insert per step. `Extends` is
the lineage trigger with the primary key.

### OutcomeKernel

The transaction lab. Its repositories are maps in the process: no await of a handler
yields to another request, so a handler is one step, and what it wrote before it throws
stays (`PrepareTransaction` leaves leases, `ExecuteTransaction` on a base that does not
exist leaves READY). `shown[p]` is the asset list a page fetched last. `Related` is the
dotted-path comparison of preparation, `PrefixRelated` the plain prefix of verification.
Over a database the same awaits would interleave; no route wires that.

### PreservationStudy

One case and its evaluators. `asks[p]` is a request in flight; `GetCaseBundle` gives every
bundle six parallel reads can return between its start and now. `Proposed` is what a
handler would insert given that bundle, `SequenceAllows` what constraints, trigger and
lock function admit at the insert, `Shown` what a view discloses.

### PixelPreservation

One experiment on one row of grey pixels. Region and band are eighths of the width, so
that floor and ceiling of the code are exact integer divisions, and smoothstep weights are
exact fractions. `Composite` is the engine, `Ladder(s)` the ladder engine, which repeats
that code, `Evidence` and `ChangedInside` the two metrics, `Verify` the assertions.

### SpecAuthority

`Compile` turns an input into a task spec (`Values` by provenance, `Pending` conditionals,
`Reasons`, `Requirements`, capability grant); `Bind`, `Verify` (the same-spec gate over
rows that are judged, claimed by an executor or missing), `DurableVerdict` (the stored
rows on their own), `Authorize`.

### Labs, MCLabs, PeopleProofs, RecordProofs, TaskProofs

FieldReview, OutcomeKernel, PreservationStudy, PixelPreservation, RequirementCatalog and
SpecAuthority share no state with each other. `Labs` instantiates the six and explores each
while the others stand still (`focus`): the reachable states are the disjoint union of
theirs, and an invariant of a part is one of the whole. It declares the constants of all
parts with what the parts need of them; `MCLabs` gives the values TLC uses. The theorems
about the parts are in three modules that extend `Labs`: `PeopleProofs` (review and study),
`RecordProofs` (kernel and catalog) and `TaskProofs` (pixels and specification).

## 3. What the runs show

| Run | Question | Instance and result |
|---|---|---|
| `CommitSafety` | history, atomicity, authority, replay and refinement of the commit | 2 sessions, 2 owners, 2 outcomes on one asset; about 1,340,000 states; holds |
| `CommitLiveness` | is every call answered? | 2 sessions, 2 owners and a non-owner, 1 outcome; about 190,000 states; holds |
| `CommitLateFeedback` | is the accepting owner's membership locked? (F4 decision record) | violated: feedback that commits between the wrapper's first read and its tenant lock |
| `AdmissionSafety` | single attempt, single call, current authority, fixed lease, refinement | 2 gateways, 2 authorities of 2 principals, clock to 2; about 1,540,000 states; holds |
| `AdmissionLiveness` | does every call end in spite of the lock order? | 2 gateways, one authority, a wrong operation; about 53,000 states; holds |
| `AdmissionExpiry` | is an expired lease refused at the insert? (D6 specification) | violated: consume waits for the tenant row past the end of the lease |
| `AdmissionLockOrder` | is there one lock order? (implementation sequence) | violated: a retried reserve and a consume wait for each other |
| `BlindSession` | disclosure, sequence, reveal, consistent views, completion | an evaluator and an API client, 2 cases, one dead request; about 510,000 states; holds |
| `BlindCompilation` | is compilation deferred until the intent is recorded? (migration comment) | violated: the comparison is inserted first |
| `FieldRun` | what is an outcome made of, whoever completes it; does redriving complete it? | a live request and one redrive, three plans, one death besides the fault points; about 605,000 states; holds |
| `Readiness` | is every consequence of a readiness based on the present? | one principal, two requirements, two signals, clock to 2, two commits; about 190,000 states; holds |
| `Labs` | do people's records agree, do lab commits stand, is the study blind, are locked pixels kept, do bindings resolve, is authority earned? | the six parts of MCLabs, two people each; about 580,000 states; holds |

**Bounds.** The races of the commit need two sessions and two owners (one revokes the
other, each may be caller or accepter) and two outcomes on one version; sessions repeat
calls without bound, versions are bounded by the outcomes. Admission has two workers
because each of its races is between two transactions (reserve/reserve, reserve/consume,
consume/consume); two principals give two leases at once, two authorities of different
length give a lease cut short by its authority, and `MaxTime` lets leases end both before
and during a wait. A third party (revocation, suspension, drift, vanished clients) is an
action, not a worker. The blind session needs two clients for its count-then-insert and
read-then-write races, two cases so that "all comparisons judged" differs from "all cases
judged", and `MaxAborts = 1` because one dead request already reaches every partial state
of a submission. Symmetry is used only in runs without liveness.

A field run has one live request by construction and one
redrive, because its unique constraints are per transaction: a third writer collides where
the second does. Its plans are a recommended original (P3), a recommended derived strategy
and an override; one death, besides the fault injection points, reaches every prefix of
the writes, and a redrive that dies may be called again. In `Readiness` one principal
suffices because admissions and grants are per principal and the others act only through
signals, head, status and membership, which are actions of anybody; of the two signals
one expires within the clock, the other comes from a clock that is ahead, so the verdict
changes with time alone in both directions; two commits give an admission of the older
one. `Labs`: two transactions make two patches on one head and three versions a commit
after a rollback; two evaluators a torn read; five pixels with all regions and bands in
eighths give every combination of roundings, an empty band and an empty locked zone; two
versions and a rival of each a race of publications; two specs a recompilation.

**Deadlock** is checked in every run but two: a field transaction whose live request died
before its checkpoint stops for good, and so do a finished experiment on pixels, a
completed study case and a lab whose transactions are all closed.

**Fairness.** A database session that is not waiting runs on, and a request that was
accepted is executed (weak fairness of `Step`, `ServiceStep`). PostgreSQL's lock queues are
first-come-first-served, so a waiter that finds the row free again and again gets it
(strong fairness of `LockTenant` and `LockReservation`); the deadlock detector runs after
`deadlock_timeout` and is part of `Step`. An evaluator keeps submitting, and now and then
resumes (strong fairness, since both are possible only between two requests). In a field
run the server executes the tail of a request it accepted, and an operator who sees a
verified transaction without an outcome keeps redriving it (weak fairness of
`Tail("live")` and `RedriveStep`); the experiment itself is under no obligation, and a
provider need not answer. `RedriveCompletes` names the one way this can fail for ever.
Nobody is obliged to start a call, and nothing is obliged to fail, expire or be revoked.

## 4. What is proved

All theorems hold for every value of the constants that satisfies the modules' named
assumptions: owners are principals, outcomes and authorities have assets and principals,
times are naturals, the null values are fresh, and a session has at least one case; the
parts of `Labs` have theirs in that module (below). Every safety and action property of a
passing run is stated by a theorem. The inductive invariants were checked with TLC before
they were proved.

**Commit** (`CanonicalCommitProofs`). `TypeInvariant`; `CommitAuthority` from
`AuthorityInv` (one session at a time is past the tenant lock, and every membership a
session holds is an ACTIVE owner's, which the row lock keeps true until the end).
`NoLostUpdate`, `Lineage` and `NoProofNoCommit` rest on `HistoryInv`, which adds to the
linear history that every StateCommit's version exists on its parent and that only the
asset lock's holder can be about to apply. The status a session reads without a lock can
change under it: the live request that a redrive overtook writes VERIFIED and waits for
nobody. `SeenInvariant` says what is left of the reading, and is what makes `Replay` and
`Atomicity` inductive. `SeenCurrent`: what was read is what is stored, or VERIFYING was
read and VERIFIED is stored. It holds because that write finds only VERIFYING
(`PendingVerifies`), and because the other write of the status, the commit itself, is made
by the one session past the tenant lock. So a session that goes on to commit has read
VERIFIED (`AppliesVerified`), which nothing has changed since, and one that is passed by
read VERIFYING and refuses; without `PendingVerifies` a late VERIFIED could undo a
COMMITTED and `Atomicity` with it. `Refinement` maps every step to a promote, an
accept, a prove or a stutter of `CanonicalHead`. `TrueAnswer` needs that no call is answered
before it ends (`Unanswered`): an old answer would pass for a new one.

**Admission** (`ExecutionAdmissionProofs`). `TypeInvariant`. `SingleProviderCall`,
`OneIdentity` and `Lineage` follow from `AdmissionInv`: attempts are numbered by the number
of reservations and each consumption is a ticket that exactly one gateway holds until it
calls the provider. Without the ticket the property is not inductive: nothing else rules
out two gateways past consume with one attempt. `AdmissionAuthority` comes from
`AuthorityInv` (what a function checked under a lock stays true until it ends),
`LeaseFixed` from the single writer of leases, `GateImplemented` from both.

**Blind evaluation** (`BlindEvaluationProofs`). `BlindInv` says what each request knows of
the rows (`Sound`) and who owns an intent (`IntentOwned`). Rows only grow, so what one
request knows survives the others' steps (`SoundStays`); a link is never undone because the
intent is written only by the request that inserted the comparison. From it follow
`BlindDisclosure`, `SequentialRatings`, `RevealLast` and `ConsistentViews`; `TypeInvariant`
is proved first.

**Field Beta run** (`FieldBetaRunProofs`). `RunInv` has four parts. `Typed` adds to the
types that a loop index stays within its list. `ExperimentInv`: at each await of the live
request exactly the rows before it exist (`Held`), with the status they imply
(`StatusHeld`), and a request in the tail has the whole chain behind it. `TailInv`: each
request's place in its loops says which criteria, rungs and candidates exist
(`ProgressOK`), a rung holds its strategy's candidate and the role its writer gave it
(`RungOK`). `AloneInv`: until a redrive overlaps, one writer at a time is in the tail, and
its view of a derived candidate is the rung's. `Complete` needs the first three,
`Delivered` and `Final` also the last, which is exactly what an overlap destroys;
`Transitions` follows from `StatusHeld`.

**Readiness** (`ReadinessAuthorityProofs`). `ReadinessInv` says of every commit that its
verdict and horizon are those of its signals at its instant, and of every request what its
reads amount to. Two arguments carry it. `ReadyUntilHorizon`: between evaluation and
horizon no qualification can change, since signals captured by then stay captured and none
has expired; the horizon exists as a least instant by well-foundedness
(`HorizonIsLeast`). `WillTell`: a revalidation whose universe so far agrees with the
commit's can only end in CURRENT if the commit was current when the clock was taken,
because signals are never withdrawn and the head never comes back. `CommittedReady`,
`CurrentTrue` and `FreshConsequences` follow.

**The parts of Labs.** Each part has a type theorem and an invariant of its own, proved of
the part's specification; a lemma (`ReviewRuns`, `KernelRuns`, ...) shows that a behaviour
of `Labs` is one of the part, step for step or stuttering (`Spec => Part!Spec`), and the
invariant the run checks follows (`RecordsOfPeopleAgree`, `StudyStaysBlind`,
`LabCommitsStand`, `EveryBindingResolves`, `LockedPixelsKept`, `AuthorityEarned`).

- *Field review* (`PeopleProofs`). `ReviewInv`: what a request read still holds when it
  inserts (`Kept`), what a screen shows is stored (`Truthful`), because records only grow
  (`Grows`). Hence `Agreement`, and `EligibilityFinal`, which the canonical commit relies on.
- *Value study* (`PeopleProofs`). `StudyInv`: the rows of the case exist in the order of the
  gates (`Sequenced`), a comparison says of the candidates what the presentation makes of it
  (`Derived`), what a request has read is part of what is stored however torn its reads were
  (`Part`), and what a page was shown or decided is backed by rows that exist (`Earned`).
  Rows are never removed, so a step that was earned stays earned. What a service concludes
  from a torn bundle is sound because the step it computes is monotone: `StepMeans` says
  which rows a bundle at a step must hold. A decision is taken on a complete case, of which
  there is only one bundle. Hence `Blindness`.
- *Kernel* (`RecordProofs`). `KernelInv`: an asset's head is its latest version
  (`HeadsLatest`), versions are numbered by position (`Numbered`), a verified transaction is
  proven (`ProvenVerified`); a committed one is never touched again (`CommittedStays`).
  Hence `Commits`.
- *Catalog* (`RecordProofs`). `CatalogInv`: `LineGrows` (the trigger extends an unbroken
  line) and `OthersRely` (nothing published is taken away). Hence `Resolution`.
- *Pixels* (`TaskProofs`). `PixelsInv`: a candidate is what one of the two engines made of
  the row under a valid policy, and a verdict was given on it as it still is. The rest is
  arithmetic for every width: `Quotient` bounds an integer division, `Zones` shows that the
  three roundings of region and band give zones whose sizes are the counts and a diff region
  inside the core, `WeightFraction` that smoothstep gives a fraction, `Made` that a blend
  lies between source and answer. Hence `PixelsKeep`.
- *Specification* (`TaskProofs`). `SpecificationInv`: a READY spec was worth it when it was
  compiled (`Worthy`, by `CompiledWorthy`) and later compilations do not touch it; a
  verification is bound and judged by its facts (`Honest`). Hence `SpecificationEarns`.

What the parts assume of their constants, each justified by the code: `ReviewConstants` (a
page opens on some outcome), `KernelConstants` (requests have the form the lab's schema
admits), `StudyConstants` (the values of the study's enumerations, at least one case),
`PixelConstants` (a row has a pixel, a pixel is a byte) and `BlueprintConstants` (unique
ids, fixed variables have values, conditionals name variables, nothing both granted and
denied, which the blueprint schema enforces; no conditional decides about the condition of
another and a default is an allowed value, which it does not, see section 5).

**Model-checked only.** The liveness properties (`EveryCallAnswered`, `EveryCallEnds`,
`SessionCompletes`, `RedriveCompletes`): liveness under fairness is outside the prover's
reach. The four disagreements below are counterexamples.

**What the proofs found in the models.** CASE with guards that overlap picks any of the
arms, while TLC takes the first: a proof about such a definition covers orders of tests the
code does not have, and fails. Three definitions were written that way (`DetermineStep` and
`SuggestDecision` in PreservationStudy, `Shown` in FieldReview); they now test in the order
of the code's early returns.

## 5. Disagreements between the code and its documents

1. `CommitLateFeedback`: the accepting principal is read before any lock, so the owner who
   accepts at the wrong moment can be revoked before the commit; F4's decision record says
   the acceptance actor's row is locked.
2. `AdmissionExpiry`: after the expiry check, consume can wait for the tenant row past the
   end of lease and reservation; the D6 specification asks for revalidation immediately
   before consumption.
3. `AdmissionLockOrder`: reserve locks tenant then reservation, consume the other way round.
   `AdmissionLiveness` shows that the detector resolves it and every call still ends.
4. `BlindCompilation`: the comparison is compiled and stored before the intent. Disclosure
   stays safe (`IntentBeforeDisclosure`), but a request that dies in between leaves a case
   no later request can repair, which is why `SessionCompletes` assumes no dead request.

Other things the code does that a maintainer may want to know. They are in the models, and
the properties are stated so as to be true of them.

- Within one run no D5 lease can exist: D5 asks for PREPARED and a field outcome,
  `runExperiment` moves to EXECUTING before it asks and writes the outcome afterwards.
  FieldBetaRun lets D6 answer either way, so that everything behind it is explored.
- A crash between `verificationRuns.create` and the status it decides leaves a transaction
  VERIFYING for ever, although a redrive completes its outcome (`OutcomeComplete`). Such an
  outcome can be accepted and never committed: the commit answers VERIFICATION_REQUIRED
  each time (`CanonicalCommit`).
- A redrive beside the live request can deliver a derived candidate that is not on the
  ladder, which `buildView` then cannot show. `DeliveredOnLadder` excludes it by
  `overlapped`, and so does the half of `OutcomeIsFinal` about the other rows: such
  a delivery is reported here and caught by no property.
- A redrive forgets the operator's override, while rungs the crashed run wrote keep the
  role of the chosen strategy. `DeliveredOnLadder` compares roles only where the plan
  follows the recommendation.
- Commit of a readiness, admission and grant take their clock when they start and then wait
  for locks. What the properties say of expiry (`CommittedReadinessHolds`,
  `ConsequencesAreFresh`) they say of that instant; evidence that expires during the wait
  still counts. `AdmissionExpiry` is the place where a document asks for more.
- `getExperiment` may return a derived candidate and call the experiment incomplete
  (`RedriveCompletes` excludes it).
- Only an outcome that delivers P3 can ever be of the same spec, hence committable, because
  the evidence names P3's candidate (`OutcomeComplete`).
- The live path stores as same-spec status the gate's answer, which is always BLOCKED: the
  human criterion is critical and no live evidence has it. The redrive stores what the
  durable rows say, PASSED for the same evidence.
- A task spec with a critical variable that is not required compiles to READY and then
  throws when its hash is attached.
- In the kernel a StateCommit's previous version is the new one (an aliased object), a
  rollback checks neither status nor ownership of the version, and a preparation that was
  refused leaves a lease that can fail the next one's verification.
- The blueprint schema accepts a conditional whose default its target does not allow, and
  conditionals that decide about each other's conditions, which the compiler settles in one
  pass. The one blueprint of the code has neither; for a blueprint that had, a READY spec
  could carry a value that is not allowed or miss one that is required, so
  `AuthorizationEarned` is proved under `BlueprintConstants` only.
- Publishing a definition again after a lost answer is refused by the primary key.

## 6. What the models leave out

- *Hashes and readbacks.* Content hashes are identities: comparing an immutable row with
  its own hash is always true here. In CanonicalCommit exact evidence is one fact per
  outcome (`exact`), in ExecutionAdmission the D4 graph one fact (`drifted`);
  FieldBetaRun and ReadinessAuthority have what they stand for.
- *Other tenants.* Row-level security keeps them out of every row a module mentions.
- *Contents.* Images (beyond one row of pixels), prompts, ratings' texts and models'
  answers change no control flow.
- *Half of a lock cycle.* D5 locks the signal and semantics tables in SHARE mode while it
  holds the tenant row. `ChangeSemantics` and `ChangeGraph` write those tables in one step, so a
  writer that holds its table lock and waits for the tenant row is not explored.
- *The flag `critical` of a conditional.* The default of a conditional brings the
  conditional's own flag to its target. The compiled spec is asked for the flag only of
  values whose provenance is UNKNOWN, and a defaulted value is APPROVED.
- *Tenant administration.* Provisioning, invitations and the core-lineage route are single
  SQL statements behind unique indexes.
- *Reads for people.* Dashboards and field metrics aggregate rows and change none.
- *Retired and unreachable operations.* `/api/precision-edit` answers 410, so
  preference, approval and rejection are reached by nothing; the spec linters only by tests.
- *Arithmetic of floating point.* Weights are exact fractions; a rounding error of the
  float computation could move a blended pixel by one grey level and no zone.
- *Adapters, text and tooling.* Models, the intent compiler, benchmarks, the marketplace
  vocabulary, PNG decoding, scripts and the assurance manifests of the development process
  (`development-evidence.mts`) have no state shared between actors.

## 7. Plan

What would come next, the most consequential first.

1. **TenantAuthority**: provisioning, invitation, acceptance, revocation under READ
   COMMITTED; what the last-owner rule can and cannot promise.
2. **Composition**: ReadinessAuthority's grants as ExecutionAdmission's authorities, and
   FieldBetaRun's outcome as the publication of CanonicalCommit, as refinements.
3. **Theorems**: the compositions of item 2, step by step; the inductive invariants under
   several tenants.
4. **Blind evaluation**: set import and the reveal's scores; **study**: several cases and
   the aggregate decision.
