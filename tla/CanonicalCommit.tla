--------------------------- MODULE CanonicalCommit ---------------------------
(***************************************************************************)
(* The canonical finalization of an accepted Field Beta outcome: the       *)
(* PostgreSQL function commit_accepted_field_outcome (the F4 wrapper       *)
(* around the F1 body) run by concurrent database sessions, next to the    *)
(* statements it races with: human feedback, membership revocation, tenant *)
(* suspension, the publication of outcomes and the late status of a        *)
(* verification.                                                           *)
(*                                                                         *)
(* Isolation is READ COMMITTED: every statement of the function reads the  *)
(* rows committed when it starts, FOR UPDATE waits for the row's holder    *)
(* and re-evaluates the row, and the writes of a session become visible    *)
(* together when it ends.  One step is therefore one lock acquisition and  *)
(* the reads that follow it up to the next lock.  A session's locks follow *)
(* from its program counter, so they are not variables of their own.       *)
(*                                                                         *)
(* One tenant is modelled; sessions of other tenants touch no row of it.   *)
(* A version of an asset is identified with its version_number, which      *)
(* unique(asset_id, version_number) makes a key.                           *)
(***************************************************************************)
EXTENDS Naturals, Sequences

CONSTANTS
  Session,        \* database connections that call the function
  Principal,      \* authenticated users with a membership of the tenant
  Owner,          \* those whose membership has role OWNER
  Outcome,        \* field outcomes; each has its own OutcomeTransaction
  Asset,
  AssetOf,        \* the asset an outcome's transaction belongs to
  MembershipId,   \* tenant_memberships.id, the order of the F4 lock loop
  NoOne,
  NoOutcome

ASSUME OwnerAssumption == Owner \subseteq Principal
ASSUME AssetOfAssumption == AssetOf \in [Outcome -> Asset]
ASSUME MembershipIdAssumption == MembershipId \in [Principal -> Nat]
ASSUME NoOneAssumption == NoOne \notin Principal
ASSUME NoOutcomeAssumption == NoOutcome \notin Outcome

VARIABLES
  tenantStatus,   \* tenants.status
  membership,     \* membership[p]: tenant_memberships.status
  txStatus,       \* txStatus[o]: outcome_transactions.status, "NONE" before publication
  base,           \* base[o]: outcome_transactions.base_version_id
  pending,        \* outcomes whose live request has still to write the verified status
  exact,          \* exact[o]: TaskSpec, execution, verification and criterion evidence bind exactly
  feedback,       \* feedback[o]: the committed field_feedback row
  head,           \* head[a]: assets.current_version_id
  versions,       \* versions[a][n]: parent_version_id of version n
  stateCommits,   \* rows of state_commits
  pc,             \* pc[s]: the statement the session runs next
  actor,          \* actor[s]: auth.uid()
  target,         \* target[s]: p_field_outcome_id
  accepter,       \* accepter[s]: accepting_principal as the wrapper read it
  toLock,         \* toLock[s]: membership rows the lock loop has still to visit
  held,           \* held[s]: membership rows locked FOR UPDATE
  seen,           \* seen[s]: transaction.status as the F1 body read it
  answer          \* answer[s]: what the session last returned

authority == <<tenantStatus, membership>>
pipeline  == <<base, exact, pending>>
canonical == <<txStatus, head, versions, stateCommits>>
locals    == <<pc, actor, target, accepter, toLock, held, seen, answer>>
vars == <<authority, pipeline, canonical, feedback, locals>>

NoFeedback == [by |-> NoOne, accepted |-> FALSE]

\* Program points at which the session holds the tenant row, then the asset row.
HoldsTenant == {"members", "transaction", "asset", "validate", "apply"}
HoldsAsset  == {"validate", "apply"}

\* outcome_transactions.status of a published outcome, and "NONE" before.
Status == {"NONE", "VERIFYING", "FAILED", "VERIFIED", "COMMITTED"}

Denials == {"COMMIT_NOT_AUTHORIZED", "ACCEPTANCE_AUTHORITY_REVOKED",
            "EXISTING_COMMIT_INCONSISTENT", "VERIFICATION_REQUIRED",
            "STALE_HEAD", "HUMAN_ACCEPTANCE_REQUIRED",
            "EXACT_EVIDENCE_REQUIRED", "UNIQUE_VIOLATION"}

TenantFree == \A t \in Session : pc[t] \notin HoldsTenant
AssetFree(a) ==
  \A t \in Session : pc[t] \in HoldsAsset => AssetOf[target[t]] # a
\* Mutant: the memberships are read without FOR UPDATE.
MembershipUnlocked(p) == TRUE
MembershipFree(p) == \A t \in Session : p \notin held[t]

ActiveOwner(p) == p \in Owner /\ membership[p] = "ACTIVE"
CommitsOf(o) == {c \in stateCommits : c.transaction = o}

TypeOK ==
  /\ tenantStatus \in {"ACTIVE", "SUSPENDED"}
  /\ membership \in [Principal -> {"ACTIVE", "REVOKED"}]
  /\ txStatus \in [Outcome -> Status]
  /\ base \in [Outcome -> Nat]
  /\ pending \subseteq Outcome
  /\ exact \in [Outcome -> BOOLEAN]
  /\ feedback \in [Outcome -> [by: Principal \cup {NoOne}, accepted: BOOLEAN]]
  /\ head \in [Asset -> Nat]
  /\ versions \in [Asset -> Seq(Nat)]
  /\ stateCommits \subseteq [transaction: Outcome, asset: Asset, new: Nat, previous: Nat]
  /\ pc \in [Session -> {"idle", "read", "tenant"} \cup HoldsTenant]
  /\ actor \in [Session -> Principal \cup {NoOne}]
  /\ target \in [Session -> Outcome \cup {NoOutcome}]
  /\ accepter \in [Session -> Principal \cup {NoOne}]
  /\ toLock \in [Session -> SUBSET Principal]
  /\ held \in [Session -> SUBSET Principal]
  /\ seen \in [Session -> Status]
  /\ answer \in [Session -> {"none", "committed", "idempotent", "lost"} \cup Denials]

\* Every asset starts with the version create_tenant_asset_with_initial_version made.
Init ==
  /\ tenantStatus = "ACTIVE"
  /\ membership = [p \in Principal |-> "ACTIVE"]
  /\ txStatus = [o \in Outcome |-> "NONE"]
  /\ base = [o \in Outcome |-> 0]
  /\ pending = {}
  /\ exact = [o \in Outcome |-> FALSE]
  /\ feedback = [o \in Outcome |-> NoFeedback]
  /\ head = [a \in Asset |-> 1]
  /\ versions = [a \in Asset |-> <<0>>]
  /\ stateCommits = {}
  /\ pc = [s \in Session |-> "idle"]
  /\ actor = [s \in Session |-> NoOne]
  /\ target = [s \in Session |-> NoOutcome]
  /\ accepter = [s \in Session |-> NoOne]
  /\ toLock = [s \in Session |-> {}]
  /\ held = [s \in Session |-> {}]
  /\ seen = [s \in Session |-> "NONE"]
  /\ answer = [s \in Session |-> "none"]
-----------------------------------------------------------------------------
(* The statements the commit races with. *)

\* An outcome is published on some version of its asset, the head or an older one:
\* by the live request, whose verification wrote VERIFIED or FAILED, or by a
\* redrive.  The redrive asks for a PASSED verification run and not for the
\* status, which the live request writes after that run: it may publish while
\* the transaction is VERIFYING.  Exact evidence needs that run to have PASSED.
PublishOutcome(o) ==
  /\ txStatus[o] = "NONE"
  /\ \E status \in {"VERIFYING", "VERIFIED", "FAILED"},
        b \in DOMAIN versions[AssetOf[o]], e \in BOOLEAN :
       /\ e => status # "FAILED"
       /\ txStatus' = [txStatus EXCEPT ![o] = status]
       /\ base' = [base EXCEPT ![o] = b]
       /\ exact' = [exact EXCEPT ![o] = e]
       /\ pending' = IF status = "VERIFYING" THEN pending \cup {o} ELSE pending
  /\ UNCHANGED <<authority, feedback, head, versions, stateCommits, locals>>

\* The live request a redrive overtook writes the status its PASSED run decides.
\* The update looks at nothing and waits for no lock of the function, which locks
\* no transaction row.  The request may have died: then it never comes.
FinishVerification(o) ==
  /\ o \in pending
  /\ txStatus' = [txStatus EXCEPT ![o] = "VERIFIED"]
  /\ pending' = pending \ {o}
  /\ UNCHANGED <<authority, base, exact, feedback, head, versions, stateCommits, locals>>

\* Mutant: a second feedback row replaces the first.
ResubmitFeedback(p, o, accepted) ==
  /\ txStatus[o] # "NONE"
  /\ ActiveOwner(p)
  /\ tenantStatus = "ACTIVE"
  /\ TenantFree
  /\ feedback' = [feedback EXCEPT ![o] = [by |-> p, accepted |-> accepted]]
  /\ UNCHANGED <<authority, pipeline, canonical, locals>>

\* An insert into field_feedback: its trigger requires an active OWNER of an
\* active tenant, its foreign key takes a share lock on the tenant row, which
\* waits for a FOR UPDATE holder, and field_outcome_id is unique.  A revocation
\* between the trigger and the commit of the row leaves the state that a
\* revocation after the commit leaves, so the insert is one step.
SubmitFeedback(p, o, accepted) ==
  /\ txStatus[o] # "NONE"
  /\ feedback[o] = NoFeedback
  /\ ActiveOwner(p)
  /\ tenantStatus = "ACTIVE"
  /\ TenantFree
  /\ feedback' = [feedback EXCEPT ![o] = [by |-> p, accepted |-> accepted]]
  /\ UNCHANGED <<authority, pipeline, canonical, locals>>

\* revoke_tenant_membership: an active OWNER revokes a membership, its own included.
RevokeMembership(p, by) ==
  /\ membership[p] = "ACTIVE"
  /\ ActiveOwner(by)
  /\ MembershipFree(p)
  /\ membership' = [membership EXCEPT ![p] = "REVOKED"]
  /\ UNCHANGED <<tenantStatus, pipeline, canonical, feedback, locals>>

\* An operator suspends the tenant; the row update waits for a FOR UPDATE holder.
SuspendTenant ==
  /\ tenantStatus = "ACTIVE"
  /\ TenantFree
  /\ tenantStatus' = "SUSPENDED"
  /\ UNCHANGED <<membership, pipeline, canonical, feedback, locals>>
-----------------------------------------------------------------------------
(* The function, one action per lock it takes. *)

\* The session's transaction ends: its locks go and the client gets a reply.
Return(s, reply) ==
  /\ answer' = [answer EXCEPT ![s] = reply]
  /\ pc' = [pc EXCEPT ![s] = "idle"]
  /\ actor' = [actor EXCEPT ![s] = NoOne]
  /\ target' = [target EXCEPT ![s] = NoOutcome]
  /\ accepter' = [accepter EXCEPT ![s] = NoOne]
  /\ toLock' = [toLock EXCEPT ![s] = {}]
  /\ held' = [held EXCEPT ![s] = {}]
  /\ seen' = [seen EXCEPT ![s] = "NONE"]

\* A transaction that raises writes nothing.
Raise(s, error) == Return(s, error) /\ UNCHANGED canonical

Call(s, p, o) ==
  /\ pc[s] = "idle"
  /\ txStatus[o] # "NONE"
  /\ pc' = [pc EXCEPT ![s] = "read"]
  /\ actor' = [actor EXCEPT ![s] = p]
  /\ target' = [target EXCEPT ![s] = o]
  /\ answer' = [answer EXCEPT ![s] = "none"]
  /\ UNCHANGED <<authority, pipeline, canonical, feedback, accepter, toLock, held, seen>>

\* F4: the outcome left-joined with its feedback, before any lock is held.
ReadOutcome(s) ==
  /\ pc[s] = "read"
  /\ accepter' = [accepter EXCEPT ![s] = feedback[target[s]].by]
  /\ pc' = [pc EXCEPT ![s] = "tenant"]
  /\ UNCHANGED <<authority, pipeline, canonical, feedback, actor, target, toLock, held, seen, answer>>

\* Mutant: an outcome without feedback has NULL in the loop.
NullToLock(s) == {actor[s], accepter[s]}
\* F4: the memberships the loop selects, of the caller and of the accepting principal.
RowsToLock(s) == {actor[s], accepter[s]} \ {NoOne}

\* F4: tenants ... status = 'ACTIVE' for update.
LockTenant(s) ==
  /\ pc[s] = "tenant"
  /\ TenantFree
  /\ IF tenantStatus = "ACTIVE"
     THEN /\ pc' = [pc EXCEPT ![s] = "members"]
          /\ toLock' = [toLock EXCEPT ![s] = RowsToLock(s)]
          /\ UNCHANGED <<canonical, actor, target, accepter, held, seen, answer>>
     ELSE Raise(s, "COMMIT_NOT_AUTHORIZED")
  /\ UNCHANGED <<authority, pipeline, feedback>>

\* Mutant: the loop waits for a row that was revoked before it got there.
AwaitRevoked(s, p) ==
  /\ ActiveOwner(p)
  /\ toLock' = [toLock EXCEPT ![s] = @ \ {p}]
  /\ held' = [held EXCEPT ![s] = @ \cup {p}]
\* F4: one iteration of the FOR UPDATE loop for p; a row that is not an active
\* OWNER membership any more is absent from the loop.
VisitMembership(s, p) ==
  /\ toLock' = [toLock EXCEPT ![s] = @ \ {p}]
  /\ held' = IF ActiveOwner(p) THEN [held EXCEPT ![s] = @ \cup {p}] ELSE held

\* F4: the loop, in membership.id order.
LockMembership(s) ==
  /\ pc[s] = "members"
  /\ \E p \in toLock[s] :
       /\ \A q \in toLock[s] : MembershipId[p] <= MembershipId[q]
       /\ MembershipFree(p)
       /\ VisitMembership(s, p)
  /\ UNCHANGED <<authority, pipeline, canonical, feedback, pc, actor, target, accepter, seen, answer>>

\* F4: the checks after the loop, then the delegation to the F1 body.
CheckAuthority(s) ==
  /\ pc[s] = "members"
  /\ toLock[s] = {}
  /\ IF actor[s] \notin held[s] THEN Raise(s, "COMMIT_NOT_AUTHORIZED")
     ELSE IF accepter[s] # NoOne /\ accepter[s] \notin held[s]
     THEN Raise(s, "ACCEPTANCE_AUTHORITY_REVOKED")
     ELSE /\ pc' = [pc EXCEPT ![s] = "transaction"]
          /\ UNCHANGED <<canonical, actor, target, accepter, toLock, held, seen, answer>>
  /\ UNCHANGED <<authority, pipeline, feedback>>

\* F1: the transaction row is read without a lock.
ReadTransaction(s) ==
  /\ pc[s] = "transaction"
  /\ seen' = [seen EXCEPT ![s] = txStatus[target[s]]]
  /\ pc' = [pc EXCEPT ![s] = "asset"]
  /\ UNCHANGED <<authority, pipeline, canonical, feedback, actor, target, accepter, toLock, held, answer>>

\* F1: the asset row is locked FOR UPDATE.
LockAsset(s) ==
  /\ pc[s] = "asset"
  /\ AssetFree(AssetOf[target[s]])
  /\ pc' = [pc EXCEPT ![s] = "validate"]
  /\ UNCHANGED <<authority, pipeline, canonical, feedback, actor, target, accepter, toLock, held, seen, answer>>

\* The existing commit of the transaction is the one the head still shows.
ConsistentReplay(s) ==
  /\ \A c \in CommitsOf(target[s]) : c.asset = AssetOf[target[s]] /\ head[c.asset] = c.new
  /\ seen[s] = "COMMITTED"

\* Mutant: any feedback counts as acceptance.
AnyFeedback(o) == feedback[o] # NoFeedback
HumanAcceptance(o) == feedback[o].accepted

\* Mutant: the outcome's PASSED run is taken for the status it decides.
PassedRun(s) == seen[s] \in {"VERIFYING", "VERIFIED"}
Verified(s) == seen[s] = "VERIFIED"

\* Mutant: the status is checked before the existing commit.
StatusFirst(s) ==
  IF ~Verified(s) THEN "VERIFICATION_REQUIRED"
  ELSE IF CommitsOf(target[s]) # {} THEN "EXISTING_COMMIT_INCONSISTENT"
  ELSE "valid"
\* Mutant: a transaction that is not VERIFIED any more is taken for committed.
UnverifiedIsDone(s) ==
  IF ~Verified(s) THEN "idempotent"
  ELSE IF head[AssetOf[target[s]]] # base[target[s]] THEN "STALE_HEAD" ELSE "valid"

\* F1: the chain of checks from the existing commit to the delivered candidate,
\* in the order of the code; the first that fails raises.
Verdict(s) ==
  LET o == target[s] IN
  IF CommitsOf(o) # {}
  THEN IF ConsistentReplay(s) THEN "idempotent" ELSE "EXISTING_COMMIT_INCONSISTENT"
  ELSE IF ~Verified(s) THEN "VERIFICATION_REQUIRED"
  ELSE IF head[AssetOf[o]] # base[o] THEN "STALE_HEAD"
  ELSE IF ~HumanAcceptance(o) THEN "HUMAN_ACCEPTANCE_REQUIRED"
  ELSE IF ~ActiveOwner(feedback[o].by) THEN "ACCEPTANCE_AUTHORITY_REVOKED"
  ELSE IF ~exact[o] THEN "EXACT_EVIDENCE_REQUIRED"
  ELSE "valid"

Validate(s) ==
  /\ pc[s] = "validate"
  /\ IF Verdict(s) = "valid"
     THEN /\ pc' = [pc EXCEPT ![s] = "apply"]
          /\ UNCHANGED <<canonical, actor, target, accepter, toLock, held, seen, answer>>
     ELSE Raise(s, Verdict(s))
  /\ UNCHANGED <<authority, pipeline, feedback>>

\* Mutant: the head is left for a later statement.
ForgetHead(a, n) == UNCHANGED head
\* F1: update assets set current_version_id.
MoveHead(a, n) == head' = [head EXCEPT ![a] = n]

\* Mutant: previous_version_id is read after the head moved.
RecordCommitAfterHead(o, n) ==
  stateCommits' = stateCommits \cup
    {[transaction |-> o, asset |-> AssetOf[o], new |-> n, previous |-> n]}
\* F1: insert into state_commits.
RecordCommit(o, n) ==
  stateCommits' = stateCommits \cup
    {[transaction |-> o, asset |-> AssetOf[o], new |-> n, previous |-> base[o]]}

\* F1: update outcome_transactions set status.
FinishTransaction(o) == txStatus' = [txStatus EXCEPT ![o] = "COMMITTED"]

\* F1: insert the version with the next number, compare-and-set the head, insert
\* the StateCommit (unique transaction_id), finish the transaction, commit.
Apply(s) ==
  LET o == target[s]
      a == AssetOf[o]
      n == Len(versions[a]) + 1
  IN
  /\ pc[s] = "apply"
  /\ IF head[a] # base[o] THEN Raise(s, "STALE_HEAD")
     ELSE IF CommitsOf(o) # {} THEN Raise(s, "UNIQUE_VIOLATION")
     ELSE /\ versions' = [versions EXCEPT ![a] = Append(@, base[o])]
          /\ MoveHead(a, n)
          /\ RecordCommit(o, n)
          /\ FinishTransaction(o)
          /\ Return(s, "committed")
  /\ UNCHANGED <<authority, pipeline, feedback>>

\* The connection is lost or the server cancels the statement: the transaction
\* rolls back and the client, who knows nothing, may call again.
Disconnect(s) ==
  /\ pc[s] # "idle"
  /\ Raise(s, "lost")
  /\ UNCHANGED <<authority, pipeline, feedback>>

Step(s) ==
  \/ ReadOutcome(s) \/ LockTenant(s) \/ LockMembership(s) \/ CheckAuthority(s)
  \/ ReadTransaction(s) \/ LockAsset(s) \/ Validate(s) \/ Apply(s)

Next ==
  \/ \E o \in Outcome : PublishOutcome(o) \/ FinishVerification(o)
  \/ \E p \in Principal, o \in Outcome, accepted \in BOOLEAN : SubmitFeedback(p, o, accepted)
  \/ \E p, by \in Principal : RevokeMembership(p, by)
  \/ SuspendTenant
  \/ \E s \in Session, p \in Principal, o \in Outcome : Call(s, p, o)
  \/ \E s \in Session : Step(s)
  \/ \E s \in Session : Disconnect(s)

Spec == Init /\ [][Next]_vars

\* The server schedules every session that can run.  A session waiting for the
\* tenant row is queued for it, so it gets it if it is free again and again.
Fairness ==
  \A s \in Session : WF_vars(Step(s)) /\ SF_vars(LockTenant(s))

FairSpec == Spec /\ Fairness
-----------------------------------------------------------------------------
(* Properties. *)

\* The versions of an asset form one line that ends at the head: no commit forks
\* the history or overwrites a head another session moved.
LinearHistory ==
  \A a \in Asset :
    /\ head[a] = Len(versions[a])
    /\ \A n \in 2 .. Len(versions[a]) : versions[a][n] = n - 1

\* Every version after the first was made by one StateCommit, for a transaction
\* prepared against the version's parent, and no transaction made two.
CommitLineage ==
  /\ \A a \in Asset : \A n \in 2 .. Len(versions[a]) :
       \E c \in stateCommits :
         /\ c.asset = a /\ c.new = n /\ c.previous = versions[a][n]
         /\ base[c.transaction] = c.previous
  /\ \A c, d \in stateCommits :
       c.transaction = d.transaction \/ (c.asset = d.asset /\ c.new = d.new) => c = d

\* The transaction says COMMITTED exactly when its StateCommit exists, whatever
\* sessions failed, raised or lost their connection on the way and however late
\* the live request writes its VERIFIED.
FinishedIffCommitted ==
  \A o \in Outcome : txStatus[o] = "COMMITTED" <=> CommitsOf(o) # {}

\* Nothing becomes canonical without both exact machine evidence and a human's
\* acceptance of that very outcome.
CommitIsProvenAndAccepted ==
  \A c \in stateCommits : exact[c.transaction] /\ feedback[c.transaction].accepted

Commits(s) == pc[s] = "apply" /\ answer'[s] = "committed"

\* When a canonical commit takes effect its tenant is active, the caller is an
\* active OWNER, and so is the accepting principal the wrapper read: suspension
\* and revocation either came first and denied it or wait for it.
CommitUnderCurrentAuthority ==
  [][\A s \in Session : Commits(s) =>
       /\ tenantStatus = "ACTIVE"
       /\ ActiveOwner(actor[s])
       /\ accepter[s] # NoOne => ActiveOwner(accepter[s])]_vars

\* When a canonical commit takes effect, the principal whose acceptance it rests
\* on is an active OWNER.
CommitUnderAcceptingAuthority ==
  [][\A s \in Session : Commits(s) => ActiveOwner(feedback[target[s]].by)]_vars

\* A retry of a committed outcome is answered with its StateCommit as long as no
\* later commit moved the head, although the session read the transaction row
\* before it locked the asset.
ReplayIsIdempotent ==
  [][\A s \in Session :
       /\ pc[s] = "validate" /\ pc'[s] # "validate"
       /\ \E c \in CommitsOf(target[s]) : head[c.asset] = c.new
       => answer'[s] \in {"idempotent", "lost"}]_vars

\* A client is told that its outcome is canonical only if it is.
AnswerIsTrue ==
  [][\A s \in Session :
       answer'[s] \in {"committed", "idempotent"} /\ pc[s] # pc'[s]
         => \E c \in stateCommits' : c.transaction = target[s]]_vars

\* Every call gets an answer.
EveryCallAnswered == \A s \in Session : pc[s] # "idle" ~> pc[s] = "idle"

\* The version an outcome became, 0 before its commit.
Place(o) ==
  IF CommitsOf(o) = {} THEN 0 ELSE (CHOOSE c \in CommitsOf(o) : TRUE).new

\* The version an outcome is proven against.
Basis(o) ==
  IF txStatus[o] \in {"VERIFIED", "COMMITTED"} /\ exact[o] THEN base[o] ELSE 0

Canonical == INSTANCE CanonicalHead WITH
  length <- head,
  basis <- [o \in Outcome |-> Basis(o)],
  accepted <- {o \in Outcome : feedback[o].accepted},
  place <- [o \in Outcome |-> Place(o)]

\* The function implements the compare-and-set of CanonicalHead.
ImplementsCanonicalHead == Canonical!Spec
=============================================================================
