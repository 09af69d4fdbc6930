------------------------ MODULE CanonicalCommitProofs ------------------------
(***************************************************************************)
(* Theorems about CanonicalCommit for every set of sessions, principals,   *)
(* outcomes and assets.                                                    *)
(***************************************************************************)
EXTENDS CanonicalCommit, TLAPS

\* What the proofs assume of the constants: the named assumptions of CanonicalCommit.
USE OwnerAssumption, AssetOfAssumption, MembershipIdAssumption, NoOneAssumption, NoOutcomeAssumption

LEMMA ReturnTypes ==
  ASSUME TypeOK, NEW s \in Session,
         NEW reply \in {"none", "committed", "idempotent", "lost"} \cup Denials, Return(s, reply)
  PROVE  /\ pc' \in [Session -> {"idle", "read", "tenant"} \cup HoldsTenant]
         /\ actor' \in [Session -> Principal \cup {NoOne}]
         /\ target' \in [Session -> Outcome \cup {NoOutcome}]
         /\ accepter' \in [Session -> Principal \cup {NoOne}]
         /\ toLock' \in [Session -> SUBSET Principal]
         /\ held' \in [Session -> SUBSET Principal]
         /\ seen' \in [Session -> Status]
         /\ answer' \in [Session -> {"none", "committed", "idempotent", "lost"} \cup Denials]
  BY DEF TypeOK, Return, Status

LEMMA RaiseTypes ==
  ASSUME TypeOK, NEW s \in Session,
         NEW error \in {"none", "committed", "idempotent", "lost"} \cup Denials, Raise(s, error),
         UNCHANGED <<authority, pipeline, feedback>>
  PROVE  TypeOK'
  BY ReturnTypes DEF TypeOK, Raise, authority, pipeline, canonical

\* A session inside the function has a caller and a published outcome.
Busy ==
  \A s \in Session : pc[s] # "idle" =>
    /\ actor[s] \in Principal
    /\ target[s] \in Outcome
    /\ txStatus[target[s]] # "NONE"

Typed == TypeOK /\ Busy

LEMMA RaiseTyped ==
  ASSUME Typed, NEW s \in Session,
         NEW error \in {"none", "committed", "idempotent", "lost"} \cup Denials, Raise(s, error),
         UNCHANGED <<authority, pipeline, feedback>>
  PROVE  Typed'
<1>1. TypeOK'
  BY RaiseTypes DEF Typed
<1>2. Busy'
  BY DEF Typed, TypeOK, Busy, Raise, Return, canonical
<1> QED
  BY <1>1, <1>2 DEF Typed

LEMMA TypedInit == Init => Typed
  BY DEF Init, Typed, TypeOK, Busy, NoFeedback, Status

LEMMA VerdictType ==
  ASSUME NEW s \in Session
  PROVE  Verdict(s) \in {"valid", "idempotent"} \cup Denials
  BY DEF Verdict, Denials

LEMMA TypedNext == Typed /\ [Next]_vars => Typed'
<1> SUFFICES ASSUME Typed, [Next]_vars PROVE Typed'
  OBVIOUS
<1> USE DEF Typed
<1>1. ASSUME NEW o \in Outcome, PublishOutcome(o) PROVE Typed'
  <2>1. PICK status \in {"VERIFYING", "VERIFIED", "FAILED"},
             b \in DOMAIN versions[AssetOf[o]], e \in BOOLEAN :
             /\ txStatus' = [txStatus EXCEPT ![o] = status]
             /\ base' = [base EXCEPT ![o] = b]
             /\ exact' = [exact EXCEPT ![o] = e]
             /\ pending' = IF status = "VERIFYING" THEN pending \cup {o} ELSE pending
    BY <1>1 DEF PublishOutcome
  <2>2. b \in Nat
    BY <2>1 DEF TypeOK
  <2> QED
    BY <1>1, <2>1, <2>2 DEF PublishOutcome, TypeOK, Busy, Status, authority, locals
<1>16. ASSUME NEW o \in Outcome, FinishVerification(o) PROVE Typed'
  BY <1>16 DEF FinishVerification, TypeOK, Busy, Status, authority, locals
<1>2. ASSUME NEW p \in Principal, NEW o \in Outcome, NEW accepted \in BOOLEAN,
             SubmitFeedback(p, o, accepted)
      PROVE  Typed'
  BY <1>2 DEF SubmitFeedback, TypeOK, Busy, authority, pipeline, canonical, locals
<1>3. ASSUME NEW p \in Principal, NEW by \in Principal, RevokeMembership(p, by) PROVE Typed'
  BY <1>3 DEF RevokeMembership, TypeOK, Busy, pipeline, canonical, locals
<1>4. CASE SuspendTenant
  BY <1>4 DEF SuspendTenant, TypeOK, Busy, pipeline, canonical, locals
<1>5. ASSUME NEW s \in Session, NEW p \in Principal, NEW o \in Outcome, Call(s, p, o)
      PROVE  Typed'
  BY <1>5 DEF Call, TypeOK, Busy, authority, pipeline, canonical
<1>6. ASSUME NEW s \in Session, ReadOutcome(s) PROVE Typed'
  BY <1>6 DEF ReadOutcome, TypeOK, Busy, authority, pipeline, canonical
<1>7. ASSUME NEW s \in Session, LockTenant(s) PROVE Typed'
  <2>1. CASE tenantStatus = "ACTIVE"
    <3>1. /\ pc' = [pc EXCEPT ![s] = "members"]
          /\ toLock' = [toLock EXCEPT ![s] = RowsToLock(s)]
          /\ UNCHANGED <<authority, pipeline, canonical, feedback>>
          /\ UNCHANGED <<actor, target, accepter, held, seen, answer>>
      BY <1>7, <2>1 DEF LockTenant
    <3>2. RowsToLock(s) \in SUBSET Principal
      BY DEF TypeOK, RowsToLock
    <3>3. pc' \in [Session -> {"idle", "read", "tenant"} \cup HoldsTenant]
      BY <3>1 DEF TypeOK, HoldsTenant
    <3>4. toLock' \in [Session -> SUBSET Principal]
      BY <3>1, <3>2 DEF TypeOK
    <3>5. TypeOK'
      BY <3>1, <3>3, <3>4 DEF TypeOK, authority, pipeline, canonical
    <3>6. Busy'
      BY <1>7, <3>1 DEF LockTenant, TypeOK, Busy, canonical
    <3> QED
      BY <3>5, <3>6
  <2>2. CASE tenantStatus # "ACTIVE"
    BY <1>7, <2>2, RaiseTyped DEF LockTenant, Denials
  <2> QED
    BY <2>1, <2>2
<1>8. ASSUME NEW s \in Session, LockMembership(s) PROVE Typed'
  <2>1. PICK p \in toLock[s] : VisitMembership(s, p)
    BY <1>8 DEF LockMembership
  <2>2. p \in Principal
    BY <2>1 DEF TypeOK
  <2> QED
    BY <1>8, <2>1, <2>2
    DEF LockMembership, VisitMembership, TypeOK, Busy, authority, pipeline, canonical
<1>9. ASSUME NEW s \in Session, CheckAuthority(s) PROVE Typed'
  <2>1. CASE actor[s] \notin held[s] \/ (accepter[s] # NoOne /\ accepter[s] \notin held[s])
    BY <1>9, <2>1, RaiseTyped DEF CheckAuthority, Denials
  <2>2. CASE ~(actor[s] \notin held[s] \/ (accepter[s] # NoOne /\ accepter[s] \notin held[s]))
    BY <1>9, <2>2 DEF CheckAuthority, TypeOK, Busy, HoldsTenant, authority, pipeline, canonical
  <2> QED
    BY <2>1, <2>2
<1>10. ASSUME NEW s \in Session, ReadTransaction(s) PROVE Typed'
  BY <1>10 DEF ReadTransaction, TypeOK, Busy, HoldsTenant, authority, pipeline, canonical
<1>11. ASSUME NEW s \in Session, LockAsset(s) PROVE Typed'
  BY <1>11 DEF LockAsset, TypeOK, Busy, HoldsTenant, authority, pipeline, canonical
<1>12. ASSUME NEW s \in Session, Validate(s) PROVE Typed'
  <2>1. CASE Verdict(s) = "valid"
    BY <1>12, <2>1 DEF Validate, TypeOK, Busy, HoldsTenant, authority, pipeline, canonical
  <2>2. CASE Verdict(s) # "valid"
    BY <1>12, <2>2, RaiseTyped, VerdictType DEF Validate
  <2> QED
    BY <2>1, <2>2
<1>13. ASSUME NEW s \in Session, Apply(s) PROVE Typed'
  <2> DEFINE o == target[s]
             a == AssetOf[o]
  <2>1. o \in Outcome /\ a \in Asset
    BY <1>13 DEF Apply, Busy
  <2>2. CASE head[a] # base[o] \/ CommitsOf(o) # {}
    BY <1>13, <2>2, RaiseTyped DEF Apply, Denials
  <2>3. CASE head[a] = base[o] /\ CommitsOf(o) = {}
    <3>1. Return(s, "committed")
      BY <1>13, <2>3 DEF Apply
    <3>2. /\ versions' \in [Asset -> Seq(Nat)]
          /\ head' \in [Asset -> Nat]
          /\ txStatus' \in [Outcome -> Status]
          /\ stateCommits' \subseteq [transaction: Outcome, asset: Asset, new: Nat, previous: Nat]
      <4>1. base[o] \in Nat /\ versions[a] \in Seq(Nat) /\ Len(versions[a]) + 1 \in Nat
        BY <2>1 DEF TypeOK
      <4>2. /\ versions' = [versions EXCEPT ![a] = Append(@, base[o])]
            /\ head' = [head EXCEPT ![a] = Len(versions[a]) + 1]
            /\ stateCommits' = stateCommits \cup
                 {[transaction |-> o, asset |-> a, new |-> Len(versions[a]) + 1, previous |-> base[o]]}
            /\ txStatus' = [txStatus EXCEPT ![o] = "COMMITTED"]
        BY <1>13, <2>3 DEF Apply, MoveHead, RecordCommit, FinishTransaction
      <4>3. Append(versions[a], base[o]) \in Seq(Nat)
        BY <4>1
      <4> HIDE DEF o, a
      <4> QED
        BY <2>1, <4>1, <4>2, <4>3 DEF TypeOK, Status
    <3>3. TypeOK'
      BY <1>13, <3>1, <3>2, ReturnTypes DEF Apply, TypeOK, authority, pipeline
    <3>4. Busy'
      BY <1>13, <2>1, <2>3, <3>1 DEF Apply, FinishTransaction, Return, TypeOK, Busy
    <3> QED
      BY <3>3, <3>4
  <2> QED
    BY <2>2, <2>3
<1>14. ASSUME NEW s \in Session, Disconnect(s) PROVE Typed'
  BY <1>14, RaiseTyped DEF Disconnect
<1>15. CASE UNCHANGED vars
  BY <1>15 DEF TypeOK, Busy, vars, authority, pipeline, canonical, locals
<1> QED
  BY <1>1, <1>2, <1>3, <1>4, <1>5, <1>6, <1>7, <1>8, <1>9, <1>10, <1>11, <1>12, <1>13,
     <1>14, <1>15, <1>16 DEF Next, Step

\* Every variable keeps its type, and no session works for a caller or an
\* outcome that is not there.
THEOREM TypeCorrect == Spec => []Typed
  BY TypedInit, TypedNext, PTL DEF Spec

\* The type invariant of CanonicalCommit.
THEOREM TypeInvariant == Spec => []TypeOK
<1>1. Typed => TypeOK
  BY DEF Typed
<1> QED
  BY <1>1, TypeCorrect, PTL
-----------------------------------------------------------------------------
(* Authority: the tenant row serializes the sessions, and a locked membership *)
(* stays that of an active OWNER. *)

Authorized == {"transaction", "asset", "validate", "apply"}

OneHolder ==
  \A s, t \in Session : pc[s] \in HoldsTenant /\ pc[t] \in HoldsTenant => s = t

HeldTenantActive == \A s \in Session : pc[s] \in HoldsTenant => tenantStatus = "ACTIVE"

HeldOwnersActive == \A s \in Session : \A p \in held[s] : ActiveOwner(p)

AuthorityHeld ==
  \A s \in Session : pc[s] \in Authorized =>
    actor[s] \in held[s] /\ (accepter[s] # NoOne => accepter[s] \in held[s])

AuthorityInv == OneHolder /\ HeldTenantActive /\ HeldOwnersActive /\ AuthorityHeld

LEMMA AuthorityInit == Init => AuthorityInv
  BY DEF Init, AuthorityInv, OneHolder, HeldTenantActive, HeldOwnersActive, AuthorityHeld,
         HoldsTenant, Authorized

\* A session that ends gives up what it held and nothing else.
LEMMA ReturnKeepsAuthority ==
  ASSUME Typed, AuthorityInv, NEW s \in Session, NEW reply, Return(s, reply),
         UNCHANGED authority
  PROVE  AuthorityInv'
  BY DEF Typed, TypeOK, AuthorityInv, OneHolder, HeldTenantActive, HeldOwnersActive,
         AuthorityHeld, HoldsTenant, Authorized, ActiveOwner, Return, authority

\* A session that stays where the tenant row is held, or stays outside, with its
\* memberships, keeps the invariant.
LEMMA MoveKeepsAuthority ==
  ASSUME Typed, AuthorityInv, NEW s \in Session, NEW point,
         pc' = [pc EXCEPT ![s] = point],
         point \in HoldsTenant => pc[s] \in HoldsTenant,
         point \in Authorized => pc[s] \in Authorized /\ UNCHANGED <<actor, accepter>>,
         \A t \in Session : t # s => actor'[t] = actor[t] /\ accepter'[t] = accepter[t],
         UNCHANGED <<authority, held>>
  PROVE  AuthorityInv'
<1>1. OneHolder'
  BY DEF Typed, TypeOK, AuthorityInv, OneHolder
<1>2. HeldTenantActive'
  BY DEF Typed, TypeOK, AuthorityInv, HeldTenantActive, authority
<1>3. HeldOwnersActive'
  BY DEF AuthorityInv, HeldOwnersActive, ActiveOwner, authority
<1>4. AuthorityHeld'
  BY DEF Typed, TypeOK, AuthorityInv, AuthorityHeld
<1> QED
  BY <1>1, <1>2, <1>3, <1>4 DEF AuthorityInv

LEMMA AuthorityNext == Typed /\ AuthorityInv /\ [Next]_vars => AuthorityInv'
<1> SUFFICES ASSUME Typed, AuthorityInv, [Next]_vars PROVE AuthorityInv'
  OBVIOUS
<1>1. ASSUME UNCHANGED <<authority, locals>> PROVE AuthorityInv'
  BY <1>1 DEF AuthorityInv, OneHolder, HeldTenantActive, HeldOwnersActive, AuthorityHeld,
              ActiveOwner, authority, locals
<1>2. ASSUME NEW p \in Principal, NEW by \in Principal, RevokeMembership(p, by)
      PROVE  AuthorityInv'
  <2>1. \A s \in Session : p \notin held[s]
    BY <1>2 DEF RevokeMembership, MembershipFree
  <2>2. HeldOwnersActive'
    BY <1>2, <2>1 DEF RevokeMembership, Typed, TypeOK, AuthorityInv, HeldOwnersActive,
                      ActiveOwner, locals
  <2> QED
    BY <1>2, <2>2 DEF RevokeMembership, AuthorityInv, OneHolder, HeldTenantActive,
                      AuthorityHeld, locals
<1>3. CASE SuspendTenant
  <2>1. \A s \in Session : pc[s] \notin HoldsTenant
    BY <1>3 DEF SuspendTenant, TenantFree
  <2> QED
    BY <1>3, <2>1 DEF SuspendTenant, AuthorityInv, OneHolder, HeldTenantActive,
                      HeldOwnersActive, AuthorityHeld, ActiveOwner, locals
<1>4. ASSUME NEW s \in Session, NEW p \in Principal, NEW o \in Outcome, Call(s, p, o)
      PROVE  AuthorityInv'
  BY <1>4, MoveKeepsAuthority DEF Call, HoldsTenant, Authorized, Typed, TypeOK
<1>5. ASSUME NEW s \in Session, ReadOutcome(s) PROVE AuthorityInv'
  BY <1>5, MoveKeepsAuthority DEF ReadOutcome, HoldsTenant, Authorized, Typed, TypeOK
<1>6. ASSUME NEW s \in Session, LockTenant(s) PROVE AuthorityInv'
  <2>1. CASE tenantStatus = "ACTIVE"
    <3>1. \A t \in Session : pc[t] \notin HoldsTenant
      BY <1>6 DEF LockTenant, TenantFree
    <3>2. /\ pc' = [pc EXCEPT ![s] = "members"]
          /\ UNCHANGED <<authority, held, actor, accepter>>
      BY <1>6, <2>1 DEF LockTenant
    <3> QED
      BY <2>1, <3>1, <3>2 DEF Typed, TypeOK, AuthorityInv, OneHolder, HeldTenantActive,
        HeldOwnersActive, AuthorityHeld, ActiveOwner, HoldsTenant, Authorized, authority
  <2>2. CASE tenantStatus # "ACTIVE"
    BY <1>6, <2>2, ReturnKeepsAuthority DEF LockTenant, Raise
  <2> QED
    BY <2>1, <2>2
<1>7. ASSUME NEW s \in Session, LockMembership(s) PROVE AuthorityInv'
  <2>1. PICK p \in toLock[s] : VisitMembership(s, p)
    BY <1>7 DEF LockMembership
  <2>2. UNCHANGED <<authority, pc, actor, accepter>>
    BY <1>7 DEF LockMembership
  <2>3. HeldOwnersActive'
    BY <2>1, <2>2 DEF VisitMembership, Typed, TypeOK, AuthorityInv, HeldOwnersActive,
                      ActiveOwner, authority
  <2>4. AuthorityHeld'
    BY <2>1, <2>2 DEF VisitMembership, Typed, TypeOK, AuthorityInv, AuthorityHeld
  <2> QED
    BY <2>2, <2>3, <2>4 DEF AuthorityInv, OneHolder, HeldTenantActive, authority
<1>8. ASSUME NEW s \in Session, CheckAuthority(s) PROVE AuthorityInv'
  <2>1. CASE actor[s] \notin held[s] \/ (accepter[s] # NoOne /\ accepter[s] \notin held[s])
    BY <1>8, <2>1, ReturnKeepsAuthority DEF CheckAuthority, Raise
  <2>2. CASE ~(actor[s] \notin held[s] \/ (accepter[s] # NoOne /\ accepter[s] \notin held[s]))
    <3>1. /\ pc[s] = "members"
          /\ pc' = [pc EXCEPT ![s] = "transaction"]
          /\ UNCHANGED <<authority, held, actor, accepter>>
      BY <1>8, <2>2 DEF CheckAuthority
    <3>2. OneHolder' /\ HeldTenantActive'
      BY <3>1 DEF Typed, TypeOK, AuthorityInv, OneHolder, HeldTenantActive, HoldsTenant, authority
    <3>3. HeldOwnersActive'
      BY <3>1 DEF AuthorityInv, HeldOwnersActive, ActiveOwner, authority
    <3>4. AuthorityHeld'
      BY <2>2, <3>1 DEF Typed, TypeOK, AuthorityInv, AuthorityHeld
    <3> QED
      BY <3>2, <3>3, <3>4 DEF AuthorityInv
  <2> QED
    BY <2>1, <2>2
<1>9. ASSUME NEW s \in Session, ReadTransaction(s) PROVE AuthorityInv'
  BY <1>9, MoveKeepsAuthority DEF ReadTransaction, HoldsTenant, Authorized
<1>10. ASSUME NEW s \in Session, LockAsset(s) PROVE AuthorityInv'
  BY <1>10, MoveKeepsAuthority DEF LockAsset, HoldsTenant, Authorized
<1>11. ASSUME NEW s \in Session, Validate(s) PROVE AuthorityInv'
  <2>1. CASE Verdict(s) = "valid"
    BY <1>11, <2>1, MoveKeepsAuthority DEF Validate, HoldsTenant, Authorized
  <2>2. CASE Verdict(s) # "valid"
    BY <1>11, <2>2, ReturnKeepsAuthority DEF Validate, Raise
  <2> QED
    BY <2>1, <2>2
<1>12. ASSUME NEW s \in Session, Apply(s) PROVE AuthorityInv'
  BY <1>12, ReturnKeepsAuthority DEF Apply, Raise
<1>13. ASSUME NEW s \in Session, Disconnect(s) PROVE AuthorityInv'
  BY <1>13, ReturnKeepsAuthority DEF Disconnect, Raise
<1>14. ASSUME NEW o \in Outcome, PublishOutcome(o) PROVE AuthorityInv'
  BY <1>1, <1>14 DEF PublishOutcome
<1>17. ASSUME NEW o \in Outcome, FinishVerification(o) PROVE AuthorityInv'
  BY <1>1, <1>17 DEF FinishVerification
<1>15. ASSUME NEW p \in Principal, NEW o \in Outcome, NEW accepted \in BOOLEAN,
              SubmitFeedback(p, o, accepted)
       PROVE  AuthorityInv'
  BY <1>1, <1>15 DEF SubmitFeedback
<1>16. CASE UNCHANGED vars
  BY <1>1, <1>16 DEF vars
<1> QED
  BY <1>2, <1>3, <1>4, <1>5, <1>6, <1>7, <1>8, <1>9, <1>10, <1>11, <1>12, <1>13, <1>14,
     <1>15, <1>16, <1>17 DEF Next, Step

\* At most one session is past the tenant lock, and what it locked is current.
THEOREM AuthorityInvariant == Spec => []AuthorityInv
  BY AuthorityInit, AuthorityNext, TypeCorrect, PTL DEF Spec

\* A canonical commit takes effect under the authority it was checked against:
\* no interleaving of suspensions, revocations and sessions gets past the locks.
THEOREM CommitAuthority == Spec => CommitUnderCurrentAuthority
<1>1. AuthorityInv /\ [Next]_vars =>
        [\A s \in Session : Commits(s) =>
           /\ tenantStatus = "ACTIVE"
           /\ ActiveOwner(actor[s])
           /\ accepter[s] # NoOne => ActiveOwner(accepter[s])]_vars
  BY DEF AuthorityInv, HeldTenantActive, HeldOwnersActive, AuthorityHeld, Commits,
         HoldsTenant, Authorized
<1> QED
  BY <1>1, AuthorityInvariant, PTL DEF Spec, CommitUnderCurrentAuthority
-----------------------------------------------------------------------------
(* The transaction row is read without a lock.  One write passes the session *)
(* by: the VERIFIED of a live request that a redrive overtook.               *)

\* Until the live request has written its status nobody else changes it.
PendingVerifies == \A o \in pending : txStatus[o] = "VERIFYING"

\* What the session read is what is stored, or it read VERIFYING and the
\* verification has ended since.
SeenCurrent ==
  \A s \in Session : pc[s] \in {"asset", "validate", "apply"} =>
    \/ seen[s] = txStatus[target[s]]
    \/ seen[s] = "VERIFYING" /\ txStatus[target[s]] = "VERIFIED"

AppliesVerified == \A s \in Session : pc[s] = "apply" => seen[s] = "VERIFIED"

SeenInv == PendingVerifies /\ SeenCurrent /\ AppliesVerified

LEMMA SeenInit == Init => SeenInv
  BY DEF Init, SeenInv, PendingVerifies, SeenCurrent, AppliesVerified

LEMMA RaiseKeepsSeen ==
  ASSUME Typed, SeenInv, NEW s \in Session, NEW error, Raise(s, error), UNCHANGED pipeline
  PROVE  SeenInv'
  BY DEF Raise, Return, canonical, pipeline, Typed, TypeOK, SeenInv, PendingVerifies, SeenCurrent,
         AppliesVerified

LEMMA MoveKeepsSeen ==
  ASSUME Typed, SeenInv, NEW s \in Session,
         NEW point \in {"read", "tenant", "members", "transaction"},
         pc' = [pc EXCEPT ![s] = point],
         \A t \in Session : t # s => target'[t] = target[t],
         UNCHANGED <<txStatus, pending, seen>>
  PROVE  SeenInv'
  BY DEF Typed, TypeOK, SeenInv, PendingVerifies, SeenCurrent, AppliesVerified

LEMMA SeenNext == Typed /\ AuthorityInv /\ SeenInv /\ [Next]_vars => SeenInv'
<1> SUFFICES ASSUME Typed, AuthorityInv, SeenInv, [Next]_vars PROVE SeenInv'
  OBVIOUS
<1>1. ASSUME NEW o \in Outcome, PublishOutcome(o) PROVE SeenInv'
  <2>1. PICK status \in {"VERIFYING", "VERIFIED", "FAILED"} :
             /\ txStatus' = [txStatus EXCEPT ![o] = status]
             /\ pending' = IF status = "VERIFYING" THEN pending \cup {o} ELSE pending
    BY <1>1 DEF PublishOutcome
  <2>2. \A s \in Session : pc[s] # "idle" => target[s] # o
    BY <1>1 DEF PublishOutcome, Typed, Busy
  <2>3. o \notin pending
    BY <1>1 DEF PublishOutcome, SeenInv, PendingVerifies
  <2>4. PendingVerifies'
    BY <2>1, <2>3 DEF Typed, TypeOK, SeenInv, PendingVerifies
  <2>5. SeenCurrent' /\ AppliesVerified'
    BY <1>1, <2>1, <2>2 DEF PublishOutcome, locals, Typed, TypeOK, Busy, SeenInv, SeenCurrent,
       AppliesVerified
  <2> QED
    BY <2>4, <2>5 DEF SeenInv
<1>2. ASSUME UNCHANGED <<txStatus, pending, locals>> PROVE SeenInv'
  BY <1>2 DEF locals, SeenInv, PendingVerifies, SeenCurrent, AppliesVerified
<1>17. ASSUME NEW o \in Outcome, FinishVerification(o) PROVE SeenInv'
  <2>1. /\ txStatus[o] = "VERIFYING"
        /\ txStatus' = [txStatus EXCEPT ![o] = "VERIFIED"]
        /\ pending' = pending \ {o}
        /\ UNCHANGED locals
    BY <1>17 DEF FinishVerification, SeenInv, PendingVerifies
  <2>2. PendingVerifies'
    BY <2>1 DEF Typed, TypeOK, SeenInv, PendingVerifies
  <2>3. SeenCurrent' /\ AppliesVerified'
    BY <2>1 DEF locals, Typed, TypeOK, SeenInv, SeenCurrent, AppliesVerified
  <2> QED
    BY <2>2, <2>3 DEF SeenInv
<1>3. ASSUME NEW p \in Principal, NEW o \in Outcome, NEW accepted \in BOOLEAN,
             SubmitFeedback(p, o, accepted)
      PROVE  SeenInv'
  BY <1>2, <1>3 DEF SubmitFeedback, canonical, pipeline
<1>4. ASSUME NEW p \in Principal, NEW by \in Principal, RevokeMembership(p, by)
      PROVE  SeenInv'
  BY <1>2, <1>4 DEF RevokeMembership, canonical, pipeline
<1>5. CASE SuspendTenant
  BY <1>2, <1>5 DEF SuspendTenant, canonical, pipeline
<1>6. ASSUME NEW s \in Session, NEW p \in Principal, NEW o \in Outcome, Call(s, p, o)
      PROVE  SeenInv'
  BY <1>6, MoveKeepsSeen DEF Call, canonical, pipeline, Typed, TypeOK
<1>7. ASSUME NEW s \in Session, ReadOutcome(s) PROVE SeenInv'
  BY <1>7, MoveKeepsSeen DEF ReadOutcome, canonical, pipeline
<1>8. ASSUME NEW s \in Session, LockTenant(s) PROVE SeenInv'
  BY <1>8, MoveKeepsSeen, RaiseKeepsSeen DEF LockTenant, canonical, pipeline
<1>9. ASSUME NEW s \in Session, LockMembership(s) PROVE SeenInv'
  BY <1>9 DEF LockMembership, canonical, pipeline, SeenInv, PendingVerifies, SeenCurrent, AppliesVerified
<1>10. ASSUME NEW s \in Session, CheckAuthority(s) PROVE SeenInv'
  BY <1>10, MoveKeepsSeen, RaiseKeepsSeen DEF CheckAuthority, canonical, pipeline
<1>11. ASSUME NEW s \in Session, ReadTransaction(s) PROVE SeenInv'
  BY <1>11 DEF ReadTransaction, canonical, pipeline, Typed, TypeOK, SeenInv, PendingVerifies,
     SeenCurrent, AppliesVerified
<1>12. ASSUME NEW s \in Session, LockAsset(s) PROVE SeenInv'
  BY <1>12 DEF LockAsset, canonical, pipeline, Typed, TypeOK, SeenInv, PendingVerifies,
     SeenCurrent, AppliesVerified
<1>13. ASSUME NEW s \in Session, Validate(s) PROVE SeenInv'
  <2>1. CASE Verdict(s) # "valid"
    BY <1>13, <2>1, RaiseKeepsSeen DEF Validate
  <2>2. CASE Verdict(s) = "valid"
    <3>1. seen[s] = "VERIFIED"
      BY <2>2 DEF Verdict, Verified
    <3> QED
      BY <1>13, <2>2, <3>1 DEF Validate, canonical, pipeline, Typed, TypeOK, SeenInv, PendingVerifies,
     SeenCurrent, AppliesVerified
  <2> QED
    BY <2>1, <2>2
<1>14. ASSUME NEW s \in Session, Apply(s) PROVE SeenInv'
  <2>1. CASE Return(s, "committed") /\ FinishTransaction(target[s])
    <3>1. \A t \in Session : t # s => pc[t] \notin HoldsTenant
      BY <1>14 DEF Apply, AuthorityInv, OneHolder, HoldsTenant
    <3>2. txStatus[target[s]] = "VERIFIED" /\ UNCHANGED pending
      BY <1>14 DEF Apply, SeenInv, SeenCurrent, AppliesVerified, pipeline
    <3>3. PendingVerifies'
      BY <2>1, <3>2 DEF FinishTransaction, Typed, TypeOK, SeenInv, PendingVerifies
    <3>4. SeenCurrent' /\ AppliesVerified'
      BY <2>1, <3>1 DEF Return, FinishTransaction, HoldsTenant, Typed, TypeOK, SeenInv,
                        SeenCurrent, AppliesVerified
    <3> QED
      BY <3>3, <3>4 DEF SeenInv
  <2> QED
    BY <1>14, <2>1, RaiseKeepsSeen DEF Apply
<1>15. ASSUME NEW s \in Session, Disconnect(s) PROVE SeenInv'
  BY <1>15, RaiseKeepsSeen DEF Disconnect
<1>16. CASE UNCHANGED vars
  BY <1>2, <1>16 DEF vars, canonical, pipeline
<1> QED
  BY <1>1, <1>3, <1>4, <1>5, <1>6, <1>7, <1>8, <1>9, <1>10, <1>11, <1>12, <1>13, <1>14,
     <1>15, <1>16, <1>17 DEF Next, Step

\* A VERIFIED, FAILED or COMMITTED the function read without a lock is still the
\* stored status when it validates and when it commits: only the end of a
\* verification passes it by, and that finds a session that read VERIFYING and
\* will refuse, never one that commits.
THEOREM SeenInvariant == Spec => []SeenInv
  BY SeenInit, SeenNext, TypeCorrect, AuthorityInvariant, PTL DEF Spec
-----------------------------------------------------------------------------
(* History: one line of versions per asset, each with the StateCommit of a *)
(* proven and accepted transaction. *)

\* What validation established still holds when the session applies.
Ready ==
  \A s \in Session : pc[s] = "apply" =>
    exact[target[s]] /\ feedback[target[s]].accepted

CommitsExist ==
  \A c \in stateCommits : c.asset = AssetOf[c.transaction] /\ c.new <= Len(versions[c.asset])

\* A published outcome was made on a version its asset has.
BasesExist ==
  \A o \in Outcome : txStatus[o] # "NONE" => base[o] \in 1 .. Len(versions[AssetOf[o]])

HistoryInv ==
  /\ LinearHistory
  /\ CommitLineage
  /\ CommitsExist
  /\ BasesExist
  /\ FinishedIffCommitted
  /\ CommitIsProvenAndAccepted
  /\ Ready

LEMMA HistoryInit == Init => HistoryInv
<1> SUFFICES ASSUME Init PROVE HistoryInv
  OBVIOUS
<1>1. \A a \in Asset : Len(versions[a]) = 1
  BY DEF Init
<1>2. LinearHistory
  BY <1>1 DEF Init, LinearHistory
<1>3. CommitLineage
  BY <1>1 DEF Init, CommitLineage
<1> QED
  BY <1>2, <1>3 DEF Init, HistoryInv, CommitsExist, BasesExist, FinishedIffCommitted, CommitsOf,
                    CommitIsProvenAndAccepted, Ready

\* A step that writes nothing canonical keeps the history.
LEMMA FrameKeepsHistory ==
  ASSUME HistoryInv, UNCHANGED <<pipeline, canonical, feedback>>,
         \A s \in Session : pc'[s] = "apply" => pc[s] = "apply" /\ target'[s] = target[s]
  PROVE  HistoryInv'
<1>1. LinearHistory' /\ CommitsExist' /\ BasesExist'
  BY DEF HistoryInv, LinearHistory, CommitsExist, BasesExist, canonical, pipeline
<1>2. CommitLineage'
  BY DEF HistoryInv, CommitLineage, canonical, pipeline
<1>3. FinishedIffCommitted' /\ CommitIsProvenAndAccepted'
  BY DEF HistoryInv, FinishedIffCommitted, CommitsOf, CommitIsProvenAndAccepted, canonical, pipeline
<1>4. Ready'
  BY DEF HistoryInv, Ready, pipeline
<1> QED
  BY <1>1, <1>2, <1>3, <1>4 DEF HistoryInv

LEMMA RaiseKeepsHistory ==
  ASSUME Typed, HistoryInv, NEW s \in Session, NEW error, Raise(s, error),
         UNCHANGED <<pipeline, feedback>>
  PROVE  HistoryInv'
<1>1. \A t \in Session : pc'[t] = "apply" => pc[t] = "apply" /\ target'[t] = target[t]
  BY DEF Raise, Return, Typed, TypeOK
<1> QED
  BY <1>1, FrameKeepsHistory DEF Raise

\* The write of an accepted commit on top of the head.
LEMMA CommitKeepsHistory ==
  ASSUME Typed, HistoryInv, NEW s \in Session, Apply(s),
         head[AssetOf[target[s]]] = base[target[s]], CommitsOf(target[s]) = {}
  PROVE  HistoryInv'
<1> DEFINE o == target[s]
           a == AssetOf[o]
           n == Len(versions[a]) + 1
           commit == [transaction |-> o, asset |-> a, new |-> n, previous |-> base[o]]
<1>1. /\ o \in Outcome /\ a \in Asset /\ n \in Nat
      /\ versions[a] \in Seq(Nat) /\ base[o] \in Nat
      /\ base[o] = n - 1
  BY DEF Apply, Typed, Busy, TypeOK, HistoryInv, LinearHistory
<1>2. /\ versions' = [versions EXCEPT ![a] = Append(@, base[o])]
      /\ head' = [head EXCEPT ![a] = n]
      /\ stateCommits' = stateCommits \cup {commit}
      /\ txStatus' = [txStatus EXCEPT ![o] = "COMMITTED"]
      /\ pc' = [pc EXCEPT ![s] = "idle"]
      /\ target' = [target EXCEPT ![s] = NoOutcome]
      /\ UNCHANGED <<base, exact, feedback>>
  BY DEF Apply, MoveHead, RecordCommit, FinishTransaction, Return, pipeline
<1>3. exact[o] /\ feedback[o].accepted
  BY DEF Apply, HistoryInv, Ready
<1>4. \A c \in stateCommits : c.transaction # o
  BY DEF CommitsOf
<1>5. commit.transaction = o /\ commit.asset = a /\ commit.new = n /\ commit.previous = base[o]
  OBVIOUS
<1> HIDE DEF o, a, n, commit
<1>6. /\ Len(versions'[a]) = n
      /\ versions'[a][n] = base[o]
      /\ \A i \in 1 .. n - 1 : versions'[a][i] = versions[a][i]
      /\ Len(versions[a]) = n - 1
  <2>1. versions'[a] = Append(versions[a], base[o])
    BY <1>1, <1>2 DEF Typed, TypeOK
  <2> QED
    BY <1>1, <2>1 DEF n
<1>7. \A x \in Asset : x # a => versions'[x] = versions[x] /\ head'[x] = head[x]
  BY <1>2 DEF Typed, TypeOK
<1>8. head'[a] = n
  BY <1>1, <1>2 DEF Typed, TypeOK
<1>9. LinearHistory'
  <2>1. ASSUME NEW i \in 2 .. n PROVE versions'[a][i] = i - 1
    <3>1. CASE i = n
      BY <1>1, <1>6, <3>1
    <3>2. CASE i # n
      <4>1. i \in 2 .. Len(versions[a]) /\ i \in 1 .. n - 1
        BY <1>1, <1>6, <3>2
      <4> QED
        BY <1>1, <1>6, <4>1 DEF HistoryInv, LinearHistory
    <3> QED
      BY <3>1, <3>2
  <2> QED
    BY <1>6, <1>7, <1>8, <2>1 DEF HistoryInv, LinearHistory
<1>10. CommitsExist'
  <2> SUFFICES ASSUME NEW c \in stateCommits' PROVE c.asset = AssetOf[c.transaction] /\ c.new <= Len(versions'[c.asset])
    BY DEF CommitsExist
  <2>1. CASE c = commit
    BY <1>1, <1>5, <1>6, <2>1 DEF a
  <2>2. CASE c \in stateCommits
    <3>1. /\ c.new \in Nat /\ c.asset \in Asset /\ c.new <= Len(versions[c.asset])
          /\ c.asset = AssetOf[c.transaction]
      BY <2>2 DEF Typed, TypeOK, HistoryInv, CommitsExist
    <3>2. CASE c.asset = a
      <4>1. Len(versions'[c.asset]) = n /\ Len(versions[c.asset]) = n - 1
        BY <1>6, <3>2
      <4> QED
        BY <1>1, <3>1, <4>1
    <3>3. CASE c.asset # a
      BY <1>7, <3>1, <3>3
    <3> QED
      BY <3>2, <3>3
  <2> QED
    BY <1>2, <2>1, <2>2
<1>11. CommitLineage'
  <2>1. ASSUME NEW x \in Asset, NEW i \in 2 .. Len(versions'[x])
        PROVE  \E c \in stateCommits' :
                 /\ c.asset = x /\ c.new = i /\ c.previous = versions'[x][i]
                 /\ base'[c.transaction] = c.previous
    <3>1. CASE x = a /\ i = n
      BY <1>2, <1>5, <1>6, <3>1
    <3>2. CASE ~(x = a /\ i = n)
      <4>1. i \in 2 .. Len(versions[x]) /\ versions'[x][i] = versions[x][i]
        BY <1>1, <1>6, <1>7, <2>1, <3>2
      <4>2. PICK c \in stateCommits : /\ c.asset = x /\ c.new = i /\ c.previous = versions[x][i]
                                      /\ base[c.transaction] = c.previous
        BY <4>1 DEF HistoryInv, CommitLineage
      <4> QED
        BY <1>2, <4>1, <4>2
    <3> QED
      BY <3>1, <3>2
  <2>2. ASSUME NEW c \in stateCommits', NEW d \in stateCommits',
               c.transaction = d.transaction \/ (c.asset = d.asset /\ c.new = d.new)
        PROVE  c = d
    <3>1. \A e \in stateCommits : e.transaction # o /\ (e.asset # a \/ e.new # n)
      <4> SUFFICES ASSUME NEW e \in stateCommits, e.asset = a PROVE e.new # n
        BY <1>4
      <4>1. e.new \in Nat /\ e.new <= Len(versions[a])
        BY DEF Typed, TypeOK, HistoryInv, CommitsExist
      <4> QED
        BY <1>1, <1>6, <4>1
    <3>2. CASE c \in stateCommits /\ d \in stateCommits
      BY <2>2, <3>2 DEF HistoryInv, CommitLineage
    <3>3. CASE c = commit \/ d = commit
      BY <1>2, <1>5, <2>2, <3>1, <3>3
    <3> QED
      BY <1>2, <3>2, <3>3
  <2> QED
    BY <2>1, <2>2 DEF CommitLineage
<1>12. FinishedIffCommitted'
  <2> SUFFICES ASSUME NEW x \in Outcome
               PROVE  txStatus'[x] = "COMMITTED" <=> \E c \in stateCommits' : c.transaction = x
    BY DEF FinishedIffCommitted, CommitsOf
  <2>1. txStatus[x] = "COMMITTED" <=> \E c \in stateCommits : c.transaction = x
    BY DEF HistoryInv, FinishedIffCommitted, CommitsOf
  <2> QED
    BY <1>1, <1>2, <1>5, <2>1 DEF Typed, TypeOK
<1>13. CommitIsProvenAndAccepted'
  BY <1>2, <1>3, <1>5 DEF HistoryInv, CommitIsProvenAndAccepted
<1>14. Ready'
  BY <1>2 DEF HistoryInv, Ready, Typed, TypeOK
<1>15. BasesExist'
  <2> SUFFICES ASSUME NEW x \in Outcome, txStatus'[x] # "NONE"
               PROVE  base[x] \in 1 .. Len(versions'[AssetOf[x]])
    BY <1>2 DEF BasesExist
  <2>1. txStatus[o] # "NONE"
    BY DEF Apply, Typed, Busy, o
  <2>2. base[x] \in 1 .. Len(versions[AssetOf[x]])
    BY <1>1, <1>2, <2>1 DEF HistoryInv, BasesExist, Typed, TypeOK
  <2>3. CASE AssetOf[x] = a
    BY <1>1, <1>6, <2>2, <2>3
  <2>4. CASE AssetOf[x] # a
    BY <1>7, <2>2, <2>4
  <2> QED
    BY <2>3, <2>4
<1> QED
  BY <1>9, <1>10, <1>11, <1>12, <1>13, <1>14, <1>15 DEF HistoryInv

LEMMA HistoryNext == Typed /\ SeenInv /\ HistoryInv /\ [Next]_vars => HistoryInv'
<1> SUFFICES ASSUME Typed, SeenInv, HistoryInv, [Next]_vars PROVE HistoryInv'
  OBVIOUS
<1>1. ASSUME NEW o \in Outcome, PublishOutcome(o) PROVE HistoryInv'
  <2>1. PICK status \in {"VERIFYING", "VERIFIED", "FAILED"},
             b \in DOMAIN versions[AssetOf[o]], e \in BOOLEAN :
             /\ txStatus' = [txStatus EXCEPT ![o] = status]
             /\ base' = [base EXCEPT ![o] = b]
             /\ exact' = [exact EXCEPT ![o] = e]
             /\ pending' = IF status = "VERIFYING" THEN pending \cup {o} ELSE pending
    BY <1>1 DEF PublishOutcome
  <2>2. /\ txStatus[o] = "NONE"
        /\ UNCHANGED <<feedback, head, versions, stateCommits, pc, target>>
    BY <1>1 DEF PublishOutcome, locals
  <2>3. \A c \in stateCommits : c.transaction \in Outcome /\ c.transaction # o
    BY <2>2 DEF HistoryInv, FinishedIffCommitted, CommitsOf, Typed, TypeOK
  <2>4. LinearHistory' /\ CommitsExist'
    BY <2>2 DEF HistoryInv, LinearHistory, CommitsExist
  <2>5. CommitLineage'
    BY <2>1, <2>2, <2>3 DEF HistoryInv, CommitLineage, Typed, TypeOK
  <2>6. FinishedIffCommitted'
    BY <2>1, <2>2 DEF HistoryInv, FinishedIffCommitted, CommitsOf, Typed, TypeOK
  <2>7. CommitIsProvenAndAccepted'
    BY <2>1, <2>2, <2>3 DEF HistoryInv, CommitIsProvenAndAccepted, Typed, TypeOK
  <2>8. Ready'
    BY <2>1, <2>2 DEF HistoryInv, Ready, Typed, TypeOK, Busy
  <2>9. BasesExist'
    BY <2>1, <2>2 DEF HistoryInv, BasesExist, Typed, TypeOK
  <2> QED
    BY <2>4, <2>5, <2>6, <2>7, <2>8, <2>9 DEF HistoryInv
<1>18. ASSUME NEW o \in Outcome, FinishVerification(o) PROVE HistoryInv'
  <2>1. /\ txStatus[o] = "VERIFYING"
        /\ txStatus' = [txStatus EXCEPT ![o] = "VERIFIED"]
        /\ UNCHANGED <<base, exact, feedback, head, versions, stateCommits, pc, target>>
    BY <1>18 DEF FinishVerification, SeenInv, PendingVerifies, locals
  <2>2. LinearHistory' /\ CommitLineage' /\ CommitsExist' /\ CommitIsProvenAndAccepted' /\ Ready'
    BY <2>1 DEF HistoryInv, LinearHistory, CommitLineage, CommitsExist,
       CommitIsProvenAndAccepted, Ready
  <2>3. FinishedIffCommitted'
    BY <2>1 DEF HistoryInv, FinishedIffCommitted, CommitsOf, Typed, TypeOK
  <2>4. BasesExist'
    BY <2>1 DEF HistoryInv, BasesExist, Typed, TypeOK
  <2> QED
    BY <2>2, <2>3, <2>4 DEF HistoryInv
<1>2. ASSUME NEW p \in Principal, NEW o \in Outcome, NEW accepted \in BOOLEAN,
             SubmitFeedback(p, o, accepted)
      PROVE  HistoryInv'
  <2>1. /\ feedback[o] = NoFeedback
        /\ feedback' = [feedback EXCEPT ![o] = [by |-> p, accepted |-> accepted]]
        /\ UNCHANGED <<txStatus, base, exact, head, versions, stateCommits, pc, target>>
    BY <1>2 DEF SubmitFeedback, pipeline, canonical, locals
  <2>2. \A x \in Outcome : feedback[x].accepted => feedback'[x].accepted
    BY <2>1 DEF NoFeedback, Typed, TypeOK
  <2>3. LinearHistory' /\ CommitLineage' /\ CommitsExist' /\ BasesExist' /\ FinishedIffCommitted'
    BY <2>1 DEF HistoryInv, LinearHistory, CommitLineage, CommitsExist, BasesExist,
       FinishedIffCommitted, CommitsOf
  <2>4. CommitIsProvenAndAccepted'
    BY <2>1, <2>2 DEF HistoryInv, CommitIsProvenAndAccepted, Typed, TypeOK
  <2>5. Ready'
    BY <2>1, <2>2 DEF HistoryInv, Ready, Typed, Busy
  <2> QED
    BY <2>3, <2>4, <2>5 DEF HistoryInv
<1>3. ASSUME UNCHANGED <<pipeline, canonical, feedback, locals>> PROVE HistoryInv'
  BY <1>3, FrameKeepsHistory DEF locals
<1>4. ASSUME NEW p \in Principal, NEW by \in Principal, RevokeMembership(p, by)
      PROVE  HistoryInv'
  BY <1>3, <1>4 DEF RevokeMembership
<1>5. CASE SuspendTenant
  BY <1>3, <1>5 DEF SuspendTenant
<1>6. ASSUME NEW s \in Session, NEW point \in {"read", "tenant", "members", "transaction", "asset", "validate"},
             pc' = [pc EXCEPT ![s] = point],
             \A t \in Session : t # s => target'[t] = target[t],
             UNCHANGED <<pipeline, canonical, feedback>>
      PROVE  HistoryInv'
  <2>1. \A t \in Session : pc'[t] = "apply" => pc[t] = "apply" /\ target'[t] = target[t]
    BY <1>6 DEF Typed, TypeOK
  <2> QED
    BY <1>6, <2>1, FrameKeepsHistory
<1>7. ASSUME NEW s \in Session, NEW p \in Principal, NEW o \in Outcome, Call(s, p, o)
      PROVE  HistoryInv'
  BY <1>6, <1>7 DEF Call, Typed, TypeOK
<1>8. ASSUME NEW s \in Session, ReadOutcome(s) PROVE HistoryInv'
  BY <1>6, <1>8 DEF ReadOutcome
<1>9. ASSUME NEW s \in Session, LockTenant(s) PROVE HistoryInv'
  BY <1>6, <1>9, RaiseKeepsHistory DEF LockTenant
<1>10. ASSUME NEW s \in Session, LockMembership(s) PROVE HistoryInv'
  BY <1>10, FrameKeepsHistory DEF LockMembership
<1>11. ASSUME NEW s \in Session, CheckAuthority(s) PROVE HistoryInv'
  BY <1>6, <1>11, RaiseKeepsHistory DEF CheckAuthority
<1>12. ASSUME NEW s \in Session, ReadTransaction(s) PROVE HistoryInv'
  BY <1>6, <1>12 DEF ReadTransaction
<1>13. ASSUME NEW s \in Session, LockAsset(s) PROVE HistoryInv'
  BY <1>6, <1>13 DEF LockAsset
<1>14. ASSUME NEW s \in Session, Validate(s) PROVE HistoryInv'
  <2>1. CASE Verdict(s) # "valid"
    BY <1>14, <2>1, RaiseKeepsHistory DEF Validate
  <2>2. CASE Verdict(s) = "valid"
    <3>1. exact[target[s]] /\ feedback[target[s]].accepted
      BY <2>2 DEF Verdict, HumanAcceptance
    <3>2. /\ pc' = [pc EXCEPT ![s] = "apply"]
          /\ UNCHANGED <<pipeline, canonical, feedback, target>>
      BY <1>14, <2>2 DEF Validate
    <3>3. Ready'
      BY <3>1, <3>2 DEF HistoryInv, Ready, Typed, TypeOK, pipeline
    <3> QED
      BY <3>2, <3>3 DEF HistoryInv, LinearHistory, CommitLineage, CommitsExist, BasesExist,
        FinishedIffCommitted, CommitsOf, CommitIsProvenAndAccepted, pipeline, canonical
  <2> QED
    BY <2>1, <2>2
<1>15. ASSUME NEW s \in Session, Apply(s) PROVE HistoryInv'
  <2>1. CASE head[AssetOf[target[s]]] # base[target[s]] \/ CommitsOf(target[s]) # {}
    BY <1>15, <2>1, RaiseKeepsHistory DEF Apply
  <2> QED
    BY <1>15, <2>1, CommitKeepsHistory
<1>16. ASSUME NEW s \in Session, Disconnect(s) PROVE HistoryInv'
  BY <1>16, RaiseKeepsHistory DEF Disconnect
<1>17. CASE UNCHANGED vars
  BY <1>3, <1>17 DEF vars
<1> QED
  BY <1>1, <1>2, <1>4, <1>5, <1>7, <1>8, <1>9, <1>10, <1>11, <1>12, <1>13, <1>14, <1>15,
     <1>16, <1>17, <1>18 DEF Next, Step

\* The canonical history is one line per asset in which every version has the one
\* StateCommit of a proven and accepted transaction, and exactly the transactions
\* with a StateCommit say COMMITTED.
THEOREM HistoryInvariant == Spec => []HistoryInv
  BY HistoryInit, HistoryNext, TypeCorrect, SeenInvariant, PTL DEF Spec

\* No commit forks the history or overwrites a head another session moved.
THEOREM NoLostUpdate == Spec => []LinearHistory
<1>1. HistoryInv => LinearHistory
  BY DEF HistoryInv
<1> QED
  BY <1>1, HistoryInvariant, PTL

\* Every version has exactly one StateCommit, of a transaction made on its parent.
THEOREM Lineage == Spec => []CommitLineage
<1>1. HistoryInv => CommitLineage
  BY DEF HistoryInv
<1> QED
  BY <1>1, HistoryInvariant, PTL

\* Nothing becomes canonical without exact evidence and a human's acceptance.
THEOREM NoProofNoCommit == Spec => []CommitIsProvenAndAccepted
<1>1. HistoryInv => CommitIsProvenAndAccepted
  BY DEF HistoryInv
<1> QED
  BY <1>1, HistoryInvariant, PTL
-----------------------------------------------------------------------------
(* Refinement: every step of the function is a step of CanonicalHead or none. *)

\* A step that writes neither canonical rows nor what the proof of an outcome is.
LEMMA FrameStutters ==
  ASSUME UNCHANGED <<pipeline, canonical, feedback>>
  PROVE  UNCHANGED Canonical!vars
<1>1. \A o \in Outcome : Place(o)' = Place(o)
  BY DEF Place, CommitsOf, canonical
<1>2. \A o \in Outcome : Basis(o)' = Basis(o)
  BY DEF Basis, canonical, pipeline
<1> QED
  BY <1>1, <1>2 DEF Canonical!vars, canonical

LEMMA InitRefines == Init => Canonical!Init
  BY DEF Init, Canonical!Init, Basis, Place, CommitsOf, NoFeedback

LEMMA CommitPromotes ==
  ASSUME Typed, HistoryInv, SeenInv, NEW s \in Session, NEW o \in Outcome, o = target[s],
         Apply(s), head[AssetOf[o]] = base[o], CommitsOf(o) = {}
  PROVE  Canonical!Promote(o)
<1> DEFINE a == AssetOf[o]
           n == Len(versions[a]) + 1
           commit == [transaction |-> o, asset |-> a, new |-> n, previous |-> base[o]]
<1>1. /\ a \in Asset /\ n \in Nat /\ n # 0
      /\ n = head[a] + 1
  BY DEF TypeOK, Typed, HistoryInv, LinearHistory
<1>2. /\ head' = [head EXCEPT ![a] = n]
      /\ stateCommits' = stateCommits \cup {commit}
      /\ txStatus' = [txStatus EXCEPT ![o] = "COMMITTED"]
      /\ UNCHANGED <<base, exact, feedback>>
  BY DEF Apply, MoveHead, RecordCommit, FinishTransaction, Return, pipeline
<1>3. exact[o] /\ feedback[o].accepted /\ txStatus[o] = "VERIFIED"
  BY DEF Apply, HistoryInv, Ready, SeenInv, SeenCurrent, AppliesVerified
<1>4. commit.transaction = o /\ commit.new = n
  OBVIOUS
<1>5. head[a] = base[o]
  OBVIOUS
<1> HIDE DEF a, n, commit
<1>6. Place(o) = 0 /\ Basis(o) = head[a]
  BY <1>3, <1>5 DEF Place, Basis
<1>7. ASSUME NEW x \in Outcome, x # o PROVE Place(x)' = Place(x)
  <2>1. CommitsOf(x)' = CommitsOf(x)
    BY <1>2, <1>4, <1>7 DEF CommitsOf
  <2> QED
    BY <2>1 DEF Place
<1>8. Place(o)' = n
  <2>1. CommitsOf(o)' = {commit}
    BY <1>2, <1>4 DEF CommitsOf
  <2>2. (CHOOSE c \in CommitsOf(o)' : TRUE) = commit
    BY <2>1
  <2> QED
    BY <1>4, <2>1, <2>2 DEF Place
<1>9. \A x \in Outcome : Basis(x)' = Basis(x)
  BY <1>2, <1>3 DEF Basis, Typed, TypeOK
<1>10. [x \in Outcome |-> Place(x)]' = [[x \in Outcome |-> Place(x)] EXCEPT ![o] = n]
  BY <1>7, <1>8
<1> QED
  BY <1>1, <1>2, <1>3, <1>6, <1>9, <1>10 DEF Canonical!Promote, a

LEMMA NextRefines ==
  Typed /\ HistoryInv /\ SeenInv /\ [Next]_vars => [Canonical!Next]_Canonical!vars
<1> SUFFICES ASSUME Typed, HistoryInv, SeenInv, [Next]_vars
             PROVE  Canonical!Next \/ UNCHANGED Canonical!vars
  OBVIOUS
<1>1. ASSUME NEW o \in Outcome, PublishOutcome(o)
      PROVE  Canonical!Prove(o) \/ UNCHANGED Canonical!vars
  <2>1. PICK status \in {"VERIFYING", "VERIFIED", "FAILED"},
             b \in DOMAIN versions[AssetOf[o]], e \in BOOLEAN :
             /\ txStatus' = [txStatus EXCEPT ![o] = status]
             /\ base' = [base EXCEPT ![o] = b]
             /\ exact' = [exact EXCEPT ![o] = e]
             /\ pending' = IF status = "VERIFYING" THEN pending \cup {o} ELSE pending
    BY <1>1 DEF PublishOutcome
  <2>2. txStatus[o] = "NONE" /\ UNCHANGED <<feedback, head, stateCommits>>
    BY <1>1 DEF PublishOutcome
  <2>3. \A x \in Outcome : Place(x)' = Place(x)
    BY <2>2 DEF Place, CommitsOf
  <2>4. \A x \in Outcome : x # o => Basis(x)' = Basis(x)
    BY <2>1 DEF Basis, Typed, TypeOK
  <2>5. Basis(o) = 0
    BY <2>2 DEF Basis
  <2>6. b \in 1 .. head[AssetOf[o]]
    BY <2>1 DEF Typed, TypeOK, HistoryInv, LinearHistory
  <2>7. CASE status = "VERIFIED" /\ e
    <3>1. Basis(o)' = b
      BY <2>1, <2>7 DEF Basis, Typed, TypeOK
    <3>2. [x \in Outcome |-> Basis(x)]' = [[x \in Outcome |-> Basis(x)] EXCEPT ![o] = b]
      BY <2>4, <3>1
    <3> QED
      BY <2>2, <2>3, <2>5, <2>6, <3>2 DEF Canonical!Prove
  <2>8. CASE ~(status = "VERIFIED" /\ e)
    <3>1. Basis(o)' = 0
      BY <2>1, <2>8 DEF Basis, Typed, TypeOK
    <3> QED
      BY <2>2, <2>3, <2>4, <2>5, <3>1 DEF Canonical!vars
  <2> QED
    BY <2>7, <2>8
<1>10. ASSUME NEW o \in Outcome, FinishVerification(o)
       PROVE  Canonical!Prove(o) \/ UNCHANGED Canonical!vars
  <2>1. /\ txStatus[o] = "VERIFYING"
        /\ txStatus' = [txStatus EXCEPT ![o] = "VERIFIED"]
        /\ UNCHANGED <<base, exact, feedback, head, stateCommits>>
    BY <1>10 DEF FinishVerification, SeenInv, PendingVerifies
  <2>2. \A x \in Outcome : Place(x)' = Place(x)
    BY <2>1 DEF Place, CommitsOf
  <2>3. \A x \in Outcome : x # o => Basis(x)' = Basis(x)
    BY <2>1 DEF Basis, Typed, TypeOK
  <2>4. Basis(o) = 0
    BY <2>1 DEF Basis
  <2>5. base[o] \in 1 .. head[AssetOf[o]]
    BY <2>1 DEF Typed, TypeOK, HistoryInv, BasesExist, LinearHistory
  <2>6. CASE exact[o]
    <3>1. Basis(o)' = base[o]
      BY <2>1, <2>6 DEF Basis, Typed, TypeOK
    <3>2. [x \in Outcome |-> Basis(x)]' = [[x \in Outcome |-> Basis(x)] EXCEPT ![o] = base[o]]
      BY <2>3, <3>1
    <3> QED
      BY <2>1, <2>2, <2>4, <2>5, <3>2 DEF Canonical!Prove
  <2>7. CASE ~exact[o]
    <3>1. Basis(o)' = 0
      BY <2>1, <2>7 DEF Basis
    <3> QED
      BY <2>1, <2>2, <2>3, <2>4, <3>1 DEF Canonical!vars
  <2> QED
    BY <2>6, <2>7
<1>2. ASSUME NEW p \in Principal, NEW o \in Outcome, NEW accepted \in BOOLEAN,
             SubmitFeedback(p, o, accepted)
      PROVE  Canonical!Accept(o) \/ UNCHANGED Canonical!vars
  <2>1. /\ ~feedback[o].accepted
        /\ feedback' = [feedback EXCEPT ![o] = [by |-> p, accepted |-> accepted]]
        /\ UNCHANGED <<txStatus, base, exact, head, stateCommits>>
    BY <1>2 DEF SubmitFeedback, NoFeedback, pipeline, canonical
  <2>2. \A x \in Outcome : Place(x)' = Place(x) /\ Basis(x)' = Basis(x)
    BY <2>1 DEF Place, CommitsOf, Basis
  <2>3. \A x \in Outcome : x # o => feedback'[x].accepted = feedback[x].accepted
    BY <2>1 DEF Typed, TypeOK
  <2>4. feedback'[o].accepted = accepted
    BY <2>1 DEF Typed, TypeOK
  <2>5. CASE accepted
    <3>1. {x \in Outcome : feedback'[x].accepted} = {x \in Outcome : feedback[x].accepted} \cup {o}
      BY <2>3, <2>4, <2>5
    <3> QED
      BY <2>1, <2>2, <3>1 DEF Canonical!Accept
  <2>6. CASE ~accepted
    <3>1. {x \in Outcome : feedback'[x].accepted} = {x \in Outcome : feedback[x].accepted}
      BY <2>1, <2>3, <2>4, <2>6
    <3> QED
      BY <2>1, <2>2, <3>1 DEF Canonical!vars
  <2> QED
    BY <2>5, <2>6
<1>3. ASSUME NEW p \in Principal, NEW by \in Principal, RevokeMembership(p, by)
      PROVE  UNCHANGED Canonical!vars
  BY <1>3, FrameStutters DEF RevokeMembership
<1>4. ASSUME SuspendTenant PROVE UNCHANGED Canonical!vars
  BY <1>4, FrameStutters DEF SuspendTenant
<1>5. ASSUME NEW s \in Session, NEW p \in Principal, NEW o \in Outcome, Call(s, p, o)
      PROVE  UNCHANGED Canonical!vars
  BY <1>5, FrameStutters DEF Call
<1>6. ASSUME NEW s \in Session,
             \/ ReadOutcome(s) \/ LockTenant(s) \/ LockMembership(s) \/ CheckAuthority(s)
             \/ ReadTransaction(s) \/ LockAsset(s) \/ Validate(s) \/ Disconnect(s)
      PROVE  UNCHANGED Canonical!vars
  BY <1>6, FrameStutters DEF ReadOutcome, LockTenant, LockMembership, CheckAuthority,
     ReadTransaction, LockAsset, Validate, Disconnect, Raise
<1>7. ASSUME NEW s \in Session, Apply(s)
      PROVE  Canonical!Promote(target[s]) \/ UNCHANGED Canonical!vars
  <2>1. CASE head[AssetOf[target[s]]] # base[target[s]] \/ CommitsOf(target[s]) # {}
    BY <1>7, <2>1, FrameStutters DEF Apply, Raise
  <2>2. CASE head[AssetOf[target[s]]] = base[target[s]] /\ CommitsOf(target[s]) = {}
    BY <1>7, <2>2, CommitPromotes DEF Apply, Typed, Busy
  <2> QED
    BY <2>1, <2>2
<1>8. CASE UNCHANGED vars
  BY <1>8, FrameStutters DEF vars
<1>9. ASSUME NEW s \in Session, Apply(s) PROVE target[s] \in Outcome
  BY <1>9 DEF Apply, Typed, Busy
<1> QED
  BY <1>1, <1>2, <1>3, <1>4, <1>5, <1>6, <1>7, <1>8, <1>9,
     <1>10 DEF Next, Step, Canonical!Next

\* commit_accepted_field_outcome implements the compare-and-set of CanonicalHead.
THEOREM Refinement == Spec => ImplementsCanonicalHead
  BY InitRefines, NextRefines, TypeCorrect, HistoryInvariant, SeenInvariant, PTL
  DEF Spec, ImplementsCanonicalHead, Canonical!Spec

\* A retry of a committed outcome whose version is still the head is answered
\* with its StateCommit.
THEOREM Replay == Spec => ReplayIsIdempotent
<1>1. Typed /\ AuthorityInv /\ HistoryInv /\ SeenInv /\ [Next]_vars =>
        [\A s \in Session :
           /\ pc[s] = "validate" /\ pc'[s] # "validate"
           /\ \E c \in CommitsOf(target[s]) : head[c.asset] = c.new
           => answer'[s] \in {"idempotent", "lost"}]_vars
  <2> SUFFICES ASSUME Typed, AuthorityInv, HistoryInv, SeenInv, Next, NEW s \in Session,
                      pc[s] = "validate", pc'[s] # "validate",
                      NEW c \in CommitsOf(target[s]), head[c.asset] = c.new
               PROVE  answer'[s] \in {"idempotent", "lost"}
    BY DEF vars, locals
  <2>1. Verdict(s) = "idempotent"
    <3>1. target[s] \in Outcome /\ c \in stateCommits /\ c.transaction = target[s]
      BY DEF Typed, Busy, CommitsOf
    <3>2. \A d \in CommitsOf(target[s]) : d = c
      BY <3>1 DEF CommitsOf, HistoryInv, CommitLineage
    <3>3. c.asset = AssetOf[target[s]]
      BY <3>1 DEF HistoryInv, CommitsExist
    <3>4. seen[s] = "COMMITTED"
      BY <3>1 DEF SeenInv, SeenCurrent, HistoryInv, FinishedIffCommitted
    <3> QED
      BY <3>2, <3>3, <3>4 DEF Verdict, ConsistentReplay
  <2>2. CASE Validate(s)
    BY <2>1, <2>2 DEF Validate, Raise, Return, Typed, TypeOK
  <2>3. CASE Disconnect(s)
    BY <2>3 DEF Disconnect, Raise, Return, Typed, TypeOK
  <2>4. ASSUME NEW t \in Session, t # s, Step(t) \/ Disconnect(t) PROVE FALSE
    BY <2>4 DEF Step, Disconnect, ReadOutcome, LockTenant, LockMembership, CheckAuthority,
       ReadTransaction, LockAsset, Validate, Apply, Raise, Return, Typed, TypeOK
  <2>5. ASSUME NEW t \in Session, NEW p \in Principal, NEW o \in Outcome, Call(t, p, o)
        PROVE  FALSE
    BY <2>5 DEF Call, Typed, TypeOK
  <2>6. CASE Step(s)
    BY <2>2, <2>6 DEF Step, ReadOutcome, LockTenant, LockMembership, CheckAuthority,
       ReadTransaction, LockAsset, Apply
  <2>7. ASSUME UNCHANGED locals PROVE FALSE
    BY <2>7 DEF locals
  <2> QED
    BY <2>3, <2>4, <2>5, <2>6, <2>7 DEF Next, PublishOutcome, FinishVerification,
       SubmitFeedback, RevokeMembership, SuspendTenant
<1> QED
  BY <1>1, TypeCorrect, AuthorityInvariant, HistoryInvariant, SeenInvariant, PTL
  DEF Spec, ReplayIsIdempotent

\* The transaction row and the StateCommit agree, whichever sessions failed.
THEOREM Atomicity == Spec => []FinishedIffCommitted
<1>1. HistoryInv => FinishedIffCommitted
  BY DEF HistoryInv
<1> QED
  BY <1>1, HistoryInvariant, PTL

\* A call in progress has not been answered yet.
Unanswered == \A s \in Session : pc[s] # "idle" => answer[s] = "none"

\* A step a session takes on its way leaves the answers of the others alone, and
\* its own unless it ends the call.
LEMMA UnansweredNext == Typed /\ Unanswered /\ [Next]_vars => Unanswered'
<1> SUFFICES ASSUME Typed, Unanswered, [Next]_vars PROVE Unanswered'
  OBVIOUS
<1>1. ASSUME NEW s \in Session, NEW reply, Return(s, reply) PROVE Unanswered'
  BY <1>1 DEF Return, Typed, TypeOK, Unanswered
<1>2. ASSUME NEW s \in Session, pc[s] # "idle", UNCHANGED answer,
             \A t \in Session : t # s => pc'[t] = pc[t]
      PROVE  Unanswered'
  BY <1>2 DEF Unanswered
<1>3. CASE UNCHANGED locals
  BY <1>3 DEF locals, Unanswered
<1>4. ASSUME NEW s \in Session, NEW p \in Principal, NEW o \in Outcome, Call(s, p, o)
      PROVE  Unanswered'
  BY <1>4 DEF Call, Typed, TypeOK, Unanswered
<1>5. ASSUME NEW s \in Session, Step(s) PROVE Unanswered'
  <2>1. CASE ReadOutcome(s) \/ LockMembership(s) \/ ReadTransaction(s) \/ LockAsset(s)
    BY <1>2, <2>1 DEF ReadOutcome, LockMembership, ReadTransaction, LockAsset, Typed, TypeOK
  <2>2. CASE LockTenant(s) \/ CheckAuthority(s) \/ Validate(s)
    BY <1>1, <1>2, <2>2 DEF LockTenant, CheckAuthority, Validate, Raise, Typed, TypeOK
  <2>3. CASE Apply(s)
    BY <1>1, <2>3 DEF Apply, Raise
  <2> QED
    BY <1>5, <2>1, <2>2, <2>3 DEF Step
<1>6. ASSUME NEW s \in Session, Disconnect(s) PROVE Unanswered'
  BY <1>1, <1>6 DEF Disconnect, Raise
<1>7. CASE UNCHANGED vars
  BY <1>3, <1>7 DEF vars
<1> QED
  BY <1>3, <1>4, <1>5, <1>6, <1>7 DEF Next, PublishOutcome, FinishVerification, SubmitFeedback, RevokeMembership,
     SuspendTenant

\* A client that is told "committed" or "idempotent" has its StateCommit in the
\* table when the answer leaves, whatever the other sessions did to the head.
THEOREM TrueAnswer == Spec => AnswerIsTrue
<1>1. Typed /\ Unanswered /\ [Next]_vars =>
        [\A s \in Session :
           answer'[s] \in {"committed", "idempotent"} /\ pc[s] # pc'[s]
             => \E c \in stateCommits' : c.transaction = target[s]]_vars
  <2> SUFFICES ASSUME Typed, Unanswered, Next, NEW s \in Session,
                      answer'[s] \in {"committed", "idempotent"}, pc[s] # pc'[s]
               PROVE  \E c \in stateCommits' : c.transaction = target[s]
    BY DEF vars, locals
  <2>1. CASE Validate(s)
    <3>1. answer[s] = "none" /\ s \in DOMAIN answer
      BY <2>1 DEF Validate, Typed, TypeOK, Unanswered
    <3>2. Verdict(s) # "valid" /\ Raise(s, Verdict(s))
      BY <2>1, <3>1 DEF Validate
    <3>3. Verdict(s) = "idempotent"
      BY <3>1, <3>2, VerdictType DEF Raise, Return, Denials
    <3>4. CommitsOf(target[s]) # {}
      BY <3>3 DEF Verdict
    <3> QED
      BY <3>2, <3>4 DEF CommitsOf, Raise, canonical
  <2>2. CASE Apply(s)
    <3>1. RecordCommit(target[s], Len(versions[AssetOf[target[s]]]) + 1)
      BY <2>2 DEF Apply, Raise, Return, Typed, TypeOK
    <3> DEFINE c == [transaction |-> target[s], asset |-> AssetOf[target[s]],
                     new |-> Len(versions[AssetOf[target[s]]]) + 1,
                     previous |-> base[target[s]]]
    <3>2. c \in stateCommits' /\ c.transaction = target[s]
      BY <3>1 DEF RecordCommit
    <3> QED
      BY <3>2
  <2>3. CASE Step(s) /\ ~Validate(s) /\ ~Apply(s)
    BY <2>3 DEF Step, ReadOutcome, LockTenant, LockMembership, CheckAuthority, ReadTransaction,
       LockAsset, Raise, Return, Typed, TypeOK, Unanswered
  <2>4. CASE Disconnect(s)
    BY <2>4 DEF Disconnect, Raise, Return, Typed, TypeOK
  <2>5. ASSUME NEW t \in Session, t # s, Step(t) \/ Disconnect(t) PROVE FALSE
    BY <2>5 DEF Step, Disconnect, ReadOutcome, LockTenant, LockMembership, CheckAuthority,
       ReadTransaction, LockAsset, Validate, Apply, Raise, Return, Typed, TypeOK
  <2>6. ASSUME NEW t \in Session, NEW p \in Principal, NEW o \in Outcome, Call(t, p, o)
        PROVE  FALSE
    BY <2>6 DEF Call, Typed, TypeOK
  <2>7. ASSUME UNCHANGED locals PROVE FALSE
    BY <2>7 DEF locals
  <2> QED
    BY <2>1, <2>2, <2>3, <2>4, <2>5, <2>6, <2>7 DEF Next, PublishOutcome, FinishVerification, SubmitFeedback,
       RevokeMembership, SuspendTenant
<1>2. Init => Unanswered
  BY DEF Init, Unanswered
<1> QED
  BY <1>1, <1>2, UnansweredNext, TypeCorrect, PTL DEF Spec, AnswerIsTrue
=============================================================================
