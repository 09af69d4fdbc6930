-------------------------- MODULE ExecutionAdmission --------------------------
(***************************************************************************)
(* Admission of an image-provider call: the D5 mutation lease              *)
(* (build002_grant_mutation_lease), the D6 execution-attempt reservation   *)
(* and its single-use consumption, and the TypeScript gateway that chains  *)
(* reserve, consume and the provider call.  Every worker is one gateway    *)
(* invocation or one lease request at a time.                              *)
(*                                                                         *)
(* Both D6 functions re-enter the D5 function inside their transaction, so *)
(* the D5 steps (freeze, tenant, graph) are shared and call[w] tells which *)
(* function continues after them.  One step is one lock acquisition with   *)
(* the checks up to the next lock; locks follow from the program counter.  *)
(* A worker can lose its client at any point: the database function it     *)
(* left behind runs on to its end.                                         *)
(*                                                                         *)
(* One OutcomeTransaction with its tenant, asset, TaskSpec and patches.    *)
(* The D4 execution authorities exist from the start.  A lease is named by *)
(* its authority: the gateway uses the one target path "instruction", and  *)
(* (execution_authority_id, target_path, category) is unique.  Hash        *)
(* readbacks compare immutable rows with themselves and are left out.      *)
(***************************************************************************)
EXTENDS Naturals, Sequences, FiniteSets

CONSTANTS
  Worker,         \* server processes that call the gateway or the lease issuer
  Authority,      \* build002_execution_authorities of the transaction
  Principal,
  PrincipalOf,    \* the principal an authority names
  AuthorityUntil, \* valid_until of an authority
  LeaseSeconds,   \* v_ttl_seconds
  Operation,      \* operation values a caller may ask for
  BoundOperation, \* the one the patch and the TaskSpec bind
  MaxTime,        \* bound of the clock
  NoAuthority,
  NoOperation

ASSUME PrincipalOfAssumption == PrincipalOf \in [Authority -> Principal]
ASSUME AuthorityUntilAssumption == AuthorityUntil \in [Authority -> Nat]
ASSUME TimeAssumption == LeaseSeconds \in Nat \ {0} /\ MaxTime \in Nat
ASSUME OperationAssumption == BoundOperation \in Operation /\ NoOperation \notin Operation
ASSUME NoAuthorityAssumption == NoAuthority \notin Authority

VARIABLES
  clock,          \* clock_timestamp(), and Date.now() of the workers
  tenantStatus,   \* tenants.status
  membership,     \* membership[p]: tenant_memberships.status
  drifted,        \* parts of the D4 graph that no longer match the authority
  leaseUntil,     \* leaseUntil[a]: valid_until of the lease, 0 when not granted
  reservations,   \* build002_execution_attempt_reservations
  consumptions,   \* execution_attempt_id of build002_execution_attempt_consumptions
  providerCalls,  \* attempts handed to executor.execute, in order
  pc,             \* pc[w]: what the worker does next
  call,           \* call[w]: the database function it is in
  auth,           \* auth[w]: the authority (and lease) of the call
  operation,      \* operation[w]: operationValue of the gateway's context
  attempt,        \* attempt[w]: execution_attempt_id the gateway got, 0 before
  now,            \* now[w]: v_now of the D5 body
  orphan          \* orphan[w]: the client of the running function is gone

world     == <<clock, tenantStatus, membership, drifted>>
canonical == <<leaseUntil, reservations, consumptions>>
locals    == <<pc, call, auth, operation, attempt, now, orphan>>
vars == <<world, canonical, providerCalls, locals>>

\* "graph": the transaction left PREPARED, the asset head moved, readiness or a
\* signal changed; "semantics": TaskSpec value, intent and patch no longer agree.
Drift == {"graph", "semantics"}

InDatabase == {"freeze", "tenant", "graph", "attempt", "lock", "admit"}
\* Mutant: membership and graph are read without row locks.
NothingHeld == {}
\* Locks held at a program point: the SHARE table locks on field_outcomes,
\* transaction_patches and partial_intents; the tenant row; membership and graph.
HoldsTables == {"tenant", "graph", "attempt", "admit"}
HoldsTenant == {"graph", "attempt", "admit"}
HoldsGraph  == {"attempt", "admit"}

TenantFree == \A v \in Worker : pc[v] \notin HoldsTenant
MembershipFree(p) ==
  \A v \in Worker : pc[v] \in HoldsGraph => PrincipalOf[auth[v]] # p
GraphFree == \A v \in Worker : pc[v] \notin HoldsGraph
TablesFree == \A v \in Worker : pc[v] \notin HoldsTables

\* v holds the row of reservation n FOR UPDATE.
HoldsReservation(v, n) ==
  /\ call[v] = "consume"
  /\ pc[v] \in {"freeze", "tenant", "graph", "admit"}
  /\ attempt[v] = n
ReservationFree(n) == \A v \in Worker : ~HoldsReservation(v, n)

ReservationsOf(a) == {r \in reservations : r.lease = a}
NextAttempt == Cardinality(reservations) + 1

TypeOK ==
  /\ clock \in 0..MaxTime
  /\ tenantStatus \in {"ACTIVE", "SUSPENDED"}
  /\ membership \in [Principal -> {"ACTIVE", "REVOKED"}]
  /\ drifted \subseteq Drift
  /\ leaseUntil \in [Authority -> Nat]
  /\ reservations \subseteq [attempt: Nat \ {0}, lease: Authority]
  /\ consumptions \subseteq Nat
  /\ providerCalls \in Seq(Nat)
  /\ pc \in [Worker -> {"idle", "reserved", "consumed"} \cup InDatabase]
  /\ call \in [Worker -> {"none", "grant", "reserve", "consume"}]
  /\ auth \in [Worker -> Authority \cup {NoAuthority}]
  /\ operation \in [Worker -> Operation \cup {NoOperation}]
  /\ attempt \in [Worker -> Nat]
  /\ now \in [Worker -> 0..MaxTime]
  /\ orphan \in [Worker -> BOOLEAN]

Init ==
  /\ clock = 0
  /\ tenantStatus = "ACTIVE"
  /\ membership = [p \in Principal |-> "ACTIVE"]
  /\ drifted = {}
  /\ leaseUntil = [a \in Authority |-> 0]
  /\ reservations = {}
  /\ consumptions = {}
  /\ providerCalls = <<>>
  /\ pc = [w \in Worker |-> "idle"]
  /\ call = [w \in Worker |-> "none"]
  /\ auth = [w \in Worker |-> NoAuthority]
  /\ operation = [w \in Worker |-> NoOperation]
  /\ attempt = [w \in Worker |-> 0]
  /\ now = [w \in Worker |-> 0]
  /\ orphan = [w \in Worker |-> FALSE]
-----------------------------------------------------------------------------
(* What happens around the boundary. *)

Tick ==
  /\ clock < MaxTime
  /\ clock' = clock + 1
  /\ UNCHANGED <<tenantStatus, membership, drifted, canonical, providerCalls, locals>>

\* An operator suspends the tenant; the row update waits for the lock.
SuspendTenant ==
  /\ tenantStatus = "ACTIVE"
  /\ TenantFree
  /\ tenantStatus' = "SUSPENDED"
  /\ UNCHANGED <<clock, membership, drifted, canonical, providerCalls, locals>>

\* revoke_tenant_membership waits for the row lock of a running function.
RevokeMembership(p) ==
  /\ membership[p] = "ACTIVE"
  /\ MembershipFree(p)
  /\ membership' = [membership EXCEPT ![p] = "REVOKED"]
  /\ UNCHANGED <<clock, tenantStatus, drifted, canonical, providerCalls, locals>>

\* A commit, an abort, a new head or a new signal; each waits for the lock that
\* a running D5 body holds on what it changes.
ChangeGraph ==
  /\ "graph" \notin drifted
  /\ GraphFree
  /\ drifted' = drifted \cup {"graph"}
  /\ UNCHANGED <<clock, tenantStatus, membership, canonical, providerCalls, locals>>

\* A patch or intent is inserted, so that none or more than one matches.
ChangeSemantics ==
  /\ "semantics" \notin drifted
  /\ TablesFree
  /\ drifted' = drifted \cup {"semantics"}
  /\ UNCHANGED <<clock, tenantStatus, membership, canonical, providerCalls, locals>>
-----------------------------------------------------------------------------
(* How a worker's call ends. *)

\* The worker forgets the call; its locks, if any, go.
Finish(w) ==
  /\ pc' = [pc EXCEPT ![w] = "idle"]
  /\ call' = [call EXCEPT ![w] = "none"]
  /\ auth' = [auth EXCEPT ![w] = NoAuthority]
  /\ operation' = [operation EXCEPT ![w] = NoOperation]
  /\ attempt' = [attempt EXCEPT ![w] = 0]
  /\ now' = [now EXCEPT ![w] = 0]
  /\ orphan' = [orphan EXCEPT ![w] = FALSE]

\* The function raises: its transaction writes nothing, the gateway rethrows.
Raise(w) == Finish(w) /\ UNCHANGED <<canonical, providerCalls>>

\* The function goes on at the next lock.
Continue(w, next) ==
  /\ pc' = [pc EXCEPT ![w] = next]
  /\ UNCHANGED <<canonical, providerCalls, call, auth, operation, attempt, now, orphan>>

\* The function commits and its client, if still there, goes on at next.
ReturnTo(w, next, n) ==
  IF orphan[w] THEN Finish(w)
  ELSE /\ pc' = [pc EXCEPT ![w] = next]
       /\ attempt' = [attempt EXCEPT ![w] = n]
       /\ now' = [now EXCEPT ![w] = 0]
       /\ UNCHANGED <<call, auth, operation, orphan>>

\* The client disconnects or its process dies; a database function runs on.
LoseClient(w) ==
  /\ pc[w] # "idle"
  /\ IF pc[w] \in InDatabase
     THEN /\ ~orphan[w]
          /\ orphan' = [orphan EXCEPT ![w] = TRUE]
          /\ UNCHANGED <<pc, call, auth, operation, attempt, now>>
     ELSE Finish(w)
  /\ UNCHANGED <<world, canonical, providerCalls>>
-----------------------------------------------------------------------------
(* The calls. *)

\* A lease request for an authority, by the principal it names: any other
\* caller is refused by the join on the membership before a row is locked.
RequestLease(w, a) ==
  /\ pc[w] = "idle"
  /\ pc' = [pc EXCEPT ![w] = "freeze"]
  /\ call' = [call EXCEPT ![w] = "grant"]
  /\ auth' = [auth EXCEPT ![w] = a]
  /\ UNCHANGED <<world, canonical, providerCalls, operation, attempt, now, orphan>>

\* Leases of p the gateway finds current.
CurrentLeases(p) == {a \in Authority : PrincipalOf[a] = p /\ leaseUntil[a] > clock}

\* Gateway: find the one current lease of the caller (none, or more than one, is
\* refused without a database call) and call reserve.
Invoke(w, p, o) ==
  /\ pc[w] = "idle"
  /\ \E a \in Authority :
       /\ CurrentLeases(p) = {a}
       /\ auth' = [auth EXCEPT ![w] = a]
  /\ pc' = [pc EXCEPT ![w] = "freeze"]
  /\ call' = [call EXCEPT ![w] = "reserve"]
  /\ operation' = [operation EXCEPT ![w] = o]
  /\ UNCHANGED <<world, canonical, providerCalls, attempt, now, orphan>>
-----------------------------------------------------------------------------
(* D5, entered by all three functions. *)

\* D5-R1: an expired lease is evidence, never current authority.
LeaseExpired(a) == leaseUntil[a] # 0 /\ leaseUntil[a] <= clock

\* D5-R1: SHARE locks on the semantic tables, the existing lease, the exact
\* TaskSpec value and patch; then the D5-R0 body samples its v_now.
Freeze(w) ==
  /\ pc[w] = "freeze"
  /\ IF LeaseExpired(auth[w]) \/ "semantics" \in drifted
     THEN Raise(w)
     ELSE /\ pc' = [pc EXCEPT ![w] = "tenant"]
          /\ now' = [now EXCEPT ![w] = clock]
          /\ UNCHANGED <<canonical, providerCalls, call, auth, operation, attempt, orphan>>
  /\ UNCHANGED world

\* D5-R0: the tenant row FOR UPDATE.
LockTenant(w) ==
  /\ pc[w] = "tenant"
  /\ TenantFree
  /\ IF tenantStatus = "ACTIVE" THEN Continue(w, "graph") ELSE Raise(w)
  /\ UNCHANGED world

\* D5-R0: membership, transaction, head, admission, readiness and signals, each
\* read under its lock, and the authority's expiry against v_now.
GraphCurrent(w) ==
  /\ membership[PrincipalOf[auth[w]]] = "ACTIVE"
  /\ "graph" \notin drifted
  /\ now[w] < AuthorityUntil[auth[w]]

\* least(d4.valid_until, v_now + TTL)
FreshLeaseEnd(w) ==
  IF AuthorityUntil[auth[w]] < now[w] + LeaseSeconds
  THEN AuthorityUntil[auth[w]] ELSE now[w] + LeaseSeconds

\* Mutant: issuing again extends the lease.
RenewLease(w) == leaseUntil' = [leaseUntil EXCEPT ![auth[w]] = FreshLeaseEnd(w)]
\* D5-R0: an existing lease is returned as it is, otherwise one is inserted.
IssueLease(w) ==
  leaseUntil' = [leaseUntil EXCEPT ![auth[w]] = IF @ = 0 THEN FreshLeaseEnd(w) ELSE @]

RejectGraph(w) ==
  /\ pc[w] = "graph"
  /\ ~GraphCurrent(w)
  /\ Raise(w)
  /\ UNCHANGED world

GrantLease(w) ==
  /\ pc[w] = "graph" /\ call[w] = "grant"
  /\ GraphCurrent(w)
  /\ IssueLease(w)
  /\ Finish(w)
  /\ UNCHANGED <<world, reservations, consumptions, providerCalls>>

\* Reserve and consume get the lease they came with and go on.
ReenterLease(w) ==
  /\ pc[w] = "graph" /\ call[w] \in {"reserve", "consume"}
  /\ GraphCurrent(w)
  /\ Continue(w, IF call[w] = "reserve" THEN "attempt" ELSE "admit")
  /\ UNCHANGED world
-----------------------------------------------------------------------------
(* D6 reserve, after the lease. *)

\* The caller's operation is not the one the patch and the TaskSpec bind.
RejectOperation(w) ==
  /\ pc[w] = "attempt"
  /\ operation[w] # BoundOperation
  /\ Raise(w)
  /\ UNCHANGED world

\* An existing reservation of the lease, FOR SHARE: it is returned while valid.
\* Its operation is the bound one, so the binding conflict cannot arise.
ReuseReservation(w) ==
  /\ pc[w] = "attempt" /\ operation[w] = BoundOperation
  /\ \E r \in ReservationsOf(auth[w]) :
       /\ ReservationFree(r.attempt)
       /\ IF LeaseExpired(auth[w]) THEN Raise(w)
          ELSE /\ ReturnTo(w, "reserved", r.attempt)
               /\ UNCHANGED <<canonical, providerCalls>>
  /\ UNCHANGED world

\* Mutant: a fresh attempt per call, with no look at the lease's reservation.
AnotherReservation(w) ==
  /\ pc[w] = "attempt" /\ operation[w] = BoundOperation
  /\ NextAttempt <= 2
  /\ reservations' = reservations \cup {[attempt |-> NextAttempt, lease |-> auth[w]]}
  /\ ReturnTo(w, "reserved", NextAttempt)
  /\ UNCHANGED <<world, leaseUntil, consumptions, providerCalls>>
\* Mutant: the row takes the attempt of the call, which has none yet.
UnnumberedReservation(w) ==
  /\ pc[w] = "attempt" /\ operation[w] = BoundOperation
  /\ ReservationsOf(auth[w]) = {}
  /\ reservations' = reservations \cup {[attempt |-> attempt[w], lease |-> auth[w]]}
  /\ ReturnTo(w, "reserved", attempt[w])
  /\ UNCHANGED <<world, leaseUntil, consumptions, providerCalls>>
\* No reservation yet: one is inserted with a new attempt identity, valid as
\* long as the lease.  The tenant row is locked, so no other session can have
\* inserted one and the unique_violation handler is not reached.
CreateReservation(w) ==
  /\ pc[w] = "attempt" /\ operation[w] = BoundOperation
  /\ ReservationsOf(auth[w]) = {}
  /\ reservations' = reservations \cup {[attempt |-> NextAttempt, lease |-> auth[w]]}
  /\ ReturnTo(w, "reserved", NextAttempt)
  /\ UNCHANGED <<world, leaseUntil, consumptions, providerCalls>>
-----------------------------------------------------------------------------
(* The gateway between the two functions, and D6 consume. *)

\* Mutant: the gateway takes the reservation for the admission.
SkipConsume(w) ==
  /\ pc[w] = "reserved"
  /\ pc' = [pc EXCEPT ![w] = "consumed"]
  /\ UNCHANGED <<world, canonical, providerCalls, call, auth, operation, attempt, now, orphan>>

\* The repository reads the reservation back and refuses an expired one; the
\* gateway calls consume.
CallConsume(w) ==
  /\ pc[w] = "reserved"
  /\ IF LeaseExpired(auth[w]) THEN Finish(w)
     ELSE /\ pc' = [pc EXCEPT ![w] = "lock"]
          /\ call' = [call EXCEPT ![w] = "consume"]
          /\ UNCHANGED <<auth, operation, attempt, now, orphan>>
  /\ UNCHANGED <<world, canonical, providerCalls>>

\* Mutant: a repeated consumption is answered like a repeated reservation.
Reconsumable(n) == TRUE
\* No consumption of the reservation exists.
Unconsumed(n) == n \notin consumptions

\* The reservation row FOR UPDATE, then the consumption and expiry checks.
LockReservation(w) ==
  /\ pc[w] = "lock"
  /\ ReservationFree(attempt[w])
  /\ IF Unconsumed(attempt[w]) /\ ~LeaseExpired(auth[w])
     THEN Continue(w, "freeze") ELSE Raise(w)
  /\ UNCHANGED world

\* The consumption is inserted and committed; reservation_id is unique.
Admit(w) ==
  /\ pc[w] = "admit"
  /\ IF Unconsumed(attempt[w])
     THEN /\ consumptions' = consumptions \cup {attempt[w]}
          /\ ReturnTo(w, "consumed", attempt[w])
          /\ UNCHANGED <<leaseUntil, reservations, providerCalls>>
     ELSE Raise(w)
  /\ UNCHANGED world

\* Mutant: the gateway keeps the attempt to retry the provider.
RetryProvider(w) ==
  /\ pc[w] = "consumed"
  /\ providerCalls' = Append(providerCalls, attempt[w])
  /\ UNCHANGED <<world, canonical, locals>>

\* The gateway hands the attempt to the executor, once, whatever comes back.
CallProvider(w) ==
  /\ pc[w] = "consumed"
  /\ providerCalls' = Append(providerCalls, attempt[w])
  /\ Finish(w)
  /\ UNCHANGED <<world, canonical>>

\* w waits for a row lock that v holds.
WaitsFor(w, v) ==
  \/ pc[w] = "tenant" /\ v # w /\ pc[v] \in HoldsTenant
  \/ pc[w] = "lock" /\ HoldsReservation(v, attempt[w])
  \/ /\ pc[w] = "attempt" /\ operation[w] = BoundOperation
     /\ \E r \in ReservationsOf(auth[w]) : HoldsReservation(v, r.attempt)

\* Mutant: PostgreSQL's deadlock detector is off.
NoVictim(w) == FALSE
\* The deadlock detector aborts one of two sessions that wait for each other;
\* a longer cycle contains such a pair, since only a holder of the tenant row
\* waits for a reservation while it holds a lock others wait for.
BreakDeadlock(w) ==
  /\ \E v \in Worker : WaitsFor(w, v) /\ WaitsFor(v, w)
  /\ Raise(w)
  /\ UNCHANGED world
-----------------------------------------------------------------------------
Step(w) ==
  \/ Freeze(w) \/ LockTenant(w) \/ RejectGraph(w) \/ GrantLease(w) \/ ReenterLease(w)
  \/ RejectOperation(w) \/ ReuseReservation(w) \/ CreateReservation(w)
  \/ CallConsume(w) \/ LockReservation(w) \/ Admit(w) \/ CallProvider(w)
  \/ BreakDeadlock(w)

Next ==
  \/ Tick \/ SuspendTenant \/ ChangeGraph \/ ChangeSemantics
  \/ \E p \in Principal : RevokeMembership(p)
  \/ \E w \in Worker :
       \/ Step(w)
       \/ LoseClient(w)
       \/ \E a \in Authority : RequestLease(w, a)
       \/ \E p \in Principal, o \in Operation : Invoke(w, p, o)

Spec == Init /\ [][Next]_vars

\* Every started function gets to run, a row lock is granted to a waiter it is
\* offered to again and again, and PostgreSQL breaks a deadlock after
\* deadlock_timeout.  Nobody has to call, disconnect or change anything.
Fairness ==
  \A w \in Worker :
    /\ WF_vars(Step(w))
    /\ SF_vars(LockTenant(w))
    /\ SF_vars(LockReservation(w))

FairSpec == Spec /\ Fairness
-----------------------------------------------------------------------------
(* Properties. *)

\* One lease gives one attempt identity, however many gateways reserve it at the
\* same time, lose the answer and reserve again (D6 reserve is idempotent).
OneAttemptPerLease ==
  \A r, q \in reservations : r.lease = q.lease \/ r.attempt = q.attempt => r = q

\* D6-I-LINEAGE: the attempt a gateway works on is the one reserved for its
\* lease, every consumption is of a reserved attempt, and the executor only
\* sees consumed attempts.
ExactLineage ==
  /\ \A w \in Worker : attempt[w] # 0 => [attempt |-> attempt[w], lease |-> auth[w]] \in reservations
  /\ \A n \in consumptions : \E r \in reservations : r.attempt = n
  /\ \A i \in DOMAIN providerCalls : providerCalls[i] \in consumptions

\* An attempt reaches the image provider at most once, over concurrent gateways,
\* retries, lost answers and functions that outlive their client.
AtMostOneProviderCall ==
  \A i, j \in DOMAIN providerCalls : providerCalls[i] = providerCalls[j] => i = j

\* A consumption is only written while the tenant and the membership are active
\* and transaction, head, signals and patches still match the authority: no
\* change can slip between the D5 checks and the insert.
AdmitUnderCurrentAuthority ==
  [][\A r \in reservations : r.attempt \in consumptions' \ consumptions =>
       /\ tenantStatus = "ACTIVE"
       /\ membership[PrincipalOf[r.lease]] = "ACTIVE"
       /\ drifted = {}]_vars

\* A granted lease is never extended, replaced or reissued (D5-R1): its end, and
\* with it the end of its reservation, is fixed by the first grant.
LeaseNeverRenewed ==
  [][\A a \in Authority : leaseUntil[a] # 0 => leaseUntil'[a] = leaseUntil[a]]_vars

\* The boundary implements the abstract gate.
Gate == INSTANCE AdmissionGate
  WITH reserved <- {r.attempt : r \in reservations},
       admitted <- consumptions, invoked <- providerCalls
ImplementsAdmissionGate == Gate!Spec

\* Every call of a gateway or lease issuer ends, also when two functions wait
\* for each other's rows.
EveryCallEnds == \A w \in Worker : pc[w] # "idle" ~> pc[w] = "idle"

\* What 01_C1_D6_REMEDIATION_SPEC.md says of consumption: an expired lease or
\* reservation is not accepted.
NoExpiredAdmission ==
  [][\A r \in reservations : r.attempt \in consumptions' \ consumptions =>
       clock < leaseUntil[r.lease]]_vars

\* What 09_IMPLEMENTATION_SEQUENCE.md demands of the lock order: no two sessions
\* of the boundary ever wait for each other.
ConsistentLockOrder == \A w, v \in Worker : ~(WaitsFor(w, v) /\ WaitsFor(v, w))
=============================================================================
