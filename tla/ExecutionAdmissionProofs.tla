----------------------- MODULE ExecutionAdmissionProofs -----------------------
(***************************************************************************)
(* Theorems about ExecutionAdmission for every set of workers, authorities *)
(* and principals, every lease time and every bound of the clock.          *)
(***************************************************************************)
EXTENDS ExecutionAdmission, FiniteSetTheorems, TLAPS

\* What the proofs assume of the constants: the named assumptions of the model.
USE PrincipalOfAssumption, AuthorityUntilAssumption, TimeAssumption, OperationAssumption,
    NoAuthorityAssumption

\* A working call has an authority, and an attempt once one was reserved.
Working ==
  \A w \in Worker :
    /\ pc[w] # "idle" => auth[w] \in Authority
    /\ pc[w] \in {"reserved", "consumed", "lock", "admit"} \/ call[w] = "consume" => attempt[w] # 0

Typed == TypeOK /\ Working

LEMMA FinishTyped ==
  ASSUME Typed, NEW w \in Worker, Finish(w), UNCHANGED <<world, canonical, providerCalls>>
  PROVE  Typed'
<1>1. TypeOK'
  BY DEF Typed, TypeOK, Finish, InDatabase, world, canonical
<1>2. Working'
  BY DEF Typed, TypeOK, Working, Finish
<1> QED
  BY <1>1, <1>2 DEF Typed

LEMMA RaiseTyped ==
  ASSUME Typed, NEW w \in Worker, Raise(w), UNCHANGED world
  PROVE  Typed'
  BY FinishTyped DEF Raise

LEMMA ContinueTyped ==
  ASSUME Typed, NEW w \in Worker, NEW next \in InDatabase, Continue(w, next), UNCHANGED world,
         pc[w] # "idle", next \in {"lock", "admit"} => attempt[w] # 0
  PROVE  Typed'
<1>1. TypeOK'
  BY DEF Typed, TypeOK, Continue, InDatabase, world, canonical
<1>2. Working'
  BY DEF Typed, TypeOK, Working, Continue, InDatabase
<1> QED
  BY <1>1, <1>2 DEF Typed

LEMMA ReturnLocals ==
  ASSUME Typed, NEW w \in Worker, NEW next \in {"reserved", "consumed"}, NEW n \in Nat \ {0},
         ReturnTo(w, next, n), pc[w] # "idle"
  PROVE  /\ pc' \in [Worker -> {"idle", "reserved", "consumed"} \cup InDatabase]
         /\ call' \in [Worker -> {"none", "grant", "reserve", "consume"}]
         /\ auth' \in [Worker -> Authority \cup {NoAuthority}]
         /\ operation' \in [Worker -> Operation \cup {NoOperation}]
         /\ attempt' \in [Worker -> Nat]
         /\ now' \in [Worker -> 0..MaxTime]
         /\ orphan' \in [Worker -> BOOLEAN]
         /\ Working'
<1>1. CASE orphan[w]
  <2>1. Finish(w)
    BY <1>1 DEF ReturnTo
  <2>2. Working'
    BY <2>1 DEF Typed, TypeOK, Working, Finish
  <2> QED
    BY <2>1, <2>2 DEF Typed, TypeOK, Finish
<1>2. CASE ~orphan[w]
  <2>1. /\ pc' = [pc EXCEPT ![w] = next]
        /\ attempt' = [attempt EXCEPT ![w] = n]
        /\ now' = [now EXCEPT ![w] = 0]
        /\ UNCHANGED <<call, auth, operation, orphan>>
    BY <1>2 DEF ReturnTo
  <2>2. Working'
    BY <2>1 DEF Typed, TypeOK, Working
  <2> QED
    BY <2>1, <2>2 DEF Typed, TypeOK
<1> QED
  BY <1>1, <1>2

LEMMA TypedInit == Init => Typed
  BY DEF Init, Typed, TypeOK, Working, InDatabase

\* The end of a lease, when one is issued, is a time.
LEMMA LeaseEndType ==
  ASSUME TypeOK, NEW w \in Worker, auth[w] \in Authority
  PROVE  FreshLeaseEnd(w) \in Nat
  BY DEF TypeOK, FreshLeaseEnd

LEMMA FiniteReservations ==
  ASSUME IsFiniteSet(reservations)
  PROVE  NextAttempt \in Nat \ {0}
  BY FS_CardinalityType DEF NextAttempt
-----------------------------------------------------------------------------
(* Attempt identities. *)

Numbered ==
  /\ IsFiniteSet(reservations)
  /\ \A r \in reservations : r.attempt \in 1..Cardinality(reservations)

TypedInv == Typed /\ Numbered

LEMMA TypedNext == TypedInv /\ [Next]_vars => TypedInv'
<1> SUFFICES ASSUME TypedInv, [Next]_vars PROVE TypedInv'
  OBVIOUS
<1> USE DEF TypedInv
<1>0. ASSUME UNCHANGED reservations PROVE Numbered'
  BY <1>0 DEF Numbered
<1>1. CASE Tick
  <2>1. Typed'
    BY <1>1 DEF Tick, Typed, TypeOK, Working, canonical, locals
  <2> QED
    BY <1>0, <1>1, <2>1 DEF Tick, canonical
<1>2. CASE SuspendTenant \/ ChangeGraph \/ ChangeSemantics
  <2>1. Typed'
    BY <1>2 DEF SuspendTenant, ChangeGraph, ChangeSemantics, Drift, Typed, TypeOK, Working, canonical, locals
  <2> QED
    BY <1>0, <1>2, <2>1 DEF SuspendTenant, ChangeGraph, ChangeSemantics, canonical
<1>3. ASSUME NEW p \in Principal, RevokeMembership(p) PROVE TypedInv'
  <2>1. Typed'
    BY <1>3 DEF RevokeMembership, Typed, TypeOK, Working, canonical, locals
  <2> QED
    BY <1>0, <1>3, <2>1 DEF RevokeMembership, canonical
<1>4. ASSUME NEW w \in Worker, LoseClient(w) PROVE TypedInv'
  <2>1. CASE pc[w] \in InDatabase
    BY <1>0, <1>4, <2>1 DEF LoseClient, Typed, TypeOK, Working, world, canonical
  <2>2. CASE pc[w] \notin InDatabase
    BY <1>0, <1>4, <2>2, FinishTyped DEF LoseClient, canonical
  <2> QED
    BY <2>1, <2>2
<1>5. ASSUME NEW w \in Worker, NEW a \in Authority, RequestLease(w, a) PROVE TypedInv'
  <2>1. Typed'
    BY <1>5 DEF RequestLease, Typed, TypeOK, Working, InDatabase, world, canonical
  <2> QED
    BY <1>0, <1>5, <2>1 DEF RequestLease, canonical
<1>6. ASSUME NEW w \in Worker, NEW p \in Principal, NEW o \in Operation, Invoke(w, p, o)
      PROVE  TypedInv'
  <2>1. PICK a \in Authority : auth' = [auth EXCEPT ![w] = a]
    BY <1>6 DEF Invoke
  <2>2. Typed'
    BY <1>6, <2>1 DEF Invoke, Typed, TypeOK, Working, InDatabase, world, canonical
  <2> QED
    BY <1>0, <1>6, <2>2 DEF Invoke, canonical
<1>7. ASSUME NEW w \in Worker, Freeze(w) PROVE TypedInv'
  <2>1. CASE LeaseExpired(auth[w]) \/ "semantics" \in drifted
    BY <1>0, <1>7, <2>1, RaiseTyped DEF Freeze, Raise, canonical
  <2>2. CASE ~(LeaseExpired(auth[w]) \/ "semantics" \in drifted)
    <3>1. /\ pc' = [pc EXCEPT ![w] = "tenant"]
          /\ now' = [now EXCEPT ![w] = clock]
          /\ UNCHANGED <<world, canonical, providerCalls, call, auth, operation, attempt, orphan>>
      BY <1>7, <2>2 DEF Freeze
    <3>2. TypeOK'
      BY <3>1 DEF Typed, TypeOK, InDatabase, world, canonical
    <3>3. Working'
      BY <1>7, <3>1 DEF Freeze, Typed, TypeOK, Working
    <3> QED
      BY <1>0, <3>1, <3>2, <3>3 DEF Typed, canonical
  <2> QED
    BY <2>1, <2>2
<1>8. ASSUME NEW w \in Worker, LockTenant(w) PROVE TypedInv'
  BY <1>0, <1>8, RaiseTyped, ContinueTyped DEF LockTenant, Raise, Continue, canonical, InDatabase
<1>9. ASSUME NEW w \in Worker, RejectGraph(w) \/ RejectOperation(w) \/ BreakDeadlock(w) PROVE TypedInv'
  BY <1>0, <1>9, RaiseTyped DEF RejectGraph, RejectOperation, BreakDeadlock, Raise, canonical
<1>10. ASSUME NEW w \in Worker, GrantLease(w) PROVE TypedInv'
  <2>1. auth[w] \in Authority /\ FreshLeaseEnd(w) \in Nat
    BY <1>10, LeaseEndType DEF GrantLease, Typed, Working
  <2>2. leaseUntil' \in [Authority -> Nat]
    BY <1>10, <2>1 DEF GrantLease, IssueLease, Typed, TypeOK
  <2>3. TypeOK'
    BY <1>10, <2>2 DEF GrantLease, Finish, Typed, TypeOK, world
  <2>4. Working'
    BY <1>10 DEF GrantLease, Finish, Typed, TypeOK, Working
  <2> QED
    BY <1>0, <1>10, <2>3, <2>4 DEF GrantLease, Typed
<1>11. ASSUME NEW w \in Worker, ReenterLease(w) PROVE TypedInv'
  <2>1. call[w] = "consume" => attempt[w] # 0
    BY DEF Typed, Working
  <2>2. CASE call[w] = "reserve"
    BY <1>0, <1>11, <2>2, ContinueTyped DEF ReenterLease, Continue, canonical, InDatabase
  <2>3. CASE call[w] = "consume"
    BY <1>0, <1>11, <2>1, <2>3, ContinueTyped DEF ReenterLease, Continue, canonical, InDatabase
  <2> QED
    BY <1>11, <2>2, <2>3 DEF ReenterLease
<1>12. ASSUME NEW w \in Worker, ReuseReservation(w) PROVE TypedInv'
  <2>1. PICK r \in ReservationsOf(auth[w]) :
          IF LeaseExpired(auth[w]) THEN Raise(w)
          ELSE ReturnTo(w, "reserved", r.attempt) /\ UNCHANGED <<canonical, providerCalls>>
    BY <1>12 DEF ReuseReservation
  <2>2. r.attempt \in Nat \ {0}
    BY <2>1 DEF ReservationsOf, Typed, TypeOK
  <2>3. CASE LeaseExpired(auth[w])
    BY <1>0, <1>12, <2>1, <2>3, RaiseTyped DEF ReuseReservation, Raise, canonical
  <2>4. CASE ~LeaseExpired(auth[w])
    <3>1. Typed'
      BY <1>12, <2>1, <2>2, <2>4, ReturnLocals DEF ReuseReservation, Typed, TypeOK, world, canonical
    <3> QED
      BY <1>0, <2>1, <2>4, <3>1 DEF canonical
  <2> QED
    BY <2>3, <2>4
<1>13. ASSUME NEW w \in Worker, CreateReservation(w) PROVE TypedInv'
  <2> DEFINE new == [attempt |-> NextAttempt, lease |-> auth[w]]
  <2>1. NextAttempt \in Nat \ {0} /\ NextAttempt = Cardinality(reservations) + 1
    BY FiniteReservations DEF Numbered, NextAttempt
  <2>2. auth[w] \in Authority /\ reservations' = reservations \cup {new}
    BY <1>13 DEF CreateReservation, Typed, Working
  <2>3. Typed'
    <3>1. reservations' \subseteq [attempt: Nat \ {0}, lease: Authority]
      BY <2>1, <2>2 DEF Typed, TypeOK
    <3> QED
      BY <1>13, <2>1, <3>1, ReturnLocals DEF CreateReservation, Typed, TypeOK, world
  <2>4. new \notin reservations
    BY <2>1, FS_CardinalityType DEF Numbered
  <2>5. /\ IsFiniteSet(reservations')
        /\ Cardinality(reservations') = Cardinality(reservations) + 1
        /\ Cardinality(reservations) \in Nat
    BY <2>2, <2>4, FS_AddElement, FS_CardinalityType DEF Numbered
  <2>6. \A r \in reservations' : r.attempt \in 1..Cardinality(reservations')
    <3> SUFFICES ASSUME NEW r \in reservations' PROVE r.attempt \in 1..Cardinality(reservations')
      OBVIOUS
    <3>1. CASE r \in reservations
      BY <2>5, <3>1 DEF Numbered
    <3>2. CASE r = new
      BY <2>1, <2>5, <3>2
    <3> QED
      BY <2>2, <3>1, <3>2
  <2>7. Numbered'
    BY <2>5, <2>6 DEF Numbered
  <2> QED
    BY <2>3, <2>7
<1>14. ASSUME NEW w \in Worker, CallConsume(w) PROVE TypedInv'
  <2>1. CASE LeaseExpired(auth[w])
    BY <1>0, <1>14, <2>1, FinishTyped DEF CallConsume, canonical
  <2>2. CASE ~LeaseExpired(auth[w])
    <3>1. Typed'
      BY <1>14, <2>2 DEF CallConsume, Typed, TypeOK, Working, InDatabase, world, canonical
    <3> QED
      BY <1>0, <1>14, <3>1 DEF CallConsume, canonical
  <2> QED
    BY <2>1, <2>2
<1>15. ASSUME NEW w \in Worker, LockReservation(w) PROVE TypedInv'
  BY <1>0, <1>15, RaiseTyped, ContinueTyped DEF LockReservation, Raise, Continue, canonical, InDatabase
<1>16. ASSUME NEW w \in Worker, Admit(w) PROVE TypedInv'
  <2>1. CASE Unconsumed(attempt[w])
    <3>1. attempt[w] \in Nat \ {0}
      BY <1>16 DEF Admit, Typed, TypeOK, Working
    <3>2. consumptions' \subseteq Nat
      BY <1>16, <2>1, <3>1 DEF Admit, Typed, TypeOK
    <3>3. Typed'
      BY <1>16, <2>1, <3>1, <3>2, ReturnLocals DEF Admit, Typed, TypeOK, world
    <3> QED
      BY <1>0, <1>16, <2>1, <3>3 DEF Admit
  <2>2. CASE ~Unconsumed(attempt[w])
    BY <1>0, <1>16, <2>2, RaiseTyped DEF Admit, Raise, canonical
  <2> QED
    BY <2>1, <2>2
<1>17. ASSUME NEW w \in Worker, CallProvider(w) PROVE TypedInv'
  <2>1. Append(providerCalls, attempt[w]) \in Seq(Nat)
    BY DEF Typed, TypeOK
  <2>2. TypeOK'
    BY <1>17, <2>1 DEF CallProvider, Finish, Typed, TypeOK, world, canonical
  <2>3. Working'
    BY <1>17 DEF CallProvider, Finish, Typed, TypeOK, Working
  <2> QED
    BY <1>0, <1>17, <2>2, <2>3 DEF CallProvider, Typed, canonical
<1>18. CASE UNCHANGED vars
  BY <1>0, <1>18 DEF Typed, TypeOK, Working, vars, world, canonical, locals
<1> QED
  BY <1>1, <1>2, <1>3, <1>4, <1>5, <1>6, <1>7, <1>8, <1>9, <1>10, <1>11, <1>12, <1>13,
     <1>14, <1>15, <1>16, <1>17, <1>18 DEF Next, Step

\* Every variable keeps its type, no call works without an authority, and the
\* attempt identities are 1 up to the number of reservations.
THEOREM TypeCorrect == Spec => []TypedInv
<1>1. Init => TypedInv
  BY TypedInit, FS_EmptySet DEF Init, TypedInv, Numbered
<1> QED
  BY <1>1, TypedNext, PTL DEF Spec

\* The type invariant of ExecutionAdmission.
THEOREM TypeInvariant == Spec => []TypeOK
<1>1. TypedInv => TypeOK
  BY DEF TypedInv, Typed
<1> QED
  BY <1>1, TypeCorrect, PTL
-----------------------------------------------------------------------------
(* One admission, one ticket: between a consumption and its provider call the *)
(* attempt is in the hands of exactly one gateway. *)

IdleBlank == \A w \in Worker : pc[w] = "idle" => attempt[w] = 0

\* A gateway about to call the provider holds an admitted attempt that was not
\* called yet and that no other gateway holds.
Ticket ==
  \A w \in Worker : pc[w] = "consumed" =>
    /\ attempt[w] \in consumptions
    /\ \A i \in DOMAIN providerCalls : providerCalls[i] # attempt[w]
    /\ \A v \in Worker : pc[v] = "consumed" /\ attempt[v] = attempt[w] => v = w

AdmissionInv ==
  OneAttemptPerLease /\ ExactLineage /\ IdleBlank /\ Ticket /\ AtMostOneProviderCall

LEMMA AdmissionInit == Init => AdmissionInv
  BY DEF Init, AdmissionInv, OneAttemptPerLease, ExactLineage, IdleBlank, Ticket, AtMostOneProviderCall

\* A step that writes no D6 row, calls no provider and makes no ticket.
LEMMA LocalKeeps ==
  ASSUME AdmissionInv, UNCHANGED <<reservations, consumptions, providerCalls>>,
         \A v \in Worker :
           /\ \/ attempt'[v] = 0
              \/ attempt'[v] = attempt[v] /\ auth'[v] = auth[v]
              \/ [attempt |-> attempt'[v], lease |-> auth'[v]] \in reservations
           /\ pc'[v] = "idle" => attempt'[v] = 0
           /\ pc'[v] = "consumed" => pc[v] = "consumed" /\ attempt'[v] = attempt[v]
  PROVE  AdmissionInv'
<1>1. OneAttemptPerLease' /\ AtMostOneProviderCall'
  BY DEF AdmissionInv, OneAttemptPerLease, AtMostOneProviderCall
<1>2. ExactLineage'
  BY DEF AdmissionInv, ExactLineage
<1>3. IdleBlank' /\ Ticket'
  BY DEF AdmissionInv, IdleBlank, Ticket
<1> QED
  BY <1>1, <1>2, <1>3 DEF AdmissionInv

LEMMA FinishKeeps ==
  ASSUME Typed, AdmissionInv, NEW w \in Worker, Finish(w),
         UNCHANGED <<reservations, consumptions, providerCalls>>
  PROVE  AdmissionInv'
<1>1. \A v \in Worker :
        /\ \/ attempt'[v] = 0
           \/ attempt'[v] = attempt[v] /\ auth'[v] = auth[v]
        /\ pc'[v] = "idle" => attempt'[v] = 0
        /\ pc'[v] = "consumed" => pc[v] = "consumed" /\ attempt'[v] = attempt[v]
  BY DEF Finish, Typed, TypeOK, AdmissionInv, IdleBlank
<1> QED
  BY <1>1, LocalKeeps

LEMMA RaiseKeeps ==
  ASSUME Typed, AdmissionInv, NEW w \in Worker, Raise(w)
  PROVE  AdmissionInv'
  BY FinishKeeps DEF Raise, canonical

LEMMA ContinueKeeps ==
  ASSUME Typed, AdmissionInv, NEW w \in Worker, NEW next \in InDatabase, Continue(w, next)
  PROVE  AdmissionInv'
<1>1. \A v \in Worker :
        /\ attempt'[v] = attempt[v] /\ auth'[v] = auth[v]
        /\ pc'[v] = "idle" => attempt'[v] = 0
        /\ pc'[v] = "consumed" => pc[v] = "consumed" /\ attempt'[v] = attempt[v]
  BY DEF Continue, Typed, TypeOK, AdmissionInv, IdleBlank, InDatabase
<1>2. UNCHANGED <<reservations, consumptions, providerCalls>>
  BY DEF Continue, canonical
<1> QED
  BY <1>1, <1>2, LocalKeeps

\* What ReturnTo leaves in the locals.
LEMMA ReturnedLocals ==
  ASSUME Typed, NEW w \in Worker, NEW next \in {"reserved", "consumed"}, NEW n \in Nat \ {0},
         ReturnTo(w, next, n)
  PROVE  /\ \A v \in Worker : v # w => attempt'[v] = attempt[v] /\ auth'[v] = auth[v] /\ pc'[v] = pc[v]
         /\ \/ pc'[w] = "idle" /\ attempt'[w] = 0
            \/ pc'[w] = next /\ attempt'[w] = n /\ auth'[w] = auth[w]
<1>1. CASE orphan[w]
  BY <1>1 DEF ReturnTo, Finish, Typed, TypeOK
<1>2. CASE ~orphan[w]
  BY <1>2 DEF ReturnTo, Typed, TypeOK
<1> QED
  BY <1>1, <1>2

LEMMA AdmissionNext == TypedInv /\ AdmissionInv /\ [Next]_vars => AdmissionInv'
<1> SUFFICES ASSUME TypedInv, AdmissionInv, [Next]_vars PROVE AdmissionInv'
  OBVIOUS
<1> USE DEF TypedInv
<1>1. ASSUME UNCHANGED <<canonical, providerCalls, pc, attempt, auth>> PROVE AdmissionInv'
  <2>1. \A v \in Worker : pc[v] = "idle" => attempt[v] = 0
    BY DEF AdmissionInv, IdleBlank
  <2> QED
    BY <1>1, <2>1, LocalKeeps DEF canonical
<1>2. CASE Tick \/ SuspendTenant \/ ChangeGraph \/ ChangeSemantics
  BY <1>1, <1>2 DEF Tick, SuspendTenant, ChangeGraph, ChangeSemantics, locals
<1>3. ASSUME NEW p \in Principal, RevokeMembership(p) PROVE AdmissionInv'
  BY <1>1, <1>3 DEF RevokeMembership, locals
<1>4. ASSUME NEW w \in Worker, LoseClient(w) PROVE AdmissionInv'
  <2>1. CASE pc[w] \in InDatabase
    BY <1>1, <1>4, <2>1 DEF LoseClient
  <2>2. CASE pc[w] \notin InDatabase
    BY <1>4, <2>2, FinishKeeps DEF LoseClient, canonical
  <2> QED
    BY <2>1, <2>2
<1>5. ASSUME NEW w \in Worker, NEW a \in Authority, RequestLease(w, a) PROVE AdmissionInv'
  <2>1. \A v \in Worker :
          /\ \/ attempt'[v] = 0
             \/ attempt'[v] = attempt[v] /\ auth'[v] = auth[v]
          /\ pc'[v] = "idle" => attempt'[v] = 0
          /\ pc'[v] = "consumed" => pc[v] = "consumed" /\ attempt'[v] = attempt[v]
    BY <1>5 DEF RequestLease, Typed, TypeOK, AdmissionInv, IdleBlank
  <2> QED
    BY <1>5, <2>1, LocalKeeps DEF RequestLease, canonical
<1>6. ASSUME NEW w \in Worker, NEW p \in Principal, NEW o \in Operation, Invoke(w, p, o)
      PROVE  AdmissionInv'
  <2>1. PICK a \in Authority : auth' = [auth EXCEPT ![w] = a]
    BY <1>6 DEF Invoke
  <2>2. \A v \in Worker :
          /\ \/ attempt'[v] = 0
             \/ attempt'[v] = attempt[v] /\ auth'[v] = auth[v]
          /\ pc'[v] = "idle" => attempt'[v] = 0
          /\ pc'[v] = "consumed" => pc[v] = "consumed" /\ attempt'[v] = attempt[v]
    BY <1>6, <2>1 DEF Invoke, Typed, TypeOK, AdmissionInv, IdleBlank
  <2> QED
    BY <1>6, <2>2, LocalKeeps DEF Invoke, canonical
<1>7. ASSUME NEW w \in Worker, Freeze(w) PROVE AdmissionInv'
  <2>1. CASE LeaseExpired(auth[w]) \/ "semantics" \in drifted
    BY <1>7, <2>1, RaiseKeeps DEF Freeze
  <2>2. CASE ~(LeaseExpired(auth[w]) \/ "semantics" \in drifted)
    <3>1. \A v \in Worker :
            /\ attempt'[v] = attempt[v] /\ auth'[v] = auth[v]
            /\ pc'[v] = "idle" => attempt'[v] = 0
            /\ pc'[v] = "consumed" => pc[v] = "consumed" /\ attempt'[v] = attempt[v]
      BY <1>7, <2>2 DEF Freeze, Typed, TypeOK, AdmissionInv, IdleBlank
    <3> QED
      BY <1>7, <2>2, <3>1, LocalKeeps DEF Freeze, canonical
  <2> QED
    BY <2>1, <2>2
<1>8. ASSUME NEW w \in Worker, LockTenant(w) PROVE AdmissionInv'
  BY <1>8, RaiseKeeps, ContinueKeeps DEF LockTenant, InDatabase
<1>9. ASSUME NEW w \in Worker, RejectGraph(w) \/ RejectOperation(w) \/ BreakDeadlock(w) PROVE AdmissionInv'
  BY <1>9, RaiseKeeps DEF RejectGraph, RejectOperation, BreakDeadlock
<1>10. ASSUME NEW w \in Worker, GrantLease(w) PROVE AdmissionInv'
  BY <1>10, FinishKeeps DEF GrantLease
<1>11. ASSUME NEW w \in Worker, ReenterLease(w) PROVE AdmissionInv'
  BY <1>11, ContinueKeeps DEF ReenterLease, InDatabase
<1>12. ASSUME NEW w \in Worker, ReuseReservation(w) PROVE AdmissionInv'
  <2>1. PICK r \in ReservationsOf(auth[w]) :
          IF LeaseExpired(auth[w]) THEN Raise(w)
          ELSE ReturnTo(w, "reserved", r.attempt) /\ UNCHANGED <<canonical, providerCalls>>
    BY <1>12 DEF ReuseReservation
  <2>2. CASE LeaseExpired(auth[w])
    BY <2>1, <2>2, RaiseKeeps
  <2>3. CASE ~LeaseExpired(auth[w])
    <3>1. /\ r.attempt \in Nat \ {0}
          /\ [attempt |-> r.attempt, lease |-> auth[w]] \in reservations
      BY <2>1 DEF ReservationsOf, Typed, TypeOK
    <3>2. ReturnTo(w, "reserved", r.attempt)
      BY <2>1, <2>3
    <3>3. \A v \in Worker :
            /\ \/ attempt'[v] = 0
               \/ attempt'[v] = attempt[v] /\ auth'[v] = auth[v]
               \/ [attempt |-> attempt'[v], lease |-> auth'[v]] \in reservations
            /\ pc'[v] = "idle" => attempt'[v] = 0
            /\ pc'[v] = "consumed" => pc[v] = "consumed" /\ attempt'[v] = attempt[v]
      BY <3>1, <3>2, ReturnedLocals DEF AdmissionInv, IdleBlank
    <3> QED
      BY <2>1, <2>3, <3>3, LocalKeeps DEF canonical
  <2> QED
    BY <2>2, <2>3
<1>13. ASSUME NEW w \in Worker, CreateReservation(w) PROVE AdmissionInv'
  <2> DEFINE new == [attempt |-> NextAttempt, lease |-> auth[w]]
  <2>1. /\ NextAttempt \in Nat \ {0}
        /\ \A r \in reservations : r.attempt # NextAttempt
        /\ \A r \in reservations : r.lease # auth[w]
    BY <1>13, FS_CardinalityType DEF CreateReservation, ReservationsOf, Numbered, NextAttempt
  <2>2. /\ reservations' = reservations \cup {new}
        /\ ReturnTo(w, "reserved", NextAttempt)
        /\ UNCHANGED <<consumptions, providerCalls>>
    BY <1>13 DEF CreateReservation
  <2>3. OneAttemptPerLease' /\ AtMostOneProviderCall'
    BY <2>1, <2>2 DEF AdmissionInv, OneAttemptPerLease, AtMostOneProviderCall
  <2>4. ExactLineage'
    BY <2>1, <2>2, ReturnedLocals DEF AdmissionInv, ExactLineage
  <2>5. IdleBlank' /\ Ticket'
    BY <2>1, <2>2, ReturnedLocals DEF AdmissionInv, IdleBlank, Ticket
  <2> QED
    BY <2>3, <2>4, <2>5 DEF AdmissionInv
<1>14. ASSUME NEW w \in Worker, CallConsume(w) PROVE AdmissionInv'
  <2>1. CASE LeaseExpired(auth[w])
    BY <1>14, <2>1, FinishKeeps DEF CallConsume, canonical
  <2>2. CASE ~LeaseExpired(auth[w])
    <3>1. \A v \in Worker :
            /\ attempt'[v] = attempt[v] /\ auth'[v] = auth[v]
            /\ pc'[v] = "idle" => attempt'[v] = 0
            /\ pc'[v] = "consumed" => pc[v] = "consumed" /\ attempt'[v] = attempt[v]
      BY <1>14, <2>2 DEF CallConsume, Typed, TypeOK, AdmissionInv, IdleBlank
    <3> QED
      BY <1>14, <2>2, <3>1, LocalKeeps DEF CallConsume, canonical
  <2> QED
    BY <2>1, <2>2
<1>15. ASSUME NEW w \in Worker, LockReservation(w) PROVE AdmissionInv'
  BY <1>15, RaiseKeeps, ContinueKeeps DEF LockReservation, InDatabase
<1>16. ASSUME NEW w \in Worker, Admit(w) PROVE AdmissionInv'
  <2>1. CASE ~Unconsumed(attempt[w])
    BY <1>16, <2>1, RaiseKeeps DEF Admit
  <2>2. CASE Unconsumed(attempt[w])
    <3>1. /\ attempt[w] \in Nat \ {0}
          /\ attempt[w] \notin consumptions
          /\ [attempt |-> attempt[w], lease |-> auth[w]] \in reservations
      BY <1>16, <2>2 DEF Admit, Unconsumed, Typed, TypeOK, Working, AdmissionInv, ExactLineage
    <3>2. /\ consumptions' = consumptions \cup {attempt[w]}
          /\ ReturnTo(w, "consumed", attempt[w])
          /\ UNCHANGED <<reservations, providerCalls>>
      BY <1>16, <2>2 DEF Admit
    <3>3. OneAttemptPerLease' /\ AtMostOneProviderCall'
      BY <3>2 DEF AdmissionInv, OneAttemptPerLease, AtMostOneProviderCall
    <3>4. ExactLineage'
      BY <3>1, <3>2, ReturnedLocals DEF AdmissionInv, ExactLineage
    <3>5. IdleBlank'
      BY <3>1, <3>2, ReturnedLocals DEF AdmissionInv, IdleBlank
    <3>6. Ticket'
      <4>1. \A i \in DOMAIN providerCalls : providerCalls[i] # attempt[w]
        BY <3>1 DEF AdmissionInv, ExactLineage
      <4>2. \A v \in Worker : pc[v] = "consumed" => attempt[v] # attempt[w]
        BY <3>1 DEF AdmissionInv, Ticket
      <4> QED
        BY <3>1, <3>2, <4>1, <4>2, ReturnedLocals DEF AdmissionInv, Ticket
    <3> QED
      BY <3>3, <3>4, <3>5, <3>6 DEF AdmissionInv
  <2> QED
    BY <2>1, <2>2
<1>17. ASSUME NEW w \in Worker, CallProvider(w) PROVE AdmissionInv'
  <2> DEFINE n == attempt[w]
  <2>1. /\ n \in Nat /\ n \in consumptions
        /\ \A i \in DOMAIN providerCalls : providerCalls[i] # n
        /\ \A v \in Worker : pc[v] = "consumed" /\ v # w => attempt[v] # n
    BY <1>17 DEF CallProvider, AdmissionInv, Ticket, Typed, TypeOK
  <2>2. /\ providerCalls' = Append(providerCalls, n)
        /\ UNCHANGED <<reservations, consumptions>>
        /\ Finish(w)
    BY <1>17 DEF CallProvider, canonical
  <2>3. /\ providerCalls \in Seq(Nat)
        /\ DOMAIN providerCalls = 1..Len(providerCalls)
        /\ DOMAIN providerCalls' = 1..(Len(providerCalls) + 1)
        /\ \A i \in 1..Len(providerCalls) : providerCalls'[i] = providerCalls[i]
        /\ providerCalls'[Len(providerCalls) + 1] = n
    BY <2>1, <2>2 DEF Typed, TypeOK
  <2>4. /\ pc'[w] = "idle" /\ attempt'[w] = 0
        /\ \A v \in Worker : v # w => attempt'[v] = attempt[v] /\ auth'[v] = auth[v] /\ pc'[v] = pc[v]
    BY <2>2 DEF Finish, Typed, TypeOK
  <2> HIDE DEF n
  <2>5. OneAttemptPerLease'
    BY <2>2 DEF AdmissionInv, OneAttemptPerLease
  <2>6. AtMostOneProviderCall'
    BY <2>1, <2>3 DEF AdmissionInv, AtMostOneProviderCall
  <2>7. ExactLineage'
    <3>1. \A v \in Worker : attempt'[v] # 0 => [attempt |-> attempt'[v], lease |-> auth'[v]] \in reservations
      BY <2>4 DEF AdmissionInv, ExactLineage
    <3>2. \A i \in DOMAIN providerCalls' : providerCalls'[i] \in consumptions
      BY <2>1, <2>3 DEF AdmissionInv, ExactLineage
    <3> QED
      BY <2>2, <3>1, <3>2 DEF AdmissionInv, ExactLineage
  <2>8. IdleBlank'
    BY <2>4 DEF AdmissionInv, IdleBlank
  <2>9. Ticket'
    BY <2>1, <2>2, <2>3, <2>4 DEF AdmissionInv, Ticket
  <2> QED
    BY <2>5, <2>6, <2>7, <2>8, <2>9 DEF AdmissionInv
<1>18. CASE UNCHANGED vars
  BY <1>1, <1>18 DEF vars, locals
<1> QED
  BY <1>2, <1>3, <1>4, <1>5, <1>6, <1>7, <1>8, <1>9, <1>10, <1>11, <1>12, <1>13,
     <1>14, <1>15, <1>16, <1>17, <1>18 DEF Next, Step

\* The inductive invariant of the D6 boundary.
THEOREM AdmissionInvariant == Spec => []AdmissionInv
  BY AdmissionInit, AdmissionNext, TypeCorrect, PTL DEF Spec

\* However gateways race, retry and lose answers, the provider sees an attempt
\* at most once.
THEOREM SingleProviderCall == Spec => []AtMostOneProviderCall
<1>1. AdmissionInv => AtMostOneProviderCall
  BY DEF AdmissionInv
<1> QED
  BY <1>1, AdmissionInvariant, PTL

\* A lease has one attempt identity for ever.
THEOREM OneIdentity == Spec => []OneAttemptPerLease
<1>1. AdmissionInv => OneAttemptPerLease
  BY DEF AdmissionInv
<1> QED
  BY <1>1, AdmissionInvariant, PTL

\* D6-I-LINEAGE: reservation, consumption and provider call carry one identity.
THEOREM Lineage == Spec => []ExactLineage
<1>1. AdmissionInv => ExactLineage
  BY DEF AdmissionInv
<1> QED
  BY <1>1, AdmissionInvariant, PTL
-----------------------------------------------------------------------------
(* What the row locks keep current. *)

\* A session past a lock finds what it checked under that lock unchanged.
AuthorityInv ==
  \A w \in Worker :
    /\ pc[w] \in HoldsTables => "semantics" \notin drifted
    /\ pc[w] \in HoldsTenant => tenantStatus = "ACTIVE"
    /\ pc[w] \in HoldsGraph =>
         membership[PrincipalOf[auth[w]]] = "ACTIVE" /\ "graph" \notin drifted

\* A step that changes nothing outside and lets no session past a lock.
LEMMA NoLockKeeps ==
  ASSUME AuthorityInv, UNCHANGED world, NEW w \in Worker,
         pc'[w] \notin HoldsTables,
         \A v \in Worker : v # w => pc'[v] = pc[v] /\ auth'[v] = auth[v]
  PROVE  AuthorityInv'
  BY DEF AuthorityInv, world, HoldsTables, HoldsTenant, HoldsGraph

LEMMA FinishKeepsAuthority ==
  ASSUME Typed, AuthorityInv, NEW w \in Worker, Finish(w), UNCHANGED world
  PROVE  AuthorityInv'
<1>1. pc'[w] = "idle" /\ \A v \in Worker : v # w => pc'[v] = pc[v] /\ auth'[v] = auth[v]
  BY DEF Finish, Typed, TypeOK
<1> QED
  BY <1>1, NoLockKeeps DEF HoldsTables

LEMMA ReturnKeepsAuthority ==
  ASSUME Typed, AuthorityInv, NEW w \in Worker, NEW next \in {"reserved", "consumed"},
         NEW n \in Nat \ {0}, ReturnTo(w, next, n), UNCHANGED world
  PROVE  AuthorityInv'
<1>1. pc'[w] \in {"idle", next} /\ \A v \in Worker : v # w => pc'[v] = pc[v] /\ auth'[v] = auth[v]
  BY ReturnedLocals
<1> QED
  BY <1>1, NoLockKeeps DEF HoldsTables

LEMMA AuthorityNext == TypedInv /\ AuthorityInv /\ [Next]_vars => AuthorityInv'
<1> SUFFICES ASSUME TypedInv, AuthorityInv, [Next]_vars PROVE AuthorityInv'
  OBVIOUS
<1>0. Typed
  BY DEF TypedInv
<1>1. CASE Tick \/ UNCHANGED vars
  BY <1>1 DEF Tick, vars, world, locals, AuthorityInv
<1>2. CASE SuspendTenant
  BY <1>2 DEF SuspendTenant, TenantFree, HoldsTenant, HoldsGraph, locals, AuthorityInv
<1>3. CASE ChangeGraph
  BY <1>3 DEF ChangeGraph, GraphFree, locals, AuthorityInv
<1>4. CASE ChangeSemantics
  BY <1>4 DEF ChangeSemantics, TablesFree, locals, AuthorityInv
<1>5. ASSUME NEW p \in Principal, RevokeMembership(p) PROVE AuthorityInv'
  BY <1>0, <1>5 DEF RevokeMembership, MembershipFree, locals, AuthorityInv, Typed, TypeOK
<1>6. ASSUME NEW w \in Worker, LoseClient(w) PROVE AuthorityInv'
  <2>1. CASE pc[w] \in InDatabase
    BY <1>6, <2>1 DEF LoseClient, AuthorityInv, world
  <2>2. CASE pc[w] \notin InDatabase
    BY <1>0, <1>6, <2>2, FinishKeepsAuthority DEF LoseClient
  <2> QED
    BY <2>1, <2>2
<1>7. ASSUME NEW w \in Worker, NEW a \in Authority, RequestLease(w, a) PROVE AuthorityInv'
  <2>1. pc'[w] = "freeze" /\ \A v \in Worker : v # w => pc'[v] = pc[v] /\ auth'[v] = auth[v]
    BY <1>0, <1>7 DEF RequestLease, Typed, TypeOK
  <2> QED
    BY <1>7, <2>1, NoLockKeeps DEF RequestLease, HoldsTables
<1>8. ASSUME NEW w \in Worker, NEW p \in Principal, NEW o \in Operation, Invoke(w, p, o)
      PROVE  AuthorityInv'
  <2>1. PICK a \in Authority : auth' = [auth EXCEPT ![w] = a]
    BY <1>8 DEF Invoke
  <2>2. pc'[w] = "freeze" /\ \A v \in Worker : v # w => pc'[v] = pc[v] /\ auth'[v] = auth[v]
    BY <1>0, <1>8, <2>1 DEF Invoke, Typed, TypeOK
  <2> QED
    BY <1>8, <2>2, NoLockKeeps DEF Invoke, HoldsTables
<1>9. ASSUME NEW w \in Worker, Freeze(w) PROVE AuthorityInv'
  <2>1. CASE LeaseExpired(auth[w]) \/ "semantics" \in drifted
    BY <1>0, <1>9, <2>1, FinishKeepsAuthority DEF Freeze, Raise
  <2>2. CASE ~(LeaseExpired(auth[w]) \/ "semantics" \in drifted)
    BY <1>0, <1>9, <2>2 DEF Freeze, Typed, TypeOK, AuthorityInv, world, HoldsTables, HoldsTenant, HoldsGraph
  <2> QED
    BY <2>1, <2>2
<1>10. ASSUME NEW w \in Worker, LockTenant(w) PROVE AuthorityInv'
  <2>1. CASE tenantStatus # "ACTIVE"
    BY <1>0, <1>10, <2>1, FinishKeepsAuthority DEF LockTenant, Raise
  <2>2. CASE tenantStatus = "ACTIVE"
    BY <1>0, <1>10, <2>2 DEF LockTenant, Continue, Typed, TypeOK, AuthorityInv, world, HoldsTables, HoldsTenant, HoldsGraph
  <2> QED
    BY <2>1, <2>2
<1>11. ASSUME NEW w \in Worker, ReenterLease(w) PROVE AuthorityInv'
  BY <1>0, <1>11 DEF ReenterLease, GraphCurrent, Continue, Typed, TypeOK, AuthorityInv, world, HoldsTables, HoldsTenant, HoldsGraph
<1>12. ASSUME NEW w \in Worker, RejectGraph(w) \/ RejectOperation(w) \/ BreakDeadlock(w) PROVE AuthorityInv'
  BY <1>0, <1>12, FinishKeepsAuthority DEF RejectGraph, RejectOperation, BreakDeadlock, Raise
<1>13. ASSUME NEW w \in Worker, GrantLease(w) \/ CallProvider(w) PROVE AuthorityInv'
  BY <1>0, <1>13, FinishKeepsAuthority DEF GrantLease, CallProvider
<1>14. ASSUME NEW w \in Worker, ReuseReservation(w) PROVE AuthorityInv'
  <2>1. PICK r \in ReservationsOf(auth[w]) : Raise(w) \/ ReturnTo(w, "reserved", r.attempt)
    BY <1>14 DEF ReuseReservation
  <2>2. r.attempt \in Nat \ {0}
    BY <1>0, <2>1 DEF ReservationsOf, Typed, TypeOK
  <2> QED
    BY <1>0, <1>14, <2>1, <2>2, FinishKeepsAuthority, ReturnKeepsAuthority DEF ReuseReservation, Raise
<1>15. ASSUME NEW w \in Worker, CreateReservation(w) PROVE AuthorityInv'
  BY <1>0, <1>15, FiniteReservations, ReturnKeepsAuthority DEF CreateReservation, TypedInv, Numbered
<1>16. ASSUME NEW w \in Worker, CallConsume(w) PROVE AuthorityInv'
  <2>1. CASE LeaseExpired(auth[w])
    BY <1>0, <1>16, <2>1, FinishKeepsAuthority DEF CallConsume
  <2>2. CASE ~LeaseExpired(auth[w])
    <3>1. pc'[w] = "lock" /\ \A v \in Worker : v # w => pc'[v] = pc[v] /\ auth'[v] = auth[v]
      BY <1>0, <1>16, <2>2 DEF CallConsume, Typed, TypeOK
    <3> QED
      BY <1>16, <3>1, NoLockKeeps DEF CallConsume, HoldsTables
  <2> QED
    BY <2>1, <2>2
<1>17. ASSUME NEW w \in Worker, LockReservation(w) PROVE AuthorityInv'
  <2>1. CASE Raise(w)
    BY <1>0, <1>17, <2>1, FinishKeepsAuthority DEF LockReservation, Raise
  <2>2. CASE Continue(w, "freeze")
    <3>1. pc'[w] = "freeze" /\ \A v \in Worker : v # w => pc'[v] = pc[v] /\ auth'[v] = auth[v]
      BY <1>0, <2>2 DEF Continue, Typed, TypeOK
    <3> QED
      BY <1>17, <3>1, NoLockKeeps DEF LockReservation, HoldsTables
  <2> QED
    BY <1>17, <2>1, <2>2 DEF LockReservation
<1>18. ASSUME NEW w \in Worker, Admit(w) PROVE AuthorityInv'
  <2>1. attempt[w] \in Nat \ {0}
    BY <1>0, <1>18 DEF Admit, Typed, TypeOK, Working
  <2> QED
    BY <1>0, <1>18, <2>1, FinishKeepsAuthority, ReturnKeepsAuthority DEF Admit, Raise
<1> QED
  BY <1>1, <1>2, <1>3, <1>4, <1>5, <1>6, <1>7, <1>8, <1>9, <1>10, <1>11, <1>12, <1>13,
     <1>14, <1>15, <1>16, <1>17, <1>18 DEF Next, Step

\* From a lock to the end of its function nothing it protects changes.
THEOREM AuthorityInvariant == Spec => []AuthorityInv
<1>1. Init => AuthorityInv
  BY DEF Init, AuthorityInv, HoldsTables, HoldsTenant, HoldsGraph
<1> QED
  BY <1>1, AuthorityNext, TypeCorrect, PTL DEF Spec
-----------------------------------------------------------------------------
(* Which steps write canonical rows or call the provider. *)

LEMMA Effects ==
  ASSUME [Next]_vars
  PROVE  \/ UNCHANGED <<canonical, providerCalls>>
         \/ \E w \in Worker :
              \/ GrantLease(w) \/ CreateReservation(w) \/ CallProvider(w)
              \/ Admit(w) /\ Unconsumed(attempt[w])
<1>1. CASE Tick \/ SuspendTenant \/ ChangeGraph \/ ChangeSemantics \/ UNCHANGED vars
  BY <1>1 DEF Tick, SuspendTenant, ChangeGraph, ChangeSemantics, vars
<1>2. ASSUME NEW p \in Principal, RevokeMembership(p) PROVE UNCHANGED <<canonical, providerCalls>>
  BY <1>2 DEF RevokeMembership
<1>3. ASSUME NEW w \in Worker, LoseClient(w) PROVE UNCHANGED <<canonical, providerCalls>>
  BY <1>3 DEF LoseClient
<1>4. ASSUME NEW w \in Worker, NEW a \in Authority, RequestLease(w, a) PROVE UNCHANGED <<canonical, providerCalls>>
  BY <1>4 DEF RequestLease
<1>5. ASSUME NEW w \in Worker, NEW p \in Principal, NEW o \in Operation, Invoke(w, p, o)
      PROVE  UNCHANGED <<canonical, providerCalls>>
  BY <1>5 DEF Invoke
<1>6. ASSUME NEW w \in Worker,
             Freeze(w) \/ LockTenant(w) \/ RejectGraph(w) \/ ReenterLease(w) \/ RejectOperation(w)
      PROVE  UNCHANGED <<canonical, providerCalls>>
  BY <1>6 DEF Freeze, LockTenant, RejectGraph, ReenterLease, RejectOperation, Raise, Continue
<1>7. ASSUME NEW w \in Worker,
             ReuseReservation(w) \/ CallConsume(w) \/ LockReservation(w) \/ BreakDeadlock(w)
      PROVE  UNCHANGED <<canonical, providerCalls>>
  BY <1>7 DEF ReuseReservation, CallConsume, LockReservation, BreakDeadlock, Raise, Continue
<1>8. ASSUME NEW w \in Worker, Admit(w), ~Unconsumed(attempt[w])
      PROVE  UNCHANGED <<canonical, providerCalls>>
  BY <1>8 DEF Admit, Raise
<1> QED
  BY <1>1, <1>2, <1>3, <1>4, <1>5, <1>6, <1>7, <1>8 DEF Next, Step

\* The consequence of the lock order: at the insert of a consumption the whole
\* authority it rests on is current.
THEOREM AdmissionAuthority == Spec => AdmitUnderCurrentAuthority
<1> DEFINE Current(r) ==
      /\ tenantStatus = "ACTIVE"
      /\ membership[PrincipalOf[r.lease]] = "ACTIVE"
      /\ drifted = {}
<1>1. ASSUME TypedInv, AdmissionInv, AuthorityInv, [Next]_vars,
             NEW r \in reservations, r.attempt \in consumptions' \ consumptions
      PROVE  Current(r)
  <2>1. PICK w \in Worker : Admit(w) /\ Unconsumed(attempt[w])
    BY <1>1, Effects DEF canonical, GrantLease, CreateReservation, CallProvider
  <2>2. r.attempt = attempt[w]
    BY <1>1, <2>1 DEF Admit
  <2>3. [attempt |-> attempt[w], lease |-> auth[w]] \in reservations
    BY <1>1, <2>1 DEF Admit, TypedInv, Typed, Working, AdmissionInv, ExactLineage
  <2>4. r.lease = auth[w]
    BY <1>1, <2>2, <2>3 DEF AdmissionInv, OneAttemptPerLease
  <2>5. pc[w] \in HoldsTables /\ pc[w] \in HoldsTenant /\ pc[w] \in HoldsGraph
    BY <2>1 DEF Admit, HoldsTables, HoldsTenant, HoldsGraph
  <2>6. drifted = {}
    BY <1>1, <2>5 DEF AuthorityInv, TypedInv, Typed, TypeOK, Drift
  <2> QED
    BY <1>1, <2>4, <2>5, <2>6 DEF AuthorityInv
<1>2. ASSUME TypedInv, AdmissionInv, AuthorityInv, [Next]_vars
      PROVE  [\A r \in reservations : r.attempt \in consumptions' \ consumptions => Current(r)]_vars
  BY <1>1, <1>2
<1> QED
  BY <1>2, TypeCorrect, AdmissionInvariant, AuthorityInvariant, PTL DEF Spec, AdmitUnderCurrentAuthority

\* A lease ends when its first grant said it would.
THEOREM LeaseFixed == Spec => LeaseNeverRenewed
<1>1. ASSUME TypedInv, [Next]_vars, NEW a \in Authority, leaseUntil[a] # 0
      PROVE  leaseUntil'[a] = leaseUntil[a]
  <2>1. CASE \E w \in Worker : GrantLease(w)
    <3>1. PICK w \in Worker : GrantLease(w)
      BY <2>1
    <3>2. leaseUntil' = [leaseUntil EXCEPT ![auth[w]] = IF @ = 0 THEN FreshLeaseEnd(w) ELSE @]
      BY <3>1 DEF GrantLease, IssueLease
    <3> QED
      BY <1>1, <3>2 DEF TypedInv, Typed, TypeOK
  <2>2. CASE ~\E w \in Worker : GrantLease(w)
    BY <1>1, <2>2, Effects DEF canonical, CreateReservation, CallProvider, Admit
  <2> QED
    BY <2>1, <2>2
<1>2. ASSUME TypedInv, [Next]_vars
      PROVE  [\A a \in Authority : leaseUntil[a] # 0 => leaseUntil'[a] = leaseUntil[a]]_vars
  BY <1>1, <1>2
<1> QED
  BY <1>2, TypeCorrect, PTL DEF Spec, LeaseNeverRenewed
-----------------------------------------------------------------------------
(* The boundary implements the abstract gate. *)

LEMMA GateStep ==
  ASSUME TypedInv, AdmissionInv, [Next]_vars
  PROVE  [Gate!Next]_Gate!vars
<1> DEFINE reserved == {r.attempt : r \in reservations}
<1>1. CASE UNCHANGED <<reservations, consumptions, providerCalls>>
  BY <1>1 DEF Gate!vars
<1>2. ASSUME NEW w \in Worker, CreateReservation(w) PROVE Gate!Next
  <2>1. PICK n \in Nat : n = NextAttempt
    BY FiniteReservations DEF TypedInv, Numbered
  <2> DEFINE new == [attempt |-> n, lease |-> auth[w]]
  <2>2. /\ reservations' = reservations \cup {new}
        /\ UNCHANGED <<consumptions, providerCalls>>
    BY <1>2, <2>1 DEF CreateReservation
  <2>3. n \notin reserved
    BY <2>1, FS_CardinalityType DEF TypedInv, Numbered, NextAttempt
  <2>4. reserved' = reserved \cup {n}
    <3>1. \A r : r \in reservations' <=> r \in reservations \/ r = new
      BY <2>2
    <3>2. new.attempt = n
      OBVIOUS
    <3> HIDE DEF new
    <3> QED
      BY <3>1, <3>2
  <2>5. Gate!Reserve(n)
    BY <2>2, <2>3, <2>4 DEF Gate!Reserve
  <2>6. n \in reserved'
    BY <2>4
  <2> QED
    BY <2>5, <2>6 DEF Gate!Next
<1>3. ASSUME NEW w \in Worker, Admit(w), Unconsumed(attempt[w]) PROVE Gate!Next
  <2>1. /\ consumptions' = consumptions \cup {attempt[w]}
        /\ UNCHANGED <<reservations, providerCalls>>
    BY <1>3 DEF Admit
  <2>2. attempt[w] \in reserved
    <3>1. [attempt |-> attempt[w], lease |-> auth[w]] \in reservations
      BY <1>3 DEF Admit, TypedInv, Typed, Working, AdmissionInv, ExactLineage
    <3> QED
      BY <3>1
  <2>3. Gate!Admit(attempt[w])
    BY <1>3, <2>1, <2>2 DEF Gate!Admit, Unconsumed
  <2> QED
    BY <2>1, <2>2, <2>3 DEF Gate!Next
<1>4. ASSUME NEW w \in Worker, CallProvider(w) PROVE Gate!Next
  <2>1. /\ providerCalls' = Append(providerCalls, attempt[w])
        /\ UNCHANGED <<reservations, consumptions>>
    BY <1>4 DEF CallProvider, canonical
  <2>2. /\ attempt[w] \in consumptions
        /\ \A i \in 1..Len(providerCalls) : providerCalls[i] # attempt[w]
    BY <1>4 DEF CallProvider, AdmissionInv, Ticket, TypedInv, Typed, TypeOK
  <2>3. attempt[w] \in reserved
    BY <2>2 DEF AdmissionInv, ExactLineage
  <2>4. Gate!Invoke(attempt[w])
    BY <2>1, <2>2 DEF Gate!Invoke
  <2> QED
    BY <2>1, <2>3, <2>4 DEF Gate!Next
<1> QED
  BY <1>1, <1>2, <1>3, <1>4, Effects DEF canonical, GrantLease

\* Leases, locks, retries and lost clients only ever amount to steps of the gate.
THEOREM GateImplemented == Spec => ImplementsAdmissionGate
<1>1. Init => Gate!Init
  BY DEF Init, Gate!Init
<1> QED
  BY <1>1, GateStep, TypeCorrect, AdmissionInvariant, PTL DEF Spec, ImplementsAdmissionGate, Gate!Spec
=============================================================================
