---------------------------- MODULE RecordProofs ----------------------------
(* Records that are only ever added: the transaction lab and the requirement *)
(* catalog, proved for any assets, transactions, requests and definitions,   *)
(* alone and beside the other parts of Labs.                                 *)
EXTENDS Labs, FiniteSetTheorems, TLAPS

\* The kernel counts with the operator the theorems of the library are about.
LEMMA KernelCardinality == ASSUME NEW S PROVE Kernel!Cardinality(S) = Cardinality(S)
BY DEF Kernel!Cardinality, Cardinality, Kernel!IsFiniteSet, IsFiniteSet

-----------------------------------------------------------------------------
(* Transaction lab: types.                                                   *)

\* An executed transaction has a base version; without one it never leaves READY.
BasesExist == \A t \in runs : txn[t].base \in DOMAIN versions /\ Kernel!Status(t) # "NONE"

Typed == Kernel!TypeOK /\ BasesExist

\* A new version is a version.
LEMMA VersionType ==
    ASSUME NEW a \in Assets, NEW number \in 1..MaxVersions, NEW parent \in Kernel!VersionIds,
           NEW by \in Transactions \cup {"asset", "rollback"}, NEW state \in SUBSET Transactions
    PROVE  [asset |-> a, number |-> number, parent |-> parent, by |-> by, state |-> state]
             \in Kernel!Versions
BY DEF Kernel!Versions

\* No asset has more versions than there are.
LEMMA LatestBound ==
    ASSUME NEW n \in Nat, Len(versions) = n, versions \in Seq(Kernel!Versions), NEW a
    PROVE  Kernel!Latest(a) \in 0..n
<1>1. DOMAIN versions = 1..n
  OBVIOUS
<1>2. IsFiniteSet(1..n) /\ Cardinality(1..n) = n
  BY FS_Interval
<1>3. {i \in DOMAIN versions : versions[i].asset = a} \subseteq 1..n
  BY <1>1
<1>4. /\ IsFiniteSet({i \in DOMAIN versions : versions[i].asset = a})
      /\ Cardinality({i \in DOMAIN versions : versions[i].asset = a}) <= n
  BY <1>2, <1>3, FS_Subset
<1> QED BY <1>4, FS_CardinalityType, KernelCardinality DEF Kernel!Latest

\* What an append does to versions and heads.
LEMMA AppendTypes ==
    ASSUME Kernel!TypeOK, NEW version, Kernel!Append1(version),
           version.asset \in Assets, Len(versions) < MaxVersions => version \in Kernel!Versions
    PROVE  /\ version \in Kernel!Versions
           /\ versions' \in Seq(Kernel!Versions) /\ Len(versions') <= MaxVersions
           /\ Len(versions') = Len(versions) + 1
           /\ versions'[Len(versions')] = version
           /\ \A i \in DOMAIN versions : i \in DOMAIN versions' /\ versions'[i] = versions[i]
           /\ assetHead' \in [Assets -> Kernel!VersionIds]
           /\ assetHead' = [assetHead EXCEPT ![version.asset] = Len(versions')]
<1>1. version \in Kernel!Versions /\ versions \in Seq(Kernel!Versions) /\ Len(versions) \in Nat
  BY DEF Kernel!Append1, Kernel!TypeOK
<1>2. /\ versions' = Append(versions, version) /\ Len(versions) < MaxVersions
      /\ assetHead' = [assetHead EXCEPT ![version.asset] = Len(versions')]
  BY DEF Kernel!Append1
<1>3. /\ versions' \in Seq(Kernel!Versions) /\ Len(versions') = Len(versions) + 1
      /\ versions'[Len(versions')] = version
      /\ \A i \in DOMAIN versions : i \in DOMAIN versions' /\ versions'[i] = versions[i]
  BY <1>1, <1>2
<1>4. Len(versions') \in Kernel!VersionIds
  BY KernelConstants, <1>1, <1>2, <1>3 DEF Kernel!VersionIds
<1>5. assetHead' \in [Assets -> Kernel!VersionIds]
  BY <1>2, <1>4 DEF Kernel!TypeOK
<1> QED BY <1>1, <1>2, <1>3, <1>4, <1>5 DEF Kernel!VersionIds

\* A patch adds its transaction to a state or nothing.
LEMMA PatchType ==
    ASSUME NEW state \in SUBSET Transactions, NEW t \in Transactions
    PROVE  Kernel!ApplyPatch(state, t) \in SUBSET Transactions
BY DEF Kernel!ApplyPatch

\* A move of a transaction along the state machine keeps the types.
LEMMA MoveTypes ==
    ASSUME Kernel!TypeOK, NEW t \in Transactions, NEW to \in Kernel!Statuses, Kernel!Move(t, to)
    PROVE  /\ txn' \in [Transactions -> [status: Kernel!Statuses, asset: Assets, base: Kernel!VersionIds]]
           /\ txn'[t].status = to
           /\ \A u \in Transactions : /\ txn'[u].base = txn[u].base
                                      /\ txn'[u].asset = txn[u].asset
                                      /\ u # t => txn'[u] = txn[u]
<1>1. txn[t] \in [status: Kernel!Statuses, asset: Assets, base: Kernel!VersionIds]
  BY DEF Kernel!TypeOK
<1>2. [txn[t] EXCEPT !.status = to] \in [status: Kernel!Statuses, asset: Assets, base: Kernel!VersionIds]
  BY <1>1
<1>3. txn' = [txn EXCEPT ![t] = [txn[t] EXCEPT !.status = to]]
  BY DEF Kernel!Move
<1> QED BY <1>1, <1>2, <1>3 DEF Kernel!TypeOK

\* Every step of the lab keeps the types,
LEMMA TypedStep == Typed /\ [Kernel!Next]_(Kernel!vars) => Typed'
<1> SUFFICES ASSUME Typed, [Kernel!Next]_(Kernel!vars) PROVE Typed'
  OBVIOUS
<1>0. Kernel!TypeOK /\ BasesExist
  BY DEF Typed
<1>1. ASSUME NEW a \in Assets, Kernel!CreateAsset(a) PROVE Typed'
  <2> DEFINE v == [asset |-> a, number |-> 1, state |-> {}, parent |-> 0, by |-> "asset"]
  <2>1. Len(versions) \in Nat
    BY <1>0 DEF Kernel!TypeOK
  <2>2. Len(versions) < MaxVersions => v \in Kernel!Versions
    BY KernelConstants, <2>1 DEF Kernel!Versions, Kernel!VersionIds
  <2>3. Kernel!Append1(v) /\ v.asset = a
    BY <1>1 DEF Kernel!CreateAsset
  <2> HIDE DEF v
  <2>4. /\ versions' \in Seq(Kernel!Versions) /\ Len(versions') <= MaxVersions
        /\ \A i \in DOMAIN versions : i \in DOMAIN versions'
        /\ assetHead' \in [Assets -> Kernel!VersionIds]
    BY <1>0, <2>2, <2>3, AppendTypes
  <2> QED BY <1>0, <1>1, <2>4 DEF Kernel!CreateAsset, Typed, Kernel!TypeOK, BasesExist,
             Kernel!Status
<1>2. ASSUME NEW p \in Pages, Kernel!Refresh(p) PROVE Typed'
  BY <1>0, <1>2 DEF Kernel!Refresh, Typed, Kernel!TypeOK, BasesExist, Kernel!Status
<1>3. ASSUME NEW t \in Transactions, NEW a \in Assets, NEW base \in Kernel!VersionIds,
             Kernel!CreateTransaction(t, a, base)
      PROVE  Typed'
  <2>1. txn' \in [Transactions -> [status: Kernel!Statuses, asset: Assets, base: Kernel!VersionIds]]
    BY <1>0, <1>3 DEF Kernel!CreateTransaction, Kernel!TypeOK, Kernel!Statuses
  <2>2. t \notin runs /\ \A u \in Transactions \ {t} : txn'[u] = txn[u]
    BY <1>0, <1>3 DEF Kernel!CreateTransaction, Kernel!TypeOK, BasesExist
  <2>3. BasesExist'
    BY <1>0, <1>3, <2>2 DEF Kernel!CreateTransaction, BasesExist, Kernel!Status, Kernel!TypeOK
  <2> QED BY <1>0, <1>3, <2>1, <2>3 DEF Kernel!CreateTransaction, Typed, Kernel!TypeOK
<1>4. ASSUME NEW p \in Pages, NEW t \in Transactions, NEW a \in Assets, Kernel!HandleCreateTx(p, t, a)
      PROVE  Typed'
  BY <1>0, <1>3, <1>4 DEF Kernel!HandleCreateTx, Kernel!TypeOK
<1>5. ASSUME NEW t \in Transactions, NEW to \in Kernel!Statuses \ {"NONE"}, Kernel!Move(t, to),
             UNCHANGED <<versions, assetHead, shown>>, runs' \in {runs, runs \cup {t}},
             t \in runs' => txn[t].base \in DOMAIN versions,
             leases' \in [Transactions -> SUBSET Kernel!Leases],
             patch' \in [Transactions -> SUBSET [path: Kernel!Paths, operation: Kernel!Operations]],
             verified' \in [Transactions -> SUBSET {"PASSED", "FAILED"}],
             UNCHANGED commits
      PROVE  Typed'
  <2>1. /\ txn' \in [Transactions -> [status: Kernel!Statuses, asset: Assets, base: Kernel!VersionIds]]
        /\ txn'[t].status = to
        /\ \A u \in Transactions : txn'[u].base = txn[u].base /\ (u # t => txn'[u] = txn[u])
    BY <1>0, <1>5, MoveTypes
  <2>2. BasesExist'
    BY <1>0, <1>5, <2>1 DEF BasesExist, Kernel!Status, Kernel!TypeOK
  <2> QED BY <1>0, <1>5, <2>1, <2>2 DEF Typed, Kernel!TypeOK
<1>6. ASSUME NEW t \in Transactions, NEW r \in Requests, Kernel!PrepareTransaction(t, r)
      PROVE  Typed'
  <2>1. r.lease \in Kernel!Leases /\ r.path \in Kernel!Paths /\ r.operation \in Kernel!Operations
    BY KernelConstants DEF Kernel!AllRequests
  <2>2. leases' \in [Transactions -> SUBSET Kernel!Leases]
    BY <1>0, <1>6, <2>1 DEF Kernel!PrepareTransaction, Kernel!TypeOK
  <2>3. CASE UNCHANGED <<patch, txn>>
    BY <1>0, <1>6, <2>2, <2>3 DEF Kernel!PrepareTransaction, Typed, Kernel!TypeOK, BasesExist,
       Kernel!Status
  <2>4. CASE /\ patch' = [patch EXCEPT ![t] = {[path |-> r.path, operation |-> r.operation]}]
             /\ Kernel!Move(t, "PREPARED")
    <3>1. patch' \in [Transactions -> SUBSET [path: Kernel!Paths, operation: Kernel!Operations]]
      BY <1>0, <2>1, <2>4 DEF Kernel!TypeOK
    <3> QED BY <1>0, <1>5, <1>6, <2>2, <2>4, <3>1
            DEF Kernel!PrepareTransaction, Kernel!TypeOK, BasesExist, Kernel!Statuses
  <2> QED BY <1>6, <2>3, <2>4 DEF Kernel!PrepareTransaction
<1>7. ASSUME NEW t \in Transactions, Kernel!ExecuteTransaction(t) PROVE Typed'
  BY <1>0, <1>5, <1>7 DEF Kernel!ExecuteTransaction, Kernel!TypeOK, BasesExist, Kernel!Statuses
<1>8. ASSUME NEW t \in Transactions, Kernel!VerifyTransaction(t) PROVE Typed'
  <2>1. verified' \in [Transactions -> SUBSET {"PASSED", "FAILED"}]
    BY <1>0, <1>8 DEF Kernel!VerifyTransaction, Kernel!TypeOK
  <2> QED BY <1>0, <1>5, <1>8, <2>1 DEF Kernel!VerifyTransaction, Kernel!TypeOK, BasesExist,
             Kernel!Statuses
<1>9. ASSUME NEW t \in Transactions, Kernel!AbortTransaction(t) PROVE Typed'
  BY <1>0, <1>5, <1>9 DEF Kernel!AbortTransaction, Kernel!TypeOK, BasesExist, Kernel!Statuses
<1>10. ASSUME NEW t \in Transactions, Kernel!CommitTransaction(t) PROVE Typed'
  <2> DEFINE a == txn[t].asset
             v == [asset |-> a, number |-> Kernel!Latest(a) + 1, parent |-> assetHead[a], by |-> t,
                   state |-> Kernel!ApplyPatch(versions[txn[t].base].state, t)]
  <2>1. a \in Assets /\ txn[t].base \in DOMAIN versions
    BY <1>0, <1>10 DEF Kernel!CommitTransaction, Kernel!MayCommit, BasesExist, Kernel!TypeOK
  <2>2. Kernel!ApplyPatch(versions[txn[t].base].state, t) \in SUBSET Transactions
    <3>1. versions[txn[t].base] \in Kernel!Versions
      BY <1>0, <2>1 DEF Kernel!TypeOK
    <3> QED BY <3>1, PatchType DEF Kernel!Versions
  <2>3. Len(versions) \in Nat /\ Kernel!Latest(a) \in 0..Len(versions)
    BY <1>0, LatestBound DEF Kernel!TypeOK
  <2>4. Len(versions) < MaxVersions => v \in Kernel!Versions
    <3>1. Len(versions) < MaxVersions => Kernel!Latest(a) + 1 \in 1..MaxVersions
      BY KernelConstants, <1>0, <2>3
    <3>2. assetHead[a] \in Kernel!VersionIds
      BY <1>0, <2>1 DEF Kernel!TypeOK
    <3> QED BY <2>1, <2>2, <3>1, <3>2, VersionType
  <2>5. Kernel!Append1(v) /\ v.asset = a
    BY <1>10 DEF Kernel!CommitTransaction
  <2> HIDE DEF v
  <2>6. /\ versions' \in Seq(Kernel!Versions) /\ Len(versions') <= MaxVersions
        /\ \A i \in DOMAIN versions : i \in DOMAIN versions'
        /\ assetHead' \in [Assets -> Kernel!VersionIds]
        /\ assetHead' = [assetHead EXCEPT ![a] = Len(versions')]
    BY <1>0, <2>1, <2>4, <2>5, AppendTypes
  <2>7. /\ txn' \in [Transactions -> [status: Kernel!Statuses, asset: Assets, base: Kernel!VersionIds]]
        /\ txn'[t].status = "COMMITTED"
        /\ \A u \in Transactions : txn'[u].base = txn[u].base /\ (u # t => txn'[u] = txn[u])
    BY <1>0, <1>10, MoveTypes DEF Kernel!CommitTransaction, Kernel!Statuses
  <2>8. commits' \subseteq
          [transaction: Transactions, new: Kernel!VersionIds, previous: Kernel!VersionIds]
    <3>1. assetHead'[a] \in Kernel!VersionIds /\ Len(versions') \in Kernel!VersionIds
      BY KernelConstants, <2>1, <2>6 DEF Kernel!VersionIds, Kernel!TypeOK
    <3> QED BY <1>0, <1>10, <3>1 DEF Kernel!CommitTransaction, Kernel!TypeOK
  <2>9. BasesExist'
    BY <1>0, <1>10, <2>6, <2>7 DEF Kernel!CommitTransaction, BasesExist, Kernel!Status,
       Kernel!TypeOK
  <2> QED BY <1>0, <1>10, <2>6, <2>7, <2>8, <2>9 DEF Kernel!CommitTransaction, Typed,
             Kernel!TypeOK
<1>11. ASSUME NEW t \in Transactions, NEW target \in Kernel!VersionIds,
             Kernel!RollbackTransaction(t, target)
       PROVE Typed'
  <2> DEFINE a == txn[t].asset
             v == [asset |-> a, number |-> Kernel!Latest(a) + 1, state |-> versions[target].state,
                   parent |-> assetHead[a], by |-> "rollback"]
  <2>1. a \in Assets /\ versions[target].state \in SUBSET Transactions
    <3>1. versions[target] \in Kernel!Versions
      BY <1>0, <1>11 DEF Kernel!RollbackTransaction, Kernel!TypeOK
    <3> QED BY <1>0, <3>1 DEF Kernel!TypeOK, Kernel!Versions
  <2>2. Len(versions) \in Nat /\ Kernel!Latest(a) \in 0..Len(versions)
    BY <1>0, LatestBound DEF Kernel!TypeOK
  <2>3. Len(versions) < MaxVersions => v \in Kernel!Versions
    <3>1. Len(versions) < MaxVersions => Kernel!Latest(a) + 1 \in 1..MaxVersions
      BY KernelConstants, <1>0, <2>2
    <3>2. assetHead[a] \in Kernel!VersionIds
      BY <1>0, <2>1 DEF Kernel!TypeOK
    <3> QED BY <2>1, <3>1, <3>2, VersionType
  <2>4. Kernel!Append1(v) /\ v.asset = a
    BY <1>11 DEF Kernel!RollbackTransaction
  <2> HIDE DEF v
  <2>5. /\ versions' \in Seq(Kernel!Versions) /\ Len(versions') <= MaxVersions
        /\ \A i \in DOMAIN versions : i \in DOMAIN versions'
        /\ assetHead' \in [Assets -> Kernel!VersionIds]
    BY <1>0, <2>1, <2>3, <2>4, AppendTypes
  <2> QED BY <1>0, <1>11, <2>5 DEF Kernel!RollbackTransaction, Typed, Kernel!TypeOK, BasesExist,
             Kernel!Status
<1>12. CASE UNCHANGED Kernel!vars
  BY <1>0, <1>12 DEF Kernel!vars, Typed, Kernel!TypeOK, BasesExist, Kernel!Status
<1> QED
  BY <1>1, <1>2, <1>3, <1>4, <1>6, <1>7, <1>8, <1>9, <1>10, <1>11, <1>12 DEF Kernel!Next

\* which hold at the start.
LEMMA TypedInit == Kernel!Init => Typed
<1> SUFFICES ASSUME Kernel!Init PROVE Typed
  OBVIOUS
<1>1. versions \in Seq(Kernel!Versions) /\ Len(versions) <= MaxVersions /\ 0 \in Kernel!VersionIds
  BY KernelConstants DEF Kernel!Init, Kernel!VersionIds
<1>2. txn \in [Transactions -> [status: Kernel!Statuses, asset: Assets, base: Kernel!VersionIds]]
  BY <1>1 DEF Kernel!Init, Kernel!Statuses
<1> QED BY <1>1, <1>2 DEF Kernel!Init, Typed, Kernel!TypeOK, BasesExist

\* Versions, heads, transactions, leases, runs and commits keep their types.
THEOREM KernelTypes == Kernel!Spec => []Kernel!TypeOK
<1>1. Typed => Kernel!TypeOK
  BY DEF Typed
<1> QED BY <1>1, TypedInit, TypedStep, PTL DEF Kernel!Spec

-----------------------------------------------------------------------------
(* Transaction lab: versions are numbered without gaps.                      *)

OfAsset(a, i) == {j \in 1..i : versions[j].asset = a}

\* Each version is the next of its asset and stands on the one before it.
Numbered ==
    \A i \in DOMAIN versions :
        /\ versions[i].number = Cardinality(OfAsset(versions[i].asset, i))
        /\ versions[i].parent # 0 =>
              /\ versions[i].parent \in DOMAIN versions
              /\ versions[versions[i].parent].asset = versions[i].asset
              /\ versions[versions[i].parent].number = versions[i].number - 1

\* The head is the latest version: that is what makes a new one the next.
HeadsLatest ==
    \A a \in Assets :
        IF assetHead[a] = 0 THEN Kernel!Latest(a) = 0
        ELSE /\ assetHead[a] \in DOMAIN versions
             /\ versions[assetHead[a]].asset = a /\ versions[assetHead[a]].number = Kernel!Latest(a)

\* One more version of an asset counts one more, of that asset only.
LEMMA LatestCounts ==
    ASSUME versions \in Seq(Kernel!Versions), NEW version \in Kernel!Versions,
           versions' = Append(versions, version), NEW a, NEW n \in Nat, n = Len(versions)
    PROVE  /\ Kernel!Latest(a) \in Nat
           /\ Kernel!Latest(a)' = IF version.asset = a THEN Kernel!Latest(a) + 1 ELSE Kernel!Latest(a)
           /\ Kernel!Latest(a)' = Cardinality(OfAsset(a, n + 1))'
           /\ \A i \in DOMAIN versions : OfAsset(a, i)' = OfAsset(a, i)
<1> DEFINE old == {i \in DOMAIN versions : versions[i].asset = a}
           new == {i \in DOMAIN versions' : versions'[i].asset = a}
<1>1. /\ n \in Nat /\ DOMAIN versions = 1..n /\ DOMAIN versions' = 1..(n + 1)
      /\ Len(versions') = n + 1
      /\ versions'[n + 1] = version /\ \A i \in 1..n : versions'[i] = versions[i]
  OBVIOUS
<1>2. IsFiniteSet(old) /\ Cardinality(old) \in Nat
  <2>1. old \subseteq 1..n
    BY <1>1
  <2>2. IsFiniteSet(1..n)
    BY FS_Interval
  <2>3. IsFiniteSet(old)
    BY <2>1, <2>2, FS_Subset
  <2> QED BY <2>3, FS_CardinalityType
<1>3. Kernel!Latest(a) = Cardinality(old) /\ Kernel!Latest(a)' = Cardinality(new)
  BY KernelCardinality DEF Kernel!Latest
<1>4. CASE version.asset = a
  <2>1. new = old \cup {n + 1} /\ n + 1 \notin old
    BY <1>1, <1>4
  <2>2. Cardinality(old \cup {n + 1}) = Cardinality(old) + 1
    BY <1>2, <2>1, FS_AddElement
  <2>3. Kernel!Latest(a)' = Kernel!Latest(a) + 1
    BY <1>3, <2>1, <2>2
  <2>4. new = OfAsset(a, n + 1)'
    BY <1>1 DEF OfAsset
  <2>5. ASSUME NEW i \in 1..n PROVE OfAsset(a, i)' = OfAsset(a, i)
    BY <1>1 DEF OfAsset
  <2> HIDE DEF old, new
  <2> QED BY <1>1, <1>2, <1>3, <1>4, <2>3, <2>4, <2>5
<1>5. CASE version.asset # a
  <2>1. new = old
    BY <1>1, <1>5
  <2>4. new = OfAsset(a, n + 1)'
    BY <1>1 DEF OfAsset
  <2>5. ASSUME NEW i \in 1..n PROVE OfAsset(a, i)' = OfAsset(a, i)
    BY <1>1 DEF OfAsset
  <2> HIDE DEF old, new
  <2> QED BY <1>1, <1>2, <1>3, <1>5, <2>1, <2>4, <2>5
<1> QED BY <1>4, <1>5

\* A version appended as the next of its asset, on the head, keeps the numbers.
LEMMA AppendNumbers ==
    ASSUME Kernel!TypeOK, Kernel!TypeOK', Numbered, HeadsLatest,
           NEW version \in Kernel!Versions, Kernel!Append1(version), version.asset \in Assets,
           version.number = Kernel!Latest(version.asset) + 1, version.parent = assetHead[version.asset]
    PROVE  Numbered' /\ HeadsLatest'
<1> DEFINE a == version.asset
<1>0. PICK n \in Nat : n = Len(versions)
  BY DEF Kernel!TypeOK
<1>1. /\ versions \in Seq(Kernel!Versions) /\ versions' = Append(versions, version)
      /\ assetHead' = [assetHead EXCEPT ![a] = n + 1]
  BY <1>0 DEF Kernel!Append1, Kernel!TypeOK
<1>2. /\ n \in Nat /\ DOMAIN versions = 1..n /\ DOMAIN versions' = 1..(n + 1)
      /\ Len(versions') = n + 1
      /\ versions'[n + 1] = version /\ \A i \in 1..n : versions'[i] = versions[i]
  BY <1>0, <1>1
<1>3. ASSUME NEW b
      PROVE  /\ Kernel!Latest(b) \in Nat
             /\ Kernel!Latest(b)' = IF a = b THEN Kernel!Latest(b) + 1 ELSE Kernel!Latest(b)
             /\ Kernel!Latest(b)' = Cardinality(OfAsset(b, n + 1))'
             /\ \A i \in 1..n : OfAsset(b, i)' = OfAsset(b, i)
  <2>1. \A i \in DOMAIN versions : OfAsset(b, i)' = OfAsset(b, i)
    BY <1>0, <1>1, LatestCounts
  <2>2. /\ Kernel!Latest(b) \in Nat
        /\ Kernel!Latest(b)' = IF version.asset = b THEN Kernel!Latest(b) + 1 ELSE Kernel!Latest(b)
        /\ Kernel!Latest(b)' = Cardinality(OfAsset(b, n + 1))'
    BY <1>0, <1>1, LatestCounts
  <2>3. Kernel!Latest(b)' = IF a = b THEN Kernel!Latest(b) + 1 ELSE Kernel!Latest(b)
    BY <2>2
  <2> QED BY <1>2, <2>1, <2>2, <2>3
<1>4. HeadsLatest'
  <2> SUFFICES ASSUME NEW b \in Assets
               PROVE  (IF assetHead[b] = 0 THEN Kernel!Latest(b) = 0
                       ELSE /\ assetHead[b] \in DOMAIN versions
                            /\ versions[assetHead[b]].asset = b
                            /\ versions[assetHead[b]].number = Kernel!Latest(b))'
    BY DEF HeadsLatest
  <2>1. CASE b = a
    <3>1. assetHead'[b] = n + 1 /\ n + 1 # 0
      BY <1>1, <1>2, <2>1 DEF Kernel!TypeOK
    <3>2. versions'[n + 1].asset = b /\ versions'[n + 1].number = Kernel!Latest(b)'
      BY <1>2, <1>3, <2>1
    <3> QED BY <1>2, <3>1, <3>2
  <2>2. CASE b # a
    <3>1. assetHead'[b] = assetHead[b] /\ Kernel!Latest(b)' = Kernel!Latest(b)
      BY <1>1, <1>3, <2>2 DEF Kernel!TypeOK
    <3> QED BY <1>2, <3>1 DEF HeadsLatest
  <2> QED BY <2>1, <2>2
<1>5. Numbered'
  <2> SUFFICES ASSUME NEW i \in 1..(n + 1)
               PROVE  /\ versions'[i].number = Cardinality(OfAsset(versions[i].asset, i))'
                      /\ versions'[i].parent # 0 =>
                            /\ versions'[i].parent \in 1..(n + 1)
                            /\ versions'[versions'[i].parent].asset = versions'[i].asset
                            /\ versions'[versions'[i].parent].number = versions'[i].number - 1
    BY <1>2 DEF Numbered
  <2>1. CASE i = n + 1
    <3>1. versions'[i] = version
      BY <1>2, <2>1
    <3>2. version.number = Cardinality(OfAsset(a, i))'
      BY <1>3, <2>1
    <3>3. Cardinality(OfAsset(versions[i].asset, i))' = Cardinality(OfAsset(a, i))'
      BY <3>1
    <3>4. assetHead[a] # 0 => /\ assetHead[a] \in 1..n
                              /\ versions'[assetHead[a]].asset = a
                              /\ versions'[assetHead[a]].number = version.number - 1
      BY <1>2, <1>3 DEF HeadsLatest
    <3> QED BY <1>2, <3>1, <3>2, <3>3, <3>4
  <2>2. CASE i \in 1..n
    <3>1. versions'[i] = versions[i]
      BY <1>2, <2>2
    <3>2. Cardinality(OfAsset(versions[i].asset, i))' = Cardinality(OfAsset(versions[i].asset, i))
      BY <1>3, <2>2, <3>1
    <3>3. versions[i].parent # 0 =>
            /\ versions[i].parent \in 1..n
            /\ versions[versions[i].parent].asset = versions[i].asset
            /\ versions[versions[i].parent].number = versions[i].number - 1
      BY <1>2, <2>2 DEF Numbered
    <3>4. versions[i].number = Cardinality(OfAsset(versions[i].asset, i))
      BY <1>2, <2>2 DEF Numbered
    <3> QED BY <1>2, <3>1, <3>2, <3>3, <3>4
  <2> QED BY <1>2, <2>1, <2>2
<1> QED BY <1>4, <1>5

-----------------------------------------------------------------------------
(* Transaction lab: commits stand.                                           *)

\* Leases and patch are fixed once a transaction is prepared, so a check that
\* passed keeps passing.
ProvenVerified ==
    \A t \in Transactions : Kernel!Status(t) \in {"VERIFIED", "COMMITTED"} => Kernel!ChecksPass(t)

Committed(c) ==
    LET t == c.transaction IN
    /\ t \in Transactions /\ Kernel!Status(t) = "COMMITTED" /\ verified[t] = {"PASSED"}
    /\ c.new \in DOMAIN versions /\ txn[t].base \in DOMAIN versions
    /\ versions[c.new].by = t /\ versions[c.new].parent = txn[t].base
    /\ versions[c.new].state = Kernel!ApplyPatch(versions[txn[t].base].state, t)

KernelInv ==
    /\ Numbered /\ HeadsLatest /\ ProvenVerified
    /\ \A c \in commits : Committed(c)

\* Versions are only added and a committed transaction is never touched again.
LEMMA CommittedStays ==
    ASSUME NEW c, Committed(c),
           \A i \in DOMAIN versions : i \in DOMAIN versions' /\ versions'[i] = versions[i],
           \A t \in Transactions : Kernel!Status(t) = "COMMITTED" =>
              txn'[t] = txn[t] /\ patch'[t] = patch[t] /\ verified'[t] = verified[t]
    PROVE  Committed(c)'
<1> DEFINE t == c.transaction
<1>1. /\ t \in Transactions /\ c.new \in DOMAIN versions /\ txn[t].base \in DOMAIN versions
      /\ txn'[t] = txn[t] /\ patch'[t] = patch[t] /\ verified'[t] = verified[t]
  BY DEF Committed
<1>2. /\ c.new \in DOMAIN versions' /\ txn'[t].base \in DOMAIN versions'
      /\ versions'[c.new] = versions[c.new]
      /\ versions'[txn'[t].base] = versions[txn[t].base]
  BY <1>1
<1> QED BY <1>1, <1>2 DEF Committed, Kernel!Status, Kernel!ApplyPatch

\* A step of one transaction that is not committed and stores no version.
LEMMA TransactionStep ==
    ASSUME Typed, Typed', KernelInv, UNCHANGED <<versions, assetHead, commits>>,
           NEW t \in Transactions, Kernel!Status(t) # "COMMITTED",
           \A u \in Transactions \ {t} :
              /\ txn'[u] = txn[u] /\ patch'[u] = patch[u]
              /\ verified'[u] = verified[u] /\ leases'[u] = leases[u],
           runs \subseteq runs',
           Kernel!Status(t)' \in {"VERIFIED", "COMMITTED"} => Kernel!ChecksPass(t)'
    PROVE  KernelInv'
<1>1. Numbered' /\ HeadsLatest'
  BY DEF KernelInv, Numbered, HeadsLatest, OfAsset, Kernel!Latest
<1>2. ProvenVerified'
  <2> SUFFICES ASSUME NEW u \in Transactions, Kernel!Status(u)' \in {"VERIFIED", "COMMITTED"}
               PROVE  Kernel!ChecksPass(u)'
    BY DEF ProvenVerified
  <2>1. CASE u = t
    BY <2>1
  <2>2. CASE u # t
    BY <2>2 DEF KernelInv, ProvenVerified, Kernel!Status, Kernel!ChecksPass, Kernel!Locked
  <2> QED BY <2>1, <2>2
<1>3. \A c \in commits : Committed(c)'
  BY CommittedStays DEF KernelInv, Committed
<1> QED BY <1>1, <1>2, <1>3 DEF KernelInv

\* What the pages show is not part of it.
LEMMA KernelUnchanged ==
    ASSUME KernelInv, UNCHANGED <<versions, assetHead, txn, leases, patch, runs, verified, commits>>
    PROVE  KernelInv'
<1>1. Numbered'
  BY DEF KernelInv, Numbered, OfAsset
<1>2. HeadsLatest'
  BY DEF KernelInv, HeadsLatest, Kernel!Latest
<1>3. ProvenVerified'
  BY DEF KernelInv, ProvenVerified, Kernel!Status, Kernel!ChecksPass, Kernel!Locked
<1>4. \A c \in commits : Committed(c)'
  BY CommittedStays DEF KernelInv
<1> QED BY <1>1, <1>2, <1>3, <1>4 DEF KernelInv

\* Every step of the lab keeps what commits stand on,
LEMMA KernelStep ==
    Typed /\ Typed' /\ KernelInv /\ [Kernel!Next]_(Kernel!vars) => KernelInv'
<1> SUFFICES ASSUME Typed, Typed', KernelInv, [Kernel!Next]_(Kernel!vars) PROVE KernelInv'
  OBVIOUS
<1>0. Kernel!TypeOK /\ Kernel!TypeOK' /\ BasesExist /\ Numbered /\ HeadsLatest
  BY DEF Typed, KernelInv
<1>1. ASSUME NEW version \in Kernel!Versions, Kernel!Append1(version), version.asset \in Assets,
             version.number = Kernel!Latest(version.asset) + 1, version.parent = assetHead[version.asset]
      PROVE  /\ Numbered' /\ HeadsLatest'
             /\ \A i \in DOMAIN versions : i \in DOMAIN versions' /\ versions'[i] = versions[i]
             /\ Len(versions') \in DOMAIN versions' /\ versions'[Len(versions')] = version
  <2>1. Numbered' /\ HeadsLatest'
    BY <1>0, <1>1, AppendNumbers
  <2> QED BY <1>0, <1>1, <2>1 DEF Kernel!Append1, Kernel!TypeOK
<1>2. ASSUME NEW version \in Kernel!Versions, Kernel!Append1(version), version.asset \in Assets,
             version.number = Kernel!Latest(version.asset) + 1, version.parent = assetHead[version.asset],
             UNCHANGED <<txn, leases, patch, runs, verified, commits>>
      PROVE  KernelInv'
  <2>1. \A c \in commits : Committed(c)'
    BY <1>1, <1>2, CommittedStays DEF KernelInv
  <2>2. ProvenVerified'
    BY <1>2 DEF KernelInv, ProvenVerified, Kernel!Status, Kernel!ChecksPass, Kernel!Locked
  <2> QED BY <1>1, <1>2, <2>1, <2>2 DEF KernelInv
<1>3. ASSUME NEW a \in Assets, Kernel!CreateAsset(a) PROVE KernelInv'
  <2> DEFINE v == [asset |-> a, number |-> 1, state |-> {}, parent |-> 0, by |-> "asset"]
  <2>1. v \in Kernel!Versions
    BY KernelConstants, <1>0, <1>3 DEF Kernel!CreateAsset, Kernel!Append1, Kernel!Versions,
       Kernel!VersionIds, Kernel!TypeOK
  <2>2. Kernel!Latest(a) = 0 /\ assetHead[a] = 0
    BY <1>0, <1>3 DEF Kernel!CreateAsset, HeadsLatest
  <2>3. Kernel!Append1(v) /\ v.asset = a /\ v.number = Kernel!Latest(a) + 1 /\ v.parent = assetHead[a]
    BY <1>3, <2>2 DEF Kernel!CreateAsset
  <2> HIDE DEF v
  <2> QED BY <1>2, <1>3, <2>1, <2>3 DEF Kernel!CreateAsset
<1>4. ASSUME NEW t \in Transactions, NEW target \in Kernel!VersionIds,
             Kernel!RollbackTransaction(t, target)
      PROVE KernelInv'
  <2> DEFINE a == txn[t].asset
             v == [asset |-> a, number |-> Kernel!Latest(a) + 1, state |-> versions[target].state,
                   parent |-> assetHead[a], by |-> "rollback"]
  <2>1. a \in Assets /\ versions[target] \in Kernel!Versions
    BY <1>0, <1>4 DEF Kernel!RollbackTransaction, Kernel!TypeOK
  <2>2. Len(versions) \in Nat /\ Kernel!Latest(a) \in 0..Len(versions)
    BY <1>0, LatestBound DEF Kernel!TypeOK
  <2>3. v \in Kernel!Versions
    BY KernelConstants, <1>0, <1>4, <2>1, <2>2 DEF Kernel!RollbackTransaction, Kernel!Append1,
       Kernel!Versions, Kernel!VersionIds, Kernel!TypeOK
  <2>4. Kernel!Append1(v) /\ v.asset = a /\ v.number = Kernel!Latest(a) + 1 /\ v.parent = assetHead[a]
    BY <1>4 DEF Kernel!RollbackTransaction
  <2> HIDE DEF v
  <2> QED BY <1>2, <1>4, <2>1, <2>3, <2>4 DEF Kernel!RollbackTransaction
<1>5. ASSUME NEW t \in Transactions, Kernel!CommitTransaction(t) PROVE KernelInv'
  <2> DEFINE a == txn[t].asset
             v == [asset |-> a, number |-> Kernel!Latest(a) + 1, parent |-> assetHead[a], by |-> t,
                   state |-> Kernel!ApplyPatch(versions[txn[t].base].state, t)]
  <2> PICK c : c = [transaction |-> t, new |-> Len(versions'), previous |-> assetHead'[a]]
    OBVIOUS
  <2>1. /\ a \in Assets /\ t \in runs /\ txn[t].base \in DOMAIN versions
        /\ versions[txn[t].base] \in Kernel!Versions /\ assetHead[a] = txn[t].base
        /\ Kernel!Status(t) = "VERIFIED" /\ verified[t] = {"PASSED"}
    BY <1>0, <1>5 DEF Kernel!CommitTransaction, Kernel!MayCommit, BasesExist, Kernel!TypeOK
  <2>2. Len(versions) \in Nat /\ Kernel!Latest(a) \in 0..Len(versions)
    BY <1>0, LatestBound DEF Kernel!TypeOK
  <2>3. Kernel!ApplyPatch(versions[txn[t].base].state, t) \in SUBSET Transactions
    BY <2>1, PatchType DEF Kernel!Versions
  <2>4. v \in Kernel!Versions
    BY KernelConstants, <1>0, <1>5, <2>1, <2>2, <2>3 DEF Kernel!CommitTransaction,
       Kernel!Append1, Kernel!Versions, Kernel!VersionIds, Kernel!TypeOK
  <2>5. /\ Kernel!Append1(v) /\ v.asset = a
        /\ v.number = Kernel!Latest(a) + 1 /\ v.parent = assetHead[a]
        /\ v.by = t /\ v.state = Kernel!ApplyPatch(versions[txn[t].base].state, t)
        /\ commits' = commits \cup {c} /\ UNCHANGED <<leases, patch, runs, verified, shown>>
        /\ \A d \in commits : d.transaction # t
    BY <1>5 DEF Kernel!CommitTransaction, Kernel!MayCommit
  <2>6. /\ txn'[t].status = "COMMITTED"
        /\ \A u \in Transactions : txn'[u].base = txn[u].base /\ (u # t => txn'[u] = txn[u])
    BY <1>0, <1>5, MoveTypes DEF Kernel!CommitTransaction, Kernel!Statuses
  <2>7. c.transaction = t /\ c.new = Len(versions')
    OBVIOUS
  <2> HIDE DEF v
  <2>8. /\ Numbered' /\ HeadsLatest'
        /\ \A i \in DOMAIN versions : i \in DOMAIN versions' /\ versions'[i] = versions[i]
        /\ Len(versions') \in DOMAIN versions' /\ versions'[Len(versions')] = v
    BY <1>1, <2>1, <2>4, <2>5
  <2>9. ProvenVerified'
    <3>1. Kernel!ChecksPass(t)
      BY <2>1 DEF KernelInv, ProvenVerified
    <3> QED BY <2>5, <2>6, <3>1 DEF KernelInv, ProvenVerified, Kernel!Status, Kernel!ChecksPass,
               Kernel!Locked
  <2>10. \A d \in commits : Committed(d)'
    BY <2>1, <2>5, <2>6, <2>8, CommittedStays DEF KernelInv
  <2>11. Committed(c)'
    <3>1. /\ versions'[Len(versions')].by = t
          /\ versions'[Len(versions')].parent = txn'[t].base
          /\ txn'[t].base \in DOMAIN versions'
          /\ versions'[txn'[t].base] = versions[txn[t].base]
      BY <2>1, <2>5, <2>6, <2>8
    <3>2. versions'[Len(versions')].state = Kernel!ApplyPatch(versions[txn[t].base].state, t)
      BY <2>5, <2>8
    <3>3. Kernel!ApplyPatch(versions[txn[t].base].state, t)
            = IF \E q \in patch'[t] : q.operation = "SET_ATTRIBUTE"
              THEN versions'[txn'[t].base].state \cup {t} ELSE versions'[txn'[t].base].state
      BY <2>5, <3>1 DEF Kernel!ApplyPatch
    <3>4. Kernel!ApplyPatch(versions[txn[t].base].state, t)' 
            = IF \E q \in patch'[t] : q.operation = "SET_ATTRIBUTE"
              THEN versions'[txn'[t].base].state \cup {t} ELSE versions'[txn'[t].base].state
      BY DEF Kernel!ApplyPatch
    <3>5. Kernel!Status(t)' = "COMMITTED" /\ t \in runs' /\ verified'[t] = {"PASSED"}
      BY <2>1, <2>5, <2>6 DEF Kernel!Status
    <3> QED BY <2>7, <2>8, <3>1, <3>2, <3>3, <3>4, <3>5 DEF Committed
  <2>12. \A d \in commits' : Committed(d)'
    BY <2>5, <2>10, <2>11
  <2> QED BY <2>8, <2>9, <2>12 DEF KernelInv
<1>6. ASSUME NEW p \in Pages, Kernel!Refresh(p) PROVE KernelInv'
  BY <1>6, KernelUnchanged DEF Kernel!Refresh
<1>7. ASSUME NEW t \in Transactions, NEW a \in Assets, NEW base \in Kernel!VersionIds,
             Kernel!CreateTransaction(t, a, base)
      PROVE  KernelInv'
  BY <1>0, <1>7, TransactionStep DEF Kernel!CreateTransaction, Kernel!Status, Kernel!TypeOK
<1>8. ASSUME NEW p \in Pages, NEW t \in Transactions, NEW a \in Assets, Kernel!HandleCreateTx(p, t, a)
      PROVE  KernelInv'
  BY <1>0, <1>7, <1>8 DEF Kernel!HandleCreateTx, Kernel!TypeOK
<1>9. ASSUME NEW t \in Transactions, NEW to \in Kernel!Statuses, Kernel!Move(t, to)
      PROVE  Kernel!Status(t)' = to /\ \A u \in Transactions \ {t} : txn'[u] = txn[u]
  BY <1>0, <1>9, MoveTypes DEF Kernel!Status
<1>10. ASSUME NEW t \in Transactions, NEW to, Kernel!Valid(t, to)
       PROVE  Kernel!Status(t) # "COMMITTED"
  BY <1>10 DEF Kernel!Valid, Kernel!ValidTransitions
<1>11. ASSUME NEW t \in Transactions, NEW r \in Requests, Kernel!PrepareTransaction(t, r)
       PROVE  KernelInv'
  <2>1. Kernel!Status(t) = "DRAFT"
    <3>1. Kernel!Status(t) \in Kernel!Statuses
      BY <1>0 DEF Kernel!TypeOK, Kernel!Status
    <3>2. "PREPARED" \in Kernel!ValidTransitions[Kernel!Status(t)]
      BY <1>11 DEF Kernel!PrepareTransaction, Kernel!Valid
    <3> QED BY <3>1, <3>2 DEF Kernel!Statuses, Kernel!ValidTransitions
  <2>2. CASE UNCHANGED <<patch, txn>>
    BY <1>0, <1>11, <2>1, <2>2, TransactionStep DEF Kernel!PrepareTransaction, Kernel!TypeOK,
       Kernel!Status
  <2>3. CASE /\ patch' = [patch EXCEPT ![t] = {[path |-> r.path, operation |-> r.operation]}]
             /\ Kernel!Move(t, "PREPARED")
    BY <1>0, <1>9, <1>11, <2>1, <2>3, TransactionStep DEF Kernel!PrepareTransaction,
       Kernel!TypeOK, Kernel!Statuses
  <2> QED BY <1>11, <2>2, <2>3 DEF Kernel!PrepareTransaction
<1>12. ASSUME NEW t \in Transactions, Kernel!ExecuteTransaction(t) PROVE KernelInv'
  BY <1>0, <1>9, <1>10, <1>12, TransactionStep DEF Kernel!ExecuteTransaction, Kernel!TypeOK,
     Kernel!Statuses
<1>13. ASSUME NEW t \in Transactions, Kernel!VerifyTransaction(t) PROVE KernelInv'
  <2>1. Kernel!ChecksPass(t)' = Kernel!ChecksPass(t)
    BY <1>13 DEF Kernel!VerifyTransaction, Kernel!ChecksPass, Kernel!Locked
  <2>2. Kernel!Status(t)' = IF Kernel!ChecksPass(t) THEN "VERIFIED" ELSE "FAILED"
    BY <1>9, <1>13 DEF Kernel!VerifyTransaction, Kernel!Statuses
  <2> QED BY <1>0, <1>9, <1>10, <1>13, <2>1, <2>2, TransactionStep
          DEF Kernel!VerifyTransaction, Kernel!TypeOK, Kernel!Statuses
<1>14. ASSUME NEW t \in Transactions, Kernel!AbortTransaction(t) PROVE KernelInv'
  BY <1>0, <1>9, <1>10, <1>14, TransactionStep DEF Kernel!AbortTransaction, Kernel!TypeOK,
     Kernel!Statuses
<1>15. CASE UNCHANGED Kernel!vars
  BY <1>15, KernelUnchanged DEF Kernel!vars
<1> QED
  BY <1>3, <1>4, <1>5, <1>6, <1>7, <1>8, <1>11, <1>12, <1>13, <1>14, <1>15 DEF Kernel!Next

\* which holds at the start.
LEMMA KernelInit == Kernel!Init => KernelInv
<1> SUFFICES ASSUME Kernel!Init PROVE KernelInv
  OBVIOUS
<1>1. versions = <<>> /\ DOMAIN versions = {}
  BY DEF Kernel!Init
<1>2. \A a \in Assets : Kernel!Latest(a) = 0
  BY <1>1, FS_EmptySet, KernelCardinality DEF Kernel!Latest
<1> QED BY <1>1, <1>2 DEF Kernel!Init, KernelInv, Numbered, HeadsLatest, ProvenVerified,
           Kernel!Status

\* No proof, no commit, and no lost update: a committed version stands on the
\* version its transaction was based on, extends its state and passed its checks
\* (OutcomeTransactionService.commitTransaction, verifyTransaction).
THEOREM Commits == Kernel!Spec => []Kernel!CommitsStand
<1>1. Kernel!TypeOK /\ BasesExist /\ KernelInv => Kernel!CommitsStand
  <2> SUFFICES ASSUME KernelInv PROVE Kernel!CommitsStand
    OBVIOUS
  <2>1. ASSUME NEW c \in commits
        PROVE  LET new == versions[c.new]  t == c.transaction IN
                 /\ Kernel!Status(t) = "COMMITTED" /\ new.by = t
                 /\ new.parent = txn[t].base
                 /\ new.state = Kernel!ApplyPatch(versions[new.parent].state, t)
                 /\ t \in runs /\ verified[t] = {"PASSED"}
                 /\ \A q \in patch[t], locked \in Kernel!Locked(t) : ~Kernel!Related(q.path, locked)
    BY DEF KernelInv, Committed, ProvenVerified, Kernel!ChecksPass, Kernel!PrefixRelated
  <2>2. ASSUME NEW i \in DOMAIN versions
        PROVE  LET v == versions[i] IN
                 /\ v.number = Cardinality({j \in 1..i : versions[j].asset = v.asset})
                 /\ v.parent # 0 => /\ versions[v.parent].asset = v.asset
                                    /\ versions[v.parent].number = v.number - 1
    BY DEF KernelInv, Numbered, OfAsset
  <2> QED BY <2>1, <2>2, KernelCardinality DEF Kernel!CommitsStand
<1>2. Typed => Kernel!TypeOK /\ BasesExist
  BY DEF Typed
<1> QED BY <1>1, <1>2, TypedInit, TypedStep, KernelInit, KernelStep, PTL DEF Kernel!Spec

-----------------------------------------------------------------------------
(* Requirement catalog.                                                      *)

Asking == [step: Catalog!Steps, definition: SUBSET Profiles, binding: SUBSET Catalog!Bindings,
           transaction: SUBSET Bound, profile: SUBSET Profiles]

\* A published profile describes a published blueprint, so its addresses are
\* those of a binding.
LEMMA DescribedBinding ==
    ASSUME NEW p \in Profiles, NEW rows \in SUBSET Blueprints, Catalog!Describes(p, rows)
    PROVE  [blueprint |-> p.blueprint, profile |-> Catalog!Address(p)] \in Catalog!Bindings
BY DEF Catalog!Describes, Catalog!Bindings

\* Rows, bindings, requests and answers keep their types.
THEOREM CatalogTypes == Catalog!Spec => []Catalog!TypeOK
<1>1. Catalog!Init => Catalog!TypeOK
  BY DEF Catalog!Init, Catalog!TypeOK, Catalog!Idle, Catalog!Steps
<1>2. Catalog!TypeOK /\ [Catalog!Next]_(Catalog!vars) => Catalog!TypeOK'
  <2> SUFFICES ASSUME Catalog!TypeOK, [Catalog!Next]_(Catalog!vars) PROVE Catalog!TypeOK'
    OBVIOUS
  <2>1. \A a \in Actors : actor[a] \in Asking
    BY DEF Catalog!TypeOK, Asking
  <2>2. Catalog!Idle \in Asking
    BY DEF Catalog!Idle, Asking, Catalog!Steps
  <2>3. ASSUME NEW a \in Actors, NEW next \in Asking, Catalog!Go(a, next)
        PROVE actor' \in [Actors -> Asking]
    BY <2>3 DEF Catalog!Go, Catalog!TypeOK, Asking
  <2>4. ASSUME NEW a \in Actors, Catalog!Throw(a) PROVE Catalog!TypeOK'
    BY <2>2, <2>3, <2>4 DEF Catalog!Throw, Catalog!TypeOK, Asking
  <2>5. ASSUME NEW a \in Actors, NEW b \in Blueprints, Catalog!PublishBlueprint(a, b)
        PROVE  Catalog!TypeOK'
    BY <2>5 DEF Catalog!PublishBlueprint, Catalog!TypeOK
  <2>6. ASSUME NEW a \in Actors, NEW p \in Profiles, Catalog!BeginProfile(a, p)
        PROVE  Catalog!TypeOK'
    <3>1. [Catalog!Idle EXCEPT !.step = "profile", !.definition = {p}] \in Asking
      BY <2>2 DEF Asking, Catalog!Steps
    <3> QED BY <2>3, <2>6, <3>1 DEF Catalog!BeginProfile, Catalog!TypeOK, Asking
  <2>7. ASSUME NEW a \in Actors, Catalog!PublishProfile(a) PROVE Catalog!TypeOK'
    <3>1. profiles' \subseteq Profiles
      BY <2>1, <2>7 DEF Catalog!PublishProfile, Catalog!TypeOK, Asking
    <3> QED BY <2>2, <2>3, <2>7, <3>1 DEF Catalog!PublishProfile, Catalog!TypeOK, Asking
  <2>8. ASSUME NEW a \in Actors, NEW t \in Bound, NEW p \in profiles, Catalog!BeginBinding(a, t, p)
        PROVE Catalog!TypeOK'
    <3>1. [blueprint |-> p.blueprint, profile |-> Catalog!Address(p)] \in Catalog!Bindings
      BY <2>8, DescribedBinding DEF Catalog!BeginBinding, Catalog!TypeOK
    <3>2. [Catalog!Idle EXCEPT !.step = "bind", !.transaction = {t},
             !.binding = {[blueprint |-> p.blueprint, profile |-> Catalog!Address(p)]}] \in Asking
      BY <2>2, <3>1 DEF Asking, Catalog!Steps
    <3> QED BY <2>3, <2>8, <3>2 DEF Catalog!BeginBinding, Catalog!TypeOK, Asking
  <2>9. ASSUME NEW a \in Actors, Catalog!Bind(a) PROVE Catalog!TypeOK'
    <3>1. PICK t \in actor[a].transaction, binding \in actor[a].binding :
             bindings' = [u \in DOMAIN bindings \cup {t} |-> IF u = t THEN binding ELSE bindings[u]]
      BY <2>9 DEF Catalog!Bind
    <3>2. t \in Bound /\ binding \in Catalog!Bindings
      BY <2>1, <3>1 DEF Asking
    <3>3. /\ DOMAIN bindings' \subseteq Bound
          /\ bindings' \in [DOMAIN bindings' -> Catalog!Bindings]
      BY <3>1, <3>2 DEF Catalog!TypeOK
    <3> QED BY <2>2, <2>3, <2>9, <3>3 DEF Catalog!Bind, Catalog!TypeOK, Asking
  <2>10. ASSUME NEW a \in Actors, NEW t \in Bound, Catalog!ReadBinding(a, t) PROVE Catalog!TypeOK'
    <3>1. [Catalog!Idle EXCEPT !.step = "readProfile", !.transaction = {t}, !.binding = {bindings[t]}]
             \in Asking
      BY <2>2, <2>10 DEF Catalog!ReadBinding, Catalog!TypeOK, Asking, Catalog!Steps
    <3> QED BY <2>3, <2>10, <3>1 DEF Catalog!ReadBinding, Catalog!TypeOK, Asking
  <2>11. ASSUME NEW a \in Actors, Catalog!ReadProfile(a) PROVE Catalog!TypeOK'
    <3>1. PICK found \in SUBSET Profiles :
             \/ Catalog!Go(a, [actor[a] EXCEPT !.step = "readBlueprint", !.profile = found])
             \/ Catalog!Go(a, Catalog!Idle)
      <4> DEFINE found == {p \in profiles : \E b \in actor[a].binding : p.version = b.profile.version}
      <4>1. found \in SUBSET Profiles
        BY DEF Catalog!TypeOK
      <4> QED BY <2>11, <4>1 DEF Catalog!ReadProfile
    <3>2. [actor[a] EXCEPT !.step = "readBlueprint", !.profile = found] \in Asking
      BY <2>1 DEF Asking, Catalog!Steps
    <3> QED BY <2>2, <2>3, <2>11, <3>1, <3>2 DEF Catalog!ReadProfile, Catalog!TypeOK, Asking
  <2>12. ASSUME NEW a \in Actors, Catalog!ReadBlueprint(a) PROVE Catalog!TypeOK'
    <3>1. resolved' \subseteq Bound \X Profiles
      BY <2>1, <2>12 DEF Catalog!ReadBlueprint, Catalog!TypeOK, Asking
    <3> QED BY <2>2, <2>3, <2>12, <3>1 DEF Catalog!ReadBlueprint, Catalog!TypeOK, Asking
  <2>13. CASE UNCHANGED Catalog!vars
    BY <2>13 DEF Catalog!vars, Catalog!TypeOK
  <2> QED
    BY <2>4, <2>5, <2>6, <2>7, <2>8, <2>9, <2>10, <2>11, <2>12, <2>13 DEF Catalog!Next
<1> QED BY <1>1, <1>2, PTL DEF Catalog!Spec

-----------------------------------------------------------------------------

\* A binding names published rows.
BoundTo(binding) ==
    \E p \in profiles : /\ Catalog!Address(p) = binding.profile
                        /\ p.blueprint = binding.blueprint
                        /\ Catalog!Describes(p, blueprints)

\* A resolution in progress works on the binding its transaction has, and the
\* profile it found is the one the binding names: versions are unique.
Resolving(q) ==
    /\ q.step \in {"readProfile", "readBlueprint"} =>
          \A t \in q.transaction : t \in DOMAIN bindings /\ q.binding = {bindings[t]}
    /\ q.step = "readBlueprint" =>
          \A t \in q.transaction, p \in q.profile :
             p \in profiles /\ \A b \in q.binding : Catalog!Address(p) = b.profile

Answered(r) ==
    /\ r[1] \in DOMAIN bindings /\ r[2] \in profiles
    /\ Catalog!Address(r[2]) = bindings[r[1]].profile

CatalogInv ==
    /\ Catalog!Line(blueprints) /\ Catalog!Line(profiles)
    /\ \A t \in DOMAIN bindings : BoundTo(bindings[t])
    /\ \A r \in resolved : Answered(r)
    /\ \A a \in Actors : Resolving(actor[a])

\* The lineage trigger keeps a line unbroken.
LEMMA LineGrows ==
    ASSUME NEW rows, Catalog!Line(rows), NEW row, Catalog!Extends(row, rows)
    PROVE  /\ {other \in rows : other.version # row.version} \cup {row} = rows \cup {row}
           /\ Catalog!Line(rows \cup {row})
BY DEF Catalog!Line, Catalog!Extends

\* Publishing and binding take nothing away from what others rely on.
LEMMA OthersRely ==
    ASSUME CatalogInv, blueprints \subseteq blueprints', profiles \subseteq profiles',
           DOMAIN bindings \subseteq DOMAIN bindings',
           \A t \in DOMAIN bindings : bindings'[t] = bindings[t]
    PROVE  /\ \A t \in DOMAIN bindings : BoundTo(bindings[t])'
           /\ \A r \in resolved : Answered(r)'
           /\ \A a \in Actors : actor'[a] = actor[a] => Resolving(actor[a])'
<1>1. \A t \in DOMAIN bindings : BoundTo(bindings[t])'
  BY DEF CatalogInv, BoundTo, Catalog!Describes
<1>2. \A r \in resolved : Answered(r)'
  BY DEF CatalogInv, Answered
<1>3. \A a \in Actors : actor'[a] = actor[a] => Resolving(actor[a])'
  BY DEF CatalogInv, Resolving
<1> QED BY <1>1, <1>2, <1>3

\* Whatever is published meanwhile, a binding means the same requirements each
\* time it is resolved (SupabaseRequirementCatalogRepository,
\* SupabaseTransactionRequirementBindingRepository,
\* OutcomeRequirementAuthorityResolver).
THEOREM Resolution == Catalog!Spec => []Catalog!BindingsResolve
<1>1. Catalog!Init => CatalogInv
  BY DEF Catalog!Init, CatalogInv, Catalog!Line, Resolving, Catalog!Idle
<1>2. Catalog!TypeOK /\ CatalogInv /\ [Catalog!Next]_(Catalog!vars) => CatalogInv'
  <2> SUFFICES ASSUME Catalog!TypeOK, CatalogInv, [Catalog!Next]_(Catalog!vars) PROVE CatalogInv'
    OBVIOUS
  <2>1. ASSUME NEW a \in Actors, NEW next, Catalog!Go(a, next)
        PROVE  actor'[a] = next /\ \A c \in Actors \ {a} : actor'[c] = actor[c]
    BY <2>1 DEF Catalog!Go, Catalog!TypeOK
  <2>2. Resolving(Catalog!Idle)'
    BY DEF Resolving, Catalog!Idle
  <2>3. ASSUME UNCHANGED <<blueprints, profiles, bindings, resolved>>,
               NEW a \in Actors, NEW next, Catalog!Go(a, next), Resolving(next)
        PROVE  CatalogInv'
    BY <2>1, <2>3 DEF CatalogInv, BoundTo, Catalog!Describes, Answered, Resolving
  <2>4. ASSUME NEW a \in Actors, Catalog!Throw(a) PROVE CatalogInv'
    BY <2>3, <2>4 DEF Catalog!Throw, Resolving, Catalog!Idle
  <2>5. ASSUME NEW a \in Actors, NEW b \in Blueprints, Catalog!PublishBlueprint(a, b)
        PROVE  CatalogInv'
    <3>1. blueprints' = blueprints \cup {b} /\ Catalog!Line(blueprints)'
      BY <2>5, LineGrows DEF Catalog!PublishBlueprint, CatalogInv
    <3> QED BY <2>5, <3>1, OthersRely DEF Catalog!PublishBlueprint, CatalogInv
  <2>6. ASSUME NEW a \in Actors, NEW p \in Profiles, Catalog!BeginProfile(a, p) PROVE CatalogInv'
    BY <2>3, <2>6 DEF Catalog!BeginProfile, Resolving, Catalog!Idle
  <2>7. ASSUME NEW a \in Actors, Catalog!PublishProfile(a) PROVE CatalogInv'
    <3>1. Catalog!Go(a, Catalog!Idle) /\ UNCHANGED <<blueprints, bindings, resolved>>
      BY <2>7 DEF Catalog!PublishProfile
    <3>2. profiles \subseteq profiles' /\ Catalog!Line(profiles)'
      <4>1. PICK p \in actor[a].definition :
               /\ Catalog!Extends(p, profiles)
               /\ profiles' = {other \in profiles : other.version # p.version} \cup {p}
        BY <2>7 DEF Catalog!PublishProfile
      <4>2. Catalog!Line(profiles)
        BY DEF CatalogInv
      <4>3. profiles' = profiles \cup {p} /\ Catalog!Line(profiles \cup {p})
        BY <4>1, <4>2, LineGrows
      <4> QED BY <4>3
    <3>3. \A c \in Actors : Resolving(actor[c])'
      BY <2>1, <2>2, <3>1, <3>2, OthersRely
    <3> QED BY <3>1, <3>2, <3>3, OthersRely DEF CatalogInv
  <2>8. ASSUME NEW a \in Actors, NEW t \in Bound, NEW p \in profiles, Catalog!BeginBinding(a, t, p)
        PROVE CatalogInv'
    BY <2>3, <2>8 DEF Catalog!BeginBinding, Resolving, Catalog!Idle
  <2>9. ASSUME NEW a \in Actors, Catalog!Bind(a) PROVE CatalogInv'
    <3>1. PICK t \in actor[a].transaction, binding \in actor[a].binding :
             /\ t \notin DOMAIN bindings
             /\ \E p \in profiles :
                  Catalog!Address(p) = binding.profile /\ p.blueprint = binding.blueprint
             /\ \E b \in blueprints : Catalog!Address(b) = binding.blueprint
             /\ bindings' = [u \in DOMAIN bindings \cup {t} |-> IF u = t THEN binding ELSE bindings[u]]
      BY <2>9 DEF Catalog!Bind
    <3>2. Catalog!Go(a, Catalog!Idle) /\ UNCHANGED <<blueprints, profiles, resolved>>
      BY <2>9 DEF Catalog!Bind
    <3>3. /\ DOMAIN bindings' = DOMAIN bindings \cup {t}
          /\ \A u \in DOMAIN bindings : bindings'[u] = bindings[u]
          /\ bindings'[t] = binding
      BY <3>1
    <3>4. BoundTo(binding)'
      BY <3>1, <3>2 DEF BoundTo, Catalog!Describes
    <3>5. \A c \in Actors : Resolving(actor[c])'
      BY <2>1, <2>2, <3>2, <3>3, OthersRely
    <3>6. \A u \in DOMAIN bindings' : BoundTo(bindings[u])'
      <4>1. BoundTo(bindings[t])'
        BY <3>3, <3>4 DEF BoundTo
      <4>2. \A u \in DOMAIN bindings : BoundTo(bindings[u])'
        BY <3>2, <3>3, OthersRely
      <4> QED BY <3>3, <4>1, <4>2
    <3> QED BY <3>2, <3>3, <3>5, <3>6, OthersRely DEF CatalogInv
  <2>10. ASSUME NEW a \in Actors, NEW t \in Bound, Catalog!ReadBinding(a, t) PROVE CatalogInv'
    <3> DEFINE next == [Catalog!Idle EXCEPT !.step = "readProfile", !.transaction = {t},
                                    !.binding = {bindings[t]}]
    <3>1. Resolving(next)
      BY <2>10 DEF Catalog!ReadBinding, Resolving, Catalog!Idle
    <3> QED BY <2>3, <2>10, <3>1 DEF Catalog!ReadBinding
  <2>11. ASSUME NEW a \in Actors, Catalog!ReadProfile(a) PROVE CatalogInv'
    <3> DEFINE q == actor[a]
               found == {p \in profiles : \E b \in q.binding : p.version = b.profile.version}
    <3>1. Resolving(Catalog!Idle)
      BY DEF Resolving, Catalog!Idle
    <3>2. CASE Catalog!Go(a, Catalog!Idle)
      BY <2>3, <2>11, <3>1, <3>2 DEF Catalog!ReadProfile
    <3>3. CASE /\ \E p \in found, b \in q.binding :
                    Catalog!Address(p) = b.profile /\ p.blueprint = b.blueprint
               /\ Catalog!Go(a, [q EXCEPT !.step = "readBlueprint", !.profile = found])
      <4>1. q.step = "readProfile" /\ Resolving(q)
        BY <2>11 DEF Catalog!ReadProfile, CatalogInv
      <4>2. ASSUME NEW t \in q.transaction, NEW p \in found, NEW b \in q.binding
            PROVE  p \in profiles /\ Catalog!Address(p) = b.profile
        <5>1. PICK other \in found, c \in q.binding : Catalog!Address(other) = c.profile
          BY <3>3
        <5>2. b = c
          BY <4>1 DEF Resolving
        <5>3. p.version = other.version
          BY <4>1, <5>2 DEF Resolving
        <5>4. p = other
          BY <5>3 DEF CatalogInv, Catalog!Line
        <5> QED BY <5>1, <5>2, <5>4
      <4> DEFINE next == [q EXCEPT !.step = "readBlueprint", !.profile = found]
      <4>3. /\ next.step = "readBlueprint" /\ next.profile = found
            /\ next.binding = q.binding /\ next.transaction = q.transaction
        BY <2>11 DEF Catalog!TypeOK
      <4> HIDE DEF next, found
      <4>4. Resolving(next)
        BY <4>1, <4>2, <4>3 DEF Resolving
      <4> QED BY <2>3, <2>11, <3>3, <4>4 DEF Catalog!ReadProfile, next
    <3> QED BY <2>11, <3>2, <3>3 DEF Catalog!ReadProfile
  <2>12. ASSUME NEW a \in Actors, Catalog!ReadBlueprint(a) PROVE CatalogInv'
    <3>1. Catalog!Go(a, Catalog!Idle) /\ UNCHANGED <<blueprints, profiles, bindings>>
      BY <2>12 DEF Catalog!ReadBlueprint
    <3>2. \A r \in resolved' : Answered(r)
      BY <2>12 DEF Catalog!ReadBlueprint, CatalogInv, Answered, Resolving
    <3>3. \A c \in Actors : Resolving(actor[c])'
      BY <2>1, <2>2, <3>1, OthersRely
    <3> QED BY <3>1, <3>2, <3>3, OthersRely DEF CatalogInv, Answered
  <2>13. CASE UNCHANGED Catalog!vars
    BY <2>13 DEF Catalog!vars, CatalogInv, BoundTo, Catalog!Describes, Answered, Resolving
  <2> QED
    BY <2>4, <2>5, <2>6, <2>7, <2>8, <2>9, <2>10, <2>11, <2>12, <2>13 DEF Catalog!Next
<1>3. CatalogInv => Catalog!BindingsResolve
  BY DEF CatalogInv, Catalog!BindingsResolve, BoundTo, Answered
<1> QED BY <1>1, <1>2, <1>3, CatalogTypes, PTL DEF Catalog!Spec

-----------------------------------------------------------------------------
(* Kernel beside the other parts.                                            *)

\* A behaviour of Labs is one of Kernel, which stutters while another part runs.
LEMMA KernelRuns == Spec => Kernel!Spec
<1>1. Init => Kernel!Init
  BY DEF Init
<1>2. [Next]_vars => [Kernel!Next]_(Kernel!vars)
  BY DEF Next, vars, reviewVars, kernelVars, studyVars, pixelVars, catalogVars, specVars,
         Kernel!vars
<1> QED BY <1>1, <1>2, PTL DEF Spec, Kernel!Spec

\* CommitsStand of Labs: a commit extends its base by its own patch, on evidence
\* that passed with no lock in the way, and versions have no gaps.
THEOREM LabCommitsStand == Spec => []CommitsStand
BY KernelRuns, KernelTypes, Commits, PTL DEF CommitsStand

-----------------------------------------------------------------------------
(* Catalog beside the other parts.                                           *)

\* A behaviour of Labs is one of Catalog, which stutters while another part runs.
LEMMA CatalogRuns == Spec => Catalog!Spec
<1>1. Init => Catalog!Init
  BY DEF Init
<1>2. [Next]_vars => [Catalog!Next]_(Catalog!vars)
  BY DEF Next, vars, reviewVars, kernelVars, studyVars, pixelVars, catalogVars, specVars,
         Catalog!vars
<1> QED BY <1>1, <1>2, PTL DEF Spec, Catalog!Spec

\* BindingsResolve of Labs: both catalogs are unbroken lines, and what a
\* resolution found are the requirements of its binding.
THEOREM EveryBindingResolves == Spec => []BindingsResolve
BY CatalogRuns, CatalogTypes, Resolution, PTL DEF BindingsResolve

=============================================================================
