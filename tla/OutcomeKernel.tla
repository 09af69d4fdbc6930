---------------------------- MODULE OutcomeKernel ----------------------------
(* The transaction lab: OutcomeTransactionService over the in-memory          *)
(* repositories, and the pages that call it. No await of a handler leaves the *)
(* process, so a handler is one step; one that throws half way keeps what it  *)
(* wrote.                                                                     *)
EXTENDS Naturals, Sequences, FiniteSets

CONSTANTS
    Assets, Transactions,
    Pages,          \* browser tabs, each with its own copy of the asset list
    Requests,       \* what is asked of a transaction: path, operation, lease
    MaxVersions     \* bound on the versions the lab is asked to create

Statuses == {"NONE", "DRAFT", "PREPARED", "READY", "EXECUTING", "VERIFYING",
             "REPAIRING", "VERIFIED", "COMMITTED", "FAILED", "ABORTED"}
Operations == {"SET_ATTRIBUTE", "TRANSFORM_ENTITY"}
Paths == {"jacket", "jacket.color", "jacketLining"}
Leases == [path: Paths, category: {"MUTABLE", "HARD_LOCK"}]
AllRequests == [path: Paths, operation: Operations, lease: Leases]
VersionIds == 0..MaxVersions
Versions ==
    [asset: Assets, number: 1..MaxVersions, state: SUBSET Transactions,
     parent: VersionIds, by: Transactions \cup {"asset", "rollback"}]

ValidTransitions ==
    [DRAFT |-> {"PREPARED", "ABORTED"}, PREPARED |-> {"READY", "ABORTED"},
     READY |-> {"EXECUTING", "ABORTED"},
     EXECUTING |-> {"VERIFYING", "FAILED", "ABORTED"},
     VERIFYING |-> {"VERIFIED", "REPAIRING", "FAILED", "ABORTED"},
     REPAIRING |-> {"EXECUTING", "FAILED", "ABORTED"},
     VERIFIED |-> {"COMMITTED", "ABORTED"}, FAILED |-> {"ABORTED"},
     COMMITTED |-> {}, ABORTED |-> {}, NONE |-> {}]

VARIABLES
    versions,   \* asset_versions, in order of creation; an id is its place
    head,       \* assets.current_version_id; 0 while the asset does not exist
    txn,        \* per transaction: status, asset, base version
    leases,     \* mutation leases, those of refused preparations too
    patch,      \* patch[t]: the semantic patch, if one was stored: {} or {patch}
    runs,       \* transactions with execution runs and evidence receipts
    verified,   \* verified[t]: the statuses of its verification runs
    commits,    \* state_commits rows
    shown       \* shown[p]: the asset heads on the page

vars == <<versions, head, txn, leases, patch, runs, verified, commits, shown>>

Init ==
    /\ versions = <<>> /\ head = [a \in Assets |-> 0]
    /\ txn \in [Transactions -> [status: {"NONE"}, asset: Assets, base: {0}]]
    /\ leases = [t \in Transactions |-> {}]
    /\ patch = [t \in Transactions |-> {}]
    /\ runs = {} /\ commits = {}
    /\ verified = [t \in Transactions |-> {}]
    /\ shown = [p \in Pages |-> [a \in Assets |-> 0]]

Status(t) == txn[t].status
Move(t, to) == txn' = [txn EXCEPT ![t].status = to]
Valid(t, to) == to \in ValidTransitions[Status(t)]

\* findLatestByAssetId: the highest version number so far.
Latest(a) == Cardinality({i \in DOMAIN versions : versions[i].asset = a})
Append1(version) ==
    /\ Len(versions) < MaxVersions
    /\ versions' = Append(versions, version)
    /\ head' = [head EXCEPT ![version.asset] = Len(versions')]

CreateAsset(a) ==
    /\ head[a] = 0
    /\ Append1([asset |-> a, number |-> 1, state |-> {}, parent |-> 0, by |-> "asset"])
    /\ UNCHANGED <<txn, leases, patch, runs, verified, commits, shown>>

\* The page's asset list is fetched again after each of its own calls; what
\* other pages did meanwhile is not on it.
Refresh(p) ==
    /\ shown' = [shown EXCEPT ![p] = head]
    /\ UNCHANGED <<versions, head, txn, leases, patch, runs, verified, commits>>

\* Nothing checks that the base version exists or is of that asset.
CreateTransaction(t, a, base) ==
    /\ Status(t) = "NONE"
    /\ txn' = [txn EXCEPT ![t] = [status |-> "DRAFT", asset |-> a, base |-> base]]
    /\ UNCHANGED <<versions, head, leases, patch, runs, verified, commits, shown>>

\* handleCreateTx bases the transaction on the head the page shows.
HandleCreateTx(p, t, a) == shown[p][a] # 0 /\ CreateTransaction(t, a, shown[p][a])

\* Preparation protects a locked path, its ancestors and its descendants;
\* verification compares plain prefixes, so a look-alike name is locked too.
Related(x, y) == x = y \/ {x, y} = {"jacket", "jacket.color"}
PrefixRelated(x, y) == Related(x, y) \/ {x, y} = {"jacket", "jacketLining"}
Locked(t) == {l.path : l \in {m \in leases[t] : m.category = "HARD_LOCK"}}

\* Intent and leases are stored first: a refused preparation leaves the leases,
\* the transaction stays DRAFT and can be prepared again.
PrepareTransaction(t, r) ==
    /\ Valid(t, "PREPARED")
    /\ leases' = [leases EXCEPT ![t] = @ \cup {r.lease}]
    /\ IF r.lease.category = "HARD_LOCK" /\ Related(r.path, r.lease.path)
       THEN UNCHANGED <<patch, txn>>
       ELSE /\ patch' = [patch EXCEPT ![t] = {[path |-> r.path, operation |-> r.operation]}]
            /\ Move(t, "PREPARED")
    /\ UNCHANGED <<versions, head, runs, verified, commits, shown>>

\* A base that does not exist throws after READY, from where only an abort leads
\* away. With a base it runs READY, EXECUTING, every patch, VERIFYING.
ExecuteTransaction(t) ==
    /\ Valid(t, "READY")
    /\ IF txn[t].base \in DOMAIN versions
       THEN runs' = runs \cup {t} /\ Move(t, "VERIFYING")
       ELSE UNCHANGED runs /\ Move(t, "READY")
    /\ UNCHANGED <<versions, head, leases, patch, verified, commits, shown>>

\* Evidence exists and names the base (as the fake executor writes it), every
\* execution succeeded, no patch touches a locked path.
ChecksPass(t) ==
    /\ t \in runs
    /\ \A q \in patch[t], locked \in Locked(t) : ~PrefixRelated(q.path, locked)

VerifyTransaction(t) ==
    LET verdict == IF ChecksPass(t) THEN "PASSED" ELSE "FAILED" IN
    /\ Valid(t, "VERIFIED")
    /\ verified' = [verified EXCEPT ![t] = @ \cup {verdict}]
    /\ Move(t, IF verdict = "PASSED" THEN "VERIFIED" ELSE "FAILED")
    /\ UNCHANGED <<versions, head, leases, patch, runs, commits, shown>>

\* TRANSFORM_ENTITY gets a value but no transform, and changes nothing.
ApplyPatch(state, t) ==
    IF \E q \in patch[t] : q.operation = "SET_ATTRIBUTE" THEN state \cup {t} ELSE state

\* Mutant: a transaction commits although the head has moved since its base.
MayCommitStale(t) ==
    /\ Status(t) = "VERIFIED" /\ verified[t] = {"PASSED"}
    /\ t \in runs /\ ~\E c \in commits : c.transaction = t

MayCommit(t) ==
    /\ Status(t) = "VERIFIED" /\ verified[t] = {"PASSED"}
    /\ t \in runs /\ ~\E c \in commits : c.transaction = t
    /\ head[txn[t].asset] = txn[t].base

\* The row is built from the asset object after its head was replaced, so its
\* previous version is the new one.
CommitTransaction(t) ==
    LET a == txn[t].asset IN
    /\ MayCommit(t)
    /\ Append1([asset |-> a, number |-> Latest(a) + 1, parent |-> head[a], by |-> t,
                state |-> ApplyPatch(versions[txn[t].base].state, t)])
    /\ commits' = commits \cup {[transaction |-> t, new |-> Len(versions'),
                                 previous |-> head'[a]]}
    /\ Move(t, "COMMITTED")
    /\ UNCHANGED <<leases, patch, runs, verified, shown>>

AbortTransaction(t) ==
    /\ Valid(t, "ABORTED") /\ Move(t, "ABORTED")
    /\ UNCHANGED <<versions, head, leases, patch, runs, verified, commits, shown>>

\* Any transaction of the asset, in any status, and any version, of any asset.
RollbackTransaction(t, target) ==
    LET a == txn[t].asset IN
    /\ Status(t) # "NONE" /\ head[a] # 0 /\ target \in DOMAIN versions
    /\ Append1([asset |-> a, number |-> Latest(a) + 1, state |-> versions[target].state,
                parent |-> head[a], by |-> "rollback"])
    /\ UNCHANGED <<txn, leases, patch, runs, verified, commits, shown>>

Next ==
    \/ \E a \in Assets : CreateAsset(a)
    \/ \E p \in Pages : Refresh(p)
    \/ \E t \in Transactions :
        \/ \E p \in Pages, a \in Assets : HandleCreateTx(p, t, a)
        \/ \E a \in Assets, base \in VersionIds : CreateTransaction(t, a, base)
        \/ \E r \in Requests : PrepareTransaction(t, r)
        \/ ExecuteTransaction(t) \/ VerifyTransaction(t)
        \/ CommitTransaction(t) \/ AbortTransaction(t)
        \/ \E target \in VersionIds : RollbackTransaction(t, target)

Spec == Init /\ [][Next]_vars

-----------------------------------------------------------------------------
(* Properties.                                                               *)

\* Every variable keeps its type.
TypeOK ==
    /\ versions \in Seq(Versions) /\ Len(versions) <= MaxVersions
    /\ head \in [Assets -> VersionIds]
    /\ txn \in [Transactions -> [status: Statuses, asset: Assets, base: VersionIds]]
    /\ leases \in [Transactions -> SUBSET Leases]
    /\ patch \in [Transactions -> SUBSET [path: Paths, operation: Operations]]
    /\ runs \subseteq Transactions
    /\ verified \in [Transactions -> SUBSET {"PASSED", "FAILED"}]
    /\ commits \subseteq [transaction: Transactions, new: VersionIds, previous: VersionIds]
    /\ shown \in [Pages -> [Assets -> VersionIds]]

\* No proof, no commit, and no lost update: the version a commit made stands on
\* the version before it, whose state it extends by its own patch, and on
\* evidence that passed with no lock of any preparation on the patched path; an
\* asset's versions are numbered without gaps, whatever was rolled back.
CommitsStand ==
    /\ \A c \in commits :
        LET new == versions[c.new]  t == c.transaction IN
        /\ Status(t) = "COMMITTED" /\ new.by = t
        /\ new.parent = txn[t].base
        /\ new.state = ApplyPatch(versions[new.parent].state, t)
        /\ t \in runs /\ verified[t] = {"PASSED"}
        /\ \A q \in patch[t], locked \in Locked(t) : ~Related(q.path, locked)
    /\ \A i \in DOMAIN versions :
        LET v == versions[i] IN
        /\ v.number = Cardinality({j \in 1..i : versions[j].asset = v.asset})
        /\ v.parent # 0 => /\ versions[v.parent].asset = v.asset
                           /\ versions[v.parent].number = v.number - 1
=============================================================================
