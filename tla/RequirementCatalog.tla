-------------------------- MODULE RequirementCatalog --------------------------
(* BUILD 002 C0: the catalog of blueprints and requirement profiles and the   *)
(* bindings of transactions to them. Rows are inserted by the database in one *)
(* step and never change; a publication around it, and a resolution, are      *)
(* several awaits. Readiness takes for granted what is shown here: that a     *)
(* binding is resolved to the same requirements each time.                    *)
EXTENDS Naturals, FiniteSets

CONSTANTS
    Actors,         \* server requests
    Blueprints,     \* definitions somebody may publish
    Profiles,
    Transactions

\* A definition is known by its canonical hash; `previous` is a hash or NoHash.
NoHash == "null"
Address(row) == [version |-> row.version, hash |-> row.hash]
Bindings == [blueprint: {Address(b) : b \in Blueprints}, profile: {Address(p) : p \in Profiles}]

VARIABLES
    blueprints, profiles,   \* published rows of one blueprint id and one profile id
    bindings,               \* the binding of each bound transaction
    actor,                  \* what each request is doing
    resolved                \* what resolutions have answered

vars == <<blueprints, profiles, bindings, actor, resolved>>

Steps == {"idle", "profile", "bind", "readProfile", "readBlueprint"}
Idle == [step |-> "idle", definition |-> {}, transaction |-> {}, binding |-> {}, profile |-> {}]
Init ==
    /\ blueprints = {} /\ profiles = {} /\ bindings = [t \in {} |-> t]
    /\ actor = [a \in Actors |-> Idle] /\ resolved = {}

Go(a, next) == actor' = [actor EXCEPT ![a] = next]

\* A read or a check fails, or the process ends: what is published stays, and a
\* retry of it is refused.
Throw(a) ==
    /\ actor[a].step # "idle" /\ Go(a, Idle)
    /\ UNCHANGED <<blueprints, profiles, bindings, resolved>>

-----------------------------------------------------------------------------

\* Mutant: publishing a version again replaces it.
ExtendsOrReplaces(row, rows) ==
    IF row.version = 1 THEN row.previous = NoHash
    ELSE \E other \in rows : other.version + 1 = row.version /\ other.hash = row.previous

\* The lineage trigger: version 1 has no previous version, a later one names the
\* hash of the row before it. The primary key is (id, version).
Extends(row, rows) ==
    /\ ~\E other \in rows : other.version = row.version
    /\ IF row.version = 1 THEN row.previous = NoHash
       ELSE \E other \in rows : other.version + 1 = row.version /\ other.hash = row.previous

PublishBlueprint(a, b) ==
    /\ actor[a].step = "idle" /\ Extends(b, blueprints)
    /\ blueprints' = {other \in blueprints : other.version # b.version} \cup {b}
    /\ UNCHANGED <<profiles, bindings, actor, resolved>>

\* The repository reads the blueprint before it asks for the row.
Describes(profile, rows) == \E b \in rows : profile.blueprint = Address(b)

BeginProfile(a, p) ==
    /\ actor[a].step = "idle" /\ Describes(p, blueprints)
    /\ Go(a, [Idle EXCEPT !.step = "profile", !.definition = {p}])
    /\ UNCHANGED <<blueprints, profiles, bindings, resolved>>

PublishProfile(a) ==
    /\ actor[a].step = "profile"
    /\ \E p \in actor[a].definition :
        /\ Describes(p, blueprints) /\ Extends(p, profiles)
        /\ profiles' = {other \in profiles : other.version # p.version} \cup {p}
    /\ Go(a, Idle)
    /\ UNCHANGED <<blueprints, bindings, resolved>>

\* createOutcomeTransactionRequirementBinding of a profile and its blueprint; the
\* transaction, the profile and the blueprint are read again.
BeginBinding(a, t, p) ==
    /\ actor[a].step = "idle" /\ p \in profiles /\ Describes(p, blueprints)
    /\ Go(a, [Idle EXCEPT !.step = "bind", !.transaction = {t},
                          !.binding = {[blueprint |-> p.blueprint, profile |-> Address(p)]}])
    /\ UNCHANGED <<blueprints, profiles, bindings, resolved>>

\* The foreign keys name exact rows, and the primary key is the transaction.
Bind(a) ==
    /\ actor[a].step = "bind"
    /\ \E t \in actor[a].transaction, binding \in actor[a].binding :
        /\ t \notin DOMAIN bindings
        /\ \E p \in profiles : Address(p) = binding.profile /\ p.blueprint = binding.blueprint
        /\ \E b \in blueprints : Address(b) = binding.blueprint
        /\ bindings' = [u \in DOMAIN bindings \cup {t} |-> IF u = t THEN binding ELSE bindings[u]]
    /\ Go(a, Idle)
    /\ UNCHANGED <<blueprints, profiles, resolved>>

-----------------------------------------------------------------------------

\* OutcomeRequirementAuthorityResolver: the binding, then the profile by its id
\* and version, then the blueprint, each checked against the binding.
ReadBinding(a, t) ==
    /\ actor[a].step = "idle" /\ t \in DOMAIN bindings
    /\ Go(a, [Idle EXCEPT !.step = "readProfile", !.transaction = {t}, !.binding = {bindings[t]}])
    /\ UNCHANGED <<blueprints, profiles, bindings, resolved>>

ReadProfile(a) ==
    LET q == actor[a] IN
    /\ q.step = "readProfile"
    /\ LET found == {p \in profiles : \E b \in q.binding : p.version = b.profile.version} IN
       IF \E p \in found, b \in q.binding : Address(p) = b.profile /\ p.blueprint = b.blueprint
       THEN Go(a, [q EXCEPT !.step = "readBlueprint", !.profile = found])
       ELSE Go(a, Idle)
    /\ UNCHANGED <<blueprints, profiles, bindings, resolved>>

\* compileSignalRequirements: the requirements are those of the profile.
ReadBlueprint(a) ==
    LET q == actor[a] IN
    /\ q.step = "readBlueprint"
    /\ IF \E b \in blueprints, binding \in q.binding : Address(b) = binding.blueprint
       THEN resolved' = resolved \cup {<<t, p>> : t \in q.transaction, p \in q.profile}
       ELSE UNCHANGED resolved
    /\ Go(a, Idle)
    /\ UNCHANGED <<blueprints, profiles, bindings>>

Next ==
    \E a \in Actors :
        \/ Throw(a) \/ PublishProfile(a) \/ Bind(a) \/ ReadProfile(a) \/ ReadBlueprint(a)
        \/ \E b \in Blueprints : PublishBlueprint(a, b)
        \/ \E p \in Profiles : BeginProfile(a, p)
        \/ \E t \in Transactions : ReadBinding(a, t) \/ \E p \in profiles : BeginBinding(a, t, p)

Spec == Init /\ [][Next]_vars

-----------------------------------------------------------------------------

\* Every variable keeps its type.
TypeOK ==
    /\ blueprints \subseteq Blueprints /\ profiles \subseteq Profiles
    /\ DOMAIN bindings \subseteq Transactions
    /\ bindings \in [DOMAIN bindings -> Bindings]
    /\ actor \in [Actors -> [step: Steps, definition: SUBSET Profiles, binding: SUBSET Bindings,
                             transaction: SUBSET Transactions, profile: SUBSET Profiles]]
    /\ resolved \subseteq Transactions \X Profiles

\* An unbroken line: one row per version, and each version has the one before it,
\* by the hash it names.
Line(rows) ==
    \A row \in rows :
        /\ \A other \in rows : other.version = row.version => other = row
        /\ row.version # 1 =>
              \E other \in rows : other.version + 1 = row.version /\ other.hash = row.previous

\* Everything of one tenant's readiness hangs together: both catalogs are
\* unbroken lines, every binding names a published profile and the blueprint that
\* profile describes, and two resolutions of a transaction, whenever they were
\* made and whatever was published meanwhile, found the same requirements
\* (catalog, bindings, requirement authority).
BindingsResolve ==
    /\ Line(blueprints) /\ Line(profiles)
    /\ \A t \in DOMAIN bindings :
          \E p \in profiles : /\ Address(p) = bindings[t].profile
                              /\ p.blueprint = bindings[t].blueprint
                              /\ Describes(p, blueprints)
    /\ \A r \in resolved : /\ r[1] \in DOMAIN bindings /\ r[2] \in profiles
                           /\ Address(r[2]) = bindings[r[1]].profile
=============================================================================
