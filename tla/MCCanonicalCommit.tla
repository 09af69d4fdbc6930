------------------------- MODULE MCCanonicalCommit -------------------------
(***************************************************************************)
(* Instances of CanonicalCommit for TLC: one asset, owners alice and bob,  *)
(* and in the smaller instance carol, who is a member but not an owner.    *)
(***************************************************************************)
EXTENDS CanonicalCommit, TLC

CONSTANTS alice, bob, carol, photo

MCMembershipId == [p \in Principal |-> (alice :> 1 @@ bob :> 2 @@ carol :> 3)[p]]
MCAssetOf == [o \in Outcome |-> photo]

Symmetry == Permutations(Session) \cup Permutations(Outcome)
=============================================================================
