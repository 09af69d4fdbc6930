---------------------------- MODULE CanonicalHead ----------------------------
(***************************************************************************)
(* What a canonical commit promises, without the sessions and locks that   *)
(* bring it about: every asset is one line of versions, and an outcome     *)
(* becomes a version of it at most once, directly on top of the version    *)
(* its proof was made against, and only once a human has accepted it.      *)
(***************************************************************************)
EXTENDS Naturals

CONSTANTS Outcome, Asset, AssetOf

VARIABLES
  length,     \* length[a]: number of versions in a's line, the last is the head
  basis,      \* basis[o]: the version o's proof was made against, 0 without a proof
  accepted,   \* outcomes a human has accepted
  place       \* place[o]: the version o became, 0 before that

vars == <<length, basis, accepted, place>>

Init ==
  /\ length = [a \in Asset |-> 1]
  /\ basis = [o \in Outcome |-> 0]
  /\ accepted = {}
  /\ place = [o \in Outcome |-> 0]

Prove(o) ==
  /\ basis[o] = 0
  /\ \E n \in 1 .. length[AssetOf[o]] : basis' = [basis EXCEPT ![o] = n]
  /\ UNCHANGED <<length, accepted, place>>

Accept(o) ==
  /\ accepted' = accepted \cup {o}
  /\ UNCHANGED <<length, basis, place>>

Promote(o) ==
  LET a == AssetOf[o] IN
  /\ o \in accepted
  /\ place[o] = 0
  /\ basis[o] = length[a]
  /\ length' = [length EXCEPT ![a] = length[a] + 1]
  /\ place' = [place EXCEPT ![o] = length[a] + 1]
  /\ UNCHANGED <<basis, accepted>>

Next == \E o \in Outcome : Prove(o) \/ Accept(o) \/ Promote(o)

Spec == Init /\ [][Next]_vars
=============================================================================
