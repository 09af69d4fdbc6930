\* Two sessions commit two outcomes of one asset under two owners.
SPECIFICATION Spec
CONSTANTS
  alice = alice
  bob = bob
  carol = carol
  photo = photo
  Asset = {photo}
  AssetOf <- MCAssetOf
  MembershipId <- MCMembershipId
  NoOne = NoOne
  NoOutcome = NoOutcome
  Session = {s1, s2}
  Owner = {alice, bob}
  Principal = {alice, bob}
  Outcome = {o1, o2}
SYMMETRY Symmetry
INVARIANTS
  TypeOK
  LinearHistory
  CommitLineage
  FinishedIffCommitted
  CommitIsProvenAndAccepted
PROPERTIES
  CommitUnderCurrentAuthority
  ReplayIsIdempotent
  AnswerIsTrue
  ImplementsCanonicalHead
