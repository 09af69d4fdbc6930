\* Feedback that arrives between the wrapper's read and its tenant lock.
SPECIFICATION Spec
CONSTANTS
  alice = alice
  bob = bob
  carol = carol
  photo = photo
  Asset = {photo}
  AssetOf <- MCAssetOf
  MembershipId <- MCMembershipId
  NoOne = NoOne
  NoOutcome = NoOutcome
  Session = {s1, s2}
  Owner = {alice, bob}
  Principal = {alice, bob}
  Outcome = {o1}
PROPERTIES
  CommitUnderAcceptingAuthority
