\* Two sessions race for one outcome; carol is a member without the OWNER role.
SPECIFICATION FairSpec
CONSTANTS
  alice = alice
  bob = bob
  carol = carol
  photo = photo
  Asset = {photo}
  AssetOf <- MCAssetOf
  MembershipId <- MCMembershipId
  NoOne = NoOne
  NoOutcome = NoOutcome
  Session = {s1, s2}
  Owner = {alice, bob}
  Principal = {alice, bob, carol}
  Outcome = {o1}
PROPERTIES
  EveryCallAnswered
