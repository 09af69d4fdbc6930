\* Two gateways on one authority, one of them with an operation the patch does not bind.
SPECIFICATION FairSpec
CONSTANTS
  a1 = a1
  a2 = a2
  p1 = p1
  p2 = p2
  w1 = w1
  w2 = w2
  Worker = {w1, w2}
  Authority = {a1}
  Principal = {p1}
  PrincipalOf <- MCOnePrincipalOf
  AuthorityUntil <- MCOneAuthorityUntil
  LeaseSeconds = 1
  Operation = {edit, other}
  BoundOperation = edit
  MaxTime = 1
  NoAuthority = NoAuthority
  NoOperation = NoOperation
PROPERTIES
  EveryCallEnds
