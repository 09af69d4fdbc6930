\* Two gateways, two principals with one authority each, one of which expires early.
SPECIFICATION Spec
CONSTANTS
  a1 = a1
  a2 = a2
  p1 = p1
  p2 = p2
  w1 = w1
  w2 = w2
  Worker = {w1, w2}
  Authority = {a1, a2}
  Principal = {p1, p2}
  PrincipalOf <- MCPrincipalOf
  AuthorityUntil <- MCAuthorityUntil
  LeaseSeconds = 2
  Operation = {edit}
  BoundOperation = edit
  MaxTime = 2
  NoAuthority = NoAuthority
  NoOperation = NoOperation
SYMMETRY Symmetric
INVARIANTS
  TypeOK
  OneAttemptPerLease
  ExactLineage
  AtMostOneProviderCall
PROPERTIES
  AdmitUnderCurrentAuthority
  LeaseNeverRenewed
  ImplementsAdmissionGate
