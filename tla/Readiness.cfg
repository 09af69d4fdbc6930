SPECIFICATION Spec
CONSTANTS
  Principals = {p1}
  Requirements <- MCRequirements
  Signals <- MCSignals
  MaxTime = 2
  MaxCommits = 2
INVARIANTS
  TypeOK
  CommittedReadinessHolds
  CurrentWasTrue
PROPERTIES
  ConsequencesAreFresh
