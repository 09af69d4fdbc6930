\* An evaluator, an API client that asks for anything, and one request that dies.
SPECIFICATION FairSpec
CONSTANTS
  e1 = e1
  e2 = e2
  CaseCount = 2
  Evaluators = {e1}
  ApiClients = {e2}
  MaxAborts = 1
INVARIANTS
  TypeOK
  IntentBeforeDisclosure
  RatingsAreSequential
  RevealAfterLastJudgment
  ViewsAreConsistent
PROPERTIES
  SessionCompletes
