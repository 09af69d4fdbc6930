\* The order of the comparison and the human intent.
SPECIFICATION Spec
CONSTANTS
  e1 = e1
  e2 = e2
  CaseCount = 2
  Evaluators = {e1}
  ApiClients = {e2}
  MaxAborts = 0
INVARIANTS
  CompilationAfterIntent
