SPECIFICATION Spec
CONSTANTS
  Published = {o1}
  People = {e1, e2}
  Assets = {a1}
  Transactions = {t1, t2}
  Pages = {g1}
  MaxVersions = 3
  Evaluators = {p1, p2}
  Experiments = {"FAILED", "LARGE"}
  Target = 1
  Width = 5
  Greys = {100, 200}
  SourceGreys = {98}
  Actors = {r1, r2}
  Bound = {t1}
  MaxSpecs = 2
  Requests <- MCRequests
  Scores <- MCScores
  Choices <- MCChoices
  Geometries <- MCGeometries
  Blueprints <- MCBlueprints
  Profiles <- MCProfiles
  Variables <- MCVariables
  Conditionals <- MCConditionals
  Policy <- MCPolicy
  Inputs <- MCInputs
SYMMETRY Symmetry
INVARIANTS
  HumanRecordsAgree
  CommitsStand
  StudyIsBlind
  PreservationKept
  BindingsResolve
  AuthorizationEarned
CHECK_DEADLOCK FALSE
