CONSTANTS
    Recoverers = {r1}
    Plans <- MCPlans
    MaxAborts = 1
    NoRun = NoRun
    NoOutcome = NoOutcome
SPECIFICATION FairSpec
INVARIANTS
    TypeOK
    OutcomeComplete
    DeliveredOnLadder
PROPERTIES
    LegalTransitions
    OutcomeIsFinal
    RedriveCompletes
CHECK_DEADLOCK FALSE
