CONSTANTS
    None = None
    Controllers = {a, b}
    Requests <- MCRequests
    MaxStops = 3
SPECIFICATION FairSpec
INVARIANTS CommandsAreWitnessed RecoveryTellsTruth QuarantineOnlyInTheGap
    ProvisionedAsInspected
PROPERTIES FinalizationEnds
CHECK_DEADLOCK FALSE
