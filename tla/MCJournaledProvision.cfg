CONSTANTS
    None = None
    Controllers = {a, b}
    Requests <- MCRequests
    MaxFailures = 2
SPECIFICATION Spec
INVARIANTS HistoryReplays AckedSurvives
PROPERTIES ImplementsCommandOnce
CHECK_DEADLOCK FALSE
