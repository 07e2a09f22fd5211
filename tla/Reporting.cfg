CONSTANTS
    Settings = {dim, bright}
    Other = other
    Values = {dim, bright, other}
    Nothing = Nothing
    Capacity = 3
    Intervals <- MCIntervals
    Wrap = 5
    MaxElapsed = 1
    Attempts = 2
    Failures = 2
    Burst = 3
SPECIFICATION FairSpec
INVARIANTS
    TypeOK
    ReportedOrLost
PROPERTIES
    ImplementsFifo
    ReportsGoOut
