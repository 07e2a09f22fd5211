CONSTANTS
    s1 = s1 s2 = s2
    Sources = {s1, s2}
    Counters = {0, 1, 2, 3, 4}
    Size = 2
    Never = Never
    Pairs <- SourcePairs
    DuplicateSize = 2
    Vacant = Vacant
    Modulus = 4
    Elsewhere = {0}
    Report = Report
    OutboxCapacity = 2
    Requests <- TwoAndOne
    CounterBound = 4
    Troubles = 1
SPECIFICATION Spec
INVARIANTS
    TypeOK
    NotTwiceInAWindow
    
    NothingLostEarly
PROPERTIES
    ImplementsGuard
    ImplementsWindow
    AnsweredInTheEnd
