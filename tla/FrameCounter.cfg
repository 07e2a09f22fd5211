CONSTANTS
    Margin = 3
    OutboxCapacity = 4
    EventCapacity = 4
    RequestKeepalive = TRUE
    ParentsFail = TRUE
    CutStages = {"receive", "transmit", "events"}
    Burst = 2
    CounterBound = 9
    UseBound = 2
SPECIFICATION Spec
INVARIANTS
    TypeOK
    InOrder
    
    
