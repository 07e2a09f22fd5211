CONSTANTS
    Margin = 3
    OutboxCapacity = 4
    EventCapacity = 4
    RequestKeepalive = TRUE
    ParentsFail = TRUE
    CutStages = {"receive"}
    Burst = 1
    CounterBound = 10
    UseBound = 2
SPECIFICATION Spec
INVARIANT NoReplay
