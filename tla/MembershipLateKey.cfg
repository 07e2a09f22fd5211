CONSTANTS
    p1 = p1 p2 = p2 k1 = k1 k2 = k2 k3 = k3
    Pans <- OnePan
    ChannelOf <- OneChannel
    Beacons <- RouterBeacons
    KeyRing <- OneKey
    FirstChannel = 1
    LastChannel = 2
    Shorts = {5}
    NoKey = NoKey
    Unassigned = Unassigned
    Coordinator = 0
    EventCapacity = 4
    OutboxCapacity = 4
    MaxFailures = 3
    LightEvents = {0}
    TickFrames = {0}
    Burst = 1
    LateBound = 1
SPECIFICATION Spec
INVARIANT JoinedIsOnANetwork
