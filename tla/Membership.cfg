CONSTANTS
    p1 = p1 p2 = p2 k1 = k1 k2 = k2 k3 = k3
    Pans <- TwoPans
    ChannelOf <- TwoChannels
    Beacons <- ThreeBeacons
    KeyRing <- ThreeKeys
    FirstChannel = 1
    LastChannel = 2
    Shorts = {5}
    NoKey = NoKey
    Unassigned = Unassigned
    Coordinator = 0
    EventCapacity = 4
    OutboxCapacity = 4
    MaxFailures = 3
    LightEvents = {1}
    TickFrames = {0, 1}
    Burst = 2
    LateBound = 1
SPECIFICATION FairSpec
INVARIANTS
    TypeOK
    MemberOfItsNetwork
    
    
PROPERTY SearchEnds
