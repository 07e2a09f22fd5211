CONSTANTS
    Groups = {g1, g2}
    NoGroup = NoGroup
    Ids = {1}
    Empty = Empty
    Levels = {dim, full}
    FullLevel = full
    Mireds = {warm}
    WarmWhite = warm
    Hues = {red}
    Red = red
    MaxGroups = 1
    MaxScenes = 2
    EventCapacity = 2
    Noise = {0, 2}
    Burst = 1
SPECIFICATION Spec
SYMMETRY Symmetry
INVARIANTS
    TypeOK
    
    
PROPERTY ImplementsBook
