SPECIFICATION FairSpec
CONSTANTS
    Nodes = {"root", "child", "newRoot", "new"}
    Planted <- RootAndChild
    Depth <- Depths
    Brings <- Subtrees
    Bearing = {"root", "newRoot"}
    MaxMods = 1
    Loops = {L1, L2}
    User = user
    OwnPools = {p1, p2}
    GivenPools = {given}
    None = None
    LongTicks = FALSE
    Hasty = FALSE
INVARIANTS
    OneInTheNodes
    PoolIsAlive
    NoPoolLeaks
PROPERTIES
    AllClosed
    KeepsLifecycle
    StopReturns
