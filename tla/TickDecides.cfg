SPECIFICATION FairSpec
CONSTANTS
    Tree <- LiveTree
    Nodes <- TreeNodes
    Root = "root"
    Env = "env"
    Kind <- TreeKind
    Kids <- TreeKids
    Parent <- TreeParent
    Under <- TreeUnder
    Policy <- NoPolicy
    SuccessThreshold <- Thresholds
    FailureThreshold <- FewFailures
    Budget <- PositiveBudget
    Outcome <- CalmOutcome
    Watching <- EveryReactive
    EnvOps = {}
PROPERTIES
    Decides
