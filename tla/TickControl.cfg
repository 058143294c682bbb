SPECIFICATION Spec
CONSTANTS
    Tree <- ControlTree
    Nodes <- TreeNodes
    Root = "root"
    Env = "env"
    Kind <- TreeKind
    Kids <- TreeKids
    Parent <- TreeParent
    Under <- TreeUnder
    Policy <- WaitingPolicy
    SuccessThreshold <- Thresholds
    FailureThreshold <- FewFailures
    Budget <- PositiveBudget
    Outcome <- CalmOutcome
    Watching <- EveryReactive
    EnvOps = {"halt", "write"}
INVARIANTS
    TypeOK
    NoOrphan
    PassedByAll
    LeavesNothing
PROPERTIES
    HaltedWasRunning
    SettledOnce
    PolicyKept
    WriteReEvaluates
