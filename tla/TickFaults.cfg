SPECIFICATION Spec
CONSTANTS
    Tree <- FaultTree
    Nodes <- TreeNodes
    Root = "root"
    Env = "env"
    Kind <- TreeKind
    Kids <- TreeKids
    Parent <- TreeParent
    Under <- TreeUnder
    Policy <- OnePolicy
    SuccessThreshold <- Thresholds
    FailureThreshold <- FewFailures
    Budget <- AnyBudget
    Outcome <- RaisingOutcome
    Watching <- EveryReactive
    EnvOps = {"halt", "reset", "write"}
INVARIANTS
    GoalsTracked
    NoLeakedSubscription
PROPERTIES
    GuardsEveryTick
