SPECIFICATION FairSpec
CONSTANTS
    Tasks = {t1, t2}
    Workers = 1
    Leaves = {a, c}
    Pooled = {a}
    Stubborn = {a}
    Threads = {h1}
    Raw = {"SUCCESS", "NoStatus"}
    None = None
INVARIANTS
    NothingLeftBehind
PROPERTIES
    WaitAllTells
    
    OwnAnswer
    Settles
