SPECIFICATION FairSpec
CONSTANTS
    lent = lent
    inner = inner
    Bridges = {lent, inner}
    Owned = {inner}
    Tasks = {t1, t2}
    Raw = {"SUCCESS"}
    Resumes = TRUE
    Leaves = {n}
    Pins = {inner}
    Tickers = {lent, None}
    Swaps = FALSE
    None = None
INVARIANTS
    BridgeCounts
    NothingUnseen
    OneCopy
PROPERTIES
    OwnCoroutine
    CoroSettles
CHECK_DEADLOCK FALSE
