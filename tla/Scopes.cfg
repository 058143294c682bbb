SPECIFICATION Spec
CONSTANTS
    root = root
    mid = mid
    leaf = leaf
    side = side
    x = x
    old = old
    met = met
    Scopes = {root, mid, leaf, side}
    Keys = {x}
    Values = {1, 2}
    Outer <- DeepOuter
    Remap <- DeepRemap
    Subs = {old, met}
    Where <- RootWhere
    Weak = {met}
    Looks <- SideLooks
    Threads = {t1, t2}
    None = None
INVARIANTS
    CacheIsTable
    NobodyMissed
    NoDeadlock
PROPERTIES
    ActsAtOnce
SYMMETRY Alike
