SPECIFICATION Spec
CONSTANTS
    seq = seq
    rfb = rfb
    inv = inv
    act = act
    alt = alt
    Nodes = {seq, rfb, inv, act, alt}
    Kind <- MCKind
    Supplied = {seq, rfb, inv, act}
    Prepared <- MCPrepared
    Hole = Hole
    None = None
    Indices = {0, 1}
    MaxPending = 2
    MaxEdits = 2
PROPERTIES
    EveryChildTicked
