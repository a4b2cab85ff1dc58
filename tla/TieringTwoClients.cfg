SPECIFICATION Spec
CONSTANTS
    c1 = c1
    c2 = c2
    k1 = k1
    k2 = k2
    k3 = k3
    d1 = d1
    d2 = d2
    d3 = d3
    None = None
    Clients = {c1, c2}
    Keys = {k1, k2}
    Slots = {d1, d2}
    Operations = {"PUT", "GET", "EXISTS", "COMMIT_BARRIER", "REMOVE", "MOVE_TO_HOST"}
    Tokens = {1, 2}
    NumChunks = 2
    DeviceBlocks = 3
    HighWatermark = 2
    GenerationSpan = 3
    MaxPuts = 3
INVARIANTS
    DurableEntriesAreBacked
PROPERTIES
    BarrierMeansDurable
    ImplementsKV
