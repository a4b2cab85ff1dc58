SPECIFICATION Spec
CONSTANTS
    c1 = c1
    c2 = c2
    k1 = k1
    k2 = k2
    k3 = k3
    d1 = d1
    d2 = d2
    d3 = d3
    None = None
    Clients = {c1}
    Keys = {k1, k2}
    Slots = {d1, d2}
    Operations = {"PUT", "GET", "COMMIT_BARRIER", "MOVE_TO_HOST"}
    Tokens = {1}
    NumChunks = 2
    DeviceBlocks = 2
    HighWatermark = 2
    GenerationSpan = 3
    MaxPuts = 2
PROPERTIES
    SlotReusedOnlyWhenDrained
