SPECIFICATION Spec
CONSTANTS
    Slots <- MCSlots
    Units <- MCUnits
    Chunks = 3
    Banks = 2
    StageBlock = 2
    Span = 8
    InitialCounter = 7
    MaxPuts = 2
    MaxServes = 1
    MaxOps = 1
    MaxCloses = 1
    None = None
INVARIANTS
    TypeOK
    PoolAccounted
    
    DrainCoversIssuedPuts
    
    MemoryOutlivesUsers
    TeardownNeverStuck
CHECK_DEADLOCK FALSE
