SPECIFICATION Spec
CONSTANTS
    Clients = {1, 2, 3}
    ChipA = ChipA
    ChipB = ChipB
    Chips = {ChipA, ChipB}
    Chip <- MCChip
    Threads = {t1, t2}
    Parallel <- MCParallel
    RingSlots = 2
    CursorModulus = 4
    Generations = 2
    InitialGeneration = 2
    Doubtful = {1}
    MaxAttempts <- FirstRetries
    MaxBatch <- MCBatch
    MaxCalls <- MCCalls
    None = None
SYMMETRY Symmetry
INVARIANTS
    TypeOK
    SessionsAgree
    CleanCloseOutlivesReplays
    NoWaitCycle
CHECK_DEADLOCK FALSE
