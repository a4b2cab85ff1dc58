SPECIFICATION FairSpec
CONSTANTS
    Servers = {s1}
    OnlyCore = core
    Cores <- MCCores
    CoreOf <- MCCoreOf
    Callers = {c1, c2}
    None = none
    MaxPuts = 2
    MaxCloses = 2
INVARIANT
    ClosedMeansDrainedAndFree
PROPERTY
    EveryCallReturns
CHECK_DEADLOCK FALSE
