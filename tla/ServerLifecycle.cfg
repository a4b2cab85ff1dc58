SPECIFICATION Spec
CONSTANTS
    Servers = {s1, s2}
    OnlyCore = core
    Cores <- MCCores
    CoreOf <- MCCoreOf
    Callers = {c1, c2}
    None = none
    MaxPuts = 1
    MaxCloses = 2
INVARIANTS
    TypeOK
    FreedMeansUnreachable
    OneTenantPerCore
    WorkerHasRuntime
    ClosedMeansDrainedAndFree
PROPERTY
    QuarantineIsForever
SYMMETRY Symmetry
CHECK_DEADLOCK FALSE
