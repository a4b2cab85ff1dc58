SPECIFICATION Spec
CONSTANTS
    PoolUnits = 6
    MaxValueUnits = 3
    Slots = {s1, s2, s3}
    NoSlot = NoSlot
    GenerationSpan = 3
CHECK_DEADLOCK FALSE
INVARIANTS
    TypeOK
    FreeExtentsNeverTouch
    NoUnitHasTwoOwners
    NoUnitIsLost
    MetadataNamesHeldExtent
    UnitsInUseAreLeased
PROPERTY ImplementsOwnership
