SPECIFICATION Spec
CONSTANTS
    c1 = c1
    c2 = c2
    Clients <- Both
    OtsVersion <- Mixed
    MaxSends = 2
    MaxOps = 2
    MaxPositions = 6
    None = None
INVARIANTS AtMostTwoLogins EffectOnce NothingStranded
PROPERTIES SpentStaysSpent VersionKept
CHECK_DEADLOCK FALSE
