SPECIFICATION FileSpec
CONSTANTS
    Instances = {i1, i2}
    Keys = {k1, k2}
    Values = {v1}
    Absent = Absent
    MaxDeaths = 2
INVARIANTS
    FileTypeOK
    AcknowledgedSurvives
PROPERTY ImplementsDurable
CHECK_DEADLOCK FALSE
