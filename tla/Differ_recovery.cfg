SPECIFICATION Spec
CONSTANTS
    v1 = v1
    v2 = v2
    Features = {f1}
    Values = {v1, v2}
    Queries <- SmallQueries
    Codes = {cycle}
    None = none
    MaxChanges = 3
CHECK_DEADLOCK FALSE
INVARIANT RecoveryIsQuiet
