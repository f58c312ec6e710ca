SPECIFICATION Spec
CONSTANTS
    Features = {f1, f2, f3}
    early = early
    promoted = promoted
    revised = revised
    Values = {early, promoted, revised}
    Details <- SmallDetails
    Queries <- SmallQueries
    Codes = {cycle}
    None = none
    MaxChanges = 3
    Browsers = {"chrome", "chrome_android"}
    Pairs <- ChromePair
    Releases = {"r1", "r2"}
    MaxHighlights = 2
CHECK_DEADLOCK FALSE
SYMMETRY Symmetry
INVARIANTS
    DiffExplainsChange
    OneStoryPerFeature
    VerdictsAreRecorded
    SilenceMeansNoChange
    ReadersAgree
    ChangesReachSubscribers
    DigestTellsBrowsersApart
