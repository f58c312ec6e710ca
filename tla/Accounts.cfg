SPECIFICATION SubscribersSpec
CONSTANTS
    all = all
    baseline = baseline
    Users = {u1, u2}
    Targets = {s1, s2, s3}
    SearchIds = {s1, s2, s3}
    Globals = {all, baseline}
    Blanks = {all}
    Inputs <- SmallInputs
    Sessions = {r1, r2}
    None = none
    MaxOwned = 2
    MaxBookmarks = 1
    MaxDepth = 2
    ChannelIds = {c1, c2}
    SubscriptionIds = {d1, d2}
    Options = {o1, o2}
    Addresses = {a1}
    MaxChannels = 1
    MaxSubscriptions = 1
    Aborts = TRUE
CHECK_DEADLOCK FALSE
CONSTRAINT OnePartInUse
SYMMETRY Symmetry
VIEW View
INVARIANTS
    SubscribersTypeOK
    OwnersFindTheirSearches
    ExpansionIsBoundedReachability
    SubscriptionsAreSound
    UserLimitsHold
PROPERTIES
    EditsKeepOthersExpandable
    RSSChannelIsFoundOrCreated
