CONSTANTS
    s1 = s1
    s2 = s2
    id1 = id1
    Nil = Nil
    Subs = {s1}
    Ids = {id1}
    IdOf <- MCIdOf
    ReadLimit = 1
    IdleRedrain = TRUE
    Scenarios <- MCLiveness
    MaxFaults = 1
    MaxPosition = 1
    MaxEpoch = 1
SPECIFICATION MCFairSpec
PROPERTIES
    EventuallyDelivered
    CallsReturn
CHECK_DEADLOCK FALSE
