CONSTANTS
    s1 = s1
    s2 = s2
    id1 = id1
    Nil = Nil
    Subs = {s1, s2}
    Ids = {id1}
    IdOf <- MCIdOf
    ReadLimit = 1
    IdleRedrain = TRUE
    Scenarios <- MCSafety
    MaxFaults = 1
    MaxPosition = 3
    MaxEpoch = 1
SPECIFICATION MCSpec
INVARIANTS
    StreamExact SubscriptionsServed
PROPERTIES
    QuietAfterClose
CHECK_DEADLOCK FALSE
