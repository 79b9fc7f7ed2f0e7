CONSTANTS
    c1 = c1
    c2 = c2
    n1 = n1
    perms = perms
    chat = chat
    alice = alice
    Absent = Absent
    None = None
    Tenants = {alice}
    FeedCids = {c1, c2}
    OtherCids = {n1}
    Protocols <- MCProtocols
    Permissions = perms
    TagProtocol <- MCTagProtocol
    Indexes <- MCIndexes
    MaxPosition = 4
    MaxEpoch = 1
    Reader = alice
    MatchingIndexes <- MCMatching
    Calls = {1, 2}
    Records <- MCRecordIds
    Parent <- MCParent
    SquashRecords <- Family
    Messages <- MCMessages
    Requests <- MCRequests
    LargeData <- MCLargeData
    MaxRequests = 3
    MaxFaults = 0
SPECIFICATION CoUpdateSpec
INVARIANTS
    InitialKept
CHECK_DEADLOCK FALSE
