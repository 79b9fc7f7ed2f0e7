CONSTANTS
    None = None
    c1 = c1
    c2 = c2
    n1 = n1
    perms = perms
    chat = chat
    alice = alice
    root = root
    thread = thread
    a = a
    b = b
    c = c
    p = p
    Owners = {a, b}
    DataCids = {c1, c2}
    Callers = {1, 2}
    MaxCalls = 5
    TaskIds = {c1}
    TaskCallers = {a, b, c}
    Lease = 1
    MaxTime = 2
    MaxTaskCalls = 5
    Subscribers = {c}
    Emitters = {a, b}
    max_events_per_tenant = 2
    MaxEvents = 3
    limit = 1
    NoCursor = None
SPECIFICATION StorageSpec
CHECK_DEADLOCK FALSE
INVARIANTS
    StoresAgree  NobodyStuck RefCountsExact DiffComplete
    RegisteredSurvives 
