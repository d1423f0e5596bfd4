CONSTANTS
    c1 = c1
    c2 = c2
    m1 = m1
    m2 = m2
    m3 = m3
    p1 = p1
    p2 = p2
    p3 = p3
    junk = junk
    None = None
    Torn = Torn
    Payloads <- MCPayloads
    CodeOf <- MCCodeOf
    Containers <- MCSharedContainers
    Offsets = {1}
    Capacity <- MCCapacity
    ExecAddr <- MCExecAddr
    Callers = {c1, c2}
    Modules = {m1, m2, m3}
    Images <- MCSharedImages
    SLOTS = 1
    Faults = {"fail", "drop", "write"}
    MaxGen = 4
    Registry <- MCSharedRegistry
    MaxRequests = 1
SPECIFICATION EngineSpec
INVARIANT EngineTypeOK
INVARIANT LockCoversLoad
PROPERTY ManagerSpec
PROPERTY EveryRequestAnswered
