CONSTANTS
    c1 = c1
    m1 = m1
    m2 = m2
    m3 = m3
    p1 = p1
    p2 = p2
    p3 = p3
    junk = junk
    None = None
    Torn = Torn
    Callers = {c1}
    Modules <- MCModules
    Payloads <- MCPayloads
    CodeOf <- MCCodeOf
    Containers <- MCRewrittenContainers
    Images <- MCRewrittenImages
    Offsets = {1}
    SLOTS = 2
    Capacity <- MCCapacity
    ExecAddr <- MCExecAddr
    Faults = {"fail", "drop", "write"}
    MaxGen = 3
SPECIFICATION Spec
INVARIANT TypeOK
INVARIANT IInv
INVARIANT UniqueResidency
INVARIANT GenerationOrder
INVARIANT ResidentVerified
INVARIANT CallRunsOwnCode
INVARIANT LastUsedSpared
PROPERTY PinnedModulesStay
