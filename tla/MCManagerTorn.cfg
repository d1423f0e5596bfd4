CONSTANTS
    c1 = c1
    m1 = m1
    m2 = m2
    m3 = m3
    p1 = p1
    p2 = p2
    p3 = p3
    junk = junk
    None = None
    Torn = Torn
    Callers = {c1}
    Modules <- MCModules
    Payloads <- MCPayloads
    CodeOf <- MCCodeOf
    Containers <- MCFixedContainers
    Images <- MCFixedImages
    Offsets = {1, 2, 3, 4, 5, 6, 7}
    SLOTS = 1
    Capacity <- MCCapacity
    ExecAddr <- MCExecAddr
    Faults = {"fail"}
    MaxGen = 3
SPECIFICATION Spec
INVARIANT ResidentIntact
