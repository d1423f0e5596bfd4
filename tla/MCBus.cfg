CONSTANTS
    manager = manager
    noodle = noodle
    Clients = {manager, noodle}
    CAPACITY = 6
    ERASE_SIZE = 2
    View <- MCView
    Bits = {"b0"}
    AddressSpace = 7
    MaxLen = 2
    MaxRequests = 2
    Faults = {"drop"}
    None = None
SPECIFICATION Spec
INVARIANT TypeOK
INVARIANT ReadIsSnapshot
INVARIANT BusHeldWhileActive
PROPERTY PartitionIsolation
PROPERTY EveryOperationEnds
CHECK_DEADLOCK FALSE
