CONSTANTS
    BLOCK_SIZE = 2
    NUM_BLOCKS = 2
    AddressSpace = 6
    MaxLen = 4
    Values = {"x", "y"}
    Garbled = Garbled
    Faults = {"read", "write"}
    None = None
SPECIFICATION Spec
INVARIANT TypeOK
INVARIANT CacheCoherent
INVARIANT ReadReturnsStored
INVARIANT WriteLands
INVARIANT FittingRequestAccepted
PROPERTY DoubtContained
