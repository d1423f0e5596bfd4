CONSTANTS
    Images <- MCImages
    Updates <- MCUpdates
    Bases = {0, 64}
    Requests <- MCRequests
    Strays <- MCStrays
    AddressSpace = 256
    AssetCountSpace = 4
    Faults = {"read", "drop"}
    None = None
    Unknown = Unknown
SPECIFICATION FairSpec
INVARIANT TypeOK
INVARIANT ReadsStayInImage
INVARIANT WholeReadsAligned
PROPERTY BufferRespected
PROPERTY ReaderImplementsStore
PROPERTY RequestEnds
