CONSTANTS
    SECTORS = 2
    SectorIds = {0, 1, 2}
    Bases = {0}
    Values = {"x", "y"}
    Garbled = Garbled
    Faults = {"read"}
    MaxUses = 6
    None = None
SPECIFICATION Spec
INVARIANT TypeOK
INVARIANT SectorOnce
INVARIANT LookupReturnsSector
PROPERTY LastUsedSurvives
