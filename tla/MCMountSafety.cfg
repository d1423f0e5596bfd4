CONSTANTS
    Modules = {1, 2, 3}
    MAX_MODULES = 2
    Images <- MCImages
    Offsets = {0, 64}
    Faults = {"read", "walk", "drop"}
    None = None
SPECIFICATION Spec
INVARIANT TypeOK
INVARIANT RegisteredOnce
PROPERTY ReachedModulesFound
PROPERTY FailedMountKeepsRegistry
