CONSTANTS
    Modules = {1, 2, 3}
    MAX_MODULES = 2
    Images <- MCPartition
    Offsets = {0, 64}
    Faults = {}
    None = None
SPECIFICATION Spec
PROPERTY MountedModulesFound
