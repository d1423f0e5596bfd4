CONSTANTS
    Sizes = {0, 4, 8}
    None = None
SPECIFICATION Spec
INVARIANT PackedBundleParses
