SPECIFICATION Spec
CONSTANTS
    Versions = {5}
    TagModulus = 4
    MaxFrames = 3
    MaxUndo = 0
    MaxCatches = 3
    MaxRestarts = 1
INVARIANT TagsAreUnique
CHECK_DEADLOCK FALSE
