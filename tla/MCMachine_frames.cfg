SPECIFICATION Spec
CONSTANTS
    Versions = {3, 5}
    TagModulus = 3
    MaxFrames = 3
    MaxUndo = 1
    MaxCatches = 3
    MaxRestarts = 1
INVARIANTS
    TypeOK
    ExecutesInstructions
    SavedStatesAwaitTheirResult
    TagsAreUniqueAtFirst
CHECK_DEADLOCK FALSE
