SPECIFICATION Spec
CONSTANTS
    Versions = {3, 5}
    Sizes <- MCSizes
    Splits = {0, 1, 2}
    Lines = {1, 2}
    Columns = {0, 2}
    Texts <- MCTexts
    MaxCursor = 2
INVARIANTS
    RowsFitTheScreen
    TextLandsWhereItWasPrinted
    CrashesHaveACause
CHECK_DEADLOCK FALSE
