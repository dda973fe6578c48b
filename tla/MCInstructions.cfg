\* Base 2 makes the counts of a save file wrap at four.
CONSTANTS
    Base = 2
    Stories <- MCStories
SPECIFICATION Spec
INVARIANTS
    TypeOK
    WordsAreFound
    TextIsWhole
    ObjectsKeepWhatWasPut
    TablesHoldTheirText
    ArithmeticIsExact
    OnlyWholeSavesAreRead
PROPERTIES
    WritesStayInTheirTable
    TablesAreAsTold
    FollowsTheProgram
    StackIsBalanced
\* A story ends, and its number of instructions is bounded.
CHECK_DEADLOCK FALSE
