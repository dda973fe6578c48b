\* Two stories, so that one can be selected over the other; a second run meets what the
\* first left in the cache.
CONSTANTS
    Titles = {zork, advent}
    StoryList = StoryList
    MaxRuns = 2
    MaxDownloads = 2
SPECIFICATION Spec
INVARIANTS
    PlayedGoesByItsName
    FilesAreWhole
    CrashesHaveACause
PROPERTIES
    WaitingEnds
\* The player need not start the program again.
CHECK_DEADLOCK FALSE
