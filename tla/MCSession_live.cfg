SPECIFICATION FairSpec
CONSTANTS
    pristine = pristine
    changed = changed
    boot = boot
    deeper = deeper
    Version = 5
    Mem <- OneMem
    Pristine = pristine
    Stack <- OneStack
    BootStack = boot
    MaxGen = 2
    MaxTexts = 0
    MaxBox = 0
    MaxLog = 1
PROPERTIES
    TurnsComplete
