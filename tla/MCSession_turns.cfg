SPECIFICATION Spec
CONSTANTS
    pristine = pristine
    changed = changed
    boot = boot
    deeper = deeper
    Version = 5
    Mem <- TwoMem
    Pristine = pristine
    Stack <- TwoStacks
    BootStack = boot
    MaxGen = 2
    MaxTexts = 0
    MaxBox = 1
    MaxLog = 1
INVARIANTS
    TypeOK
    PromptMatchesRead
    UpdateNeverFreezes
    OneListener
    AbandonedMachinesAreInert
    BoxIsEmptyBetweenLines
    ExportIsASnapshot
    SuccessMeansSaved
