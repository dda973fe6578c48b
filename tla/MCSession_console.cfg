SPECIFICATION Spec
CONSTANTS
    pristine = pristine
    changed = changed
    boot = boot
    deeper = deeper
    Version = 3
    Mem <- OneMem
    Pristine = pristine
    Stack <- OneStack
    BootStack = boot
    MaxGen = 2
    MaxTexts = 2
    MaxBox = 1
    MaxLog = 2
PROPERTIES
    ImplementsConsole
