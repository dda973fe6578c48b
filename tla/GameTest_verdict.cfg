SPECIFICATION Spec
CONSTANTS
    NCommands = 2
    OutCapacity = 3
    InCapacity = 2
    MaxTexts = 1
INVARIANT RuntimeErrorsFailTheTest
