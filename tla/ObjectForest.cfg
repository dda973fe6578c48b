SPECIFICATION FairSpec
CONSTANT N = 4
INVARIANTS
    TypeOK
    TableIsSound
    WalkFindsTheObject
PROPERTIES
    ImplementsForest
    OperationEnds
