SPECIFICATION FairSpec
CONSTANTS
    NCommands = 3
    OutCapacity = 3
    InCapacity = 2
    MaxTexts = 2
INVARIANTS
    AnswersMeetTheirRequest
    SuccessHasAReason
PROPERTY EveryGameIsJudged
