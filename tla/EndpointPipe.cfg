CONSTANTS
    Configs <- MCConfigs
    MaxCalls = 2
    GroupKey = "group"
SPECIFICATION FairSpec
INVARIANTS
    AnswerInv
    CompletionIsHonest
    BreaksExplained
    FormatsExactly
PROPERTIES
    Answered
