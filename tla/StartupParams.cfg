CONSTANTS
    Sequential = {6}
    Titled <- MCTitled
    TitleWord <- MCTitleWord
    Durations <- MCDurations
    Reserved <- MCReserved
    Decoders = {"json", "safejson", "string", "no-op"}
    ToLower <- MCToLower
    Alias <- MCAlias
    Texts <- MCTexts
    Services = {}
    Default = 2
    Plugins <- MCPlugins
    Names = {"a", "b", "c"}
    Fifos <- MCFifos
    MaxFiles = 3
    MaxAttempts = 3
    MaxAgents = 2
    RngLen = 2
    Configs <- MCConfigs
    q1 = q1
    q2 = q2
    q3 = q3
    Requests <- MCRequests
    Polite <- MCPolite
    Setups <- RouterSetups
SPECIFICATION Spec
INVARIANT KeysAreReplaced
\* The program ends.
CHECK_DEADLOCK FALSE
