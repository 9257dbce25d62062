CONSTANTS
    Configs <- MCConfigs
    MaxB = 2
    MaxCalls = 2
SPECIFICATION Spec
INVARIANT GraphQLQuerySent
