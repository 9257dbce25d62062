CONSTANTS
    Requests = {q1}
    MaxClock = 3
    Endpoints <- MCEndpoints
SPECIFICATION FairShadowSpec
INVARIANTS
    ShadowInv
    ShadowHasItsTime
PROPERTY RequestSettles
\* The run ends at MaxClock.
CHECK_DEADLOCK FALSE
