CONSTANTS
    k1 = k1
    Key <- MCKey
    Source <- MCSource
    N <- MCN
    Absent = Absent
    NoResponse = NoResponse
    Body = Body
    Replies <- MCReplies
    UrlRefs <- MCUrlRefs
    Propagated <- MCPropagated
SPECIFICATION FairSpec
INVARIANTS
    SequenceInv
    ParamOriginButFirst
PROPERTIES
    ParamsStable
    KeepsPromise
    Returns
