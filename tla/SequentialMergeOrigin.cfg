CONSTANTS
    k1 = k1
    Key <- MCKey
    Source <- MCSource
    N <- MCN
    Absent = Absent
    NoResponse = NoResponse
    Body = Body
    Replies <- MCReplies
    UrlRefs <- MCUrlRefsLate
    Propagated <- MCPropagated
SPECIFICATION Spec
INVARIANT ParamOrigin
