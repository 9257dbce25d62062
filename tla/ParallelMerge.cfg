CONSTANTS
    Key = {k1}
    Source <- MCSource
    N <- MCN
    Absent = Absent
    NoResponse = NoResponse
    Replies <- MCReplies
SPECIFICATION FairSpec
INVARIANTS
    IInv
    ForkJoin
    CompleteIffAllComplete
    FailuresReported
    MergedDataIsUnion
PROPERTIES
    KeepsPromise
    Returns
