CONSTANTS
    Client = {c1, c2}
    Host <- MCHost
    Answer <- MCAnswer
    ShuffleAbove = 1
    CounterMod = 3
    MaxChanges = 1
SPECIFICATION FairSpec
INVARIANTS
    CacheInv
    RoundRobinFair
    InstancesAreFair
PROPERTIES
    Converges
