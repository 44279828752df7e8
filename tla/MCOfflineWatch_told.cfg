SPECIFICATION FairSpec
CONSTANTS
    n1 = n1
    n2 = n2
    Nodes <- TwoNodes
    NoNode = NoNode
    Capacity = 2
    MaxAttempts = 2
    MaxSteps = 3
INVARIANTS EmissionOrder JoinIsExact CacheIsTold
PROPERTIES ClosedIsDelivered OutageTold
