SPECIFICATION RegistrySpec
CONSTANTS
    Nodes = {n1}
    Admins = {a1}
    Skew = 1
    Ttl = 0
    MaxTime = 3
    MaxRequests = 2
    MaxKeys = 2
INVARIANTS AcceptedInOrder LockoutBounded FreshSecondIsAccepted OnceEver TokenIsKey
PROPERTIES DisableUndoneByStaleEditOnly
