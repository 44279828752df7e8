SPECIFICATION Spec
CONSTANTS
    n1 = n1
    a1 = a1
    a2 = a2
    Nodes <- OneNode
    Tasks <- TwoTasks
    NodeOf <- OnNode1
    Reviewed = {}
    Admins <- TwoAdmins
    Events <- EventNames
    NoTask = 0
    MaxCancels = 1
SYMMETRY AdminSymmetry
INVARIANTS AtMostOneDispatched
PROPERTIES OnlyCancelReopens LedgerSpec
