SPECIFICATION FairSpec
CONSTANTS
    n1 = n1
    a1 = a1
    a2 = a2
    Nodes <- OneNode
    Tasks <- OneTask
    NodeOf <- OneOnNode1
    Reviewed <- ReviewOnly
    Admins <- TwoAdmins
    Events <- AgentEvents
    NoTask = 0
    MaxCancels = 2
INVARIANTS TypeOK ReviewGate ReadsStayGood
PROPERTIES RefusalStands CancelSettles RunningEnds
