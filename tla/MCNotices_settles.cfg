SPECIFICATION NoticesFairSpec
CONSTANTS
    n1 = n1
    a1 = a1
    Nodes <- OneNode
    Tasks <- TwoTasks
    NodeOf <- OnNode1
    Reviewed <- TwoTasks
    Admins <- OneAdmin
    Events = {}
    NoTask = 0
    MaxCancels = 0
INVARIANTS ReviewAnnounced NoStaleAlert
PROPERTIES ReviewSettles
