SPECIFICATION FairFleetSpec
CONSTANTS
    Nodes = {n1}
    Tasks <- MCTasks1
    NodeOf <- MCNodeOf
    Reviewed = {}
    Admins = {a1}
    Events = {"running"}
    NoTask = none
    MaxCancels = 0
    MaxStops = 0
PROPERTY ClaimedMovesOn
