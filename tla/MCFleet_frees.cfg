SPECIFICATION FairFleetSpec
CONSTANTS
    Nodes = {n1}
    Tasks <- MCTasks1
    NodeOf <- MCNodeOf
    Reviewed = {}
    Admins = {a1}
    Events = {"running"}
    NoTask = none
    MaxCancels = 1
    MaxStops = 1
PROPERTIES OutcomeIsReal NodeFrees
