SPECIFICATION FleetSpec
CONSTANTS
    Nodes = {n1}
    Tasks <- MCTasks2
    NodeOf <- MCNodeOf
    Reviewed = {}
    Admins = {a1}
    Events = {"running"}
    NoTask = none
    MaxCancels = 0
    MaxStops = 2
INVARIANTS FleetTypeOK OneAtATime
PROPERTY LaunchOnce
