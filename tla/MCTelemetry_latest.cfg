SPECIFICATION Spec
CONSTANTS
    Capacity = 2
    Keep = 3
    MaxRetries = 2
    Threshold = 2
    Skew = 2
    MaxClock = 3
    MaxProfile = 0
    MaxEvents = 3
INVARIANTS LatestStatusKept
