SPECIFICATION FairSpec
CONSTANTS
    Capacity = 2
    Keep = 3
    MaxRetries = 2
    Threshold = 2
    Skew = 0
    MaxClock = 3
    MaxProfile = 1
    MaxEvents = 3
INVARIANTS TypeOK LatestStatusKept StoredTwiceOnlyIfRetried NoMarkLost
PROPERTIES RefreshArrives BreakerCloses
