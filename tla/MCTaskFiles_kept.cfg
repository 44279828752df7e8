SPECIFICATION FilesFairSpec
CONSTANTS
    MaxText = 5
    ChunkSize = 2
    MaxFailures = 1
    MaxStops = 1
    StreamMax = 3
INVARIANTS StoredExactly AckedIsStored CompleteWhenForgotten ArtifactKept
PROPERTIES ForgottenUnlessRefused RetentionFrees
