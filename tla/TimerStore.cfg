SPECIFICATION Spec
CONSTANTS
    Keys = {1, 2}
    Workers = {v, w}
    Lease = 1
    MaxBatch = 2
    Dues = {0, 1}
    MaxTime = 2
    MaxClaims = 3
    MaxGeneration = 2
SYMMETRY WorkerSymmetry
INVARIANTS OneLiveTimer OneGoodClaim
PROPERTIES CompletesOnlyIfCurrent ClaimIsProtected
CHECK_DEADLOCK FALSE
