SPECIFICATION Spec
CONSTANTS
    Intents = {1, 2}
    Workers = {w1, w2}
    Lease = 1
    MaxTime = 3
    MaxAttempts = 2
SYMMETRY Symmetry
INVARIANTS DeliveredOnce ExclusiveClaim
PROPERTIES FinishedIsFinal
CHECK_DEADLOCK FALSE
