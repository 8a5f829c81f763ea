SPECIFICATION Spec
CONSTANTS
    Intents = {1}
    Workers = {w1, w2}
    Lease = 1
    MaxTime = 2
    MaxAttempts = 2
INVARIANTS RecordedIsDelivered
CHECK_DEADLOCK FALSE
