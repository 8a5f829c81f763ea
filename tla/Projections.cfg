SPECIFICATION Spec
CONSTANTS
    Subjects = {"a", "b"}
    MaxPosition = 5
    Evidence <- MCEvidence
INVARIANTS LiveIsLatest StoreFollowsBuilder OnsetFollowsLiveChecks
CHECK_DEADLOCK FALSE
