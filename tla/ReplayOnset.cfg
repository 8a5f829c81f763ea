SPECIFICATION Spec
CONSTANTS
    Rules = {1, 2}
    Subjects = {1}
    Targets <- MCTargets
    Reads <- MCReads
    Durations <- MCDurations
    NotifyOn <- MCNotifyOn
    Evidence <- MCEvidence
    FileLength = 4
    MaxRuns = 2
INVARIANT OpensAfterHolding
CHECK_DEADLOCK FALSE
