SPECIFICATION Spec
CONSTANTS
    Rules = {1, 2}
    Subjects = {1}
    Targets <- MCTargets
    Reads <- MCReads
    Durations <- MCDurations
    NotifyOn <- MCNotifyOn
    Evidence <- MCEvidence
    FileLength = 4
    MaxRuns = 2
INVARIANTS StoreFollowsMemory CommittedLinesAreWhole PreviewAgreesOnAdherence
PROPERTIES CommittedAlertsStand NothingDroppedAtEnd RunEnds
CHECK_DEADLOCK FALSE
