SPECIFICATION Spec
CONSTANTS
    Rules = {1, 2}
    Subjects = {1, 2}
    MaxTime = 4
    Targets <- MCTargets
    Durations <- MCDurations
    Occurrences <- MCOccurrences
    Outcomes <- MCOutcomes
INVARIANTS EmittedInOrder NothingOverdue
PROPERTIES DrainOutcomeIsFixed ReducersFollowConditions
