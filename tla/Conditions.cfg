SPECIFICATION Spec
CONSTANTS
    Subjects = {1, 2}
    TriggerDuration = 2
    ClearDuration = 1
    ObservationIds = {o1, o2, o3, o4}
    MaxTime = 4
    MaxClaims = 1
    Inputs <- MCInputs
    Instants <- MCInstants
SYMMETRY Symmetry
INVARIANTS EpisodeMatchesPhase JournalTellsEpisodes EpisodesDoNotOverlap
    PendingIsHeld OneCommitPerAttempt
PROPERTIES DueIntervalIsNotLost
