SPECIFICATION Spec
CONSTANTS
    s1 = s1
    s2 = s2
    e1 = e1
    e2 = e2
    e3 = e3
    Series = {s1, s2}
    Episodes = {e1, e2, e3}
    SeriesOf <- MCSeriesOf
    NotifyOn <- MCNotifyOn
    MaxAttempts = 2
INVARIANTS OpenWhileRunning EpisodeAlertsOnce
    EachTransitionItsIntent OneLiveAttempt
PROPERTIES AttemptsAreFinal ImplementsAlertLog
