\* A second is two units: polls are two seconds apart, one second to confirm.
\* The ring holds four samples and wraps; the manager is killed once at most.
SPECIFICATION Spec
CONSTANTS
    RingSize = 4
    Second = 2
    PollInterval = 4
    ConfirmPoll = 2
    Threshold = 2
    Bypass = TRUE
    MaxRank = 1
    Durations = {0, 3}
    MaxRestarts = 1
    MaxTime = 16
INVARIANT TypeOK
PROPERTY WindowKept
INVARIANT ContextFrozen
INVARIANT RecordingSurvives
INVARIANT DowntimeNotUnderstated
