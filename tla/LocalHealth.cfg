\* A second is two units, the streak must last three seconds, a timeout is
\* longer than the interval between samples.
SPECIFICATION FairSpec
CONSTANTS
    Second = 2
    MinimumDuration = 6
    PollInterval = 2
    UnhealthyGraceCount = 1
    RpcTimeout = 3
    NoStreak = none
    MaxAge = 8
    MaxChanges = 4
INVARIANT TypeOK
INVARIANT StreakCredible
INVARIANT SicknessNoticed
PROPERTY EventuallyEligible
PROPERTY LoopAnswered
