\* Three nodes ranked by IP address. Refreshes, commands and gossip all lag,
\* within what a poll interval of four leaves room for.
SPECIFICATION FairSpec
CONSTANTS
    a = a
    b = b
    c = c
    Nodes = {a, b, c}
    Stranger = stranger
    IPOrder <- MCIPOrder
    Priority <- MCPriority
    UsePriority = FALSE
    Bypass = FALSE
    Threshold = 2
    MaxCount = 3
    PollInterval = 4
    ConfirmPoll = 4
    EvalLag = 1
    GossipLag = 1
    VoteLag = 0
    StartLeaderless = FALSE
    Faults = {"drop"}
    MaxFaults = 2
INVARIANT AtMostOneVoter
INVARIANT TakeoverExclusive
INVARIANT ContestOnSchedule
INVARIANT OneHolder
PROPERTY ContestSpec
PROPERTY LeaderReplaced
PROPERTY IsolatedStandsDown
