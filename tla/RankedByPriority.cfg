\* Three nodes ranked by priority, with a confirmation poll of half the poll
\* interval before the last of three samples. Gossip and votes lag.
SPECIFICATION Spec
CONSTANTS
    a = a
    b = b
    c = c
    Nodes = {a, b, c}
    Stranger = stranger
    IPOrder <- MCIPOrder
    Priority <- MCPriority
    UsePriority = TRUE
    Bypass = FALSE
    Threshold = 3
    MaxCount = 4
    PollInterval = 4
    ConfirmPoll = 2
    EvalLag = 0
    GossipLag = 1
    VoteLag = 1
    StartLeaderless = FALSE
    Faults = {"drop", "stranger"}
    MaxFaults = 3
INVARIANT AtMostOneVoter
INVARIANT FastPollNearThreshold
