\* A pre-active hook fails once.
SPECIFICATION Spec
CONSTANTS
    a = a
    b = b
    c = c
    Nodes = {a, b, c}
    Stranger = stranger
    IPOrder <- MCIPOrder
    Priority <- MCPriority
    UsePriority = FALSE
    Bypass = FALSE
    Threshold = 2
    MaxCount = 3
    PollInterval = 2
    ConfirmPoll = 2
    EvalLag = 0
    GossipLag = 0
    VoteLag = 0
    StartLeaderless = FALSE
    Faults = {"drop", "hook"}
    MaxFaults = 2
INVARIANT AtMostOneVoter
