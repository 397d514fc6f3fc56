\* A manager loses its RPC endpoints during its takeover delay.
SPECIFICATION Spec
CONSTANTS
    a = a
    b = b
    c = c
    Nodes = {a, b, c}
    Stranger = stranger
    IPOrder <- MCIPOrder
    Priority <- MCPriority
    UsePriority = FALSE
    Bypass = FALSE
    Threshold = 2
    MaxCount = 3
    PollInterval = 2
    ConfirmPoll = 2
    EvalLag = 0
    GossipLag = 0
    VoteLag = 0
    StartLeaderless = FALSE
    Faults = {"drop", "rpc"}
    MaxFaults = 2
PROPERTY RevalidationSeesNoLeader
