\* Two nodes, every kind of fault, two of them anywhere.
SPECIFICATION Spec
CONSTANTS
    a = a
    b = b
    c = c
    Nodes = {a, b}
    Stranger = stranger
    IPOrder <- MCIPOrder
    Priority <- MCPriority
    UsePriority = FALSE
    Bypass = TRUE
    Threshold = 2
    MaxCount = 3
    PollInterval = 2
    ConfirmPoll = 1
    EvalLag = 0
    GossipLag = 0
    VoteLag = 0
    StartLeaderless = FALSE
    Faults = {"drop", "reconnect", "rpc", "vote_rpc", "local", "health", "ghost", "hook", "command", "restart", "stranger", "skew"}
    MaxFaults = 2
INVARIANT TypeOK
INVARIANT ViewsSound
INVARIANT NoLeaderInView
INVARIANT FailoverJustified
PROPERTY EntersLeaderless
