\* Addresses 1 to 3 are valid. The managers are done once they run or have
\* stopped.
SPECIFICATION Spec
CONSTANTS
    a = a
    b = b
    Nodes = {a, b}
    Names = {"a", "b", "c"}
    Hosts = {0, 1, 2, 3}
    Addresses = {1, 2, 3}
    IP <- MCIP
    Floor = 2
    DefaultPoll = 10
    DefaultThreshold = 3
    DefaultMinimum = 60
    DefaultHealthPoll = 4
    None = none
    Files <- MCFiles
CHECK_DEADLOCK FALSE
INVARIANT RunsAsAssumed
INVARIANT TakeoversSpaced
