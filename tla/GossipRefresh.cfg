\* Two declared nodes, every order of every answer, and vote accounts that
\* change at any moment.
SPECIFICATION Spec
CONSTANTS
    Nodes = {a, b}
    Stranger = stranger
    MaxCount = 3
    VoteKeys = {v1, v2}
    NoKey = none
    MaxClaims = 1
    MaxChanges = 2
SYMMETRY Symmetry
INVARIANT TypeOK
INVARIANT PublishedSound
PROPERTY PromiseKept
PROPERTY VotingLeaderKept
