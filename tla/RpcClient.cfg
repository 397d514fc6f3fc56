\* Three URLs; a cooldown outlasts a call in which every URL fails at once, but
\* not one in which they all time out.
SPECIFICATION Spec
CONSTANTS
    Urls <- MCUrls
    Position <- MCPosition
    remote1 = remote1
    remote2 = remote2
    local = local
    None = none
    Timeout = 1
    Cooldown = 2
    MaxAge = 5
INVARIANT TypeOK
INVARIANT HealthyFirst
INVARIANT NoFalseFailure
INVARIANT CallBounded
