\* The client of RpcClient.cfg; the first two URLs are remote.
SPECIFICATION Spec
CONSTANTS
    Urls <- MCUrls
    Position <- MCPosition
    remote1 = remote1
    remote2 = remote2
    local = local
    None = none
    Timeout = 1
    Cooldown = 2
    MaxAge = 5
INVARIANT LocalIsLastResort
