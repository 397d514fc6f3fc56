\* Two pre hooks, of which the first must succeed, and one post hook.
SPECIFICATION FairSpec
CONSTANTS
    Pre <- MCPre
    PostHooks = 1
INVARIANT TypeOK
INVARIANT UpdateFlagKept
INVARIANT RoleShownWasTrue
INVARIANT TransitionGated
PROPERTY RoleCatchesUp
