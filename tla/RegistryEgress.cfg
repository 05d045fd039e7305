CONSTANTS
    ws = ws
    vault = vault
    Dirs = {ws, vault}
    NoDir = none
    Workspace = ws
    Child <- MCChild
    SecretDirs = {vault}
    Files = {plain, key}
    SecretFiles = {key}
    GrantOps <- MCGrantOps
    GrantTaints = {"Project"}
    Segments = {a}
    MaxSegments = 1
    MaxCaps = 3
    MaxPosts = 2
SPECIFICATION RegSpec
INVARIANT ReducedHoldsNoEgress
CHECK_DEADLOCK FALSE
