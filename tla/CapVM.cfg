CONSTANTS
    ws = ws
    sub = sub
    Dirs = {ws, sub}
    NoDir = none
    Workspace = ws
    Child <- MCChild
    SecretDirs = {}
    Files = {plain}
    SecretFiles = {}
    GrantOps <- MCGrantOps
    GrantTaints = {"Project"}
    Segments = {}
    MaxSegments = 0
    MaxCaps = 2
    MaxPosts = 0
    MaxHandles = 3
SPECIFICATION VMSpec
INVARIANTS
    VMTypeOK
    Confined
PROPERTIES
    OpenHandlesAreStable
CHECK_DEADLOCK FALSE
