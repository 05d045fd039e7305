CONSTANTS
    Clients = {a, b}
    MaxConns = 1
    MaxRoots = 2
SPECIFICATION SrvSpec
INVARIANTS
    SrvTypeOK
    SlotsAccounted
    AtMostMaxConns
    OneRootPerGuest
PROPERTIES
    BacklogDrains
    SilentReadersEnd
CHECK_DEADLOCK FALSE
