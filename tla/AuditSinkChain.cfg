CONSTANTS
    Sessions = {s1, s2}
    Ops = {intent}
    MaxLines = 3
    MaxCrashes = 2
SPECIFICATION Spec
INVARIANT OneGlobalChain
CHECK_DEADLOCK FALSE
