CONSTANTS
    Sessions = {s1, s2}
    Ops = {intent}
    MaxLines = 3
    MaxCrashes = 2
SPECIFICATION Spec
INVARIANTS
    TypeOK
    AnchorNamesDurableLine
    CleanSinkVerifies
    AckedInChain
PROPERTIES
    AppendOnly
    ImplementsDurableLog
CHECK_DEADLOCK FALSE
