CONSTANTS
    g1 = g1
    g2 = g2
    g3 = g3
    c = c
    s = s
    Sigs = {g1, g2, g3}
    Sessions = {c, s}
    Requesters = {c, s}
    Approvers = {c}
    Engine <- MCEngine
    Verb <- MCVerb
    MaxSeq = 2
    Budget <- MCBudget
SPECIFICATION GKSpec
INVARIANT ApprovalsAreRecorded
CHECK_DEADLOCK FALSE
