CONSTANTS
    MaxTokens = 4
    Char <- MCChar
    Requests <- MCRequests
    Labels <- MCLabels
    NameLabels <- MCNameLabels
    Numeric = {"1", "256"}
    Octets = {"1"}
    Lower <- MCLower
    Buf = 2
SPECIFICATION HttpSpec
INVARIANTS
    HttpTypeOK
    AllowListIsKept
    OnlyPublicAddresses
    BodyWithinLimit
PROPERTIES
    FetchEnds
CHECK_DEADLOCK FALSE
