CONSTANTS
    Sigs = {g1, g2}
    Sessions = {s1, s2}
    MaxSeq = 4
SPECIFICATION CLSpec
INVARIANTS
    CLTypeOK
    OneRequestPerKey
PROPERTIES
    IdKeepsItsMeaning
    ImplementsConsentPolicy
CHECK_DEADLOCK FALSE
