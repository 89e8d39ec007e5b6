SPECIFICATION FairSpec
CONSTANTS
    k1 = k1
    k2 = k2
    HmacKeys = {k1, k2}
    NoKey = NoKey
    NoMessage = NoMessage
    Values = {v1, v2}
    Identifiers <- IdentifiersDef
    MaxFaults = 0
    MaxCalls = 2
INVARIANTS InvalidStateIffDatabaseInvalid
