SPECIFICATION MCSpec
CONSTANTS
    Reqs = {r1, r2, r3}
    Origin = origin
    Defs = {d1, d2}
    NoDef = noDef
    Nobody = nobody
    MaxSaveRetries = 2
CHECK_DEADLOCK FALSE
SYMMETRY Symmetry
INVARIANTS
    TypeOK
    GapFree
    OneVersionPerRequest
    AnsweredSaveIsRecorded
    
    
    
    SerialAgreement
PROPERTIES
    OnlyRecordedDefinitions
    ImplementsHistory
