SPECIFICATION MCSpec
CONSTANTS
    Reqs = {r1, r2}
    NumKeys = 3
    Forms = {{1, 2}, {3}}
    Optional = {2}
    Values = {v1, v2}
    Env = v1
    Nobody = nobody
INVARIANTS
    TypeOK
    NoCircularWait
    CleanSettingsAgree
PROPERTIES
    SaveIsAtomic
