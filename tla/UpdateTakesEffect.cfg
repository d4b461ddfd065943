SPECIFICATION Spec
CONSTANTS
    Reqs = {r1, r2, r3}
    Origin = origin
    Defs = {d1, d2}
    NoDef = noDef
    Nobody = nobody
    MaxSaveRetries = 3
CHECK_DEADLOCK FALSE
PROPERTY UpdateTakesEffect
