SPECIFICATION MCSpec
CONSTANTS
    Reqs = {r1, r2, r3}
    Origin = origin
    Configs = {c1, c2, c3}
    Email = {c1}
    PortalOnly = {c3}
    NoConfig = noConfig
    Nobody = nobody
CHECK_DEADLOCK FALSE
INVARIANTS
    TypeOK
    NeverHalfBuilt
    PassedOverOnlyIfReplaced
    
    SerialRebuildsReconcile
 
