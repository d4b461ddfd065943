SPECIFICATION MCSpec
CONSTANTS
    Requests = {q1, q2}
    Users = {adm, des}
    Admin = adm
    Conns = {c1, c2}
    Names = {n1}
    Rows = {i1, i2}
    Labels = {l1}
    Report = rep
    Reports = {rep}
    Schedules = {s1, s2}
    Outputs = {o1, o2}
    Keys = {k1, k2, k3}
    None = none
    Configs <- MCConfigs
    Definitions <- MCDefinitions
    Definition <- MCDefinition
    Databases = {"c1", "c2"}
    Postgres = "c2"
    MaxDepth = 3
    Never = never
    MaxTime = 2
SYMMETRY Symmetry
INVARIANTS
    SiteTypeOK
    
    
    
    
    
PROPERTIES
    ExecutedStays
    RevokedKeyIsDead
    
CHECK_DEADLOCK FALSE
