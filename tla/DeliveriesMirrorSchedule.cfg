SPECIFICATION Spec
CONSTANTS
    Reqs = {r1, r2}
    Origin = origin
    Configs = {c1, c2, c3}
    Email = {c1}
    PortalOnly = {c3}
    NoConfig = noConfig
    Nobody = nobody
CHECK_DEADLOCK FALSE
INVARIANT DeliveriesMirrorSchedule
