SPECIFICATION Spec
CONSTANTS
    Schedules = {s1}
    Cron = {c1, c2}
    Once = once
    Invalid = invalid
    Empty = empty
    Unborn = unborn
    Gone = gone
    NoJob = noJob
    MaxAttempts = 2
INVARIANTS
    TypeOK
    Reconciled
    OneShotAtMostOnce
    RunKeepsItsSchedule
PROPERTIES
    EveryRunEnds
    EditsTakeEffect
