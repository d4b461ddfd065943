SPECIFICATION Spec
CONSTANTS
    Schedules = {s1}
    Cron = {c1}
    Once = once
    Invalid = invalid
    Empty = empty
    Unborn = unborn
    Gone = gone
    NoJob = noJob
    MaxAttempts = 1
PROPERTY
    ExhaustedRunIsNotified
