CONSTANTS
    EventWriters = {ev}
    FindingWriters = {}
    AdminWriters = {ad}
    MaxEntries = 2
    Zones = {utc}
    MaxAppends = 3
    MaxRefusals = 0
    MaxCrashes = 0
    MaxDetached = 0
    MaxLostResumes = 0
SPECIFICATION Spec
CHECK_DEADLOCK FALSE
INVARIANT EventsPersisted
