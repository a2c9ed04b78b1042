SPECIFICATION MCSpec
CONSTANTS
    EventWriters = {ev}
    FindingWriters = {fi}
    AdminWriters = {ad}
    MaxEntries = 2
    Zones = {utc, cet}
    MaxAppends = 4
    MaxRefusals = 1
    MaxCrashes = 1
    MaxDetached = 1
    MaxLostResumes = 1
    Rules = {"R1"}
    Pids = {p1, p2}
    Analysts = {"analyst"}
    Texts = {a, b}
    MaxCases = 2
    GroupWindow = 0
    MaxTime = 1
    MaxDetections = 3
    MaxEdits = 2
    MaxRestarts = 1
SYMMETRY CaseSymmetry
INVARIANTS WindowVerifies AckedDurable ConsecutiveRowsLinked VerifyChainExact
    IndexMatchesList HitsAccounted GroupedUnlessReopened
PROPERTIES LogUnlessLost NotesKept
CHECK_DEADLOCK FALSE
