SPECIFICATION AbortedSpec
CONSTANTS
    Self = self
    Remotes = {}
    Bucket <- MCBucket
    Asked = {"on"}
    Stored = {"off"}
    Percents <- MCPercents
    EvictAfter = 0
    MaxAgents = 2
    MaxTime = 0
    MaxAdmin = 2
    MaxRestarts = 0
PROPERTY AbortReverts
CHECK_DEADLOCK FALSE
