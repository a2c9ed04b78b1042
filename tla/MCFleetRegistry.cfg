SPECIFICATION Spec
CONSTANTS
    Self = self
    Remotes = {r1}
    Bucket <- MCBucket
    Asked = {"on"}
    Stored = {"off"}
    Percents <- MCPercents
    EvictAfter = 0
    MaxAgents = 2
    MaxTime = 1
    MaxAdmin = 2
    MaxRestarts = 1
INVARIANTS CanaryHolds
PROPERTIES Converges EventuallyPersisted
