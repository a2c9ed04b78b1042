CONSTANTS
    read = read
    net = net
    IngestKinds <- MCKinds
    InitialRules <- MCRules
    CustomSpecs <- MCSpecs
    SuppressionSpecs <- MCSuppressions
    Threads = {t1, t2}
    Pids = {1, 2}
    MinRetention = 1
    MaxSessions = 1
    SignalCap = 2
    Reapable = {1}
    Skew = 1
    MaxTime = 2
    MaxIngests = 3
    MaxAdmin = 2
    MaxSignals = 4
    MemoryPids = {1, 2, 3}
    MemorySessions = 2
    MemoryTime = 3
    MemoryIngests = 5
SPECIFICATION MCSpec
CHECK_DEADLOCK FALSE
SYMMETRY ThreadSymmetry
INVARIANTS
    CooldownKept
    DeliveredOnce
    NoRuleStarved
    GreedyExact
    ProofOfFire
