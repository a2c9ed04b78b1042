SPECIFICATION MCSpec
CONSTANTS
    Kinds <- MCKinds
    Policy <- MCPolicy
    RingCap = 1
    ChanCap = 1
    RateNum = 1
    RateDen = 2
    Silence = 1
    MaxEvents = 3
    MaxTime = 2
    Files = {"exe", "config"}
    Contents = {"a", "b"}
    Shipped = "a"
    Channels <- MCChannels
    Configured = {"webhook", "splunk"}
    SIEM = {"splunk"}
    DedupEvery = 1
    MaxChanges = 2
    MaxReconfigs = 1
    MaxFailures = 1
    Models = {"m1", "m2"}
    RootOf <- MCRootOf
    ProtectedPaths = {"p1"}
    Requests = {"h"}
    MaxWrites = 2
    MaxCalls = 1
INVARIANTS NoEventVanishes SamplingExact AlertsExact StopWaits ChangeFlagged
PROPERTIES StopReturns TamperReported InventoryConverges
CHECK_DEADLOCK FALSE
