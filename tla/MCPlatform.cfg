SPECIFICATION MCSpec
CONSTANTS
    Handlers = {h1, h2}
    Emails = {"admin", "u"}
    Admin = "admin"
    Spellings = {"stored", "other"}
    MaxFailures = 2
    Window = 1
    Lockout = 2
    MaxUsers = 3
    MaxKeys = 2
    MaxTime = 1
    MaxRequests = 4
    MaxRestarts = 2
    GuardTime = 3
    GuardRequests = 6
    Tenants = {"home", "other"}
    Users = {1, 2}
    Home = "home"
    RoleSets = {{"admin"}, {"viewer"}}
    Logins = {"l"}
    TTL = 2
    MaxTokens = 2
    MaxEdits = 2
    MaxReboots = 1
    Clients = {"c1", "c2"}
    Refill = 1
    Cost = 2
    Burst = 4
    IdleAfter = 4
    GCEvery = 1
    Interfaces = {"eth0", "eth1"}
    Listed = {"ip1", "ip2"}
    MaxStarts = 2
    MaxFaults = 2
SYMMETRY HandlerSymmetry
INVARIANTS IndexesAgree IssuedKeysWork LockoutBound
    AuthorityBound BucketExact NeverSilentlyUnprotected NoLeftovers
CHECK_DEADLOCK FALSE
