SPECIFICATION Spec
CONSTANTS
    Agent = 1
    Others = {2}
    Exts = {"pt", "st", "longest"}
    Malformed = {"longest"}
    ExtRoom = 1
    Ips = {"ip"}
    Configs <- MCConfigs
    Handlers = {"h1"}
    Cooldown = 1
    MaxTime = 1
    MaxSpawns = 1
    MaxFindings = 2
    MaxOps = 1
    MaxReloads = 1
    MaxFaults = 1
INVARIANTS ProtectionRestored OldTrustRevoked
PROPERTIES DeadTrustPruned TripUntrusts
