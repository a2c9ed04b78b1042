SPECIFICATION Spec

CONSTANTS
    Agent = 1
    Others = {2}
    Exts = {"pt", "st", "longest"}
    Malformed = {"longest"}
    ExtRoom = 1
    Ips = {"ip"}
    Configs <- MCConfigs
    Handlers = {"h1"}
    Cooldown = 2
    MaxTime = 0
    MaxSpawns = 1
    MaxFindings = 0
    MaxOps = 0
    MaxReloads = 1
    MaxFaults = 0

INVARIANT ScannerReads
