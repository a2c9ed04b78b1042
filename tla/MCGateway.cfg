SPECIFICATION MCSpec
CONSTANTS
    h1 = h1
    h2 = h2
    Handlers = {h1, h2}
    Tenants = {"a"}
    Providers = {"OpenAI", "xAI"}
    Allowed = {"OpenAI"}
    Quotas <- MCQuotas
    Estimates = {0, 2}
    Actuals = {0, 3}
    BlockOnDetect = TRUE
    Minute = 2
    Day = 2
    MaxTime = 2
    MaxRequests = 3
    MaxAdmin = 2
    RateEstimates = {0, 4}
    RateTime = 4
    RateRequests = 6
SYMMETRY HandlerSymmetry
CHECK_DEADLOCK FALSE
INVARIANTS RateBound LedgerExact MeteringExact
