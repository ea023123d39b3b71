CONSTANTS
    Channels = {video}
    Async = {video}
    Reachable = {}
    Workers = {w1, w2}
    Leased = {}
    Sweepers = {w1, w2}
    WebOps = {"schedule", "api_cancel"}
    MaxRetries = 1
    MaxAttempts = 2
    MaxFaults = 0
    MaxRequests = 1
SPECIFICATION Spec
INVARIANTS PublishedIsLive
PROPERTIES UnknownNeedsAPerson
CHECK_DEADLOCK FALSE
SYMMETRY Alike
