CONSTANTS
    Channels = {video}
    Async = {video}
    Reachable = {}
    Workers = {w1}
    Leased = {w1}
    Sweepers = {w1}
    WebOps = {"schedule", "hold", "resume"}
    MaxRetries = 1
    MaxAttempts = 2
    MaxFaults = 1
    MaxRequests = 1
SPECIFICATION FairSpec
PROPERTIES EveryClaimSettles
CHECK_DEADLOCK FALSE
