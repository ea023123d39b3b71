CONSTANTS
    Channels = {video}
    Async = {video}
    Reachable = {video}
    Workers = {w1}
    Leased = {w1}
    Sweepers = {w1}
    WebOps = {"submit", "approve", "schedule", "retime", "unschedule", "api_schedule", "api_cancel"}
    MaxRetries = 1
    MaxAttempts = 2
    MaxFaults = 1
    MaxRequests = 1
SPECIFICATION Spec
PROPERTIES PublishedIsFinal
CHECK_DEADLOCK FALSE
