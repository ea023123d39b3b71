CONSTANTS
    Channels = {feed, page}
    Async = {}
    Reachable = {feed, page}
    Workers = {w1}
    Leased = {w1}
    Sweepers = {}
    WebOps = {"schedule", "hold"}
    MaxRetries = 1
    MaxAttempts = 2
    MaxFaults = 0
    MaxRequests = 1
SPECIFICATION BrakeSpec
PROPERTIES BrakeStopsWrites
CHECK_DEADLOCK FALSE
SYMMETRY Alike
