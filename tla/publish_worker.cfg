CONSTANTS
    Channels = {video}
    Async = {video}
    Reachable = {video}
    Workers = {w1}
    Leased = {w1}
    Sweepers = {w1}
    WebOps = {"approve", "schedule", "retime", "unschedule", "hold"}
    MaxRetries = 1
    MaxAttempts = 3
    MaxFaults = 1
    MaxRequests = 1
SPECIFICATION FairSpec
INVARIANTS TypeOK NoDoublePost NothingForgotten ThreadOwnsItsRow RetryBudget
PROPERTIES PublishedIsFinal ImplementsDelivery EveryClaimSettles EveryDueRowIsAnswered
CHECK_DEADLOCK FALSE
