CONSTANTS
    Posts = {p1, p2}
    Queues = {"main"}
    Clerks = {w1}
    PostingSlots = {1, 2, 3}
    LastInstant = 3
    LastNow = 1
    MaxQueueRequests = 2
    MaxDrags = 1
SPECIFICATION PostingQueueSpec
PROPERTIES HistoryIsLeftAlone
CHECK_DEADLOCK FALSE
