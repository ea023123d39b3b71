CONSTANTS
    Jobs = {plan}
    Automatic = {plan}
    Chats = {}
    LastStage = 2
    Workers = {w1}
    MaxRevision = 2
    MaxDeaths = 0
    MaxSwitches = 2
    MaxRetries = 0
    RoutineRows = {monday}
    Briefings = {monday}
    MaxEdits = 0
    Plans = {}
    NoPlan = none
    MaxActiveBriefs = 1
    MaxBriefRevision = 1
    MaxPages = 0
    Answerers = {w1}
    LastMessage = 1
    ChatCap = 1
    LastRevision = 1
    MaxMishaps = 0
SPECIFICATION ArchiveSpec
PROPERTIES HeldJobsResume
CHECK_DEADLOCK FALSE
