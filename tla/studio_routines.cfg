CONSTANTS
    Jobs = {plan, again, article, reply1, reply2}
    Automatic = {plan}
    Chats = {reply1, reply2}
    LastStage = 2
    Workers = {w1, w2}
    MaxRevision = 3
    MaxDeaths = 1
    MaxSwitches = 2
    MaxRetries = 1
    RoutineRows = {morning, monday}
    Briefings = {morning}
    MaxEdits = 1
    Plans = {plan, again}
    NoPlan = none
    MaxActiveBriefs = 1
    MaxBriefRevision = 2
    MaxPages = 1
    Answerers = {w1, w2}
    LastMessage = 3
    ChatCap = 1
    LastRevision = 2
    MaxMishaps = 1
SPECIFICATION FairSpec
INVARIANTS TypesOK NoStageTwice RunMatchesRoutine WeekIsTrue
PROPERTIES StoppedStaysStopped OneDraftPerCard StudioSettles
CHECK_DEADLOCK FALSE
