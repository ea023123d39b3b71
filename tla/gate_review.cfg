CONSTANTS
    Texts = {x1, x2}
    Media = {m1, m2}
    Times = {t1, t2}
    TwoStage = TRUE
    Ops = {"submit", "approve", "resume", "object", "hold", "unschedule", "schedule", "retime"}
    MaxRequests = 2
SPECIFICATION SceneSpec
INVARIANTS GateTypeOK ClearedIsApproved ScheduledIsApproved StaleApprovalIsWatched
PROPERTIES HoldIsKept
SYMMETRY Alike
