CONSTANTS
    Commenters = {w1, w2}
    CommentRetries = 2
    MaxCommentFaults = 1
    Deliveries = {digest1, alert}
    Batched = {digest1}
    Mailers = {w1, w2}
    MailAttempts = 2
    MaxMailerDeaths = 1
    Articles = {post, other}
    Writers = {w1, w2}
    CommitAttempts = 2
    MaxStarts = 2
    MaxChanges = 1
    MaxBlogFaults = 1
    LastSegment = 3
    Buttons = {"approve", "reject"}
    Taps = {t1, t2}
    Senders = {w1, w2}
    Handlers = {w1, w2}
    SendAttempts = 2
    MaxPostMoves = 1
    MaxTelegramDeaths = 1
    Posts = {p1, p2, p3}
    Queues = {"main"}
    Clerks = {w1, w2}
    PostingSlots = {1, 2, 4}
    LastInstant = 4
    LastNow = 1
    MaxQueueRequests = 3
    MaxDrags = 1
    Generators = {w1, w2}
    Lookahead = 2
    LastDay = 1
    MaxGeneratorDeaths = 1
    PendingPosts = {dated, plain}
    DatedPosts = {dated}
    Reviewers = {lead, backup}
    Managers = {lead}
    Lead = lead
    Backup = backup
    Sweeps = {w1, w2}
    MaxReminders = 2
    AlertCap = 1
    Agents = {w1, w2}
    Texts = {x1, x2}
    MaxReplyFaults = 1
    MaxReplyActs = 3
    Hosts = {w1, w2}
    Migrators = {m1}
    Rows = {r1, r2, r3, r4}
    MaxTaskFaults = 1
    Callers = {w1, w2}
    Bodies = {x1, x2}
    MaxCalls = 3
    MaxApiFaults = 1
    Users = {w1, w2}
    MaxGrants = 3
    LastVersion = 4
    LastFile = 4
    Finalizers = {w1, w2}
SPECIFICATION FairSpec
INVARIANTS TypesOK OneFirstComment MailIsBounded OnlyApprovedPages SiteIsTrue CardIsTrue SlotsNotShared EachDateOnce NoNagging ThreadIsTrue OneSchedule OneResourcePerKey GrantIsKept MediaKept
PROPERTIES ExactDecision ServicesSettle
CHECK_DEADLOCK FALSE
