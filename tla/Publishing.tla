------------------------------ MODULE Publishing ------------------------------
(***************************************************************************)
(* The publishing engine (apps/publisher) for ONE post and its channels.   *)
(*                                                                         *)
(* A channel is one PlatformPost row.  Worker processes poll for due rows, *)
(* claim them under a row lock, hand each to a thread that talks to the    *)
(* platform for minutes without a transaction, and record the outcome; a   *)
(* confirmation sweep settles the rows a thread left behind.  People work  *)
(* on the same rows from the dashboard and the API meanwhile, and a person *)
(* settles what the engine could not (apps/publisher/delivery.py).         *)
(*                                                                         *)
(* The approval gate's verdict is a free choice here; ApprovalGate models  *)
(* it.  A post's attempts are numbered; the platform's memory of attempt n *)
(* of channel c is platform[c][n].                                         *)
(***************************************************************************)
EXTENDS Naturals, FiniteSets

CONSTANTS
    Channels,     \* the PlatformPost rows of the post
    Async,        \* channels whose provider only takes delivery (publish_is_async)
    Reachable,    \* channels whose provider object can always be built
    Workers,      \* processes that run the publish cycle
    Leased,       \* those holding the single-worker lease while they run (run_worker)
    Sweepers,     \* those that also run the confirmation sweep
    WebOps,       \* the dashboard and API operations in use
    MaxRetries,   \* engine.MAX_RETRIES
    MaxAttempts,  \* bound: platform writes per channel
    MaxFaults,    \* bound: crashes and lost leases
    MaxRequests   \* bound: web requests in progress at once

GuardedOps == {"submit", "approve", "schedule", "retime", "unschedule", "hold", "resume"}
ApiOps     == {"api_schedule", "api_cancel"}

ASSUME PublishingAssumption ==
    /\ Async \subseteq Channels /\ Reachable \subseteq Channels
    /\ Leased \subseteq Workers /\ Sweepers \subseteq Workers
    /\ WebOps \subseteq GuardedOps \cup ApiOps
    /\ {MaxRetries, MaxAttempts, MaxFaults, MaxRequests} \subseteq Nat

VARIABLES
    row,       \* the PlatformPost rows
    hold,      \* Post.delivery_holds: each channel's unresolved delivery question
    thr,       \* thr[w][c]: worker w's publishing thread for channel c
    look,      \* look[w]: rows worker w's confirmation sweep has read and not yet settled
    found,     \* found[w]: rows worker w's due query or retry query returned, not yet handled
    lease,     \* holder of the worker advisory lock
    requests,  \* web requests that have loaded a row and not yet written it back
    platform,  \* what the platform made of each attempt
    sent,      \* platform writes made per channel
    tried,     \* platform writes per channel since a person last scheduled it
    excused,   \* attempts a person or a timeout wrote off while the platform still worked on them
    faults     \* crashes and lost leases so far

dbVars  == <<row, hold>>
extVars == <<platform, sent, tried>>
vars    == <<row, hold, thr, look, found, lease, requests, platform, sent, tried, excused, faults>>

Nobody    == "nobody"
Attempts  == 1..MaxAttempts
Statuses  == {"draft", "pending_review", "approved", "scheduled",
              "publishing", "published", "failed", "on_hold"}
Times     == {"none", "future", "due", "late"}    \* late: past due + max lateness
Ages      == 0..3                                 \* updated_at: fresh, > 15 min, > 30 min, > 6 h
Verdicts  == {"unsent", "processing", "live", "refused"}
Stages    == {"idle", "claimed", "cleared", "sending",
              "accepted", "handled", "lost", "rejected", "refused"}

Row     == [status : Statuses, sched : Times, retry : 0..MaxRetries,
            parked : BOOLEAN, handle : 0..MaxAttempts, age : Ages]
Thread  == [stage : Stages, n : 0..MaxAttempts, tries : 0..MaxRetries]
Find    == Channels \X {"due", "retry"}
Sight   == [c : Channels, handle : 0..MaxAttempts, age : Ages]
Copy    == [status : Statuses, retry : 0..MaxRetries, parked : BOOLEAN, handle : 0..MaxAttempts]
Request == [op : GuardedOps \cup ApiOps, c : Channels, old : Copy]

IdleThread == [stage |-> "idle", n |-> 0, tries |-> 0]

TypeOK ==
    /\ row \in [Channels -> Row]
    /\ hold \in [Channels -> {"none", "unknown", "expired"}]
    /\ thr \in [Workers -> [Channels -> Thread]]
    /\ look \in [Workers -> SUBSET Sight]
    /\ found \in [Workers -> SUBSET Find]
    /\ lease \in Workers \cup {Nobody}
    /\ requests \in SUBSET Request
    /\ platform \in [Channels -> [Attempts -> Verdicts]]
    /\ sent \in [Channels -> 0..MaxAttempts]
    /\ tried \in [Channels -> 0..MaxAttempts]
    /\ excused \in [Channels -> SUBSET Attempts]
    /\ faults \in 0..MaxFaults

\* A post the team wrote, not yet scheduled anywhere; no worker has started.
Init ==
    /\ row = [c \in Channels |-> [status |-> "draft", sched |-> "none", retry |-> 0,
                                  parked |-> FALSE, handle |-> 0, age |-> 0]]
    /\ hold = [c \in Channels |-> "none"]
    /\ thr = [w \in Workers |-> [c \in Channels |-> IdleThread]]
    /\ look = [w \in Workers |-> {}]
    /\ found = [w \in Workers |-> {}]
    /\ lease = Nobody
    /\ requests = {}
    /\ platform = [c \in Channels |-> [n \in Attempts |-> "unsent"]]
    /\ sent = [c \in Channels |-> 0]
    /\ tried = [c \in Channels |-> 0]
    /\ excused = [c \in Channels |-> {}]
    /\ faults = 0

-----------------------------------------------------------------------------
(* Writes to a row that several handlers share.                            *)

\* (Mutant of Mark: the question is kept nowhere but in the row's status.)
MarkOnRowOnly(c, from, kind) ==
    /\ row' = IF row[c].status = from
              THEN [row EXCEPT ![c] = [@ EXCEPT !.status = "failed", !.parked = FALSE, !.age = 0]]
              ELSE row
    /\ UNCHANGED hold

\* delivery.mark: settle the row only if it is still in `from`, and record
\* the question on the post, where later statuses of the row cannot erase it.
Mark(c, from, kind) ==
    IF row[c].status = from
    THEN /\ row' = [row EXCEPT ![c] = [@ EXCEPT !.status = "failed", !.parked = FALSE, !.age = 0]]
         /\ hold' = [hold EXCEPT ![c] = kind]
    ELSE UNCHANGED dbVars

\* PublishEngine._fail_permanently: guarded on the row still being claimed.
FailPermanently(c) ==
    /\ row' = IF row[c].status = "publishing"
              THEN [row EXCEPT ![c] = [@ EXCEPT !.status = "failed", !.parked = FALSE, !.age = 0]]
              ELSE row
    /\ UNCHANGED hold

\* (Mutants of ScheduleRetry: the budget is checked one attempt late; the
\* counter is not advanced.)
ScheduleRetryOneMore(c, tries) ==
    IF tries > MaxRetries
    THEN FailPermanently(c)
    ELSE /\ row' = [row EXCEPT ![c] = [@ EXCEPT !.status = "scheduled", !.retry = tries + 1,
                                                 !.parked = TRUE, !.age = 0]]
         /\ UNCHANGED hold

ScheduleRetryUncounted(c, tries) ==
    IF tries >= MaxRetries
    THEN FailPermanently(c)
    ELSE /\ row' = [row EXCEPT ![c] = [@ EXCEPT !.status = "scheduled", !.retry = tries,
                                                 !.parked = TRUE, !.age = 0]]
         /\ UNCHANGED hold

\* PublishEngine._schedule_retry: an unguarded save from the thread's own
\* copy of the row, whose retry_count is the one it was claimed with.
ScheduleRetry(c, tries) ==
    IF tries >= MaxRetries
    THEN FailPermanently(c)
    ELSE /\ row' = [row EXCEPT ![c] = [@ EXCEPT !.status = "scheduled", !.retry = tries + 1,
                                                 !.parked = TRUE, !.age = 0]]
         /\ UNCHANGED hold

\* approvals.gate.block_publish
BlockPublish(c, from) ==
    /\ row' = IF row[c].status = from
              THEN [row EXCEPT ![c] = [@ EXCEPT !.status = "failed", !.age = 0]]
              ELSE row
    /\ UNCHANGED hold

\* (Mutants: the hold is forgotten when the row is claimed again; the claim
\* downgrades it.)
OnlyLateness(c)  == row[c].sched = "late"
ExpiredAlways(c) == "expired"

\* delivery.hold_reason is non-empty, and the kind its callers record.
HoldReason(c) == hold[c] # "none" \/ row[c].sched = "late"
HoldKind(c)   == IF hold[c] = "unknown" THEN "unknown" ELSE "expired"

-----------------------------------------------------------------------------
(* The publish cycle: claiming.                                            *)

MayWork(w)    == w \in Leased => lease = w
AtHand(w)     == look[w] = {} /\ \A c \in Channels : thr[w][c].stage = "idle"
Idle(w)       == AtHand(w) /\ found[w] = {}
SiblingHeld   == \E c \in Channels : row[c].status = "on_hold"
Waiting(c)    == {w \in Workers : thr[w][c].stage \in {"claimed", "cleared"}}
InBounds(c)   == sent[c] + Cardinality(Waiting(c)) < MaxAttempts

\* (Mutants: the due query leaves late rows out; a claim trusts the query
\* that found its row to have seen every hold.)
IsDueNotLate(c) ==
    /\ row[c].status = "scheduled"
    /\ row[c].sched = "due"
    /\ ~(row[c].retry > 0 /\ row[c].parked)

HeldAtTheQuery == FALSE

IsDueNow(c) ==
    /\ row[c].status = "scheduled"
    /\ row[c].sched \in {"due", "late"}
    /\ ~(row[c].retry > 0 /\ row[c].parked)

\* A retry needs no time of its own: `none` counts as due.
RetryDue(c) ==
    /\ row[c].status = "scheduled" /\ row[c].retry > 0 /\ ~row[c].parked
    /\ row[c].sched # "future"

\* The sibling check both claims make again, with every row of the post locked.
HeldUnderLock == SiblingHeld

\* _get_due_platform_posts: at most so many rows, and none of a post that has
\* a channel on hold.
FindDue(w) ==
    /\ MayWork(w) /\ Idle(w) /\ ~SiblingHeld
    /\ \E D \in SUBSET {c \in Channels : IsDueNow(c)} \ {{}} :
          found' = [found EXCEPT ![w] = D \X {"due"}]
    /\ UNCHANGED <<dbVars, thr, look, lease, requests, extVars, excused, faults>>

\* The query of _process_retries.
FindRetries(w) ==
    /\ MayWork(w) /\ Idle(w) /\ ~SiblingHeld
    /\ \E c \in Channels : RetryDue(c)
    /\ found' = [found EXCEPT ![w] = {c \in Channels : RetryDue(c)} \X {"retry"}]
    /\ UNCHANGED <<dbVars, thr, look, lease, requests, extVars, excused, faults>>

ClaimedThread(c) == [stage |-> "claimed", n |-> 0, tries |-> row[c].retry]

\* Under the lock: each row that was found and is still due is held, refused
\* by the approval gate, or claimed and given a thread.
ClaimGroup(w) ==
    \E refused \in SUBSET Channels :
        LET due  == {c \in Channels : <<c, "due">> \in found[w] /\ IsDueNow(c)}
            held == {c \in due : HoldReason(c)}
            go   == {c \in due \ (held \cup refused) : InBounds(c)}
        IN  /\ refused \subseteq due \ held
            /\ row' = [c \in Channels |->
                 IF c \in held THEN [row[c] EXCEPT !.status = "failed", !.parked = FALSE, !.age = 0]
                 ELSE IF c \in refused THEN [row[c] EXCEPT !.status = "failed", !.age = 0]
                 ELSE IF c \in go THEN [row[c] EXCEPT !.status = "publishing", !.age = 0]
                 ELSE row[c]]
            /\ hold' = [c \in Channels |-> IF c \in held THEN HoldKind(c) ELSE hold[c]]
            /\ thr' = [thr EXCEPT ![w] =
                 [c \in Channels |-> IF c \in go THEN ClaimedThread(c) ELSE @[c]]]

\* _publish_post_group, some time after the query: every row of the post is
\* locked, and a hold placed since then stops the whole group.
PublishPostGroup(w) ==
    /\ AtHand(w) /\ \E c \in Channels : <<c, "due">> \in found[w]
    /\ found' = [found EXCEPT ![w] = {}]
    /\ IF HeldUnderLock THEN UNCHANGED <<dbVars, thr>> ELSE ClaimGroup(w)
    /\ UNCHANGED <<look, lease, requests, extVars, excused, faults>>

\* _process_retries, one row: the post is locked and everything asked again;
\* here the approval gate is asked before the delivery hold.
ClaimRetry(w, c) ==
    \/ BlockPublish(c, "scheduled") /\ UNCHANGED thr
    \/ HoldReason(c) /\ Mark(c, "scheduled", HoldKind(c)) /\ UNCHANGED thr
    \/ /\ ~HoldReason(c) /\ InBounds(c)
       /\ row' = [row EXCEPT ![c] = [@ EXCEPT !.status = "publishing", !.age = 0]]
       /\ thr' = [thr EXCEPT ![w][c] = ClaimedThread(c)]
       /\ UNCHANGED hold
    \/ ~HoldReason(c) /\ ~InBounds(c) /\ UNCHANGED <<dbVars, thr>>

ProcessRetry(w, c) ==
    /\ AtHand(w) /\ <<c, "retry">> \in found[w]
    /\ found' = [found EXCEPT ![w] = @ \ {<<c, "retry">>}]
    /\ IF HeldUnderLock \/ ~RetryDue(c) THEN UNCHANGED <<dbVars, thr>> ELSE ClaimRetry(w, c)
    /\ UNCHANGED <<look, lease, requests, extVars, excused, faults>>

-----------------------------------------------------------------------------
(* The publish cycle: one thread, from its claim to its recorded outcome.  *)

Ends(w, c) == thr' = [thr EXCEPT ![w][c] = IdleThread]
Goes(w, c, stage) == thr' = [thr EXCEPT ![w][c] = [@ EXCEPT !.stage = stage]]

\* _publish_platform_post up to the dispatch: the delivery hold, the account's
\* rate limit, and the last look at the approval, in that order.
CheckBeforeSending(w, c) ==
    /\ thr[w][c].stage = "claimed"
    /\ \/ HoldReason(c) /\ Mark(c, "publishing", HoldKind(c)) /\ Ends(w, c)
       \/ ~HoldReason(c) /\ ScheduleRetry(c, thr[w][c].tries) /\ Ends(w, c)
       \/ ~HoldReason(c) /\ BlockPublish(c, "publishing") /\ Ends(w, c)
       \/ ~HoldReason(c) /\ Goes(w, c, "cleared") /\ UNCHANGED dbVars
    /\ UNCHANGED <<look, found, lease, requests, extVars, excused, faults>>

\* _dispatch_to_provider before the write: media or credentials fail, the
\* delivery became held meanwhile, or the worker lost its lease (SystemExit:
\* the row stays `publishing`).
StopBeforeSending(w, c) ==
    /\ thr[w][c].stage = "cleared"
    /\ \/ \E s \in {"rejected", "refused"} : Goes(w, c, s) /\ UNCHANGED dbVars
       \/ HoldReason(c) /\ Mark(c, "publishing", "expired") /\ Ends(w, c)
       \/ ~HoldReason(c) /\ ~MayWork(w) /\ Ends(w, c) /\ UNCHANGED dbVars
    /\ UNCHANGED <<look, found, lease, requests, extVars, excused, faults>>

\* provider.publish_post: the request leaves.
Send(w, c) ==
    /\ thr[w][c].stage = "cleared"
    /\ ~HoldReason(c) /\ MayWork(w)
    /\ sent[c] < MaxAttempts
    /\ LET n == sent[c] + 1
       IN  /\ sent' = [sent EXCEPT ![c] = n]
           /\ tried' = [tried EXCEPT ![c] = @ + 1]
           /\ platform' = [platform EXCEPT ![c][n] = "processing"]
           /\ thr' = [thr EXCEPT ![w][c] = [@ EXCEPT !.stage = "sending", !.n = n]]
    /\ UNCHANGED <<dbVars, look, found, lease, requests, excused, faults>>

\* What the thread hears.  A synchronous acceptance names a live post, an
\* asynchronous one only a job; a response may be lost whatever happened, with
\* or without the job's handle; a clean refusal is final for the attempt.
Answer(w, c) ==
    LET n == thr[w][c].n
    IN  /\ thr[w][c].stage = "sending"
        /\ \/ /\ c \in Async \/ platform[c][n] = "live"
              /\ Goes(w, c, "accepted") /\ UNCHANGED platform
           \/ Goes(w, c, "lost") /\ UNCHANGED platform
           \/ c \in Async /\ Goes(w, c, "handled") /\ UNCHANGED platform
           \/ /\ platform[c][n] # "live"
              /\ \E s \in {"rejected", "refused"} : Goes(w, c, s)
              /\ platform' = [platform EXCEPT ![c][n] = "refused"]
        /\ UNCHANGED <<dbVars, look, found, lease, requests, sent, tried, excused, faults>>

\* The platform finishes an upload it took: external.
PlatformFinishes(c, n) ==
    /\ platform[c][n] = "processing"
    /\ \E v \in {"live", "refused"} : platform' = [platform EXCEPT ![c][n] = v]
    /\ UNCHANGED <<dbVars, thr, look, found, lease, requests, sent, tried, excused, faults>>

\* The success branch saves the thread's copy of the row, whatever status the
\* row has by now.  If that write fails the row is marked instead.
RecordAccepted(w, c) ==
    /\ thr[w][c].stage = "accepted"
    /\ \/ /\ row' = [row EXCEPT ![c] = [@ EXCEPT
                        !.status = IF c \in Async THEN "publishing" ELSE "published",
                        !.handle = thr[w][c].n, !.retry = 0, !.parked = FALSE, !.age = 0]]
          /\ UNCHANGED hold
       \/ Mark(c, "publishing", "unknown")
    /\ Ends(w, c)
    /\ UNCHANGED <<look, found, lease, requests, extVars, excused, faults>>

\* (Mutant: a lost response is retried like a refusal.)
RecordFailureRetrying(w, c) ==
    /\ thr[w][c].stage \in {"lost", "handled", "rejected", "refused"}
    /\ ScheduleRetry(c, thr[w][c].tries)
    /\ Ends(w, c)
    /\ UNCHANGED <<look, found, lease, requests, extVars, excused, faults>>

\* The exception branch: outcome unknown (an asynchronous job whose handle is
\* known is left to the sweep), a retryable refusal, a final one.
RecordFailure(w, c) ==
    /\ \/ thr[w][c].stage = "lost" /\ Mark(c, "publishing", "unknown")
       \/ /\ thr[w][c].stage = "handled"
          /\ row' = IF row[c].status = "publishing"
                    THEN [row EXCEPT ![c] = [@ EXCEPT !.handle = thr[w][c].n, !.retry = 0,
                                                       !.parked = FALSE, !.age = 0]]
                    ELSE row
          /\ UNCHANGED hold
       \/ thr[w][c].stage = "rejected" /\ ScheduleRetry(c, thr[w][c].tries)
       \/ thr[w][c].stage = "refused" /\ FailPermanently(c)
    /\ Ends(w, c)
    /\ UNCHANGED <<look, found, lease, requests, extVars, excused, faults>>

\* The database is away while the outcome is recorded: the exception leaves
\* the thread and the row keeps the status it had.
RecordNothing(w, c) ==
    /\ thr[w][c].stage \in {"accepted", "handled", "lost", "rejected", "refused"}
    /\ Ends(w, c)
    /\ UNCHANGED <<dbVars, look, found, lease, requests, extVars, excused, faults>>

-----------------------------------------------------------------------------
(* The confirmation sweep.                                                 *)

\* confirm_pending_publishes: one query reads every row in `publishing`.
SweepRead(w) ==
    /\ w \in Sweepers /\ MayWork(w) /\ Idle(w)
    /\ \E c \in Channels : row[c].status = "publishing"
    /\ look' = [look EXCEPT ![w] =
          {[c |-> c, handle |-> row[c].handle, age |-> row[c].age] :
              c \in {d \in Channels : row[d].status = "publishing"}}]
    /\ UNCHANGED <<dbVars, thr, found, lease, requests, extVars, excused, faults>>

\* (Mutants: rows without a handle are waited for; a platform that cannot be
\* asked is taken at its earlier word.)
SweepWaits(s) ==
    /\ s.handle = 0 \/ s.c \notin Async
    /\ UNCHANGED <<dbVars, excused>>

SweepTrusts(s) ==
    /\ s.handle # 0 /\ s.c \in Async
    /\ row' = [row EXCEPT ![s.c] = [@ EXCEPT !.status = "published", !.handle = s.handle, !.age = 0]]
    /\ UNCHANGED <<hold, excused>>

\* _confirm_one_publish without anything to ask: no handle was recorded, or
\* the provider is synchronous (and could be built, with a handle there).
SweepUnaskable(s) ==
    /\ s.handle = 0 \/ s.c \notin Async
    /\ \E built \in {TRUE, s.handle = 0 \/ s.c \in Reachable} :
          IF built /\ s.age >= 1 THEN Mark(s.c, "publishing", "unknown") ELSE UNCHANGED dbVars
    /\ UNCHANGED excused

\* ... with an asynchronous job to ask about.
SweepAsk(s) ==
    /\ s.handle # 0 /\ s.c \in Async
    /\ \/ /\ s.c \notin Reachable               \* the provider cannot be built
          /\ UNCHANGED <<dbVars, excused>>
       \/ /\ IF s.age >= 3 THEN Mark(s.c, "publishing", "unknown")  \* it cannot be asked
                           ELSE UNCHANGED dbVars
          /\ UNCHANGED excused
       \/ /\ platform[s.c][s.handle] = "live"
          /\ row' = [row EXCEPT ![s.c] = [@ EXCEPT !.status = "published",
                                                    !.handle = s.handle, !.age = 0]]
          /\ UNCHANGED <<hold, excused>>
       \/ /\ platform[s.c][s.handle] = "refused"
          /\ FailPermanently(s.c)
          /\ UNCHANGED excused
       \/ /\ platform[s.c][s.handle] = "processing"
          /\ IF s.age >= 2
             THEN /\ FailPermanently(s.c)
                  /\ excused' = [excused EXCEPT ![s.c] = @ \cup {s.handle}]
             ELSE UNCHANGED <<dbVars, excused>>

SweepRow(w) ==
    /\ \E s \in look[w] :
          /\ look' = [look EXCEPT ![w] = @ \ {s}]
          /\ SweepUnaskable(s) \/ SweepAsk(s)
    /\ UNCHANGED <<thr, found, lease, requests, extVars, faults>>

-----------------------------------------------------------------------------
(* Processes and clocks.                                                   *)

Forgotten(w) ==
    /\ thr' = [thr EXCEPT ![w] = [c \in Channels |-> IdleThread]]
    /\ look' = [look EXCEPT ![w] = {}]
    /\ found' = [found EXCEPT ![w] = {}]

\* The process dies (deploy, out of memory); its session lock goes with it.
Crash(w) ==
    /\ faults < MaxFaults /\ ~Idle(w)
    /\ Forgotten(w)
    /\ lease' = IF lease = w THEN Nobody ELSE lease
    /\ faults' = faults + 1
    /\ UNCHANGED <<dbVars, requests, extVars, excused>>

\* The database drops the session that held the lock; the process lives on,
\* and notices at its next lease check.
LoseLease ==
    /\ faults < MaxFaults /\ lease # Nobody
    /\ lease' = Nobody
    /\ faults' = faults + 1
    /\ UNCHANGED <<dbVars, thr, look, found, requests, extVars, excused>>

\* A worker process (re)starts: worker_process_lock.
StartWorker(w) ==
    /\ w \in Leased /\ lease = Nobody /\ Idle(w)
    /\ lease' = w
    /\ UNCHANGED <<dbVars, thr, look, found, requests, extVars, excused, faults>>

TimePasses(c) ==
    /\ \/ /\ row[c].sched = "future"
          /\ row' = [row EXCEPT ![c].sched = "due"]
       \/ /\ row[c].sched = "due"
          /\ row' = [row EXCEPT ![c].sched = "late"]
    /\ UNCHANGED <<hold, thr, look, found, lease, requests, extVars, excused, faults>>

BackoffEnds(c) ==
    /\ row[c].parked
    /\ row' = [row EXCEPT ![c].parked = FALSE]
    /\ UNCHANGED <<hold, thr, look, found, lease, requests, extVars, excused, faults>>

ClaimAges(c) ==
    /\ row[c].status = "publishing" /\ row[c].age < 3
    /\ row' = [row EXCEPT ![c].age = @ + 1]
    /\ UNCHANGED <<hold, thr, look, found, lease, requests, extVars, excused, faults>>

-----------------------------------------------------------------------------
(* People.  A web handler loads a row, decides, and writes back the fields *)
(* in TRANSITION_FIELDS; save_guarded writes only if the status it loaded  *)
(* is still there, the API's transition_platform_post writes regardless.   *)

From(op) ==
    CASE op = "submit"       -> {"draft"}
      [] op = "approve"      -> {"pending_review"}
      [] op = "schedule"     -> {"draft", "approved", "failed"}
      [] op = "retime"       -> {"scheduled"}
      [] op = "unschedule"   -> {"scheduled", "approved", "failed", "on_hold"}
      [] op = "hold"         -> {"approved", "scheduled"}
      [] op = "resume"       -> {"on_hold"}
      [] op = "api_schedule" -> {"draft", "approved"}
      [] op = "api_cancel"   -> {"scheduled"}

Target(op) ==
    CASE op = "submit"                              -> "pending_review"
      [] op \in {"approve", "resume"}               -> "approved"
      [] op \in {"schedule", "retime", "api_schedule"} -> "scheduled"
      [] op \in {"unschedule", "api_cancel"}        -> "draft"
      [] op = "hold"                                -> "on_hold"

\* The time the handler writes; "keep" when it does not write scheduled_at.
NewTimes(op) ==
    CASE op = "schedule"     -> {"keep", "due", "future"}
      [] op = "retime"       -> {"due", "future"}
      [] op = "unschedule"   -> {"keep", "none"}
      [] op = "api_schedule" -> {"future"}
      [] op = "api_cancel"   -> {"none"}
      [] OTHER               -> {"keep"}

\* PlatformPost.transition_to on the loaded copy, then the write-back.
\* Scheduling sheds the last attempt; a calendar move sheds only its backoff.
WrittenBack(q, when) ==
    LET fresh == Target(q.op) = "scheduled"
    IN  [status |-> Target(q.op),
         sched  |-> IF when = "keep" THEN row[q.c].sched ELSE when,
         retry  |-> IF fresh THEN 0 ELSE q.old.retry,
         parked |-> IF fresh THEN FALSE ELSE q.old.parked,
         handle |-> IF fresh /\ q.op # "retime" THEN 0 ELSE q.old.handle,
         age    |-> 0]

\* (Mutant: the dashboard saves what it read, as the API does.)
WritableAlways(q) == TRUE

Writable(q) == q.op \in GuardedOps => row[q.c].status = q.old.status

\* Of the row it loaded, what a handler looks at or saves again.
CopyOf(r) == [status |-> r.status, retry |-> r.retry, parked |-> r.parked, handle |-> r.handle]

LoadRow(op, c) ==
    /\ op \in WebOps /\ row[c].status \in From(op)
    /\ Cardinality(requests) < MaxRequests
    /\ requests' = requests \cup {[op |-> op, c |-> c, old |-> CopyOf(row[c])]}
    /\ UNCHANGED <<dbVars, thr, look, found, lease, extVars, excused, faults>>

WriteRow ==
    /\ \E q \in requests :
          /\ requests' = requests \ {q}
          /\ \E when \in NewTimes(q.op) :
                row' = IF Writable(q) THEN [row EXCEPT ![q.c] = WrittenBack(q, when)] ELSE row
          /\ tried' = IF Writable(q) /\ Target(q.op) = "scheduled"
                      THEN [tried EXCEPT ![q.c] = 0] ELSE tried
    /\ UNCHANGED <<hold, thr, look, found, lease, platform, sent, excused, faults>>

\* gate._withdraw: an edit, or a changed time, ends an approval.
Withdraw(c) ==
    /\ row[c].status \in {"approved", "scheduled"}
    /\ row' = [row EXCEPT ![c] = [@ EXCEPT !.status = "pending_review", !.age = 0]]
    /\ UNCHANGED <<hold, thr, look, found, lease, requests, extVars, excused, faults>>

\* delivery.reconcile_existing: an approver found the post on the account.
ReconcileExisting(c) ==
    /\ row[c].status = "failed" /\ hold[c] = "unknown"
    /\ \E n \in Attempts :
          /\ platform[c][n] = "live"
          /\ row' = [row EXCEPT ![c] = [@ EXCEPT !.status = "published", !.handle = n,
                                                  !.parked = FALSE, !.age = 0]]
    /\ hold' = [hold EXCEPT ![c] = "none"]
    /\ UNCHANGED <<thr, look, found, lease, requests, extVars, excused, faults>>

\* delivery.checked_absent: an approver looked and nothing was there.  What
\* the platform is still processing cannot be seen, and is written off.
CheckedAbsent(c) ==
    /\ row[c].status = "failed" /\ hold[c] # "none"
    /\ \A n \in Attempts : platform[c][n] # "live"
    /\ row' = [row EXCEPT ![c] = [status |-> "pending_review", sched |-> "none", retry |-> 0,
                                  parked |-> FALSE, handle |-> 0, age |-> 0]]
    /\ hold' = [hold EXCEPT ![c] = "none"]
    /\ excused' = [excused EXCEPT ![c] = @ \cup {n \in Attempts : platform[c][n] = "processing"}]
    /\ UNCHANGED <<thr, look, found, lease, requests, extVars, faults>>

-----------------------------------------------------------------------------
Work(w) ==
    \/ FindDue(w)
    \/ FindRetries(w)
    \/ PublishPostGroup(w)
    \/ SweepRead(w)
    \/ SweepRow(w)
    \/ Crash(w)
    \/ StartWorker(w)
    \/ \E c \in Channels :
          \/ ProcessRetry(w, c)
          \/ CheckBeforeSending(w, c)
          \/ StopBeforeSending(w, c)
          \/ Send(w, c)
          \/ Answer(w, c)
          \/ RecordAccepted(w, c)
          \/ RecordFailure(w, c)
          \/ RecordNothing(w, c)

World(c) ==
    \/ TimePasses(c)
    \/ BackoffEnds(c)
    \/ ClaimAges(c)
    \/ \E n \in Attempts : PlatformFinishes(c, n)

People ==
    \/ WriteRow
    \/ \E c \in Channels :
          \/ \E op \in WebOps : LoadRow(op, c)
          \/ Withdraw(c)
          \/ ReconcileExisting(c)
          \/ CheckedAbsent(c)

Next ==
    \/ \E w \in Workers : Work(w)
    \/ \E c \in Channels : World(c)
    \/ LoseLease
    \/ People

Spec == Init /\ [][Next]_vars

\* What the deployment gives: the platform service restarts a dead worker,
\* recurring tasks come round, threads and timers run on, requests end.
Fairness ==
    /\ \A w \in Workers :
          /\ WF_vars(StartWorker(w)) /\ WF_vars(FindDue(w)) /\ WF_vars(FindRetries(w))
          /\ WF_vars(PublishPostGroup(w))
          /\ WF_vars(SweepRead(w)) /\ WF_vars(SweepRow(w))
          /\ \A c \in Channels :
                /\ WF_vars(ProcessRetry(w, c))
                /\ WF_vars(CheckBeforeSending(w, c))
                /\ WF_vars(StopBeforeSending(w, c) \/ Send(w, c))
                /\ WF_vars(Answer(w, c))
                /\ WF_vars(RecordAccepted(w, c) \/ RecordFailure(w, c) \/ RecordNothing(w, c))
    /\ \A c \in Channels : WF_vars(BackoffEnds(c)) /\ WF_vars(ClaimAges(c))
    /\ WF_vars(WriteRow)

FairSpec == Spec /\ Fairness

-----------------------------------------------------------------------------
(* Properties.                                                             *)

Possible == {"processing", "live"}

\* Attempt n is, or may yet be, live, and nobody has written it off.
OpenAt(c, n) == platform[c][n] \in Possible /\ n \notin excused[c]
Open(c)      == \E n \in Attempts : OpenAt(c, n)

\* The engine never resends a post that may already be on the platform: when
\* an attempt is made, every earlier one was refused, or was still being
\* processed when a person or the confirmation timeout wrote it off.
\* ("a double post is forever", confirm_pending_publishes.)
NoDoublePost ==
    \A c \in Channels : \A m, n \in Attempts :
        m < n /\ platform[c][n] # "unsent" /\ platform[c][m] \in Possible => m \in excused[c]

\* An attempt that is or may yet be live is always accounted for: its row is
\* still claimed, is published, or the post carries the unknown-outcome hold
\* that stops every further claim until a person settles it.
NothingForgotten ==
    \A c \in Channels :
        Open(c) => row[c].status \in {"publishing", "published"} \/ hold[c] = "unknown"

\* A row reads Published only when some attempt is live on the platform,
\* whichever of the four writers said so (thread, sweep, person, web).
PublishedIsLive ==
    \A c \in Channels : row[c].status = "published" => \E n \in Attempts : platform[c][n] = "live"

\* VALID_TRANSITIONS["published"] is empty: nobody walks a published row back.
PublishedIsFinal ==
    [][\A c \in Channels : row[c].status = "published" => row'[c].status = "published"]_vars

\* While a thread works on a row the row is `publishing` and no other thread
\* works on it, whatever the dashboard, the sweep and the other channels do.
ThreadOwnsItsRow ==
    \A c \in Channels : \A w \in Workers : thr[w][c].stage # "idle" =>
        /\ row[c].status = "publishing"
        /\ \A v \in Workers : thr[v][c].stage # "idle" => v = w

\* The question an unknown outcome raises is put away by a person's answer and
\* by nothing else; not even a later claim of the row downgrades it to
\* "expired", which reconcile_existing would refuse to settle.
UnknownNeedsAPerson ==
    [][\A c \in Channels : hold[c] = "unknown" /\ hold'[c] # "unknown"
            => ReconcileExisting(c) \/ CheckedAbsent(c)]_vars

\* The engine implements Delivery: at-most-once writes with a human referee.
Phase(c) ==
    IF row[c].status = "published" THEN "live"
    ELSE IF hold[c] # "none" THEN "held"
    ELSE IF row[c].status = "publishing" THEN "inflight"
    ELSE "ready"

Contract == INSTANCE Delivery WITH
    phase <- [c \in Channels |-> Phase(c)],
    open  <- [c \in Channels |-> Open(c)]

ImplementsDelivery == Contract!Spec

\* One deliberate scheduling buys at most 1 + MAX_RETRIES platform writes.
RetryBudget == \A c \in Channels : tried[c] <= MaxRetries + 1

\* `publishing` is never a dead end: whatever crashes, the row leaves it.
EveryClaimSettles == \A c \in Channels : []<>(row[c].status # "publishing")

\* A due row is dealt with: claimed, refused or held, unless a person moves
\* it or holds a sibling.
EveryDueRowIsAnswered ==
    \A c \in Channels :
        []<>~(/\ row[c].status = "scheduled" /\ row[c].sched \in {"due", "late"}
              /\ sent[c] < MaxAttempts /\ ~SiblingHeld)
===============================================================================
