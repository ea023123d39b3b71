# SM Bean: a TLA+ model of approval and publishing

SM Bean is a Django application that plans, approves and publishes social-media
posts for agencies.  This directory holds TLA+ models of the parts of it where
order, failure and concurrency decide what reaches a client's account, the TLC
configurations that check them, and theorems about them checked by TLAPS.

Run from this directory, with the TLA+ tools, the community modules and TLAPS
installed:

    tlc -workers 2 -config publish_worker.cfg MCPublishing
    tlapm PublishingSafety.tla

Source paths below are relative to `src/apps/` unless they say otherwise.

## 1. The system

### Components, their state and how they interact

| Component | State | Operations | Interacts with |
|---|---|---|---|
| **Publishing engine** `publisher/engine.py` | `PlatformPost` rows (status, time, retry count, backoff, platform handle), threads in memory | poll and claim a group, retry pass, dispatch, record outcome, confirmation sweep, first comment | reads the approval gate and delivery holds; calls the platform adapters; runs as recurring tasks of the worker |
| **Delivery holds** `publisher/delivery.py` | `Post.delivery_holds`, `platform_extra._delivery_state` | `mark`, `hold_reason`, `reconcile_existing`, `checked_absent` | written by the engine, settled by people |
| **Platform post state machine** `composer/models.py`, `composer/services.py`, `composer/views.py` | status and the fields in `TRANSITION_FIELDS` | `transition_to`, `save_guarded`, the API's plain save | every editor of a post |
| **Approval gate** `approvals/gate.py`, `signals.py`, `actor.py` | the stamp on a row: fingerprint, approver, approved time | stamp, clear, require, re-check, block | hooks every transition; on-commit callbacks; asked by the engine |
| **Approval services** `approvals/services.py`, `views.py` | `ApprovalAction` trail | submit, approve, request changes, reject, hold, resume, resubmit | drive the state machine for dashboard, client portal and Telegram |
| **Approval reminders** `approvals/tasks.py` | `ApprovalReminder` receipts | remind, tell the lead and the backup, announce an overdue post | locks the post and the workspace's people; notifications |
| **Calendar** `calendar/` | posting slots, queue entries, recurrence rules and their ledger | queue operations, drags, the recurrence cycle | writes the times of posts beside the publisher |
| **Worker** `common/background.py`, `run_worker.py` | advisory lock, task rows and their locks | start, reclaim locks, re-register, heartbeat | runs all background work |
| **AI studio** `studio/engine.py`, `team.py`, `services.py`, `autopilot.py`, `pipeline.py` | `AgencyJob` (kind, stage, revision, status), `AutopilotWeek`, `StudioBrief`, background tasks | create, run a stage, stop, pause, resume, retry, sweep, resume held jobs; plan or skip a week, plan it again, make and feed briefs, run a brief's steps, hand over, announce | creates drafts; guarded from approving; paid model calls |
| **Studio chat** `studio/chat.py`, `studio/jobtypes/chat.py` | messages, brief cards (the results of chat jobs), the drafts they start | ask, answer, tap a card, stop, retry | chat jobs of the studio's engine; starts briefs |
| **Routines** `studio/routines.py` | `Routine` rows, `RoutineRun` rows | start what is due, settle runs, edit, run now | create studio jobs |
| **Telegram** `telegram/` | deliveries, updates, action tokens, pairing | claim, send, recover, process an update, act | approves through the approval services |
| **Notifications** `notifications/` | notification and delivery rows | queue a digest, claim, mail, settle, dispatch, retry | e-mail and webhooks |
| **Blog** `blog/` | articles, the site's branch on GitHub | edit, review, claim, commit, deploy, poll, sweep | its own publisher |
| **Inbox** `inbox/` | imported messages, replies | draft, edit, send, discard | platform adapters |
| **Intelligence, analytics** | imported platform data | fetch, score | platform adapters |
| **API, MCP, OAuth** `api/`, `mcp/`, `oauth_server/` | keys, limits, idempotency records | the editorial operations, over HTTP, repeatable under a key | composer services |
| **Social accounts** `social_accounts/` | tokens, expiry, status of each channel | connect, refresh under the row's lock, probe, disconnect | asked by every use of a channel |
| **Media library** `media_library/` | assets, versions, files, pending uploads | edit, restore, direct upload and finalize, sweep | attachments of posts |
| **Members, workspaces, portal, settings** | records and permissions | administration | all |
| **Platform adapters** `src/providers/` | none of ours | publish, check status, refresh tokens | external services |

### What is hard here, and what makes each part correct

* **Publishing** talks to an external service for minutes without a transaction.
  A response can be lost, the process can die, a row can be edited, held or
  swept meanwhile, and *a double post is forever*.  Correct means: never two
  attempts that may both be live; never an attempt nobody remembers; `published`
  only if something is live; a claim is exclusive and always ends; a client's
  hold stops every write that had not been claimed before it.
* **The approval gate** must make sure that nothing leaves that an internal
  approver did not approve, while content, time and status change under
  concurrent requests, and re-checks run later, on commit.
* **Studio jobs** spend money in steps that outlive their worker or are
  cancelled under way.  A step must be paid for once, a stale one must not
  write, and no job may be forgotten.
* **Everything sent once** (first comments, digests, Telegram cards, inbox
  replies, blog pages) repeats publishing's problem with other means: a claim,
  an uncertain answer, a retry, a crash in between.  Each has its own answer,
  and each model says exactly how many copies a fault may cost.
* **A planned week** passes through three asynchronous owners (the plan's job, the
  feeder and the team), while people may stop, resume, replace, change, discard and
  approve.  The week must be made and announced once, and an approval must stay an
  approval of what the post shows.
* **A conversation** asks for drafts through a model that answers late, on cards that
  grow old.  A card must start one draft, of what it showed, for somebody who still
  belongs to the workspace.
* **Tokens and files** are replaced while others use them: a rotated refresh token
  works once, and a file may have two names.
* **The calendar** gives out instants: two posts of a channel must not share a
  slot, a date of a series must not come twice.
* **The worker** must be one; its lease is a session lock it can lose while it
  works, and a recurring task must neither vanish from its table nor be doubled
  for good.

`PROJECT.json` lists the hazards of the code line by line, each with the
properties that watch it.

## 2. Modules

| Module | Content |
|---|---|
| `Publishing` | The engine, delivery holds, the worker's lease, the people who touch the same rows, and the platforms, for one post with any set of channels |
| `Delivery` | The abstract contract: at-most-once delivery with a human referee |
| `MCPublishing` | TLC instances of `Publishing` |
| `ClientBrake` | What a client's hold stops: `Publishing` with the memory of what was claimed before the hold; `MCClientBrake` is its instance |
| `PublishingProofs` | `TypeCorrect` |
| `PublishingSafety` | Five safety theorems and the inductive invariant under them |
| `PublishingRefinement` | The engine implements `Delivery`; the hold on unknown outcomes, the brake and the retry budget |
| `ApprovalGate` | The gate for one channel: stamps, edits, re-checks, requests and the publishing thread |
| `MCApprovalGate` | TLC instances of `ApprovalGate`, in two scenes |
| `ApprovalGateProofs` | Five theorems about the gate |
| `StudioJobs` | The AI team's job runner: stages, revisions, stops, retries, the sweep, the pause policy |
| `Routines` | Standing instructions that become jobs; extends `StudioJobs` |
| `AgencyWeek` | Autopilot's week: plan, briefs, the team's steps, approval, announcement; extends `StudioJobs` |
| `TeamThread` | A team member's conversation with the account manager: ideas, brief cards, taps, drafts |
| `MCStudio` | The four composed, with properties, fairness and scenes |
| `StudioProofs` | Jobs, routines, weeks and conversations in all scenes of `MCStudio` |
| `FirstComment` | The comment under a published post |
| `EmailDigest` | Notification e-mail: the digest queue, and deliveries mailed by their maker |
| `BlogPublishing` | Articles, their approval, and the task that commits page and sitemap |
| `TelegramReview` | A review card sent in segments, and the taps on its buttons |
| `PostingQueue` | A channel's slots, queue operations, drags and the publisher |
| `Recurrence` | A daily series and the cycle that clones it |
| `ApprovalReminders` | The reminder sweep |
| `InboxReplies` | A reply to a customer |
| `RecurringTasks` | The schedule of one recurring task |
| `ApiRequests` | Requests repeated under one idempotency key |
| `AccountTokens` | The OAuth grant of one channel |
| `MediaLibrary` | The versions of an asset; uploads that go straight to storage |
| `MCServices` | Instances of the twelve modules from `FirstComment` on, one per behaviour |
| `ServicesProofs` | The services other than articles and Telegram, and their types |
| `BlogProofs` | Types of `BlogPublishing`, what leaves the application, and what the site shows |
| `TelegramProofs` | The review card and the decisions taken on it; the types of all services |

**How they are composed.**  `Publishing` and `ApprovalGate` meet at the claim.
`Publishing` takes the gate's verdict as a free choice (a claimed row may be
refused, before the claim and before the dispatch); `ApprovalGate` takes the
publisher as a thread that claims, looks, dispatches and records.  Each is
thereby the environment of the other in its most permissive form.  `Routines`
and `AgencyWeek` really extend `StudioJobs`: an instruction or a week's plan is a job
of that module, queued, staged and swept with the others, and the worker that runs a
stage runs the steps of briefs too.  `TeamThread` has the part of the job engine that a
chat job needs (one stage) in its own `chatJob`, and the same workers; its drafts are
briefs of which it sees only whether they are being made, wait or are over.  The services of `MCServices` share no row with
one another in the code, so an interleaving of two of them is no more than each
of them alone: a variable `focus`, chosen in `Init`, says which one a behaviour
is about, and the others stay at their initial state.  One run then checks all of
them and their fairness, which is the fairness of the same two workers.

### Publishing

State: `row[c]` is the `PlatformPost` of channel `c` (`status`; `sched`, the
effective time as seen by the clock: none, future, due, or late beyond the
workspace's maximum lateness; `retry` = `retry_count`; `parked` = `next_retry_at`
in the future; `handle` = `platform_post_id`, as the number of the attempt it
names; `age` = time since `updated_at` in units of the sweep's three timeouts).
`hold[c]` is the post's delivery hold.  `thr[w][c]` is a publishing thread:
its stage, the attempt it made, and the retry count of its copy of the row.
`look[w]` is what a sweep has read, `found[w]` what the due query or the retry query
of a cycle has found and the worker has not come to yet.  `lease` is the worker lock.  `requests` are
web handlers between their load and their save.  `platform`, `sent`, `tried`
and `excused` are history outside the database: what became of each attempt, how
many were made, how many since the last deliberate scheduling, and which ones a
person or the timeout wrote off while the platform still worked on them.

Actions and code:

| Action | Code |
|---|---|
| `FindDue`, `FindRetries` | `_get_due_platform_posts`, the query of `_process_retries`: nothing is locked |
| `PublishPostGroup` (`ClaimGroup`) | `_publish_post_group` up to the threads: all rows locked, the holds and each row looked at again |
| `ProcessRetry` (`ClaimRetry`) | `_process_retries`, one of the rows it found |
| `CheckBeforeSending` | `_publish_platform_post` up to the dispatch: hold, rate limit, last look |
| `StopBeforeSending`, `Send`, `Answer` | `_dispatch_to_provider` before, at and after `publish_post` |
| `RecordAccepted`, `RecordFailure`, `RecordNothing` | the success branch, the exception branch, and a database that is away |
| `SweepRead`, `SweepRow` | `confirm_pending_publishes`, `_confirm_one_publish` |
| `Crash`, `LoseLease`, `StartWorker` | process death, a dropped lock session, `worker_process_lock` |
| `LoadRow`, `WriteRow` | a dashboard or API request: load and decide, then write back |
| `Withdraw` | the approval re-check's withdrawal |
| `ReconcileExisting`, `CheckedAbsent` | a person's ruling on a held delivery |
| `PlatformFinishes`, `TimePasses`, `BackoffEnds`, `ClaimAges` | the platform and the clocks |

In `ClientBrake`, `spare` are the channels that had their claim, and had not sent yet,
when the hold that is on now began; it is fixed by the first hold and only shrinks.

Time is abstracted to what the code compares: a row becomes due and then late,
a backoff ends, a claim ages past 15 minutes, 30 minutes and 6 hours, each at
any moment.

### ApprovalGate

State: `row` with status, time and stamp (content, time, approver); `text` and
`media`, the content now in the database, where `text` is everything the thread
carries from its claim (caption, overrides, format, account) and `media` the
attachments, which the engine reads afresh; `requests` that have decided and not
written; `rechecks` waiting in on-commit callbacks, or decided and not written;
`thr`, the publishing thread and its copy.  A request's load and decision are
one step (the fingerprint is computed right after the load), its write another;
a re-check reads in one step and writes in another.  Either step may be lost
(`LoseRecheck`): the process dies between the commit and the callback, or the callback
raises, which `_Revalidate.__call__` logs and drops.  `lost` remembers that until the
next change schedules a re-check or another re-check reads the row.

`by` is `approver` or `other`: the first is whoever `verified_human_approver`
accepts; clients, editors, the API and the worker are the second.

### StudioJobs, Routines, AgencyWeek and TeamThread

State: `job[j]` is an `AgencyJob` (status, revision, stage; `held`: its error is a
policy pause; `paused`: cancelled by the Pause control; `old`: `updated_at` is
`stuck_after` ago).  `queue` is the table of background tasks, each for one job,
revision and stage; a locked task stays in it until it ends.  `at[w]` is what
worker `w` is doing and what it has read.  `policy` is what
`automatic_work_blocker` sees.  `paid` counts model calls per job, revision and
stage; `clobbered` marks the jobs that a late Retry wrote over.

| Action | Code |
|---|---|
| `CreateJob`, `StopChat`, `ControlStop` | `engine.create_job`; `engine.cancel` from /stop; `control_job` pause and cancel, which also raise the revision |
| `RetryLocked`, `RetryLoad`, `RetryWrite` | `engine.restart` under the row's lock, and the blog's Retry without one |
| `StartStage`, `StageSaves`, `StageFinishes`, `StagePassesOn`, `StageFails`, `StageFailsAndForgets`, `TaskEnds` | `run_step`: the claim of a stage, `job.update`, the hand-over to the next stage, `_fail`, the end of the task |
| `WorkerDies`, `SweepReads`, `SweepRow`, `ResumeHeld`, `JobAges` | process death, `sweep_stuck`, `resume_paused_jobs`, the clock |
| `RunDue`, `RunNow`, `SettleOne`, `EditLoad`, `EditWrite` | `routines.tick`, the Run button, `_settle`, Pause/Resume |

In `AgencyWeek`, `week` is the `AutopilotWeek` row (status and plan); `brief[p]` the
`StudioBrief` that plan `p` makes (status, revision, stage, `held` by the policy,
`old` as for jobs); `post[p]` its post, with the revision it `shows` and the one that
was `approved`; `steps` the tasks of `run_studio_step`; `producer[w]` the step or the
sweep worker `w` is in; `tick` what the agency tick has read.  `pages` are web requests with a
copy of a brief: the revision they loaded and what they saw of its post.  `told` counts
the notices "your week is ready"; `revived` are the plans that a person resumed after the
week had been given to another one, or whose discarded brief a late page brought back;
`belated` the plans whose brief a page marked approved when it was no longer in the
revision the page had loaded, or no longer ready.

| Action | Code |
|---|---|
| `PlanWeek`, `SkipWeek` | `autopilot.plan_week`, by the tick or a person, with the retirement of the plan it replaces; the tick's note of a week it cannot plan |
| `MakeBrief` | `stage_brief` of `jobtypes/plan.py`: brief and note in one transaction |
| `Feed` | `feed_planned_briefs`: held briefs first, then waiting ones, up to `AGENCY_MAX_ACTIVE_BRIEFS` |
| `StartStep`, `StepPassesOn`, `StepFails`, `HandOff`, `StepEnds` | `pipeline.run_step`, its guards and `step_handoff` |
| `ProducerDies`, `SweepBriefs`, `SweepBrief`, `BriefAges` | process death, `pipeline.sweep_stuck`, the clock |
| `RequestChanges`, `RetryBrief`, `DiscardBrief`, `ApprovePost`, `SendBack` | `studio/services.py` and the approval pages |
| `OpenBrief`, `FindApproved`, `SaveApproved`, `ReopenBrief`, `PageEnds` | `sync_status`, `approve` and `reopen_sent_back` as the brief's page and the agency home call them: the brief is loaded, the post's statuses are read, the brief is saved, with no lock and (but for the reopening) no guard |
| `StopPlan`, `ResumePlan` | `control_job` for a plan |
| `AnnounceReads`, `AnnounceWrites` | `announce_planned_weeks`, whose every settlement is an UPDATE on the status it was decided from |

In `TeamThread`, `thread` is the list of `Message` rows and `chatJob[n]` the `AgencyJob` of
the person's n-th message: status, revision, the card it `taps`, and its `result` (a brief
card that awaits confirmation, a question, a started draft, or none of them) with the
message that shows it, the version of the evidence it rests on (`saw`) and whether that is
older than `SOURCE_MAX_AGE`.  `drafts` are the `StudioBrief`s started here, `answerer[w]`
what a worker has read or decided, `evidence` what website and channels say now.

| Action | Code |
|---|---|
| `SendIdea`, `TapCard` | `post_message`, plain or `confirm_brief`; a page may show an old card |
| `StopAsked`, `RetryAsked`, `Leave` | `engine.cancel` and `control_job`; a membership that ends |
| `TakeJob`, `AskModel`, `Answer`, `ModelFails` | `run_step`; `answer` up to the paid call, with what `_guided_context` reads; the transaction after it, with `_intake` and, if drafts start by themselves, `_start_from_snapshot`; an error |
| `LookAtCard`, `Confirm`, `PostReply`, `FinishTap` | `_confirm` before its locks (old evidence is read again), under them, and the two statements of `answer` that follow: the draft is committed first, then the reply, then the end of the job |
| `AnswererDies`, `SweepChat` | process death, `sweep_stuck` |
| `EvidenceChanges`, `EvidenceAges`, `DraftEnds`, `FeedDraft` | the sources, the clock, and what becomes of a draft |

`MCStudio` composes the four and plays ten scenes: `team` (a weekly plan with two
workers, deaths and a switched policy), `people` (an article and any use of the
controls), `routine` and `lost` (an instruction and the replies it asks for, edited,
or with deaths), `briefing`, `week` (a plan by the tick and one by a person, stopped,
resumed and replaced, with their briefs), `drafts` (what people do to the briefs of a
week, deaths and a switched policy), `producers` (the same with two workers), `cards` (a
conversation whose evidence changes and grows old) and `controls` (a conversation with
stops, retries, deaths, failures and a member who leaves).

### The services

* **FirstComment**: `comment` is the row's status and retry count, `commentTasks` the
  tasks no worker has locked, `commenter[h]` a worker's place in
  `_post_first_comment_task`; `AskForComment` and `MarkPending` are
  `_maybe_schedule_first_comment`, which queues before it marks.  `comments`, on the
  platform, cannot be taken back.
* **EmailDigest**: `delivery[d]` is a `NotificationDelivery`; `PickRows`, `ClaimRows`
  (the conditional UPDATE that charges the attempt), `MailDigest`, `SettleDigest`,
  `ReapExhausted` are `flush_batched_emails`; `Dispatch`, `MailOne`, `DispatchEnds` the
  deliveries mailed by their maker, and `PickOne` their retry sweep.
* **BlogPublishing**: `article[p]` with the content, `approved_fingerprint`,
  `publish_attempts` and `published_card`; `branch` is the head of the site's
  repository.  `StartPublish` is the claim; `TakePublishTask` to `DispatchDeploy` the
  steps of `run_publish`, whose order of reading the sitemap's cards, then the head, then
  the guard, then the write is kept; `PollDeploy` and `SweepStuckArticle` settle.
* **TelegramReview**: `segment[i]` are `TelegramDelivery` rows, `received[i]` what the
  chat saw; `ClaimSegment`, `BeforeTransport`, `CallTelegram`, `RecordSend`,
  `RecoverDelivery` are the outbox, `RevokeChat`, `PairAgain`, `SuspendRecipient` the
  pairing.  `tap[u]` are `TelegramUpdate` rows; `HandleTap` is `actions.apply` with its
  one-shot token, compared with what the card showed under the post's lock.
  `PostMoves` stands for everything that happens to the post elsewhere.
* **PostingQueue**: `chip[p]` is a channel's `PlatformPost` with its time and queue.
  `BeginQueueOp` locks the channel and plans (`add_post_next_available`, `prioritize`,
  `reorder`, re-slotting, removal); `WriteSlots` writes.  `Drag` is every other way a
  time is given: drag, manual schedule, a recurrence clone.  `ClaimDue` and
  `PublishEnds` are the publisher.
* **Recurrence**: `ledger` is `generated_dates`, `generator[w]` the cycle a worker is in
  with its dates and its copy of the ledger; `GenerateDate` locks the rule and looks again.
* **ApprovalReminders**: `reminder[p]` are the receipts, `sweep[s]` a transaction:
  `LockPost`, `CountAlerts` (which locks the workspace's people), `SendNotices`.
* **InboxReplies**: `agent[a]` is a request that has loaded the reply; `LockReply`,
  `DispatchReply`, `RecordReply`, `CleanUp` are send, edit, discard and the composer's
  removal of a refused reply.
* **RecurringTasks**: `row` are the rows of the library's table for one task;
  `RepeatTask` then `DeleteRow` is the order in which the library makes the next row and
  drops its own; `MigratorRegisters`, `HostRegisters`, `ReclaimLocks` are the code's
  `keep_schedule`, registration and `reclaim_stale_locks`.
* **ApiRequests**: `apiRecord` is the `IdempotencyRecord` of one key, `call[c]` a request
  under it; `ClaimSlot` is the insert that is the mutex, with replay, "in progress" and
  "reused"; `CreatePost` commits resource and answer together, while a reply is drafted,
  sent and answered in three steps (`CreateDraft`, `SendReply`, `Finalize`); `Release`
  removes a placeholder; `RecordAges` and `SweepRecord` are the day's end.
* **AccountTokens**: `account` is the `SocialAccount` row, `user[u]` a process with the
  token it read.  `LockAccount` to `SaveRotation` are `refresh_oauth_token`, `Probe` and
  `RecordProbe` the health check, `RevokeToken` and `BlankTokens` the disconnect.
  `ExchangeCode`, `SaveGrant` and `CallbackFails` are a reconnect: `oauth_callback`
  exchanges its code under no lock, asks for the profile or for a page to be chosen,
  and writes the row last, or fails and leaves it; `offers` are the grants in between.
  `usable` is what the platform would accept; it takes a rotated refresh token once, and
  may end the earlier grants when it gives a new one (`standing` is the last that did,
  `consent` the one the row was last connected with).
* **MediaLibrary**: `version[n]` is the file of version `n`, `task[n]` its queued edit
  (`LoadEdit`, `SaveEdit`, `ShowEdit`, `EditFails` are the worker's task), `upload` and
  `object` a pending upload and its object; `LookAtUpload`, `InspectObject`,
  `RegisterAsset` are `finalize_media_upload`, `ListExpired` to `DeleteUpload` the sweep.

Counters such as `mails`, `comments`, `customerGot`, `received`, `clones` and
`taken` are history outside the database: what the world saw.  Where the code cannot
do better than a bounded number of copies per fault, the property says the bound
(`lapses`, `commentFaults`, `untold`).

## 3. Runs

| Run | Instance | Checks |
|---|---|---|
| `publish_worker` | one leased worker, one asynchronous channel whose provider can be built, 5 web operations, 3 attempts, 1 crash or lost lease, 1 request; fairness | `TypeOK`, `NoDoublePost`, `NothingForgotten`, `ThreadOwnsItsRow`, `RetryBudget`, `PublishedIsFinal`, `ImplementsDelivery`, `EveryClaimSettles`, `EveryDueRowIsAnswered` |
| `publish_group` | two synchronous channels of one post, scheduled and held by people, 2 writes each, 1 retry | `BrakeStopsWrites` |
| `publish_rivals` | two publishers without a lease, API cancels | `PublishedIsLive`, `UnknownNeedsAPerson` |
| `publish_stranded` | fairness, a provider that cannot be built | violates `EveryClaimSettles` |
| `publish_api_cancel` | unguarded API writes beside the dashboard's guarded ones | violates `PublishedIsFinal` |
| `gate_review` | scenes `review` (two-stage workflow, one request) and `rivals` (two requests at once), both with the two-stage workflow; 2 texts, 2 attachments, 2 times | `GateTypeOK`, `ClearedIsApproved`, `ScheduledIsApproved`, `StaleApprovalIsWatched`, `HoldIsKept`, and no deadlock |
| `gate_media` | the gate by itself | violates `SentIsApproved` |
| `studio_routines` | the ten scenes of `MCStudio`; fairness | `TypesOK`, `NoStageTwice`, `RunMatchesRoutine`, `WeekIsTrue`, `StoppedStaysStopped`, `OneDraftPerCard`, `StudioSettles` |
| `studio_unarchive` | a plan whose workspace is archived and restored; nothing else goes wrong | violates `HeldJobsResume` |
| `services` | the twelve services, one per behaviour; fairness | see below |
| `queue_history` | one queue operation beside a publish | violates `HistoryIsLeftAlone` |
| `media_originals` | an asset edited twice before the first edit has run | violates `OriginalIsRestorable` |

What `studio_routines` says of a week (`WeekIsTrue`): the drafts of one plan only are
kept; nobody is told twice that the week is ready, nor of a plan that was not carried
out; what was approved is what the post shows until a person sends it back, although
the team may still be at work on it; a ready or approved brief shows the revision last
asked for, and one that reads approved has a post that was approved in that revision.
The last part excepts `belated` plans: a page that loaded the brief before it was asked
for again, or discarded, saves `approved` over it (`sync_status` and `approve` end with
an unguarded `brief.save`), until the brief is asked for again or discarded.  Even then
what was approved stays what the post shows.  The first part excepts plans in `revived`: a plan that was paused and then replaced
stays resumable, since `control_job` does not look at the week when it resumes one,
and both plans then make the week.  The comment in `plan_week` (`studio/autopilot.py`)
says that a re-plan cannot duplicate paid work or approval posts; without the exception
TLC finds that case, and the same with a discarded brief that a late page revives.

What `publish_group` says of a client's hold (`BrakeStopsWrites`): between the due query
and the claim the code holds no lock, and a hold placed there, on any channel of the
post, must still stop the row; so must one placed before a retry.  The property is
about what leaves, not about the claim: while a channel is held the engine writes only
for a channel that had its claim when the first hold was placed, and once, as the retry
of a write that fails under the hold waits.  Without the look under the lock
(`HeldAtTheQuery`) TLC finds the write.

What `gate_review` says of a stale stamp (`StaleApprovalIsWatched`): it is about to be
looked at or withdrawn, unless a re-check was lost, and then only until the next change or
the next re-check.  A stale stamp that nobody watches is stopped by the worker's own looks
(`ClearedIsApproved`), which need no re-check.

What it says of a conversation (`OneDraftPerCard`): a card starts at most one draft,
although the draft is committed before the job that starts it has ended; a draft rests on
the evidence its card showed, although `_confirm` reads the evidence again before it takes
a lock; no more drafts wait than the cap; and no draft comes from a job that has been
stopped, nor for a person who has left.

What `services` shows, in the words of the properties: a fault costs at most one
second comment (`OneFirstComment`); a digest is
tried a bounded number of times, and mailed once more per claim that lapsed (`MailIsBounded`);
only approved content is committed (`OnlyApprovedPages`), a published article's page
and its place in the index are on the branch (`SiteIsTrue`); a segment marked sent was
received, and nothing is received twice or out of order (`CardIsTrue`); a button decides
once and only about what its card showed (`ExactDecision`); two posts of a channel
share a slot only if a person put them there (`SlotsNotShared`); a date of a series comes
once (`EachDateOnce`); nobody gets more alerts than the cap or the same notice twice
(`NoNagging`); the thread shows what the customer got (`ThreadIsTrue`); a task has one
schedule, and it goes on (`OneSchedule`); a key makes one resource and one send per day,
and who is told "created" finds what they asked for (`OneResourcePerKey`); no race of
refreshes, probes, reconnects and disconnects leaves a rotated token in the row or a
working channel marked broken (`GrantIsKept`, which excepts a rotation whose answer was
lost, a token being saved or revoked, and a row whose grant is older than one that ended
it: the callback that got the new one is under way, has failed, or was overtaken by an
older callback, as nothing orders them); an asset keeps the files of its versions,
shows the current one, and is registered once per upload, with its object there as long as
the upload has not expired and the quota has room for another (`MediaKept`: of two calls
that both inspected it, the later one must not delete what the first registered); everything
the services owe is settled (`ServicesSettle`).

**Bounds and why they are enough.**  `MaxAttempts` bounds platform writes per
channel; three allow an attempt, its retry and a deliberate reschedule after
both, with `MaxRetries = 1` (the code's 3 changes only how often the loop turns).
`MaxFaults = 1` allows one crash or lost lease at any step; a second one meets
the same claimed row as the first.  `MaxRequests` bounds web requests between
load and save; one suffices for a race with the worker (the two operations left out,
submit and resume, lead into statuses that approvals and withdrawals reach too), two (scene `rivals`) for a
race between people.  Two versions of text, attachments and time tell "approved"
from "changed", and a third value would only be another change.

In the studio two stages make a hand-over, three revisions a restart of a restart,
two replies a routine's run and its next, two switches of the policy an
archive and a restore, and one death any crash with the recovery from it.  In the
services there are two workers, which is one more than the deployment runs on purpose
and what a deploy or a lost lease makes of it; each service gets one
fault and retries up to its own limit (2 where the code has 3, so that both the
retry and the exhaustion happen); two articles make one the other's bystander in the
index; three segments have a first, a middle and a last; two taps are the
double click and the two buttons; three posts and three slots with a gap let an
operation move a ladder of two; a horizon of two days and a clock of one let the
horizon move; one alert a day and two posts make the cap bite; three requests with two bodies are a
claim, its loser and a reuse of the key; three grants are a connection, a rotation and a
reconnection, or two callbacks that overlap; four versions and files allow two edits, a restore and
another; two finalize calls race.  The workers that
publish articles are alike, so the first that is free takes the task (`FirstFreeWrites`).
A week has two plans, so that one can be replaced, one
idea in each, room for one active brief, and two revisions of it; one page with a copy of
a brief is enough to be late (pages occur in the scene `producers`); one process makes the
agency tick because the recurring task runs one at a time, and `PlanWeek` is one step
because the lock of the settings row makes it one.  The scenes keep these apart
(`WeekNext`, `DraftsNext`): replacing a plan and reworking a draft are not
interleaved, nor two workers with deaths.  A conversation has three messages (an idea, a
change or a second idea, and a tap; or an idea and two taps), two where drafts start by
themselves; a cap of one, which makes the second draft wait and a third be refused; two
revisions of a job, one mishap, two versions of the evidence; a draft that waits is not
discarded, and evidence grows old while no job runs.  Any other reason to refuse a tap
(budget, accounts, photo) is a free choice of `Confirm`.  The theorems below
remove the bounds for what they state.

**Deadlock.**  The publishing, studio and service runs set `CHECK_DEADLOCK FALSE`: a
published post, a finished job, a settled mail or one whose bound on attempts is used up
is finished.  The gate's run checks for deadlock: content can always be edited.

**Fairness.**  In `publish_worker` and `publish_stranded`, weak fairness of
the worker's own steps: `run_worker` re-registers the recurring publish cycle
and sweep at every start and the platform service restarts it, so a cycle that
stays possible eventually happens; a thread's next step is its own code or an
HTTP call with a timeout (`Answer` may always be "lost").  Weak fairness of the
clocks that end a backoff and age a claim, and of a request's write-back.  No
fairness of people, of edits, of crashes, of the platform finishing an upload,
or of a row becoming due.  In the studio and the services the same: a step that a
worker has begun goes on (weak); work that is due is taken up by some worker, who
may find something else first each time but not for ever (strong, as the table is
polled in order of priority and time); kinds of work that one worker polls share a
condition; the sweeps that are recurring tasks run and the
clocks move (weak).  Nobody is ever required to press anything.  `StudioSettles` says "from some time on all
is settled" rather than "whatever is asked for is settled": the bounds make requests
finite, so that the two agree, and the first is one formula for TLC.

### What the violations show

* `publish_api_cancel`: `composer/services.py` `transition_platform_post` saves
  without the status guard that `save_guarded` has, so an API or MCP cancel that
  races the worker writes Draft over Published, and the post can be sent twice.
  The function is also called by `approvals/views.py`
  `_schedule_at_approved_time`, where it can write Scheduled over a client's hold.
* `publish_stranded`: the sweep returns before looking at the row's age if the
  provider object cannot be built, and the row stays in `publishing`, where
  nobody can edit it.
* `gate_media`: attachments are read again in `_dispatch_to_provider` after the
  last look, so an edit between the two is sent unapproved.  Everything else the
  thread sends is proved to be what was approved (`LastLookHolds`).
* `studio_unarchive`: a job held by a policy pause loses its task and grows old. Once
  the policy is lifted, `sweep_stuck` (`studio/engine.py:465`) fails it as interrupted if
  it comes before `resume_paused_jobs`, which was to restore it.
* `queue_history`: `prioritize` (`calendar/services.py:220`) never asks whether the post
  it is called for has been claimed or published, and gives it a future time.
* `media_originals`: an edit asked for while another is pending names the same file as
  its predecessor.  When the first has replaced the asset's file and the second fails,
  `_discard_failed_version` (`media_library/tasks.py:248`) compares with the asset's file only,
  and deletes the untouched upload, which `_keep_original_version` had given a version of
  its own to be restorable.

Without a run of its own: `_compute_recurrence_dates` (`calendar/tasks.py:192`) counts a
safety limit of steps from the source's date, so that a series without an end stops.
`Recurrence!SeriesIsIndefinite` says the contrary and is violated under
`RecurrenceFairSpec`.  And `_confirm` (`studio/jobtypes/chat.py:1559`) means not to "confirm
the old snapshot while a delayed model turn is collecting the person's changes", but looks
for messages after the card only: of two ideas sent in a row, the first one's card is
posted below the second message, and a tap on it starts a draft while the second is still
queued.  `TeamThread!ChangesAreCollected` is violated that way under `ThreadSpec`, in ten
steps.

## 4. Proofs

`PublishingProofs!TypeCorrect` holds for all constants.  The safety theorems in
`PublishingSafety` assume, besides the constants' types, what the deployment
promises:

* `OneWorker`: there is one worker process, which may crash, lose its lease and
  restart, but not overlap with a second one: neither a stand-alone
  `run_publisher`, nor a successor that took the lease while a thread of the
  first still hangs.  Without it most of these properties fail: a
  thread that lost its row to a successor's sweep can still save its stale copy
  through `_schedule_retry` (give `publish_worker` a second worker to see it).
  `publish_rivals` shows what is left.
* `GuardedWeb`: web writes go through `save_guarded`.  `publish_api_cancel`
  is what happens otherwise.

None of the safety properties is inductive.  `IInv` joins the type invariant
with `Safe`, which says what each party may rely on:

* `RowOK`: a scheduled row has no handle, a claimed one no hold; a row that is
  neither claimed nor published has nothing open unless its outcome is held as
  unknown; a claimed row with a handle has nothing open but the attempt the
  handle names; a published row has a live attempt.
* `BooksOK`: attempts are numbered in order and none follows an open one.
* `ThreadOK`: while a thread runs its row is `publishing` without a handle; before
  its write nothing is open, after it nothing but its own attempt.
* `SweepOK`: no thread runs beside a sweep, and what the sweep read of a row still
  stands when it gets there.
* `RequestOK`: a request in progress read the row in a status its operation starts
  from; together with `save_guarded` this is why its stale copy cannot hurt.

Each action is shown to preserve each part it can disturb, the shared writes
(`Mark`, `FailPermanently`, `ScheduleRetry`, `BlockPublish`) through lemmas on
their effect.  The five theorems follow from `IInv`.

`ApprovalGateProofs` needs no assumption beyond the constants' types and holds for
any number of requests.  Its `IInv` says that a stamp names content only when an
approver put it there (`StampOK`, of the row and of every request); that a request
headed for the schedule carries such a stamp and one that read a held row is
headed for `approved` or `draft`; that a gated row is stamped; and that while the
thread runs the row is `publishing` under the stamp its text was checked with.
`StaleApprovalIsWatched` is proved inductive relative to it.

What these theorems do not depend on is as telling: `NoDoublePost` needs no
fairness, no bound on faults and no assumption on the platform other than that an
acceptance is not a lie (`Answer`).

**The refinement and the budget** (`PublishingRefinement`, under `OneWorker` and
`GuardedWeb`).  `StepEffect` says that apart from the claim of a group a step touches at
most one channel, in one of nine ways (settled, recorded, claimed, ruled upon, answered
by the platform, ...), each with what `IInv` knows of the channel at that moment.  Two
theorems read it off: under the mapping of `MCPublishing` each way is an action of
`Delivery` on that channel or a stutter (`EngineImplementsDelivery`), and of all of them
only the ruling ends the hold on an unknown outcome (`PeopleAnswerUnknowns`).
`BrakeHolds` needs neither assumption, only the types: a step that begins and ends under
a hold makes no claim, whatever the query found, so that the channels with a thread
before its write can only become fewer; and a write uses such a thread up.  `BudgetIsKept` has a second inductive invariant, `BudgetOK`: a scheduled row was
tried no more often than its `retry_count` says, and a thread's copy of that count
(`ThreadBudget`) is at most one behind, and not before it sends.

**The studio** (`StudioProofs`, no assumption besides the constants').  The theorems are
about `MCStudio!Spec`, all scenes together.  `Ledger(j)` is what lies under
`StagesPaidOnce`: a stage is paid for at most once, and only if the job is past the moment
at which that stage of that revision was taken up (`Passed`); and at most one worker is in
the current revision of a job, in its current stage.  Comparing each of some forty actions
with it would hide the argument, so `Moves` lists the few ways in which rows, workers and
bills may change together: every action is shown to make one of these moves, and the
ledger survives each.  `StopIsFinal` is read off the same list.  `RoutineInv` ties the
open runs of a routine to its status and lease, unless a Resume was late for a run.

Conversations are apart (`ThreadApart`).  A job answers only when it ends, and what an
ended job showed does not change; only cards that carry an answer are tapped, and a job
keeps the tap it was made for (`TalkSound`).  So the card that `_confirm` read before it
took a lock still shows what it showed, while evidence, revisions and the person may all
have changed: those it compares under the lock.  `DraftsSound` then carries the drafts:
the look for an earlier draft of the card or of the job is in the transaction that adds
one, hence one per card and per job, resting on what the card showed, within the cap.

For weeks (`WeekSound`) four facts are needed beside the property.  `PlanSound`: a plan
that is no longer the week's has ended, and its brief with it, unless a person or a late
page revived it; `plan_week` may replace only a plan whose brief nobody has begun, and
no way leads from an ended job or a discarded brief back (`Flows`).  `TickSound`: `announce_planned_weeks` reads
the plan and settles the week later; what it read stays true while the week has the status
it was read with, since carrying out a plan is never undone and a new plan changes that
status.  `StepsSound`: a task of the team is about a brief that was handed out, so a step
or a sweep that comes late finds a brief it may fail but none that could become new.
`PagesSound` carries the late pages: one that still holds the brief's present revision and
found its post approved saves what is so; any other save makes its plan `belated`.
Every action is shown to be one of these flows first, and `WeekSound` to survive it.

**The services.**  `ServicesApart` and `ReviewApart` show that every behaviour of
`MCServices` is a behaviour of each of these services alone; the theorems of
`ServicesProofs`, `BlogProofs` and `TelegramProofs` are about the service alone and so hold in the
composition.  Each has an inductive invariant of its own:

* `DatesLedger`: a date has its occurrence only with its line in the ledger of the
  database; the copy a generator carries is irrelevant, as the rule is read again.
* `Reminding`: who holds the lock of a post or of the people, that what was counted under
  it still is the count, and that the receipts say what was sent.
* `GrantSound`: only one refresh at a time asks the platform, and the token it was given
  is known to nobody else until it is saved; the grant of a callback under way is known
  to nobody else either, and accepted unless a later one ended it; a failure about to be
  noted on this grant is one the platform really answered.
* `CommentsCounted`, `MailCounted`, `RowsCounted`: what is there and what is still to come
  from tasks and processes is at most one, plus one for each fault (for mail: at most the
  attempts charged, and one for each sweep that lapsed).  Processes form a finite set,
  and the counts are cardinalities.  `NeverGone` is the other half for the schedule:
  there is always a row that nobody is about to delete, because the next one is inserted
  before the last one goes.
* `MediaSound`: a pending edit is the newest version, and its file is its own unless it is
  already the asset's (as long as edits do not overlap); the version it would fall back to
  is the asset's file; an upload that was inspected has its object unless the sweep has
  been there.  `Largest`, that a finite set of numbers has a greatest one, comes from the
  library's well-founded order on finite subsets.
* `KeySound`: a record being worked on belongs to one caller, whose body it fingerprints;
  a caller between its insert and its commit is the one that is not counted in `made` yet.
* `ThreadSound`: who holds the row's lock sends what the row says, and it is sendable
  until the answer is recorded.
* `SlotsSound`: one request holds the channel, and the plan it carries gives two posts of
  its queue different instants, none of them one where another post stays (`PlanApart`).
* `CardSound`: a segment that is claimed, sent or of unknown outcome comes after sent
  ones only; a sender's claim is the last one its row counted, even after
  `recover_stale_deliveries` has called it unknown, and nobody else sends that segment.
* `DecisionSound`: a button that has decided is used, and as long as the post is as shown
  and was not moved in the dashboard no button has.
* `Typed /\ Sound` of `BlogProofs`: an article's content only moves forward, and a task's
  content is at most the approved one; a task that may still write compared the claim after
  it read a head that has not moved, so its content is at least the page's.

`ServicesTyped` joins the types of all services.  Most follow from the invariants above;
what they do not say is bounded by conjuncts of its own, and for two limits there is an
argument.  `AttemptsBounded`: a delivery dispatched where it was made may be picked by
several processes, but each writes the attempt it counted on its copy, which was below
the limit when it was read.  `RetriesBounded`: the retries of a first comment can pass
their limit, by one for each fault at most.  The worker counts the retry on the row, but
compares the limit with the copy it loaded; a second run of the task, which only a fault
makes, may therefore count once more.  Tasks in flight are at most one more than the
faults, and the workers that will still count a retry (`Eager`) are among them.

Some properties stay with TLC.  `StudioSettles`, `ServicesSettle`, `EveryClaimSettles`
and `EveryDueRowIsAnswered` are liveness, and rest on `ENABLED` through fairness.
Every invariant and every action property that a run expects to hold is a theorem; the
two that `publish_rivals` checks for rival publishers and unguarded writes are proved
under `OneWorker` and `GuardedWeb` only.

## 5. Not modelled

* In `Publishing`: rate-limit counters, media download and post-type resolution (they
  appear as a failure before the dispatch), thread pool sizes, `delivery_holds`
  fingerprints and attempt ids, notifications, the queue entries dropped with a
  publish, several posts at once (rows of different posts share only the pools).
* In `ApprovalGate`: the brief and trust blockers of the studio (a further reason
  to refuse), destination changes, the unguarded API writes (see
  `publish_api_cancel`), what a reviewer's page showed when they clicked, the
  audit trail.
* In `StudioJobs`: what a stage writes besides its own row, prompts, budgets, progress
  texts; the Retry of kinds other than articles.
* In `AgencyWeek`: what steps write besides the brief, the trust and budget checks (a
  step that fails), several ideas per plan, the blog jobs of a plan, the report of a week
  and the creative memory.
* In `TeamThread`: client threads and Telegram's pairing (who may speak is `isMember`),
  the other actions a message may ask for (changes of a draft, routines, articles), the
  day's limit on replies, what fills a brief's fields.
* In `BlogPublishing`: the revision of an article (an edit always moves the text
  forward), rendering (a page is its content), the deploy's own steps (an outcome), the
  claim's pieces inside one transaction.
* In `TelegramReview`: kinds of action other than approve and reject, the answers to a
  tap, media fallbacks, prerequisites of other messages.
* In `PostingQueue`: a post in several queues, entry positions.  In `Recurrence`: rules
  other than daily, a source whose time is moved; a hold is looked at when a cycle starts.
* In `ApprovalReminders`: the client stage, which repeats the review stage.  In
  `RecurringTasks`: `MAX_RUN_TIME`, a restored database, a failed registration; the
  library's order of insert and delete is taken from its documented behaviour.
* In `ApiRequests`: the fingerprint's computation, rate limits and quotas (a failure before
  the resource exists).  In `AccountTokens`: follower counts, webhooks, platforms without
  refresh tokens.  In `MediaLibrary`: thumbnails, deletion of assets, deaths inside the
  clean-up of a failed edit.  The cap on a day's mail (`common/mail.py`).
* In `InboxReplies`: imports and assignment.  A reply whose answer was lost is shown as
  refused, and trying again may send it twice; the model counts that (`untold`).

The map covers a small share of the repository.  Most of its lines are
views that render and validate, prompts and their parsing, analytics and scoring over
imported data, adapters of two dozen platforms and their texts: sequential
code between a request and a row, where a unit test says what there is to say.
`PROJECT.json` gives the reason for each component.

## 6. Plan

Next, in this order:

1. Candidates for new modules: the mail budget (`common/mail.py`), and invitations
   (`members/services.py`), each with its theorems.
2. `publish_rivals`: what remains true with two publisher processes, as a theorem without
   `OneWorker`.
