----------------------------- MODULE AgencyWeek -----------------------------
(***************************************************************************)
(* Autopilot's week (apps/studio/autopilot.py, pipeline.py, services.py,   *)
(* jobtypes/plan.py).  A plan is a job of StudioJobs; its last stage makes *)
(* briefs, which wait until the feeder hands them to the team.  The team   *)
(* works on a brief in steps, each a task of its own, and hands the post   *)
(* over for approval.  People change, retry, discard and approve           *)
(* meanwhile, and may plan the week again once its plan has failed.  A     *)
(* page that finds the post approved writes the brief as it had read it,   *)
(* without a lock: the write may come after the brief has moved on.        *)
(***************************************************************************)
EXTENDS StudioJobs

CONSTANTS
    Plans,              \* plan jobs for one week: the Automatic ones by the tick, the others by a person
    NoPlan,
    MaxActiveBriefs,    \* AGENCY_MAX_ACTIVE_BRIEFS
    MaxBriefRevision,   \* bound: times a brief may be asked for again, plus one
    MaxPages            \* bound: requests that work on their own copy of a brief at once

ASSUME WeekAssumption ==
    /\ Plans \subseteq Jobs \ Chats /\ NoPlan \notin Jobs
    /\ MaxActiveBriefs \in Nat \ {0} /\ MaxBriefRevision \in Nat \ {0} /\ MaxPages \in Nat

VARIABLES
    week,       \* the AutopilotWeek row: its status and its plan
    brief,      \* brief[p]: the StudioBrief that plan p makes
    post,       \* post[p]: the post of that brief, the revision it shows and the one approved
    steps,      \* tasks of run_studio_step; a locked task stays in the table until it ends
    producer,   \* producer[w]: the step or the sweep of briefs that worker w is in
    tick,       \* what announce_planned_weeks has read
    told,       \* "your week is ready" notices
    pages,      \* web requests with a copy of a brief: its plan, its revision, what they saw
    belated,    \* history: plans whose brief a page marked approved after it had moved on
    revived     \* history: plans resumed or retried after the week was planned again, and
                \* those whose discarded brief a late page brought back

pageVars == <<pages, belated>>
weekVars == <<week, brief, post, steps, producer, tick, told, pageVars, revived>>

BriefRevisions == 1..MaxBriefRevision
BriefStatuses == Active \cup {"none", "planned", "ready", "approved", "failed", "discarded"}
Step == [plan : Plans, rev : BriefRevisions, stage : {"make", "handoff"}]
Page == [plan : Plans, rev : BriefRevisions, saw : {"ready", "approved", "sent_back"}]

Free == [does |-> "nothing"]
NoTick == [seen |-> "nothing"]
NoPost == [status |-> "none", shows |-> 0, approved |-> 0]

WeekTypeOK ==
    /\ week \in [status : {"none", "skipped", "planning", "planned", "failed"}, plan : Plans \cup {NoPlan}]
    /\ brief \in [Plans -> [status : BriefStatuses, rev : BriefRevisions, stage : {"make", "handoff"},
                            held : BOOLEAN, old : BOOLEAN]]
    /\ post \in [Plans -> [status : {"none", "review", "changes", "approved"},
                           shows : 0..MaxBriefRevision, approved : 0..MaxBriefRevision]]
    /\ steps \subseteq Step
    /\ \A w \in Workers :
         \/ producer[w] = Free
         \/ producer[w].does \in {"step", "tidying"} /\ producer[w].task \in steps
         \/ producer[w].does = "sweep" /\ producer[w].seen \subseteq Plans \X BriefRevisions
    /\ told \in Nat /\ pages \subseteq Page /\ belated \subseteq Plans /\ revived \subseteq Plans

WeekInit ==
    /\ week = [status |-> "none", plan |-> NoPlan]
    /\ brief = [p \in Plans |-> [status |-> "none", rev |-> 1, stage |-> "make", held |-> FALSE, old |-> FALSE]]
    /\ post = [p \in Plans |-> NoPost]
    /\ steps = {} /\ producer = [w \in Workers |-> Free] /\ tick = NoTick
    /\ told = 0 /\ pages = {} /\ belated = {} /\ revived = {}

-----------------------------------------------------------------------------
(* Planning the week.                                                      *)

Unmade(p) == brief[p].status \in {"none", "planned", "discarded"}

\* (Mutant of Replaceable: a plan that has ended may be replaced, whatever it made.)
ReplaceableOnceEnded(p) == p # NoPlan => job[p].status \notin Active

\* Nothing is lost when the plan is replaced: it is not running, and no draft
\* of it has been begun.
Replaceable(p) == p # NoPlan => job[p].status \notin Active /\ Unmade(p)

\* plan_week, one transaction under the lock of the settings row: retires the
\* untouched output of the plan it replaces.
PlanWeek(p) ==
    /\ job[p].status = "none" /\ ~Blocked(p)
    /\ \/ week.status = "none"
       \/ week.status = "skipped" /\ week.plan = NoPlan
       \/ week.status \in {"skipped", "failed"} /\ p \notin Automatic /\ Replaceable(week.plan)
    /\ job' = [j \in Jobs |->
                 IF j = p THEN [job[j] EXCEPT !.status = "queued"]
                 ELSE IF j = week.plan /\ job[j].status # "done"
                 THEN [job[j] EXCEPT !.status = "cancelled", !.old = FALSE] ELSE job[j]]
    /\ brief' = [q \in Plans |-> IF q = week.plan /\ brief[q].status = "planned"
                                 THEN [brief[q] EXCEPT !.status = "discarded"] ELSE brief[q]]
    /\ week' = [status |-> "planning", plan |-> p]
    /\ Enqueue(queue, p, 1, 1)
    /\ UNCHANGED <<at, policy, retries, paid, clobbered, switches, post, steps, producer, tick, told, pageVars, revived>>

\* The tick notes a week that it cannot plan: no lead, no account, no budget.
SkipWeek ==
    /\ policy = "open" /\ week.status = "none"
    /\ week' = [week EXCEPT !.status = "skipped"]
    /\ UNCHANGED <<studioVars, brief, post, steps, producer, tick, told, pageVars, revived>>

\* stage_brief, one idea: the brief and the job's note of it in one transaction,
\* which the guard of the job's revision rolls back.
MakeBrief(w) ==
    /\ at[w].does = "stage" /\ at[w].task.job \in Plans /\ at[w].task.stage = LastStage
    /\ LET p == at[w].task.job
       IN  /\ StillMine(at[w].task) /\ brief[p].status = "none"
           /\ brief' = [brief EXCEPT ![p].status = "planned"]
           /\ Write(p, TRUE, job[p])
    /\ UNCHANGED <<queue, at, policy, retries, paid, clobbered, deaths, switches,
                   week, post, steps, producer, tick, told, pageVars, revived>>

\* A plan without a brief is a failed plan ("no free posting time left").
NothingMade == \E p \in Plans : job[p].status # "done" /\ job'[p].status = "done" /\ brief[p].status = "none"

-----------------------------------------------------------------------------
(* Handing briefs to the team.                                             *)

\* Tasks are queued when the transaction has committed, if the process lives.
EnqueueSteps(tasks) ==
    \/ steps' = steps \cup tasks /\ UNCHANGED deaths
    \/ tasks # {} /\ deaths < MaxDeaths /\ deaths' = deaths + 1 /\ UNCHANGED steps

TaskOf(p, b) == [plan |-> p, rev |-> b.rev, stage |-> b.stage]

\* automatic_work_blocker for a brief: also until its plan is done.
BriefBlocked(p) == Blocked(p) \/ job[p].status # "done"

\* feed_planned_briefs, under its advisory lock: briefs of a cancelled plan are
\* dropped; held ones go first, then those that wait, while there is room.
Feed ==
    LET dropped  == {p \in Plans : brief[p].status = "planned" /\ job[p].status = "cancelled"}
        busy     == {p \in Plans : brief[p].status \in Active /\ ~brief[p].held}
        held     == {p \in Plans : brief[p].status = "queued" /\ brief[p].held /\ ~BriefBlocked(p)}
        waiting  == {p \in Plans : brief[p].status = "planned" /\ job[p].status = "done" /\ ~Blocked(p)}
        started(p) == [brief[p] EXCEPT !.status = "queued", !.held = FALSE, !.old = FALSE]
    IN  \E chosen \in SUBSET (held \cup waiting) :
          /\ Cardinality(chosen) + Cardinality(busy) <= MaxActiveBriefs \/ chosen = {}
          /\ chosen \cap waiting # {} => held \subseteq chosen
          /\ chosen # {} \/ Cardinality(busy) >= MaxActiveBriefs \/ held \cup waiting = {}
          /\ dropped \cup chosen # {}
          /\ brief' = [p \in Plans |-> IF p \in chosen THEN started(p)
                                       ELSE IF p \in dropped THEN [brief[p] EXCEPT !.status = "discarded"]
                                       ELSE brief[p]]
          /\ EnqueueSteps({TaskOf(p, brief[p]) : p \in chosen})
    /\ UNCHANGED <<job, queue, at, policy, retries, paid, clobbered, switches,
                   week, post, producer, tick, told, pageVars, revived>>

-----------------------------------------------------------------------------
(* The team's steps.                                                       *)

Taken(t) == \E w \in Workers : producer[w].does \in {"step", "tidying"} /\ producer[w].task = t
Tidies(w) == producer' = [producer EXCEPT ![w].does = "tidying"]
Moved(p, fields) == [brief EXCEPT ![p] = [fields EXCEPT !.old = FALSE]]

\* pipeline.run_step up to the step.
StartStep(w, t) ==
    /\ producer[w] = Free /\ at[w] = Resting /\ t \in steps /\ ~Taken(t)
    /\ LET p == t.plan
           b == brief[p]
           due == b.rev = t.rev /\ b.stage = t.stage /\ b.status = "queued"
           works == due /\ ~BriefBlocked(p)
       IN  /\ producer' = [producer EXCEPT ![w] = [does |-> IF works THEN "step" ELSE "tidying", task |-> t]]
           /\ brief' = IF ~due THEN brief
                       ELSE IF job[p].status = "cancelled"
                       THEN Moved(p, [b EXCEPT !.status = "discarded"])
                       ELSE IF works THEN Moved(p, [b EXCEPT !.status = "working", !.held = FALSE])
                       ELSE Moved(p, [b EXCEPT !.held = TRUE])
    /\ UNCHANGED <<studioVars, week, post, steps, tick, told, pageVars, revived>>

\* The guard of pipeline._save and of the hand-over.
StepStillMine(t) == brief[t.plan].status = "working" /\ brief[t.plan].rev = t.rev

\* pipeline._fail: whatever the brief is doing in that revision, unless discarded.
BriefFails(p, rev) ==
    IF brief[p].rev = rev /\ brief[p].status # "discarded"
    THEN Moved(p, [brief[p] EXCEPT !.status = "failed"]) ELSE brief

StepPassesOn(w) ==
    /\ producer[w].does = "step" /\ producer[w].task.stage = "make" /\ Tidies(w)
    /\ LET t == producer[w].task
       IN  IF StepStillMine(t)
           THEN /\ brief' = Moved(t.plan, [brief[t.plan] EXCEPT !.status = "queued", !.stage = "handoff"])
                /\ EnqueueSteps({[t EXCEPT !.stage = "handoff"]})
           ELSE UNCHANGED <<brief, steps, deaths>>
    /\ UNCHANGED <<job, queue, at, policy, retries, paid, clobbered, switches, week, post, tick, told, pageVars, revived>>

\* The budget, a model's answer, a missing account, a crash of the step.
StepFails(w) ==
    /\ producer[w].does = "step" /\ Tidies(w)
    /\ brief' = BriefFails(producer[w].task.plan, producer[w].task.rev)
    /\ UNCHANGED <<studioVars, week, post, steps, tick, told, pageVars, revived>>

OutOfReach(p) == post[p].status = "approved"

\* step_handoff: the post and the brief in one transaction, under both locks.
HandOff(w) ==
    /\ producer[w].does = "step" /\ producer[w].task.stage = "handoff" /\ Tidies(w)
    /\ LET t == producer[w].task
           p == t.plan
       IN  IF ~StepStillMine(t) THEN UNCHANGED <<brief, post>>
           ELSE IF OutOfReach(p) THEN brief' = BriefFails(p, t.rev) /\ UNCHANGED post
           ELSE /\ post' = [post EXCEPT ![p].status = "review", ![p].shows = t.rev]
                /\ brief' = Moved(p, [brief[p] EXCEPT !.status = "ready"])
    /\ UNCHANGED <<studioVars, week, steps, tick, told, pageVars, revived>>

StepEnds(w) ==
    /\ producer[w].does = "tidying"
    /\ steps' = steps \ {producer[w].task} /\ producer' = [producer EXCEPT ![w] = Free]
    /\ UNCHANGED <<studioVars, week, brief, post, tick, told, pageVars, revived>>

\* The worker dies; the next one releases its task lock.
ProducerDies(w) ==
    /\ producer[w] # Free /\ deaths < MaxDeaths /\ deaths' = deaths + 1
    /\ producer' = [producer EXCEPT ![w] = Free]
    /\ UNCHANGED <<job, queue, at, policy, retries, paid, clobbered, switches,
                   week, brief, post, steps, tick, told, pageVars, revived>>

\* pipeline.sweep_stuck lists the briefs nobody works on, and fails them one by one.
SweepBriefs(w) ==
    /\ producer[w] = Free /\ at[w] = Resting
    /\ LET stuck == {p \in Plans : /\ brief[p].status \in Active /\ brief[p].old /\ ~brief[p].held
                                   /\ brief[p].status = "queued" => TaskOf(p, brief[p]) \notin steps}
       IN  /\ stuck # {}
           /\ producer' = [producer EXCEPT ![w] = [does |-> "sweep", seen |-> {<<p, brief[p].rev>> : p \in stuck}]]
    /\ UNCHANGED <<studioVars, week, brief, post, steps, tick, told, pageVars, revived>>

SweepBrief(w) ==
    /\ producer[w].does = "sweep"
    /\ \E s \in producer[w].seen :
         /\ brief' = BriefFails(s[1], s[2])
         /\ LET rest == producer[w].seen \ {s}
            IN  producer' = [producer EXCEPT ![w] = IF rest = {} THEN Free ELSE [does |-> "sweep", seen |-> rest]]
    /\ UNCHANGED <<studioVars, week, post, steps, tick, told, pageVars, revived>>

BriefAges(p) ==
    /\ brief[p].status \in Active /\ ~brief[p].old
    /\ brief' = [brief EXCEPT ![p].old = TRUE]
    /\ UNCHANGED <<studioVars, week, post, steps, producer, tick, told, pageVars, revived>>

-----------------------------------------------------------------------------
(* People.                                                                 *)

\* A new revision, from the given stage.
Again(p, stage) ==
    LET b == [status |-> "queued", rev |-> brief[p].rev + 1, stage |-> stage, held |-> FALSE, old |-> FALSE]
    IN  /\ brief[p].rev < MaxBriefRevision
        /\ brief' = [brief EXCEPT ![p] = b] /\ belated' = belated \ {p}
        /\ EnqueueSteps({TaskOf(p, b)})

\* services.request_changes: the draft under review is withdrawn.  An approved
\* brief is open again once its post has been sent back.
RequestChanges(p) ==
    /\ policy # "archived" /\ post[p].status # "approved"
    /\ brief[p].status \in {"ready", "failed"} \/ (brief[p].status = "approved" /\ post[p].status = "changes")
    /\ Again(p, "make")
    /\ post' = [post EXCEPT ![p].status = IF @ = "review" THEN "changes" ELSE @]
    /\ UNCHANGED <<job, queue, at, policy, retries, paid, clobbered, switches, week, producer, tick, told, pages, revived>>

\* services.retry: the draft under review stays where it is.
RetryBrief(p) ==
    /\ brief[p].status = "failed" /\ post[p].status # "approved"
    /\ Again(p, brief[p].stage)
    /\ UNCHANGED <<job, queue, at, policy, retries, paid, clobbered, switches, week, post, producer, tick, told, pages, revived>>

DiscardBrief(p) ==
    /\ brief[p].status \notin {"none", "discarded"} /\ post[p].status # "approved"
    /\ brief' = [brief EXCEPT ![p].status = "discarded", ![p].old = FALSE]
    /\ post' = [post EXCEPT ![p] = NoPost] /\ belated' = belated \ {p}
    /\ UNCHANGED <<studioVars, week, steps, producer, tick, told, pages, revived>>

\* On the brief's page or on the Approvals page ...
ApprovePost(p) ==
    /\ post[p].status = "review"
    /\ post' = [post EXCEPT ![p].status = "approved", ![p].approved = post[p].shows]
    /\ UNCHANGED <<studioVars, week, brief, steps, producer, tick, told, pageVars, revived>>

\* ... and the brief follows.  Its page and the agency home load it, look at the
\* post, and write; nothing is locked (approve, sync_status, reopen_sent_back).
OpenBrief(p) ==
    /\ Cardinality(pages) < MaxPages
    /\ \E saw \in {"ready", "sent_back"} :
         /\ saw = "ready" => brief[p].status = "ready"
         /\ saw = "sent_back" => brief[p].status = "approved" /\ post[p].status = "changes"
         /\ pages' = pages \cup {[plan |-> p, rev |-> brief[p].rev, saw |-> saw]}
    /\ UNCHANGED <<studioVars, week, brief, post, steps, producer, tick, told, belated, revived>>

\* The post was approved elsewhere, or by this very page.
FindApproved(g) ==
    /\ g.saw = "ready" /\ post[g.plan].status = "approved"
    /\ pages' = (pages \ {g}) \cup {[g EXCEPT !.saw = "approved"]}
    /\ UNCHANGED <<studioVars, week, brief, post, steps, producer, tick, told, belated, revived>>

\* The brief is saved as approved, whatever has become of it.
SaveApproved(g) ==
    /\ g.saw = "approved" /\ pages' = pages \ {g}
    /\ LET p    == g.plan
           late == brief[p].rev # g.rev \/ brief[p].status \notin {"ready", "approved"}
       IN  /\ brief' = Moved(p, [brief[p] EXCEPT !.status = "approved"])
           /\ belated' = IF late THEN belated \cup {p} ELSE belated
           /\ revived' = IF brief[p].status = "discarded" THEN revived \cup {p} ELSE revived
    /\ UNCHANGED <<studioVars, week, post, steps, producer, tick, told>>

\* An UPDATE of a brief that is still approved.
ReopenBrief(g) ==
    /\ g.saw = "sent_back" /\ pages' = pages \ {g}
    /\ brief' = IF brief[g.plan].status = "approved"
                THEN Moved(g.plan, [brief[g.plan] EXCEPT !.status = "ready"]) ELSE brief
    /\ UNCHANGED <<studioVars, week, post, steps, producer, tick, told, belated, revived>>

\* The post was not approved, or the web process died.
PageEnds(g) ==
    /\ pages' = pages \ {g}
    /\ UNCHANGED <<studioVars, week, brief, post, steps, producer, tick, told, belated, revived>>

\* A reviewer or the client sends the post back.
SendBack(p) ==
    /\ post[p].status = "approved"
    /\ post' = [post EXCEPT ![p].status = "changes", ![p].approved = 0]
    /\ UNCHANGED <<studioVars, week, brief, steps, producer, tick, told, pageVars, revived>>

\* control_job: pause, stop, resume and retry of a plan.
StopPlan(p) == ControlStop(p) /\ UNCHANGED weekVars
ResumePlan(p) ==
    /\ RetryLocked(p)
    /\ revived' = IF week.plan = p THEN revived ELSE revived \cup {p}
    /\ UNCHANGED <<week, brief, post, steps, producer, tick, told, pageVars>>

-----------------------------------------------------------------------------
(* Announcing the week.                                                    *)

\* announce_planned_weeks: what the rows say about the week's plan.
Verdict ==
    LET plan == job[week.plan].status
        made == brief[week.plan].status
    IN  IF plan \in Active THEN "running"
        ELSE IF plan \in {"failed", "cancelled"} THEN "stopped"
        ELSE CASE made \in Active \cup {"planned"} -> "busy"
               [] made = "failed"                  -> "incomplete"
               [] made \in {"ready", "approved"}   -> "ready"
               [] OTHER                            -> "unmade"

\* (A tick that finds nothing to settle leaves nothing behind.)
AnnounceReads ==
    /\ tick = NoTick /\ week.plan # NoPlan /\ week.status \in {"planning", "failed"}
    /\ Verdict # "busy" /\ (Verdict = "running" => week.status = "failed")
    /\ tick' = [seen |-> week.status, verdict |-> Verdict]
    /\ UNCHANGED <<studioVars, week, brief, post, steps, producer, told, pageVars, revived>>

\* Every settlement is an UPDATE on the status it was decided from.
Unmoved(status) == week.status = status

AnnounceWrites ==
    /\ tick # NoTick /\ tick' = NoTick
    /\ LET settled == CASE tick.verdict = "running" /\ Unmoved("failed")                  -> "planning"
                        [] tick.verdict \in {"stopped", "unmade"} /\ Unmoved("planning")  -> "failed"
                        [] tick.verdict = "incomplete" /\ Unmoved(tick.seen)              -> "failed"
                        [] tick.verdict = "ready" /\ Unmoved(tick.seen)                   -> "planned"
                        [] OTHER                                                          -> week.status
       IN  /\ week' = [week EXCEPT !.status = settled]
           /\ told' = IF tick.verdict = "ready" /\ Unmoved(tick.seen) THEN told + 1 ELSE told
    /\ UNCHANGED <<studioVars, brief, post, steps, producer, pageVars, revived>>

ProducerMoves(w) == StepPassesOn(w) \/ StepFails(w) \/ HandOff(w) \/ StepEnds(w) \/ SweepBrief(w)

AgencyNext ==
    \/ \E p \in Plans :
         \/ PlanWeek(p) \/ StopPlan(p) \/ ResumePlan(p)
         \/ RequestChanges(p) \/ RetryBrief(p) \/ DiscardBrief(p)
         \/ ApprovePost(p) \/ OpenBrief(p) \/ SendBack(p) \/ BriefAges(p)
    \/ \E g \in pages : FindApproved(g) \/ SaveApproved(g) \/ ReopenBrief(g) \/ PageEnds(g)
    \/ SkipWeek \/ Feed \/ AnnounceReads \/ AnnounceWrites
    \/ \E w \in Workers :
         \/ MakeBrief(w) \/ ProducerMoves(w) \/ ProducerDies(w) \/ SweepBriefs(w)
         \/ \E t \in steps : StartStep(w, t)

-----------------------------------------------------------------------------
\* A week is made once: unless a person resumed a plan that had been replaced, or
\* a late page brought a discarded brief back, the drafts of one plan only are
\* kept; nobody is told twice that the week is ready, nor of a plan that has not
\* been carried out; what was approved is what the post shows until a person
\* sends it back, although the team may still be working on it.  And until a late
\* page marks it, a brief that is ready or approved shows the revision last asked
\* for, and one that reads approved has a post that was approved in that revision.
WeekIsTrue ==
    /\ Cardinality({p \in Plans \ revived : brief[p].status \notin {"none", "discarded"}}) <= 1
    /\ told <= 1
    /\ week.status = "planned" => job[week.plan].status = "done" /\ brief[week.plan].status \notin {"none", "planned"}
    /\ \A p \in Plans : post[p].approved # 0 => post[p].status = "approved" /\ post[p].shows = post[p].approved
    /\ \A p \in Plans \ belated :
         /\ brief[p].status \in {"ready", "approved"} => post[p].shows = brief[p].rev
         /\ brief[p].status = "approved" => post[p].status \in {"approved", "changes"}

\* A brief that the team has, or that waits for it, is finished, and a week that
\* is being planned is settled, unless the policy holds them.
WeekSettled ==
    /\ \A p \in Plans :
         Blocked(p) \/ (/\ brief[p].status \notin Active
                       /\ brief[p].status = "planned" => job[p].status # "done")
    /\ week.status = "planning" => Blocked(week.plan)
===============================================================================
