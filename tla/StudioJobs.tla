------------------------------ MODULE StudioJobs ------------------------------
(***************************************************************************)
(* The AI team's job runner (apps/studio/engine.py).                       *)
(*                                                                         *)
(* A job is a row that moves through the stages of its kind, one worker    *)
(* task per stage.  A stage is a paid model call that takes minutes and is *)
(* not covered by any lock; people cancel, pause and retry meanwhile, a    *)
(* policy pause holds automatic work, workers die and are replaced, and a  *)
(* sweep fails the jobs nobody works on.  Every write of a stage names the *)
(* revision it was started for.                                            *)
(***************************************************************************)
EXTENDS Naturals, FiniteSets

CONSTANTS
    Jobs,          \* AgencyJob rows that may come to exist
    Automatic,     \* those that are unprompted work (weekly plans), held while autopilot is off
    Chats,         \* replies in a thread, which /stop ends; the other jobs are articles
    LastStage,     \* the stages of a kind are 1..LastStage
    Workers,       \* worker processes
    MaxRevision,   \* bound: times a job may be asked for again, plus one
    MaxDeaths,     \* bound: workers and web processes that die
    MaxSwitches,   \* bound: changes of the pause policy
    MaxRetries     \* bound: unlocked Retry requests (blog/views_team) in progress at once

ASSUME StudioAssumption ==
    /\ Automatic \subseteq Jobs /\ Chats \subseteq Jobs \ Automatic
    /\ LastStage \in Nat \ {0} /\ MaxRevision \in Nat \ {0}
    /\ {MaxDeaths, MaxSwitches, MaxRetries} \subseteq Nat

VARIABLES
    job,       \* the AgencyJob rows
    queue,     \* background tasks: a locked task stays in the table until it ends
    at,        \* at[w]: what worker w is doing
    policy,    \* what automatic_work_blocker reads: workspace archived, autopilot off, or neither
    retries,   \* Retry requests that loaded a failed job and have not yet written
    paid,      \* model calls started so far, per job, revision and stage
    clobbered, \* jobs a late Retry wrote over after the first one had been taken up
    deaths,    \* processes that died so far
    switches   \* policy changes so far

studioVars == <<job, queue, at, policy, retries, paid, clobbered, deaths, switches>>

Stages    == 1..LastStage
Revisions == 1..MaxRevision
Active    == {"queued", "working"}
Ended     == {"done", "failed", "cancelled"}
Policies  == {"open", "off", "archived"}
Copies    == 1..2 + MaxRetries

\* held: the error is one of PAUSE_REASONS.  paused: cancelled by the Pause
\* control, so that Resume may restart it.  old: updated_at is stuck_after ago.
Job  == [status : Active \cup Ended \cup {"none"}, rev : Revisions, stage : Stages,
         held : BOOLEAN, paused : BOOLEAN, old : BOOLEAN]
Task == [job : Jobs, rev : Revisions, stage : Stages, copy : Copies]
Seen == [job : Jobs, rev : Revisions, stage : Stages, status : Active]

Resting == [does |-> "nothing"]

StudioTypeOK ==
    /\ job \in [Jobs -> Job]
    /\ queue \subseteq Task
    /\ \A w \in Workers :
         \/ at[w] = Resting
         \/ at[w].does \in {"stage", "tidying"} /\ at[w].task \in queue
         \/ at[w].does = "sweep" /\ at[w].seen \subseteq Seen
    /\ policy \in Policies
    /\ retries \subseteq [job : Jobs, rev : Revisions, stage : Stages]
    /\ paid \in [Jobs -> [Revisions -> [Stages -> Nat]]]
    /\ clobbered \subseteq Jobs
    /\ deaths \in 0..MaxDeaths /\ switches \in 0..MaxSwitches

StudioInit ==
    /\ job = [j \in Jobs |-> [status |-> "none", rev |-> 1, stage |-> 1,
                              held |-> FALSE, paused |-> FALSE, old |-> FALSE]]
    /\ queue = {}
    /\ at = [w \in Workers |-> Resting]
    /\ policy = "open"
    /\ retries = {}
    /\ paid = [j \in Jobs |-> [r \in Revisions |-> [s \in Stages |-> 0]]]
    /\ clobbered = {}
    /\ deaths = 0 /\ switches = 0

-----------------------------------------------------------------------------
(* What the operations share.                                              *)

\* autopilot.automatic_work_blocker
Blocked(j) == policy = "archived" \/ (policy = "off" /\ j \in Automatic)

\* engine._has_pending_task: the table also holds the tasks being run.
HasPendingTask(j, rev, stage) == \E t \in queue : t.job = j /\ t.rev = rev /\ t.stage = stage

\* engine.enqueue: the task is inserted after the transaction commits; a
\* process that dies in between leaves the row without a task.
Enqueue(base, j, rev, stage) ==
    \/ /\ LET free == {c \in Copies : [job |-> j, rev |-> rev, stage |-> stage, copy |-> c] \notin base}
          IN \E c \in free : /\ \A d \in free : c <= d
                             /\ queue' = base \cup {[job |-> j, rev |-> rev, stage |-> stage, copy |-> c]}
       /\ UNCHANGED deaths
    \/ /\ deaths < MaxDeaths
       /\ queue' = base
       /\ deaths' = deaths + 1

\* A guarded UPDATE of one job: the new row if the guard still holds.
Write(j, guard, fields) ==
    job' = IF guard THEN [job EXCEPT ![j] = [fields EXCEPT !.old = FALSE]] ELSE job

\* (Mutant of StillMine: a stage's write is not refused once the job has been stopped.)
StillMineIfSameRevision(t) == job[t.job].rev = t.rev

\* The guard of engine.save: the revision of the stage, and still working.
StillMine(t) == job[t.job].rev = t.rev /\ job[t.job].status = "working"

\* engine.fail: any active row of that revision.
Fail(j, rev) ==
    Write(j, job[j].rev = rev /\ job[j].status \in Active,
          [job[j] EXCEPT !.status = "failed", !.held = FALSE])

-----------------------------------------------------------------------------
(* People and the policy.                                                  *)

\* engine.create
CreateJob(j) ==
    /\ job[j].status = "none"
    /\ job' = [job EXCEPT ![j].status = "queued"]
    /\ Enqueue(queue, j, 1, 1)
    /\ UNCHANGED <<at, policy, retries, paid, clobbered, switches>>

\* Telegram's /stop: engine.cancel, one UPDATE guarded by the status.
StopChat(j) ==
    /\ j \in Chats
    /\ job[j].status \in Active
    /\ Write(j, TRUE, [job[j] EXCEPT !.status = "cancelled"])
    /\ UNCHANGED <<queue, at, policy, retries, paid, clobbered, deaths, switches>>

\* opendots.control_job, pause and cancel: under the row lock, on a new
\* revision, so that nothing a running stage brings back is taken.
ControlStop(j) ==
    /\ job[j].rev < MaxRevision
    /\ \E keep \in BOOLEAN :
         /\ job[j].status \in Active \/ (~keep /\ job[j].status = "cancelled" /\ job[j].paused)
         /\ Write(j, TRUE, [job[j] EXCEPT !.status = "cancelled", !.paused = keep, !.rev = @ + 1])
    /\ UNCHANGED <<queue, at, policy, retries, paid, clobbered, deaths, switches>>

\* engine.restart of a copy of the row that was loaded at this revision and
\* stage: neither locked nor guarded.
Restart(j, rev, stage, paused) ==
    /\ rev < MaxRevision
    /\ job' = [job EXCEPT ![j] = [@ EXCEPT !.rev = rev + 1, !.stage = stage, !.status = "queued",
                                           !.held = FALSE, !.paused = paused, !.old = FALSE]]
    /\ Enqueue(queue, j, rev + 1, stage)

\* opendots.control_job, resume and retry: under the row lock, on the
\* revision the person's page showed.
RetryLocked(j) ==
    /\ job[j].status = "failed" \/ (job[j].status = "cancelled" /\ job[j].paused)
    /\ ~Blocked(j)
    /\ Restart(j, job[j].rev, job[j].stage, FALSE)
    /\ UNCHANGED <<at, policy, retries, paid, clobbered, switches>>

\* blog/views_team.team_retry loads the job and looks at its status...
RetryLoad(j) ==
    /\ j \notin Automatic \cup Chats
    /\ job[j].status = "failed"
    /\ Cardinality(retries) < MaxRetries
    /\ retries' = retries \cup {[job |-> j, rev |-> job[j].rev, stage |-> job[j].stage]}
    /\ UNCHANGED <<job, queue, at, policy, paid, clobbered, deaths, switches>>

\* ... and restarts its copy, whatever has become of the row.
RetryWrite(r) ==
    /\ r \in retries
    /\ Restart(r.job, r.rev, r.stage, job[r.job].paused)
    /\ retries' = retries \ {r}
    /\ clobbered' = IF job[r.job].rev > r.rev THEN clobbered \cup {r.job} ELSE clobbered
    /\ UNCHANGED <<at, policy, paid, switches>>

\* Autopilot is switched, the workspace is archived or restored.
SwitchPolicy ==
    /\ switches < MaxSwitches
    /\ policy' \in Policies \ {policy}
    /\ switches' = switches + 1
    /\ UNCHANGED <<job, queue, at, retries, paid, clobbered, deaths>>

-----------------------------------------------------------------------------
(* A worker runs a stage.                                                  *)

Locked(t) == \E w \in Workers : at[w].does \in {"stage", "tidying"} /\ at[w].task = t

\* (Mutant of TakeUp: a task that runs again takes up a job that is being worked on.)
TakeUpActive(t) == job[t.job].rev = t.rev /\ job[t.job].stage = t.stage /\ job[t.job].status \in Active

\* engine.run_step up to the stage: look at the row under its lock.
TakeUp(t) == job[t.job].rev = t.rev /\ job[t.job].stage = t.stage /\ job[t.job].status = "queued"

StartStage(w, t) ==
    /\ at[w] = Resting /\ t \in queue /\ ~Locked(t)
    /\ IF TakeUp(t) /\ ~Blocked(t.job)
       THEN /\ job' = [job EXCEPT ![t.job] = [@ EXCEPT !.status = "working", !.old = FALSE]]
            /\ at' = [at EXCEPT ![w] = [does |-> "stage", task |-> t]]
            /\ paid' = [paid EXCEPT ![t.job][t.rev][t.stage] = @ + 1]
       ELSE /\ Write(t.job, TakeUp(t), [job[t.job] EXCEPT !.held = TRUE])
            /\ at' = [at EXCEPT ![w] = [does |-> "tidying", task |-> t]]
            /\ UNCHANGED paid
    /\ UNCHANGED <<queue, policy, retries, clobbered, deaths, switches>>

\* A stage saves what it has (engine.save, update_state): StaleJobError ends
\* a stage whose job has moved on.
StageSaves(w) ==
    /\ at[w].does = "stage"
    /\ LET t == at[w].task
       IN /\ Write(t.job, StillMine(t), job[t.job])
          /\ at' = IF StillMine(t) THEN at ELSE [at EXCEPT ![w].does = "tidying"]
    /\ UNCHANGED <<queue, policy, retries, paid, clobbered, deaths, switches>>

\* The last stage: engine.finish.
StageFinishes(w) ==
    /\ at[w].does = "stage" /\ at[w].task.stage = LastStage
    /\ LET t == at[w].task IN Write(t.job, StillMine(t), [job[t.job] EXCEPT !.status = "done"])
    /\ at' = [at EXCEPT ![w].does = "tidying"]
    /\ UNCHANGED <<queue, policy, retries, paid, clobbered, deaths, switches>>

\* Another stage follows: back to queued, and its task.
StagePassesOn(w) ==
    /\ at[w].does = "stage" /\ at[w].task.stage < LastStage
    /\ LET t == at[w].task
       IN /\ Write(t.job, StillMine(t), [job[t.job] EXCEPT !.status = "queued", !.stage = t.stage + 1])
          /\ IF StillMine(t) THEN Enqueue(queue, t.job, t.rev, t.stage + 1) ELSE UNCHANGED <<queue, deaths>>
    /\ at' = [at EXCEPT ![w].does = "tidying"]
    /\ UNCHANGED <<policy, retries, paid, clobbered, switches>>

\* (Mutant of StageFails: the task is deleted before the step has returned.)
StageFailsAndForgets(w) ==
    /\ at[w].does = "stage"
    /\ Fail(at[w].task.job, at[w].task.rev)
    /\ at' = [at EXCEPT ![w].does = "tidying"]
    /\ queue' = queue \ {at[w].task}
    /\ UNCHANGED <<policy, retries, paid, clobbered, deaths, switches>>

\* A JobError or any other exception.
StageFails(w) ==
    /\ at[w].does = "stage"
    /\ Fail(at[w].task.job, at[w].task.rev)
    /\ at' = [at EXCEPT ![w].does = "tidying"]
    /\ UNCHANGED <<queue, policy, retries, paid, clobbered, deaths, switches>>

\* The step has returned (it never raises): its task is deleted.
TaskEnds(w) ==
    /\ at[w].does = "tidying"
    /\ queue' = queue \ {at[w].task}
    /\ at' = [at EXCEPT ![w] = Resting]
    /\ UNCHANGED <<job, policy, retries, paid, clobbered, deaths, switches>>

\* A worker dies; the next one releases its task lock (reclaim_stale_locks).
WorkerDies(w) ==
    /\ at[w] # Resting /\ deaths < MaxDeaths
    /\ at' = [at EXCEPT ![w] = Resting]
    /\ deaths' = deaths + 1
    /\ UNCHANGED <<job, queue, policy, retries, paid, clobbered, switches>>

-----------------------------------------------------------------------------
(* The sweep, the resumption of held jobs, and time.                       *)

\* engine.sweep_stuck reads the active rows once...
SweepReads(w) ==
    /\ at[w] = Resting
    /\ LET stuck == {j \in Jobs : job[j].status \in Active /\ job[j].old}
       IN /\ stuck # {}
          /\ at' = [at EXCEPT ![w] = [does |-> "sweep",
                      seen |-> {[job |-> j, rev |-> job[j].rev, stage |-> job[j].stage,
                                 status |-> job[j].status] : j \in stuck}]]
    /\ UNCHANGED <<job, queue, policy, retries, paid, clobbered, deaths, switches>>

\* (Mutant of Spared: no queued job is ever stuck.)
SparedIfQueued(s) == s.status = "queued"

\* ... and takes them one by one, from what it read.
Spared(s) == s.status = "queued" /\ (Blocked(s.job) \/ HasPendingTask(s.job, s.rev, s.stage))

SweepRow(w, s) ==
    /\ at[w].does = "sweep" /\ s \in at[w].seen
    /\ IF Spared(s) THEN UNCHANGED job ELSE Fail(s.job, s.rev)
    /\ LET rest == at[w].seen \ {s}
       IN at' = [at EXCEPT ![w] = IF rest = {} THEN Resting ELSE [does |-> "sweep", seen |-> rest]]
    /\ UNCHANGED <<queue, policy, retries, paid, clobbered, deaths, switches>>

\* engine.resume_paused_jobs, one candidate, in the agency cycle.
ResumeHeld(w, j) ==
    /\ at[w] = Resting
    /\ policy # "archived"                               \* eligible_workspaces
    /\ job[j].status = "queued" /\ job[j].held
    /\ Write(j, TRUE, [job[j] EXCEPT !.held = Blocked(j)])
    /\ IF Blocked(j) \/ HasPendingTask(j, job[j].rev, job[j].stage)
       THEN UNCHANGED <<queue, deaths>>
       ELSE Enqueue(queue, j, job[j].rev, job[j].stage)
    /\ UNCHANGED <<at, policy, retries, paid, clobbered, switches>>

\* updated_at falls behind the kind's stuck_after.
JobAges(j) ==
    /\ job[j].status \in Active /\ ~job[j].old
    /\ job' = [job EXCEPT ![j].old = TRUE]
    /\ UNCHANGED <<queue, at, policy, retries, paid, clobbered, deaths, switches>>

WorkerSteps(w) ==
    \/ \E t \in queue : StartStage(w, t)
    \/ StageSaves(w) \/ StageFinishes(w) \/ StagePassesOn(w) \/ StageFails(w)
    \/ TaskEnds(w) \/ WorkerDies(w)
    \/ SweepReads(w)
    \/ at[w].does = "sweep" /\ \E s \in at[w].seen : SweepRow(w, s)
    \/ \E j \in Jobs : ResumeHeld(w, j)

PeopleSteps(j) == StopChat(j) \/ ControlStop(j) \/ RetryLocked(j) \/ RetryLoad(j) \/ JobAges(j)

StudioNext ==
    \/ \E j \in Jobs : CreateJob(j) \/ PeopleSteps(j)
    \/ \E r \in retries : RetryWrite(r)
    \/ SwitchPolicy
    \/ \E w \in Workers : WorkerSteps(w)

StudioSpec == StudioInit /\ [][StudioNext]_studioVars
===============================================================================
