------------------------------ MODULE MCStudio ------------------------------
(***************************************************************************)
(* The AI team's jobs, the routines that start some of them, the weeks     *)
(* that others plan and the conversations that others answer, together:    *)
(* one specification, its properties and its instances for TLC.            *)
(***************************************************************************)
EXTENDS Routines, AgencyWeek, TeamThread

VARIABLE scene   \* chosen once: what the behaviour is about

vars == <<studioVars, routineVars, weekVars, threadVars, scene>>

\* "team": a weekly plan with several workers, deaths and a pause policy that is
\* switched; stopped or retried once.  "people": an article with one worker, no
\* deaths and any use of the task controls and of the unlocked Retry.  "routine"
\* and "lost": an instruction and the jobs it starts, edited, or started by hand
\* and with deaths; one worker runs the stages, the others only the tick.
\* "briefing": a routine that sends the briefing.  "week": a plan by the tick and
\* another by a person, stopped, resumed and replaced, and their briefs.  "drafts":
\* a week that goes well so far, what people do to its briefs, deaths and a
\* switched policy.  "producers": the same with several workers.  "cards" and
\* "controls": a conversation, with evidence that changes and grows old, or with
\* deaths, failures, stops, retries and a person who leaves.
Weeks == {"week", "drafts", "producers"}
Talks == {"cards", "controls"}
Scenes == {"team", "people", "routine", "lost", "briefing"} \cup Weeks \cup Talks

Playing ==
    CASE scene \in {"routine", "lost"} -> RoutineRows \ Briefings
      [] scene = "briefing"            -> Briefings
      [] OTHER                         -> {}

Init ==
    /\ scene \in Scenes
    /\ StudioInit /\ RoutineInit /\ WeekInit
    /\ ThreadInit /\ (scene \notin Talks => mode = "confirm")
    /\ \A r \in RoutineRows : routine[r].enabled <=> r \in Playing

Staff == IF scene \in {"team", "producers"} THEN Workers ELSE {w \in Workers : w = CHOOSE v \in Workers : TRUE}

\* Nothing is lost in "routine" and "week": no job grows old there.
Aging == scene \notin {"routine", "week"}

Studio(A) == A /\ UNCHANGED <<routineVars, weekVars, threadVars, scene>> /\ (scene \in Weeks => ~NothingMade)

TeamNext ==
    /\ scene = "team"
    /\ Studio(\/ \E j \in Automatic : \/ CreateJob(j) \/ JobAges(j)
                                    \/ (job[j].rev = 1 /\ (ControlStop(j) \/ RetryLocked(j)))
              \/ SwitchPolicy
              \/ \E w \in Workers : WorkerSteps(w))

PeopleNext ==
    /\ scene = "people"
    /\ Studio(\/ \E j \in Jobs \ (Automatic \cup Plans \cup Chats) : CreateJob(j) \/ PeopleSteps(j)
              \/ \E r \in retries : RetryWrite(r)
              \/ \E w \in Staff : WorkerSteps(w))
    /\ UNCHANGED deaths

RoutineNext ==
    /\ Playing # {}
    /\ \/ Aging /\ Studio(\E j \in Jobs : StopChat(j) \/ JobAges(j))
       \/ Studio(\E w \in Staff : WorkerSteps(w))
       \/ RoutineSteps /\ UNCHANGED <<weekVars, threadVars, scene>>
    /\ \A r \in RoutineRows \ Playing : routine'[r] = routine[r]
    /\ IF scene = "lost" THEN edits' = {} /\ \A r \in RoutineRows : ~routine'[r].due
                         ELSE UNCHANGED deaths

Team(A) == scene \in Weeks /\ A /\ UNCHANGED <<routineVars, threadVars, scene>>

\* A worker process runs one task at a time.
AgencySteps ==
    \/ Studio(\/ \E p \in Plans : JobAges(p)
              \/ SwitchPolicy
              \/ \E w \in Staff : producer[w] = Free /\ WorkerSteps(w))
    \/ /\ Team(AgencyNext)
       /\ \A w \in Workers \ Staff : producer'[w] = Free

WeekNext ==
    /\ scene = "week" /\ AgencySteps
    /\ UNCHANGED <<policy, deaths>>
    /\ UNCHANGED pages
    /\ \A p \in Plans : ~job'[p].old /\ ~brief'[p].old /\ brief'[p].rev = 1 /\ post'[p].status # "approved"
    /\ \A p \in Plans : job'[p].rev > job[p].rev => p \in Automatic /\ (job[p].rev = 1 \/ job[p].paused)
    /\ \A p \in Plans : brief'[p].status = "discarded" =>
         brief[p].status \in {"ready", "failed", "discarded"} \/ job'[p].status = "cancelled"

DraftsNext ==
    /\ scene \in {"drafts", "producers"} /\ AgencySteps
    /\ scene = "drafts" => UNCHANGED pages
    /\ scene = "producers" =>
         /\ UNCHANGED <<policy, deaths>>
         /\ \A v, w \in Workers : at'[v] # Resting /\ at'[w] = Resting => v = CHOOSE x \in Workers : TRUE
    /\ \A p \in Plans : job'[p].status # "none" => job'[p].rev = 1 /\ job'[p].status # "cancelled" /\ week'.plan = p

\* Idle workers are alike; a draft that waits is not discarded; a thread that
\* starts drafts by itself has one message less.
Talk(A) == scene \in Talks /\ A /\ UNCHANGED <<studioVars, routineVars, weekVars, scene>>

TalkNext ==
    /\ Talk(ThreadNext)
    /\ \A v, w \in Answerers :
         v # w /\ answerer[v] = Idle /\ answerer[w] = Idle /\ answerer'[v] # Idle => v = CHOOSE x \in Answerers : TRUE
    /\ \A i \in DOMAIN drafts : drafts'[i].status = "over" => drafts[i].status # "planned"
    /\ mode = "auto" => chatJob'[LastMessage].status = "none"
    /\ IF scene = "cards" THEN UNCHANGED mishaps
       ELSE UNCHANGED evidence /\ \A n \in Asked : chatJob'[n].stale = FALSE

Next == TeamNext \/ PeopleNext \/ RoutineNext \/ WeekNext \/ DraftsNext \/ TalkNext

Spec == Init /\ [][Next]_vars

\* The worker process is restarted when it dies and takes what is due, so what
\* an idle worker can do is done in the end; it may be found busy each time one
\* particular thing is due, but not for ever, hence the strong fairness.  A
\* model call returns or times out, and updated_at and lease_until fall behind
\* the clock.  Nobody has to press anything.
MovesOn(w) ==
    \/ StageFinishes(w) \/ StagePassesOn(w) \/ StageFails(w) \/ TaskEnds(w)
    \/ at[w].does = "sweep" /\ \E s \in at[w].seen : SweepRow(w, s)

Fairness ==
    /\ \A w \in Workers :
         WF_vars(\/ w \in Staff /\ (Studio(MovesOn(w)) \/ Team(MakeBrief(w) \/ ProducerMoves(w)))
                 \/ Talk(AnswererMoves(w)))
    /\ SF_vars(\E w \in Workers :
                 \/ w \in Staff /\ (\/ Studio(\E t \in queue : StartStage(w, t))
                                    \/ Team(\E t \in steps : StartStep(w, t)))
                 \/ Talk(\E n \in Asked : TakeJob(w, n)))
    /\ SF_vars(\E w \in Staff : Studio(SweepReads(w)) \/ Team(SweepBriefs(w)))
    /\ SF_vars(Studio(\E w \in Staff, j \in Jobs : ResumeHeld(w, j)) \/ Team(Feed))
    /\ WF_vars(Team(AnnounceReads \/ AnnounceWrites))
    /\ WF_vars((Aging /\ Studio(\E j \in Jobs : JobAges(j))) \/ Talk(\E n \in Asked : SweepChat(n)))
    /\ WF_vars(Aging /\ Team(\E p \in Plans : BriefAges(p)))
    /\ WF_vars(/\ UNCHANGED <<weekVars, threadVars, scene>>
               /\ \E r \in Playing : LeaseExpires(r) \/ \E w \in Workers : SettleOne(w, r))

ASSUME SameProcesses == Answerers = Workers

FairSpec == Spec /\ Fairness

\* A day without any mishap: a plan is asked for in an open workspace, the
\* workspace is archived and restored, and only while it is archived does the
\* plan's updated_at fall stuck_after behind (in an open workspace the agency
\* cycle touches it every 15 minutes).
ArchiveAndRestore ==
    /\ policy' # "off"
    /\ \A j \in Jobs :
         /\ job[j].status = "none" /\ job'[j].status # "none" => policy = "open"
         /\ job'[j].old /\ ~job[j].old => policy = "archived" /\ \A w \in Workers : at[w] = Resting

ArchiveSpec == Init /\ [][Next /\ ArchiveAndRestore]_vars

-----------------------------------------------------------------------------
TypesOK == StudioTypeOK /\ RoutineTypeOK /\ WeekTypeOK /\ ThreadTypeOK

\* A model call costs money.  Whatever dies, is swept, resumed or queued
\* twice, a stage of one revision is paid for at most once; only an unlocked
\* Retry that arrives after another one has been taken up can break it.
NoStageTwice ==
    \A j \in Jobs \ clobbered : \A r \in Revisions, s \in Stages : paid[j][r][s] <= 1

\* Stop is final: what a running stage, the sweep or a late task brings back
\* never changes a job that has ended; only a new revision opens it again (a plan
\* that failed is marked cancelled when its week is planned again).
StoppedStaysStopped ==
    [][\A j \in Jobs \ clobbered' :
         job[j].status \in Ended /\ job'[j].status # job[j].status =>
            job'[j].rev > job[j].rev \/ <<job[j].status, job'[j].status>> = <<"failed", "cancelled">>]_vars

\* A routine says it is running exactly while one run of it is open, with a
\* lease on it, except after a Resume that was late for a run.
RunMatchesRoutine ==
    \A r \in RoutineRows \ overwritten :
        /\ Len(open[r]) = IF routine[r].status = "running" THEN 1 ELSE 0
        /\ routine[r].status = "running" <=> routine[r].lease # "none"

\* Every job that was asked for ends, or waits for a policy to be lifted.
JobSettled(j) == job[j].status \notin Active \/ Blocked(j)

\* A routine does not stay running for ever: the next one can be started.
RunSettled(r) == routine[r].status # "running" \/ policy = "archived"

\* Nothing of the studio is active for ever: there are finitely many requests, so
\* from some time on every job, run, brief, week and message is settled.
StudioSettles ==
    <>[](/\ \A j \in Jobs : JobSettled(j)
         /\ \A r \in RoutineRows \ Briefings : RunSettled(r)
         /\ WeekSettled /\ ThreadSettled)

\* engine.resume_paused_jobs: "Restore queued policy-paused jobs after
\* re-enabling or unarchiving their workspace".  A job that waits for the
\* policy is resumed, not failed.
HeldJobsResume ==
    [][\A j \in Jobs :
         job[j].status = "queued" /\ job[j].held => job'[j].status # "failed"]_vars
===============================================================================
