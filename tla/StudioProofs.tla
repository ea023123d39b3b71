----------------------------- MODULE StudioProofs -----------------------------
(***************************************************************************)
(* The AI team's jobs and what starts them: no stage of a revision is paid *)
(* for twice, a job that ended stays ended, a routine says it is running   *)
(* exactly while a run of it is open, a week is made once, and a card of a *)
(* conversation starts one draft; for any number of jobs, plans, messages, *)
(* workers, stages, revisions, deaths and requests.                        *)
(*                                                                         *)
(* Routines, weeks and people all change jobs.  The argument first reduces *)
(* every step of the composed specification to what it may do to the rows, *)
(* the stages in progress and the payments (Moves); the ledger of payments *)
(* is then preserved by Moves alone.  Weeks and conversations follow, each *)
(* with an invariant of its own.                                           *)
(***************************************************************************)
EXTENDS MCStudio, SequenceTheorems, FiniteSetTheorems, TLAPS

-----------------------------------------------------------------------------
(* Types of what the ledger is about.                                      *)

Occupied(w) == at[w].does \in {"stage", "tidying"}

Doing ==
    {Resting} \cup [does : {"stage", "tidying"}, task : Task] \cup [does : {"sweep"}, seen : SUBSET Seen]

JobsTyped ==
    /\ job \in [Jobs -> Job]
    /\ queue \subseteq Task
    /\ at \in [Workers -> Doing]
    /\ \A w \in Workers : Occupied(w) => at[w].task \in queue
    /\ \A v, w \in Workers : Occupied(v) /\ Occupied(w) /\ v # w => at[v].task # at[w].task
    /\ policy \in Policies
    /\ retries \subseteq [job : Jobs, rev : Revisions, stage : Stages]
    /\ paid \in [Jobs -> [Revisions -> [Stages -> Nat]]]
    /\ clobbered \subseteq Jobs
    /\ deaths \in 0..MaxDeaths /\ switches \in 0..MaxSwitches

-----------------------------------------------------------------------------
(* The ledger.                                                             *)

InStage(w, j) == at[w].does = "stage" /\ at[w].task.job = j

\* The job is past the moment at which this stage of this revision was taken up.
Passed(j, rev, stage) ==
    \/ rev < job[j].rev
    \/ rev = job[j].rev /\ stage < job[j].stage
    \/ rev = job[j].rev /\ stage = job[j].stage /\ job[j].status \notin {"none", "queued"}

Ledger(j) ==
    /\ \A r \in Revisions, s \in Stages : paid[j][r][s] <= 1 /\ (paid[j][r][s] = 1 => Passed(j, r, s))
    /\ job[j].status = "none" => job[j].rev = 1 /\ job[j].stage = 1
    /\ \A w \in Workers : InStage(w, j) =>
         /\ at[w].task.rev <= job[j].rev
         /\ at[w].task.rev = job[j].rev =>
              at[w].task.stage = job[j].stage /\ job[j].status \notin {"none", "queued"}
    /\ \A v, w \in Workers : InStage(v, j) /\ InStage(w, j) /\ at[v].task.rev = job[j].rev
                             /\ at[w].task.rev = job[j].rev => v = w

Ledgers == \A j \in Jobs \ clobbered : Ledger(j)

-----------------------------------------------------------------------------
(* What a step may do.                                                     *)

SamePlace(j) == job'[j].rev = job[j].rev /\ job'[j].stage = job[j].stage

\* One job whose stage nobody takes up: nothing, opened, ended or marked, on a
\* new revision, passed on by the worker that had its stage, or written over.
RowMoves(j) ==
    \/ SamePlace(j) /\ job'[j].status = job[j].status
    \/ SamePlace(j) /\ job[j].status = "none" /\ job'[j].status = "queued"
    \/ /\ SamePlace(j) /\ job'[j].status \in Ended
       /\ job[j].status \in Ended => <<job[j].status, job'[j].status>> \in {<<"failed", "cancelled">>, <<"cancelled", "cancelled">>}
    \/ job'[j].rev > job[j].rev /\ job'[j].status # "none"
    \/ \E w \in Workers :
         /\ InStage(w, j) /\ at[w].task.rev = job[j].rev /\ job[j].status = "working"
         /\ job'[j].rev = job[j].rev /\ job'[j].stage = at[w].task.stage + 1 /\ job'[j].status = "queued"
         /\ at'[w].does # "stage"
    \/ j \in clobbered'

TakesUp(w, t) ==
    /\ at[w] = Resting /\ at'[w] = [does |-> "stage", task |-> t]
    /\ \A v \in Workers : v # w => at'[v] = at[v]
    /\ t \in Task
    /\ job[t.job].rev = t.rev /\ job[t.job].stage = t.stage /\ job[t.job].status = "queued"
    /\ \A j \in Jobs : SamePlace(j) /\ (j # t.job => job'[j].status = job[j].status)
    /\ job'[t.job].status = "working"
    /\ paid' = [paid EXCEPT ![t.job][t.rev][t.stage] = @ + 1]

Moves ==
    /\ clobbered \subseteq clobbered'
    /\ \/ /\ paid' = paid
          /\ \A w \in Workers : at'[w].does = "stage" => at'[w] = at[w]
          /\ \A j \in Jobs : RowMoves(j)
       \/ \E w \in Workers, t \in Task : TakesUp(w, t)

-----------------------------------------------------------------------------
(* The ledger is kept by Moves.                                            *)

LEMMA StudioBounds ==
    /\ LastStage \in Nat \ {0} /\ MaxRevision \in Nat \ {0} /\ MaxDeaths \in Nat /\ MaxSwitches \in Nat
    /\ MaxRetries \in Nat /\ Stages \subseteq Nat /\ Revisions \subseteq Nat /\ 1 \in Stages /\ 1 \in Revisions
    /\ \A r \in Revisions : r >= 1
    /\ \A s \in Stages : s >= 1
BY StudioAssumption DEF Stages, Revisions

LEMMA JobType ==
    ASSUME JobsTyped, NEW j \in Jobs
    PROVE  /\ job[j] \in Job /\ job[j].rev \in Revisions /\ job[j].stage \in Stages
           /\ job[j].rev \in Nat /\ job[j].stage \in Nat
           /\ job[j].status \in Active \cup Ended \cup {"none"}
BY StudioBounds DEF JobsTyped, Job

LEMMA StageType ==
    ASSUME JobsTyped, NEW w \in Workers, at[w].does \in {"stage", "tidying"}
    PROVE  /\ at[w].task \in Task /\ at[w].task.job \in Jobs /\ at[w].task.rev \in Revisions
           /\ at[w].task.stage \in Stages /\ at[w].task.rev \in Nat /\ at[w].task.stage \in Nat
           /\ at[w].task \in queue /\ at[w] = [does |-> at[w].does, task |-> at[w].task]
<1>1. at[w] \in Doing /\ Occupied(w) BY DEF JobsTyped, Occupied
<1>2. at[w] \in [does : {"stage", "tidying"}, task : Task] BY <1>1 DEF Doing, Resting
<1>. QED BY <1>1, <1>2, StudioBounds DEF Task, JobsTyped

LEMMA LedgerWhileNothingIsTakenUp ==
    ASSUME JobsTyped, NEW j \in Jobs, Ledger(j), RowMoves(j), j \notin clobbered', JobsTyped',
           paid' = paid, \A w \in Workers : at'[w].does = "stage" => at'[w] = at[w]
    PROVE  Ledger(j)'
<1>1. /\ job[j].rev \in Nat /\ job[j].stage \in Nat /\ job'[j].rev \in Nat /\ job'[j].stage \in Nat
  <2>1. job'[j] \in Job BY DEF JobsTyped
  <2>. QED BY <2>1, JobType, StudioBounds DEF Job
<1>2. \A w \in Workers : InStage(w, j)' =>
        /\ InStage(w, j) /\ at'[w] = at[w] /\ at[w].task.rev \in Nat /\ at[w].task.rev >= 1
        /\ at[w].task.stage \in Nat
  BY StageType, StudioBounds DEF InStage
<1>3. ASSUME NEW r \in Revisions, NEW s \in Stages, paid[j][r][s] = 1
      PROVE  Passed(j, r, s)
  BY <1>3 DEF Ledger
<1>4. \A r \in Revisions, s \in Stages : r \in Nat /\ s \in Nat /\ r >= 1 /\ s >= 1 BY StudioBounds
<1>5. CASE SamePlace(j) /\ job'[j].status = job[j].status
  BY <1>2, <1>5 DEF Ledger, Passed, InStage, SamePlace
<1>6. CASE SamePlace(j) /\ job[j].status = "none" /\ job'[j].status = "queued"
  <2>1. job[j].rev = 1 /\ job[j].stage = 1 BY <1>6 DEF Ledger
  <2>2. \A r \in Revisions, s \in Stages : paid[j][r][s] # 1 BY <2>1, <1>3, <1>4, <1>6 DEF Passed
  <2>3. \A w \in Workers : ~InStage(w, j)'
    <3>1. SUFFICES ASSUME NEW w \in Workers, InStage(w, j)' PROVE FALSE OBVIOUS
    <3>2. InStage(w, j) /\ at[w].task.rev >= 1 /\ at[w].task.rev \in Nat BY <3>1, <1>2
    <3>3. at[w].task.rev <= 1 BY <3>2, <2>1 DEF Ledger
    <3>4. at[w].task.rev = job[j].rev BY <3>2, <3>3, <2>1
    <3>. QED BY <3>2, <3>4, <1>6 DEF Ledger
  <2>. QED BY <2>2, <2>3, <1>6 DEF Ledger
<1>7. CASE SamePlace(j) /\ job'[j].status \in Ended
  BY <1>2, <1>7 DEF Ledger, Passed, InStage, SamePlace, Ended
<1>8. CASE job'[j].rev > job[j].rev /\ job'[j].status # "none"
  <2>1. \A r \in Revisions, s \in Stages : paid[j][r][s] = 1 => r < job'[j].rev
    BY <1>1, <1>3, <1>4, <1>8 DEF Passed
  <2>2. \A w \in Workers : InStage(w, j)' => at'[w].task.rev < job'[j].rev
    BY <1>1, <1>2, <1>8 DEF Ledger
  <2>. QED BY <2>1, <2>2, <1>1, <1>2, <1>8 DEF Ledger, Passed
<1>9. CASE \E w \in Workers :
             /\ InStage(w, j) /\ at[w].task.rev = job[j].rev /\ job[j].status = "working"
             /\ job'[j].rev = job[j].rev /\ job'[j].stage = at[w].task.stage + 1 /\ job'[j].status = "queued"
             /\ at'[w].does # "stage"
  <2>1. PICK w \in Workers :
             /\ InStage(w, j) /\ at[w].task.rev = job[j].rev /\ job[j].status = "working"
             /\ job'[j].rev = job[j].rev /\ job'[j].stage = at[w].task.stage + 1 /\ job'[j].status = "queued"
             /\ at'[w].does # "stage"
    BY <1>9
  <2>2. at[w].task.stage = job[j].stage BY <2>1 DEF Ledger
  <2>3. \A r \in Revisions, s \in Stages : paid[j][r][s] = 1 => Passed(j, r, s)'
    BY <2>1, <2>2, <1>1, <1>3, <1>4 DEF Passed
  <2>4. \A v \in Workers : InStage(v, j)' => at'[v].task.rev < job'[j].rev
    <3>1. SUFFICES ASSUME NEW v \in Workers, InStage(v, j)' PROVE at'[v].task.rev < job'[j].rev
      OBVIOUS
    <3>2. InStage(v, j) /\ at'[v] = at[v] /\ at[v].task.rev \in Nat BY <3>1, <1>2
    <3>3. v # w BY <3>1, <2>1 DEF InStage
    <3>4. at[v].task.rev # job[j].rev BY <3>2, <3>3, <2>1 DEF Ledger
    <3>5. at[v].task.rev <= job[j].rev BY <3>2 DEF Ledger
    <3>. QED BY <3>2, <3>4, <3>5, <2>1, <1>1
  <2>. QED BY <2>1, <2>3, <2>4, <1>1, <1>2 DEF Ledger
<1>. QED BY <1>5, <1>6, <1>7, <1>8, <1>9 DEF RowMoves

LEMMA LedgerWhenTakenUp ==
    ASSUME JobsTyped, NEW j \in Jobs, Ledger(j), NEW u \in Workers, NEW t \in Task, TakesUp(u, t)
    PROVE  Ledger(j)'
<1>1. /\ t.job \in Jobs /\ t.rev \in Revisions /\ t.stage \in Stages
      /\ t.rev \in Nat /\ t.stage \in Nat
  BY StudioBounds DEF Task
<1>2. /\ job[t.job].rev = t.rev /\ job[t.job].stage = t.stage /\ job[t.job].status = "queued"
      /\ SamePlace(j) /\ (j # t.job => job'[j].status = job[j].status)
      /\ job'[t.job].status = "working"
      /\ paid' = [paid EXCEPT ![t.job][t.rev][t.stage] = @ + 1]
      /\ at[u] = Resting /\ at'[u] = [does |-> "stage", task |-> t]
      /\ \A v \in Workers : v # u => at'[v] = at[v]
  BY DEF TakesUp
<1>3. paid \in [Jobs -> [Revisions -> [Stages -> Nat]]] BY DEF JobsTyped
<1>4. CASE j # t.job
  <2>1. paid'[j] = paid[j] BY <1>1, <1>2, <1>3, <1>4
  <2>2. \A v \in Workers : InStage(v, j)' => InStage(v, j) /\ at'[v] = at[v]
    BY <1>2, <1>4 DEF InStage
  <2>. QED BY <2>1, <2>2, <1>2, <1>4 DEF Ledger, Passed, InStage, SamePlace
<1>5. CASE j = t.job
  <2>1. job[j].rev \in Nat /\ job[j].stage \in Nat BY JobType
  <2>2. paid[j][t.rev][t.stage] # 1 BY <1>1, <1>2, <1>5, <2>1 DEF Ledger, Passed
  <2>0. paid[j] \in [Revisions -> [Stages -> Nat]] /\ paid[j][t.rev] \in [Stages -> Nat]
    BY <1>1, <1>3
  <2>9. paid[j][t.rev][t.stage] \in Nat /\ paid[j][t.rev][t.stage] <= 1 BY <2>0, <1>1 DEF Ledger
  <2>3. paid[j][t.rev][t.stage] = 0 BY <2>2, <2>9
  <2>4. \A r \in Revisions, s \in Stages :
          paid'[j][r][s] = IF r = t.rev /\ s = t.stage THEN 1 ELSE paid[j][r][s]
    <3>1. paid'[j] = [paid[j] EXCEPT ![t.rev][t.stage] = paid[j][t.rev][t.stage] + 1]
      BY <1>1, <1>2, <1>3, <1>5
    <3>2. paid[j][t.rev][t.stage] + 1 = 1 BY <2>3
    <3>3. \A r \in Revisions : r # t.rev => paid'[j][r] = paid[j][r] BY <3>1, <2>0
    <3>4. paid'[j][t.rev] = [paid[j][t.rev] EXCEPT ![t.stage] = 1] BY <3>1, <3>2, <2>0, <1>1
    <3>. QED BY <3>3, <3>4, <2>0, <1>1
  <2>5. \A r \in Revisions, s \in Stages : paid'[j][r][s] <= 1 /\ (paid'[j][r][s] = 1 => Passed(j, r, s)')
    BY <2>4, <1>2, <1>5 DEF Ledger, Passed, SamePlace
  <2>6. ASSUME NEW v \in Workers, v # u, InStage(v, j)'
        PROVE  at'[v].task.rev < job'[j].rev
    <3>1. InStage(v, j) /\ at'[v] = at[v] BY <2>6, <1>2 DEF InStage
    <3>2. at[v].task.rev \in Nat BY <3>1, StageType DEF InStage
    <3>3. at[v].task.rev <= job[j].rev /\ at[v].task.rev # job[j].rev BY <3>1, <1>2, <1>5 DEF Ledger
    <3>. QED BY <3>1, <3>2, <3>3, <2>1, <1>2 DEF SamePlace
  <2>7. \A v \in Workers : InStage(v, j)' =>
          \/ v = u /\ at'[v].task = t
          \/ at'[v].task.rev < job'[j].rev /\ at'[v].task.rev \in Nat
    <3>1. SUFFICES ASSUME NEW v \in Workers, InStage(v, j)', v # u
                   PROVE  at'[v].task.rev < job'[j].rev /\ at'[v].task.rev \in Nat
      BY <1>2
    <3>2. at'[v] = at[v] /\ at[v].task.rev \in Nat BY <3>1, <1>2, StageType DEF InStage
    <3>. QED BY <3>1, <3>2, <2>6
  <2>8. job'[j].rev = t.rev /\ job'[j].stage = t.stage /\ job'[j].status = "working"
    BY <1>2, <1>5 DEF SamePlace
  <2>. QED BY <2>5, <2>7, <2>8, <1>1 DEF Ledger
<1>. QED BY <1>4, <1>5

LEMMA LedgersKept ==
    ASSUME JobsTyped, JobsTyped', Ledgers, Moves
    PROVE  Ledgers'
<1>1. SUFFICES ASSUME NEW j \in Jobs, j \notin clobbered' PROVE Ledger(j)' BY DEF Ledgers
<1>2. Ledger(j) BY <1>1 DEF Moves, Ledgers
<1>3. CASE \E w \in Workers, t \in Task : TakesUp(w, t) BY <1>2, <1>3, LedgerWhenTakenUp
<1>4. CASE /\ paid' = paid
           /\ \A w \in Workers : at'[w].does = "stage" => at'[w] = at[w]
           /\ \A i \in Jobs : RowMoves(i)
  BY <1>1, <1>2, <1>4, LedgerWhileNothingIsTakenUp
<1>. QED BY <1>3, <1>4 DEF Moves

-----------------------------------------------------------------------------
(* What the operators that the actions share do.                           *)

LEMMA WriteEffect ==
    ASSUME JobsTyped, NEW j \in Jobs, NEW guard \in BOOLEAN, NEW fields \in Job, Write(j, guard, fields)
    PROVE  /\ job' \in [Jobs -> Job]
           /\ \A i \in Jobs : i # j => job'[i] = job[i]
           /\ ~guard => job'[j] = job[j]
           /\ guard => /\ job'[j].status = fields.status /\ job'[j].rev = fields.rev
                       /\ job'[j].stage = fields.stage
BY DEF JobsTyped, Write, Job

LEMMA EnqueueEffect ==
    ASSUME JobsTyped, NEW base, base \subseteq Task, NEW j \in Jobs, NEW rev \in Revisions, NEW stage \in Stages,
           Enqueue(base, j, rev, stage)
    PROVE  base \subseteq queue' /\ queue' \subseteq Task /\ deaths' \in 0..MaxDeaths
<1>1. CASE /\ \E c \in Copies : queue' = base \cup {[job |-> j, rev |-> rev, stage |-> stage, copy |-> c]}
           /\ UNCHANGED deaths
  BY <1>1 DEF Task, JobsTyped
<1>2. CASE deaths < MaxDeaths /\ queue' = base /\ deaths' = deaths + 1
  BY <1>2, StudioBounds DEF JobsTyped
<1>. QED BY <1>1, <1>2 DEF Enqueue

\* The tasks and who has them.
WorkTyped ==
    /\ queue \subseteq Task
    /\ at \in [Workers -> Doing]
    /\ \A w \in Workers : Occupied(w) => at[w].task \in queue
    /\ \A v, w \in Workers : Occupied(v) /\ Occupied(w) /\ v # w => at[v].task # at[w].task

RestTyped ==
    /\ policy \in Policies
    /\ retries \subseteq [job : Jobs, rev : Revisions, stage : Stages]
    /\ paid \in [Jobs -> [Revisions -> [Stages -> Nat]]]
    /\ clobbered \subseteq Jobs
    /\ deaths \in 0..MaxDeaths /\ switches \in 0..MaxSwitches

LEMMA TypedParts == JobsTyped <=> job \in [Jobs -> Job] /\ WorkTyped /\ RestTyped
BY DEF JobsTyped, WorkTyped, RestTyped

LEMMA SameWork ==
    ASSUME JobsTyped, at' = at, queue \subseteq queue', queue' \subseteq Task
    PROVE  WorkTyped' /\ \A w \in Workers : at'[w].does = "stage" => at'[w] = at[w]
BY DEF JobsTyped, WorkTyped, Occupied

LEMMA OneWorks ==
    ASSUME JobsTyped, NEW w \in Workers, NEW next \in Doing, at' = [at EXCEPT ![w] = next], queue' \subseteq Task,
           \/ /\ next.does \notin {"stage", "tidying"}
              /\ \A t \in queue : t \in queue' \/ (Occupied(w) /\ t = at[w].task)
           \/ /\ next.does \in {"stage", "tidying"} /\ next.task \in queue /\ queue \subseteq queue'
              /\ (Occupied(w) /\ next.task = at[w].task) \/ ~Locked(next.task)
    PROVE  /\ WorkTyped'
           /\ at'[w] = next /\ \A v \in Workers : v # w => at'[v] = at[v]
<1>1. at'[w] = next /\ \A v \in Workers : v # w => at'[v] = at[v] BY DEF JobsTyped
<1>2. at' \in [Workers -> Doing] BY DEF JobsTyped
<1>3. \A v \in Workers : v # w => (Occupied(v)' <=> Occupied(v)) BY <1>1 DEF Occupied
<1>4. Occupied(w)' <=> next.does \in {"stage", "tidying"} BY <1>1 DEF Occupied
<1>5. \A v \in Workers : Occupied(v)' => at'[v].task \in queue'
  BY <1>1, <1>3, <1>4 DEF JobsTyped
<1>6. ASSUME NEW v \in Workers, v # w, Occupied(v)', Occupied(w)'
      PROVE  at'[v].task # at'[w].task
  BY <1>1, <1>3, <1>4, <1>6 DEF JobsTyped, Locked, Occupied
<1>7. \A u, v \in Workers : Occupied(u)' /\ Occupied(v)' /\ u # v => at'[u].task # at'[v].task
  BY <1>1, <1>3, <1>6 DEF JobsTyped
<1>. QED BY <1>1, <1>2, <1>5, <1>7 DEF WorkTyped

\* A step that leaves the payments and the controls alone.
LEMMA Beside ==
    ASSUME JobsTyped, UNCHANGED <<policy, retries, paid, clobbered, switches>>, deaths' \in 0..MaxDeaths
    PROVE  RestTyped'
BY DEF JobsTyped, RestTyped

\* Nothing is taken up in a step that leaves the payments alone.
LEMMA CalmMoves ==
    ASSUME clobbered \subseteq clobbered', paid' = paid,
           \A w \in Workers : at'[w].does = "stage" => at'[w] = at[w],
           \A j \in Jobs : RowMoves(j)
    PROVE  Moves
BY DEF Moves

LEMMA SameRow == \A j \in Jobs : job'[j] = job[j] => RowMoves(j)
BY DEF RowMoves, SamePlace

-----------------------------------------------------------------------------
(* People and the policy.                                                  *)

LEMMA StopMoves ==
    ASSUME JobsTyped, NEW j \in Jobs, CreateJob(j) \/ StopChat(j) \/ ControlStop(j) \/ JobAges(j)
    PROVE  JobsTyped' /\ Moves
<1>. USE StudioBounds
<1>1. job \in [Jobs -> Job] /\ job[j] \in Job /\ queue \subseteq Task BY DEF JobsTyped
<1>2. CASE CreateJob(j)
  <2>1. job' = [job EXCEPT ![j].status = "queued"] /\ job[j].status = "none" /\ Enqueue(queue, j, 1, 1)
        /\ UNCHANGED <<at, policy, retries, paid, clobbered, switches>>
    BY <1>2 DEF CreateJob
  <2>2. job' \in [Jobs -> Job] BY <2>1, <1>1 DEF Job, Active
  <2>3. queue \subseteq queue' /\ queue' \subseteq Task /\ deaths' \in 0..MaxDeaths BY <2>1, <1>1, EnqueueEffect
  <2>4. WorkTyped' /\ \A w \in Workers : at'[w].does = "stage" => at'[w] = at[w] BY <2>1, <2>3, SameWork
  <2>5. \A i \in Jobs : RowMoves(i) BY <2>1, <1>1, SameRow DEF RowMoves, SamePlace, Job
  <2>6. RestTyped' BY <2>1, <2>3, Beside
  <2>7. JobsTyped' BY <2>2, <2>4, <2>6 DEF JobsTyped, WorkTyped, RestTyped
  <2>. QED BY <2>1, <2>4, <2>5, <2>7, CalmMoves
<1>3. CASE StopChat(j) \/ ControlStop(j) \/ JobAges(j)
  <2>1. UNCHANGED <<queue, at, policy, retries, paid, clobbered, deaths, switches>>
    BY <1>3 DEF StopChat, ControlStop, JobAges
  <2>2. job' \in [Jobs -> Job] /\ \A i \in Jobs : RowMoves(i)
    <3>1. CASE StopChat(j)
      <4>. DEFINE fields == [job[j] EXCEPT !.status = "cancelled"]
      <4>1. fields \in Job /\ fields.status = "cancelled" /\ fields.rev = job[j].rev /\ fields.stage = job[j].stage
        BY <1>1 DEF Job, Ended
      <4>2. Write(j, TRUE, fields) /\ job[j].status \in Active BY <3>1 DEF StopChat
      <4>. HIDE DEF fields
      <4>3. /\ job' \in [Jobs -> Job] /\ \A i \in Jobs : i # j => job'[i] = job[i]
            /\ job'[j].status = "cancelled" /\ job'[j].rev = job[j].rev /\ job'[j].stage = job[j].stage
        BY <4>1, <4>2, WriteEffect
      <4>4. RowMoves(j) BY <4>2, <4>3 DEF RowMoves, SamePlace, Active, Ended
      <4>. QED BY <4>3, <4>4, SameRow
    <3>2. CASE ControlStop(j)
      <4>1. PICK keep \in BOOLEAN :
              Write(j, TRUE, [job[j] EXCEPT !.status = "cancelled", !.paused = keep, !.rev = @ + 1])
        BY <3>2 DEF ControlStop
      <4>. DEFINE fields == [job[j] EXCEPT !.status = "cancelled", !.paused = keep, !.rev = @ + 1]
      <4>2. job[j].rev \in Revisions /\ job[j].rev < MaxRevision BY <1>1, <3>2 DEF ControlStop, Job
      <4>3. job[j].rev + 1 \in Revisions /\ job[j].rev + 1 > job[j].rev BY <4>2 DEF Revisions
      <4>4. fields \in Job /\ fields.status = "cancelled" /\ fields.rev = job[j].rev + 1
        BY <1>1, <4>3 DEF Job, Ended
      <4>. HIDE DEF fields
      <4>5. /\ job' \in [Jobs -> Job] /\ \A i \in Jobs : i # j => job'[i] = job[i]
            /\ job'[j].status = "cancelled" /\ job'[j].rev = job[j].rev + 1
        BY <4>1, <4>4, WriteEffect DEF fields
      <4>6. RowMoves(j) BY <4>3, <4>5 DEF RowMoves
      <4>. QED BY <4>5, <4>6, SameRow
    <3>3. CASE JobAges(j) BY <3>3, <1>1, SameRow DEF JobAges, RowMoves, SamePlace, Job
    <3>. QED BY <1>3, <3>1, <3>2, <3>3
  <2>3. WorkTyped' /\ \A w \in Workers : at'[w].does = "stage" => at'[w] = at[w] BY <2>1, <1>1, SameWork
  <2>4. RestTyped' BY <2>1, Beside DEF JobsTyped
  <2>5. JobsTyped' BY <2>2, <2>3, <2>4 DEF JobsTyped, WorkTyped, RestTyped
  <2>. QED BY <2>1, <2>2, <2>3, <2>5, CalmMoves
<1>. QED BY <1>2, <1>3

\* Restart of a row that was loaded at this revision, or after it.
LEMMA RestartEffect ==
    ASSUME JobsTyped, NEW j \in Jobs, NEW rev \in Revisions, NEW stage \in Stages, NEW paused \in BOOLEAN,
           Restart(j, rev, stage, paused)
    PROVE  /\ job' \in [Jobs -> Job] /\ \A i \in Jobs : i # j => job'[i] = job[i]
           /\ job'[j].rev = rev + 1 /\ job'[j].status = "queued"
           /\ queue \subseteq queue' /\ queue' \subseteq Task /\ deaths' \in 0..MaxDeaths
<1>. DEFINE row == [job[j] EXCEPT !.rev = rev + 1, !.stage = stage, !.status = "queued",
                                  !.held = FALSE, !.paused = paused, !.old = FALSE]
<1>1. job \in [Jobs -> Job] /\ job[j] \in Job /\ queue \subseteq Task BY DEF JobsTyped
<1>2. rev + 1 \in Revisions BY StudioBounds DEF Restart, Revisions
<1>3. row \in Job /\ row.rev = rev + 1 /\ row.status = "queued" BY <1>1, <1>2 DEF Job, Active
<1>4. job' = [job EXCEPT ![j] = row] BY <1>1 DEF Restart
<1>5. Enqueue(queue, j, rev + 1, stage) BY DEF Restart
<1>6. queue \subseteq queue' /\ queue' \subseteq Task /\ deaths' \in 0..MaxDeaths
  BY <1>1, <1>2, <1>5, EnqueueEffect
<1>. HIDE DEF row
<1>7. /\ job' \in [Jobs -> Job] /\ \A i \in Jobs : i # j => job'[i] = job[i]
      /\ job'[j].rev = rev + 1 /\ job'[j].status = "queued"
  BY <1>1, <1>3, <1>4
<1>. QED BY <1>6, <1>7

LEMMA RetryMoves ==
    ASSUME JobsTyped, NEW j \in Jobs, RetryLocked(j) \/ RetryLoad(j)
    PROVE  JobsTyped' /\ Moves
<1>1. job \in [Jobs -> Job] /\ job[j].rev \in Revisions /\ job[j].stage \in Stages /\ queue \subseteq Task
      /\ job[j].rev \in Nat
  BY JobType DEF JobsTyped
<1>2. CASE RetryLocked(j)
  <2>1. Restart(j, job[j].rev, job[j].stage, FALSE) /\ UNCHANGED <<at, policy, retries, paid, clobbered, switches>>
    BY <1>2 DEF RetryLocked
  <2>2. /\ job' \in [Jobs -> Job] /\ \A i \in Jobs : i # j => job'[i] = job[i]
        /\ job'[j].rev = job[j].rev + 1 /\ job'[j].status = "queued"
        /\ queue \subseteq queue' /\ queue' \subseteq Task /\ deaths' \in 0..MaxDeaths
    BY <2>1, <1>1, RestartEffect
  <2>3. \A i \in Jobs : RowMoves(i) BY <2>2, <1>1, SameRow DEF RowMoves
  <2>4. WorkTyped' /\ \A w \in Workers : at'[w].does = "stage" => at'[w] = at[w] BY <2>1, <2>2, SameWork
  <2>5. RestTyped' BY <2>1, <2>2, Beside
  <2>6. JobsTyped' BY <2>2, <2>4, <2>5 DEF JobsTyped, WorkTyped, RestTyped
  <2>. QED BY <2>1, <2>3, <2>4, <2>6, CalmMoves
<1>3. CASE RetryLoad(j)
  <2>1. /\ retries' = retries \cup {[job |-> j, rev |-> job[j].rev, stage |-> job[j].stage]}
        /\ UNCHANGED <<job, queue, at, policy, paid, clobbered, deaths, switches>>
    BY <1>3 DEF RetryLoad
  <2>2. JobsTyped' BY <2>1, <1>1 DEF JobsTyped, Occupied
  <2>3. \A i \in Jobs : RowMoves(i) BY <2>1, SameRow
  <2>. QED BY <2>1, <2>2, <2>3, CalmMoves
<1>. QED BY <1>2, <1>3

LEMMA LateRetryMoves ==
    ASSUME JobsTyped, NEW r \in retries, RetryWrite(r)
    PROVE  JobsTyped' /\ Moves
<1>1. r.job \in Jobs /\ r.rev \in Revisions /\ r.stage \in Stages /\ r.rev \in Nat
  BY StudioBounds DEF JobsTyped
<1>2. /\ Restart(r.job, r.rev, r.stage, job[r.job].paused) /\ retries' = retries \ {r}
      /\ clobbered' = IF job[r.job].rev > r.rev THEN clobbered \cup {r.job} ELSE clobbered
      /\ UNCHANGED <<at, policy, paid, switches>>
  BY DEF RetryWrite
<1>3. job[r.job].paused \in BOOLEAN /\ job[r.job].rev \in Nat BY <1>1, JobType DEF Job
<1>4. /\ job' \in [Jobs -> Job] /\ \A i \in Jobs : i # r.job => job'[i] = job[i]
      /\ job'[r.job].rev = r.rev + 1 /\ job'[r.job].status = "queued"
      /\ queue \subseteq queue' /\ queue' \subseteq Task /\ deaths' \in 0..MaxDeaths
  BY <1>1, <1>2, <1>3, RestartEffect
<1>5. RowMoves(r.job) BY <1>1, <1>2, <1>3, <1>4 DEF RowMoves
<1>6. \A i \in Jobs : RowMoves(i) BY <1>4, <1>5, SameRow
<1>7. WorkTyped' /\ \A w \in Workers : at'[w].does = "stage" => at'[w] = at[w] BY <1>2, <1>4, SameWork
<1>8. clobbered \subseteq clobbered' /\ clobbered' \subseteq Jobs BY <1>1, <1>2 DEF JobsTyped
<1>9. RestTyped' BY <1>2, <1>4, <1>8 DEF JobsTyped, RestTyped
<1>10. JobsTyped' BY <1>4, <1>7, <1>9 DEF JobsTyped, WorkTyped, RestTyped
<1>. QED BY <1>2, <1>6, <1>7, <1>8, <1>10, CalmMoves

LEMMA PolicyMoves ==
    ASSUME JobsTyped, SwitchPolicy
    PROVE  JobsTyped' /\ Moves
<1>1. UNCHANGED <<job, queue, at, retries, paid, clobbered, deaths>> BY DEF SwitchPolicy
<1>2. policy' \in Policies /\ switches' \in 0..MaxSwitches BY StudioBounds DEF SwitchPolicy, JobsTyped
<1>3. JobsTyped' BY <1>1, <1>2 DEF JobsTyped, Occupied
<1>. QED BY <1>1, <1>3, SameRow, CalmMoves

-----------------------------------------------------------------------------
(* Workers.                                                                *)

LEMMA StartMoves ==
    ASSUME JobsTyped, NEW w \in Workers, NEW t \in queue, StartStage(w, t)
    PROVE  JobsTyped' /\ Moves
<1>1. /\ t \in Task /\ t.job \in Jobs /\ t.rev \in Revisions /\ t.stage \in Stages
      /\ job \in [Jobs -> Job] /\ job[t.job] \in Job /\ queue \subseteq Task
      /\ at[w] = Resting /\ ~Locked(t)
      /\ UNCHANGED <<queue, policy, retries, clobbered, deaths, switches>>
  BY DEF JobsTyped, Task, StartStage
<1>2. CASE TakeUp(t) /\ ~Blocked(t.job)
  <2>. DEFINE next == [does |-> "stage", task |-> t]
              row == [job[t.job] EXCEPT !.status = "working", !.old = FALSE]
  <2>1. /\ job' = [job EXCEPT ![t.job] = row]
        /\ at' = [at EXCEPT ![w] = next]
        /\ paid' = [paid EXCEPT ![t.job][t.rev][t.stage] = @ + 1]
    BY <1>1, <1>2 DEF StartStage
  <2>2. next \in Doing BY <1>1 DEF Doing
  <2>3. WorkTyped' /\ at'[w] = next /\ \A v \in Workers : v # w => at'[v] = at[v]
    BY <1>1, <2>1, <2>2, OneWorks
  <2>4. row \in Job /\ row.status = "working" /\ row.rev = job[t.job].rev /\ row.stage = job[t.job].stage
    BY <1>1 DEF Job, Active
  <2>. HIDE DEF row
  <2>5. /\ job' \in [Jobs -> Job] /\ job'[t.job].status = "working"
        /\ \A j \in Jobs : SamePlace(j) /\ (j # t.job => job'[j].status = job[j].status)
    BY <1>1, <2>1, <2>4 DEF SamePlace
  <2>6. paid' \in [Jobs -> [Revisions -> [Stages -> Nat]]]
    <3>1. paid \in [Jobs -> [Revisions -> [Stages -> Nat]]] BY DEF JobsTyped
    <3>2. paid[t.job][t.rev][t.stage] + 1 \in Nat BY <1>1, <3>1
    <3>3. [paid[t.job][t.rev] EXCEPT ![t.stage] = paid[t.job][t.rev][t.stage] + 1] \in [Stages -> Nat]
      BY <1>1, <3>1, <3>2
    <3>. QED BY <1>1, <2>1, <3>1, <3>3
  <2>7. RestTyped' BY <1>1, <2>6 DEF JobsTyped, RestTyped
  <2>8. JobsTyped' BY <2>3, <2>5, <2>7 DEF JobsTyped, WorkTyped, RestTyped
  <2>9. TakesUp(w, t) BY <1>1, <1>2, <2>1, <2>3, <2>5 DEF TakesUp, TakeUp
  <2>. QED BY <1>1, <2>8, <2>9 DEF Moves
<1>3. CASE ~(TakeUp(t) /\ ~Blocked(t.job))
  <2>. DEFINE next == [does |-> "tidying", task |-> t]
              fields == [job[t.job] EXCEPT !.held = TRUE]
  <2>1. /\ Write(t.job, TakeUp(t), fields) /\ at' = [at EXCEPT ![w] = next] /\ paid' = paid
    BY <1>1, <1>3 DEF StartStage
  <2>2. next \in Doing BY <1>1 DEF Doing
  <2>3. WorkTyped' /\ at'[w] = next /\ \A v \in Workers : v # w => at'[v] = at[v]
    BY <1>1, <2>1, <2>2, OneWorks
  <2>4. /\ fields \in Job /\ fields.status = job[t.job].status /\ fields.rev = job[t.job].rev
        /\ fields.stage = job[t.job].stage
    BY <1>1 DEF Job
  <2>5. TakeUp(t) \in BOOLEAN BY DEF TakeUp
  <2>. HIDE DEF fields
  <2>6. /\ job' \in [Jobs -> Job] /\ \A i \in Jobs : i # t.job => job'[i] = job[i]
        /\ job'[t.job].status = job[t.job].status /\ SamePlace(t.job)
    BY <1>1, <2>1, <2>4, <2>5, WriteEffect DEF SamePlace
  <2>7. \A i \in Jobs : RowMoves(i) BY <2>6, SameRow DEF RowMoves
  <2>8. RestTyped' BY <1>1, <2>1, Beside DEF JobsTyped
  <2>9. JobsTyped' BY <2>3, <2>6, <2>8 DEF JobsTyped, WorkTyped, RestTyped
  <2>. QED BY <1>1, <2>1, <2>3, <2>7, <2>9, CalmMoves
<1>. QED BY <1>2, <1>3

\* engine.fail
LEMMA FailEffect ==
    ASSUME JobsTyped, NEW j \in Jobs, NEW rev, Fail(j, rev)
    PROVE  job' \in [Jobs -> Job] /\ \A i \in Jobs : RowMoves(i)
<1>. DEFINE fields == [job[j] EXCEPT !.status = "failed", !.held = FALSE]
            guard == job[j].rev = rev /\ job[j].status \in Active
<1>1. job[j] \in Job BY DEF JobsTyped
<1>2. fields \in Job /\ fields.status = "failed" /\ fields.rev = job[j].rev /\ fields.stage = job[j].stage
  BY <1>1 DEF Job, Ended
<1>3. Write(j, guard, fields) BY DEF Fail
<1>4. guard \in BOOLEAN OBVIOUS
<1>. HIDE DEF fields
<1>5. /\ job' \in [Jobs -> Job] /\ \A i \in Jobs : i # j => job'[i] = job[i]
      /\ ~guard => job'[j] = job[j]
      /\ guard => job'[j].status = "failed" /\ job'[j].rev = job[j].rev /\ job'[j].stage = job[j].stage
  BY <1>2, <1>3, <1>4, WriteEffect
<1>6. RowMoves(j) BY <1>5 DEF RowMoves, SamePlace, Active, Ended
<1>. QED BY <1>5, <1>6, SameRow

LEMMA StageMoves ==
    ASSUME JobsTyped, NEW w \in Workers,
           StageSaves(w) \/ StageFinishes(w) \/ StagePassesOn(w) \/ StageFails(w)
    PROVE  JobsTyped' /\ Moves
<1>. DEFINE t == at[w].task
            j == t.job
            next == [at[w] EXCEPT !.does = "tidying"]
<1>1. at[w].does = "stage" BY DEF StageSaves, StageFinishes, StagePassesOn, StageFails
<1>2. /\ t \in Task /\ j \in Jobs /\ t.rev \in Revisions /\ t.stage \in Stages /\ t.stage \in Nat
      /\ t \in queue /\ at[w] = [does |-> "stage", task |-> t]
  BY <1>1, StageType
<1>3. /\ job \in [Jobs -> Job] /\ job[j] \in Job /\ queue \subseteq Task /\ StillMine(t) \in BOOLEAN
  BY <1>2 DEF JobsTyped, StillMine
<1>4. UNCHANGED <<policy, retries, paid, clobbered, switches>>
  BY DEF StageSaves, StageFinishes, StagePassesOn, StageFails
<1>5. next = [does |-> "tidying", task |-> t] /\ next \in Doing BY <1>2 DEF Doing
<1>6. ASSUME job' \in [Jobs -> Job], at' = at \/ at' = [at EXCEPT ![w] = next],
             queue \subseteq queue', queue' \subseteq Task, deaths' \in 0..MaxDeaths
      PROVE  /\ JobsTyped' /\ \A v \in Workers : at'[v].does = "stage" => at'[v] = at[v]
             /\ at' # at => at'[w].does = "tidying"
             /\ (\A i \in Jobs : RowMoves(i)) => Moves
  <2>1. CASE at' = at
    <3>1. WorkTyped' /\ \A v \in Workers : at'[v].does = "stage" => at'[v] = at[v] BY <1>6, <2>1, SameWork
    <3>2. RestTyped' BY <1>4, <1>6, Beside
    <3>. QED BY <3>1, <3>2, <2>1, <1>4, <1>6, CalmMoves DEF JobsTyped, WorkTyped, RestTyped
  <2>2. CASE at' = [at EXCEPT ![w] = next]
    <3>1. next.task = t /\ next.does = "tidying" /\ Occupied(w) BY <1>1, <1>5 DEF Occupied
    <3>. HIDE DEF next
    <3>2. WorkTyped' /\ at'[w] = next /\ \A v \in Workers : v # w => at'[v] = at[v]
      BY <3>1, <1>2, <1>5, <1>6, <2>2, OneWorks
    <3>3. RestTyped' BY <1>4, <1>6, Beside
    <3>4. JobsTyped' BY <3>2, <3>3, <1>6 DEF JobsTyped, WorkTyped, RestTyped
    <3>5. \A v \in Workers : at'[v].does = "stage" => at'[v] = at[v] BY <3>1, <3>2
    <3>. QED BY <3>1, <3>2, <3>4, <3>5, <1>4, CalmMoves
  <2>. QED BY <2>1, <2>2, <1>6
<1>7. CASE StageSaves(w)
  <2>1. /\ Write(j, StillMine(t), job[j]) /\ UNCHANGED <<queue, deaths>>
        /\ at' = at \/ at' = [at EXCEPT ![w] = next]
    BY <1>7 DEF StageSaves
  <2>2. /\ job' \in [Jobs -> Job] /\ \A i \in Jobs : i # j => job'[i] = job[i]
        /\ job'[j].status = job[j].status /\ SamePlace(j)
    BY <2>1, <1>2, <1>3, WriteEffect DEF SamePlace
  <2>3. \A i \in Jobs : RowMoves(i) BY <2>2, SameRow DEF RowMoves
  <2>4. deaths' \in 0..MaxDeaths BY <2>1 DEF JobsTyped
  <2>. QED BY <2>1, <2>2, <2>3, <2>4, <1>3, <1>6
<1>8. CASE StageFinishes(w)
  <2>. DEFINE fields == [job[j] EXCEPT !.status = "done"]
  <2>1. Write(j, StillMine(t), fields) /\ UNCHANGED <<queue, deaths>> /\ at' = [at EXCEPT ![w] = next]
    BY <1>8 DEF StageFinishes
  <2>2. fields \in Job /\ fields.status = "done" /\ fields.rev = job[j].rev /\ fields.stage = job[j].stage
    BY <1>3 DEF Job, Ended
  <2>. HIDE DEF fields
  <2>3. /\ job' \in [Jobs -> Job] /\ \A i \in Jobs : i # j => job'[i] = job[i]
        /\ ~StillMine(t) => job'[j] = job[j]
        /\ StillMine(t) => job'[j].status = "done" /\ job'[j].rev = job[j].rev /\ job'[j].stage = job[j].stage
    BY <2>1, <2>2, <1>2, <1>3, WriteEffect
  <2>4. RowMoves(j) BY <2>3 DEF RowMoves, SamePlace, StillMine, Ended
  <2>5. deaths' \in 0..MaxDeaths BY <2>1 DEF JobsTyped
  <2>. QED BY <2>1, <2>3, <2>4, <2>5, <1>3, <1>6, SameRow
<1>9. CASE StagePassesOn(w)
  <2>. DEFINE fields == [job[j] EXCEPT !.status = "queued", !.stage = t.stage + 1]
  <2>1. /\ Write(j, StillMine(t), fields) /\ at' = [at EXCEPT ![w] = next]
        /\ IF StillMine(t) THEN Enqueue(queue, j, t.rev, t.stage + 1) ELSE UNCHANGED <<queue, deaths>>
    BY <1>9 DEF StagePassesOn
  <2>2. t.stage + 1 \in Stages BY <1>2, <1>9, StudioBounds DEF StagePassesOn, Stages
  <2>3. /\ fields \in Job /\ fields.status = "queued" /\ fields.rev = job[j].rev
        /\ fields.stage = t.stage + 1
    BY <2>2, <1>3 DEF Job, Active
  <2>. HIDE DEF fields
  <2>4. /\ job' \in [Jobs -> Job] /\ \A i \in Jobs : i # j => job'[i] = job[i]
        /\ ~StillMine(t) => job'[j] = job[j]
        /\ StillMine(t) => job'[j].status = "queued" /\ job'[j].rev = job[j].rev /\ job'[j].stage = t.stage + 1
    BY <2>1, <2>3, <1>2, <1>3, WriteEffect
  <2>5. queue \subseteq queue' /\ queue' \subseteq Task /\ deaths' \in 0..MaxDeaths
    <3>1. CASE StillMine(t) BY <3>1, <2>1, <2>2, <1>2, <1>3, EnqueueEffect
    <3>2. CASE ~StillMine(t) BY <3>2, <2>1, <1>3 DEF JobsTyped
    <3>. QED BY <3>1, <3>2
  <2>6. at'[w].does # "stage" BY <2>1, <1>5 DEF JobsTyped
  <2>7. ASSUME NEW i \in Jobs, i = j
        PROVE  RowMoves(i)
    <3>1. CASE ~StillMine(t) BY <2>4, <2>7, <3>1 DEF RowMoves, SamePlace
    <3>2. CASE StillMine(t)
      <4>1. InStage(w, i) /\ at[w].task.rev = job[i].rev /\ job[i].status = "working"
        BY <1>1, <2>7, <3>2 DEF InStage, StillMine
      <4>2. job'[i].rev = job[i].rev /\ job'[i].stage = at[w].task.stage + 1 /\ job'[i].status = "queued"
        BY <2>4, <2>7, <3>2
      <4>. QED BY <4>1, <4>2, <2>6 DEF RowMoves
    <3>. QED BY <3>1, <3>2
  <2>8. \A i \in Jobs : RowMoves(i) BY <2>4, <2>7, SameRow
  <2>. QED BY <2>1, <2>4, <2>5, <2>8, <1>6
<1>10. CASE StageFails(w)
  <2>1. Fail(j, t.rev) /\ at' = [at EXCEPT ![w] = next] /\ UNCHANGED <<queue, deaths>>
    BY <1>10 DEF StageFails
  <2>2. job' \in [Jobs -> Job] /\ \A i \in Jobs : RowMoves(i) BY <2>1, <1>2, FailEffect
  <2>3. deaths' \in 0..MaxDeaths BY <2>1 DEF JobsTyped
  <2>. QED BY <2>1, <2>2, <2>3, <1>3, <1>6
<1>. QED BY <1>7, <1>8, <1>9, <1>10

\* A task that ends or whose worker dies, and the sweep.
LEMMA TidyMoves ==
    ASSUME JobsTyped, NEW w \in Workers,
           \/ TaskEnds(w) \/ WorkerDies(w) \/ SweepReads(w)
           \/ at[w].does = "sweep" /\ \E s \in at[w].seen : SweepRow(w, s)
    PROVE  JobsTyped' /\ Moves
<1>1. job \in [Jobs -> Job] /\ queue \subseteq Task /\ at \in [Workers -> Doing] /\ at[w] \in Doing BY DEF JobsTyped
<1>2. UNCHANGED <<policy, retries, paid, clobbered, switches>>
  BY DEF TaskEnds, WorkerDies, SweepReads, SweepRow
<1>3. ASSUME job' \in [Jobs -> Job], \A i \in Jobs : RowMoves(i), deaths' \in 0..MaxDeaths, queue' \subseteq Task,
             \A t \in queue : t \in queue' \/ (Occupied(w) /\ t = at[w].task),
             NEW next \in Doing, next.does \notin {"stage", "tidying"}, at' = [at EXCEPT ![w] = next]
      PROVE  JobsTyped' /\ Moves
  <2>1. WorkTyped' /\ at'[w] = next /\ \A v \in Workers : v # w => at'[v] = at[v] BY <1>3, OneWorks
  <2>2. RestTyped' BY <1>2, <1>3, Beside
  <2>3. JobsTyped' BY <2>1, <2>2, <1>3 DEF JobsTyped, WorkTyped, RestTyped
  <2>4. \A v \in Workers : at'[v].does = "stage" => at'[v] = at[v] BY <2>1, <1>3
  <2>. QED BY <2>3, <2>4, <1>2, <1>3, CalmMoves
<1>4. Resting \in Doing /\ Resting.does = "nothing" BY DEF Resting, Doing
<1>5. CASE TaskEnds(w)
  <2>1. /\ queue' = queue \ {at[w].task} /\ at' = [at EXCEPT ![w] = Resting] /\ UNCHANGED <<job, deaths>>
        /\ Occupied(w)
    BY <1>5 DEF TaskEnds, Occupied
  <2>2. deaths' \in 0..MaxDeaths BY <2>1 DEF JobsTyped
  <2>. QED BY <2>1, <2>2, <1>1, <1>3, <1>4, SameRow
<1>6. CASE WorkerDies(w)
  <2>1. at' = [at EXCEPT ![w] = Resting] /\ UNCHANGED <<job, queue>> BY <1>6 DEF WorkerDies
  <2>2. deaths' \in 0..MaxDeaths BY <1>6, StudioBounds DEF WorkerDies, JobsTyped
  <2>. QED BY <2>1, <2>2, <1>1, <1>3, <1>4, SameRow
<1>7. CASE SweepReads(w)
  <2>. DEFINE seen == {[job |-> j, rev |-> job[j].rev, stage |-> job[j].stage, status |-> job[j].status] :
                         j \in {i \in Jobs : job[i].status \in Active /\ job[i].old}}
              next == [does |-> "sweep", seen |-> seen]
  <2>1. at' = [at EXCEPT ![w] = next] /\ UNCHANGED <<job, queue, deaths>> BY <1>7 DEF SweepReads
  <2>2. seen \subseteq Seen BY JobType DEF Seen
  <2>3. next \in Doing BY <2>2 DEF Doing
  <2>4. deaths' \in 0..MaxDeaths BY <2>1 DEF JobsTyped
  <2>. HIDE DEF seen
  <2>. QED BY <2>1, <2>3, <2>4, <1>1, <1>3, SameRow
<1>8. CASE at[w].does = "sweep" /\ \E s \in at[w].seen : SweepRow(w, s)
  <2>1. PICK s \in at[w].seen : SweepRow(w, s) BY <1>8
  <2>2. at[w] \in [does : {"sweep"}, seen : SUBSET Seen] BY <1>1, <1>8 DEF Doing, Resting
  <2>3. s.job \in Jobs BY <2>1, <2>2 DEF Seen
  <2>. DEFINE rest == at[w].seen \ {s}
              next == IF rest = {} THEN Resting ELSE [does |-> "sweep", seen |-> rest]
  <2>4. at' = [at EXCEPT ![w] = next] /\ UNCHANGED <<queue, deaths>> BY <2>1 DEF SweepRow
  <2>5. rest \subseteq Seen BY <2>2
  <2>. HIDE DEF rest
  <2>6. next \in Doing /\ next.does \notin {"stage", "tidying"}
    <3>1. CASE rest = {} BY <3>1, <1>4
    <3>2. CASE rest # {} BY <3>2, <2>5 DEF Doing
    <3>. QED BY <3>1, <3>2
  <2>7. job' \in [Jobs -> Job] /\ \A i \in Jobs : RowMoves(i)
    BY <2>1, <2>3, <1>1, FailEffect, SameRow DEF SweepRow
  <2>8. deaths' \in 0..MaxDeaths BY <2>4 DEF JobsTyped
  <2>. HIDE DEF next
  <2>. QED BY <2>4, <2>6, <2>7, <2>8, <1>1, <1>3
<1>. QED BY <1>5, <1>6, <1>7, <1>8

LEMMA ResumeMoves ==
    ASSUME JobsTyped, NEW w \in Workers, NEW j \in Jobs, ResumeHeld(w, j)
    PROVE  JobsTyped' /\ Moves
<1>. DEFINE fields == [job[j] EXCEPT !.held = Blocked(j)]
<1>1. /\ job \in [Jobs -> Job] /\ job[j] \in Job /\ queue \subseteq Task
      /\ job[j].rev \in Revisions /\ job[j].stage \in Stages
  BY JobType DEF JobsTyped
<1>2. Blocked(j) \in BOOLEAN BY DEF Blocked
<1>3. /\ Write(j, TRUE, fields) /\ UNCHANGED <<at, policy, retries, paid, clobbered, switches>>
      /\ UNCHANGED <<queue, deaths>> \/ Enqueue(queue, j, job[j].rev, job[j].stage)
  BY Zenon DEF ResumeHeld
<1>4. /\ fields \in Job /\ fields.status = job[j].status /\ fields.rev = job[j].rev
      /\ fields.stage = job[j].stage
  BY <1>1, <1>2 DEF Job
<1>. HIDE DEF fields
<1>5. /\ job' \in [Jobs -> Job] /\ \A i \in Jobs : i # j => job'[i] = job[i]
      /\ job'[j].status = job[j].status /\ SamePlace(j)
  BY <1>3, <1>4, WriteEffect DEF SamePlace
<1>6. \A i \in Jobs : RowMoves(i) BY <1>5, SameRow DEF RowMoves
<1>7. queue \subseteq queue' /\ queue' \subseteq Task /\ deaths' \in 0..MaxDeaths
  <2>1. CASE UNCHANGED <<queue, deaths>> BY <2>1, <1>1 DEF JobsTyped
  <2>2. CASE Enqueue(queue, j, job[j].rev, job[j].stage) BY <2>2, <1>1, EnqueueEffect
  <2>. QED BY <2>1, <2>2, <1>3
<1>8. WorkTyped' /\ \A v \in Workers : at'[v].does = "stage" => at'[v] = at[v] BY <1>3, <1>7, SameWork
<1>9. RestTyped' BY <1>3, <1>7, Beside
<1>10. JobsTyped' BY <1>5, <1>8, <1>9 DEF JobsTyped, WorkTyped, RestTyped
<1>. QED BY <1>3, <1>6, <1>8, <1>10, CalmMoves

-----------------------------------------------------------------------------
(* Those who ask for jobs: routines and the week.                          *)

\* A row that is opened, with its task or without.
LEMMA AskedForMoves ==
    ASSUME JobsTyped, NEW j \in Jobs, job' \in [Jobs -> Job], \A i \in Jobs : RowMoves(i),
           Enqueue(queue, j, 1, 1), UNCHANGED <<at, policy, retries, paid, clobbered, switches>>
    PROVE  JobsTyped' /\ Moves
<1>1. queue \subseteq Task BY DEF JobsTyped
<1>2. queue \subseteq queue' /\ queue' \subseteq Task /\ deaths' \in 0..MaxDeaths
  BY <1>1, StudioBounds, EnqueueEffect
<1>3. WorkTyped' /\ \A w \in Workers : at'[w].does = "stage" => at'[w] = at[w] BY <1>2, SameWork
<1>4. RestTyped' BY <1>2, Beside
<1>5. JobsTyped' BY <1>3, <1>4 DEF JobsTyped, WorkTyped, RestTyped
<1>. QED BY <1>3, <1>5, CalmMoves

LEMMA InstructionMoves ==
    ASSUME JobsTyped, NEW r, NEW j \in Jobs, PostInstruction(r, j),
           UNCHANGED <<at, policy, retries, paid, clobbered, switches>>
    PROVE  JobsTyped' /\ Moves
<1>1. job \in [Jobs -> Job] /\ job[j] \in Job BY DEF JobsTyped
<1>2. job' = [job EXCEPT ![j].status = "queued"] /\ job[j].status = "none" /\ Enqueue(queue, j, 1, 1)
  BY DEF PostInstruction
<1>3. job' \in [Jobs -> Job] BY <1>1, <1>2 DEF Job, Active
<1>4. \A i \in Jobs : RowMoves(i) BY <1>1, <1>2, SameRow DEF RowMoves, SamePlace, Job
<1>. QED BY <1>2, <1>3, <1>4, AskedForMoves

\* A week that has not been planned has no plan.
WeekHead ==
    /\ week \in [status : {"none", "skipped", "planning", "planned", "failed"}, plan : Plans \cup {NoPlan}]
    /\ week.status = "none" => week.plan = NoPlan

LEMMA PlanMoves ==
    ASSUME JobsTyped, WeekHead, NEW p \in Plans, PlanWeek(p)
    PROVE  JobsTyped' /\ Moves
<1>. DEFINE asked(i) == [job[i] EXCEPT !.status = "queued"]
            retired(i) == [job[i] EXCEPT !.status = "cancelled", !.old = FALSE]
<1>1. p \in Jobs /\ NoPlan # p BY WeekAssumption
<1>2. /\ job[p].status = "none" /\ Enqueue(queue, p, 1, 1)
      /\ UNCHANGED <<at, policy, retries, paid, clobbered, switches>>
      /\ job' = [i \in Jobs |-> IF i = p THEN asked(i)
                                ELSE IF i = week.plan /\ job[i].status # "done" THEN retired(i) ELSE job[i]]
  BY DEF PlanWeek
<1>3. week.plan = NoPlan \/ Replaceable(week.plan) BY DEF PlanWeek, WeekHead
<1>4. \A i \in Jobs : job[i] \in Job BY DEF JobsTyped
<1>5. \A i \in Jobs : /\ asked(i) \in Job /\ asked(i).status = "queued"
                      /\ asked(i).rev = job[i].rev /\ asked(i).stage = job[i].stage
                      /\ retired(i) \in Job /\ retired(i).status = "cancelled"
                      /\ retired(i).rev = job[i].rev /\ retired(i).stage = job[i].stage
  BY <1>4 DEF Job, Active, Ended
<1>. HIDE DEF asked, retired
<1>6. job' \in [Jobs -> Job] BY <1>2, <1>4, <1>5
<1>7. ASSUME NEW i \in Jobs, i = week.plan, job[i].status # "done", i # p
      PROVE  RowMoves(i)
  <2>1. job[i].status \notin Active BY <1>3, <1>7, WeekAssumption DEF Replaceable
  <2>2. job'[i] = retired(i) BY <1>2, <1>7
  <2>. QED BY <2>1, <2>2, <1>5, <1>7, JobType DEF RowMoves, SamePlace, Active, Ended
<1>8. RowMoves(p) BY <1>1, <1>2, <1>5 DEF RowMoves, SamePlace
<1>9. \A i \in Jobs : RowMoves(i) BY <1>2, <1>7, <1>8, SameRow
<1>. QED BY <1>1, <1>2, <1>6, <1>9, AskedForMoves

LEMMA BriefMoves ==
    ASSUME JobsTyped, NEW w \in Workers, MakeBrief(w)
    PROVE  JobsTyped' /\ Moves
<1>. DEFINE p == at[w].task.job
<1>1. /\ p \in Plans /\ p \in Jobs /\ Write(p, TRUE, job[p])
      /\ UNCHANGED <<queue, at, policy, retries, paid, clobbered, deaths, switches>>
  BY WeekAssumption DEF MakeBrief
<1>2. job[p] \in Job /\ queue \subseteq Task /\ deaths' \in 0..MaxDeaths BY <1>1 DEF JobsTyped
<1>3. /\ job' \in [Jobs -> Job] /\ \A i \in Jobs : i # p => job'[i] = job[i]
      /\ job'[p].status = job[p].status /\ SamePlace(p)
  BY <1>1, <1>2, WriteEffect DEF SamePlace
<1>4. \A i \in Jobs : RowMoves(i) BY <1>3, SameRow DEF RowMoves
<1>5. WorkTyped' /\ \A v \in Workers : at'[v].does = "stage" => at'[v] = at[v] BY <1>1, <1>2, SameWork
<1>6. RestTyped' BY <1>1, <1>2, Beside
<1>7. JobsTyped' BY <1>3, <1>5, <1>6 DEF JobsTyped, WorkTyped, RestTyped
<1>. QED BY <1>1, <1>4, <1>5, <1>7, CalmMoves

\* A step that is about something else, in which a process may die.
Quiet ==
    /\ UNCHANGED <<job, queue, at, policy, retries, paid, clobbered, switches>>
    /\ deaths' = deaths \/ (deaths < MaxDeaths /\ deaths' = deaths + 1)

LEMMA QuietMoves ==
    ASSUME JobsTyped, Quiet
    PROVE  JobsTyped' /\ Moves
<1>1. deaths' \in 0..MaxDeaths BY StudioBounds DEF Quiet, JobsTyped
<1>2. JobsTyped' BY <1>1 DEF JobsTyped, Occupied, Quiet
<1>. QED BY <1>2, SameRow, CalmMoves DEF Quiet

-----------------------------------------------------------------------------
(* Every step of the composed specification.                               *)

LEMMA RoutinesQuiet ==
    ASSUME JobsTyped, RoutineSteps
    PROVE  JobsTyped' /\ Moves
<1>1. ASSUME NEW r \in RoutineRows, StartRoutine(r)
      PROVE  JobsTyped' /\ Moves
  <2>1. UNCHANGED <<at, policy, retries, paid, clobbered, switches>> BY <1>1 DEF StartRoutine
  <2>2. CASE SkipRun(r) \/ SendBriefing(r)
    BY <2>1, <2>2, QuietMoves DEF SkipRun, SendBriefing, Quiet
  <2>3. CASE \E j \in Jobs : PostInstruction(r, j) BY <2>1, <2>3, InstructionMoves
  <2>. QED BY <1>1, <2>2, <2>3 DEF StartRoutine
<1>2. ASSUME UNCHANGED studioVars PROVE JobsTyped' /\ Moves BY <1>2, QuietMoves DEF Quiet, studioVars
<1>3. ASSUME NEW r \in RoutineRows, NEW w \in Workers, RunDue(w, r) \/ SettleOne(w, r)
      PROVE  JobsTyped' /\ Moves
  BY <1>1, <1>2, <1>3 DEF RunDue, SettleOne
<1>4. ASSUME NEW r \in RoutineRows, RunNow(r) \/ EditLoad(r) \/ RoutineDue(r) \/ LeaseExpires(r)
      PROVE  JobsTyped' /\ Moves
  BY <1>1, <1>2, <1>4 DEF RunNow, EditLoad, RoutineDue, LeaseExpires
<1>5. ASSUME NEW e \in edits, EditWrite(e) PROVE JobsTyped' /\ Moves BY <1>2, <1>5 DEF EditWrite
<1>. QED BY <1>3, <1>4, <1>5 DEF RoutineSteps

LEMMA WorkerMoves ==
    ASSUME JobsTyped, NEW w \in Workers, WorkerSteps(w)
    PROVE  JobsTyped' /\ Moves
BY StartMoves, StageMoves, TidyMoves, ResumeMoves DEF WorkerSteps

LEMMA PeopleMoves ==
    ASSUME JobsTyped, NEW j \in Jobs, CreateJob(j) \/ PeopleSteps(j)
    PROVE  JobsTyped' /\ Moves
BY StopMoves, RetryMoves DEF PeopleSteps

\* What a page does with its copy of a brief.
PageStep(g) == FindApproved(g) \/ SaveApproved(g) \/ ReopenBrief(g) \/ PageEnds(g)

LEMMA WeekMoves ==
    ASSUME JobsTyped, WeekHead, AgencyNext
    PROVE  JobsTyped' /\ Moves
<1>1. ASSUME NEW p \in Plans, PlanWeek(p) \/ StopPlan(p) \/ ResumePlan(p) PROVE JobsTyped' /\ Moves
  BY <1>1, PlanMoves, StopMoves, RetryMoves, WeekAssumption DEF StopPlan, ResumePlan
<1>2. ASSUME NEW w \in Workers, MakeBrief(w) PROVE JobsTyped' /\ Moves BY <1>2, BriefMoves
<1>3. ASSUME UNCHANGED studioVars PROVE JobsTyped' /\ Moves BY <1>3, QuietMoves DEF Quiet, studioVars
<1>4. ASSUME UNCHANGED <<job, queue, at, policy, retries, paid, clobbered, switches>>,
             NEW tasks, EnqueueSteps(tasks)
      PROVE  JobsTyped' /\ Moves
  BY <1>4, QuietMoves DEF Quiet, EnqueueSteps
<1>5. ASSUME NEW p \in Plans, \/ RequestChanges(p) \/ RetryBrief(p) \/ DiscardBrief(p)
                              \/ ApprovePost(p) \/ OpenBrief(p) \/ SendBack(p) \/ BriefAges(p)
      PROVE  JobsTyped' /\ Moves
  BY <1>3, <1>4, <1>5 DEF RequestChanges, RetryBrief, Again, DiscardBrief, ApprovePost, OpenBrief,
                          SendBack, BriefAges
<1>8. ASSUME NEW g \in pages, PageStep(g) PROVE JobsTyped' /\ Moves
  BY <1>3, <1>8 DEF PageStep, FindApproved, SaveApproved, ReopenBrief, PageEnds
<1>6. CASE SkipWeek \/ Feed \/ AnnounceReads \/ AnnounceWrites
  BY <1>3, <1>4, <1>6 DEF SkipWeek, Feed, AnnounceReads, AnnounceWrites
<1>7. ASSUME NEW w \in Workers, ProducerMoves(w) \/ ProducerDies(w) \/ SweepBriefs(w) \/ \E t \in steps : StartStep(w, t)
      PROVE  JobsTyped' /\ Moves
  <2>1. CASE StepPassesOn(w)
    <3>1. UNCHANGED <<job, queue, at, policy, retries, paid, clobbered, switches>> BY <2>1 DEF StepPassesOn
    <3>2. UNCHANGED <<brief, steps, deaths>> \/ \E tasks : EnqueueSteps(tasks) BY <2>1 DEF StepPassesOn
    <3>. QED BY <3>1, <3>2, <1>4, QuietMoves DEF Quiet
  <2>2. CASE ProducerDies(w) BY <2>2, QuietMoves DEF ProducerDies, Quiet
  <2>3. CASE \/ StepFails(w) \/ HandOff(w) \/ StepEnds(w) \/ SweepBrief(w) \/ SweepBriefs(w)
             \/ \E t \in steps : StartStep(w, t)
    BY <2>3, <1>3 DEF StepFails, HandOff, StepEnds, SweepBrief, SweepBriefs, StartStep
  <2>. QED BY <1>7, <2>1, <2>2, <2>3 DEF ProducerMoves
<1>. QED BY <1>1, <1>2, <1>5, <1>6, <1>7, <1>8 DEF AgencyNext, PageStep

LEMMA EveryMove ==
    ASSUME JobsTyped, WeekHead, [Next]_vars
    PROVE  JobsTyped' /\ Moves
<1>. DEFINE Goal == JobsTyped' /\ Moves
<1>1. Automatic \subseteq Jobs /\ Plans \subseteq Jobs /\ Staff \subseteq Workers
  BY StudioAssumption, WeekAssumption DEF Staff
<1>2. /\ \A j \in Jobs : CreateJob(j) \/ PeopleSteps(j) => Goal
      /\ \A j \in Jobs : StopChat(j) \/ ControlStop(j) \/ JobAges(j) \/ RetryLocked(j) => Goal
      /\ \A r \in retries : RetryWrite(r) => Goal
      /\ \A w \in Workers : WorkerSteps(w) => Goal
      /\ SwitchPolicy => Goal
      /\ RoutineSteps => Goal
      /\ AgencyNext => Goal
  BY PeopleMoves, StopMoves, RetryMoves, LateRetryMoves, WorkerMoves, PolicyMoves, RoutinesQuiet, WeekMoves
<1>. SUFFICES Goal OBVIOUS
<1>. HIDE DEF Goal
<1>3. CASE TeamNext BY <1>1, <1>2, <1>3 DEF TeamNext, Studio
<1>4. CASE PeopleNext BY <1>1, <1>2, <1>4 DEF PeopleNext, Studio
<1>5. CASE RoutineNext BY <1>1, <1>2, <1>5 DEF RoutineNext, Studio
<1>6. CASE WeekNext \/ DraftsNext
  <2>1. AgencySteps BY <1>6 DEF WeekNext, DraftsNext
  <2>. QED BY <2>1, <1>1, <1>2 DEF AgencySteps, Studio, Team
<1>7. CASE TalkNext \/ UNCHANGED vars
  <2>1. UNCHANGED studioVars BY <1>7 DEF TalkNext, Talk, vars
  <2>. QED BY <2>1, QuietMoves DEF Quiet, studioVars, Goal
<1>. QED BY <1>3, <1>4, <1>5, <1>6, <1>7 DEF Next

LEMMA WeekHeadKept ==
    ASSUME WeekHead, [Next]_vars
    PROVE  WeekHead'
<1>1. ASSUME UNCHANGED week PROVE WeekHead' BY <1>1 DEF WeekHead
<1>2. ASSUME NEW p \in Plans, PlanWeek(p) PROVE WeekHead' BY <1>2 DEF WeekHead, PlanWeek
<1>3. CASE SkipWeek BY <1>3 DEF WeekHead, SkipWeek
<1>4. CASE AnnounceWrites
  <2>1. PICK settled \in {"planning", "failed", "planned", week.status} : week' = [week EXCEPT !.status = settled]
    BY <1>4 DEF AnnounceWrites
  <2>2. /\ week'.plan = week.plan /\ week'.status = settled
        /\ week' \in [status : {"none", "skipped", "planning", "planned", "failed"}, plan : Plans \cup {NoPlan}]
    BY <2>1 DEF WeekHead
  <2>. QED BY <2>2 DEF WeekHead
<1>5. ASSUME NEW p \in Plans, \/ StopPlan(p) \/ ResumePlan(p) \/ RequestChanges(p) \/ RetryBrief(p) \/ DiscardBrief(p)
                              \/ ApprovePost(p) \/ OpenBrief(p) \/ SendBack(p) \/ BriefAges(p)
      PROVE  WeekHead'
  BY <1>1, <1>5 DEF StopPlan, ResumePlan, RequestChanges, RetryBrief, DiscardBrief, ApprovePost,
                    OpenBrief, SendBack, BriefAges, weekVars
<1>12. ASSUME NEW g \in pages, PageStep(g) PROVE WeekHead'
  BY <1>1, <1>12 DEF PageStep, FindApproved, SaveApproved, ReopenBrief, PageEnds
<1>6. CASE Feed \/ AnnounceReads BY <1>1, <1>6 DEF Feed, AnnounceReads
<1>7. ASSUME NEW w \in Workers, \/ MakeBrief(w) \/ ProducerMoves(w) \/ ProducerDies(w) \/ SweepBriefs(w)
                                \/ \E t \in steps : StartStep(w, t)
      PROVE  WeekHead'
  BY <1>1, <1>7 DEF MakeBrief, ProducerMoves, StepPassesOn, StepFails, HandOff, StepEnds, SweepBrief,
                    ProducerDies, SweepBriefs, StartStep
<1>8. CASE AgencyNext BY <1>2, <1>3, <1>4, <1>5, <1>6, <1>7, <1>8, <1>12 DEF AgencyNext, PageStep
<1>9. CASE WeekNext \/ DraftsNext
  <2>1. AgencySteps BY <1>9 DEF WeekNext, DraftsNext
  <2>2. UNCHANGED week \/ AgencyNext BY <2>1 DEF AgencySteps, Studio, Team, weekVars
  <2>. QED BY <2>2, <1>1, <1>8
<1>10. CASE TeamNext \/ PeopleNext \/ TalkNext \/ UNCHANGED vars
  BY <1>1, <1>10 DEF TeamNext, PeopleNext, TalkNext, Studio, Talk, weekVars, vars
<1>11. CASE RoutineNext BY <1>1, <1>11 DEF RoutineNext, Studio, weekVars
<1>. QED BY <1>9, <1>10, <1>11 DEF Next

-----------------------------------------------------------------------------
(* The theorems about jobs.                                                *)

StudioInv == JobsTyped /\ WeekHead /\ Ledgers

LEMMA StudioStarts == Init => StudioInv
<1>. SUFFICES ASSUME Init PROVE StudioInv OBVIOUS
<1>1. StudioInit /\ WeekInit BY DEF Init
<1>2. job \in [Jobs -> Job] BY <1>1, StudioBounds DEF StudioInit, Job
<1>3. at \in [Workers -> Doing] /\ \A w \in Workers : at[w].does = "nothing"
  BY <1>1 DEF StudioInit, Doing, Resting
<1>4. \A w \in Workers : ~Occupied(w) BY <1>3 DEF Occupied
<1>5. paid \in [Jobs -> [Revisions -> [Stages -> Nat]]] BY <1>1 DEF StudioInit
<1>6. queue = {} /\ policy = "open" /\ retries = {} /\ clobbered = {} /\ deaths = 0 /\ switches = 0
  BY <1>1 DEF StudioInit
<1>7. deaths \in 0..MaxDeaths /\ switches \in 0..MaxSwitches BY <1>6, StudioBounds
<1>8. JobsTyped BY <1>2, <1>3, <1>4, <1>5, <1>6, <1>7 DEF JobsTyped, Policies
<1>9. ASSUME NEW j \in Jobs PROVE Ledger(j)
  <2>1. \A r \in Revisions, s \in Stages : paid[j][r][s] = 0 BY <1>1 DEF StudioInit
  <2>2. \A w \in Workers : ~InStage(w, j) BY <1>3 DEF InStage
  <2>3. job[j].rev = 1 /\ job[j].stage = 1 BY <1>1 DEF StudioInit
  <2>. QED BY <2>1, <2>2, <2>3 DEF Ledger
<1>10. WeekHead BY <1>1 DEF WeekInit, WeekHead
<1>. QED BY <1>8, <1>9, <1>10 DEF StudioInv, Ledgers

LEMMA StudioInvKept == StudioInv /\ [Next]_vars => StudioInv' /\ Moves
BY EveryMove, WeekHeadKept, LedgersKept DEF StudioInv

\* The tasks, the rows and the people of the studio have their types, and no
\* two workers ever hold the same task (the task lock of the worker table).
THEOREM StudioTypes == Spec => []JobsTyped
<1>1. StudioInv => JobsTyped BY DEF StudioInv
<1>. QED BY <1>1, StudioStarts, StudioInvKept, PTL DEF Spec

\* Whatever dies, is swept, resumed, retried or queued twice, and whatever
\* routines and weeks ask for meanwhile, engine.run_step starts the model call
\* of a stage of one revision once, unless a late Retry wrote the row over.
THEOREM StagesPaidOnce == Spec => []NoStageTwice
<1>1. StudioInv => NoStageTwice BY DEF StudioInv, Ledgers, Ledger, NoStageTwice
<1>. QED BY <1>1, StudioStarts, StudioInvKept, PTL DEF Spec

\* Nothing that a stage, the sweep or a late task brings back changes a job
\* that has ended: the guards of engine.save, finish and fail hold, and every
\* way to open a job again raises its revision.
THEOREM StopIsFinal == Spec => StoppedStaysStopped
<1>. DEFINE Final == \A j \in Jobs \ clobbered' :
         job[j].status \in Ended /\ job'[j].status # job[j].status =>
            job'[j].rev > job[j].rev \/ <<job[j].status, job'[j].status>> = <<"failed", "cancelled">>
<1>1. ASSUME Moves PROVE Final
  <2>1. SUFFICES ASSUME NEW j \in Jobs, j \notin clobbered', job[j].status \in Ended,
                        job'[j].status # job[j].status
                 PROVE  job'[j].rev > job[j].rev \/ (job[j].status = "failed" /\ job'[j].status = "cancelled")
    OBVIOUS
  <2>2. CASE RowMoves(j) BY <2>1, <2>2 DEF RowMoves, Ended
  <2>3. CASE \E w \in Workers, t \in Task : TakesUp(w, t) BY <2>1, <2>3 DEF TakesUp, Ended
  <2>. QED BY <1>1, <2>2, <2>3 DEF Moves
<1>2. StudioInv /\ [Next]_vars => Final BY <1>1, StudioInvKept
<1>. HIDE DEF Final
<1>3. Spec => [][Final]_vars BY <1>2, StudioStarts, StudioInvKept, PTL DEF Spec
<1>. QED BY <1>3 DEF Final, StoppedStaysStopped

-----------------------------------------------------------------------------
(* Routines and their runs.                                                *)

RoutineRow == [enabled : BOOLEAN, due : BOOLEAN, status : RoutineStatuses, lease : {"none", "held", "expired"}]

Matches(r) ==
    /\ Len(open[r]) = IF routine[r].status = "running" THEN 1 ELSE 0
    /\ routine[r].status = "running" <=> routine[r].lease # "none"

RoutineInv == RoutineTypeOK /\ \A r \in RoutineRows \ overwritten : Matches(r)

\* A step that writes one routine and perhaps closes or opens a run of it.
LEMMA OneRoutineKept ==
    ASSUME RoutineInv, NEW r \in RoutineRows, NEW row \in RoutineRow, NEW runs \in Seq(Jobs),
           routine' = [routine EXCEPT ![r] = row], open' = [open EXCEPT ![r] = runs],
           edits' \subseteq [routine : RoutineRows, enabled : BOOLEAN, status : RoutineStatuses],
           overwritten \subseteq overwritten', overwritten' \subseteq RoutineRows,
           r \notin overwritten' => /\ Len(runs) = IF row.status = "running" THEN 1 ELSE 0
                                    /\ row.status = "running" <=> row.lease # "none"
    PROVE  RoutineInv'
<1>1. /\ routine \in [RoutineRows -> RoutineRow] /\ open \in [RoutineRows -> Seq(Jobs)]
  BY DEF RoutineInv, RoutineTypeOK, RoutineRow
<1>2. /\ routine' \in [RoutineRows -> RoutineRow] /\ open' \in [RoutineRows -> Seq(Jobs)]
      /\ routine'[r] = row /\ open'[r] = runs
      /\ \A q \in RoutineRows : q # r => routine'[q] = routine[q] /\ open'[q] = open[q]
  BY <1>1
<1>3. RoutineTypeOK' BY <1>2 DEF RoutineTypeOK, RoutineRow
<1>4. ASSUME NEW q \in RoutineRows, q \notin overwritten' PROVE Matches(q)'
  <2>1. CASE q = r BY <2>1, <1>2, <1>4 DEF Matches
  <2>2. CASE q # r BY <2>2, <1>2, <1>4 DEF Matches, RoutineInv
  <2>. QED BY <2>1, <2>2
<1>. QED BY <1>3, <1>4 DEF RoutineInv

LEMMA StartKept ==
    ASSUME RoutineInv, NEW r \in RoutineRows, StartRoutine(r), routine[r].status # "running"
    PROVE  RoutineInv'
<1>1. /\ routine \in [RoutineRows -> RoutineRow] /\ open \in [RoutineRows -> Seq(Jobs)]
      /\ routine[r] \in RoutineRow /\ open[r] \in Seq(Jobs)
      /\ edits \subseteq [routine : RoutineRows, enabled : BOOLEAN, status : RoutineStatuses]
      /\ overwritten \subseteq RoutineRows
  BY DEF RoutineInv, RoutineTypeOK, RoutineRow
<1>2. UNCHANGED <<edits, overwritten>> BY DEF StartRoutine
<1>3. r \notin overwritten => routine[r].lease = "none" /\ Len(open[r]) = 0 BY DEF RoutineInv, Matches
<1>4. open = [open EXCEPT ![r] = open[r]] BY <1>1
<1>5. CASE SkipRun(r)
  <2>. DEFINE row == [routine[r] EXCEPT !.due = FALSE]
  <2>1. row \in RoutineRow /\ row.status = routine[r].status /\ row.lease = routine[r].lease
    BY <1>1 DEF RoutineRow
  <2>2. routine' = [routine EXCEPT ![r] = row] /\ open' = open BY <1>1, <1>5 DEF SkipRun
  <2>. HIDE DEF row
  <2>. QED BY <2>1, <2>2, <1>1, <1>2, <1>3, <1>4, OneRoutineKept
<1>6. CASE SendBriefing(r)
  <2>1. PICK sent \in BOOLEAN :
          routine' = [routine EXCEPT ![r] = [@ EXCEPT !.due = FALSE, !.status = IF sent THEN "idle" ELSE "failed"]]
    BY <1>6 DEF SendBriefing
  <2>. DEFINE row == [routine[r] EXCEPT !.due = FALSE, !.status = IF sent THEN "idle" ELSE "failed"]
  <2>2. row \in RoutineRow /\ row.status # "running" /\ row.lease = routine[r].lease
    BY <1>1 DEF RoutineRow, RoutineStatuses
  <2>3. routine' = [routine EXCEPT ![r] = row] /\ open' = open BY <1>6, <2>1 DEF SendBriefing
  <2>. HIDE DEF row
  <2>. QED BY <2>2, <2>3, <1>1, <1>2, <1>3, <1>4, OneRoutineKept
<1>7. CASE \E j \in Jobs : PostInstruction(r, j)
  <2>1. PICK j \in Jobs : PostInstruction(r, j) BY <1>7
  <2>. DEFINE row == [routine[r] EXCEPT !.due = FALSE, !.status = "running", !.lease = "held"]
              runs == Append(open[r], j)
  <2>2. row \in RoutineRow /\ row.status = "running" /\ row.lease = "held"
    BY <1>1 DEF RoutineRow, RoutineStatuses
  <2>3. runs \in Seq(Jobs) /\ Len(runs) = Len(open[r]) + 1 BY <1>1
  <2>4. routine' = [routine EXCEPT ![r] = row] /\ open' = [open EXCEPT ![r] = runs]
    BY <2>1 DEF PostInstruction
  <2>. HIDE DEF row, runs
  <2>5. r \notin overwritten' => /\ Len(runs) = IF row.status = "running" THEN 1 ELSE 0
                                 /\ row.status = "running" <=> row.lease # "none"
    BY <2>2, <2>3, <1>2, <1>3
  <2>. QED BY <2>2, <2>3, <2>4, <2>5, <1>1, <1>2, OneRoutineKept
<1>. QED BY <1>5, <1>6, <1>7 DEF StartRoutine

LEMMA SettleKept ==
    ASSUME RoutineInv, NEW r \in RoutineRows, NEW w \in Workers, SettleOne(w, r)
    PROVE  RoutineInv'
<1>1. /\ routine \in [RoutineRows -> RoutineRow] /\ open \in [RoutineRows -> Seq(Jobs)]
      /\ routine[r] \in RoutineRow /\ open[r] \in Seq(Jobs)
      /\ edits \subseteq [routine : RoutineRows, enabled : BOOLEAN, status : RoutineStatuses]
      /\ overwritten \subseteq RoutineRows
  BY DEF RoutineInv, RoutineTypeOK, RoutineRow
<1>2. UNCHANGED <<edits, overwritten>> /\ routine[r].status = "running" /\ open[r] # <<>> BY DEF SettleOne
<1>3. r \notin overwritten => Len(open[r]) = 1 BY <1>2 DEF RoutineInv, Matches
<1>4. ASSUME NEW status \in RoutineStatuses \ {"running"}, Settle(r, status)
      PROVE  RoutineInv'
  <2>. DEFINE row == [routine[r] EXCEPT !.status = status, !.lease = "none"]
              runs == Front(open[r])
  <2>1. row \in RoutineRow /\ row.status = status /\ row.lease = "none" BY <1>1 DEF RoutineRow
  <2>2. runs \in Seq(Jobs) /\ Len(runs) = Len(open[r]) - 1
    <3>. DEFINE last == Len(open[r]) - 1
    <3>1. Len(open[r]) \in Nat \ {0} BY <1>1, <1>2, EmptySeq
    <3>2. last \in Int /\ last >= 0 /\ \A i \in 1..last : open[r][i] \in Jobs BY <1>1, <3>1
    <3>3. runs = SubSeq(open[r], 1, last) BY DEF Front
    <3>. HIDE DEF last, runs
    <3>4. runs \in Seq(Jobs) /\ Len(runs) = IF 1 <= last THEN last - 1 + 1 ELSE 0
      BY <3>2, <3>3, SubSeqProperties
    <3>. QED BY <3>1, <3>2, <3>4 DEF last
  <2>3. routine' = [routine EXCEPT ![r] = row] /\ open' = [open EXCEPT ![r] = runs] BY <1>4 DEF Settle
  <2>. HIDE DEF row, runs
  <2>4. r \notin overwritten' => /\ Len(runs) = IF row.status = "running" THEN 1 ELSE 0
                                 /\ row.status = "running" <=> row.lease # "none"
    BY <2>1, <2>2, <1>2, <1>3, <1>4
  <2>. QED BY <2>1, <2>2, <2>3, <2>4, <1>1, <1>2, OneRoutineKept
<1>5. ASSUME routine' = [routine EXCEPT ![r].lease = "held"], UNCHANGED open
      PROVE  RoutineInv'
  <2>. DEFINE row == [routine[r] EXCEPT !.lease = "held"]
  <2>1. row \in RoutineRow /\ row.status = "running" /\ row.lease = "held" BY <1>1, <1>2 DEF RoutineRow
  <2>2. routine' = [routine EXCEPT ![r] = row] /\ open' = [open EXCEPT ![r] = open[r]] BY <1>1, <1>5
  <2>. HIDE DEF row
  <2>. QED BY <2>1, <2>2, <1>1, <1>2, <1>3, OneRoutineKept
<1>6. \/ Settle(r, "idle") \/ Settle(r, "failed") \/ Settle(r, "interrupted")
      \/ routine' = [routine EXCEPT ![r].lease = "held"] /\ UNCHANGED open
  BY DEF SettleOne
<1>. QED BY <1>4, <1>5, <1>6 DEF RoutineStatuses

LEMMA EditKept ==
    ASSUME RoutineInv, NEW e \in edits, EditWrite(e)
    PROVE  RoutineInv'
<1>. DEFINE resumes == ~e.enabled
            tidied == resumes /\ e.status = "interrupted"
            r == e.routine
            due == routine[r].due /\ ~resumes
            status == IF tidied THEN "idle" ELSE routine[r].status
            row == [routine[r] EXCEPT !.enabled = resumes, !.due = due, !.status = status]
<1>1. /\ routine \in [RoutineRows -> RoutineRow] /\ open \in [RoutineRows -> Seq(Jobs)]
      /\ r \in RoutineRows /\ e.enabled \in BOOLEAN
      /\ routine[r] \in RoutineRow /\ open[r] \in Seq(Jobs)
      /\ edits \subseteq [routine : RoutineRows, enabled : BOOLEAN, status : RoutineStatuses]
      /\ overwritten \subseteq RoutineRows
  BY DEF RoutineInv, RoutineTypeOK, RoutineRow
<1>2. /\ edits' = edits \ {e} /\ open' = open
      /\ overwritten' = IF tidied /\ routine[r].status = "running" THEN overwritten \cup {r} ELSE overwritten
  BY DEF EditWrite
<1>3. routine' = [routine EXCEPT ![r] = row] BY DEF EditWrite
<1>4. resumes \in BOOLEAN /\ due \in BOOLEAN /\ status \in RoutineStatuses
  BY <1>1 DEF RoutineRow, RoutineStatuses
<1>5. status = "running" => routine[r].status = "running" OBVIOUS
<1>6. (tidied /\ routine[r].status = "running") \/ (status = "running" <=> routine[r].status = "running")
  OBVIOUS
<1>7. /\ overwritten \subseteq overwritten' /\ overwritten' \subseteq RoutineRows
      /\ r \notin overwritten' => /\ r \notin overwritten
                                  /\ status = "running" <=> routine[r].status = "running"
  BY <1>1, <1>2, <1>6
<1>8. edits' \subseteq [routine : RoutineRows, enabled : BOOLEAN, status : RoutineStatuses] BY <1>1, <1>2
<1>9. open' = [open EXCEPT ![r] = open[r]] BY <1>1, <1>2
<1>. HIDE DEF resumes, due, status
<1>10. row \in RoutineRow /\ row.status = status /\ row.lease = routine[r].lease BY <1>1, <1>4 DEF RoutineRow
<1>11. r \notin overwritten' => /\ Len(open[r]) = IF row.status = "running" THEN 1 ELSE 0
                                /\ row.status = "running" <=> row.lease # "none"
  BY <1>1, <1>7, <1>10 DEF RoutineInv, Matches
<1>. HIDE DEF row, r
<1>. QED BY <1>1, <1>3, <1>7, <1>8, <1>9, <1>10, <1>11, OneRoutineKept

LEMMA RoutineStepKept ==
    ASSUME RoutineInv, RoutineSteps
    PROVE  RoutineInv'
<1>1. /\ routine \in [RoutineRows -> RoutineRow] /\ open \in [RoutineRows -> Seq(Jobs)]
      /\ edits \subseteq [routine : RoutineRows, enabled : BOOLEAN, status : RoutineStatuses]
      /\ overwritten \subseteq RoutineRows
  BY DEF RoutineInv, RoutineTypeOK, RoutineRow
<1>2. ASSUME NEW r \in RoutineRows, NEW w \in Workers, RunDue(w, r) \/ SettleOne(w, r)
      PROVE  RoutineInv'
  BY <1>2, StartKept, SettleKept DEF RunDue, MayStart
<1>3. ASSUME NEW r \in RoutineRows, RunNow(r) PROVE RoutineInv' BY <1>3, StartKept DEF RunNow
<1>4. ASSUME NEW r \in RoutineRows, EditLoad(r) PROVE RoutineInv'
  <2>1. UNCHANGED <<routine, open, overwritten>> BY <1>4 DEF EditLoad
  <2>2. edits' \subseteq [routine : RoutineRows, enabled : BOOLEAN, status : RoutineStatuses]
    BY <1>1, <1>4 DEF EditLoad, RoutineRow
  <2>. QED BY <2>1, <2>2 DEF RoutineInv, RoutineTypeOK, Matches
<1>5. ASSUME NEW r \in RoutineRows, RoutineDue(r) \/ LeaseExpires(r) PROVE RoutineInv'
  <2>1. UNCHANGED <<open, edits, overwritten>> /\ routine[r] \in RoutineRow /\ open[r] \in Seq(Jobs)
    BY <1>1, <1>5 DEF RoutineDue, LeaseExpires
  <2>2. PICK row \in RoutineRow :
          /\ routine' = [routine EXCEPT ![r] = row] /\ row.status = routine[r].status
          /\ row.lease # "none" <=> routine[r].lease # "none"
    <3>1. CASE RoutineDue(r)
      <4>1. [routine[r] EXCEPT !.due = TRUE] \in RoutineRow BY <2>1 DEF RoutineRow
      <4>. QED BY <4>1, <3>1, <2>1 DEF RoutineDue, RoutineRow
    <3>2. CASE LeaseExpires(r)
      <4>1. [routine[r] EXCEPT !.lease = "expired"] \in RoutineRow BY <2>1 DEF RoutineRow
      <4>. QED BY <4>1, <3>2, <2>1 DEF LeaseExpires, RoutineRow
    <3>. QED BY <3>1, <3>2, <1>5
  <2>3. open' = [open EXCEPT ![r] = open[r]] BY <1>1, <2>1
  <2>4. r \notin overwritten => Matches(r) BY DEF RoutineInv
  <2>. QED BY <1>1, <2>1, <2>2, <2>3, <2>4, OneRoutineKept DEF Matches
<1>6. ASSUME NEW e \in edits, EditWrite(e) PROVE RoutineInv' BY <1>6, EditKept
<1>. QED BY <1>2, <1>3, <1>4, <1>5, <1>6 DEF RoutineSteps

LEMMA RoutineInvKept == RoutineInv /\ [Next]_vars => RoutineInv'
<1>. SUFFICES ASSUME RoutineInv, [Next]_vars PROVE RoutineInv' OBVIOUS
<1>1. ASSUME UNCHANGED routineVars PROVE RoutineInv'
  BY <1>1 DEF RoutineInv, RoutineTypeOK, Matches, routineVars
<1>2. CASE RoutineNext
  <2>1. UNCHANGED routineVars \/ RoutineSteps BY <1>2 DEF RoutineNext, Studio
  <2>. QED BY <2>1, <1>1, RoutineStepKept
<1>3. CASE WeekNext \/ DraftsNext
  <2>1. UNCHANGED routineVars BY <1>3 DEF WeekNext, DraftsNext, AgencySteps, Studio, Team
  <2>. QED BY <2>1, <1>1
<1>4. CASE TeamNext \/ PeopleNext \/ TalkNext \/ UNCHANGED vars
  <2>1. UNCHANGED routineVars BY <1>4 DEF TeamNext, PeopleNext, TalkNext, Studio, Talk, vars
  <2>. QED BY <2>1, <1>1
<1>. QED BY <1>2, <1>3, <1>4 DEF Next

LEMMA RoutinesStart == Init => RoutineInv
<1>. SUFFICES ASSUME RoutineInit PROVE RoutineInv BY DEF Init
<1>1. /\ open = [r \in RoutineRows |-> <<>>] /\ edits = {} /\ overwritten = {}
      /\ routine \in [RoutineRows -> [enabled : BOOLEAN, due : {FALSE}, status : {"idle"}, lease : {"none"}]]
  BY DEF RoutineInit
<1>2. open \in [RoutineRows -> Seq(Jobs)] /\ \A r \in RoutineRows : Len(open[r]) = 0
  BY <1>1, EmptySeq
<1>3. routine \in [RoutineRows -> RoutineRow] /\ \A r \in RoutineRows : routine[r].status = "idle" /\ routine[r].lease = "none"
  BY <1>1 DEF RoutineRow, RoutineStatuses
<1>4. RoutineTypeOK BY <1>1, <1>2, <1>3 DEF RoutineTypeOK, RoutineRow
<1>. QED BY <1>2, <1>3, <1>4 DEF RoutineInv, Matches

\* A routine that says it is running has one open run and a lease on it, and
\* one that does not has neither, however it was started, settled, paused or
\* resumed, unless a Resume that was late for a run marked it idle.
THEOREM RunsMatch == Spec => []RunMatchesRoutine
<1>1. RoutineInv => RunMatchesRoutine BY DEF RoutineInv, Matches, RunMatchesRoutine
<1>. QED BY <1>1, RoutinesStart, RoutineInvKept, PTL DEF Spec

-----------------------------------------------------------------------------
(* Conversations.                                                          *)

ThreadLine == [by : {"person", "manager"}, job : Asked]
ChatRow    == [status : Open \cup {"none", "done", "failed", "cancelled"}, rev : 1..LastRevision, taps : Nat,
               result : Results, card : Nat, saw : {Nowhere} \cup Evidence, stale : BOOLEAN]
DraftRow   == [job : Asked, saw : {Nowhere} \cup Evidence, status : {"making", "planned", "over"}]
Answering  == [does : {"nothing", "reading", "asking", "looking", "confirming", "decided", "replied"},
               job : Asked, rev : 1..LastRevision, result : Results, card : Nat,
               saw : {Nowhere} \cup Evidence, stale : BOOLEAN]

ThreadTyped ==
    /\ thread \in Seq(ThreadLine) /\ chatJob \in [Asked -> ChatRow] /\ drafts \in Seq(DraftRow)
    /\ answerer \in [Answerers -> Answering]
    /\ evidence \in Evidence /\ mode \in {"confirm", "auto"} /\ isMember \in BOOLEAN
    /\ mishaps \in 0..MaxMishaps

\* Message i is about the person's n-th message.
Shows(i, n) == i \in DOMAIN thread /\ thread[i].job = n

\* A result is there once the job is done, with the message that shows it; what
\* a tap is on was the result of a job.
JobSound(n) ==
    /\ chatJob[n].result # "none" => chatJob[n].status = "done"
    /\ chatJob[n].card # Nowhere => Shows(chatJob[n].card, n)
    /\ chatJob[n].taps # Nowhere =>
         chatJob[n].taps \in DOMAIN thread /\ chatJob[thread[chatJob[n].taps].job].result # "none"

\* A worker is where its job's kind leads it.
WorkSound(w) ==
    answerer[w].does # "nothing" =>
        /\ chatJob[answerer[w].job].status # "none"
        /\ answerer[w].does \in {"reading", "asking"} <=> chatJob[answerer[w].job].taps = Nowhere
        /\ answerer[w].does = "replied" => Shows(answerer[w].card, answerer[w].job)

TalkSound == ThreadTyped /\ (\A n \in Asked : JobSound(n)) /\ (\A w \in Answerers : WorkSound(w))

\* A draft without a card is of a job that is done; one with a card rests on it.
DraftSound(i) ==
    /\ chatJob[drafts[i].job].status # "none"
    /\ CardOfDraft(i) = Nowhere => chatJob[drafts[i].job].status = "done"
    /\ CardOfDraft(i) # Nowhere => drafts[i].saw = chatJob[thread[CardOfDraft(i)].job].saw

DraftsSound ==
    /\ \A i \in DOMAIN drafts : DraftSound(i)
    /\ \A i, j \in DOMAIN drafts :
         i # j => /\ drafts[i].job # drafts[j].job
                  /\ CardOfDraft(i) = CardOfDraft(j) => CardOfDraft(i) = Nowhere
    /\ DraftsIn("planned") <= ChatCap

LEMMA ThreadBounds ==
    /\ LastMessage \in Nat \ {0} /\ LastRevision \in Nat \ {0} /\ ChatCap \in Nat \ {0} /\ MaxMishaps \in Nat
    /\ 1 \in Asked /\ Asked \subseteq Nat /\ 1 \in 1..LastRevision
<1>1. LastMessage \in Nat \ {0} /\ LastRevision \in Nat \ {0} /\ ChatCap \in Nat \ {0} /\ MaxMishaps \in Nat
  BY ThreadAssumption
<1>. QED BY <1>1 DEF Asked

\* What no step of the conversation takes back.
Grows == \A i \in DOMAIN thread : i \in DOMAIN thread' /\ thread'[i] = thread[i]
ChatMoves ==
    /\ Grows
    /\ \A n \in Asked :
         /\ chatJob[n].status # "none" => chatJob'[n].status # "none" /\ chatJob'[n].taps = chatJob[n].taps
         /\ chatJob[n].status = "done" => chatJob'[n].status = "done"
         /\ chatJob[n].result # "none" => chatJob'[n].result = chatJob[n].result /\ chatJob'[n].saw = chatJob[n].saw

LEMMA TalkKept ==
    ASSUME TalkSound, ThreadTyped', ChatMoves,
           \A n \in Asked : \/ JobSound(n)'
                            \/ /\ chatJob'[n].taps = chatJob[n].taps /\ chatJob'[n].result = chatJob[n].result
                               /\ chatJob'[n].card = chatJob[n].card,
           \A w \in Answerers : WorkSound(w)' \/ answerer'[w] = answerer[w]
    PROVE  TalkSound'
<1>1. ASSUME NEW i \in DOMAIN thread PROVE thread[i].job \in Asked
  <2>1. thread \in Seq(ThreadLine) BY DEF TalkSound, ThreadTyped
  <2>2. i \in 1..Len(thread) BY <1>1, <2>1
  <2>3. thread[i] \in ThreadLine BY <2>1, <2>2, ElementOfSeq
  <2>. QED BY <2>3 DEF ThreadLine
<1>3. ASSUME NEW n \in Asked PROVE JobSound(n)'
  <2>1. CASE /\ chatJob'[n].taps = chatJob[n].taps /\ chatJob'[n].result = chatJob[n].result
             /\ chatJob'[n].card = chatJob[n].card
    <3>1. JobSound(n) BY DEF TalkSound
    <3>2. chatJob'[n].result # "none" => chatJob'[n].status = "done" BY <2>1, <3>1 DEF JobSound, ChatMoves
    <3>3. chatJob'[n].card # Nowhere => chatJob'[n].card \in DOMAIN thread' /\ thread'[chatJob'[n].card].job = n
      <4>. SUFFICES ASSUME chatJob'[n].card # Nowhere
                    PROVE  chatJob'[n].card \in DOMAIN thread' /\ thread'[chatJob'[n].card].job = n
        OBVIOUS
      <4>1. PICK i : i = chatJob[n].card OBVIOUS
      <4>2. Shows(i, n) BY <2>1, <3>1, <4>1 DEF JobSound
      <4>3. i \in DOMAIN thread' /\ thread'[i].job = n BY <4>2 DEF Shows, ChatMoves, Grows
      <4>. QED BY <2>1, <4>1, <4>3
    <3>4. ASSUME chatJob'[n].taps # Nowhere
          PROVE  chatJob'[n].taps \in DOMAIN thread' /\ chatJob'[thread'[chatJob'[n].taps].job].result # "none"
      <4>1. PICK i : i = chatJob[n].taps OBVIOUS
      <4>2. i \in DOMAIN thread /\ chatJob[thread[i].job].result # "none" BY <2>1, <3>1, <3>4, <4>1 DEF JobSound
      <4>3. PICK m \in Asked : m = thread[i].job BY <1>1, <4>2
      <4>4. chatJob'[m].result = chatJob[m].result BY <4>2, <4>3 DEF ChatMoves
      <4>5. i \in DOMAIN thread' /\ thread'[i] = thread[i] BY <4>2 DEF ChatMoves, Grows
      <4>. QED BY <2>1, <4>1, <4>2, <4>3, <4>4, <4>5
    <3>. QED BY <3>2, <3>3, <3>4 DEF JobSound, Shows, Nowhere
  <2>. QED BY <2>1
<1>4. ASSUME NEW w \in Answerers PROVE WorkSound(w)'
  <2>. SUFFICES ASSUME answerer'[w] = answerer[w], answerer[w].does # "nothing" PROVE WorkSound(w)'
    BY DEF WorkSound
  <2>1. PICK n \in Asked : n = answerer[w].job BY DEF TalkSound, ThreadTyped, Answering
  <2>2. WorkSound(w) BY DEF TalkSound
  <2>3. chatJob[n].status # "none" BY <2>1, <2>2 DEF WorkSound
  <2>4. chatJob'[n].status # "none" /\ chatJob'[n].taps = chatJob[n].taps BY <2>3 DEF ChatMoves
  <2>5. answerer[w].does = "replied" =>
           answerer[w].card \in DOMAIN thread' /\ thread'[answerer[w].card].job = answerer[w].job
    <3>. SUFFICES ASSUME answerer[w].does = "replied"
                  PROVE  answerer[w].card \in DOMAIN thread' /\ thread'[answerer[w].card].job = answerer[w].job
      OBVIOUS
    <3>1. PICK i : i = answerer[w].card OBVIOUS
    <3>2. Shows(i, n) BY <2>1, <2>2, <3>1 DEF WorkSound
    <3>3. i \in DOMAIN thread' /\ thread'[i].job = n BY <3>2 DEF Shows, ChatMoves, Grows
    <3>. QED BY <2>1, <3>1, <3>3
  <2>. QED BY <2>1, <2>2, <2>4, <2>5 DEF WorkSound, Shows, Nowhere
<1>. QED BY <1>3, <1>4 DEF TalkSound

\* One job changes that is not done.
LEMMA OneJobMoves ==
    ASSUME TalkSound, NEW n \in Asked, NEW line \in ChatRow, chatJob' = [chatJob EXCEPT ![n] = line], Grows,
           chatJob[n].status # "done", line.status # "none",
           chatJob[n].status = "none" \/ line.taps = chatJob[n].taps
    PROVE  /\ ChatMoves /\ chatJob' \in [Asked -> ChatRow]
           /\ chatJob'[n] = line /\ \A m \in Asked \ {n} : chatJob'[m] = chatJob[m]
<1>1. chatJob' \in [Asked -> ChatRow] /\ chatJob'[n] = line /\ \A m \in Asked \ {n} : chatJob'[m] = chatJob[m]
  BY DEF TalkSound, ThreadTyped
<1>2. chatJob[n].result = "none" BY DEF TalkSound, JobSound
<1>. QED BY <1>1, <1>2 DEF ChatMoves

\* Only the status, and perhaps the revision, of a job that is not done changes.
LEMMA StatusStep ==
    ASSUME TalkSound, NEW n \in Asked, NEW status \in Open \cup {"failed", "cancelled"}, NEW rev \in 1..LastRevision,
           chatJob' = [chatJob EXCEPT ![n] = [chatJob[n] EXCEPT !.status = status, !.rev = rev]],
           chatJob[n].status \notin {"none", "done"}, thread' = thread, drafts' = drafts,
           answerer' \in [Answerers -> Answering], \A w \in Answerers : WorkSound(w)' \/ answerer'[w] = answerer[w],
           evidence' = evidence, mode' = mode, isMember' = isMember, mishaps' \in 0..MaxMishaps
    PROVE  TalkSound' /\ ChatMoves
<1>. DEFINE line == [chatJob[n] EXCEPT !.status = status, !.rev = rev]
<1>1. chatJob[n] \in ChatRow BY DEF TalkSound, ThreadTyped
<1>2. /\ line \in ChatRow /\ line.status = status /\ line.taps = chatJob[n].taps /\ line.result = chatJob[n].result
      /\ line.card = chatJob[n].card
  BY <1>1 DEF ChatRow, Open
<1>3. chatJob' = [chatJob EXCEPT ![n] = line] OBVIOUS
<1>. HIDE DEF line
<1>4. Grows BY DEF Grows
<1>5. status # "none" BY DEF Open
<1>6. /\ ChatMoves /\ chatJob' \in [Asked -> ChatRow] /\ chatJob'[n] = line
      /\ \A m \in Asked \ {n} : chatJob'[m] = chatJob[m]
  BY <1>2, <1>3, <1>4, <1>5, OneJobMoves
<1>7. ThreadTyped' BY <1>6 DEF TalkSound, ThreadTyped
<1>. QED BY <1>2, <1>6, <1>7, TalkKept

\* Nothing of the jobs changes.
LEMMA WorkStep ==
    ASSUME TalkSound, chatJob' = chatJob, Grows, thread' \in Seq(ThreadLine), drafts' \in Seq(DraftRow),
           answerer' \in [Answerers -> Answering], \A w \in Answerers : WorkSound(w)' \/ answerer'[w] = answerer[w],
           evidence' \in Evidence, mode' = mode, isMember' \in BOOLEAN, mishaps' \in 0..MaxMishaps
    PROVE  TalkSound' /\ ChatMoves
<1>1. ThreadTyped' BY DEF TalkSound, ThreadTyped
<1>2. ChatMoves BY DEF ChatMoves
<1>. QED BY <1>1, <1>2, TalkKept

LEMMA MishapType ==
    ASSUME ThreadTyped, Mishap \/ mishaps' = mishaps
    PROVE  mishaps' \in 0..MaxMishaps
BY ThreadBounds DEF ThreadTyped, Mishap

LEMMA AppendedLine ==
    ASSUME TalkSound, NEW line \in ThreadLine, thread' = Append(thread, line)
    PROVE  /\ Grows /\ thread' \in Seq(ThreadLine) /\ Len(thread) + 1 \in Nat \ {0}
           /\ Len(thread) + 1 \in DOMAIN thread' /\ thread'[Len(thread) + 1] = line
           /\ DOMAIN thread' = DOMAIN thread \cup {Len(thread) + 1}
<1>1. thread \in Seq(ThreadLine) BY DEF TalkSound, ThreadTyped
<1>. QED BY <1>1, AppendProperties DEF Grows

LEMMA OneAnswers ==
    ASSUME TalkSound, NEW w \in Answerers, NEW row \in Answering, On(w, row)
    PROVE  /\ answerer' \in [Answerers -> Answering] /\ answerer'[w] = row
           /\ \A v \in Answerers \ {w} : answerer'[v] = answerer[v]
BY DEF TalkSound, ThreadTyped, On

LEMMA IdleAnswering == Idle \in Answering /\ Idle.does = "nothing"
BY ThreadBounds DEF Idle, Answering, Results, Nowhere

LEMMA RestStep ==
    ASSUME TalkSound, NEW w \in Answerers, Rests(w)
    PROVE  /\ answerer' \in [Answerers -> Answering]
           /\ \A v \in Answerers : WorkSound(v)' \/ answerer'[v] = answerer[v]
<1>1. On(w, Idle) BY DEF Rests
<1>2. answerer' \in [Answerers -> Answering] /\ answerer'[w] = Idle /\ \A v \in Answerers \ {w} : answerer'[v] = answerer[v]
  BY <1>1, IdleAnswering, OneAnswers
<1>. QED BY <1>2, IdleAnswering DEF WorkSound

\* What a tap is on stays the result of a job.
LEMMA TapKept ==
    ASSUME TalkSound, ChatMoves, NEW n \in Asked, chatJob[n].taps # Nowhere
    PROVE  chatJob[n].taps \in DOMAIN thread' /\ chatJob'[thread'[chatJob[n].taps].job].result # "none"
<1>1. PICK i : i = chatJob[n].taps OBVIOUS
<1>2. i \in DOMAIN thread /\ chatJob[thread[i].job].result # "none" BY <1>1 DEF TalkSound, JobSound
<1>3. i \in DOMAIN thread' /\ thread'[i] = thread[i] BY <1>2 DEF ChatMoves, Grows
<1>4. thread[i] \in ThreadLine BY <1>2, ElementOfSeq DEF TalkSound, ThreadTyped
<1>5. PICK m \in Asked : m = thread[i].job BY <1>4 DEF ThreadLine
<1>6. chatJob'[m].result = chatJob[m].result BY <1>2, <1>5 DEF ChatMoves
<1>. QED BY <1>1, <1>2, <1>3, <1>5, <1>6

LEMMA FinishStep ==
    ASSUME TalkSound, NEW w \in Answerers, NEW result \in Results, NEW card \in Nat,
           NEW saw \in {Nowhere} \cup Evidence, NEW stale \in BOOLEAN,
           Finish(w, result, card, saw, stale), Grows, thread' \in Seq(ThreadLine), drafts' \in Seq(DraftRow),
           card # Nowhere => card \in DOMAIN thread' /\ thread'[card].job = answerer[w].job,
           UNCHANGED <<evidence, mode, isMember, mishaps>>
    PROVE  /\ TalkSound' /\ ChatMoves
           /\ Mine(w) => chatJob'[answerer[w].job].status = "done"
<1>1. /\ answerer' \in [Answerers -> Answering]
      /\ \A v \in Answerers : WorkSound(v)' \/ answerer'[v] = answerer[v]
  BY RestStep DEF Finish
<1>2. PICK n \in Asked : n = answerer[w].job BY DEF TalkSound, ThreadTyped, Answering
<1>3. CASE ~Mine(w)
  <2>1. chatJob' = chatJob BY <1>3 DEF Finish
  <2>2. /\ evidence' \in Evidence /\ mode' = mode /\ isMember' \in BOOLEAN /\ mishaps' \in 0..MaxMishaps
    BY DEF TalkSound, ThreadTyped
  <2>. QED BY <1>1, <1>3, <2>1, <2>2, WorkStep
<1>4. CASE Mine(w)
  <2>. DEFINE line == [chatJob[n] EXCEPT !.status = "done", !.result = result, !.card = card,
                                         !.saw = saw, !.stale = stale]
  <2>1. chatJob' = [chatJob EXCEPT ![n] = line] BY <1>2, <1>4 DEF Finish
  <2>2. chatJob[n] \in ChatRow BY DEF TalkSound, ThreadTyped
  <2>3. /\ line \in ChatRow /\ line.status = "done" /\ line.taps = chatJob[n].taps /\ line.card = card
    BY <2>2 DEF ChatRow
  <2>. HIDE DEF line
  <2>4. chatJob[n].status = "working" BY <1>2, <1>4 DEF Mine
  <2>5. /\ ChatMoves /\ chatJob' \in [Asked -> ChatRow] /\ chatJob'[n] = line
        /\ \A m \in Asked \ {n} : chatJob'[m] = chatJob[m]
    BY <2>1, <2>3, <2>4, OneJobMoves
  <2>6. JobSound(n)'
    <3>1. chatJob'[n].taps = chatJob[n].taps BY <2>3, <2>5
    <3>2. ASSUME chatJob'[n].taps # Nowhere
          PROVE  chatJob'[n].taps \in DOMAIN thread' /\ chatJob'[thread'[chatJob'[n].taps].job].result # "none"
      BY <2>5, <3>1, <3>2, TapKept
    <3>3. chatJob'[n].card # Nowhere => chatJob'[n].card \in DOMAIN thread' /\ thread'[chatJob'[n].card].job = n
      BY <1>2, <2>3, <2>5
    <3>4. chatJob'[n].status = "done" BY <2>3, <2>5
    <3>. QED BY <3>2, <3>3, <3>4 DEF JobSound, Shows, Nowhere
  <2>7. ThreadTyped' BY <1>1, <2>5 DEF TalkSound, ThreadTyped
  <2>8. \A m \in Asked : \/ JobSound(m)'
                         \/ /\ chatJob'[m].taps = chatJob[m].taps /\ chatJob'[m].result = chatJob[m].result
                            /\ chatJob'[m].card = chatJob[m].card
    BY <2>5, <2>6
  <2>9. TalkSound' BY <1>1, <2>5, <2>7, <2>8, TalkKept
  <2>. QED BY <1>2, <2>3, <2>5, <2>9
<1>. QED BY <1>3, <1>4

LEMMA PostStep ==
    ASSUME TalkSound, NEW taps \in Nat, Post(taps),
           taps # Nowhere => taps \in DOMAIN thread /\ chatJob[thread[taps].job].result # "none"
    PROVE  TalkSound' /\ ChatMoves /\ drafts' = drafts
<1>1. PICK n \in Asked :
        /\ chatJob[n].status = "none"
        /\ thread' = Append(thread, [by |-> "person", job |-> n])
        /\ chatJob' = [chatJob EXCEPT ![n] = [NoJob EXCEPT !.status = "queued", !.taps = taps]]
        /\ UNCHANGED <<drafts, answerer, evidence, mode, isMember, mishaps>>
  BY DEF Post
<1>2. [by |-> "person", job |-> n] \in ThreadLine BY DEF ThreadLine
<1>3. Grows /\ thread' \in Seq(ThreadLine) BY <1>1, <1>2, AppendedLine
<1>. DEFINE line == [NoJob EXCEPT !.status = "queued", !.taps = taps]
<1>4. line \in ChatRow /\ line.status = "queued" /\ line.taps = taps /\ line.card = Nowhere /\ line.result = "none"
  BY ThreadBounds DEF NoJob, ChatRow, Open, Results, Nowhere
<1>5. chatJob' = [chatJob EXCEPT ![n] = line] BY <1>1
<1>. HIDE DEF line
<1>6. /\ ChatMoves /\ chatJob' \in [Asked -> ChatRow] /\ chatJob'[n] = line
      /\ \A m \in Asked \ {n} : chatJob'[m] = chatJob[m]
  BY <1>1, <1>3, <1>4, <1>5, OneJobMoves
<1>7. ASSUME taps # Nowhere PROVE taps \in DOMAIN thread' /\ chatJob'[thread'[taps].job].result # "none"
  <2>1. taps \in DOMAIN thread /\ chatJob[thread[taps].job].result # "none" BY <1>7
  <2>2. taps \in DOMAIN thread' /\ thread'[taps] = thread[taps] BY <1>3, <2>1 DEF Grows
  <2>3. thread[taps] \in ThreadLine BY <2>1, ElementOfSeq DEF TalkSound, ThreadTyped
  <2>4. PICK m \in Asked : m = thread[taps].job BY <2>3 DEF ThreadLine
  <2>5. chatJob'[m].result = chatJob[m].result BY <1>6, <2>1, <2>4 DEF ChatMoves
  <2>. QED BY <2>1, <2>2, <2>4, <2>5
<1>8. JobSound(n)' BY <1>4, <1>6, <1>7 DEF JobSound
<1>9. ThreadTyped' BY <1>1, <1>3, <1>6 DEF TalkSound, ThreadTyped
<1>10. \A m \in Asked : JobSound(m)' \/ chatJob'[m] = chatJob[m] BY <1>6, <1>8
<1>. QED BY <1>1, <1>6, <1>9, <1>10, TalkKept

LEMMA TapCardStep ==
    ASSUME TalkSound, TapCard \/ SendIdea
    PROVE  TalkSound' /\ ChatMoves /\ drafts' = drafts
<1>1. CASE SendIdea
  BY <1>1, PostStep DEF SendIdea, Nowhere
<1>2. CASE TapCard
  <2>1. PICK n \in Asked : chatJob[n].result = "card" /\ Post(chatJob[n].card) BY <1>2 DEF TapCard
  <2>2. chatJob[n].card \in Nat BY DEF TalkSound, ThreadTyped, ChatRow
  <2>3. chatJob[n].card # Nowhere =>
          chatJob[n].card \in DOMAIN thread /\ chatJob[thread[chatJob[n].card].job].result # "none"
    BY <2>1 DEF TalkSound, JobSound, Shows
  <2>. QED BY <2>1, <2>2, <2>3, PostStep
<1>. QED BY <1>1, <1>2

LEMMA MishapBound == ASSUME TalkSound, Mishap \/ mishaps' = mishaps PROVE mishaps' \in 0..MaxMishaps
BY MishapType DEF TalkSound

LEMMA SameWorkers ==
    ASSUME TalkSound, answerer' = answerer
    PROVE  /\ answerer' \in [Answerers -> Answering]
           /\ \A v \in Answerers : WorkSound(v)' \/ answerer'[v] = answerer[v]
BY DEF TalkSound, ThreadTyped

LEMMA ControlStep ==
    ASSUME TalkSound, NEW n \in Asked, StopAsked(n) \/ RetryAsked(n) \/ SweepChat(n)
    PROVE  TalkSound' /\ ChatMoves /\ drafts' = drafts
<1>. USE SameWorkers
<1>1. chatJob[n] \in ChatRow BY DEF TalkSound, ThreadTyped
<1>2. CASE StopAsked(n)
  <2>1. PICK rev \in 1..LastRevision :
          chatJob' = [chatJob EXCEPT ![n] = [chatJob[n] EXCEPT !.status = "cancelled", !.rev = rev]]
    BY <1>2 DEF StopAsked, TalkSound, ThreadTyped
  <2>2. chatJob[n].status \notin {"none", "done"} BY <1>2 DEF StopAsked, Open
  <2>3. mishaps' \in 0..MaxMishaps BY <1>2, MishapBound DEF StopAsked
  <2>. QED BY <1>2, <2>1, <2>2, <2>3, StatusStep DEF StopAsked
<1>3. CASE RetryAsked(n)
  <2>1. chatJob[n].rev + 1 \in 1..LastRevision BY <1>1, <1>3, ThreadBounds DEF RetryAsked, ChatRow
  <2>2. PICK rev \in 1..LastRevision : rev = chatJob[n].rev + 1 BY <2>1
  <2>3. chatJob' = [chatJob EXCEPT ![n] = [chatJob[n] EXCEPT !.status = "queued", !.rev = rev]]
    BY <1>3, <2>2 DEF RetryAsked, TalkSound, ThreadTyped
  <2>4. chatJob[n].status \notin {"none", "done"} BY <1>3 DEF RetryAsked
  <2>5. mishaps' \in 0..MaxMishaps BY <1>3, MishapBound DEF RetryAsked
  <2>6. "queued" \in Open BY DEF Open
  <2>. QED BY <1>3, <2>3, <2>4, <2>5, <2>6, StatusStep DEF RetryAsked
<1>4. CASE SweepChat(n)
  <2>1. chatJob' = [chatJob EXCEPT ![n] = [chatJob[n] EXCEPT !.status = "failed", !.rev = chatJob[n].rev]]
    BY <1>1, <1>4 DEF SweepChat, TalkSound, ThreadTyped, ChatRow
  <2>2. chatJob[n].status \notin {"none", "done"} /\ chatJob[n].rev \in 1..LastRevision
    BY <1>1, <1>4 DEF SweepChat, ChatRow
  <2>3. mishaps' \in 0..MaxMishaps BY <1>4, MishapBound DEF SweepChat
  <2>. QED BY <1>4, <2>1, <2>2, <2>3, StatusStep DEF SweepChat
<1>. QED BY <1>2, <1>3, <1>4

LEMMA TakeJobStep ==
    ASSUME TalkSound, NEW w \in Answerers, NEW n \in Asked, TakeJob(w, n)
    PROVE  TalkSound' /\ ChatMoves /\ drafts' = drafts
<1>1. chatJob[n] \in ChatRow BY DEF TalkSound, ThreadTyped
<1>2. chatJob' = [chatJob EXCEPT ![n] = [chatJob[n] EXCEPT !.status = "working", !.rev = chatJob[n].rev]]
  BY <1>1 DEF TakeJob, TalkSound, ThreadTyped, ChatRow
<1>3. chatJob[n].status = "queued" /\ chatJob[n].rev \in 1..LastRevision BY <1>1 DEF TakeJob, ChatRow
<1>. DEFINE does == IF chatJob[n].taps = Nowhere THEN "reading" ELSE "looking"
            row == [Idle EXCEPT !.does = does, !.job = n, !.rev = chatJob[n].rev]
<1>4. does \in {"reading", "looking"} /\ (does = "reading" <=> chatJob[n].taps = Nowhere) OBVIOUS
<1>5. On(w, row) BY DEF TakeJob
<1>. HIDE DEF does
<1>6. row \in Answering /\ row.does = does /\ row.job = n
  BY <1>3, <1>4, ThreadBounds DEF Idle, Answering, Results, Nowhere
<1>. HIDE DEF row
<1>7. /\ answerer' \in [Answerers -> Answering] /\ answerer'[w] = row
      /\ \A v \in Answerers \ {w} : answerer'[v] = answerer[v]
  BY <1>5, <1>6, OneAnswers
<1>8. chatJob'[n].status = "working" /\ chatJob'[n].taps = chatJob[n].taps
  BY <1>1, <1>2 DEF TalkSound, ThreadTyped, ChatRow
<1>9. WorkSound(w)' BY <1>4, <1>6, <1>7, <1>8 DEF WorkSound
<1>10. \A v \in Answerers : WorkSound(v)' \/ answerer'[v] = answerer[v] BY <1>7, <1>9
<1>11. "working" \in Open BY DEF Open
<1>12. mishaps' \in 0..MaxMishaps BY MishapBound DEF TakeJob
<1>13. UNCHANGED <<thread, drafts, evidence, mode, isMember>> BY DEF TakeJob
<1>14. chatJob[n].status \notin {"none", "done"} BY <1>3
<1>. QED BY <1>2, <1>3, <1>7, <1>10, <1>11, <1>12, <1>13, <1>14, StatusStep

LEMMA ModelFailsStep ==
    ASSUME TalkSound, NEW w \in Answerers, ModelFails(w)
    PROVE  TalkSound' /\ ChatMoves /\ drafts' = drafts
<1>1. PICK n \in Asked : n = answerer[w].job BY DEF TalkSound, ThreadTyped, Answering
<1>2. chatJob[n] \in ChatRow BY DEF TalkSound, ThreadTyped
<1>3. /\ answerer' \in [Answerers -> Answering]
      /\ \A v \in Answerers : WorkSound(v)' \/ answerer'[v] = answerer[v]
  BY RestStep DEF ModelFails
<1>4. mishaps' \in 0..MaxMishaps BY MishapBound DEF ModelFails
<1>5. CASE Mine(w)
  <2>1. chatJob' = [chatJob EXCEPT ![n] = [chatJob[n] EXCEPT !.status = "failed", !.rev = chatJob[n].rev]]
    BY <1>1, <1>2, <1>5 DEF ModelFails, TalkSound, ThreadTyped, ChatRow
  <2>2. chatJob[n].status \notin {"none", "done"} /\ chatJob[n].rev \in 1..LastRevision
    BY <1>1, <1>2, <1>5 DEF Mine, ChatRow
  <2>. QED BY <1>3, <1>4, <2>1, <2>2, StatusStep DEF ModelFails
<1>6. CASE ~Mine(w)
  <2>1. chatJob' = chatJob /\ thread' = thread /\ drafts' = drafts BY <1>6 DEF ModelFails
  <2>2. /\ thread' \in Seq(ThreadLine) /\ drafts' \in Seq(DraftRow) /\ evidence' \in Evidence
        /\ mode' = mode /\ isMember' \in BOOLEAN
    BY <2>1 DEF ModelFails, TalkSound, ThreadTyped
  <2>3. Grows BY <2>1 DEF Grows
  <2>. QED BY <1>3, <1>4, <2>1, <2>2, <2>3, WorkStep
<1>. QED BY <1>5, <1>6

\* Steps of the world: the jobs, the thread and the workers stay.
LEMMA WorldStep ==
    ASSUME TalkSound, UNCHANGED <<thread, chatJob, mode>>, drafts' \in Seq(DraftRow),
           answerer' = answerer \/ \E w \in Answerers : Rests(w),
           evidence' \in Evidence, isMember' \in BOOLEAN, Mishap \/ mishaps' = mishaps
    PROVE  TalkSound' /\ ChatMoves
<1>1. /\ answerer' \in [Answerers -> Answering]
      /\ \A v \in Answerers : WorkSound(v)' \/ answerer'[v] = answerer[v]
  BY SameWorkers, RestStep
<1>2. thread' \in Seq(ThreadLine) BY DEF TalkSound, ThreadTyped
<1>3. Grows BY DEF Grows
<1>. QED BY <1>1, <1>2, <1>3, MishapBound, WorkStep

LEMMA AgesStep ==
    ASSUME TalkSound, EvidenceAges
    PROVE  TalkSound' /\ ChatMoves /\ drafts' = drafts
<1>1. ASSUME NEW n \in Asked
      PROVE  /\ chatJob'[n] \in ChatRow /\ chatJob'[n].status = chatJob[n].status /\ chatJob'[n].taps = chatJob[n].taps
             /\ chatJob'[n].result = chatJob[n].result /\ chatJob'[n].card = chatJob[n].card
             /\ chatJob'[n].saw = chatJob[n].saw
  <2>1. chatJob[n] \in ChatRow BY DEF TalkSound, ThreadTyped
  <2>2. chatJob'[n] = [chatJob[n] EXCEPT !.stale = chatJob[n].saw # Nowhere] BY DEF EvidenceAges
  <2>. QED BY <2>1, <2>2 DEF ChatRow
<1>2. chatJob' \in [Asked -> ChatRow] BY <1>1 DEF EvidenceAges
<1>3. ThreadTyped' BY <1>2 DEF EvidenceAges, TalkSound, ThreadTyped
<1>4. Grows BY DEF Grows, EvidenceAges
<1>5. ChatMoves BY <1>1, <1>4 DEF ChatMoves
<1>6. \A w \in Answerers : WorkSound(w)' \/ answerer'[w] = answerer[w] BY DEF EvidenceAges
<1>7. TalkSound' BY <1>1, <1>3, <1>5, <1>6, TalkKept
<1>. QED BY <1>5, <1>7 DEF EvidenceAges

Beyond == UNCHANGED <<evidence, mode, isMember, mishaps>>

LEMMA SkipStep ==
    ASSUME TalkSound, NEW w \in Answerers, Skips(w), Beyond
    PROVE  TalkSound' /\ ChatMoves /\ drafts' = drafts
<1>1. /\ Finish(w, "plain", Nowhere, Nowhere, FALSE) /\ thread' = thread /\ drafts' = drafts
  BY DEF Skips
<1>2. Grows /\ thread' \in Seq(ThreadLine) /\ drafts' \in Seq(DraftRow)
  BY <1>1 DEF Grows, TalkSound, ThreadTyped
<1>3. "plain" \in Results BY DEF Results
<1>. QED BY <1>1, <1>2, <1>3, FinishStep DEF Beyond, Nowhere

LEMMA StopStep ==
    ASSUME TalkSound, NEW w \in Answerers, Stops(w), Beyond
    PROVE  TalkSound' /\ ChatMoves /\ drafts' = drafts
<1>1. /\ drafts' \in Seq(DraftRow) /\ evidence' \in Evidence /\ isMember' \in BOOLEAN
  BY DEF Stops, Beyond, TalkSound, ThreadTyped
<1>2. /\ UNCHANGED <<thread, chatJob, mode>> /\ mishaps' = mishaps /\ Rests(w) /\ drafts' = drafts
  BY DEF Stops, Beyond
<1>. QED BY <1>1, <1>2, WorldStep

\* Worker w goes on with its job.
LEMMA GoesOnStep ==
    ASSUME TalkSound, NEW w \in Answerers, NEW row \in Answering, On(w, row), answerer[w].does # "nothing",
           row.job = answerer[w].job, chatJob' = chatJob, Grows, thread' \in Seq(ThreadLine), drafts' \in Seq(DraftRow),
           row.does \in {"reading", "asking"} <=> answerer[w].does \in {"reading", "asking"},
           row.does = "replied" => row.card \in DOMAIN thread' /\ thread'[row.card].job = row.job, Beyond
    PROVE  TalkSound' /\ ChatMoves
<1>1. /\ answerer' \in [Answerers -> Answering] /\ answerer'[w] = row
      /\ \A v \in Answerers \ {w} : answerer'[v] = answerer[v]
  BY OneAnswers
<1>2. WorkSound(w) BY DEF TalkSound
<1>3. WorkSound(w)' BY <1>1, <1>2 DEF WorkSound, Shows
<1>4. \A v \in Answerers : WorkSound(v)' \/ answerer'[v] = answerer[v] BY <1>1, <1>3
<1>5. /\ evidence' \in Evidence /\ mode' = mode /\ isMember' \in BOOLEAN /\ mishaps' \in 0..MaxMishaps
  BY DEF TalkSound, ThreadTyped, Beyond
<1>. QED BY <1>1, <1>4, <1>5, WorkStep

\* A set of numbers that is finite has a largest one: sets of larger numbers
\* cannot shrink for ever.
LEMMA Largest ==
    ASSUME NEW S \in SUBSET Nat, IsFiniteSet(S), S # {}
    PROVE  \E x \in S : \A y \in S : y <= x
<1> DEFINE Above(x) == {y \in S : x < y}
           All == {Above(x) : x \in S}
           R == StrictSubsetOrdering(S)
<1>1. IsWellFoundedOn(R, FiniteSubsetsOf(S))
    BY FS_StrictSubsetOrderingWellFounded
<1>2. All \subseteq FiniteSubsetsOf(S) /\ All # {}
  <2>1. FiniteSubsetsOf(S) = SUBSET S
      BY FS_FiniteSubsetsOfFinite
  <2>2. All \subseteq SUBSET S /\ All # {}
      OBVIOUS
  <2> QED BY <2>1, <2>2
<1>3. PICK U \in All : \A V \in All : ~(<<V, U>> \in R)
  <2> HIDE DEF R, All
  <2> QED BY <1>1, <1>2, WFMin
<1>4. PICK x \in S : U = Above(x)
    BY <1>3
<1>5. ASSUME NEW y \in S, x < y PROVE FALSE
  <2>1. Above(y) \in All /\ Above(y) \subseteq S /\ Above(x) \subseteq S
      OBVIOUS
  <2>2. Above(y) \subseteq Above(x) /\ y \in Above(x) /\ y \notin Above(y)
    <3>1. \A z \in S : y < z => x < z
        BY <1>5
    <3>2. ~(y < y)
        OBVIOUS
    <3> QED BY <1>5, <3>1, <3>2
  <2>3. <<Above(y), Above(x)>> \in R
    <3> HIDE DEF Above
    <3> QED BY <2>1, <2>2 DEF StrictSubsetOrdering
  <2> QED BY <1>3, <1>4, <2>1, <2>3
<1> QED BY <1>5

\* The last brief is that of an earlier message, if there is one.
LEMMA LatestIntakeType ==
    ASSUME NEW n \in Asked
    PROVE  LatestIntake(n) \in {Nowhere} \cup Asked
<1>. DEFINE S == {Nowhere} \cup {m \in 1..(n - 1) : chatJob[m].status = "done" /\ chatJob[m].result \in Intakes}
            last == Max(S)
<1>1. n \in Nat /\ n >= 1 /\ n <= LastMessage /\ LastMessage \in Nat BY ThreadBounds DEF Asked
<1>2. S \subseteq 0..LastMessage /\ S # {} BY <1>1 DEF Nowhere
<1>3. LatestIntake(n) = last BY DEF LatestIntake
<1>. HIDE DEF S
<1>4. IsFiniteSet(S)
  <2>1. IsFiniteSet(0..LastMessage) BY <1>1, FS_Interval
  <2>. QED BY <1>2, <2>1, FS_Subset
<1>5. \E x \in S : \A y \in S : y <= x
  <2>1. S \in SUBSET Nat BY <1>2
  <2>. QED BY <1>2, <1>4, <2>1, Largest
<1>6. \E x \in S : \A y \in S : x >= y BY <1>2, <1>5
<1>7. last \in S BY <1>6 DEF Max
<1>8. last \in 0..LastMessage BY <1>2, <1>7
<1>9. last = 0 \/ last \in 1..LastMessage BY <1>1, <1>8
<1>. QED BY <1>3, <1>9 DEF Asked, Nowhere

LEMMA DraftRowMade ==
    ASSUME TalkSound, NEW n \in Asked, NEW saw \in {Nowhere} \cup Evidence, StartDraft(n, saw)
    PROVE  drafts' \in Seq(DraftRow)
<1>. DEFINE status == IF DraftsIn("making") < ChatCap THEN "making" ELSE "planned"
            row == [job |-> n, saw |-> saw, status |-> status]
<1>1. drafts' = Append(drafts, row) BY DEF StartDraft
<1>2. status \in {"making", "planned", "over"} OBVIOUS
<1>. HIDE DEF status
<1>3. row \in DraftRow BY <1>2 DEF DraftRow
<1>. HIDE DEF row
<1>. QED BY <1>1, <1>3, AppendProperties DEF TalkSound, ThreadTyped

\* What holds whenever a draft is started.
DraftMade(n, saw) ==
    /\ StartDraft(n, saw) /\ HasRoom /\ isMember /\ chatJob[n].status = "working"
    /\ IF chatJob[n].taps = Nowhere
       THEN chatJob'[n].status = "done"
       ELSE /\ saw = chatJob[thread[chatJob[n].taps].job].saw
            /\ \A i \in DOMAIN drafts : CardOfDraft(i) # chatJob[n].taps

DraftsFollow == drafts' = drafts \/ \E n \in Asked, saw \in {Nowhere} \cup Evidence : DraftMade(n, saw)

LEMMA AskModelStep ==
    ASSUME TalkSound, NEW w \in Answerers, AskModel(w)
    PROVE  TalkSound' /\ ChatMoves /\ drafts' = drafts
<1>. DEFINE last == LatestIntake(answerer[w].job)
            reuses == last # Nowhere /\ chatJob[last].result # "started"
            saw == IF reuses THEN chatJob[last].saw ELSE evidence
            stale == reuses /\ chatJob[last].stale
            row == [answerer[w] EXCEPT !.does = "asking", !.saw = saw, !.stale = stale]
<1>1. Beyond BY DEF AskModel, Beyond
<1>2. CASE Skips(w) BY <1>1, <1>2, SkipStep
<1>3. CASE Stops(w) BY <1>1, <1>3, StopStep
<1>4. CASE On(w, row) /\ UNCHANGED <<thread, chatJob, drafts>>
  <2>1. answerer[w] \in Answering BY DEF TalkSound, ThreadTyped
  <2>2. last \in {Nowhere} \cup Asked
    <3>1. answerer[w].job \in Asked BY <2>1 DEF Answering
    <3>. QED BY <3>1, LatestIntakeType
  <2>. HIDE DEF last
  <2>3. reuses \in BOOLEAN /\ (reuses => chatJob[last] \in ChatRow) BY <2>2 DEF TalkSound, ThreadTyped
  <2>. HIDE DEF reuses
  <2>4. saw \in {Nowhere} \cup Evidence BY <2>3 DEF ChatRow, TalkSound, ThreadTyped
  <2>5. stale \in BOOLEAN BY <2>3 DEF ChatRow
  <2>6. On(w, row) BY <1>4
  <2>. HIDE DEF saw, stale
  <2>7. row \in Answering /\ row.does = "asking" /\ row.job = answerer[w].job BY <2>1, <2>4, <2>5 DEF Answering
  <2>. HIDE DEF row
  <2>8. answerer[w].does = "reading" BY DEF AskModel
  <2>9. Grows /\ thread' \in Seq(ThreadLine) /\ drafts' \in Seq(DraftRow) /\ chatJob' = chatJob
    BY <1>4 DEF Grows, TalkSound, ThreadTyped
  <2>. QED BY <1>1, <1>4, <2>6, <2>7, <2>8, <2>9, GoesOnStep
<1>. QED BY <1>2, <1>3, <1>4 DEF AskModel

\* The card that a worker's job taps.
LEMMA TappedCard ==
    ASSUME TalkSound, NEW w \in Answerers, answerer[w].does \in {"looking", "confirming"}
    PROVE  TappedBy(w) # Nowhere /\ TappedBy(w) \in DOMAIN thread /\ CardOf(w) \in Asked
<1>1. answerer[w].job \in Asked BY DEF TalkSound, ThreadTyped, Answering
<1>2. TappedBy(w) # Nowhere BY DEF TalkSound, WorkSound, TappedBy
<1>3. TappedBy(w) \in DOMAIN thread BY <1>1, <1>2 DEF TalkSound, JobSound, TappedBy
<1>4. thread[TappedBy(w)] \in ThreadLine BY <1>3, ElementOfSeq DEF TalkSound, ThreadTyped
<1>. QED BY <1>2, <1>3, <1>4 DEF CardOf, ThreadLine

LEMMA LookStep ==
    ASSUME TalkSound, NEW w \in Answerers, LookAtCard(w)
    PROVE  TalkSound' /\ ChatMoves /\ drafts' = drafts
<1>. DEFINE saw == IF chatJob[CardOf(w)].stale THEN evidence ELSE Nowhere
            row == [answerer[w] EXCEPT !.does = "confirming", !.saw = saw]
<1>1. Beyond BY DEF LookAtCard, Beyond
<1>2. CASE Skips(w) BY <1>1, <1>2, SkipStep
<1>3. CASE On(w, row) /\ UNCHANGED <<thread, chatJob, drafts>>
  <2>1. answerer[w] \in Answering BY DEF TalkSound, ThreadTyped
  <2>2. saw \in {Nowhere} \cup Evidence BY DEF TalkSound, ThreadTyped
  <2>3. On(w, row) BY <1>3
  <2>. HIDE DEF saw
  <2>4. row \in Answering /\ row.does = "confirming" /\ row.job = answerer[w].job BY <2>1, <2>2 DEF Answering
  <2>. HIDE DEF row
  <2>5. answerer[w].does = "looking" BY DEF LookAtCard
  <2>6. Grows /\ thread' \in Seq(ThreadLine) /\ drafts' \in Seq(DraftRow) /\ chatJob' = chatJob
    BY <1>3 DEF Grows, TalkSound, ThreadTyped
  <2>. QED BY <1>1, <1>3, <2>3, <2>4, <2>5, <2>6, GoesOnStep
<1>. QED BY <1>2, <1>3 DEF LookAtCard

LEMMA PostReplyStep ==
    ASSUME TalkSound, NEW w \in Answerers, PostReply(w)
    PROVE  TalkSound' /\ ChatMoves /\ drafts' = drafts
<1>. DEFINE here == Len(thread) + 1
            row == [answerer[w] EXCEPT !.does = "replied", !.card = here]
<1>1. Beyond BY DEF PostReply, Beyond
<1>2. answerer[w] \in Answering BY DEF TalkSound, ThreadTyped
<1>3. PICK n \in Asked : n = answerer[w].job BY <1>2 DEF Answering
<1>4. [by |-> "manager", job |-> n] \in ThreadLine BY DEF ThreadLine
<1>5. thread' = Append(thread, [by |-> "manager", job |-> n]) BY <1>3 DEF PostReply, Reply
<1>6. /\ Grows /\ thread' \in Seq(ThreadLine) /\ here \in Nat
      /\ here \in DOMAIN thread' /\ thread'[here] = [by |-> "manager", job |-> n]
  BY <1>4, <1>5, AppendedLine
<1>7. On(w, row) BY DEF PostReply
<1>. HIDE DEF here
<1>8. row \in Answering /\ row.does = "replied" /\ row.job = n /\ row.card = here BY <1>2, <1>3, <1>6 DEF Answering
<1>. HIDE DEF row
<1>9. answerer[w].does = "decided" BY DEF PostReply
<1>10. drafts' = drafts /\ drafts' \in Seq(DraftRow) /\ chatJob' = chatJob BY DEF PostReply, TalkSound, ThreadTyped
<1>11. row.card \in DOMAIN thread' /\ thread'[row.card].job = row.job BY <1>6, <1>8
<1>. QED BY <1>1, <1>3, <1>6, <1>7, <1>8, <1>9, <1>10, <1>11, GoesOnStep

LEMMA FinishTapStep ==
    ASSUME TalkSound, NEW w \in Answerers, FinishTap(w)
    PROVE  TalkSound' /\ ChatMoves /\ drafts' = drafts
<1>1. /\ answerer[w].does = "replied" /\ UNCHANGED <<thread, drafts, evidence, mode, isMember, mishaps>>
      /\ Finish(w, answerer[w].result, answerer[w].card, answerer[w].saw, FALSE)
  BY DEF FinishTap
<1>2. answerer[w].result \in Results /\ answerer[w].card \in Nat /\ answerer[w].saw \in {Nowhere} \cup Evidence
  BY DEF TalkSound, ThreadTyped, Answering
<1>3. Grows /\ thread' \in Seq(ThreadLine) /\ drafts' \in Seq(DraftRow) BY <1>1 DEF Grows, TalkSound, ThreadTyped
<1>4. answerer[w].card \in DOMAIN thread' /\ thread'[answerer[w].card].job = answerer[w].job
  BY <1>1 DEF TalkSound, WorkSound, Shows
<1>. QED BY <1>1, <1>2, <1>3, <1>4, FinishStep

LEMMA AnswerStep ==
    ASSUME TalkSound, NEW w \in Answerers, Answer(w)
    PROVE  TalkSound' /\ ChatMoves /\ DraftsFollow
<1>1. Beyond BY DEF Answer, Beyond
<1>2. CASE Skips(w) BY <1>1, <1>2, SkipStep DEF DraftsFollow
<1>3. CASE Stops(w) BY <1>1, <1>3, StopStep DEF DraftsFollow
<1>4. CASE isMember /\ Mine(w) /\ ~Skips(w) /\ ~Stops(w)
  <2>. DEFINE here == Len(thread) + 1
              sawNow(newTopic) == IF newTopic THEN evidence ELSE answerer[w].saw
              staleNow(newTopic) == ~newTopic /\ answerer[w].stale
  <2>0. answerer[w] \in Answering BY DEF TalkSound, ThreadTyped
  <2>1. PICK n \in Asked : n = answerer[w].job BY <2>0 DEF Answering
  <2>2. PICK newTopic \in BOOLEAN, says \in {"card", "question", "plain", "started"} :
          /\ says = "started" => HasRoom
          /\ Reply(n)
          /\ IF says = "plain" THEN Finish(w, "plain", here, Nowhere, FALSE)
                               ELSE Finish(w, says, here, sawNow(newTopic), staleNow(newTopic))
          /\ IF says = "started" THEN StartDraft(n, sawNow(newTopic)) ELSE UNCHANGED drafts
    BY <1>4, <2>1 DEF Answer
  <2>3. PICK saw \in {Nowhere} \cup Evidence : saw = sawNow(newTopic)
    BY <2>0 DEF TalkSound, ThreadTyped, Answering
  <2>4. PICK stale \in BOOLEAN : stale = staleNow(newTopic) BY <2>0 DEF Answering
  <2>5. /\ Reply(n) /\ (says = "started" => HasRoom)
        /\ IF says = "plain" THEN Finish(w, "plain", here, Nowhere, FALSE) ELSE Finish(w, says, here, saw, stale)
        /\ IF says = "started" THEN StartDraft(n, saw) ELSE UNCHANGED drafts
    BY <2>2, <2>3, <2>4
  <2>. HIDE DEF sawNow, staleNow
  <2>6. [by |-> "manager", job |-> n] \in ThreadLine BY DEF ThreadLine
  <2>7. thread' = Append(thread, [by |-> "manager", job |-> n]) BY <2>5 DEF Reply
  <2>8. /\ Grows /\ thread' \in Seq(ThreadLine) /\ here \in Nat
        /\ here \in DOMAIN thread' /\ thread'[here] = [by |-> "manager", job |-> n]
    BY <2>6, <2>7, AppendedLine
  <2>. HIDE DEF here
  <2>9. drafts' \in Seq(DraftRow)
    <3>1. CASE says = "started" BY <2>5, <3>1, DraftRowMade
    <3>2. CASE says # "started" BY <2>5, <3>2 DEF TalkSound, ThreadTyped
    <3>. QED BY <3>1, <3>2
  <2>10. here # Nowhere => here \in DOMAIN thread' /\ thread'[here].job = answerer[w].job BY <2>1, <2>8
  <2>11. UNCHANGED <<evidence, mode, isMember, mishaps>> BY <1>1 DEF Beyond
  <2>12. TalkSound' /\ ChatMoves /\ (Mine(w) => chatJob'[answerer[w].job].status = "done")
    <3>1. CASE says = "plain"
      <4>1. Finish(w, "plain", here, Nowhere, FALSE) /\ "plain" \in Results BY <2>5, <3>1 DEF Results
      <4>. QED BY <2>8, <2>9, <2>10, <2>11, <4>1, FinishStep
    <3>2. CASE says # "plain"
      <4>1. Finish(w, says, here, saw, stale) /\ says \in Results BY <2>5, <3>2 DEF Results, Intakes
      <4>. QED BY <2>8, <2>9, <2>10, <2>11, <4>1, FinishStep
    <3>. QED BY <3>1, <3>2
  <2>13. DraftsFollow
    <3>1. CASE says # "started" BY <2>5, <3>1 DEF DraftsFollow
    <3>2. CASE says = "started"
      <4>1. chatJob[n].taps = Nowhere BY <2>1 DEF TalkSound, WorkSound, Answer
      <4>2. chatJob[n].status = "working" BY <1>4, <2>1 DEF Mine
      <4>3. chatJob'[n].status = "done" BY <1>4, <2>1, <2>12
      <4>4. StartDraft(n, saw) /\ HasRoom BY <2>5, <3>2
      <4>5. DraftMade(n, saw) BY <1>4, <4>1, <4>2, <4>3, <4>4 DEF DraftMade
      <4>. QED BY <4>5 DEF DraftsFollow
    <3>. QED BY <3>1, <3>2
  <2>. QED BY <2>12, <2>13
<1>. QED BY <1>2, <1>3, <1>4 DEF Answer

LEMMA ConfirmStep ==
    ASSUME TalkSound, NEW w \in Answerers, Confirm(w)
    PROVE  TalkSound' /\ ChatMoves /\ DraftsFollow
<1>. DEFINE fresh == answerer[w].saw
            row(result, saw) == [answerer[w] EXCEPT !.does = "decided", !.result = result, !.saw = saw]
<1>1. Beyond /\ UNCHANGED <<thread, chatJob>> /\ answerer[w].does = "confirming" BY DEF Confirm, Beyond
<1>2. answerer[w] \in Answering BY DEF TalkSound, ThreadTyped
<1>3. PICK n \in Asked : n = answerer[w].job BY <1>2 DEF Answering
<1>4. Grows /\ thread' \in Seq(ThreadLine) BY <1>1 DEF Grows, TalkSound, ThreadTyped
<1>5. drafts \in Seq(DraftRow) BY DEF TalkSound, ThreadTyped
<1>6. ASSUME NEW result \in Results, NEW saw \in {Nowhere} \cup Evidence, Decides(w, result, saw),
             drafts' \in Seq(DraftRow)
      PROVE  TalkSound' /\ ChatMoves
  <2>1. On(w, row(result, saw)) BY <1>6 DEF Decides
  <2>2. /\ row(result, saw) \in Answering /\ row(result, saw).does = "decided"
        /\ row(result, saw).job = answerer[w].job
    BY <1>2 DEF Answering
  <2>. HIDE DEF row
  <2>. QED BY <1>1, <1>4, <1>6, <2>1, <2>2, GoesOnStep
<1>7. CASE Denied(w)
  <2>1. "plain" \in Results /\ Decides(w, "plain", Nowhere) /\ drafts' = drafts BY <1>7 DEF Denied, Results
  <2>. QED BY <1>5, <1>6, <2>1 DEF DraftsFollow
<1>8. CASE Rests(w) /\ UNCHANGED drafts
  <2>1. Stops(w) BY <1>1, <1>8 DEF Stops
  <2>. QED BY <1>1, <2>1, StopStep DEF DraftsFollow
<1>9. CASE Decides(w, "card", fresh) /\ UNCHANGED drafts
  <2>1. "card" \in Results /\ fresh \in {Nowhere} \cup Evidence BY <1>2 DEF Results, Intakes, Answering
  <2>. QED BY <1>5, <1>6, <1>9, <2>1 DEF DraftsFollow
<1>10. CASE /\ isMember /\ Mine(w) /\ ~AlreadyStarted(w) /\ HasRoom
            /\ StartDraft(n, chatJob[CardOf(w)].saw) /\ Decides(w, "started", chatJob[CardOf(w)].saw)
  <2>1. TappedBy(w) # Nowhere /\ CardOf(w) \in Asked BY <1>1, TappedCard
  <2>2. chatJob[CardOf(w)] \in ChatRow BY <2>1 DEF TalkSound, ThreadTyped
  <2>3. PICK saw \in {Nowhere} \cup Evidence : saw = chatJob[CardOf(w)].saw BY <2>2 DEF ChatRow
  <2>4. StartDraft(n, saw) /\ Decides(w, "started", saw) BY <1>10, <2>3
  <2>5. drafts' \in Seq(DraftRow) BY <2>4, DraftRowMade
  <2>6. "started" \in Results BY DEF Results, Intakes
  <2>7. TalkSound' /\ ChatMoves BY <1>6, <2>4, <2>5, <2>6
  <2>8. TappedBy(w) = chatJob[n].taps BY <1>3 DEF TappedBy
  <2>9. saw = chatJob[thread[chatJob[n].taps].job].saw BY <2>3, <2>8 DEF CardOf
  <2>10. \A i \in DOMAIN drafts : CardOfDraft(i) # chatJob[n].taps BY <1>10, <2>8 DEF AlreadyStarted, CardOfDraft
  <2>11. chatJob[n].status = "working" BY <1>3, <1>10 DEF Mine
  <2>12. DraftMade(n, saw) BY <1>10, <2>1, <2>4, <2>8, <2>9, <2>10, <2>11 DEF DraftMade
  <2>. QED BY <2>7, <2>12 DEF DraftsFollow
<1>. QED BY <1>3, <1>7, <1>8, <1>9, <1>10 DEF Confirm

\* The drafts of a status are finitely many.
LEMMA DraftsCounted ==
    ASSUME TalkSound, NEW status
    PROVE  IsFiniteSet({i \in DOMAIN drafts : drafts[i].status = status}) /\ DraftsIn(status) \in Nat
<1>1. DOMAIN drafts = 1..Len(drafts) /\ Len(drafts) \in Nat BY DEF TalkSound, ThreadTyped
<1>2. IsFiniteSet(1..Len(drafts)) BY <1>1, FS_Interval
<1>3. {i \in DOMAIN drafts : drafts[i].status = status} \subseteq 1..Len(drafts) BY <1>1
<1>4. IsFiniteSet({i \in DOMAIN drafts : drafts[i].status = status}) BY <1>2, <1>3, FS_Subset
<1>. QED BY <1>4, FS_CardinalityType DEF DraftsIn

\* A draft that is there keeps what it rests on.
LEMMA DraftKept ==
    ASSUME TalkSound, DraftsSound, ChatMoves, NEW i \in DOMAIN drafts,
           i \in DOMAIN drafts', drafts'[i].job = drafts[i].job, drafts'[i].saw = drafts[i].saw
    PROVE  DraftSound(i)' /\ chatJob'[drafts'[i].job].taps = CardOfDraft(i) /\ drafts[i].job \in Asked
<1>1. drafts[i] \in DraftRow BY ElementOfSeq DEF TalkSound, ThreadTyped
<1>2. PICK n \in Asked : n = drafts[i].job BY <1>1 DEF DraftRow
<1>3. DraftSound(i) BY DEF DraftsSound
<1>4. chatJob[n].status # "none" BY <1>2, <1>3 DEF DraftSound
<1>5. chatJob'[n].status # "none" /\ chatJob'[n].taps = chatJob[n].taps BY <1>4 DEF ChatMoves
<1>6. chatJob[n].taps = Nowhere => chatJob'[n].status = "done"
  BY <1>2, <1>3 DEF DraftSound, CardOfDraft, ChatMoves
<1>7. ASSUME chatJob[n].taps # Nowhere
      PROVE  drafts[i].saw = chatJob'[thread'[chatJob[n].taps].job].saw
  <2>1. PICK t : t = chatJob[n].taps OBVIOUS
  <2>2. t \in DOMAIN thread /\ chatJob[thread[t].job].result # "none" BY <1>7, <2>1 DEF TalkSound, JobSound
  <2>3. thread'[t] = thread[t] BY <2>2 DEF ChatMoves, Grows
  <2>4. thread[t] \in ThreadLine BY <2>2, ElementOfSeq DEF TalkSound, ThreadTyped
  <2>5. PICK m \in Asked : m = thread[t].job BY <2>4 DEF ThreadLine
  <2>6. chatJob'[m].saw = chatJob[m].saw BY <2>2, <2>5 DEF ChatMoves
  <2>7. drafts[i].saw = chatJob[m].saw BY <1>2, <1>3, <1>7, <2>1, <2>5 DEF DraftSound, CardOfDraft
  <2>. QED BY <2>1, <2>3, <2>5, <2>6, <2>7
<1>. QED BY <1>2, <1>5, <1>6, <1>7 DEF DraftSound, CardOfDraft, Nowhere

\* No draft is added.
LEMMA DraftsKept ==
    ASSUME TalkSound, DraftsSound, ChatMoves, DOMAIN drafts' = DOMAIN drafts, DraftsIn("planned")' <= ChatCap,
           \A i \in DOMAIN drafts : drafts'[i].job = drafts[i].job /\ drafts'[i].saw = drafts[i].saw
    PROVE  DraftsSound'
<1>1. \A i \in DOMAIN drafts : DraftSound(i)' /\ chatJob'[drafts'[i].job].taps = CardOfDraft(i) BY DraftKept
<1>2. ASSUME NEW i \in DOMAIN drafts, NEW j \in DOMAIN drafts, i # j
      PROVE  /\ drafts'[i].job # drafts'[j].job
             /\ chatJob'[drafts'[i].job].taps = chatJob'[drafts'[j].job].taps =>
                  chatJob'[drafts'[i].job].taps = Nowhere
  BY <1>1, <1>2 DEF DraftsSound
<1>. QED BY <1>1, <1>2 DEF DraftsSound, CardOfDraft, Nowhere

\* A draft ends or is fed.
LEMMA DraftStep ==
    ASSUME TalkSound, DraftsSound, NEW i \in DOMAIN drafts, DraftEnds(i) \/ FeedDraft(i)
    PROVE  TalkSound' /\ ChatMoves /\ DraftsSound' /\ Len(drafts') = Len(drafts)
<1>1. PICK status \in {"over", "making"} : drafts' = [drafts EXCEPT ![i].status = status]
  BY DEF DraftEnds, FeedDraft
<1>2. drafts \in Seq(DraftRow) /\ DOMAIN drafts = 1..Len(drafts) /\ Len(drafts) \in Nat
  BY DEF TalkSound, ThreadTyped
<1>3. \A k \in DOMAIN drafts : drafts[k] \in DraftRow BY <1>2, ElementOfSeq
<1>4. /\ DOMAIN drafts' = DOMAIN drafts
      /\ \A k \in DOMAIN drafts :
           /\ drafts'[k] \in DraftRow /\ drafts'[k].job = drafts[k].job /\ drafts'[k].saw = drafts[k].saw
           /\ drafts'[k].status = "planned" => drafts[k].status = "planned"
  <2>1. DOMAIN drafts' = DOMAIN drafts /\ \A k \in DOMAIN drafts \ {i} : drafts'[k] = drafts[k] BY <1>1
  <2>2. drafts'[i] = [drafts[i] EXCEPT !.status = status] BY <1>1
  <2>3. /\ drafts'[i] \in DraftRow /\ drafts'[i].job = drafts[i].job /\ drafts'[i].saw = drafts[i].saw
        /\ drafts'[i].status = status
    BY <1>3, <2>2 DEF DraftRow
  <2>. QED BY <1>3, <2>1, <2>3
<1>5. drafts' \in Seq(DraftRow) /\ Len(drafts') = Len(drafts)
  <2>1. drafts' = [k \in 1..Len(drafts) |-> drafts'[k]] BY <1>1, <1>2
  <2>2. drafts' \in [1..Len(drafts) -> DraftRow] BY <1>2, <1>4, <2>1
  <2>. QED BY <1>2, <2>2
<1>6. TalkSound' /\ ChatMoves
  <2>1. UNCHANGED <<thread, chatJob, mode, answerer>> /\ mishaps' = mishaps BY DEF DraftEnds, FeedDraft
  <2>2. evidence' \in Evidence /\ isMember' \in BOOLEAN BY DEF DraftEnds, FeedDraft, TalkSound, ThreadTyped
  <2>. QED BY <1>5, <2>1, <2>2, WorldStep
<1>7. DraftsIn("planned")' <= ChatCap
  <2>. DEFINE S == {k \in DOMAIN drafts : drafts[k].status = "planned"}
              T == {k \in DOMAIN drafts' : drafts'[k].status = "planned"}
  <2>1. T \subseteq S BY <1>4
  <2>2. IsFiniteSet(S) /\ Cardinality(S) \in Nat /\ Cardinality(S) <= ChatCap
    BY DraftsCounted DEF DraftsIn, DraftsSound
  <2>3. DraftsIn("planned")' = Cardinality(T) BY DEF DraftsIn
  <2>. HIDE DEF S, T
  <2>4. IsFiniteSet(T) /\ Cardinality(T) <= Cardinality(S) BY <2>1, <2>2, FS_Subset
  <2>5. Cardinality(T) \in Nat BY <2>4, FS_CardinalityType
  <2>. QED BY <2>2, <2>3, <2>4, <2>5, ThreadBounds
<1>. QED BY <1>4, <1>5, <1>6, <1>7, DraftsKept

\* A draft is added: of a job and a card that have none, as long as there is room.
LEMMA DraftAdded ==
    ASSUME TalkSound, DraftsSound, TalkSound', ChatMoves, NEW n \in Asked, NEW saw, DraftMade(n, saw)
    PROVE  /\ DraftsSound' /\ Len(drafts') = Len(drafts) + 1
           /\ isMember /\ chatJob[drafts'[Len(drafts')].job].status = "working"
<1>. DEFINE status == IF DraftsIn("making") < ChatCap THEN "making" ELSE "planned"
            row == [job |-> n, saw |-> saw, status |-> status]
<1>1. drafts' = Append(drafts, row) /\ row.job = n /\ row.saw = saw /\ row.status = status
  BY DEF DraftMade, StartDraft
<1>2. status \in {"making", "planned"} /\ (status = "planned" => DraftsIn("planned") < ChatCap)
  BY DEF DraftMade, HasRoom
<1>. HIDE DEF status, row
<1>3. drafts \in Seq(DraftRow) BY DEF TalkSound, ThreadTyped
<1>4. drafts' \in Seq(DraftRow) BY DEF TalkSound, ThreadTyped
<1>17. PICK new : new = Len(drafts) + 1 OBVIOUS
<1>5. /\ Len(drafts) \in Nat /\ DOMAIN drafts = 1..Len(drafts) /\ DOMAIN drafts' = 1..new /\ Len(drafts') = new
      /\ drafts'[new] = row /\ \A i \in DOMAIN drafts : i \in DOMAIN drafts' /\ drafts'[i] = drafts[i]
  BY <1>1, <1>3, <1>4, <1>17
<1>6. DOMAIN drafts' = DOMAIN drafts \cup {new} /\ new \notin DOMAIN drafts BY <1>5, <1>17
<1>7. \A i \in DOMAIN drafts :
        DraftSound(i)' /\ chatJob'[drafts'[i].job].taps = CardOfDraft(i) /\ drafts[i].job \in Asked
  BY <1>5, DraftKept
<1>8. chatJob[n].status = "working" BY DEF DraftMade
<1>9. chatJob'[n].status # "none" /\ chatJob'[n].taps = chatJob[n].taps BY <1>8 DEF ChatMoves
<1>10. DraftSound(new)'
  <2>1. CASE chatJob[n].taps = Nowhere
    <3>1. chatJob'[n].status = "done" BY <2>1 DEF DraftMade
    <3>. QED BY <1>1, <1>5, <1>9, <2>1, <3>1 DEF DraftSound, CardOfDraft, Nowhere
  <2>2. CASE chatJob[n].taps # Nowhere
    <3>1. PICK t : t = chatJob[n].taps OBVIOUS
    <3>2. t \in DOMAIN thread /\ chatJob[thread[t].job].result # "none" BY <2>2, <3>1 DEF TalkSound, JobSound
    <3>3. thread'[t] = thread[t] BY <3>2 DEF ChatMoves, Grows
    <3>4. thread[t] \in ThreadLine BY <3>2, ElementOfSeq DEF TalkSound, ThreadTyped
    <3>5. PICK m \in Asked : m = thread[t].job BY <3>4 DEF ThreadLine
    <3>6. chatJob'[m].saw = chatJob[m].saw BY <3>2, <3>5 DEF ChatMoves
    <3>7. saw = chatJob[m].saw BY <2>2, <3>1, <3>5 DEF DraftMade
    <3>8. drafts'[new].saw = chatJob'[thread'[chatJob'[n].taps].job].saw
      BY <1>1, <1>5, <1>9, <3>1, <3>3, <3>5, <3>6, <3>7
    <3>. QED BY <1>1, <1>5, <1>9, <2>2, <3>8 DEF DraftSound, CardOfDraft, Nowhere
  <2>. QED BY <2>1, <2>2
<1>11. ASSUME NEW i \in DOMAIN drafts
       PROVE  drafts[i].job # n /\ (CardOfDraft(i) = chatJob[n].taps => CardOfDraft(i) = Nowhere)
  <2>1. DraftSound(i) BY DEF DraftsSound
  <2>2. CASE chatJob[n].taps = Nowhere BY <1>8, <2>1, <2>2 DEF DraftSound, CardOfDraft
  <2>3. CASE chatJob[n].taps # Nowhere BY <2>3 DEF DraftMade, CardOfDraft
  <2>. QED BY <2>2, <2>3
<1>12. chatJob'[drafts'[new].job].taps = chatJob[n].taps /\ drafts'[new].job = n BY <1>1, <1>5, <1>9
<1>13. ASSUME NEW i \in DOMAIN drafts', NEW j \in DOMAIN drafts', i # j
       PROVE  /\ drafts'[i].job # drafts'[j].job
              /\ chatJob'[drafts'[i].job].taps = chatJob'[drafts'[j].job].taps =>
                   chatJob'[drafts'[i].job].taps = Nowhere
  <2>1. CASE i \in DOMAIN drafts /\ j \in DOMAIN drafts
    <3>1. drafts[i].job # drafts[j].job /\ (CardOfDraft(i) = CardOfDraft(j) => CardOfDraft(i) = Nowhere)
      BY <1>13, <2>1 DEF DraftsSound
    <3>2. drafts'[i] = drafts[i] /\ drafts'[j] = drafts[j] BY <1>5, <2>1
    <3>. QED BY <1>7, <2>1, <3>1, <3>2
  <2>2. CASE i \in DOMAIN drafts /\ j = new BY <1>5, <1>7, <1>11, <1>12, <2>2
  <2>3. CASE i = new /\ j \in DOMAIN drafts BY <1>5, <1>7, <1>11, <1>12, <2>3
  <2>. QED BY <1>6, <1>13, <2>1, <2>2, <2>3
<1>14. DraftsIn("planned")' <= ChatCap
  <2>. DEFINE S == {k \in DOMAIN drafts : drafts[k].status = "planned"}
              T == {k \in DOMAIN drafts' : drafts'[k].status = "planned"}
  <2>1. IF status = "planned" THEN T = S \cup {new} ELSE T = S BY <1>1, <1>5, <1>6
  <2>2. IsFiniteSet(S) /\ Cardinality(S) \in Nat /\ Cardinality(S) <= ChatCap
    BY DraftsCounted DEF DraftsIn, DraftsSound
  <2>3. DraftsIn("planned")' = Cardinality(T) /\ DraftsIn("planned") = Cardinality(S) BY DEF DraftsIn
  <2>4. new \notin S BY <1>6
  <2>. HIDE DEF S, T
  <2>5. CASE status = "planned"
    <3>1. Cardinality(T) = Cardinality(S) + 1 BY <2>1, <2>2, <2>4, <2>5, FS_AddElement
    <3>2. Cardinality(S) < ChatCap BY <1>2, <2>3, <2>5
    <3>. QED BY <2>2, <2>3, <3>1, <3>2, ThreadBounds
  <2>6. CASE status # "planned" BY <2>1, <2>2, <2>3, <2>6
  <2>. QED BY <2>5, <2>6
<1>15. \A i \in DOMAIN drafts' : DraftSound(i)' BY <1>6, <1>7, <1>10
<1>16. DraftsSound' BY <1>13, <1>14, <1>15 DEF DraftsSound, CardOfDraft, Nowhere
<1>18. drafts'[Len(drafts')].job = n BY <1>1, <1>5
<1>. QED BY <1>5, <1>8, <1>16, <1>17, <1>18 DEF DraftMade

\* Who starts a draft, and when.
StartedRightly ==
    Len(drafts') > Len(drafts) => isMember /\ chatJob[drafts'[Len(drafts')].job].status = "working"

LEMMA SameDrafts ==
    ASSUME TalkSound, DraftsSound, TalkSound', ChatMoves, drafts' = drafts
    PROVE  TalkSound' /\ DraftsSound' /\ StartedRightly
<1>1. DraftsIn("planned")' <= ChatCap
  <2>1. DraftsIn("planned")' = DraftsIn("planned") BY DEF DraftsIn
  <2>. QED BY <2>1 DEF DraftsSound
<1>2. Len(drafts) \in Nat BY DEF TalkSound, ThreadTyped
<1>3. DraftsSound' BY <1>1, DraftsKept
<1>. QED BY <1>2, <1>3 DEF StartedRightly

LEMMA FollowedDrafts ==
    ASSUME TalkSound, DraftsSound, TalkSound', ChatMoves, DraftsFollow
    PROVE  TalkSound' /\ DraftsSound' /\ StartedRightly
<1>1. CASE drafts' = drafts BY <1>1, SameDrafts
<1>2. ASSUME NEW n \in Asked, NEW saw \in {Nowhere} \cup Evidence, DraftMade(n, saw)
      PROVE  TalkSound' /\ DraftsSound' /\ StartedRightly
  BY <1>2, DraftAdded DEF StartedRightly
<1>. QED BY <1>1, <1>2 DEF DraftsFollow

LEMMA ThreadInvKept ==
    ASSUME TalkSound, DraftsSound, ThreadNext \/ UNCHANGED threadVars
    PROVE  TalkSound' /\ DraftsSound' /\ StartedRightly
<1>1. CASE SendIdea \/ TapCard BY <1>1, TapCardStep, SameDrafts
<1>2. CASE Leave \/ EvidenceChanges
  <2>1. /\ UNCHANGED <<thread, chatJob, mode, answerer, drafts>> /\ (Mishap \/ mishaps' = mishaps)
        /\ evidence' \in Evidence /\ isMember' \in BOOLEAN /\ drafts' \in Seq(DraftRow)
    <3>1. CASE Leave BY <1>2, <3>1 DEF Leave, TalkSound, ThreadTyped
    <3>2. CASE EvidenceChanges
      <4>1. evidence' \in Evidence BY <3>2 DEF EvidenceChanges, Evidence
      <4>. QED BY <3>2, <4>1 DEF EvidenceChanges, TalkSound, ThreadTyped
    <3>. QED BY <1>2, <3>1, <3>2
  <2>. QED BY <2>1, WorldStep, SameDrafts
<1>3. CASE EvidenceAges BY <1>3, AgesStep, SameDrafts
<1>4. ASSUME NEW n \in Asked, StopAsked(n) \/ RetryAsked(n) \/ SweepChat(n)
      PROVE  TalkSound' /\ DraftsSound' /\ StartedRightly
  BY <1>4, ControlStep, SameDrafts
<1>5. ASSUME NEW w \in Answerers, NEW n \in Asked, TakeJob(w, n)
      PROVE  TalkSound' /\ DraftsSound' /\ StartedRightly
  BY <1>5, TakeJobStep, SameDrafts
<1>6. ASSUME NEW w \in Answerers, AnswererMoves(w)
      PROVE  TalkSound' /\ DraftsSound' /\ StartedRightly
  <2>1. CASE AskModel(w) BY <2>1, AskModelStep, SameDrafts
  <2>2. CASE Answer(w) BY <2>2, AnswerStep, FollowedDrafts
  <2>3. CASE ModelFails(w) BY <2>3, ModelFailsStep, SameDrafts
  <2>4. CASE LookAtCard(w) BY <2>4, LookStep, SameDrafts
  <2>5. CASE Confirm(w) BY <2>5, ConfirmStep, FollowedDrafts
  <2>6. CASE PostReply(w) BY <2>6, PostReplyStep, SameDrafts
  <2>7. CASE FinishTap(w) BY <2>7, FinishTapStep, SameDrafts
  <2>. QED BY <1>6, <2>1, <2>2, <2>3, <2>4, <2>5, <2>6, <2>7 DEF AnswererMoves
<1>7. ASSUME NEW w \in Answerers, AnswererDies(w)
      PROVE  TalkSound' /\ DraftsSound' /\ StartedRightly
  <2>1. /\ UNCHANGED <<thread, chatJob, mode, drafts>> /\ Rests(w) /\ Mishap
        /\ evidence' \in Evidence /\ isMember' \in BOOLEAN /\ drafts' \in Seq(DraftRow)
    BY <1>7 DEF AnswererDies, TalkSound, ThreadTyped
  <2>. QED BY <2>1, WorldStep, SameDrafts
<1>8. ASSUME NEW i \in DOMAIN drafts, DraftEnds(i) \/ FeedDraft(i)
      PROVE  TalkSound' /\ DraftsSound' /\ StartedRightly
  <2>1. TalkSound' /\ DraftsSound' /\ Len(drafts') = Len(drafts) BY <1>8, DraftStep
  <2>2. Len(drafts) \in Nat BY DEF TalkSound, ThreadTyped
  <2>. QED BY <2>1, <2>2 DEF StartedRightly
<1>9. CASE UNCHANGED threadVars
  <2>1. /\ UNCHANGED <<thread, chatJob, mode, answerer, drafts, mishaps>>
        /\ evidence' \in Evidence /\ isMember' \in BOOLEAN /\ drafts' \in Seq(DraftRow)
    BY <1>9 DEF threadVars, TalkSound, ThreadTyped
  <2>. QED BY <2>1, WorldStep, SameDrafts
<1>. QED BY <1>1, <1>2, <1>3, <1>4, <1>5, <1>6, <1>7, <1>8, <1>9 DEF ThreadNext

LEMMA ThreadStarts == ThreadInit => TalkSound /\ DraftsSound
<1>. SUFFICES ASSUME ThreadInit PROVE TalkSound /\ DraftsSound OBVIOUS
<1>1. NoJob \in ChatRow BY ThreadBounds DEF NoJob, ChatRow, Open, Results, Nowhere
<1>2. ThreadTyped BY <1>1, IdleAnswering, ThreadBounds DEF ThreadInit, ThreadTyped, Evidence
<1>3. \A n \in Asked : JobSound(n) BY DEF ThreadInit, JobSound, NoJob, Nowhere
<1>4. \A w \in Answerers : WorkSound(w) BY IdleAnswering DEF ThreadInit, WorkSound
<1>5. DOMAIN drafts = {} BY DEF ThreadInit
<1>6. DraftsIn("planned") = 0
  <2>1. {i \in DOMAIN drafts : drafts[i].status = "planned"} = {} BY <1>5
  <2>. QED BY <2>1, FS_EmptySet DEF DraftsIn
<1>7. DraftsIn("planned") <= ChatCap BY <1>6, ThreadBounds
<1>. QED BY <1>2, <1>3, <1>4, <1>5, <1>7 DEF TalkSound, DraftsSound

\* The whole studio leaves the conversation alone, or takes one of its steps.
THEOREM ThreadApart == Spec => ThreadSpec
<1>1. Init => ThreadInit BY DEF Init
<1>2. [Next]_vars => [ThreadNext]_threadVars
  <2>1. CASE TeamNext BY <2>1 DEF TeamNext, Studio
  <2>2. CASE PeopleNext BY <2>2 DEF PeopleNext, Studio
  <2>3. CASE RoutineNext BY <2>3 DEF RoutineNext, Studio
  <2>4. CASE WeekNext BY <2>4 DEF WeekNext, AgencySteps, Team, Studio
  <2>5. CASE DraftsNext BY <2>5 DEF DraftsNext, AgencySteps, Team, Studio
  <2>6. CASE TalkNext BY <2>6 DEF TalkNext, Talk
  <2>7. CASE UNCHANGED vars BY <2>7 DEF vars
  <2>. QED BY <2>1, <2>2, <2>3, <2>4, <2>5, <2>6, <2>7 DEF Next
<1>. QED BY <1>1, <1>2, PTL DEF Spec, ThreadSpec

\* A card starts one draft.
THEOREM OneDraft == Spec => OneDraftPerCard
<1>1. ThreadInit => TalkSound /\ DraftsSound BY ThreadStarts
<1>2. (TalkSound /\ DraftsSound) /\ [ThreadNext]_threadVars => (TalkSound /\ DraftsSound)'
  BY ThreadInvKept
<1>3. TalkSound /\ DraftsSound =>
        /\ \A i, j \in DOMAIN drafts :
             i # j => /\ drafts[i].job # drafts[j].job
                      /\ CardOfDraft(i) = CardOfDraft(j) => CardOfDraft(i) = Nowhere
        /\ \A i \in DOMAIN drafts :
             CardOfDraft(i) # Nowhere => drafts[i].saw = chatJob[thread[CardOfDraft(i)].job].saw
        /\ DraftsIn("planned") <= ChatCap
  BY DEF DraftsSound, DraftSound
<1>4. (TalkSound /\ DraftsSound) /\ [ThreadNext]_threadVars =>
        [Len(drafts') > Len(drafts) =>
            isMember /\ chatJob[drafts'[Len(drafts')].job].status = "working"]_threadVars
  BY ThreadInvKept DEF StartedRightly
<1>. QED BY <1>1, <1>2, <1>3, <1>4, ThreadApart, PTL DEF ThreadSpec, OneDraftPerCard

\* The conversation's types, and that what is tapped and shown is in the thread.
THEOREM ThreadTypes == Spec => []ThreadTypeOK
<1>1. ThreadInit => TalkSound /\ DraftsSound BY ThreadStarts
<1>2. (TalkSound /\ DraftsSound) /\ [ThreadNext]_threadVars => (TalkSound /\ DraftsSound)'
  BY ThreadInvKept
<1>3. TalkSound => ThreadTypeOK
  <2>. SUFFICES ASSUME TalkSound PROVE ThreadTypeOK OBVIOUS
  <2>1. \A i \in DOMAIN thread : thread[i] \in ThreadLine BY ElementOfSeq DEF TalkSound, ThreadTyped
  <2>2. \A i \in DOMAIN drafts : drafts[i] \in DraftRow BY ElementOfSeq DEF TalkSound, ThreadTyped
  <2>3. ASSUME NEW n \in Asked
        PROVE  /\ chatJob[n].status \in Open \cup {"none", "done", "failed", "cancelled"} /\ chatJob[n].rev \in 1..LastRevision
               /\ {chatJob[n].taps, chatJob[n].card} \subseteq {Nowhere} \cup DOMAIN thread
               /\ chatJob[n].result \in Results /\ chatJob[n].saw \in {Nowhere} \cup Evidence
    <3>1. chatJob[n] \in ChatRow /\ JobSound(n) BY DEF TalkSound, ThreadTyped
    <3>. QED BY <3>1 DEF ChatRow, JobSound, Shows
  <2>4. \A w \in Answerers : answerer[w] \in Answering BY DEF TalkSound, ThreadTyped
  <2>. QED BY <2>1, <2>2, <2>3, <2>4 DEF ThreadTypeOK, TalkSound, ThreadTyped, ThreadLine, DraftRow, Answering
<1>. QED BY <1>1, <1>2, <1>3, ThreadApart, PTL DEF ThreadSpec

-----------------------------------------------------------------------------
(* Weeks.                                                                  *)

BriefRow == [status : BriefStatuses, rev : BriefRevisions, stage : {"make", "handoff"}, held : BOOLEAN, old : BOOLEAN]
PostRow  == [status : {"none", "review", "changes", "approved"},
             shows : 0..MaxBriefRevision, approved : 0..MaxBriefRevision]
Producing ==
    {Free} \cup [does : {"step", "tidying"}, task : Step]
           \cup [does : {"sweep"}, seen : SUBSET (Plans \X BriefRevisions)]
Verdicts == {"running", "stopped", "busy", "incomplete", "ready", "unmade"}

\* The team has had the brief; this is never undone.
Begun(p) == brief[p].status \notin {"none", "planned"}
Carries(w) == producer[w].does \in {"step", "tidying"}

\* Nobody works on a brief that was not handed out, nor twice on one task.
StepsSound ==
    /\ steps \subseteq Step /\ \A t \in steps : Begun(t.plan)
    /\ producer \in [Workers -> Producing]
    /\ \A w \in Workers : Carries(w) => producer[w].task \in steps
    /\ \A v, w \in Workers : Carries(v) /\ Carries(w) /\ v # w => producer[v].task # producer[w].task
    /\ \A w \in Workers : producer[w].does = "sweep" => \A s \in producer[w].seen : Begun(s[1])

\* The team has handed the revision over, or given it up.
Handed == {"ready", "approved", "failed", "discarded"}
Shown == {"ready", "approved"}
Granted == {"approved", "changes"}

PostSound(p) ==
    /\ post[p].approved # 0 => post[p].status = "approved" /\ post[p].shows = post[p].approved
    /\ p \notin belated =>
         /\ brief[p].status \in Shown => post[p].shows = brief[p].rev
         /\ brief[p].status = "approved" => post[p].status \in Granted

\* A page has a brief that was handed over.  While the brief is as ready as it
\* was, a post that the page found approved has at most been sent back.
PageSound(g) ==
    /\ Begun(g.plan) /\ g.rev <= brief[g.plan].rev
    /\ g.rev = brief[g.plan].rev =>
         /\ brief[g.plan].status \in Handed
         /\ g.saw = "approved" /\ brief[g.plan].status \in Shown /\ g.plan \notin belated =>
              post[g.plan].status \in Granted

PagesSound == pages \subseteq Page /\ \A g \in pages : PageSound(g)

\* A plan that was replaced is over, with what it made.
PlanSound(p) ==
    p # week.plan /\ p \notin revived => job[p].status \notin Active /\ brief[p].status \in {"none", "discarded"}

Carried == week.plan # NoPlan /\ job[week.plan].status = "done" /\ Begun(week.plan)

\* What the tick has read of the week's plan stays true while the week has the
\* status it was read with.
TickSound ==
    \/ tick = NoTick
    \/ /\ tick.seen \in {"planning", "failed"} /\ tick.verdict \in Verdicts
       /\ week.status = tick.seen \/ week.status = "planning"
       /\ tick.verdict = "ready" /\ week.status = tick.seen => Carried

WeekSound ==
    /\ brief \in [Plans -> BriefRow] /\ post \in [Plans -> PostRow] /\ revived \subseteq Plans
    /\ belated \subseteq Plans /\ PagesSound /\ StepsSound
    /\ \A p \in Plans : PostSound(p) /\ PlanSound(p)
    /\ week.plan # NoPlan => job[week.plan].status # "none"
    /\ told = IF week.status = "planned" THEN 1 ELSE 0
    /\ week.status = "planned" => Carried
    /\ TickSound

LEMMA WeekBounds ==
    /\ MaxBriefRevision \in Nat \ {0} /\ MaxActiveBriefs \in Nat \ {0} /\ Plans \subseteq Jobs /\ NoPlan \notin Plans
    /\ 1 \in BriefRevisions
BY WeekAssumption DEF BriefRevisions

\* What a step may do to a plan that is over, and to a brief.
PlanFlows(p) ==
    /\ job[p].status \notin Active => job'[p].status = job[p].status
    /\ job[p].status \in Active => job'[p].status # "none"
BriefFlows(p) ==
    /\ Begun(p) => brief'[p].status \notin {"none", "planned"}
    /\ brief[p].status = "discarded" => brief'[p].status = "discarded" \/ p \in revived'
    /\ brief[p].status = "none" => brief'[p].status = "none" \/ job[p].status \in Active
    /\ brief[p].rev <= brief'[p].rev
    /\ brief'[p].rev = brief[p].rev /\ brief[p].status \in Handed => brief'[p].status \in Handed

\* What a step may do to the post of a brief that was handed over.
PostKept(p) ==
    /\ PostSound(p)'
    /\ brief'[p].rev = brief[p].rev /\ brief[p].status \in Handed /\ brief'[p].status \in Shown /\ p \notin belated' =>
         /\ brief[p].status \in Shown /\ p \notin belated
         /\ post[p].status \in Granted => post'[p].status \in Granted

Flows == \A p \in Plans : PlanFlows(p) /\ BriefFlows(p)

\* The pages that are there stay sound.
LEMMA PagesGoOn ==
    ASSUME WeekSound, Flows, \A p \in Plans : PostKept(p), pages' \subseteq pages,
           brief' \in [Plans -> BriefRow]
    PROVE  PagesSound'
<1>. SUFFICES ASSUME NEW g \in pages PROVE PageSound(g)' BY DEF WeekSound, PagesSound
<1>1. PICK p \in Plans : p = g.plan BY DEF WeekSound, PagesSound, Page
<1>2. PageSound(g) /\ g.rev \in BriefRevisions BY DEF WeekSound, PagesSound, Page
<1>3. BriefFlows(p) /\ PostKept(p) BY DEF Flows
<1>4. brief[p].rev \in BriefRevisions /\ brief'[p].rev \in BriefRevisions BY DEF WeekSound, BriefRow
<1>5. Begun(p)' BY <1>1, <1>2, <1>3 DEF PageSound, BriefFlows, Begun
<1>6. g.rev <= brief[p].rev /\ brief[p].rev <= brief'[p].rev BY <1>1, <1>2, <1>3 DEF PageSound, BriefFlows
<1>7. g.rev <= brief'[p].rev BY <1>2, <1>4, <1>6 DEF BriefRevisions
<1>8. g.rev = brief'[p].rev => g.rev = brief[p].rev /\ brief'[p].rev = brief[p].rev
  BY <1>2, <1>4, <1>6 DEF BriefRevisions
<1>9. g.rev = brief'[p].rev => brief'[p].status \in Handed BY <1>1, <1>2, <1>3, <1>8 DEF PageSound, BriefFlows
<1>10. g.rev = brief'[p].rev /\ g.saw = "approved" /\ brief'[p].status \in Shown /\ p \notin belated' =>
         post'[p].status \in Granted
  BY <1>1, <1>2, <1>3, <1>8 DEF PageSound, PostKept
<1>. QED BY <1>1, <1>5, <1>7, <1>9, <1>10 DEF PageSound

\* A step that leaves the week's row and the tick alone.
LEMMA WeekGoesFurther ==
    ASSUME WeekHead, WeekSound, Flows, UNCHANGED <<week, tick, told>>,
           revived \subseteq revived', revived' \subseteq Plans, belated' \subseteq Plans,
           brief' \in [Plans -> BriefRow], post' \in [Plans -> PostRow], StepsSound', PagesSound',
           \A p \in Plans : PostSound(p)'
    PROVE  WeekSound'
<1>1. ASSUME NEW p \in Plans PROVE PlanSound(p)'
  <2>1. PlanSound(p) /\ PlanFlows(p) /\ BriefFlows(p) BY DEF WeekSound, Flows
  <2>. QED BY <2>1 DEF PlanSound, PlanFlows, BriefFlows
<1>2. week.plan # NoPlan => week.plan \in Plans BY DEF WeekHead
<1>3. Carried => Carried'
  <2>. SUFFICES ASSUME Carried PROVE Carried' OBVIOUS
  <2>1. PICK p \in Plans : p = week.plan BY <1>2 DEF Carried
  <2>2. job[p].status = "done" /\ Begun(p) BY <2>1 DEF Carried
  <2>3. job'[p].status = "done" BY <2>2 DEF Flows, PlanFlows, Active
  <2>4. brief'[p].status \notin {"none", "planned"} BY <2>2 DEF Flows, BriefFlows
  <2>. QED BY <2>1, <2>3, <2>4 DEF Carried, Begun
<1>4. week'.plan # NoPlan => job'[week'.plan].status # "none"
  <2>. SUFFICES ASSUME week.plan # NoPlan PROVE job'[week.plan].status # "none" OBVIOUS
  <2>1. PICK p \in Plans : p = week.plan BY <1>2
  <2>2. job[p].status # "none" BY <2>1 DEF WeekSound
  <2>. QED BY <2>1, <2>2 DEF Flows, PlanFlows
<1>5. TickSound' BY <1>3 DEF TickSound, WeekSound
<1>. QED BY <1>1, <1>3, <1>4, <1>5 DEF WeekSound

LEMMA WeekGoesOn ==
    ASSUME WeekHead, WeekSound, Flows, UNCHANGED <<week, tick, told, revived>>, pages' \subseteq pages,
           belated' \subseteq belated,
           brief' \in [Plans -> BriefRow], post' \in [Plans -> PostRow], StepsSound', \A p \in Plans : PostKept(p)
    PROVE  WeekSound'
<1>1. PagesSound' BY PagesGoOn
<1>2. \A p \in Plans : PostSound(p)' BY DEF PostKept
<1>3. revived' \subseteq Plans /\ belated' \subseteq Plans BY DEF WeekSound
<1>. QED BY <1>1, <1>2, <1>3, WeekGoesFurther

\* Plans that a worker's step, time or a Stop changes were not over.
LEMMA OverStaysOver ==
    ASSUME JobsTyped, NEW p \in Plans,
           \/ \E w \in Workers : WorkerSteps(w)
           \/ \E q \in Plans : JobAges(q) \/ ControlStop(q)
           \/ job' = job
    PROVE  PlanFlows(p)
<1>1. p \in Jobs /\ job \in [Jobs -> Job] BY WeekBounds DEF JobsTyped
<1>2. ASSUME NEW j \in Jobs, NEW guard \in BOOLEAN, NEW fields, Write(j, guard, fields),
             guard => fields.status # "none" /\ (job[j].status \in Active \/ fields.status = job[j].status)
      PROVE  PlanFlows(p)
  <2>1. CASE guard /\ p = j
    <3>. DEFINE row == [fields EXCEPT !.old = FALSE]
    <3>1. job'[p] = row BY <1>1, <1>2, <2>1 DEF Write
    <3>2. row.status = fields.status OBVIOUS
    <3>. HIDE DEF row
    <3>. QED BY <1>2, <2>1, <3>1, <3>2 DEF PlanFlows
  <2>2. CASE ~guard \/ p # j
    <3>1. job'[p] = job[p] BY <1>1, <1>2, <2>2 DEF Write
    <3>. QED BY <3>1 DEF PlanFlows, Active
  <2>. QED BY <2>1, <2>2
<1>3. ASSUME job'[p].status = job[p].status PROVE PlanFlows(p) BY <1>3 DEF PlanFlows, Active
<1>4. ASSUME NEW j \in Jobs, NEW rev, Fail(j, rev) PROVE PlanFlows(p)
  <2>. DEFINE fields == [job[j] EXCEPT !.status = "failed", !.held = FALSE]
              guard == job[j].rev = rev /\ job[j].status \in Active
  <2>1. job[j] \in Job BY <1>1
  <2>2. fields.status = "failed" BY <2>1 DEF Job
  <2>3. Write(j, guard, fields) BY <1>4 DEF Fail
  <2>. HIDE DEF fields
  <2>. QED BY <1>2, <2>2, <2>3
<1>5. ASSUME NEW w \in Workers, NEW t \in queue, StartStage(w, t) PROVE PlanFlows(p)
  <2>1. t.job \in Jobs /\ job[t.job] \in Job BY <1>1 DEF JobsTyped, Task
  <2>2. CASE TakeUp(t) /\ ~Blocked(t.job)
    <3>1. job' = [job EXCEPT ![t.job] = [@ EXCEPT !.status = "working", !.old = FALSE]] /\ job[t.job].status = "queued"
      BY <1>5, <2>2 DEF StartStage, TakeUp
    <3>2. p # t.job => job'[p] = job[p] BY <1>1, <3>1
    <3>3. p = t.job => job'[p].status = "working" BY <1>1, <2>1, <3>1 DEF Job
    <3>. QED BY <3>1, <3>2, <3>3 DEF PlanFlows, Active
  <2>3. CASE ~(TakeUp(t) /\ ~Blocked(t.job))
    <3>. DEFINE fields == [job[t.job] EXCEPT !.held = TRUE]
    <3>1. Write(t.job, TakeUp(t), fields) BY <1>5, <2>3 DEF StartStage
    <3>2. fields.status = job[t.job].status BY <2>1 DEF Job
    <3>3. TakeUp(t) => job[t.job].status = "queued" BY DEF TakeUp
    <3>4. TakeUp(t) \in BOOLEAN BY DEF TakeUp
    <3>. HIDE DEF fields
    <3>. QED BY <1>2, <2>1, <3>1, <3>2, <3>3, <3>4 DEF Active
  <2>. QED BY <2>2, <2>3
<1>6. ASSUME NEW w \in Workers, StageSaves(w) \/ StageFinishes(w) \/ StagePassesOn(w) \/ StageFails(w)
      PROVE  PlanFlows(p)
  <2>. DEFINE t == at[w].task
  <2>1. at[w].does = "stage" BY <1>6 DEF StageSaves, StageFinishes, StagePassesOn, StageFails
  <2>2. t.job \in Jobs BY <2>1 DEF JobsTyped, Doing, Task, Resting
  <2>3. job[t.job] \in Job BY <1>1, <2>2
  <2>4. StillMine(t) => job[t.job].status \in Active BY DEF StillMine, Active
  <2>5. StillMine(t) \in BOOLEAN BY DEF StillMine
  <2>6. CASE StageSaves(w)
    <3>1. Write(t.job, StillMine(t), job[t.job]) BY <2>6 DEF StageSaves
    <3>2. StillMine(t) => job[t.job].status # "none" BY DEF StillMine
    <3>. QED BY <1>2, <2>2, <2>4, <2>5, <3>1, <3>2
  <2>7. CASE StageFinishes(w)
    <3>. DEFINE fields == [job[t.job] EXCEPT !.status = "done"]
    <3>1. Write(t.job, StillMine(t), fields) BY <2>7 DEF StageFinishes
    <3>2. fields.status = "done" BY <2>3 DEF Job
    <3>. HIDE DEF fields
    <3>. QED BY <1>2, <2>2, <2>4, <2>5, <3>1, <3>2
  <2>8. CASE StagePassesOn(w)
    <3>. DEFINE fields == [job[t.job] EXCEPT !.status = "queued", !.stage = t.stage + 1]
    <3>1. Write(t.job, StillMine(t), fields) BY <2>8 DEF StagePassesOn
    <3>2. fields.status = "queued" BY <2>3 DEF Job
    <3>. HIDE DEF fields
    <3>. QED BY <1>2, <2>2, <2>4, <2>5, <3>1, <3>2
  <2>9. CASE StageFails(w) BY <1>4, <2>2, <2>9 DEF StageFails
  <2>. QED BY <1>6, <2>6, <2>7, <2>8, <2>9
<1>7. ASSUME NEW w \in Workers, TaskEnds(w) \/ WorkerDies(w) \/ SweepReads(w) PROVE PlanFlows(p)
  BY <1>3, <1>7 DEF TaskEnds, WorkerDies, SweepReads
<1>8. ASSUME NEW w \in Workers, at[w].does = "sweep", NEW s \in at[w].seen, SweepRow(w, s) PROVE PlanFlows(p)
  <2>1. s.job \in Jobs BY <1>8 DEF JobsTyped, Doing, Seen, Resting
  <2>2. job' = job \/ Fail(s.job, s.rev) BY <1>8 DEF SweepRow
  <2>. QED BY <1>3, <1>4, <2>1, <2>2
<1>9. ASSUME NEW w \in Workers, NEW j \in Jobs, ResumeHeld(w, j) PROVE PlanFlows(p)
  <2>. DEFINE fields == [job[j] EXCEPT !.held = Blocked(j)]
  <2>1. Write(j, TRUE, fields) /\ job[j].status = "queued" BY <1>9 DEF ResumeHeld
  <2>2. fields.status = job[j].status BY <1>1, <1>9 DEF Job
  <2>. HIDE DEF fields
  <2>. QED BY <1>2, <1>9, <2>1, <2>2
<1>10. ASSUME NEW q \in Plans, JobAges(q) PROVE PlanFlows(p)
  <2>1. job'[p].status = job[p].status BY <1>1, <1>10, WeekBounds DEF JobAges, Job
  <2>. QED BY <1>3, <2>1
<1>11. ASSUME NEW q \in Plans, ControlStop(q) PROVE PlanFlows(p)
  <2>1. q \in Jobs BY WeekBounds
  <2>2. PICK keep \in BOOLEAN :
          /\ job[q].status \in Active \/ job[q].status = "cancelled"
          /\ Write(q, TRUE, [job[q] EXCEPT !.status = "cancelled", !.paused = keep, !.rev = @ + 1])
    BY <1>11 DEF ControlStop
  <2>. DEFINE fields == [job[q] EXCEPT !.status = "cancelled", !.paused = keep, !.rev = @ + 1]
  <2>3. fields.status = "cancelled" BY <1>1, <2>1 DEF Job
  <2>4. Write(q, TRUE, fields) BY <2>2
  <2>. HIDE DEF fields
  <2>. QED BY <1>2, <2>1, <2>2, <2>3, <2>4
<1>12. ASSUME NEW w \in Workers, WorkerSteps(w) PROVE PlanFlows(p)
  BY <1>5, <1>6, <1>7, <1>8, <1>9, <1>12 DEF WorkerSteps
<1>. QED BY <1>3, <1>10, <1>11, <1>12

\* What was begun stays begun.
LEMMA BegunStays ==
    ASSUME Flows, NEW p \in Plans, Begun(p)
    PROVE  Begun(p)'
BY DEF Flows, BriefFlows, Begun

\* The workers go on; tasks may be added.
LEMMA SameProducers ==
    ASSUME StepsSound, Flows, producer' = producer, steps \subseteq steps', steps' \subseteq Step,
           \A t \in steps' : t \in steps \/ Begun(t.plan)'
    PROVE  StepsSound'
<1>1. \A t \in steps' : Begun(t.plan)'
  <2>. SUFFICES ASSUME NEW t \in steps', t \in steps PROVE Begun(t.plan)' OBVIOUS
  <2>1. t.plan \in Plans /\ Begun(t.plan) BY DEF StepsSound, Step
  <2>. QED BY <2>1, BegunStays
<1>2. ASSUME NEW w \in Workers, producer'[w].does = "sweep", NEW s \in producer'[w].seen PROVE Begun(s[1])'
  <2>1. s[1] \in Plans /\ Begun(s[1]) BY <1>2 DEF StepsSound, Producing, Free
  <2>. QED BY <2>1, BegunStays
<1>3. \A w \in Workers : Carries(w)' <=> Carries(w) BY DEF Carries
<1>. QED BY <1>1, <1>2, <1>3 DEF StepsSound

\* One worker goes on to something else; its task may be gone with it.
LEMMA OneProduces ==
    ASSUME StepsSound, Flows, NEW w \in Workers, NEW next \in Producing, producer' = [producer EXCEPT ![w] = next],
           steps' \subseteq Step, \A t \in steps' : t \in steps \/ Begun(t.plan)',
           next.does = "sweep" => \A s \in next.seen : Begun(s[1]),
           \/ /\ next.does \notin {"step", "tidying"}
              /\ \A t \in steps : t \in steps' \/ (Carries(w) /\ t = producer[w].task)
           \/ /\ next.does \in {"step", "tidying"} /\ next.task \in steps /\ steps \subseteq steps'
              /\ (Carries(w) /\ next.task = producer[w].task) \/ ~Taken(next.task)
    PROVE  StepsSound'
<1>1. producer'[w] = next /\ \A v \in Workers : v # w => producer'[v] = producer[v] BY DEF StepsSound
<1>2. producer' \in [Workers -> Producing] BY DEF StepsSound
<1>3. \A v \in Workers : v # w => (Carries(v)' <=> Carries(v)) BY <1>1 DEF Carries
<1>4. Carries(w)' <=> next.does \in {"step", "tidying"} BY <1>1 DEF Carries
<1>5. ASSUME NEW v \in Workers, Carries(v)' PROVE producer'[v].task \in steps'
  <2>1. CASE v = w BY <1>1, <1>4, <1>5, <2>1
  <2>2. CASE v # w
    <3>1. Carries(v) /\ producer'[v].task = producer[v].task /\ producer[v].task \in steps
      BY <1>1, <1>3, <1>5, <2>2 DEF StepsSound
    <3>2. Carries(w) => producer[v].task # producer[w].task BY <2>2, <3>1 DEF StepsSound
    <3>. QED BY <3>1, <3>2
  <2>. QED BY <2>1, <2>2
<1>6. ASSUME NEW v \in Workers, v # w, Carries(v)', Carries(w)' PROVE producer'[v].task # producer'[w].task
  <2>1. Carries(v) /\ producer'[v].task = producer[v].task BY <1>1, <1>3, <1>6
  <2>2. producer'[w].task = next.task /\ next.does \in {"step", "tidying"} BY <1>1, <1>4, <1>6
  <2>3. CASE Carries(w) /\ next.task = producer[w].task BY <1>6, <2>1, <2>2, <2>3 DEF StepsSound
  <2>4. CASE ~Taken(next.task) BY <2>1, <2>2, <2>4 DEF Taken, Carries
  <2>. QED BY <2>2, <2>3, <2>4
<1>7. \A u, v \in Workers : Carries(u)' /\ Carries(v)' /\ u # v => producer'[u].task # producer'[v].task
  BY <1>1, <1>3, <1>6 DEF StepsSound
<1>8. \A t \in steps' : Begun(t.plan)'
  <2>. SUFFICES ASSUME NEW t \in steps', t \in steps PROVE Begun(t.plan)' OBVIOUS
  <2>1. t.plan \in Plans /\ Begun(t.plan) BY DEF StepsSound, Step
  <2>. QED BY <2>1, BegunStays
<1>9. ASSUME NEW v \in Workers, producer'[v].does = "sweep", NEW s \in producer'[v].seen PROVE Begun(s[1])'
  <2>1. producer'[v] \in Producing BY <1>2
  <2>2. s[1] \in Plans BY <1>9, <2>1 DEF Producing, Free
  <2>3. Begun(s[1])
    <3>1. CASE v = w BY <1>1, <1>9, <3>1
    <3>2. CASE v # w BY <1>1, <1>9, <3>2 DEF StepsSound
    <3>. QED BY <3>1, <3>2
  <2>. QED BY <2>2, <2>3, BegunStays
<1>. QED BY <1>2, <1>5, <1>7, <1>8, <1>9 DEF StepsSound

\* One brief changes.
LEMMA OneBrief ==
    ASSUME brief \in [Plans -> BriefRow], NEW p \in Plans, NEW row \in BriefRow, brief' = [brief EXCEPT ![p] = row],
           \A q \in Plans : PlanFlows(q),
           Begun(p) => row.status \notin {"none", "planned"},
           brief[p].status = "discarded" => row.status = "discarded" \/ p \in revived',
           brief[p].status = "none" => row.status = "none" \/ job[p].status \in Active,
           brief[p].rev <= row.rev, row.rev = brief[p].rev /\ brief[p].status \in Handed => row.status \in Handed
    PROVE  /\ brief' \in [Plans -> BriefRow] /\ brief'[p] = row /\ \A q \in Plans : q # p => brief'[q] = brief[q]
           /\ Flows
<1>1. brief' \in [Plans -> BriefRow] /\ brief'[p] = row /\ \A q \in Plans : q # p => brief'[q] = brief[q] OBVIOUS
<1>2. ASSUME NEW q \in Plans PROVE BriefFlows(q)
  <2>1. CASE q = p BY <1>1, <2>1 DEF BriefFlows
  <2>2. CASE q # p
    <3>1. brief'[q] = brief[q] /\ brief[q].rev \in BriefRevisions BY <1>1, <2>2 DEF BriefRow
    <3>2. brief[q].rev <= brief[q].rev BY <3>1 DEF BriefRevisions
    <3>. QED BY <3>1, <3>2 DEF BriefFlows, Begun
  <2>. QED BY <2>1, <2>2
<1>. QED BY <1>1, <1>2 DEF Flows

LEMMA SameBriefs ==
    ASSUME brief \in [Plans -> BriefRow], brief' = brief, \A q \in Plans : PlanFlows(q)
    PROVE  Flows
<1>1. \A q \in Plans : brief[q].rev <= brief[q].rev BY DEF BriefRow, BriefRevisions
<1>. QED BY <1>1 DEF Flows, BriefFlows, Begun

LEMMA SameRows ==
    ASSUME job' = job, NEW p \in Plans
    PROVE  PlanFlows(p)
BY DEF PlanFlows, Active

\* A post that shows what it showed, of a brief that is as ready as it was.
LEMMA PostsKept ==
    ASSUME WeekSound, NEW p \in Plans, post'[p] = post[p], p \in belated' <=> p \in belated,
           \/ brief'[p].status \notin Shown
           \/ /\ brief[p].status \in Shown /\ brief'[p].rev = brief[p].rev
              /\ brief'[p].status = "approved" => brief[p].status = "approved"
    PROVE  PostKept(p)
BY DEF WeekSound, PostSound, PostKept, Shown

\* One brief changes, and no post.
LEMMA OneBriefMoves ==
    ASSUME WeekSound, NEW p \in Plans, NEW row \in BriefRow, brief' = [brief EXCEPT ![p] = row], post' = post,
           belated' = belated, \A q \in Plans : PlanFlows(q), row.rev = brief[p].rev,
           Begun(p) => row.status \notin {"none", "planned"},
           brief[p].status = "discarded" => row.status = "discarded",
           brief[p].status = "none" => row.status = "none" \/ job[p].status \in Active,
           brief[p].status \in Handed => row.status \in Handed,
           \/ row.status \notin Shown
           \/ brief[p].status \in Shown /\ (row.status = "approved" => brief[p].status = "approved")
    PROVE  /\ brief' \in [Plans -> BriefRow] /\ post' \in [Plans -> PostRow] /\ Flows
           /\ brief'[p] = row /\ \A q \in Plans : PostKept(q)
<1>3. brief[p].rev <= row.rev BY DEF BriefRow, BriefRevisions
<1>1. /\ brief' \in [Plans -> BriefRow] /\ brief'[p] = row /\ \A q \in Plans : q # p => brief'[q] = brief[q]
      /\ Flows
  BY <1>3, OneBrief DEF WeekSound
<1>2. ASSUME NEW q \in Plans PROVE PostKept(q)
  <2>1. CASE q = p BY <1>1, <2>1, PostsKept
  <2>2. CASE q # p
    <3>1. brief'[q] = brief[q] BY <1>1, <2>2
    <3>. QED BY <3>1, PostsKept
  <2>. QED BY <2>1, <2>2
<1>. QED BY <1>1, <1>2 DEF WeekSound

\* No brief and no post changes.
LEMMA SameWeekRows ==
    ASSUME WeekSound, brief' = brief, post' = post, belated' = belated, \A q \in Plans : PlanFlows(q)
    PROVE  /\ brief' \in [Plans -> BriefRow] /\ post' \in [Plans -> PostRow] /\ Flows
           /\ \A q \in Plans : PostKept(q)
<1>1. \A q \in Plans : PostKept(q)
  <2>. SUFFICES ASSUME NEW q \in Plans PROVE PostKept(q) OBVIOUS
  <2>1. brief'[q] = brief[q] /\ post'[q] = post[q] OBVIOUS
  <2>. QED BY <2>1, PostsKept
<1>. QED BY <1>1, SameBriefs DEF WeekSound

LEMMA StepsKept ==
    ASSUME StepsSound, UNCHANGED <<steps, producer>>, \A q \in Plans : Begun(q) => Begun(q)'
    PROVE  StepsSound'
<1>1. \A w \in Workers : Carries(w)' <=> Carries(w) BY DEF Carries
<1>2. \A t \in steps : Begun(t.plan)' BY DEF StepsSound, Step
<1>3. ASSUME NEW w \in Workers, producer[w].does = "sweep", NEW s \in producer[w].seen PROVE Begun(s[1])'
  BY <1>3 DEF StepsSound, Producing, Free
<1>. QED BY <1>1, <1>2, <1>3 DEF StepsSound

\* What the studio's workers do besides.
LEMMA StudioBeside ==
    ASSUME WeekHead, WeekSound, UNCHANGED weekVars, \A q \in Plans : PlanFlows(q)
    PROVE  WeekSound'
<1>1. UNCHANGED <<week, brief, post, steps, producer, tick, told, pages, belated, revived>> BY DEF weekVars, pageVars
<1>2. /\ brief' \in [Plans -> BriefRow] /\ post' \in [Plans -> PostRow] /\ Flows
      /\ \A q \in Plans : PostKept(q)
  BY <1>1, SameWeekRows
<1>3. StepsSound'
  <2>1. steps' \subseteq Step /\ steps \subseteq steps' BY <1>1 DEF WeekSound, StepsSound
  <2>. QED BY <1>1, <1>2, <2>1, SameProducers DEF WeekSound
<1>. QED BY <1>1, <1>2, <1>3, WeekGoesOn

LEMMA MakeBriefStep ==
    ASSUME JobsTyped, WeekHead, WeekSound, NEW w \in Workers, MakeBrief(w)
    PROVE  WeekSound'
<1>1. PICK p \in Plans : p = at[w].task.job BY DEF MakeBrief
<1>2. /\ job[p].status = "working" /\ brief[p].status = "none" /\ brief' = [brief EXCEPT ![p].status = "planned"]
      /\ Write(p, TRUE, job[p])
      /\ UNCHANGED <<week, post, steps, producer, tick, told, pages, belated, revived>>
  BY <1>1 DEF MakeBrief, StillMine, pageVars
<1>3. brief[p] \in BriefRow BY DEF WeekSound
<1>. DEFINE row == [brief[p] EXCEPT !.status = "planned"]
<1>4. row \in BriefRow /\ row.status = "planned" /\ row.rev = brief[p].rev BY <1>3 DEF BriefRow, BriefStatuses
<1>5. brief' = [brief EXCEPT ![p] = row] BY <1>2, <1>3 DEF WeekSound
<1>. HIDE DEF row
<1>6. \A q \in Plans : PlanFlows(q)
  <2>. SUFFICES ASSUME NEW q \in Plans PROVE PlanFlows(q) OBVIOUS
  <2>1. job \in [Jobs -> Job] /\ p \in Jobs /\ q \in Jobs BY WeekBounds DEF JobsTyped
  <2>2. job'[q].status = job[q].status BY <1>2, <2>1 DEF Write, Job
  <2>. QED BY <2>2 DEF PlanFlows, Active
<1>7. ~Begun(p) /\ job[p].status \in Active /\ brief[p].status \notin Handed /\ row.status \notin Shown
  BY <1>2, <1>4 DEF Begun, Active, Handed, Shown
<1>8. /\ brief' \in [Plans -> BriefRow] /\ post' \in [Plans -> PostRow] /\ Flows
      /\ \A q \in Plans : PostKept(q)
  BY <1>2, <1>4, <1>5, <1>6, <1>7, OneBriefMoves
<1>9. StepsSound'
  <2>1. steps' \subseteq Step /\ steps \subseteq steps' BY <1>2 DEF WeekSound, StepsSound
  <2>. QED BY <1>2, <1>8, <2>1, SameProducers DEF WeekSound
<1>. QED BY <1>2, <1>8, <1>9, WeekGoesOn

LEMMA SamePages ==
    ASSUME PagesSound, UNCHANGED <<brief, post, pages, belated>>
    PROVE  PagesSound'
BY DEF PagesSound, PageSound, Begun, Page

LEMMA ResumePlanStep ==
    ASSUME JobsTyped, WeekHead, WeekSound, NEW p \in Plans, ResumePlan(p)
    PROVE  WeekSound'
<1>1. p \in Jobs /\ job[p].rev \in Revisions /\ job[p].stage \in Stages BY WeekBounds, JobType
<1>2. /\ job' \in [Jobs -> Job] /\ \A i \in Jobs : i # p => job'[i] = job[i]
      /\ job'[p].status = "queued"
  BY <1>1, RestartEffect DEF ResumePlan, RetryLocked
<1>3. /\ UNCHANGED <<week, brief, post, steps, producer, tick, told, pages, belated>> /\ job[p].status \in {"failed", "cancelled"}
      /\ revived' = IF week.plan = p THEN revived ELSE revived \cup {p}
  BY DEF ResumePlan, RetryLocked, pageVars
<1>4. ASSUME NEW q \in Plans PROVE PlanSound(q)'
  <2>1. CASE q = p BY <1>3, <2>1 DEF PlanSound
  <2>2. CASE q # p
    <3>1. job'[q] = job[q] /\ brief'[q] = brief[q] /\ week'.plan = week.plan BY <1>2, <1>3, <2>2, WeekBounds
    <3>2. q \notin revived' => q \notin revived BY <1>3
    <3>3. PlanSound(q) BY DEF WeekSound
    <3>. QED BY <3>1, <3>2, <3>3 DEF PlanSound
  <2>. QED BY <2>1, <2>2
<1>5. \A q \in Plans : PostSound(q)'
  <2>. SUFFICES ASSUME NEW q \in Plans PROVE PostSound(q)' OBVIOUS
  <2>1. brief'[q] = brief[q] /\ post'[q] = post[q] BY <1>3
  <2>2. PostSound(q) BY DEF WeekSound
  <2>. QED BY <1>3, <2>1, <2>2 DEF PostSound
<1>6. Carried => Carried'
  <2>. SUFFICES ASSUME Carried PROVE Carried' OBVIOUS
  <2>1. PICK q : q = week.plan OBVIOUS
  <2>2. q \in Plans /\ job[q].status = "done" /\ Begun(q) BY <2>1 DEF Carried, WeekHead
  <2>3. q # p BY <1>3, <2>2
  <2>4. job'[q] = job[q] BY <1>2, <2>2, <2>3, WeekBounds
  <2>. QED BY <1>3, <2>1, <2>2, <2>4 DEF Carried, Begun
<1>7. week'.plan # NoPlan => job'[week'.plan].status # "none"
  <2>. SUFFICES ASSUME week.plan # NoPlan PROVE job'[week.plan].status # "none" BY <1>3
  <2>1. PICK q \in Plans : q = week.plan BY DEF WeekHead
  <2>2. job[q].status # "none" BY <2>1 DEF WeekSound
  <2>3. CASE q = p BY <1>2, <2>1, <2>3
  <2>4. CASE q # p BY <1>2, <2>1, <2>2, <2>4, WeekBounds
  <2>. QED BY <2>3, <2>4
<1>8. TickSound' BY <1>3, <1>6 DEF TickSound, WeekSound
<1>9. StepsSound'
  <2>1. \A q \in Plans : Begun(q) => Begun(q)' BY <1>3 DEF Begun
  <2>. QED BY <1>3, <2>1, StepsKept DEF WeekSound
<1>11. PagesSound' BY <1>3, SamePages DEF WeekSound
<1>10. /\ brief' \in [Plans -> BriefRow] /\ post' \in [Plans -> PostRow] /\ revived' \subseteq Plans
       /\ belated' \subseteq Plans
       /\ told' = IF week'.status = "planned" THEN 1 ELSE 0
       /\ week'.status = "planned" => Carried'
  BY <1>3, <1>6 DEF WeekSound
<1>. QED BY <1>4, <1>5, <1>7, <1>8, <1>9, <1>10, <1>11 DEF WeekSound

\* The week is planned again only if nothing of the plan it had was begun, and
\* what the tick has read of that plan is not what the week says any more.
LEMMA PlanWeekStep ==
    ASSUME JobsTyped, WeekHead, WeekSound, NEW p \in Plans, PlanWeek(p)
    PROVE  WeekSound'
<1>1. PICK o \in Plans \cup {NoPlan} : o = week.plan BY DEF WeekHead
<1>2. /\ job[p].status = "none" /\ week.status \in {"none", "skipped", "failed"}
      /\ o # NoPlan => job[o].status \notin Active /\ Unmade(o)
  BY <1>1, WeekBounds DEF PlanWeek, WeekHead, Replaceable
<1>3. /\ job' = [j \in Jobs |->
                   IF j = p THEN [job[j] EXCEPT !.status = "queued"]
                   ELSE IF j = o /\ job[j].status # "done"
                   THEN [job[j] EXCEPT !.status = "cancelled", !.old = FALSE] ELSE job[j]]
      /\ brief' = [q \in Plans |-> IF q = o /\ brief[q].status = "planned"
                                   THEN [brief[q] EXCEPT !.status = "discarded"] ELSE brief[q]]
      /\ week' = [status |-> "planning", plan |-> p]
      /\ UNCHANGED <<post, steps, producer, tick, told, pages, belated, revived>>
  BY <1>1 DEF PlanWeek, pageVars
<1>4. job \in [Jobs -> Job] /\ p \in Jobs /\ o \in Jobs \cup {NoPlan} BY WeekBounds DEF JobsTyped
<1>5. o # p
  <2>1. o # NoPlan => job[o].status # "none" BY <1>1 DEF WeekSound
  <2>. QED BY <1>2, <2>1, WeekBounds
<1>6. job'[p].status = "queued" BY <1>3, <1>4 DEF Job
<1>7. ASSUME NEW q \in Plans, q # p
      PROVE  /\ q # o => job'[q] = job[q]
             /\ q = o => job'[q].status \in {"done", "cancelled"}
  <2>1. q \in Jobs /\ job[q] \in Job BY <1>4, WeekBounds
  <2>. QED BY <1>3, <1>7, <2>1 DEF Job
<1>8. ASSUME NEW q \in Plans
      PROVE  /\ brief'[q] \in BriefRow /\ brief'[q].rev = brief[q].rev
             /\ IF q = o /\ brief[q].status = "planned" THEN brief'[q].status = "discarded"
                                                        ELSE brief'[q].status = brief[q].status
  <2>1. brief[q] \in BriefRow BY DEF WeekSound
  <2>. QED BY <1>3, <2>1 DEF BriefRow, BriefStatuses
<1>9. ASSUME NEW q \in Plans PROVE PlanSound(q)'
  <2>. SUFFICES ASSUME q # p, q \notin revived
                PROVE  job'[q].status \notin Active /\ brief'[q].status \in {"none", "discarded"}
    BY <1>3 DEF PlanSound
  <2>1. CASE q = o
    <3>1. job'[q].status \in {"done", "cancelled"} BY <1>7, <2>1
    <3>2. brief[q].status \in {"none", "planned", "discarded"} BY <1>2, <2>1, WeekBounds DEF Unmade
    <3>. QED BY <1>8, <2>1, <3>1, <3>2 DEF Active
  <2>2. CASE q # o
    <3>1. PlanSound(q) BY DEF WeekSound
    <3>. QED BY <1>1, <1>7, <1>8, <2>2, <3>1 DEF PlanSound
  <2>. QED BY <2>1, <2>2
<1>10. ASSUME NEW q \in Plans PROVE PostSound(q)'
  <2>1. PostSound(q) /\ post'[q] = post[q] /\ belated' = belated BY <1>3 DEF WeekSound
  <2>. QED BY <1>8, <2>1 DEF PostSound, Shown
<1>11. StepsSound'
  <2>1. \A q \in Plans : Begun(q) => Begun(q)' BY <1>8 DEF Begun
  <2>. QED BY <1>3, <2>1, StepsKept DEF WeekSound
<1>12. week'.status = "planning" /\ week'.plan = p BY <1>3
<1>13. TickSound'
  <2>1. tick # NoTick => tick.seen = "failed" /\ tick.verdict \in Verdicts BY <1>2 DEF WeekSound, TickSound
  <2>. QED BY <1>3, <1>12, <2>1 DEF TickSound
<1>14. told' = IF week'.status = "planned" THEN 1 ELSE 0 BY <1>2, <1>3, <1>12 DEF WeekSound
<1>15. brief' \in [Plans -> BriefRow] BY <1>3, <1>8
<1>16. post' \in [Plans -> PostRow] /\ revived' \subseteq Plans /\ belated' \subseteq Plans BY <1>3 DEF WeekSound
<1>17. PagesSound'
  <2>. SUFFICES ASSUME NEW g \in pages PROVE PageSound(g)' BY <1>3 DEF WeekSound, PagesSound
  <2>1. PICK q \in Plans : q = g.plan BY DEF WeekSound, PagesSound, Page
  <2>2. PageSound(g) BY DEF WeekSound, PagesSound
  <2>3. Begun(q) BY <2>1, <2>2 DEF PageSound
  <2>4. brief'[q].rev = brief[q].rev /\ brief'[q].status = brief[q].status BY <1>8, <2>3 DEF Begun
  <2>. QED BY <1>3, <2>1, <2>2, <2>4 DEF PageSound, Begun
<1>. QED BY <1>6, <1>9, <1>10, <1>11, <1>12, <1>13, <1>14, <1>15, <1>16, <1>17 DEF WeekSound

\* A step of the tick: the rows it reads stay.
LEMMA TickStep ==
    ASSUME JobsTyped, WeekHead, WeekSound, SkipWeek \/ AnnounceReads \/ AnnounceWrites
    PROVE  WeekSound'
<1>1. UNCHANGED <<job, brief, post, steps, producer, pages, belated, revived>> /\ week'.plan = week.plan
  BY DEF SkipWeek, AnnounceReads, AnnounceWrites, studioVars, pageVars, WeekHead
<1>7. PagesSound' BY <1>1, SamePages DEF WeekSound
<1>2. \A q \in Plans : PostSound(q)' /\ PlanSound(q)'
  <2>. SUFFICES ASSUME NEW q \in Plans PROVE PostSound(q)' /\ PlanSound(q)' OBVIOUS
  <2>1. PostSound(q) /\ PlanSound(q) BY DEF WeekSound
  <2>. QED BY <1>1, <2>1 DEF PostSound, PlanSound
<1>3. StepsSound'
  <2>1. \A q \in Plans : Begun(q) => Begun(q)' BY <1>1 DEF Begun
  <2>. QED BY <1>1, <2>1, StepsKept DEF WeekSound
<1>4. Carried => Carried' BY <1>1 DEF Carried, Begun
<1>5. /\ told' = IF week'.status = "planned" THEN 1 ELSE 0
      /\ week'.status = "planned" => Carried'
      /\ TickSound'
  <2>1. CASE SkipWeek
    <3>1. week.status = "none" /\ week'.status = "skipped" /\ tick' = tick /\ told' = told
      BY <2>1 DEF SkipWeek, WeekHead
    <3>2. tick = NoTick BY <3>1 DEF WeekSound, TickSound
    <3>. QED BY <3>1, <3>2 DEF WeekSound, TickSound
  <2>2. CASE AnnounceReads
    <3>1. /\ week' = week /\ told' = told /\ week.plan # NoPlan /\ week.status \in {"planning", "failed"}
          /\ tick' = [seen |-> week.status, verdict |-> Verdict]
      BY <2>2 DEF AnnounceReads
    <3>2. Verdict \in Verdicts BY DEF Verdict, Verdicts
    <3>3. Verdict = "ready" => Carried
      <4>1. PICK p \in Plans : p = week.plan BY <3>1 DEF WeekHead
      <4>2. job[p].status \in Active \cup Ended \cup {"none"} BY WeekBounds, JobType
      <4>3. job[p].status # "none" BY <3>1, <4>1 DEF WeekSound
      <4>. SUFFICES ASSUME Verdict = "ready" PROVE Carried OBVIOUS
      <4>4. job[p].status \notin Active \cup {"failed", "cancelled"} BY <4>1 DEF Verdict
      <4>5. job[p].status = "done" BY <4>2, <4>3, <4>4 DEF Ended
      <4>6. brief[p].status \in {"ready", "approved"} BY <4>1, <4>4 DEF Verdict
      <4>. QED BY <3>1, <4>1, <4>5, <4>6 DEF Carried, Begun
    <3>4. /\ tick'.seen \in {"planning", "failed"} /\ tick'.verdict \in Verdicts /\ week'.status = tick'.seen
          /\ tick'.verdict = "ready" => Carried'
      BY <1>4, <3>1, <3>2, <3>3
    <3>5. TickSound' BY <3>4 DEF TickSound
    <3>. QED BY <1>4, <3>1, <3>5 DEF WeekSound
  <2>3. CASE AnnounceWrites
    <3>1. /\ tick.seen \in {"planning", "failed"} /\ tick.verdict \in Verdicts
          /\ tick.verdict = "ready" /\ week.status = tick.seen => Carried
      BY <2>3 DEF AnnounceWrites, WeekSound, TickSound
    <3>2. tick' = NoTick BY <2>3 DEF AnnounceWrites
    <3>3. CASE tick.verdict = "ready" /\ week.status = tick.seen
      <4>1. week'.status = "planned" /\ told' = told + 1 BY <2>3, <3>3 DEF AnnounceWrites, Unmoved, WeekHead
      <4>2. told = 0 BY <3>1, <3>3 DEF WeekSound
      <4>. QED BY <1>4, <3>1, <3>2, <3>3, <4>1, <4>2 DEF TickSound
    <3>4. CASE ~(tick.verdict = "ready" /\ week.status = tick.seen)
      <4>1. told' = told BY <2>3, <3>4 DEF AnnounceWrites, Unmoved
      <4>2. week'.status = week.status \/ (week.status \in {"planning", "failed"} /\ week'.status \in {"planning", "failed"})
        BY <2>3, <3>1, <3>4 DEF AnnounceWrites, Unmoved, WeekHead
      <4>. QED BY <1>4, <3>2, <4>1, <4>2 DEF TickSound, WeekSound
    <3>. QED BY <3>3, <3>4
  <2>. QED BY <2>1, <2>2, <2>3
<1>6. /\ brief' \in [Plans -> BriefRow] /\ post' \in [Plans -> PostRow] /\ revived' \subseteq Plans
      /\ belated' \subseteq Plans
      /\ week'.plan # NoPlan => job'[week'.plan].status # "none"
  BY <1>1 DEF WeekSound
<1>. QED BY <1>2, <1>3, <1>5, <1>6, <1>7 DEF WeekSound

\* EnqueueSteps adds the tasks, or a process has died and they are not there.
LEMMA StepsAdded ==
    ASSUME StepsSound, NEW tasks, tasks \subseteq Step, EnqueueSteps(tasks)
    PROVE  steps \subseteq steps' /\ steps' \subseteq steps \cup tasks /\ steps' \subseteq Step
BY DEF StepsSound, EnqueueSteps

LEMMA FeedStep ==
    ASSUME JobsTyped, WeekHead, WeekSound, Feed
    PROVE  WeekSound'
<1>. DEFINE dropped == {p \in Plans : brief[p].status = "planned" /\ job[p].status = "cancelled"}
            held == {p \in Plans : brief[p].status = "queued" /\ brief[p].held /\ ~BriefBlocked(p)}
            waiting == {p \in Plans : brief[p].status = "planned" /\ job[p].status = "done" /\ ~Blocked(p)}
            started(p) == [brief[p] EXCEPT !.status = "queued", !.held = FALSE, !.old = FALSE]
            tasks(chosen) == {TaskOf(p, brief[p]) : p \in chosen}
<1>1. PICK chosen \in SUBSET (held \cup waiting) :
        /\ brief' = [p \in Plans |-> IF p \in chosen THEN started(p)
                                     ELSE IF p \in dropped THEN [brief[p] EXCEPT !.status = "discarded"]
                                     ELSE brief[p]]
        /\ EnqueueSteps(tasks(chosen))
  BY DEF Feed
<1>2. UNCHANGED <<job, week, post, producer, tick, told, pages, belated, revived>> BY DEF Feed, pageVars
<1>3. ASSUME NEW p \in Plans
      PROVE  /\ brief'[p] \in BriefRow /\ brief'[p].rev = brief[p].rev
             /\ brief'[p].status = brief[p].status
                \/ (p \in chosen /\ brief'[p].status = "queued" /\ brief[p].status \in {"queued", "planned"})
                \/ (brief[p].status = "planned" /\ brief'[p].status = "discarded")
             /\ p \in chosen => brief'[p].status = "queued"
  <2>1. brief[p] \in BriefRow BY DEF WeekSound
  <2>2. p \in chosen => brief[p].status \in {"queued", "planned"} OBVIOUS
  <2>3. p \in dropped => brief[p].status = "planned" OBVIOUS
  <2>4. started(p) \in BriefRow /\ started(p).status = "queued" /\ started(p).rev = brief[p].rev
    BY <2>1 DEF BriefRow, BriefStatuses, Active
  <2>5. /\ [brief[p] EXCEPT !.status = "discarded"] \in BriefRow
        /\ [brief[p] EXCEPT !.status = "discarded"].status = "discarded"
        /\ [brief[p] EXCEPT !.status = "discarded"].rev = brief[p].rev
    BY <2>1 DEF BriefRow, BriefStatuses
  <2>. HIDE DEF started, dropped, held, waiting
  <2>. QED BY <1>1, <2>1, <2>2, <2>3, <2>4, <2>5
<1>4. ASSUME NEW p \in chosen PROVE p \in Plans /\ TaskOf(p, brief[p]) \in Step
  <2>1. p \in Plans OBVIOUS
  <2>2. brief[p] \in BriefRow BY <2>1 DEF WeekSound
  <2>. QED BY <2>1, <2>2 DEF TaskOf, Step, BriefRow
<1>5. brief' \in [Plans -> BriefRow] BY <1>1, <1>3
<1>. HIDE DEF started, dropped, held, waiting
<1>6. Flows
  <2>1. \A p \in Plans : PlanFlows(p) BY <1>2, SameRows
  <2>2. ASSUME NEW p \in Plans PROVE BriefFlows(p)
    <3>1. brief[p].rev \in BriefRevisions /\ brief'[p].rev = brief[p].rev BY <1>3 DEF WeekSound, BriefRow
    <3>2. brief[p].rev <= brief'[p].rev BY <3>1 DEF BriefRevisions
    <3>. QED BY <1>3, <3>2 DEF BriefFlows, Begun, Handed
  <2>. QED BY <2>1, <2>2 DEF Flows
<1>7. ASSUME NEW p \in Plans PROVE PostKept(p)
  <2>1. brief'[p].status \notin Shown \/ (brief'[p].status = brief[p].status /\ brief'[p].rev = brief[p].rev)
    BY <1>3 DEF Shown
  <2>2. post'[p] = post[p] /\ belated' = belated BY <1>2
  <2>. QED BY <2>1, <2>2, PostsKept
<1>8. StepsSound'
  <2>1. tasks(chosen) \subseteq Step BY <1>4
  <2>2. \A t \in tasks(chosen) : t.plan \in chosen BY DEF TaskOf
  <2>3. \A t \in tasks(chosen) : Begun(t.plan)' BY <1>3, <1>4, <2>2 DEF Begun
  <2>. HIDE DEF tasks
  <2>4. steps \subseteq steps' /\ steps' \subseteq steps \cup tasks(chosen) /\ steps' \subseteq Step
    BY <1>1, <2>1, StepsAdded DEF WeekSound
  <2>. QED BY <1>2, <1>6, <2>3, <2>4, SameProducers DEF WeekSound
<1>9. post' \in [Plans -> PostRow] BY <1>2 DEF WeekSound
<1>. QED BY <1>2, <1>5, <1>6, <1>7, <1>8, <1>9, WeekGoesOn

\* A row that a task writes carries a fresh updated_at.
LEMMA MovedRow ==
    ASSUME WeekSound, NEW p \in Plans, NEW fields \in BriefRow
    PROVE  \E row \in BriefRow : /\ Moved(p, fields) = [brief EXCEPT ![p] = row]
                                 /\ row.status = fields.status /\ row.rev = fields.rev
<1>. DEFINE row == [fields EXCEPT !.old = FALSE]
<1>1. row \in BriefRow /\ row.status = fields.status /\ row.rev = fields.rev BY DEF BriefRow
<1>2. Moved(p, fields) = [brief EXCEPT ![p] = row] BY DEF Moved
<1>. HIDE DEF row
<1>. QED BY <1>1, <1>2

\* _fail of a brief that the team has had.
LEMMA BriefFailsMoves ==
    ASSUME WeekSound, NEW p \in Plans, NEW rev, Begun(p), brief' = BriefFails(p, rev), post' = post,
           job' = job, belated' = belated
    PROVE  /\ brief' \in [Plans -> BriefRow] /\ post' \in [Plans -> PostRow] /\ Flows
           /\ \A q \in Plans : PostKept(q)
<1>1. \A q \in Plans : PlanFlows(q) BY SameRows
<1>2. CASE brief[p].rev = rev /\ brief[p].status # "discarded"
  <2>. DEFINE fields == [brief[p] EXCEPT !.status = "failed"]
  <2>1. brief[p] \in BriefRow BY DEF WeekSound
  <2>2. fields \in BriefRow /\ fields.status = "failed" /\ fields.rev = brief[p].rev
    BY <2>1 DEF BriefRow, BriefStatuses
  <2>3. brief' = Moved(p, fields) BY <1>2 DEF BriefFails
  <2>. HIDE DEF fields
  <2>4. PICK row \in BriefRow : /\ brief' = [brief EXCEPT ![p] = row] /\ row.status = "failed"
                                /\ row.rev = brief[p].rev
    BY <2>2, <2>3, MovedRow
  <2>5. row.status \notin Shown /\ row.status \in Handed BY <2>4 DEF Shown, Handed
  <2>. QED BY <1>1, <1>2, <2>4, <2>5, OneBriefMoves DEF Begun
<1>3. CASE ~(brief[p].rev = rev /\ brief[p].status # "discarded")
  <2>1. brief' = brief BY <1>3 DEF BriefFails
  <2>. QED BY <1>1, <2>1, SameWeekRows
<1>. QED BY <1>2, <1>3

\* The step of a worker that is in one.
LEMMA StepOf ==
    ASSUME WeekSound, NEW w \in Workers, Carries(w)
    PROVE  /\ producer[w] \in Producing /\ producer[w].task \in Step /\ producer[w].task \in steps
           /\ producer[w].task.plan \in Plans /\ Begun(producer[w].task.plan)
BY DEF WeekSound, StepsSound, Step

\* The step is over but for its task.
LEMMA TidiesStep ==
    ASSUME WeekSound, Flows, NEW w \in Workers, producer[w].does = "step", Tidies(w),
           steps \subseteq steps', steps' \subseteq Step, \A t \in steps' : t \in steps \/ Begun(t.plan)'
    PROVE  StepsSound'
<1>1. StepsSound /\ Carries(w) BY DEF WeekSound, Carries
<1>. DEFINE next == [producer[w] EXCEPT !.does = "tidying"]
<1>2. producer[w] \in [does : {"step", "tidying"}, task : Step] BY <1>1 DEF StepsSound, Producing, Free
<1>3. next \in [does : {"step", "tidying"}, task : Step] /\ next.does = "tidying" /\ next.task = producer[w].task
  BY <1>2
<1>4. producer' = [producer EXCEPT ![w] = next] BY <1>1 DEF Tidies, StepsSound
<1>. HIDE DEF next
<1>5. next \in Producing BY <1>3 DEF Producing
<1>6. next.task \in steps BY <1>1, <1>3 DEF StepsSound
<1>. QED BY <1>1, <1>3, <1>4, <1>5, <1>6, OneProduces

LEMMA StartStepMoves ==
    ASSUME JobsTyped, WeekHead, WeekSound, NEW w \in Workers, NEW t \in steps, StartStep(w, t)
    PROVE  WeekSound'
<1>. DEFINE p == t.plan
            b == brief[p]
            due == b.rev = t.rev /\ b.stage = t.stage /\ b.status = "queued"
            works == due /\ ~BriefBlocked(p)
            next == [does |-> IF works THEN "step" ELSE "tidying", task |-> t]
<1>1. t \in Step /\ p \in Plans /\ Begun(p) BY DEF WeekSound, StepsSound, Step
<1>2. b \in BriefRow BY <1>1 DEF WeekSound
<1>3. /\ producer[w] = Free /\ ~Taken(t) /\ producer' = [producer EXCEPT ![w] = next]
      /\ UNCHANGED <<job, week, post, steps, tick, told, pages, belated, revived>>
      /\ brief' = IF ~due THEN brief
                  ELSE IF job[p].status = "cancelled" THEN Moved(p, [b EXCEPT !.status = "discarded"])
                  ELSE IF works THEN Moved(p, [b EXCEPT !.status = "working", !.held = FALSE])
                  ELSE Moved(p, [b EXCEPT !.held = TRUE])
  BY DEF StartStep, studioVars, pageVars
<1>4. \A q \in Plans : PlanFlows(q) BY <1>3, SameRows
<1>5. /\ brief' \in [Plans -> BriefRow] /\ post' \in [Plans -> PostRow] /\ Flows
      /\ \A q \in Plans : PostKept(q)
  <2>1. CASE ~due BY <1>3, <1>4, <2>1, SameWeekRows
  <2>2. CASE due
    <3>1. ASSUME NEW fields \in BriefRow, fields.status \in {"discarded", "working", "queued"}, fields.rev = b.rev,
                 brief' = Moved(p, fields)
          PROVE  /\ brief' \in [Plans -> BriefRow] /\ post' \in [Plans -> PostRow] /\ Flows
                 /\ \A q \in Plans : PostKept(q)
      <4>1. PICK row \in BriefRow : /\ brief' = [brief EXCEPT ![p] = row] /\ row.status = fields.status
                                    /\ row.rev = fields.rev
        BY <1>1, <3>1, MovedRow
      <4>3. row.rev = brief[p].rev BY <3>1, <4>1
      <4>2. brief[p].status \notin {"discarded", "none"} \cup Handed /\ row.status \notin Shown
        BY <2>2, <3>1, <4>1 DEF Handed, Shown
      <4>. QED BY <1>1, <1>3, <1>4, <3>1, <4>1, <4>2, <4>3, OneBriefMoves
    <3>2. /\ [b EXCEPT !.status = "discarded"] \in BriefRow /\ [b EXCEPT !.status = "discarded"].status = "discarded"
          /\ [b EXCEPT !.status = "working", !.held = FALSE] \in BriefRow
          /\ [b EXCEPT !.status = "working", !.held = FALSE].status = "working"
          /\ [b EXCEPT !.held = TRUE] \in BriefRow /\ [b EXCEPT !.held = TRUE].status = b.status
          /\ [b EXCEPT !.status = "discarded"].rev = b.rev /\ [b EXCEPT !.held = TRUE].rev = b.rev
          /\ [b EXCEPT !.status = "working", !.held = FALSE].rev = b.rev
      BY <1>2 DEF BriefRow, BriefStatuses, Active
    <3>. QED BY <1>3, <2>2, <3>1, <3>2
  <2>. QED BY <2>1, <2>2
<1>6. StepsSound'
  <2>1. next.does \in {"step", "tidying"} /\ next.task = t OBVIOUS
  <2>. HIDE DEF works
  <2>2. next \in Producing BY <1>1 DEF Producing
  <2>. HIDE DEF next
  <2>3. StepsSound /\ steps' \subseteq Step /\ steps \subseteq steps' BY <1>3 DEF WeekSound, StepsSound
  <2>. QED BY <1>3, <1>5, <2>1, <2>2, <2>3, OneProduces
<1>. QED BY <1>3, <1>5, <1>6, WeekGoesOn

LEMMA PassesOnStep ==
    ASSUME JobsTyped, WeekHead, WeekSound, NEW w \in Workers, StepPassesOn(w)
    PROVE  WeekSound'
<1>1. /\ producer[w].does = "step" /\ Tidies(w) /\ UNCHANGED <<job, week, post, tick, told, pages, belated, revived>>
  BY DEF StepPassesOn, pageVars
<1>2. Carries(w) BY <1>1 DEF Carries
<1>7. PICK t \in Step : t = producer[w].task BY <1>2, StepOf
<1>8. PICK p \in Plans : p = t.plan BY DEF Step
<1>3. Begun(p) BY <1>2, <1>7, <1>8, StepOf
<1>4. \A q \in Plans : PlanFlows(q) BY <1>1, SameRows
<1>5. CASE ~StepStillMine(t)
  <2>1. brief' = brief /\ steps' = steps BY <1>5, <1>7 DEF StepPassesOn
  <2>2. /\ brief' \in [Plans -> BriefRow] /\ post' \in [Plans -> PostRow] /\ Flows
        /\ \A q \in Plans : PostKept(q)
    BY <1>1, <1>4, <2>1, SameWeekRows
  <2>3. steps \subseteq steps' /\ steps' \subseteq Step BY <2>1 DEF WeekSound, StepsSound
  <2>4. StepsSound' BY <1>1, <2>1, <2>2, <2>3, TidiesStep
  <2>. QED BY <1>1, <2>2, <2>4, WeekGoesOn
<1>6. CASE StepStillMine(t)
  <2>. DEFINE fields == [brief[p] EXCEPT !.status = "queued", !.stage = "handoff"]
              tasks == {[t EXCEPT !.stage = "handoff"]}
  <2>1. brief' = Moved(p, fields) /\ EnqueueSteps(tasks) BY <1>6, <1>7, <1>8 DEF StepPassesOn
  <2>2. brief[p] \in BriefRow BY <1>3 DEF WeekSound
  <2>3. fields \in BriefRow /\ fields.status = "queued" /\ fields.rev = brief[p].rev
    BY <2>2 DEF BriefRow, BriefStatuses, Active
  <2>4. tasks \subseteq Step /\ \A s \in tasks : s.plan = p BY <1>8 DEF Step
  <2>. HIDE DEF fields, tasks
  <2>5. PICK row \in BriefRow : /\ brief' = [brief EXCEPT ![p] = row] /\ row.status = "queued"
                                /\ row.rev = brief[p].rev
    BY <1>3, <2>1, <2>3, MovedRow
  <2>12. brief[p].status = "working" BY <1>6, <1>8 DEF StepStillMine
  <2>6. brief[p].status \notin {"none", "discarded"} \cup Handed /\ row.status \notin Shown
    BY <2>5, <2>12 DEF Handed, Shown
  <2>7. /\ brief' \in [Plans -> BriefRow] /\ post' \in [Plans -> PostRow] /\ Flows
        /\ \A q \in Plans : PostKept(q)
    BY <1>1, <1>3, <1>4, <2>5, <2>6, OneBriefMoves
  <2>8. Begun(p)' BY <1>3, <2>7, BegunStays
  <2>9. steps \subseteq steps' /\ steps' \subseteq steps \cup tasks /\ steps' \subseteq Step
    BY <2>1, <2>4, StepsAdded DEF WeekSound
  <2>10. \A s \in steps' : s \in steps \/ Begun(s.plan)'
    <3>. SUFFICES ASSUME NEW s \in steps', s \notin steps PROVE Begun(s.plan)' OBVIOUS
    <3>. QED BY <2>4, <2>8, <2>9
  <2>11. StepsSound' BY <1>1, <2>7, <2>9, <2>10, TidiesStep
  <2>. QED BY <1>1, <2>7, <2>11, WeekGoesOn
<1>. QED BY <1>5, <1>6

LEMMA StepFailsMoves ==
    ASSUME JobsTyped, WeekHead, WeekSound, NEW w \in Workers, StepFails(w)
    PROVE  WeekSound'
<1>1. /\ producer[w].does = "step" /\ Tidies(w) /\ UNCHANGED <<job, week, post, steps, tick, told, pages, belated, revived>>
      /\ brief' = BriefFails(producer[w].task.plan, producer[w].task.rev)
  BY DEF StepFails, studioVars, pageVars
<1>2. producer[w].task.plan \in Plans /\ Begun(producer[w].task.plan) BY <1>1, StepOf DEF Carries
<1>3. /\ brief' \in [Plans -> BriefRow] /\ post' \in [Plans -> PostRow] /\ Flows
      /\ \A q \in Plans : PostKept(q)
  BY <1>1, <1>2, BriefFailsMoves
<1>4. steps \subseteq steps' /\ steps' \subseteq Step BY <1>1 DEF WeekSound, StepsSound
<1>5. StepsSound' BY <1>1, <1>3, <1>4, TidiesStep
<1>. QED BY <1>1, <1>3, <1>5, WeekGoesOn

\* The post shows the revision that was asked for last, and nothing approved is
\* written over.
LEMMA HandOffStep ==
    ASSUME JobsTyped, WeekHead, WeekSound, NEW w \in Workers, HandOff(w)
    PROVE  WeekSound'
<1>1. producer[w].does = "step" /\ Tidies(w) /\ UNCHANGED <<job, week, steps, tick, told, pages, belated, revived>>
  BY DEF HandOff, studioVars, pageVars
<1>7. PICK t \in Step : t = producer[w].task BY <1>1, StepOf DEF Carries
<1>8. PICK p \in Plans : p = t.plan BY DEF Step
<1>2. Begun(p) BY <1>1, <1>7, <1>8, StepOf DEF Carries
<1>3. \A q \in Plans : PlanFlows(q) BY <1>1, SameRows
<1>4. /\ brief' \in [Plans -> BriefRow] /\ post' \in [Plans -> PostRow] /\ Flows
      /\ \A q \in Plans : PostKept(q)
  <2>1. CASE ~StepStillMine(t)
    <3>1. brief' = brief /\ post' = post BY <1>7, <1>8, <2>1 DEF HandOff
    <3>. QED BY <1>1, <1>3, <3>1, SameWeekRows
  <2>2. CASE StepStillMine(t) /\ OutOfReach(p)
    <3>1. brief' = BriefFails(p, t.rev) /\ post' = post BY <1>7, <1>8, <2>2 DEF HandOff
    <3>. QED BY <1>1, <1>2, <3>1, BriefFailsMoves
  <2>3. CASE StepStillMine(t) /\ ~OutOfReach(p)
    <3>. DEFINE fields == [brief[p] EXCEPT !.status = "ready"]
                shown == [post[p] EXCEPT !.status = "review", !.shows = t.rev]
    <3>1. brief' = Moved(p, fields) BY <1>7, <1>8, <2>3 DEF HandOff
    <3>2. brief[p] \in BriefRow /\ post[p] \in PostRow BY <1>2 DEF WeekSound
    <3>3. post' = [post EXCEPT ![p] = shown] BY <1>7, <1>8, <2>3 DEF HandOff, WeekSound
    <3>4. fields \in BriefRow /\ fields.status = "ready" /\ fields.rev = brief[p].rev
      BY <3>2 DEF BriefRow, BriefStatuses
    <3>5. t.rev \in 0..MaxBriefRevision BY <1>2, WeekBounds DEF Step, BriefRevisions
    <3>6. /\ shown \in PostRow /\ shown.status = "review" /\ shown.shows = t.rev /\ shown.approved = post[p].approved
      BY <3>2, <3>5 DEF PostRow
    <3>. HIDE DEF fields, shown
    <3>7. PICK row \in BriefRow : brief' = [brief EXCEPT ![p] = row] /\ row.status = "ready" /\ row.rev = brief[p].rev
      BY <1>2, <3>1, <3>4, MovedRow
    <3>8. brief[p].status = "working" /\ brief[p].rev = t.rev BY <1>8, <2>3 DEF StepStillMine
    <3>13. brief[p].status \notin Handed /\ brief[p].rev <= row.rev
      BY <3>2, <3>7, <3>8 DEF Handed, BriefRow, BriefRevisions
    <3>9. /\ brief' \in [Plans -> BriefRow] /\ brief'[p] = row /\ \A q \in Plans : q # p => brief'[q] = brief[q]
          /\ Flows
      BY <1>2, <1>3, <3>7, <3>8, <3>13, OneBrief DEF WeekSound
    <3>10. post' \in [Plans -> PostRow] /\ post'[p] = shown /\ \A q \in Plans : q # p => post'[q] = post[q]
      BY <1>2, <3>3, <3>6 DEF WeekSound
    <3>11. post[p].approved = 0 BY <1>2, <2>3 DEF WeekSound, PostSound, OutOfReach
    <3>12. ASSUME NEW q \in Plans PROVE PostKept(q)
      <4>1. CASE q = p
        <5>1. PostSound(p)' BY <3>6, <3>7, <3>8, <3>9, <3>10, <3>11 DEF PostSound
        <5>. QED BY <3>13, <4>1, <5>1 DEF PostKept
      <4>2. CASE q # p
        <5>1. brief'[q] = brief[q] /\ post'[q] = post[q] BY <3>9, <3>10, <4>2
        <5>. QED BY <1>1, <5>1, PostsKept
      <4>. QED BY <4>1, <4>2
    <3>. QED BY <3>9, <3>10, <3>12
  <2>. QED BY <2>1, <2>2, <2>3
<1>5. steps \subseteq steps' /\ steps' \subseteq Step BY <1>1 DEF WeekSound, StepsSound
<1>6. StepsSound' BY <1>1, <1>4, <1>5, TidiesStep
<1>. QED BY <1>1, <1>4, <1>6, WeekGoesOn

\* What a step of the team's workers leaves as it was.
LEMMA NothingMoves ==
    ASSUME WeekSound, UNCHANGED <<job, brief, post, belated>>
    PROVE  /\ brief' \in [Plans -> BriefRow] /\ post' \in [Plans -> PostRow] /\ Flows
           /\ \A q \in Plans : PostKept(q)
<1>1. \A q \in Plans : PlanFlows(q) BY SameRows
<1>. QED BY <1>1, SameWeekRows

LEMMA FreeProducing == Free \in Producing /\ Free.does = "nothing"
BY DEF Free, Producing

LEMMA StepEndsStep ==
    ASSUME WeekHead, WeekSound, NEW w \in Workers, StepEnds(w) \/ ProducerDies(w)
    PROVE  WeekSound'
<1>1. /\ UNCHANGED <<job, week, brief, post, tick, told, pages, belated, revived>>
      /\ producer' = [producer EXCEPT ![w] = Free]
      /\ steps' = steps \/ (Carries(w) /\ steps' = steps \ {producer[w].task})
  BY DEF StepEnds, ProducerDies, studioVars, pageVars, Carries
<1>2. /\ brief' \in [Plans -> BriefRow] /\ post' \in [Plans -> PostRow] /\ Flows
      /\ \A q \in Plans : PostKept(q)
  BY <1>1, NothingMoves
<1>3. steps' \subseteq Step /\ steps' \subseteq steps BY <1>1 DEF WeekSound, StepsSound
<1>4. \A t \in steps : t \in steps' \/ (Carries(w) /\ t = producer[w].task) BY <1>1
<1>5. StepsSound BY DEF WeekSound
<1>6. \A t \in steps' : t \in steps \/ Begun(t.plan)' BY <1>3
<1>7. Free.does \notin {"step", "tidying"} /\ Free.does # "sweep" BY FreeProducing
<1>8. StepsSound' BY <1>1, <1>2, <1>3, <1>4, <1>5, <1>6, <1>7, FreeProducing, OneProduces
<1>. QED BY <1>1, <1>2, <1>8, WeekGoesOn

\* The sweep lists briefs that the team has, and fails them.
LEMMA SweepBriefsStep ==
    ASSUME WeekHead, WeekSound, NEW w \in Workers, SweepBriefs(w)
    PROVE  WeekSound'
<1>. DEFINE stuck == {p \in Plans : /\ brief[p].status \in Active /\ brief[p].old /\ ~brief[p].held
                                    /\ brief[p].status = "queued" => TaskOf(p, brief[p]) \notin steps}
            seen == {<<p, brief[p].rev>> : p \in stuck}
            next == [does |-> "sweep", seen |-> seen]
<1>1. /\ UNCHANGED <<job, week, brief, post, steps, tick, told, pages, belated, revived>>
      /\ producer' = [producer EXCEPT ![w] = next] /\ producer[w] = Free
  BY DEF SweepBriefs, studioVars, pageVars
<1>2. \A p \in stuck : p \in Plans /\ Begun(p) BY DEF Begun, Active
<1>3. \A p \in stuck : brief[p].rev \in BriefRevisions BY DEF WeekSound, BriefRow
<1>. HIDE DEF stuck
<1>4. seen \subseteq Plans \X BriefRevisions BY <1>2, <1>3
<1>5. \A s \in seen : Begun(s[1]) BY <1>2
<1>. HIDE DEF seen
<1>6. next \in Producing /\ next.does = "sweep" /\ next.seen = seen BY <1>4 DEF Producing
<1>. HIDE DEF next
<1>7. /\ brief' \in [Plans -> BriefRow] /\ post' \in [Plans -> PostRow] /\ Flows
      /\ \A q \in Plans : PostKept(q)
  BY <1>1, NothingMoves
<1>8. StepsSound /\ steps' \subseteq Step BY <1>1 DEF WeekSound, StepsSound
<1>9. StepsSound' BY <1>1, <1>5, <1>6, <1>7, <1>8, OneProduces
<1>. QED BY <1>1, <1>7, <1>9, WeekGoesOn

LEMMA SweepBriefStep ==
    ASSUME WeekHead, WeekSound, NEW w \in Workers, SweepBrief(w)
    PROVE  WeekSound'
<1>1. producer[w].does = "sweep" /\ UNCHANGED <<job, week, post, steps, tick, told, pages, belated, revived>>
  BY DEF SweepBrief, studioVars, pageVars
<1>2. producer[w] \in [does : {"sweep"}, seen : SUBSET (Plans \X BriefRevisions)]
  BY <1>1 DEF WeekSound, StepsSound, Producing, Free
<1>3. PICK seen \in SUBSET (Plans \X BriefRevisions) : producer[w] = [does |-> "sweep", seen |-> seen] BY <1>2
<1>5. producer[w].seen = seen BY <1>3
<1>. DEFINE rest(s) == producer[w].seen \ {s}
<1>16. PICK s \in producer[w].seen :
         /\ brief' = BriefFails(s[1], s[2])
         /\ producer' = [producer EXCEPT ![w] = IF rest(s) = {} THEN Free ELSE [does |-> "sweep", seen |-> rest(s)]]
  BY DEF SweepBrief
<1>4. s \in seen BY <1>5, <1>16
<1>6. \A x \in seen : Begun(x[1]) BY <1>1, <1>5 DEF WeekSound, StepsSound
<1>7. PICK p \in Plans : p = s[1] BY <1>3, <1>4
<1>8. Begun(p) BY <1>4, <1>6, <1>7
<1>9. brief' = BriefFails(p, s[2]) BY <1>16, <1>7
<1>10. /\ brief' \in [Plans -> BriefRow] /\ post' \in [Plans -> PostRow] /\ Flows
       /\ \A q \in Plans : PostKept(q)
  BY <1>1, <1>8, <1>9, BriefFailsMoves
<1>. DEFINE next == IF rest(s) = {} THEN Free ELSE [does |-> "sweep", seen |-> rest(s)]
<1>17. producer' = [producer EXCEPT ![w] = next] BY <1>16
<1>18. rest(s) \subseteq seen BY <1>5
<1>. HIDE DEF rest
<1>11. next \in Producing /\ (next = Free \/ (next.does = "sweep" /\ next.seen \subseteq seen))
  BY <1>18, FreeProducing DEF Producing
<1>. HIDE DEF next
<1>12. next.does \notin {"step", "tidying"} BY <1>11, FreeProducing
<1>13. next.does = "sweep" => \A x \in next.seen : Begun(x[1]) BY <1>6, <1>11, FreeProducing
<1>14. StepsSound /\ steps' \subseteq Step BY <1>1 DEF WeekSound, StepsSound
<1>15. StepsSound' BY <1>1, <1>10, <1>11, <1>12, <1>13, <1>14, <1>17, OneProduces
<1>. QED BY <1>1, <1>10, <1>15, WeekGoesOn

\* A brief that is asked for again is queued in a new revision; its task may be
\* lost, the rest stays.
LEMMA AgainMoves ==
    ASSUME WeekSound, NEW p \in Plans, NEW stage \in {"make", "handoff"}, Again(p, stage),
           brief[p].status \notin {"none", "discarded"}, UNCHANGED <<job, producer>>
    PROVE  /\ brief' \in [Plans -> BriefRow] /\ Flows /\ StepsSound'
           /\ brief'[p].status = "queued" /\ \A q \in Plans : q # p => brief'[q] = brief[q]
           /\ brief'[p].rev # brief[p].rev /\ belated' = belated \ {p}
<1>. DEFINE b == [status |-> "queued", rev |-> brief[p].rev + 1, stage |-> stage, held |-> FALSE, old |-> FALSE]
<1>1. brief[p].rev < MaxBriefRevision /\ brief' = [brief EXCEPT ![p] = b] /\ EnqueueSteps({TaskOf(p, b)})
  BY DEF Again
<1>2. brief[p].rev \in 1..MaxBriefRevision BY DEF WeekSound, BriefRow, BriefRevisions
<1>3. brief[p].rev + 1 \in BriefRevisions BY <1>1, <1>2, WeekBounds DEF BriefRevisions
<1>. DEFINE rev == brief[p].rev + 1
<1>. HIDE DEF rev
<1>4. b \in BriefRow /\ b.status = "queued" /\ b.rev = rev BY <1>3 DEF BriefRow, BriefStatuses, Active, rev
<1>13. brief[p].rev <= rev /\ rev # brief[p].rev BY <1>2, WeekBounds DEF rev
<1>14. belated' = belated \ {p} BY DEF Again
<1>5. TaskOf(p, b) \in Step /\ TaskOf(p, b).plan = p BY <1>3 DEF TaskOf, Step
<1>. HIDE DEF b
<1>6. /\ brief' \in [Plans -> BriefRow] /\ brief'[p] = b /\ \A q \in Plans : q # p => brief'[q] = brief[q]
      /\ Flows
  <2>1. \A q \in Plans : PlanFlows(q) BY SameRows
  <2>. QED BY <1>1, <1>4, <1>13, <2>1, OneBrief DEF WeekSound
<1>7. Begun(p)' BY <1>4, <1>6 DEF Begun
<1>8. {TaskOf(p, b)} \subseteq Step BY <1>5
<1>9. StepsSound BY DEF WeekSound
<1>10. steps \subseteq steps' /\ steps' \subseteq steps \cup {TaskOf(p, b)} /\ steps' \subseteq Step
  BY <1>1, <1>8, <1>9, StepsAdded
<1>11. \A t \in steps' : t \in steps \/ Begun(t.plan)' BY <1>5, <1>7, <1>10
<1>12. StepsSound' BY <1>6, <1>9, <1>10, <1>11, SameProducers
<1>. QED BY <1>4, <1>6, <1>12, <1>13, <1>14

LEMMA AskAgainStep ==
    ASSUME WeekHead, WeekSound, NEW p \in Plans, RequestChanges(p) \/ RetryBrief(p)
    PROVE  WeekSound'
<1>1. /\ UNCHANGED <<job, week, producer, tick, told, pages, revived>> /\ post[p].status # "approved"
      /\ brief[p].status \notin {"none", "discarded"}
  BY DEF RequestChanges, RetryBrief
<1>2. brief[p] \in BriefRow /\ post[p] \in PostRow BY DEF WeekSound
<1>3. Again(p, "make") \/ Again(p, brief[p].stage) BY DEF RequestChanges, RetryBrief
<1>4. brief[p].stage \in {"make", "handoff"} BY <1>2 DEF BriefRow
<1>5. /\ brief' \in [Plans -> BriefRow] /\ Flows /\ StepsSound'
      /\ brief'[p].status = "queued" /\ \A q \in Plans : q # p => brief'[q] = brief[q]
      /\ brief'[p].rev # brief[p].rev /\ belated' = belated \ {p}
  <2>1. PICK stage \in {"make", "handoff"} : Again(p, stage) BY <1>3, <1>4
  <2>. QED BY <1>1, <2>1, AgainMoves
<1>6. PICK row \in PostRow : post' = [post EXCEPT ![p] = row] /\ row.approved = post[p].approved
  <2>1. CASE RetryBrief(p)
    <3>1. post' = [post EXCEPT ![p] = post[p]] BY <2>1 DEF RetryBrief, WeekSound
    <3>. QED BY <1>2, <3>1
  <2>2. CASE RequestChanges(p)
    <3>. DEFINE row == [post[p] EXCEPT !.status = IF @ = "review" THEN "changes" ELSE @]
    <3>1. row \in PostRow /\ row.approved = post[p].approved BY <1>2 DEF PostRow
    <3>2. post' = [post EXCEPT ![p] = row] BY <2>2 DEF RequestChanges, WeekSound
    <3>. HIDE DEF row
    <3>. QED BY <3>1, <3>2
  <2>. QED BY <2>1, <2>2
<1>7. post' \in [Plans -> PostRow] /\ post'[p] = row /\ \A q \in Plans : q # p => post'[q] = post[q]
  BY <1>6 DEF WeekSound
<1>8. post[p].approved = 0 BY <1>1 DEF WeekSound, PostSound
<1>9. ASSUME NEW q \in Plans PROVE PostKept(q)
  <2>1. CASE q = p
    <3>1. PostSound(p)' BY <1>5, <1>6, <1>7, <1>8 DEF PostSound, Shown
    <3>. QED BY <1>5, <2>1, <3>1 DEF PostKept
  <2>2. CASE q # p
    <3>1. brief'[q] = brief[q] /\ post'[q] = post[q] BY <1>5, <1>7, <2>2
    <3>2. q \in belated' <=> q \in belated BY <1>5, <2>2
    <3>. QED BY <3>1, <3>2, PostsKept
  <2>. QED BY <2>1, <2>2
<1>. QED BY <1>1, <1>5, <1>7, <1>9, WeekGoesOn

\* What people do to the brief and its post besides.
LEMMA PersonStep ==
    ASSUME WeekHead, WeekSound, NEW p \in Plans,
           DiscardBrief(p) \/ ApprovePost(p) \/ SendBack(p) \/ BriefAges(p)
    PROVE  WeekSound'
<1>1. /\ UNCHANGED <<job, week, steps, producer, tick, told, pages, revived>>
      /\ belated' = belated \/ (DiscardBrief(p) /\ belated' = belated \ {p})
  BY DEF DiscardBrief, ApprovePost, SendBack, BriefAges, studioVars, pageVars
<1>2. brief[p] \in BriefRow /\ post[p] \in PostRow /\ PostSound(p) BY DEF WeekSound
<1>3. \A q \in Plans : PlanFlows(q) BY <1>1, SameRows
<1>4. ASSUME NEW row \in BriefRow, NEW shown \in PostRow,
             brief' = [brief EXCEPT ![p] = row], post' = [post EXCEPT ![p] = shown], row.rev = brief[p].rev,
             \/ row.status = "discarded" /\ brief[p].status # "none"
             \/ /\ row.status = brief[p].status /\ belated' = belated
                /\ p \notin belated /\ row.status \in Shown => shown.shows = row.rev
                /\ p \notin belated /\ row.status = "approved" => shown.status \in Granted
                /\ post[p].status \in Granted => shown.status \in Granted,
             shown.approved # 0 => shown.status = "approved" /\ shown.shows = shown.approved
      PROVE  WeekSound'
  <2>5. brief[p].rev <= row.rev /\ (brief[p].status \in Handed => row.status \in Handed)
    BY <1>4 DEF BriefRow, BriefRevisions, Handed
  <2>1. /\ brief' \in [Plans -> BriefRow] /\ brief'[p] = row /\ \A q \in Plans : q # p => brief'[q] = brief[q]
        /\ Flows
    BY <1>3, <1>4, <2>5, OneBrief DEF WeekSound, Begun
  <2>2. post' \in [Plans -> PostRow] /\ post'[p] = shown /\ \A q \in Plans : q # p => post'[q] = post[q]
    BY <1>4 DEF WeekSound
  <2>3. ASSUME NEW q \in Plans PROVE PostKept(q)
    <3>1. CASE q = p
      <4>1. CASE row.status = "discarded"
        <5>1. PostSound(p)' BY <1>4, <2>1, <2>2, <4>1 DEF PostSound, Shown
        <5>. QED BY <2>1, <3>1, <4>1, <5>1 DEF PostKept, Shown
      <4>2. CASE row.status # "discarded"
        <5>1. PostSound(p)' BY <1>4, <2>1, <2>2, <4>2 DEF PostSound
        <5>. QED BY <1>4, <2>1, <2>2, <3>1, <4>2, <5>1 DEF PostKept
      <4>. QED BY <4>1, <4>2
    <3>2. CASE q # p
      <4>1. brief'[q] = brief[q] /\ post'[q] = post[q] /\ (q \in belated' <=> q \in belated)
        BY <1>1, <2>1, <2>2, <3>2
      <4>. QED BY <4>1, PostsKept
    <3>. QED BY <3>1, <3>2
  <2>4. StepsSound' BY <1>1, <2>1, BegunStays, StepsKept DEF WeekSound
  <2>. QED BY <1>1, <2>1, <2>2, <2>3, <2>4, WeekGoesOn
<1>5. brief = [brief EXCEPT ![p] = brief[p]] /\ post = [post EXCEPT ![p] = post[p]] BY DEF WeekSound
<1>6. CASE DiscardBrief(p)
  <2>. DEFINE row == [brief[p] EXCEPT !.status = "discarded", !.old = FALSE]
  <2>1. row \in BriefRow /\ row.status = "discarded" /\ row.rev = brief[p].rev BY <1>2 DEF BriefRow, BriefStatuses
  <2>2. brief' = [brief EXCEPT ![p] = row] /\ post' = [post EXCEPT ![p] = NoPost] /\ brief[p].status # "none"
    BY <1>6 DEF DiscardBrief, WeekSound
  <2>3. NoPost \in PostRow /\ NoPost.approved = 0 BY WeekBounds DEF NoPost, PostRow
  <2>. HIDE DEF row
  <2>. QED BY <1>4, <2>1, <2>2, <2>3
<1>7. CASE ApprovePost(p)
  <2>. DEFINE shown == [post[p] EXCEPT !.status = "approved", !.approved = post[p].shows]
  <2>1. shown \in PostRow /\ shown.status = "approved" /\ shown.shows = shown.approved /\ shown.shows = post[p].shows
    BY <1>2 DEF PostRow
  <2>2. brief' = brief /\ post' = [post EXCEPT ![p] = shown] /\ belated' = belated
    BY <1>7 DEF ApprovePost, WeekSound, pageVars
  <2>. HIDE DEF shown
  <2>. QED BY <1>2, <1>4, <1>5, <2>1, <2>2 DEF PostSound, Granted
<1>8. CASE SendBack(p)
  <2>. DEFINE shown == [post[p] EXCEPT !.status = "changes", !.approved = 0]
  <2>3. 0 \in 0..MaxBriefRevision BY WeekBounds
  <2>1. shown \in PostRow /\ shown.approved = 0 /\ shown.shows = post[p].shows /\ shown.status = "changes"
    BY <1>2, <2>3 DEF PostRow
  <2>2. brief' = brief /\ post' = [post EXCEPT ![p] = shown] /\ belated' = belated
    BY <1>8 DEF SendBack, WeekSound, pageVars
  <2>. HIDE DEF shown
  <2>. QED BY <1>2, <1>4, <1>5, <2>1, <2>2 DEF PostSound, Granted
<1>10. CASE BriefAges(p)
  <2>. DEFINE row == [brief[p] EXCEPT !.old = TRUE]
  <2>1. row \in BriefRow /\ row.status = brief[p].status /\ row.rev = brief[p].rev BY <1>2 DEF BriefRow
  <2>2. brief' = [brief EXCEPT ![p] = row] /\ post' = post /\ belated' = belated
    BY <1>10 DEF BriefAges, WeekSound, pageVars
  <2>. HIDE DEF row
  <2>. QED BY <1>2, <1>4, <1>5, <2>1, <2>2 DEF PostSound
<1>. QED BY <1>6, <1>7, <1>8, <1>10

\* A page takes a copy of a brief, or finds its post approved.
LEMMA PageLooks ==
    ASSUME WeekHead, WeekSound,
           \/ \E p \in Plans : OpenBrief(p)
           \/ \E g \in pages : FindApproved(g)
    PROVE  WeekSound'
<1>1. UNCHANGED <<job, week, brief, post, steps, producer, tick, told, belated, revived>>
  BY DEF OpenBrief, FindApproved, studioVars
<1>2. PICK p \in Plans, page \in Page :
        /\ pages' \subseteq pages \cup {page} /\ page.plan = p
        /\ \/ page.rev = brief[p].rev /\ page.saw # "approved" /\ brief[p].status \in {"ready", "approved"}
           \/ \E g \in pages : page.rev = g.rev /\ g.plan = p /\ post[p].status = "approved"
  <2>1. ASSUME NEW p \in Plans, OpenBrief(p)
        PROVE  \E page \in Page : /\ pages' \subseteq pages \cup {page} /\ page.plan = p /\ page.rev = brief[p].rev
                                  /\ page.saw # "approved" /\ brief[p].status \in {"ready", "approved"}
    <3>1. PICK saw \in {"ready", "sent_back"} :
            /\ brief[p].status \in {"ready", "approved"}
            /\ pages' = pages \cup {[plan |-> p, rev |-> brief[p].rev, saw |-> saw]}
      BY <2>1 DEF OpenBrief
    <3>2. [plan |-> p, rev |-> brief[p].rev, saw |-> saw] \in Page BY DEF WeekSound, BriefRow, Page
    <3>. QED BY <3>1, <3>2
  <2>2. ASSUME NEW g \in pages, FindApproved(g)
        PROVE  \E page \in Page : /\ pages' \subseteq pages \cup {page} /\ page.plan = g.plan /\ page.rev = g.rev
                                  /\ post[g.plan].status = "approved"
    <3>. DEFINE page == [g EXCEPT !.saw = "approved"]
    <3>1. g \in Page BY DEF WeekSound, PagesSound
    <3>2. page \in Page /\ page.plan = g.plan /\ page.rev = g.rev BY <3>1 DEF Page
    <3>3. pages' \subseteq pages \cup {page} /\ post[g.plan].status = "approved" BY <2>2 DEF FindApproved
    <3>. HIDE DEF page
    <3>. QED BY <3>2, <3>3
  <2>3. \A g \in pages : g.plan \in Plans BY DEF WeekSound, PagesSound, Page
  <2>. QED BY <2>1, <2>2, <2>3
<1>3. PagesSound'
  <2>1. PageSound(page)
    <3>1. CASE page.rev = brief[p].rev /\ page.saw # "approved" /\ brief[p].status \in {"ready", "approved"}
      <4>1. brief[p].rev <= brief[p].rev BY DEF WeekSound, BriefRow, BriefRevisions
      <4>. QED BY <1>2, <3>1, <4>1 DEF PageSound, Begun, Handed
    <3>2. CASE \E g \in pages : page.rev = g.rev /\ g.plan = p /\ post[p].status = "approved"
      <4>1. PICK g \in pages : page.rev = g.rev /\ g.plan = p /\ post[p].status = "approved" BY <3>2
      <4>2. PageSound(g) BY DEF WeekSound, PagesSound
      <4>. QED BY <1>2, <4>1, <4>2 DEF PageSound, Granted
    <3>. QED BY <1>2, <3>1, <3>2
  <2>2. pages' \subseteq Page /\ \A g \in pages' : PageSound(g)
    BY <1>2, <2>1 DEF WeekSound, PagesSound
  <2>3. ASSUME NEW g \in pages' PROVE PageSound(g)' BY <1>1, <2>2 DEF PageSound, Begun
  <2>. QED BY <2>2, <2>3 DEF PagesSound
<1>4. /\ brief' \in [Plans -> BriefRow] /\ post' \in [Plans -> PostRow] /\ Flows
      /\ \A q \in Plans : PostSound(q)'
  BY <1>1, NothingMoves DEF PostKept
<1>5. StepsSound' BY <1>1, <1>4, BegunStays, StepsKept DEF WeekSound
<1>6. revived \subseteq revived' /\ revived' \subseteq Plans /\ belated' \subseteq Plans BY <1>1 DEF WeekSound
<1>. QED BY <1>1, <1>3, <1>4, <1>5, <1>6, WeekGoesFurther

\* A page writes the copy it has as approved.  The brief may be at work again in
\* a later revision, and is then marked late; it may have been discarded, and is
\* then brought back.  Otherwise it shows what the page saw approved.
LEMMA SaveApprovedStep ==
    ASSUME WeekHead, WeekSound, NEW g \in pages, SaveApproved(g)
    PROVE  WeekSound'
<1>1. PICK p \in Plans : p = g.plan BY DEF WeekSound, PagesSound, Page
<1>. DEFINE late == brief[p].rev # g.rev \/ brief[p].status \notin {"ready", "approved"}
            fields == [brief[p] EXCEPT !.status = "approved"]
<1>2. /\ UNCHANGED <<job, week, post, steps, producer, tick, told>> /\ g.saw = "approved" /\ pages' \subseteq pages
      /\ brief' = Moved(p, fields)
      /\ belated' = IF late THEN belated \cup {p} ELSE belated
      /\ revived' = IF brief[p].status = "discarded" THEN revived \cup {p} ELSE revived
  BY <1>1 DEF SaveApproved, studioVars
<1>3. PageSound(g) /\ Begun(p) BY <1>1 DEF WeekSound, PagesSound, PageSound
<1>4. brief[p] \in BriefRow BY DEF WeekSound
<1>5. fields \in BriefRow /\ fields.status = "approved" /\ fields.rev = brief[p].rev
  BY <1>4 DEF BriefRow, BriefStatuses
<1>6. revived \subseteq revived' /\ revived' \subseteq Plans /\ belated' \subseteq Plans BY <1>2 DEF WeekSound
<1>7. \A q \in Plans : q # p => (q \in belated' <=> q \in belated) BY <1>2
<1>8. p \notin belated' => p \notin belated /\ brief[p].rev = g.rev /\ brief[p].status \in Shown
  BY <1>2 DEF Shown
<1>. HIDE DEF fields, late
<1>9. PICK row \in BriefRow : brief' = [brief EXCEPT ![p] = row] /\ row.status = "approved" /\ row.rev = brief[p].rev
  BY <1>2, <1>5, MovedRow
<1>10. \A q \in Plans : PlanFlows(q) BY <1>2, SameRows
<1>11. /\ brief[p].rev <= row.rev /\ row.status \in Handed /\ brief[p].status # "none"
       /\ brief[p].status = "discarded" => p \in revived'
  BY <1>2, <1>3, <1>4, <1>9 DEF BriefRow, BriefRevisions, Handed, Begun
<1>12. /\ brief' \in [Plans -> BriefRow] /\ brief'[p] = row /\ \A q \in Plans : q # p => brief'[q] = brief[q]
       /\ Flows
  BY <1>9, <1>10, <1>11, OneBrief DEF WeekSound
<1>13. ASSUME NEW q \in Plans PROVE PostKept(q)
  <2>1. CASE q = p
    <3>1. p \notin belated' => post[p].status \in Granted BY <1>1, <1>2, <1>3, <1>8 DEF PageSound
    <3>2. PostSound(p) /\ post'[p] = post[p] BY <1>2 DEF WeekSound
    <3>3. PostSound(p)' BY <1>8, <1>9, <1>12, <3>1, <3>2 DEF PostSound
    <3>. QED BY <1>8, <2>1, <3>2, <3>3 DEF PostKept
  <2>2. CASE q # p
    <3>1. brief'[q] = brief[q] /\ post'[q] = post[q] BY <1>2, <1>12, <2>2
    <3>. QED BY <1>7, <2>2, <3>1, PostsKept
  <2>. QED BY <2>1, <2>2
<1>14. PagesSound' BY <1>2, <1>12, <1>13, PagesGoOn
<1>15. StepsSound' BY <1>2, <1>12, BegunStays, StepsKept DEF WeekSound
<1>16. post' \in [Plans -> PostRow] /\ \A q \in Plans : PostSound(q)' BY <1>2, <1>13 DEF WeekSound, PostKept
<1>. QED BY <1>2, <1>6, <1>12, <1>14, <1>15, <1>16, WeekGoesFurther

\* A page finds that the post was sent back, or leaves the brief as it is.
LEMMA PageStepKept ==
    ASSUME WeekHead, WeekSound, NEW g \in pages, PageStep(g)
    PROVE  WeekSound'
<1>1. CASE FindApproved(g) \/ SaveApproved(g) BY <1>1, PageLooks, SaveApprovedStep
<1>2. CASE ReopenBrief(g) \/ PageEnds(g)
  <2>1. PICK p \in Plans : p = g.plan BY DEF WeekSound, PagesSound, Page
  <2>. DEFINE fields == [brief[p] EXCEPT !.status = "ready"]
  <2>2. /\ UNCHANGED <<job, week, post, steps, producer, tick, told, belated, revived>> /\ pages' \subseteq pages
        /\ brief' = brief \/ (brief[p].status = "approved" /\ brief' = Moved(p, fields))
    BY <1>2, <2>1 DEF ReopenBrief, PageEnds, studioVars
  <2>3. brief[p] \in BriefRow BY DEF WeekSound
  <2>4. fields \in BriefRow /\ fields.status = "ready" /\ fields.rev = brief[p].rev
    BY <2>3 DEF BriefRow, BriefStatuses
  <2>. HIDE DEF fields
  <2>5. \A q \in Plans : PlanFlows(q) BY <2>2, SameRows
  <2>6. /\ brief' \in [Plans -> BriefRow] /\ post' \in [Plans -> PostRow] /\ Flows
        /\ \A q \in Plans : PostKept(q)
    <3>1. CASE brief' = brief BY <2>2, <3>1, NothingMoves
    <3>2. CASE brief[p].status = "approved" /\ brief' = Moved(p, fields)
      <4>1. PICK row \in BriefRow : brief' = [brief EXCEPT ![p] = row] /\ row.status = "ready" /\ row.rev = brief[p].rev
        BY <2>4, <3>2, MovedRow
      <4>2. row.status \in Handed /\ brief[p].status \in Shown BY <3>2, <4>1 DEF Handed, Shown
      <4>. QED BY <2>2, <2>5, <3>2, <4>1, <4>2, OneBriefMoves
    <3>. QED BY <2>2, <3>1, <3>2
  <2>7. StepsSound' BY <2>2, <2>6, BegunStays, StepsKept DEF WeekSound
  <2>. QED BY <2>2, <2>6, <2>7, WeekGoesOn
<1>. QED BY <1>1, <1>2 DEF PageStep

LEMMA AgencyStep ==
    ASSUME JobsTyped, WeekHead, WeekSound, AgencyNext
    PROVE  WeekSound'
<1>1. ASSUME NEW p \in Plans, PlanWeek(p) \/ StopPlan(p) \/ ResumePlan(p) PROVE WeekSound'
  <2>1. CASE StopPlan(p)
    <3>1. UNCHANGED weekVars /\ \A q \in Plans : PlanFlows(q) BY <2>1, OverStaysOver DEF StopPlan
    <3>. QED BY <3>1, StudioBeside
  <2>. QED BY <1>1, <2>1, PlanWeekStep, ResumePlanStep
<1>2. ASSUME NEW p \in Plans, \/ RequestChanges(p) \/ RetryBrief(p) \/ DiscardBrief(p)
                              \/ ApprovePost(p) \/ OpenBrief(p) \/ SendBack(p) \/ BriefAges(p)
      PROVE  WeekSound'
  BY <1>2, AskAgainStep, PersonStep, PageLooks
<1>6. ASSUME NEW g \in pages, PageStep(g) PROVE WeekSound' BY <1>6, PageStepKept
<1>3. CASE SkipWeek \/ Feed \/ AnnounceReads \/ AnnounceWrites BY <1>3, TickStep, FeedStep
<1>4. ASSUME NEW w \in Workers, MakeBrief(w) \/ ProducerMoves(w) \/ ProducerDies(w) \/ SweepBriefs(w)
      PROVE  WeekSound'
  BY <1>4, MakeBriefStep, PassesOnStep, StepFailsMoves, HandOffStep, StepEndsStep, SweepBriefsStep, SweepBriefStep
     DEF ProducerMoves
<1>5. ASSUME NEW w \in Workers, NEW t \in steps, StartStep(w, t) PROVE WeekSound' BY <1>5, StartStepMoves
<1>. QED BY <1>1, <1>2, <1>3, <1>4, <1>5, <1>6 DEF AgencyNext, PageStep

LEMMA AgencyStepsStep ==
    ASSUME JobsTyped, WeekHead, WeekSound, AgencySteps
    PROVE  WeekSound'
<1>1. ASSUME UNCHANGED weekVars, \A q \in Plans : PlanFlows(q) PROVE WeekSound' BY <1>1, StudioBeside
<1>2. CASE \E p \in Plans : Studio(JobAges(p)) BY <1>1, <1>2, OverStaysOver DEF Studio
<1>3. CASE Studio(SwitchPolicy)
  <2>1. job' = job /\ UNCHANGED weekVars BY <1>3 DEF Studio, SwitchPolicy
  <2>. QED BY <1>1, <2>1, SameRows
<1>4. CASE \E w \in Workers : Studio(WorkerSteps(w)) BY <1>1, <1>4, OverStaysOver DEF Studio
<1>5. CASE AgencyNext BY <1>5, AgencyStep
<1>6. Staff \subseteq Workers BY DEF Staff
<1>. QED BY <1>2, <1>3, <1>4, <1>5, <1>6 DEF AgencySteps, Studio, Team

\* Where no week is played, nothing of one is there.
NoWeek ==
    /\ week.status = "none" /\ week.plan = NoPlan /\ told = 0 /\ steps = {} /\ revived = {}
    /\ pages = {} /\ belated = {}
    /\ brief \in [Plans -> BriefRow] /\ \A p \in Plans : brief[p].status = "none"
    /\ post = [p \in Plans |-> NoPost] /\ producer = [w \in Workers |-> Free]

WeekInv == IF scene \in Weeks THEN WeekSound ELSE NoWeek

LEMMA WeekInvKept ==
    ASSUME StudioInv, WeekInv, [Next]_vars
    PROVE  WeekInv'
<1>1. JobsTyped /\ WeekHead BY DEF StudioInv
<1>2. CASE scene \in Weeks /\ (WeekNext \/ DraftsNext)
  <2>1. AgencySteps BY <1>2 DEF WeekNext, DraftsNext
  <2>2. scene' = scene BY <2>1 DEF AgencySteps, Studio, Team
  <2>. QED BY <1>1, <1>2, <2>1, <2>2, AgencyStepsStep DEF WeekInv
<1>3. CASE scene \notin Weeks /\ UNCHANGED <<weekVars, scene>> BY <1>3 DEF WeekInv, NoWeek, weekVars, pageVars
<1>4. CASE UNCHANGED <<weekVars, scene, job>>
  <2>1. CASE scene \in Weeks
    <3>1. \A q \in Plans : PlanFlows(q) BY <1>4, SameRows
    <3>2. WeekSound' BY <1>1, <1>4, <2>1, <3>1, StudioBeside DEF WeekInv
    <3>. QED BY <1>4, <2>1, <3>2 DEF WeekInv
  <2>. QED BY <1>3, <1>4, <2>1
<1>5. CASE WeekNext \/ DraftsNext BY <1>2, <1>5 DEF WeekNext, DraftsNext, Weeks
<1>6. CASE TeamNext BY <1>3, <1>6 DEF TeamNext, Studio, Weeks
<1>7. CASE PeopleNext BY <1>3, <1>7 DEF PeopleNext, Studio, Weeks
<1>8. CASE RoutineNext
  <2>1. scene \notin Weeks BY <1>8 DEF RoutineNext, Playing, Weeks
  <2>. QED BY <1>3, <1>8, <2>1 DEF RoutineNext, Studio
<1>9. CASE TalkNext \/ UNCHANGED vars BY <1>4, <1>9 DEF TalkNext, Talk, vars, studioVars
<1>. QED BY <1>5, <1>6, <1>7, <1>8, <1>9 DEF Next

LEMMA WeekStarts == Init => WeekInv
<1>. SUFFICES ASSUME StudioInit, WeekInit PROVE WeekSound /\ NoWeek BY DEF Init, WeekInv
<1>. DEFINE row == [status |-> "none", rev |-> 1, stage |-> "make", held |-> FALSE, old |-> FALSE]
<1>1. row \in BriefRow /\ row.status = "none" BY WeekBounds DEF BriefRow, BriefStatuses
<1>2. brief = [p \in Plans |-> row] BY DEF WeekInit
<1>. HIDE DEF row
<1>3. brief \in [Plans -> BriefRow] /\ \A p \in Plans : brief[p].status = "none" BY <1>1, <1>2
<1>4. week.status = "none" /\ week.plan = NoPlan BY DEF WeekInit
<1>5. /\ post = [p \in Plans |-> NoPost] /\ steps = {} /\ producer = [w \in Workers |-> Free] /\ tick = NoTick
      /\ told = 0 /\ revived = {} /\ pages = {} /\ belated = {}
  BY DEF WeekInit
<1>6. NoPost \in PostRow /\ NoPost.approved = 0 BY WeekBounds DEF NoPost, PostRow
<1>7. \A p \in Plans : post[p] = NoPost BY <1>5
<1>8. \A w \in Workers : producer[w].does = "nothing" BY <1>5, FreeProducing
<1>9. StepsSound BY <1>5, <1>8, FreeProducing DEF StepsSound, Carries
<1>10. \A p \in Plans : PostSound(p) BY <1>3, <1>6, <1>7 DEF PostSound, Shown
<1>15. PagesSound BY <1>5 DEF PagesSound
<1>11. NoWeek BY <1>3, <1>4, <1>5 DEF NoWeek
<1>12. \A p \in Plans : PlanSound(p)
  <2>1. \A p \in Plans : job[p].status = "none" BY WeekBounds DEF StudioInit
  <2>. QED BY <1>3, <2>1 DEF PlanSound, Active
<1>13. tick = NoTick => TickSound BY DEF TickSound
<1>14. post \in [Plans -> PostRow] BY <1>5, <1>6
<1>. QED BY <1>3, <1>4, <1>5, <1>9, <1>10, <1>11, <1>12, <1>13, <1>14, <1>15 DEF WeekSound

\* The drafts of one plan only are kept: those of the week's plan, as long as
\* no other one was resumed by a person.
LEMMA WeekTells == WeekHead /\ WeekInv => WeekIsTrue
<1>. SUFFICES ASSUME WeekHead, WeekInv PROVE WeekIsTrue OBVIOUS
<1>. DEFINE kept == {p \in Plans \ revived : brief[p].status \notin {"none", "discarded"}}
<1>1. kept \subseteq {week.plan}
  <2>1. CASE scene \in Weeks BY <2>1 DEF WeekInv, WeekSound, PlanSound
  <2>2. CASE scene \notin Weeks BY <2>2 DEF WeekInv, NoWeek
  <2>. QED BY <2>1, <2>2
<1>. HIDE DEF kept
<1>2. Cardinality(kept) <= 1
  <2>1. IsFiniteSet({week.plan}) /\ Cardinality({week.plan}) = 1 BY FS_Singleton
  <2>2. Cardinality(kept) <= Cardinality({week.plan}) BY <1>1, <2>1, FS_Subset
  <2>. QED BY <2>1, <2>2
<1>3. /\ told <= 1
      /\ week.status = "planned" => job[week.plan].status = "done" /\ brief[week.plan].status \notin {"none", "planned"}
      /\ \A p \in Plans : PostSound(p)
  <2>1. CASE scene \in Weeks BY <2>1 DEF WeekInv, WeekSound, Carried, Begun
  <2>2. CASE scene \notin Weeks
    <3>1. \A p \in Plans : post[p].approved = 0 BY <2>2 DEF WeekInv, NoWeek, NoPost
    <3>. QED BY <2>2, <3>1 DEF WeekInv, NoWeek, PostSound, Shown
  <2>. QED BY <2>1, <2>2
<1>. QED BY <1>2, <1>3 DEF WeekIsTrue, PostSound, Shown, Granted, kept

\* Whatever the tick, the team, the sweep and people do in whichever order: a
\* week that is planned again retires the plan before it, the notice goes out
\* once and for a plan that was carried out, and the hand-over never changes what
\* was approved.  A ready or approved brief shows the revision asked for last, and
\* one that reads approved was approved in it - for any number of pages with copies
\* of their own, save the briefs that such a page has written over after they had
\* moved on (belated), and the plans resumed by hand or brought back (revived).
THEOREM WeekKept == Spec => []WeekIsTrue
<1>. DEFINE Inv == StudioInv /\ WeekInv
<1>1. Init => Inv BY StudioStarts, WeekStarts
<1>2. Inv /\ [Next]_vars => Inv' BY StudioInvKept, WeekInvKept
<1>3. Inv => WeekIsTrue BY WeekTells DEF StudioInv
<1>. HIDE DEF Inv
<1>. QED BY <1>1, <1>2, <1>3, PTL DEF Spec

\* Jobs, routines, weeks and conversations have their types at once.
THEOREM StudioTyped == Spec => []TypesOK
<1>. DEFINE Inv == StudioInv /\ WeekInv /\ RoutineInv
<1>1. Init => Inv BY StudioStarts, WeekStarts, RoutinesStart
<1>2. Inv /\ [Next]_vars => Inv' BY StudioInvKept, WeekInvKept, RoutineInvKept
<1>3. Inv => StudioTypeOK /\ RoutineTypeOK /\ WeekTypeOK
  <2>. SUFFICES ASSUME StudioInv, WeekInv, RoutineInv PROVE StudioTypeOK /\ RoutineTypeOK /\ WeekTypeOK OBVIOUS
  <2>1. StudioTypeOK
    <3>1. ASSUME NEW w \in Workers
          PROVE  \/ at[w] = Resting
                 \/ at[w].does \in {"stage", "tidying"} /\ at[w].task \in queue
                 \/ at[w].does = "sweep" /\ at[w].seen \subseteq Seen
      <4>1. at[w] \in Doing /\ (Occupied(w) => at[w].task \in queue) BY DEF StudioInv, JobsTyped
      <4>. QED BY <4>1 DEF Doing, Occupied
    <3>. QED BY <3>1 DEF StudioInv, JobsTyped, StudioTypeOK
  <2>2. WeekTypeOK
    <3>1. /\ brief \in [Plans -> BriefRow] /\ post \in [Plans -> PostRow] /\ steps \subseteq Step
          /\ told \in Nat /\ pages \subseteq Page /\ belated \subseteq Plans /\ revived \subseteq Plans
      <4>1. CASE scene \in Weeks BY <4>1 DEF WeekInv, WeekSound, StepsSound, PagesSound
      <4>2. CASE scene \notin Weeks
        <5>1. NoPost \in PostRow BY WeekBounds DEF NoPost, PostRow
        <5>. QED BY <4>2, <5>1 DEF WeekInv, NoWeek
      <4>. QED BY <4>1, <4>2
    <3>2. ASSUME NEW w \in Workers
          PROVE  \/ producer[w] = Free
                 \/ producer[w].does \in {"step", "tidying"} /\ producer[w].task \in steps
                 \/ producer[w].does = "sweep" /\ producer[w].seen \subseteq Plans \X BriefRevisions
      <4>1. CASE scene \in Weeks
        <5>1. producer[w] \in Producing /\ (Carries(w) => producer[w].task \in steps)
          BY <4>1 DEF WeekInv, WeekSound, StepsSound
        <5>. QED BY <5>1 DEF Producing, Carries
      <4>2. CASE scene \notin Weeks BY <4>2 DEF WeekInv, NoWeek
      <4>. QED BY <4>1, <4>2
    <3>. QED BY <3>1, <3>2 DEF WeekTypeOK, StudioInv, WeekHead, BriefRow, PostRow
  <2>. QED BY <2>1, <2>2 DEF RoutineInv
<1>. HIDE DEF Inv
<1>. QED BY <1>1, <1>2, <1>3, ThreadTypes, PTL DEF Spec, TypesOK
===============================================================================
