------------------------------ MODULE Routines ------------------------------
(***************************************************************************)
(* Routines (apps/studio/routines.py): standing instructions the worker    *)
(* starts when their time has come.  An instruction becomes a job of the   *)
(* AI team (StudioJobs) and an open RoutineRun; the tick settles the run   *)
(* when the job has ended or its lease has run out.                        *)
(***************************************************************************)
EXTENDS StudioJobs, Sequences, SequencesExt

CONSTANTS
    RoutineRows,   \* Routine rows
    Briefings,     \* those that send the briefing themselves, without a job
    MaxEdits       \* bound: Pause/Resume clicks in progress at once

ASSUME RoutineAssumption == Briefings \subseteq RoutineRows /\ MaxEdits \in Nat

VARIABLES
    routine,       \* the Routine rows
    open,          \* open[r]: the jobs of r's RoutineRuns that are RUNNING, newest last
    edits,         \* Pause/Resume clicks that loaded a routine and have not yet written
    overwritten    \* routines a late Resume marked idle while a run had been started

routineVars == <<routine, open, edits, overwritten>>

RoutineStatuses == {"idle", "running", "interrupted", "failed"}

\* due: next_run_at has come.  lease: lease_until is unset, ahead or behind.
RoutineTypeOK ==
    /\ routine \in [RoutineRows -> [enabled : BOOLEAN, due : BOOLEAN, status : RoutineStatuses,
                                    lease : {"none", "held", "expired"}]]
    /\ open \in [RoutineRows -> Seq(Jobs)]
    /\ edits \subseteq [routine : RoutineRows, enabled : BOOLEAN, status : RoutineStatuses]
    /\ overwritten \subseteq RoutineRows

\* routines.create, with the switch on (suggestion) or off (propose)
RoutineInit ==
    /\ routine \in [RoutineRows -> [enabled : BOOLEAN, due : {FALSE}, status : {"idle"}, lease : {"none"}]]
    /\ open = [r \in RoutineRows |-> <<>>]
    /\ edits = {} /\ overwritten = {}

-----------------------------------------------------------------------------
(* Starting a run.                                                         *)

\* _skip: a blocker, a refused message or no answer wanted; next_run_at moves on.
SkipRun(r) ==
    /\ routine' = [routine EXCEPT ![r].due = FALSE]
    /\ UNCHANGED <<job, queue, deaths, open>>

\* _start, a briefing: sent and settled inside the transaction.
SendBriefing(r) ==
    /\ r \in Briefings
    /\ policy # "archived"
    /\ \E sent \in BOOLEAN :
         routine' = [routine EXCEPT ![r] = [@ EXCEPT !.due = FALSE,
                                            !.status = IF sent THEN "idle" ELSE "failed"]]
    /\ UNCHANGED <<job, queue, deaths, open>>

\* _start, an instruction: chat.post_message creates the job that answers it.
PostInstruction(r, j) ==
    /\ r \notin Briefings
    /\ policy # "archived"
    /\ j \in Chats /\ job[j].status = "none"
    /\ job' = [job EXCEPT ![j].status = "queued"]
    /\ Enqueue(queue, j, 1, 1)
    /\ routine' = [routine EXCEPT ![r] = [@ EXCEPT !.due = FALSE, !.status = "running", !.lease = "held"]]
    /\ open' = [open EXCEPT ![r] = Append(@, j)]

StartRoutine(r) ==
    /\ SkipRun(r) \/ SendBriefing(r) \/ \E j \in Jobs : PostInstruction(r, j)
    /\ UNCHANGED <<at, policy, retries, paid, clobbered, switches, edits, overwritten>>

\* (Mutant of MayStart: a routine that is running is started again.)
MayStartRunning(r) == routine[r].enabled /\ routine[r].due /\ routine[r].status # "interrupted"

MayStart(r) == routine[r].enabled /\ routine[r].due /\ routine[r].status \notin {"running", "interrupted"}

\* run_due, one row of it, in the tick of an idle worker.
RunDue(w, r) == at[w] = Resting /\ MayStart(r) /\ StartRoutine(r)

\* run_now: a person; also an interrupted routine, also one that is paused.
RunNow(r) == routine[r].status # "running" /\ StartRoutine(r)

-----------------------------------------------------------------------------
(* Settling it: settle_running, one row.                                   *)

\* _still_waiting_its_turn
StillWaiting(j) ==
    job[j].status = "queued" /\ (job[j].held \/ HasPendingTask(j, job[j].rev, job[j].stage))

\* _set and _close_run
Settle(r, status) ==
    /\ routine' = [routine EXCEPT ![r] = [@ EXCEPT !.status = status, !.lease = "none"]]
    /\ open' = [open EXCEPT ![r] = Front(@)]

\* _settle_one; jobs are never deleted here, so an open run has its job.
SettleOne(w, r) ==
    /\ at[w] = Resting
    /\ routine[r].status = "running" /\ open[r] # <<>>
    /\ LET j == Last(open[r])
       IN \/ job[j].status = "done" /\ Settle(r, "idle")
          \/ job[j].status \in {"failed", "cancelled"} /\ Settle(r, "failed")
          \/ /\ job[j].status \in Active /\ routine[r].lease = "expired"
             /\ IF StillWaiting(j)
                THEN routine' = [routine EXCEPT ![r].lease = "held"] /\ UNCHANGED open
                ELSE Settle(r, "interrupted")
    /\ UNCHANGED <<studioVars, edits, overwritten>>

-----------------------------------------------------------------------------
(* Pause and Resume (views_routines.routines_toggle), and time.            *)

EditLoad(r) ==
    /\ Cardinality(edits) < MaxEdits
    /\ edits' = edits \cup {[routine |-> r, enabled |-> routine[r].enabled, status |-> routine[r].status]}
    /\ UNCHANGED <<studioVars, routine, open, overwritten>>

\* set_enabled on the loaded copy: only the fields it changes are saved.
EditWrite(e) ==
    LET resumes == ~e.enabled
        tidied  == resumes /\ e.status = "interrupted"
        row     == routine[e.routine]
    IN /\ e \in edits
       /\ edits' = edits \ {e}
       /\ routine' = [routine EXCEPT ![e.routine] =
                        [row EXCEPT !.enabled = resumes,
                                    !.due = @ /\ ~resumes,
                                    !.status = IF tidied THEN "idle" ELSE @]]
       /\ overwritten' = IF tidied /\ row.status = "running"
                         THEN overwritten \cup {e.routine} ELSE overwritten
       /\ UNCHANGED <<studioVars, open>>

RoutineDue(r) ==
    /\ ~routine[r].due
    /\ routine' = [routine EXCEPT ![r].due = TRUE]
    /\ UNCHANGED <<studioVars, open, edits, overwritten>>

LeaseExpires(r) ==
    /\ routine[r].lease = "held"
    /\ routine' = [routine EXCEPT ![r].lease = "expired"]
    /\ UNCHANGED <<studioVars, open, edits, overwritten>>

RoutineSteps ==
    \/ \E r \in RoutineRows, w \in Workers : RunDue(w, r) \/ SettleOne(w, r)
    \/ \E r \in RoutineRows : RunNow(r) \/ EditLoad(r) \/ RoutineDue(r) \/ LeaseExpires(r)
    \/ \E e \in edits : EditWrite(e)
===============================================================================
