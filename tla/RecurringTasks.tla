---------------------------- MODULE RecurringTasks ----------------------------
(***************************************************************************)
(* The schedule of one recurring task (common/background.py, run_worker).  *)
(* The schedule is a row of django-background-tasks' table: a worker locks *)
(* it, runs the task, inserts the row of the next run and deletes its own. *)
(* Processes that migrate and workers that boot register the task when no  *)
(* row is there; a worker that boots releases the locks it finds.  Workers *)
(* die and lose the lease that makes them the only one.                    *)
(***************************************************************************)
EXTENDS Naturals, FiniteSets

CONSTANTS
    Hosts,          \* worker processes
    Migrators,      \* other processes that register: web containers that migrate
    Rows,           \* rows the table may hold at a time
    MaxTaskFaults   \* bound: deaths and lost leases

ASSUME RecurringAssumption ==
    /\ MaxTaskFaults \in Nat /\ IsFiniteSet(Hosts) /\ IsFiniteSet(Rows)
    /\ "absent" \notin Rows \cup Hosts /\ {"free", "nobody"} \cap Hosts = {}

VARIABLES
    row,        \* row[r]: absent, free, or the worker that locked it
    host,       \* host[h]: where worker h is and the row it runs
    migrator,   \* migrator[m]: where process m is in register_recurring_task
    lease,      \* the worker that holds worker_process_lock, as the database sees it
    taskFaults

recurringVars == <<row, host, migrator, lease, taskFaults>>

Absent == "absent"
Free == "free"
Nobody == "nobody"
Down == [step |-> "down", row |-> Absent]

RecurringTypeOK ==
    /\ row \in [Rows -> Hosts \cup {Absent, Free}]
    /\ host \in [Hosts -> [step : {"down", "reclaim", "register", "insert", "poll", "running", "repeat", "delete"},
                           row : Rows \cup {Absent}]]
    /\ migrator \in [Migrators -> {"register", "insert", "done"}]
    /\ lease \in Hosts \cup {Nobody}
    /\ taskFaults \in 0..MaxTaskFaults

RecurringInit ==
    /\ row = [r \in Rows |-> Absent]
    /\ host = [h \in Hosts |-> Down]
    /\ migrator = [m \in Migrators |-> "register"]
    /\ lease = Nobody /\ taskFaults = 0

Scheduled == {r \in Rows : row[r] # Absent}

\* Ids are not used again: not one that a worker still remembers.
NewRows == {r \in Rows : row[r] = Absent /\ \A h \in Hosts : host[h].row # r}

GoesTo(h, step) == host' = [host EXCEPT ![h].step = step]

-----------------------------------------------------------------------------
(* register_recurring_task: look and insert, under an advisory lock.       *)

\* (Mutant of Registering: the advisory lock is not taken.)
RegisteringUnlocked == FALSE

Registering == (\E h \in Hosts : host[h].step = "insert") \/ (\E m \in Migrators : migrator[m] = "insert")

MigratorRegisters(m) ==
    \/ /\ migrator[m] = "register" /\ ~Registering
       /\ migrator' = [migrator EXCEPT ![m] = IF Scheduled = {} THEN "insert" ELSE "done"]
       /\ UNCHANGED <<row, host, lease, taskFaults>>
    \/ /\ migrator[m] = "insert"
       /\ migrator' = [migrator EXCEPT ![m] = "done"]
       /\ \E r \in NewRows : row' = [row EXCEPT ![r] = Free]
       /\ UNCHANGED <<host, lease, taskFaults>>

HostRegisters(h) ==
    \/ /\ host[h].step = "register" /\ ~Registering
       /\ GoesTo(h, IF Scheduled = {} THEN "insert" ELSE "poll")
       /\ UNCHANGED <<row, migrator, lease, taskFaults>>
    \/ /\ host[h].step = "insert" /\ GoesTo(h, "poll")
       /\ \E r \in NewRows : row' = [row EXCEPT ![r] = Free]
       /\ UNCHANGED <<migrator, lease, taskFaults>>

-----------------------------------------------------------------------------
(* A worker.                                                               *)

\* worker_process_lock: a second worker is refused.
BootWorker(h) ==
    /\ host[h].step = "down" /\ lease = Nobody
    /\ lease' = h /\ GoesTo(h, "reclaim")
    /\ UNCHANGED <<row, migrator, taskFaults>>

Reclaimed == [r \in Rows |-> IF row[r] = Absent THEN Absent ELSE Free]

\* reclaim_stale_locks: whoever holds them.
ReclaimLocks(h) ==
    /\ host[h].step = "reclaim" /\ GoesTo(h, "register")
    /\ row' = Reclaimed
    /\ UNCHANGED <<migrator, lease, taskFaults>>

\* Before every poll check_lease; a worker whose lease is lost stops.
LockRow(h) ==
    /\ host[h].step = "poll" /\ lease = h
    /\ \E r \in Rows : /\ row[r] = Free /\ row' = [row EXCEPT ![r] = h]
                       /\ host' = [host EXCEPT ![h] = [step |-> "running", row |-> r]]
    /\ UNCHANGED <<migrator, lease, taskFaults>>

\* keep_schedule
RaiseSwallowed == TRUE

\* The task returns or raises.
TaskReturns(h) ==
    /\ host[h].step = "running"
    /\ \/ GoesTo(h, "repeat") /\ UNCHANGED row
       \/ /\ ~RaiseSwallowed
          /\ row' = [row EXCEPT ![host[h].row] = Absent]
          /\ host' = [host EXCEPT ![h] = [step |-> "poll", row |-> Absent]]
    /\ UNCHANGED <<migrator, lease, taskFaults>>

\* The library: the row of the next run, then the end of this one.
RepeatTask(h) ==
    /\ host[h].step = "repeat" /\ GoesTo(h, "delete")
    /\ \E r \in NewRows : row' = [row EXCEPT ![r] = Free]
    /\ UNCHANGED <<migrator, lease, taskFaults>>

DeleteRow(h) ==
    /\ host[h].step = "delete"
    /\ row' = [row EXCEPT ![host[h].row] = Absent]
    /\ host' = [host EXCEPT ![h] = [step |-> "poll", row |-> Absent]]
    /\ UNCHANGED <<migrator, lease, taskFaults>>

\* WorkerLeaseLostError passes every handler: at a poll, or inside the task
\* before its next external write.
StopUnleased(h) ==
    /\ host[h].step \in {"poll", "running"} /\ lease # h
    /\ host' = [host EXCEPT ![h] = Down]
    /\ UNCHANGED <<row, migrator, lease, taskFaults>>

-----------------------------------------------------------------------------
(* Faults.                                                                 *)

HostDies(h) ==
    /\ host[h].step # "down"
    /\ taskFaults < MaxTaskFaults /\ taskFaults' = taskFaults + 1
    /\ host' = [host EXCEPT ![h] = Down]
    /\ lease' = IF lease = h THEN Nobody ELSE lease
    /\ UNCHANGED <<row, migrator>>

\* The database drops the session that holds the lease.
DropLease ==
    /\ lease # Nobody /\ lease' = Nobody
    /\ taskFaults < MaxTaskFaults /\ taskFaults' = taskFaults + 1
    /\ UNCHANGED <<row, host, migrator>>

HostMoves(h) ==
    \/ HostRegisters(h) \/ ReclaimLocks(h) \/ LockRow(h) \/ TaskReturns(h)
    \/ RepeatTask(h) \/ DeleteRow(h) \/ StopUnleased(h)

RecurringNext ==
    \/ \E m \in Migrators : MigratorRegisters(m)
    \/ \E h \in Hosts : HostMoves(h) \/ BootWorker(h) \/ HostDies(h)
    \/ DropLease

-----------------------------------------------------------------------------
\* A task has one schedule, but for the moment between two runs: only a death
\* or a lost lease in the middle of a run doubles it, once each.
OneSchedule ==
    Cardinality(Scheduled)
        <= 1 + taskFaults + Cardinality({h \in Hosts : host[h].step = "delete" /\ row[host[h].row] # Absent})

\* The task runs again and again, whatever it raises and whoever dies.
ScheduleGoesOn == []<>(\E h \in Hosts : host[h].step = "running")
===============================================================================
