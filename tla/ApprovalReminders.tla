-------------------------- MODULE ApprovalReminders --------------------------
(***************************************************************************)
(* Reminders of posts that wait for approval (approvals/tasks.py).  Every  *)
(* sweep looks at each pending post in a transaction of its own: it locks  *)
(* the post, then everybody in the workspace, and tells those who should   *)
(* hear of it and have not had a day's alerts yet.  Two sweeps may overlap *)
(* on different posts of the same people; approvals come in between.       *)
(***************************************************************************)
EXTENDS Naturals

CONSTANTS
    PendingPosts,   \* posts of one workspace that wait for approval
    DatedPosts,     \* those with a review deadline
    Reviewers,      \* people who may approve
    Managers,       \* the owner and managers among them
    Lead, Backup,   \* AgencySettings.lead and backup, or the managers
    Sweeps,         \* processes that may run the sweep
    MaxReminders,   \* MAX_REMINDERS
    AlertCap        \* MAX_APPROVAL_ALERTS_PER_USER_DAY

ASSUME RemindersAssumption ==
    /\ {MaxReminders, AlertCap} \subseteq Nat
    /\ DatedPosts \subseteq PendingPosts /\ Managers \cup {Lead, Backup} \subseteq Reviewers /\ Lead # Backup

VARIABLES
    pending,    \* posts still pending
    deadline,   \* deadline[p]: how near the proposed time is
    reminder,   \* reminder[p]: the ApprovalReminder rows of the post
    alerts,     \* alerts[u]: approval alerts of the last day
    reminded,   \* reminded[u]: posts u was reminded of in the last day
    told,       \* told[p]: how often people were told, by the kind of notice
    sweep       \* sweep[s]: the transaction of sweep s

reminderVars == <<pending, deadline, reminder, alerts, reminded, told, sweep>>

Kinds == {"age", "stalled", "lead", "backup", "overdue"}
Nears == {"none", "far", "soon", "near", "past"}
NoSweep == [step |-> "idle", post |-> "no post", seen |-> [u \in Reviewers |-> 0]]

RemindersTypeOK ==
    /\ pending \subseteq PendingPosts
    /\ deadline \in [PendingPosts -> Nears]
    /\ reminder \in [PendingPosts -> [count : 0..MaxReminders, rested : BOOLEAN, escalated : BOOLEAN,
                                      lead : BOOLEAN, backup : BOOLEAN, overdue : BOOLEAN]]
    /\ alerts \in [Reviewers -> Nat] /\ reminded \in [Reviewers -> SUBSET PendingPosts]
    /\ told \in [PendingPosts -> [Kinds -> Nat]]
    /\ sweep \in [Sweeps -> [step : {"idle", "locked", "counted"}, post : PendingPosts \cup {"no post"},
                             seen : [Reviewers -> Nat]]]

RemindersInit ==
    /\ pending = PendingPosts
    /\ deadline = [p \in PendingPosts |-> IF p \in DatedPosts THEN "far" ELSE "none"]
    /\ reminder = [p \in PendingPosts |-> [count |-> 0, rested |-> TRUE, escalated |-> FALSE,
                                           lead |-> FALSE, backup |-> FALSE, overdue |-> FALSE]]
    /\ alerts = [u \in Reviewers |-> 0] /\ reminded = [u \in Reviewers |-> {}]
    /\ told = [p \in PendingPosts |-> [k \in Kinds |-> 0]]
    /\ sweep = [s \in Sweeps |-> NoSweep]

-----------------------------------------------------------------------------
\* The notices a sweep owes for a post: by age, as long as no deadline is near,
\* else by the deadline.
Owed(p) ==
    LET r == reminder[p]
    IN CASE deadline[p] \in {"none", "far"} ->
                IF r.count < MaxReminders THEN {k \in {"age"} : r.rested}
                ELSE {k \in {"stalled"} : ~r.escalated}
         [] deadline[p] = "past" -> {k \in {"overdue"} : ~r.overdue}
         [] OTHER -> {k \in {"lead"} : ~r.lead} \cup {k \in {"backup"} : deadline[p] = "near" /\ ~r.backup}

Recipients(k) ==
    CASE k = "age" -> Reviewers
      [] k = "stalled" -> Managers
      [] k = "lead" -> {Lead}
      [] k = "backup" -> {Backup}
      [] k = "overdue" -> {Lead, Backup}

\* _notify_members: a person who was reminded of the post today counts as told
\* of its deadline; a person at the cap is not told.
Heard(p, k) == {u \in Recipients(k) : k \in {"lead", "backup"} /\ p \in reminded[u]}
Alerted(s, p, k) == {u \in Recipients(k) \ Heard(p, k) : sweep[s].seen[u] < AlertCap}

\* select_for_update of the post and its pending destinations.
LockPost(s, p) ==
    /\ sweep[s].step = "idle" /\ p \in pending /\ Owed(p) # {}
    /\ \A t \in Sweeps : sweep[t].post # p
    /\ sweep' = [sweep EXCEPT ![s] = [@ EXCEPT !.step = "locked", !.post = p]]
    /\ UNCHANGED <<pending, deadline, reminder, alerts, reminded, told>>

\* (Mutant of UsersLocked: nobody locks the workspace's people.)
UsersNotLocked == FALSE

\* _lock_workspace_users, by another sweep
UsersLocked == \E s \in Sweeps : sweep[s].step = "counted"

CountAlerts(s) ==
    /\ sweep[s].step = "locked" /\ ~UsersLocked
    /\ sweep' = [sweep EXCEPT ![s] = [@ EXCEPT !.step = "counted", !.seen = alerts]]
    /\ UNCHANGED <<pending, deadline, reminder, alerts, reminded, told>>

\* The notices and their record, committed together.  A notice that nobody
\* could be sent is owed again.
SendNotices(s) ==
    LET p == sweep[s].post
        owed == Owed(p)
        sent == {k \in owed : Heard(p, k) \cup Alerted(s, p, k) # {}}
        alerted(u) == {k \in owed : u \in Alerted(s, p, k)}
    IN /\ sweep[s].step = "counted"
       /\ reminder' = [reminder EXCEPT ![p] =
              [count |-> IF "age" \in sent THEN @.count + 1 ELSE @.count,
               rested |-> @.rested /\ "age" \notin sent,
               escalated |-> @.escalated \/ "stalled" \in sent,
               lead |-> @.lead \/ "lead" \in sent,
               backup |-> @.backup \/ "backup" \in sent,
               overdue |-> @.overdue \/ "overdue" \in sent]]
       /\ alerts' = [u \in Reviewers |-> IF alerted(u) = {} THEN alerts[u] ELSE alerts[u] + 1]
       /\ reminded' = [u \in Reviewers |-> IF alerted(u) \cap {"age", "lead", "backup"} = {}
                                           THEN reminded[u] ELSE reminded[u] \cup {p}]
       /\ told' = [told EXCEPT ![p] = [k \in Kinds |-> IF k \in sent THEN @[k] + 1 ELSE @[k]]]
       /\ sweep' = [sweep EXCEPT ![s] = NoSweep]
       /\ UNCHANGED <<pending, deadline>>

-----------------------------------------------------------------------------
\* An approval, which waits for the post's lock.
DecisionMade(p) ==
    /\ p \in pending /\ \A s \in Sweeps : sweep[s].post # p
    /\ pending' = pending \ {p}
    /\ UNCHANGED <<deadline, reminder, alerts, reminded, told, sweep>>

\* The last hour, the last half hour, and the proposed time itself.
DeadlineNears(p) ==
    /\ deadline[p] \in {"far", "soon", "near"}
    /\ deadline' = [deadline EXCEPT ![p] = CASE @ = "far" -> "soon" [] @ = "soon" -> "near" [] OTHER -> "past"]
    /\ UNCHANGED <<pending, reminder, alerts, reminded, told, sweep>>

\* A day: the alerts are no longer recent and the reminders may be repeated.
AlertDayPasses ==
    /\ alerts' = [u \in Reviewers |-> 0] /\ reminded' = [u \in Reviewers |-> {}]
    /\ reminder' = [p \in PendingPosts |-> [reminder[p] EXCEPT !.rested = TRUE]]
    /\ UNCHANGED <<pending, deadline, told, sweep>>

SweepMoves(s) == CountAlerts(s) \/ SendNotices(s)

RemindersNext ==
    \/ \E s \in Sweeps : SweepMoves(s) \/ \E p \in PendingPosts : LockPost(s, p)
    \/ \E p \in PendingPosts : DecisionMade(p) \/ DeadlineNears(p)
    \/ AlertDayPasses

-----------------------------------------------------------------------------
\* Nobody gets more approval alerts in a day than the cap, from however many
\* posts and sweeps; a post has its reminders and each deadline notice once.
NoNagging ==
    /\ \A u \in Reviewers : alerts[u] <= AlertCap
    /\ \A p \in PendingPosts : \A k \in Kinds : told[p][k] <= IF k = "age" THEN MaxReminders ELSE 1

\* A post that stays pending is escalated, or reported once its time is past.
RemindersSettle ==
    <>[](\A p \in pending : reminder[p].escalated \/ reminder[p].overdue)
===============================================================================
