---------------------------- MODULE ServicesProofs ----------------------------
(***************************************************************************)
(* Theorems about the small services, for every number of workers, posts,  *)
(* people and tokens.  The services share no state: a step of MCServices   *)
(* is a step of one of them, and leaves what the others own as it is.      *)
(***************************************************************************)
EXTENDS MCServices, FiniteSetTheorems, SequenceTheorems, TLAPS

LEMMA ServiceStep ==
    [Next]_vars =>
        /\ [FirstCommentNext]_commentVars
        /\ [QueueNext \/ DispatchNext]_mailVars
        /\ [BlogNext]_blogVars
        /\ [RecurrenceNext]_recurrenceVars
        /\ [RemindersNext]_reminderVars
        /\ [RecurringNext]_recurringVars
        /\ [TokensNext]_tokenVars
        /\ [VersionsNext \/ UploadsNext]_mediaVars
        /\ [PostingQueueNext]_queueVars /\ [InboxNext]_inboxVars /\ [ApiNext]_apiVars
<1> SUFFICES ASSUME [Next]_vars
             PROVE  /\ [FirstCommentNext]_commentVars
                    /\ [QueueNext \/ DispatchNext]_mailVars
                    /\ [BlogNext]_blogVars
                    /\ [RecurrenceNext]_recurrenceVars
                    /\ [RemindersNext]_reminderVars
                    /\ [RecurringNext]_recurringVars
                    /\ [TokensNext]_tokenVars
                    /\ [VersionsNext \/ UploadsNext]_mediaVars
                    /\ [PostingQueueNext]_queueVars /\ [InboxNext]_inboxVars /\ [ApiNext]_apiVars
    OBVIOUS
<1> USE DEF earlyVars, platformVars, lateVars, otherVars
<1>1. CASE Comment(FirstCommentNext) BY <1>1 DEF Comment
<1>2. CASE Digest(QueueNext) \/ Alert(DispatchNext) BY <1>2 DEF Digest, Alert
<1>3. CASE Article(BlogNext) \/ Sitemap(BlogNext) BY <1>3 DEF Article, Sitemap
<1>4. CASE Card(OutboxNext) \/ Review(TapsNext) BY <1>4 DEF Card, Review
<1>5. CASE Calendar(PostingQueueNext) BY <1>5 DEF Calendar
<1>6. CASE Series(RecurrenceNext) \/ Remind(RemindersNext) BY <1>6 DEF Series, Remind
<1>7. CASE Inbox(InboxNext) \/ Schedule(RecurringNext) BY <1>7 DEF Inbox, Schedule
<1>8. CASE Key(ApiNext) \/ Grant(TokensNext) BY <1>8 DEF Key, Grant
<1>9. CASE Edits(VersionsNext) \/ Upload(UploadsNext) BY <1>9 DEF Edits, Upload
<1>10. CASE UNCHANGED vars BY <1>10 DEF vars
<1> QED BY <1>1, <1>2, <1>3, <1>4, <1>5, <1>6, <1>7, <1>8, <1>9, <1>10 DEF Next

CommentSpec   == FirstCommentInit /\ [][FirstCommentNext]_commentVars
MailSpec      == EmailDigestInit /\ [][QueueNext \/ DispatchNext]_mailVars
RemindersSpec == RemindersInit /\ [][RemindersNext]_reminderVars
ScheduleSpec  == RecurringInit /\ [][RecurringNext]_recurringVars
TokensSpec    == TokensInit /\ [][TokensNext]_tokenVars
InboxSpec     == InboxInit /\ [][InboxNext]_inboxVars
ApiSpec       == ApiInit /\ [][ApiNext]_apiVars

\* The services together behave, each, as it does alone: what the theorems below
\* say of one service holds of the processes that run them all.
THEOREM ServicesApart ==
    Spec => /\ CommentSpec /\ MailSpec /\ BlogSpec /\ RecurrenceSpec /\ RemindersSpec
            /\ ScheduleSpec /\ TokensSpec /\ MediaSpec
            /\ PostingQueueSpec /\ InboxSpec /\ ApiSpec
<1>1. Init => /\ FirstCommentInit /\ EmailDigestInit /\ BlogInit /\ RecurrenceInit /\ RemindersInit
              /\ RecurringInit /\ TokensInit /\ MediaInit
              /\ PostingQueueInit /\ InboxInit /\ ApiInit
    BY DEF Init
<1> QED BY <1>1, ServiceStep, PTL DEF Spec, CommentSpec, MailSpec, BlogSpec, RecurrenceSpec, RemindersSpec,
                                     ScheduleSpec, TokensSpec, MediaSpec, PostingQueueSpec, InboxSpec, ApiSpec

-----------------------------------------------------------------------------
(* The dates of a recurring post.                                          *)

\* A date has its occurrence only with its line in the ledger, which stays: the
\* two are written in one transaction, and the ledger is read again in it.
DatesLedger ==
    /\ clones \in [Dates -> Nat]
    /\ \A d \in Dates : clones[d] <= 1 /\ (clones[d] = 1 => d \in ledger)

LEMMA DatesLedgerInit == RecurrenceInit => DatesLedger
<1> SUFFICES ASSUME RecurrenceInit PROVE DatesLedger
    OBVIOUS
<1>1. clones \in [Dates -> Nat] /\ \A d \in Dates : clones[d] = 0
    BY DEF RecurrenceInit
<1> QED BY <1>1 DEF DatesLedger

LEMMA DatesLedgerStep == DatesLedger /\ [RecurrenceNext]_recurrenceVars => DatesLedger'
<1> SUFFICES ASSUME DatesLedger, [RecurrenceNext]_recurrenceVars PROVE DatesLedger'
    OBVIOUS
<1> USE DEF DatesLedger
<1>1. UNCHANGED <<clones, ledger>> => DatesLedger'
    OBVIOUS
<1>2. ASSUME NEW w \in Generators, GenerateDate(w) PROVE DatesLedger'
  <2> DEFINE d == CHOOSE x \in generator[w].dates : \A y \in generator[w].dates : x <= y
  <2>1. \/ UNCHANGED <<clones, ledger>>
        \/ d \notin ledger /\ clones' = [clones EXCEPT ![d] = @ + 1] /\ ledger' = ledger \cup {d}
    BY <1>2, Zenon DEF GenerateDate, LedgerSeenBy
  <2> HIDE DEF d
  <2> QED BY <1>1, <2>1
<1>3. CASE \E w \in Generators : StartCycle(w) \/ CycleEnds(w) \/ GeneratorDies(w)
    BY <1>1, <1>3 DEF StartCycle, CycleEnds, GeneratorDies
<1>4. CASE (\E d \in Dates : DeleteOccurrence(d)) \/ HoldSource \/ DeleteSource \/ DayPasses
    BY <1>1, <1>4 DEF DeleteOccurrence, HoldSource, DeleteSource, DayPasses
<1>5. CASE UNCHANGED recurrenceVars
    BY <1>1, <1>5 DEF recurrenceVars
<1> QED BY <1>2, <1>3, <1>4, <1>5 DEF RecurrenceNext, GeneratorMoves

\* However many workers run the cycle at once and wherever they die, a date of a
\* series gets its occurrence once (calendar/tasks.py).
THEOREM DatesMadeOnce == RecurrenceSpec => []EachDateOnce
<1>1. DatesLedger => EachDateOnce
    BY DEF DatesLedger, EachDateOnce
<1> QED BY <1>1, DatesLedgerInit, DatesLedgerStep, PTL DEF RecurrenceSpec

-----------------------------------------------------------------------------
(* Reminders.                                                              *)

ReminderRow == [count : Nat, rested : BOOLEAN, escalated : BOOLEAN,
                lead : BOOLEAN, backup : BOOLEAN, overdue : BOOLEAN]
SweepRow == [step : {"idle", "locked", "counted"}, post : PendingPosts \cup {"no post"}, seen : [Reviewers -> Nat]]

\* The transactions: one at a time holds the people's rows, and what it counted
\* is not less than the alerts they have had.
Transactions ==
    /\ alerts \in [Reviewers -> Nat] /\ sweep \in [Sweeps -> SweepRow]
    /\ \A s \in Sweeps : sweep[s].step # "idle" => sweep[s].post \in PendingPosts
    /\ \A s, t \in Sweeps : sweep[s].step = "counted" /\ sweep[t].step = "counted" => s = t
    /\ \A s \in Sweeps : sweep[s].step = "counted" => \A u \in Reviewers : alerts[u] <= sweep[s].seen[u]
    /\ \A u \in Reviewers : alerts[u] <= AlertCap

\* The record of a post covers the notices that were sent.
Recorded(r, t) ==
    /\ t["age"] <= r.count /\ r.count <= MaxReminders
    /\ t["stalled"] <= 1 /\ (t["stalled"] > 0 => r.escalated)
    /\ t["lead"] <= 1 /\ (t["lead"] > 0 => r.lead)
    /\ t["backup"] <= 1 /\ (t["backup"] > 0 => r.backup)
    /\ t["overdue"] <= 1 /\ (t["overdue"] > 0 => r.overdue)

NoticesRecorded ==
    /\ reminder \in [PendingPosts -> ReminderRow] /\ told \in [PendingPosts -> [Kinds -> Nat]]
    /\ \A p \in PendingPosts : Recorded(reminder[p], told[p])

Reminding == Transactions /\ NoticesRecorded

LEMMA Limits == MaxReminders \in Nat /\ AlertCap \in Nat
    BY RemindersAssumption

LEMMA RemindingInit == RemindersInit => Reminding
<1> SUFFICES ASSUME RemindersInit PROVE Reminding
    OBVIOUS
<1>1. Transactions
  <2>1. NoSweep \in SweepRow /\ NoSweep.step = "idle"
      BY DEF NoSweep, SweepRow
  <2>2. sweep \in [Sweeps -> SweepRow] /\ \A t \in Sweeps : sweep[t].step = "idle"
      BY <2>1 DEF RemindersInit
  <2>3. alerts \in [Reviewers -> Nat] /\ \A u \in Reviewers : alerts[u] <= AlertCap
      BY Limits DEF RemindersInit
  <2> QED BY <2>2, <2>3 DEF Transactions
<1>2. ASSUME NEW p \in PendingPosts PROVE Recorded(reminder[p], told[p])
    BY Limits DEF RemindersInit, Recorded, Kinds
<1>3. reminder \in [PendingPosts -> ReminderRow] /\ told \in [PendingPosts -> [Kinds -> Nat]]
    BY DEF RemindersInit, ReminderRow
<1> QED BY <1>1, <1>2, <1>3 DEF Reminding, NoticesRecorded

\* What is owed has not been recorded.
LEMMA OwedUnrecorded ==
    ASSUME NEW p
    PROVE  /\ Owed(p) \subseteq Kinds
           /\ "age" \in Owed(p) => reminder[p].count < MaxReminders
           /\ "stalled" \in Owed(p) => ~reminder[p].escalated
           /\ "lead" \in Owed(p) => ~reminder[p].lead
           /\ "backup" \in Owed(p) => ~reminder[p].backup
           /\ "overdue" \in Owed(p) => ~reminder[p].overdue
<1>1. CASE deadline[p] \in {"none", "far"}
    BY <1>1 DEF Owed, Kinds
<1>2. CASE deadline[p] = "past"
    BY <1>2 DEF Owed, Kinds
<1>3. CASE deadline[p] \notin {"none", "far", "past"}
    BY <1>3 DEF Owed, Kinds
<1> QED BY <1>1, <1>2, <1>3

LEMMA NoticesStep ==
    ASSUME Reminding, NEW s \in Sweeps, SendNotices(s)
    PROVE  Reminding'
<1> DEFINE p == sweep[s].post
           sent == {k \in Owed(p) : Heard(p, k) \cup Alerted(s, p, k) # {}}
           alerted(u) == {k \in Owed(p) : u \in Alerted(s, p, k)}
           line == [count |-> IF "age" \in sent THEN reminder[p].count + 1 ELSE reminder[p].count,
                    rested |-> reminder[p].rested /\ "age" \notin sent,
                    escalated |-> reminder[p].escalated \/ "stalled" \in sent,
                    lead |-> reminder[p].lead \/ "lead" \in sent,
                    backup |-> reminder[p].backup \/ "backup" \in sent,
                    overdue |-> reminder[p].overdue \/ "overdue" \in sent]
           tally == [k \in Kinds |-> IF k \in sent THEN told[p][k] + 1 ELSE told[p][k]]
<1>1. /\ sweep[s].step = "counted"
      /\ reminder' = [reminder EXCEPT ![p] = line] /\ told' = [told EXCEPT ![p] = tally]
      /\ alerts' = [u \in Reviewers |-> IF alerted(u) = {} THEN alerts[u] ELSE alerts[u] + 1]
      /\ sweep' = [sweep EXCEPT ![s] = NoSweep]
    BY Zenon DEF SendNotices
<1>2. p \in PendingPosts
    BY <1>1 DEF Reminding, Transactions
<1>3. reminder[p] \in ReminderRow /\ told[p] \in [Kinds -> Nat] /\ Recorded(reminder[p], told[p])
    BY <1>2 DEF Reminding, NoticesRecorded
<1>4. sent \subseteq Owed(p)
    OBVIOUS
<1>5. \A u \in Reviewers : alerted(u) # {} => sweep[s].seen[u] < AlertCap
    BY DEF Alerted
<1> HIDE DEF p, sent, alerted
<1>6. line \in ReminderRow /\ tally \in [Kinds -> Nat]
    BY <1>3 DEF ReminderRow
<1>7. Recorded(line, tally)
  <2>1. \A k \in Kinds : tally[k] = IF k \in sent THEN told[p][k] + 1 ELSE told[p][k]
      OBVIOUS
  <2>2. \A k \in Kinds : told[p][k] \in Nat
      BY <1>3
  <2>3. /\ "age" \in sent => reminder[p].count < MaxReminders
        /\ "stalled" \in sent => ~reminder[p].escalated
        /\ "lead" \in sent => ~reminder[p].lead
        /\ "backup" \in sent => ~reminder[p].backup
        /\ "overdue" \in sent => ~reminder[p].overdue
      BY <1>4, OwedUnrecorded
  <2>4. reminder[p].count \in Nat
      BY <1>3 DEF ReminderRow
  <2>5. /\ line.count = IF "age" \in sent THEN reminder[p].count + 1 ELSE reminder[p].count
        /\ line.escalated <=> (reminder[p].escalated \/ "stalled" \in sent)
        /\ line.lead <=> (reminder[p].lead \/ "lead" \in sent)
        /\ line.backup <=> (reminder[p].backup \/ "backup" \in sent)
        /\ line.overdue <=> (reminder[p].overdue \/ "overdue" \in sent)
      OBVIOUS
  <2> HIDE DEF line, tally
  <2>6. tally["age"] <= line.count /\ line.count <= MaxReminders
      BY <1>3, <2>1, <2>2, <2>3, <2>4, <2>5, Limits DEF Recorded, Kinds
  <2>7. tally["stalled"] <= 1 /\ (tally["stalled"] > 0 => line.escalated)
      BY <1>3, <2>1, <2>2, <2>3, <2>5 DEF Recorded, Kinds
  <2>8. tally["lead"] <= 1 /\ (tally["lead"] > 0 => line.lead)
      BY <1>3, <2>1, <2>2, <2>3, <2>5 DEF Recorded, Kinds
  <2>9. tally["backup"] <= 1 /\ (tally["backup"] > 0 => line.backup)
      BY <1>3, <2>1, <2>2, <2>3, <2>5 DEF Recorded, Kinds
  <2>10. tally["overdue"] <= 1 /\ (tally["overdue"] > 0 => line.overdue)
      BY <1>3, <2>1, <2>2, <2>3, <2>5 DEF Recorded, Kinds
  <2> QED BY <2>6, <2>7, <2>8, <2>9, <2>10 DEF Recorded
<1> HIDE DEF line, tally
<1>8. NoticesRecorded'
    BY <1>1, <1>2, <1>6, <1>7 DEF Reminding, NoticesRecorded
<1>9. Transactions'
  <2>1. NoSweep \in SweepRow /\ NoSweep.step = "idle"
      BY DEF NoSweep, SweepRow
  <2>2. sweep' \in [Sweeps -> SweepRow] /\ sweep'[s].step = "idle" /\ \A t \in Sweeps \ {s} : sweep'[t] = sweep[t]
      BY <1>1, <2>1 DEF Reminding, Transactions
  <2>3. \A t \in Sweeps : sweep'[t].step = "counted" => t # s /\ sweep[t].step = "counted"
      BY <2>2
  <2>4. \A t \in Sweeps : sweep'[t].step # "counted"
      BY <1>1, <2>3 DEF Reminding, Transactions
  <2>5. alerts' \in [Reviewers -> Nat]
      BY <1>1 DEF Reminding, Transactions
  <2>6. ASSUME NEW u \in Reviewers PROVE alerts'[u] <= AlertCap
    <3>1. alerts[u] \in Nat /\ sweep[s].seen[u] \in Nat /\ alerts[u] <= AlertCap /\ alerts[u] <= sweep[s].seen[u]
        BY <1>1 DEF Reminding, Transactions, SweepRow
    <3> QED BY <1>1, <1>5, <3>1, Limits
  <2> QED BY <2>2, <2>4, <2>5, <2>6 DEF Reminding, Transactions
<1> QED BY <1>8, <1>9 DEF Reminding

LEMMA RemindingStep == Reminding /\ [RemindersNext]_reminderVars => Reminding'
<1> SUFFICES ASSUME Reminding, [RemindersNext]_reminderVars PROVE Reminding'
    OBVIOUS
<1>1. UNCHANGED <<reminder, told>> => NoticesRecorded'
    BY DEF Reminding, NoticesRecorded
<1>2. UNCHANGED <<alerts, sweep>> => Transactions'
    BY DEF Reminding, Transactions
<1>3. ASSUME NEW s \in Sweeps, NEW p \in PendingPosts, LockPost(s, p) PROVE Reminding'
  <2>1. sweep[s] \in SweepRow /\ sweep[s].step = "idle" /\ alerts' = alerts
        /\ sweep' = [sweep EXCEPT ![s] = [sweep[s] EXCEPT !.step = "locked", !.post = p]]
      BY <1>3 DEF LockPost, Reminding, Transactions
  <2>2. Transactions'
      BY <2>1 DEF Reminding, Transactions, SweepRow
  <2> QED BY <1>1, <1>3, <2>2 DEF LockPost, Reminding
<1>4. ASSUME NEW s \in Sweeps, CountAlerts(s) PROVE Reminding'
  <2>1. sweep[s] \in SweepRow /\ sweep[s].step = "locked" /\ alerts' = alerts /\ ~UsersLocked
        /\ sweep' = [sweep EXCEPT ![s] = [sweep[s] EXCEPT !.step = "counted", !.seen = alerts]]
      BY <1>4 DEF CountAlerts, Reminding, Transactions
  <2>2. sweep' \in [Sweeps -> SweepRow] /\ sweep'[s].post = sweep[s].post /\ sweep'[s].seen = alerts
        /\ \A t \in Sweeps \ {s} : sweep'[t] = sweep[t]
      BY <2>1 DEF Reminding, Transactions, SweepRow
  <2>3. \A t \in Sweeps : sweep'[t].step = "counted" => t = s
      BY <2>1, <2>2 DEF UsersLocked
  <2>4. Transactions'
      BY <2>1, <2>2, <2>3 DEF Reminding, Transactions
  <2> QED BY <1>1, <1>4, <2>4 DEF CountAlerts, Reminding
<1>5. CASE \E s \in Sweeps : SendNotices(s)
    BY <1>5, NoticesStep
<1>6. CASE \E p \in PendingPosts : DecisionMade(p) \/ DeadlineNears(p)
    BY <1>1, <1>2, <1>6 DEF DecisionMade, DeadlineNears, Reminding
<1>7. CASE AlertDayPasses
  <2>1. alerts' = [u \in Reviewers |-> 0] /\ sweep' = sweep /\ told' = told
        /\ reminder' = [p \in PendingPosts |-> [reminder[p] EXCEPT !.rested = TRUE]]
      BY <1>7 DEF AlertDayPasses
  <2>2. alerts' \in [Reviewers -> Nat] /\ \A u \in Reviewers : alerts'[u] = 0
      BY <2>1
  <2>5. ASSUME NEW s \in Sweeps, NEW u \in Reviewers PROVE sweep[s].seen[u] \in Nat
    <3>1. sweep[s] \in SweepRow
        BY DEF Reminding, Transactions
    <3> QED BY <3>1 DEF SweepRow
  <2>6. Transactions'
      BY <2>1, <2>2, <2>5, Limits DEF Reminding, Transactions
  <2>3. ASSUME NEW p \in PendingPosts
        PROVE  reminder'[p] \in ReminderRow /\ Recorded(reminder'[p], told'[p])
      BY <2>1 DEF Reminding, NoticesRecorded, ReminderRow, Recorded
  <2>4. NoticesRecorded'
      BY <2>1, <2>3 DEF Reminding, NoticesRecorded
  <2> QED BY <2>4, <2>6 DEF Reminding
<1>8. CASE UNCHANGED reminderVars
    BY <1>1, <1>2, <1>8 DEF reminderVars, Reminding
<1> QED BY <1>3, <1>4, <1>5, <1>6, <1>7, <1>8 DEF RemindersNext, SweepMoves

\* However many sweeps overlap, nobody gets more approval alerts in a day than
\* the cap, and a post has its reminders and each notice once (approvals/tasks.py).
THEOREM NobodyNagged == RemindersSpec => []NoNagging
<1>1. Reminding => NoNagging
  <2> SUFFICES ASSUME Reminding PROVE NoNagging
      OBVIOUS
  <2>1. ASSUME NEW p \in PendingPosts, NEW k \in Kinds
        PROVE  told[p][k] <= IF k = "age" THEN MaxReminders ELSE 1
    <3>1. reminder[p] \in ReminderRow /\ told[p] \in [Kinds -> Nat] /\ Recorded(reminder[p], told[p])
        BY DEF Reminding, NoticesRecorded
    <3> QED BY <3>1, Limits DEF Recorded, Kinds, ReminderRow
  <2> QED BY <2>1 DEF NoNagging, Reminding, Transactions
<1> QED BY <1>1, RemindingInit, RemindingStep, PTL DEF RemindersSpec

-----------------------------------------------------------------------------
(* The grant of a channel.                                                 *)

UserRow == [does : {"nothing", "use", "check", "disconnect"}, token : Nat,
            step : {"idle", "stale", "loaded", "refreshing", "rotated", "probing", "probed", "revoked"},
            note : Statuses]

\* The row and the platform: a blank row is a disconnected one.
RowSound ==
    /\ account \in [token : Nat, expires : {"never", "later", "soon", "past"}, status : Statuses]
    /\ granted \in Nat /\ account.token <= granted
    /\ \A t \in usable : t \in Nat /\ 1 <= t /\ t <= granted
    /\ account.token = Blank <=> account.status = "disconnected"

UsersSound ==
    /\ user \in [Users -> UserRow]
    /\ \A u \in Users : user[u].token <= granted
    /\ \A u \in Users : user[u].step = "probed" => user[u].note # "disconnected"

\* One refresh at a time asks the platform; the token it was given is not yet
\* known to anybody else.
RefreshesSound ==
    /\ \A u, v \in Users : user[u].step \in {"refreshing", "rotated"} /\ user[v].step \in {"refreshing", "rotated"} => u = v
    /\ \A u \in Users : user[u].step = "rotated" =>
          /\ user[u].token # Blank /\ (consent >= standing => user[u].token \in usable)
          /\ user[u].token # account.token
          /\ \A v \in Users \ {u} : user[v].token # user[u].token

\* A callback's grant is known to nobody else, and the platform accepts it
\* unless a later consent ended it.
OffersSound ==
    /\ consent \in Nat /\ consent <= granted /\ standing \in Nat
    /\ \A t \in offers :
          /\ t \in Nat /\ 1 <= t /\ t <= granted /\ t # account.token
          /\ \A u \in Users : user[u].token # t
          /\ t >= standing => t \in usable

\* A failure that a process will note is one of the grant the row holds, if it
\* still holds the token the process read.
Noted(u) ==
    /\ user[u].step \in {"stale", "loaded", "probing", "probed"} /\ user[u].note \in {"error", "token_expiring"}
    /\ user[u].token = account.token /\ account.token # Blank
NotesSound ==
    /\ account.status \in {"error", "token_expiring"} => refused
    /\ \A u \in Users : Noted(u) => refused

TokenHeld ==
    account.token # Blank /\ ~lost /\ consent >= standing
        /\ (\A u \in Users : user[u].step \notin {"rotated", "revoked"}) => account.token \in usable

GrantSound == RowSound /\ UsersSound /\ RefreshesSound /\ OffersSound /\ NotesSound /\ TokenHeld

LEMMA GrantSoundInit == TokensInit => GrantSound
<1> SUFFICES ASSUME TokensInit PROVE GrantSound
    OBVIOUS
<1>1. Idling \in UserRow /\ Idling.step = "idle" /\ Idling.token = 0
    BY DEF Idling, UserRow, Blank, Statuses
<1>2. user \in [Users -> UserRow] /\ \A u \in Users : user[u] = Idling
    BY <1>1 DEF TokensInit
<1>3. RowSound
    BY DEF TokensInit, RowSound, Blank, Statuses
<1>4. UsersSound /\ RefreshesSound
    BY <1>1, <1>2 DEF TokensInit, UsersSound, RefreshesSound
<1>o. OffersSound
    BY DEF TokensInit, OffersSound
<1>5. NotesSound /\ TokenHeld
    BY <1>1, <1>2 DEF TokensInit, NotesSound, Noted, TokenHeld
<1> QED BY <1>3, <1>4, <1>o, <1>5 DEF GrantSound

\* What a step of one process leaves behind, when only its own row moves: the
\* row keeps its shape, and the process refreshes only if it did before.
LEMMA UserMoves ==
    ASSUME GrantSound, UNCHANGED <<account, usable, granted, callbackVars>>, NEW u \in Users, NEW line \in UserRow,
           user' = [user EXCEPT ![u] = line], line.token <= granted,
           line.step = "probed" => line.note # "disconnected",
           line.step # "rotated",
           line.step = "refreshing" => RowUnlocked,
           line.token \in {user[u].token, account.token, Blank}
    PROVE  RowSound' /\ UsersSound' /\ RefreshesSound' /\ OffersSound'
<1>1. user'[u] = line /\ (\A v \in Users \ {u} : user'[v] = user[v]) /\ user' \in [Users -> UserRow]
    BY DEF GrantSound, UsersSound
<1>2. RowSound'
    BY DEF GrantSound, RowSound
<1>3. UsersSound'
    BY <1>1 DEF GrantSound, UsersSound
<1>4. ASSUME NEW v \in Users, user'[v].step = "rotated"
      PROVE  /\ user'[v].token # Blank /\ ((consent >= standing)' => user'[v].token \in usable')
             /\ user'[v].token # account'.token
             /\ \A w \in Users \ {v} : user'[w].token # user'[v].token
  <2>1. v # u /\ user'[v] = user[v]
      BY <1>1, <1>4
  <2>2. /\ user[v].token # Blank /\ (consent >= standing => user[v].token \in usable)
        /\ user[v].token # account.token
        /\ \A w \in Users \ {v} : user[w].token # user[v].token
      BY <1>4, <2>1 DEF GrantSound, RefreshesSound
  <2>3. line.token # user[v].token
      BY <2>1, <2>2
  <2> QED BY <1>1, <2>1, <2>2, <2>3 DEF callbackVars
<1>5. ASSUME NEW v \in Users, NEW w \in Users, user'[v].step \in {"refreshing", "rotated"},
             user'[w].step \in {"refreshing", "rotated"}
      PROVE  v = w
    BY <1>1, <1>5 DEF GrantSound, RefreshesSound, RowUnlocked
<1>6. RefreshesSound'
    BY <1>4, <1>5 DEF RefreshesSound
<1>7. ASSUME NEW t \in offers, NEW v \in Users
      PROVE  user'[v].token # t
    BY <1>1 DEF GrantSound, OffersSound, Blank
<1>8. OffersSound'
    BY <1>7 DEF GrantSound, OffersSound, callbackVars
<1> QED BY <1>2, <1>3, <1>6, <1>8

LEMMA QuietStep ==
    ASSUME GrantSound, UNCHANGED <<account, usable, granted, callbackVars>>, NEW u \in Users, NEW line \in UserRow,
           user' = [user EXCEPT ![u] = line], line.token <= granted,
           line.step = "probed" => line.note # "disconnected",
           line.step # "rotated",
           line.step = "refreshing" => RowUnlocked,
           line.token = user[u].token \/ line.token = account.token \/ line.token = Blank,
           refused => refused',
           line.step \in {"stale", "loaded", "probing", "probed"} /\ line.note \in {"error", "token_expiring"}
             /\ line.token = account.token /\ account.token # Blank => refused',
           lost => lost', lost' \/ line.step = "revoked" \/ user[u].step \notin {"revoked", "rotated"}
    PROVE  GrantSound'
<1>1. user'[u] = line /\ (\A v \in Users \ {u} : user'[v] = user[v])
    BY DEF GrantSound, UsersSound
<1>2. RowSound' /\ UsersSound' /\ RefreshesSound' /\ OffersSound'
    BY UserMoves
<1>3. NotesSound'
    BY <1>1 DEF GrantSound, NotesSound, Noted
<1>4. TokenHeld'
  <2> SUFFICES ASSUME account.token # Blank, ~lost', consent >= standing, \A v \in Users : user'[v].step \notin {"rotated", "revoked"}
               PROVE  account.token \in usable
      BY DEF TokenHeld, callbackVars
  <2>1. \A v \in Users : user[v].step \notin {"rotated", "revoked"}
      BY <1>1
  <2> QED BY <2>1 DEF GrantSound, TokenHeld
<1> QED BY <1>2, <1>3, <1>4 DEF GrantSound

LEMMA RefreshSteps ==
    ASSUME GrantSound, NEW u \in Users,
           LoadAccount(u) \/ UseAsItIs(u) \/ LockAccount(u) \/ RefreshFails(u) \/ RotationLost(u) \/ Probe(u)
    PROVE  GrantSound'
<1>0. user[u] \in UserRow /\ user[u].token <= granted /\ account.token \in Nat /\ account.token <= granted
      /\ account.status \in Statuses /\ granted \in Nat /\ 0 <= granted
    BY DEF GrantSound, UsersSound, RowSound
<1>i. Idling \in UserRow /\ Idling.step = "idle" /\ Idling.token = Blank /\ Blank = 0
    BY DEF Idling, UserRow, Blank, Statuses
<1>1. CASE LoadAccount(u)
  <2>1. PICK does \in {"use", "check", "disconnect"} :
         user' = [user EXCEPT ![u] =
             [does |-> does, token |-> account.token,
              step |-> IF NearExpiry /\ does # "disconnect" THEN "stale" ELSE "loaded",
              note |-> IF does = "check" THEN account.status ELSE "connected"]]
      BY <1>1, Zenon DEF LoadAccount
  <2> DEFINE line == [does |-> does, token |-> account.token,
              step |-> IF NearExpiry /\ does # "disconnect" THEN "stale" ELSE "loaded",
              note |-> IF does = "check" THEN account.status ELSE "connected"]
  <2>2. line \in UserRow /\ line.step \in {"stale", "loaded"} /\ line.token = account.token
        /\ line.note \in {account.status, "connected"}
      BY <1>0 DEF UserRow, Statuses
  <2>3. user' = [user EXCEPT ![u] = line]
      BY <2>1
  <2> HIDE DEF line
  <2>4. line.note \in {"error", "token_expiring"} => refused
      BY <2>2 DEF GrantSound, NotesSound
  <2>5. user[u].step = "idle" /\ UNCHANGED <<account, usable, granted, refused, lost, callbackVars>>
      BY <1>1, <1>i DEF LoadAccount
  <2> QED BY <1>0, <2>2, <2>3, <2>4, <2>5, QuietStep
<1>2. ASSUME NEW note \in Statuses, NEW t \in {user[u].token, account.token}, AfterRefresh(u, t, note),
             UNCHANGED <<account, usable, granted, lost, callbackVars>>, refused => refused',
             user[u].step \notin {"revoked", "rotated"},
             note \in {"error", "token_expiring"} /\ t = account.token /\ account.token # Blank => refused'
      PROVE  GrantSound'
  <2> DEFINE probing == [does |-> "check", step |-> "probing", token |-> t, note |-> note]
  <2>1. probing \in UserRow /\ probing.step = "probing" /\ probing.token = t /\ probing.note = note /\ t <= granted
      BY <1>0, <1>2 DEF UserRow
  <2> HIDE DEF probing
  <2>2. CASE user' = [user EXCEPT ![u] = probing]
      BY <1>2, <2>1, <2>2, QuietStep
  <2>3. CASE user' = [user EXCEPT ![u] = Idling]
      BY <1>0, <1>2, <1>i, <2>3, QuietStep
  <2> QED BY <1>2, <2>2, <2>3 DEF AfterRefresh, probing
<1>3. CASE UseAsItIs(u)
  <2>1. /\ user[u].step = "loaded" /\ AfterRefresh(u, user[u].token, user[u].note)
        /\ UNCHANGED <<account, usable, granted, refused, lost, callbackVars>>
      BY <1>3 DEF UseAsItIs
  <2>2. user[u].note \in Statuses
      BY <1>0 DEF UserRow
  <2>3. user[u].note \in {"error", "token_expiring"} /\ user[u].token = account.token /\ account.token # Blank => refused
      BY <2>1 DEF GrantSound, NotesSound, Noted
  <2> QED BY <1>2, <2>1, <2>2, <2>3
<1>4. CASE LockAccount(u)
  <2>1. user[u].step = "stale" /\ RowUnlocked /\ UNCHANGED <<account, usable, granted, refused, lost, callbackVars>>
      BY <1>4 DEF LockAccount
  <2>2. CASE AfterRefresh(u, account.token, account.status)
    <3>1. account.status \in {"error", "token_expiring"} => refused
        BY DEF GrantSound, NotesSound
    <3> QED BY <1>0, <1>2, <2>1, <2>2, <3>1
  <2>3. CASE UserGoes(u, "refreshing")
    <3> DEFINE line == [user[u] EXCEPT !.step = "refreshing"]
    <3>1. line \in UserRow /\ line.step = "refreshing" /\ line.token = user[u].token
        BY <1>0 DEF UserRow
    <3>2. user' = [user EXCEPT ![u] = line]
        BY <2>3 DEF UserGoes
    <3> HIDE DEF line
    <3> QED BY <1>0, <2>1, <3>1, <3>2, QuietStep
  <2> QED BY <1>4, <2>2, <2>3, Zenon DEF LockAccount
<1>5. CASE RefreshFails(u)
  <2>1. user[u].step = "refreshing" /\ AfterRefresh(u, user[u].token, "token_expiring") /\ refused'
        /\ UNCHANGED <<account, usable, granted, lost, callbackVars>>
      BY <1>5 DEF RefreshFails, Refused
  <2>2. "token_expiring" \in Statuses
      BY DEF Statuses
  <2> QED BY <1>2, <2>1, <2>2
<1>6. CASE RotationLost(u)
  <2>1. user' = [user EXCEPT ![u] = Idling] /\ lost' /\ UNCHANGED <<account, usable, granted, refused, callbackVars>>
      BY <1>6 DEF RotationLost, UserEnds
  <2> QED BY <1>0, <1>i, <2>1, QuietStep
<1>7. CASE Probe(u)
  <2>1. user[u].step = "probing" /\ UNCHANGED <<account, usable, granted, lost, callbackVars>>
      BY <1>7 DEF Probe
  <2>2. ASSUME NEW note \in {user[u].note, "connected", "error"}, note # "disconnected",
               user' = [user EXCEPT ![u] = [user[u] EXCEPT !.step = "probed", !.note = note]],
               refused => refused',
               note \in {"error", "token_expiring"} /\ user[u].token = account.token /\ account.token # Blank => refused'
        PROVE  GrantSound'
    <3> DEFINE line == [user[u] EXCEPT !.step = "probed", !.note = note]
    <3>1. line \in UserRow /\ line.step = "probed" /\ line.token = user[u].token /\ line.note = note
        BY <1>0, <2>2 DEF UserRow, Statuses
    <3>2. user' = [user EXCEPT ![u] = line]
        BY <2>2
    <3> HIDE DEF line
    <3> QED BY <1>0, <2>1, <2>2, <3>1, <3>2, QuietStep
  <2>3. CASE /\ user' = [user EXCEPT ![u].step = "probed",
                                     ![u].note = IF @ = "token_expiring" THEN @ ELSE "connected"]
             /\ UNCHANGED refused
    <3> DEFINE note == IF user[u].note = "token_expiring" THEN user[u].note ELSE "connected"
    <3>1. user' = [user EXCEPT ![u] = [user[u] EXCEPT !.step = "probed", !.note = note]]
        BY <2>3
    <3>2. note \in {user[u].note, "connected", "error"} /\ note # "disconnected" /\ note # "error"
          /\ (note = "token_expiring" => user[u].note = "token_expiring")
        OBVIOUS
    <3>3. note \in {"error", "token_expiring"} /\ user[u].token = account.token /\ account.token # Blank => refused
        BY <2>1, <3>2 DEF GrantSound, NotesSound, Noted
    <3> HIDE DEF note
    <3> QED BY <2>2, <2>3, <3>1, <3>2, <3>3
  <2>4. CASE /\ user' = [user EXCEPT ![u].step = "probed", ![u].note = "error"]
             /\ Refused(user[u].token)
    <3>1. user' = [user EXCEPT ![u] = [user[u] EXCEPT !.step = "probed", !.note = "error"]]
        BY <2>4
    <3>2. refused' = (refused \/ user[u].token = account.token)
        BY <2>4 DEF Refused
    <3> QED BY <2>2, <3>1, <3>2
  <2> QED BY <1>7, <2>3, <2>4, Zenon DEF Probe
<1> QED BY <1>1, <1>3, <1>4, <1>5, <1>6, <1>7

\* A rotation: the new token is usable and nobody has it, then it is the row's.
LEMMA RotationSteps ==
    ASSUME GrantSound, NEW u \in Users, PlatformRotates(u) \/ SaveRotation(u)
    PROVE  GrantSound'
<1>0. /\ user[u] \in UserRow /\ user[u].token \in Nat /\ user \in [Users -> UserRow]
      /\ \A v \in Users : user[v] \in UserRow /\ user[v].token \in Nat /\ user[v].token <= granted
      /\ account.token \in Nat /\ account.token <= granted /\ granted \in Nat
    BY DEF GrantSound, UsersSound, RowSound, UserRow
<1>1. CASE PlatformRotates(u)
  <2> DEFINE line == [user[u] EXCEPT !.step = "rotated", !.token = granted + 1]
  <2>1. /\ user[u].step = "refreshing" /\ UNCHANGED <<account, refused, lost, callbackVars>>
        /\ granted' = granted + 1 /\ usable' = (usable \ {account.token}) \cup {granted + 1}
        /\ user' = [user EXCEPT ![u] = line]
      BY <1>1 DEF PlatformRotates
  <2>n. granted + 1 \in Nat /\ user[u] \in UserRow
      BY <1>0
  <2>2. line \in UserRow /\ line.step = "rotated" /\ line.token = granted + 1
      BY <2>n DEF UserRow
  <2> HIDE DEF line
  <2>3. user'[u] = line /\ (\A v \in Users \ {u} : user'[v] = user[v]) /\ user' \in [Users -> UserRow]
      BY <1>0, <2>1, <2>2
  <2>4. RowSound'
      BY <2>1 DEF GrantSound, RowSound
  <2>5. UsersSound'
      BY <1>0, <2>1, <2>2, <2>3 DEF GrantSound, UsersSound
  <2>6. \A v \in Users : user'[v].step \in {"refreshing", "rotated"} => v = u
      BY <2>1, <2>3 DEF GrantSound, RefreshesSound
  <2>7. \A v \in Users \ {u} : user'[v].token # granted + 1
      BY <1>0, <2>3
  <2>8. RefreshesSound'
      BY <1>0, <2>1, <2>2, <2>3, <2>6, <2>7 DEF RefreshesSound, Blank
  <2>9. NotesSound'
      BY <2>1, <2>2, <2>3 DEF GrantSound, NotesSound, Noted
  <2>10. TokenHeld'
      BY <2>2, <2>3 DEF TokenHeld
  <2>11. OffersSound'
      BY <1>0, <2>1, <2>2, <2>3 DEF GrantSound, OffersSound, callbackVars
  <2> QED BY <2>4, <2>5, <2>8, <2>9, <2>10, <2>11 DEF GrantSound
<1>2. CASE SaveRotation(u)
  <2>1. /\ user[u].step = "rotated" /\ refused' = FALSE /\ UNCHANGED <<usable, granted, lost, callbackVars>>
        /\ account' = [token |-> user[u].token, expires |-> "later", status |-> "connected"]
        /\ AfterRefresh(u, user[u].token, "connected")
      BY <1>2 DEF SaveRotation
  <2>2. /\ user[u].token # Blank /\ (consent >= standing => user[u].token \in usable)
        /\ \A v \in Users \ {u} : user[v].token # user[u].token
      BY <2>1 DEF GrantSound, RefreshesSound
  <2>3. PICK line \in UserRow : /\ user' = [user EXCEPT ![u] = line] /\ line.token \in {user[u].token, Blank}
                                /\ line.step \in {"idle", "probing"} /\ line.note = "connected"
    <3> DEFINE probing == [does |-> "check", step |-> "probing", token |-> user[u].token, note |-> "connected"]
    <3>1. probing \in UserRow /\ Idling \in UserRow
        BY <1>0 DEF UserRow, Idling, Blank, Statuses
    <3>2. CASE user' = [user EXCEPT ![u] = probing]
        BY <3>1, <3>2
    <3>3. CASE user' = [user EXCEPT ![u] = Idling]
        BY <3>1, <3>3 DEF Idling
    <3> QED BY <2>1, <3>2, <3>3 DEF AfterRefresh
  <2>4. user'[u] = line /\ (\A v \in Users \ {u} : user'[v] = user[v]) /\ user' \in [Users -> UserRow]
      BY <1>0, <2>3
  <2>5. RowSound'
      BY <1>0, <2>1, <2>2 DEF GrantSound, RowSound, Statuses
  <2>6. UsersSound'
      BY <1>0, <2>1, <2>3, <2>4 DEF GrantSound, UsersSound, Blank
  <2>7. \A v \in Users : user'[v].step \notin {"refreshing", "rotated"}
      BY <2>1, <2>3, <2>4 DEF GrantSound, RefreshesSound
  <2>8. RefreshesSound'
      BY <2>7 DEF RefreshesSound
  <2>9. NotesSound'
      BY <2>1, <2>2, <2>3, <2>4 DEF NotesSound, Noted
  <2>10. TokenHeld'
      BY <2>1, <2>2 DEF TokenHeld, callbackVars
  <2>11. OffersSound'
      BY <1>0, <2>1, <2>3, <2>4 DEF GrantSound, OffersSound, callbackVars, Blank
  <2> QED BY <2>5, <2>6, <2>8, <2>9, <2>10, <2>11 DEF GrantSound
<1> QED BY <1>1, <1>2

\* The result of a probe, written down when the row still holds its token.
LEMMA RecordStep ==
    ASSUME GrantSound, NEW u \in Users, RecordProbe(u)
    PROVE  GrantSound'
<1>1. /\ user[u].step = "probed" /\ RowUnlocked /\ UNCHANGED <<usable, granted, refused, lost, callbackVars>>
      /\ account' = IF Superseded(u) THEN account ELSE [account EXCEPT !.status = user[u].note]
      /\ user' = [user EXCEPT ![u] = Idling]
    BY DEF RecordProbe, UserEnds
<1>2. Idling \in UserRow /\ Idling.step = "idle" /\ Idling.token = 0
    BY DEF Idling, UserRow, Blank, Statuses
<1>3. user'[u] = Idling /\ (\A v \in Users \ {u} : user'[v] = user[v]) /\ user' \in [Users -> UserRow]
    BY <1>1, <1>2 DEF GrantSound, UsersSound
<1>4. user[u].note \in Statuses /\ user[u].note # "disconnected"
    BY <1>1 DEF GrantSound, UsersSound, UserRow
<1>5. /\ account'.token = account.token
      /\ account' \in [token : Nat, expires : {"never", "later", "soon", "past"}, status : Statuses]
      /\ (account'.status = "disconnected" <=> account.status = "disconnected")
    BY <1>1, <1>4 DEF GrantSound, RowSound, Superseded
<1>6. account'.status \in {"error", "token_expiring"} => refused
    BY <1>1 DEF GrantSound, NotesSound, Noted, Superseded, RowSound
<1>7. RowSound'
    BY <1>1, <1>5 DEF GrantSound, RowSound
<1>8. UsersSound'
    BY <1>1, <1>2, <1>3 DEF GrantSound, UsersSound, RowSound
<1>9. RefreshesSound'
    BY <1>1, <1>2, <1>3 DEF RefreshesSound, RowUnlocked
<1>10. NotesSound'
    BY <1>1, <1>2, <1>3, <1>5, <1>6 DEF GrantSound, NotesSound, Noted
<1>11. TokenHeld'
    BY <1>1, <1>2, <1>3, <1>5 DEF GrantSound, TokenHeld, callbackVars
<1>12. OffersSound'
    BY <1>1, <1>2, <1>3, <1>5 DEF GrantSound, OffersSound, callbackVars
<1> QED BY <1>7, <1>8, <1>9, <1>10, <1>11, <1>12 DEF GrantSound

\* A disconnect.
LEMMA DisconnectSteps ==
    ASSUME GrantSound, NEW u \in Users, RevokeToken(u) \/ BlankTokens(u)
    PROVE  GrantSound'
<1>1. CASE RevokeToken(u)
  <2> DEFINE line == [user[u] EXCEPT !.step = "revoked"]
  <2>1. /\ user[u].step = "loaded" /\ usable' \in {usable, usable \ {user[u].token}}
        /\ UNCHANGED <<account, granted, refused, lost, callbackVars>> /\ user' = [user EXCEPT ![u] = line]
      BY <1>1 DEF RevokeToken, UserGoes
  <2>2. line \in UserRow /\ line.step = "revoked" /\ line.token = user[u].token
      BY DEF GrantSound, UsersSound, UserRow
  <2> HIDE DEF line
  <2>3. user'[u] = line /\ (\A v \in Users \ {u} : user'[v] = user[v]) /\ user' \in [Users -> UserRow]
      BY <2>1, <2>2 DEF GrantSound, UsersSound
  <2>4. RowSound'
      BY <2>1 DEF GrantSound, RowSound
  <2>5. UsersSound'
      BY <2>1, <2>2, <2>3 DEF GrantSound, UsersSound
  <2>6. ASSUME NEW v \in Users, user'[v].step = "rotated"
        PROVE  /\ user'[v].token # Blank /\ ((consent >= standing)' => user'[v].token \in usable')
               /\ user'[v].token # account'.token
               /\ \A w \in Users \ {v} : user'[w].token # user'[v].token
    <3>1. v # u /\ user'[v] = user[v]
        BY <2>2, <2>3, <2>6
    <3>2. /\ user[v].token # Blank /\ (consent >= standing => user[v].token \in usable)
          /\ user[v].token # account.token
          /\ \A w \in Users \ {v} : user[w].token # user[v].token
        BY <2>6, <3>1 DEF GrantSound, RefreshesSound
    <3>3. (consent >= standing)' => user[v].token \in usable'
        BY <2>1, <3>1, <3>2 DEF callbackVars
    <3> QED BY <2>1, <2>2, <2>3, <3>1, <3>2, <3>3
  <2>7. ASSUME NEW v \in Users, NEW w \in Users, user'[v].step \in {"refreshing", "rotated"},
               user'[w].step \in {"refreshing", "rotated"}
        PROVE  v = w
      BY <2>2, <2>3, <2>7 DEF GrantSound, RefreshesSound
  <2>8. RefreshesSound'
      BY <2>6, <2>7 DEF RefreshesSound
  <2>9. NotesSound'
      BY <2>1, <2>2, <2>3 DEF GrantSound, NotesSound, Noted
  <2>10. TokenHeld'
      BY <2>2, <2>3 DEF TokenHeld
  <2>11. ASSUME NEW t \in offers, t >= standing
         PROVE  t \in usable'
      BY <2>1, <2>11 DEF GrantSound, OffersSound
  <2>12. OffersSound'
      BY <2>1, <2>2, <2>3, <2>11 DEF GrantSound, OffersSound, callbackVars
  <2> QED BY <2>4, <2>5, <2>8, <2>9, <2>10, <2>12 DEF GrantSound
<1>2. CASE BlankTokens(u)
  <2>1. /\ RowUnlocked /\ refused' = FALSE /\ UNCHANGED <<usable, granted, lost, callbackVars>>
        /\ account' = [token |-> Blank, expires |-> "never", status |-> "disconnected"]
        /\ user' = [user EXCEPT ![u] = Idling]
      BY <1>2 DEF BlankTokens, UserEnds
  <2>2. Idling \in UserRow /\ Idling.step = "idle" /\ Idling.token = 0
      BY DEF Idling, UserRow, Blank, Statuses
  <2>3. user'[u] = Idling /\ (\A v \in Users \ {u} : user'[v] = user[v]) /\ user' \in [Users -> UserRow]
      BY <2>1, <2>2 DEF GrantSound, UsersSound
  <2>4. RowSound'
      BY <2>1 DEF GrantSound, RowSound, Blank, Statuses
  <2>5. UsersSound'
      BY <2>1, <2>2, <2>3 DEF GrantSound, UsersSound, RowSound
  <2>6. RefreshesSound'
      BY <2>1, <2>2, <2>3 DEF RefreshesSound, RowUnlocked
  <2>7. NotesSound' /\ TokenHeld'
      BY <2>1 DEF NotesSound, Noted, TokenHeld
  <2>8. OffersSound'
      BY <2>1, <2>2, <2>3 DEF GrantSound, OffersSound, callbackVars, Blank
  <2> QED BY <2>4, <2>5, <2>6, <2>7, <2>8 DEF GrantSound
<1> QED BY <1>1, <1>2

LEMMA GrantSoundStep == GrantSound /\ [TokensNext]_tokenVars => GrantSound'
<1> SUFFICES ASSUME GrantSound, [TokensNext]_tokenVars PROVE GrantSound'
    OBVIOUS
<1>1. CASE ExchangeCode
  <2>1. /\ granted' = granted + 1 /\ offers' = offers \cup {granted + 1}
        /\ UNCHANGED <<account, user, refused, lost, consent>>
        /\ \/ usable' = usable \cup {granted + 1} /\ standing' = standing
           \/ usable' = {granted + 1} /\ standing' = granted + 1
      BY <1>1 DEF ExchangeCode
  <2>2. /\ granted \in Nat /\ granted + 1 \in Nat /\ 1 <= granted + 1
        /\ account.token \in Nat /\ account.token <= granted
        /\ \A u \in Users : user[u].token \in Nat /\ user[u].token <= granted
      BY DEF GrantSound, RowSound, UsersSound, UserRow
  <2>3. RowSound'
      BY <2>1, <2>2 DEF GrantSound, RowSound
  <2>4. UsersSound'
      BY <2>1, <2>2 DEF GrantSound, UsersSound
  <2>5. (consent >= standing)' => consent >= standing /\ usable \subseteq usable'
      BY <2>1, <2>2 DEF GrantSound, OffersSound
  <2>6. RefreshesSound'
      BY <2>1, <2>5 DEF GrantSound, RefreshesSound, OffersSound
  <2>7. OffersSound'
      BY <2>1, <2>2 DEF GrantSound, OffersSound
  <2>8. NotesSound' /\ TokenHeld'
      BY <2>1, <2>5 DEF GrantSound, NotesSound, Noted, TokenHeld, OffersSound
  <2> QED BY <2>3, <2>4, <2>6, <2>7, <2>8 DEF GrantSound
<1>4. CASE SaveGrant
  <2>1. PICK t \in offers :
          /\ account' = [token |-> t, expires |-> "later", status |-> "connected"]
          /\ offers' = offers \ {t} /\ consent' = t
      BY <1>4 DEF SaveGrant
  <2>2. RowUnlocked /\ lost' = FALSE /\ refused' = FALSE /\ UNCHANGED <<user, usable, granted, standing>>
      BY <1>4 DEF SaveGrant
  <2>3. /\ t \in Nat /\ 1 <= t /\ t <= granted /\ (t >= standing => t \in usable)
        /\ \A u \in Users : user[u].token # t
      BY <2>1 DEF GrantSound, OffersSound
  <2>4. RowSound'
      BY <2>1, <2>2, <2>3 DEF GrantSound, RowSound, Blank, Statuses
  <2>5. UsersSound'
      BY <2>2 DEF GrantSound, UsersSound
  <2>6. RefreshesSound'
      BY <2>2 DEF RefreshesSound, RowUnlocked
  <2>7. OffersSound'
      BY <2>1, <2>2, <2>3 DEF GrantSound, OffersSound
  <2>8. NotesSound' /\ TokenHeld'
      BY <2>1, <2>2, <2>3 DEF NotesSound, Noted, TokenHeld
  <2> QED BY <2>4, <2>5, <2>6, <2>7, <2>8 DEF GrantSound
<1>5. CASE CallbackFails
  <2>1. offers' \subseteq offers /\ UNCHANGED <<account, user, usable, granted, refused, lost, consent, standing>>
      BY <1>5 DEF CallbackFails
  <2> QED BY <2>1 DEF GrantSound, RowSound, UsersSound, RefreshesSound, OffersSound, NotesSound, Noted, TokenHeld
<1>2. CASE ExpiryNears
  <2>1. /\ UNCHANGED <<user, usable, granted, refused, lost, callbackVars>>
        /\ account' = [account EXCEPT !.expires = IF account.expires = "later" THEN "soon" ELSE "past"]
      BY <1>2 DEF ExpiryNears
  <2>2. account'.token = account.token /\ account'.status = account.status
        /\ account' \in [token : Nat, expires : {"never", "later", "soon", "past"}, status : Statuses]
      BY <2>1 DEF GrantSound, RowSound
  <2> QED BY <2>1, <2>2 DEF GrantSound, RowSound, UsersSound, RefreshesSound, OffersSound, NotesSound, Noted, TokenHeld,
                           callbackVars
<1>3. CASE UNCHANGED tokenVars
    BY <1>3 DEF tokenVars, GrantSound, RowSound, UsersSound, RefreshesSound, OffersSound, NotesSound, Noted, TokenHeld
<1> QED BY <1>1, <1>2, <1>3, <1>4, <1>5, RefreshSteps, RotationSteps, RecordStep, DisconnectSteps DEF TokensNext

\* Whatever refreshes, probes, disconnects and callbacks of a reconnect race
\* each other, the row of a channel keeps a token the platform accepts, unless a
\* rotation's answer is lost or the callback of a consent that ended the row's
\* grant is under way, fails or is overtaken by an older one; and it reads broken
\* only if it was this grant that failed (social_accounts/models.py, tasks.py,
\* views.py).
THEOREM GrantKept == TokensSpec => []GrantIsKept
<1>1. GrantSound => GrantIsKept
    BY DEF GrantSound, RowSound, NotesSound, TokenHeld, GrantIsKept
<1> QED BY <1>1, GrantSoundInit, GrantSoundStep, PTL DEF TokensSpec

-----------------------------------------------------------------------------
(* Counting.                                                               *)

LEMMA FewerAreFewer ==
    ASSUME NEW S, IsFiniteSet(S), NEW T \in SUBSET S
    PROVE  /\ IsFiniteSet(T) /\ Cardinality(T) \in Nat /\ Cardinality(S) \in Nat
           /\ Cardinality(T) <= Cardinality(S)
    BY FS_Subset, FS_CardinalityType

LEMMA OneMoreCounts ==
    ASSUME NEW S, IsFiniteSet(S), NEW x, NEW T \in SUBSET (S \cup {x})
    PROVE  Cardinality(T) \in Nat /\ Cardinality(S) \in Nat /\ Cardinality(T) <= Cardinality(S) + 1
<1>1. IsFiniteSet(S \cup {x}) /\ Cardinality(S \cup {x}) <= Cardinality(S) + 1
      /\ Cardinality(S) \in Nat /\ Cardinality(S \cup {x}) \in Nat
    BY FS_AddElement, FS_CardinalityType
<1> QED BY <1>1, FewerAreFewer

LEMMA OneLessCounts ==
    ASSUME NEW S, IsFiniteSet(S), NEW x \in S, NEW T \in SUBSET (S \ {x})
    PROVE  Cardinality(T) \in Nat /\ Cardinality(S) \in Nat /\ Cardinality(T) + 1 <= Cardinality(S)
<1>1. IsFiniteSet(S \ {x}) /\ Cardinality(S \ {x}) = Cardinality(S) - 1
      /\ Cardinality(S) \in Nat /\ Cardinality(S \ {x}) \in Nat
    BY FS_RemoveElement, FS_CardinalityType
<1> QED BY <1>1, FewerAreFewer

-----------------------------------------------------------------------------
(* The first comment.                                                      *)

CommenterRow == [step : {"idle", "loaded", "checked", "landed", "failing", "requeue", "ending"},
                 tries : Nat, again : BOOLEAN]

\* A comment is there, and a retry will find it.
Found == canLookUp /\ comments > 0

\* The workers whose task may still comment, now or when it is queued again ...
MayComment(h) ==
    \/ commenter[h].step = "loaded" /\ ~(commenter[h].tries > 0 /\ Found)
    \/ commenter[h].step = "checked"
    \/ commenter[h].step = "failing" /\ commenter[h].again /\ ~Found
    \/ commenter[h].step = "requeue" /\ ~Found
Live == {h \in Commenters : MayComment(h)}

\* ... and the tasks in the queue that may.
LiveTasks == IF Found /\ comment.retries > 0 THEN 0 ELSE commentTasks

CommentTyped ==
    /\ comment \in [status : {"none", "pending", "posted", "failed"}, retries : Nat]
    /\ comments \in Nat /\ commentTasks \in Nat /\ commentFaults \in Nat /\ canLookUp \in BOOLEAN
    /\ commenter \in [Commenters -> CommenterRow]

\* The comments that are there and those still to come are one, and one more for
\* each fault.
CommentsCounted ==
    /\ CommentTyped
    /\ comments + LiveTasks + Cardinality(Live) <= 1 + commentFaults
    /\ asked = "no" => comments = 0 /\ commentTasks = 0 /\ \A h \in Commenters : commenter[h].step = "idle"
    /\ \A h \in Commenters : commenter[h].step = "requeue" => comment.retries > 0

LEMMA LiveFinite == IsFiniteSet(Live) /\ Cardinality(Live) \in Nat
<1>1. Live \subseteq Commenters
    BY DEF Live
<1> QED BY <1>1, FewerAreFewer, FirstCommentAssumption

LEMMA CommentsCountedInit == FirstCommentInit => CommentsCounted
<1> SUFFICES ASSUME FirstCommentInit PROVE CommentsCounted
    OBVIOUS
<1>1. NotCommenting \in CommenterRow /\ NotCommenting.step = "idle"
    BY DEF NotCommenting, CommenterRow
<1>2. CommentTyped /\ \A h \in Commenters : commenter[h].step = "idle"
    BY <1>1 DEF FirstCommentInit, CommentTyped
<1>3. Live = {}
    BY <1>2 DEF Live, MayComment
<1>4. Cardinality(Live) = 0
    BY <1>3, FS_EmptySet
<1> QED BY <1>2, <1>4 DEF FirstCommentInit, CommentsCounted, LiveTasks

\* A step of one worker: what it does to the count.
LEMMA CommenterStep ==
    ASSUME CommentsCounted, NEW h \in Commenters, NEW line \in CommenterRow,
           commenter' = [commenter EXCEPT ![h] = line],
           CommentTyped', canLookUp' = canLookUp, asked' = asked, asked # "no",
           comment'.retries >= comment.retries, comments' >= comments,
           line.step = "requeue" => comment'.retries > 0,
           \/ MayComment(h) /\ ~MayComment(h)' /\ comments' + LiveTasks' + commentFaults <= comments + LiveTasks + commentFaults' + 1
           \/ (MayComment(h)' => MayComment(h)) /\ comments' + LiveTasks' + commentFaults <= comments + LiveTasks + commentFaults'
           \/ comments' + LiveTasks' + commentFaults + 1 <= comments + LiveTasks + commentFaults'
    PROVE  CommentsCounted'
<1>1. commenter'[h] = line /\ \A g \in Commenters \ {h} : commenter'[g] = commenter[g]
    BY DEF CommentsCounted, CommentTyped
<1>2. Found => Found'
    BY DEF Found, CommentsCounted, CommentTyped
<1>3. ASSUME NEW g \in Commenters \ {h}, MayComment(g)' PROVE MayComment(g)
    BY <1>1, <1>2, <1>3 DEF MayComment
<1>4. Live' \subseteq Live \cup {h}
    BY <1>3 DEF Live
<1>5. \A g \in Commenters : commenter'[g].step = "requeue" => comment'.retries > 0
    BY <1>1 DEF CommentsCounted, CommentTyped
<1>6. LiveTasks \in Nat /\ LiveTasks' \in Nat /\ {comments, comments', commentFaults, commentFaults'} \subseteq Nat
    BY DEF LiveTasks, CommentsCounted, CommentTyped
<1>7. Cardinality(Live) \in Nat /\ Cardinality(Live') \in Nat /\ IsFiniteSet(Live)
  <2>1. Live \cup {h} \in SUBSET Commenters /\ Live' \in SUBSET Commenters
      BY DEF Live
  <2> QED BY <2>1, LiveFinite, FewerAreFewer, FirstCommentAssumption
<1>8. comments' + LiveTasks' + Cardinality(Live') <= 1 + commentFaults'
  <2>0. comments + LiveTasks + Cardinality(Live) <= 1 + commentFaults
      BY DEF CommentsCounted
  <2>1. CASE /\ MayComment(h) /\ ~MayComment(h)'
             /\ comments' + LiveTasks' + commentFaults <= comments + LiveTasks + commentFaults' + 1
    <3>1. h \in Live /\ Live' \in SUBSET (Live \ {h})
        BY <1>4, <2>1 DEF Live
    <3>2. Cardinality(Live') + 1 <= Cardinality(Live)
        BY <1>7, <3>1, OneLessCounts
    <3> QED BY <1>6, <1>7, <2>0, <2>1, <3>2
  <2>2. CASE /\ MayComment(h)' => MayComment(h)
             /\ comments' + LiveTasks' + commentFaults <= comments + LiveTasks + commentFaults'
    <3>1. Live' \in SUBSET Live
        BY <1>4, <2>2 DEF Live
    <3>2. Cardinality(Live') <= Cardinality(Live)
        BY <1>7, <3>1, FewerAreFewer
    <3> QED BY <1>6, <1>7, <2>0, <2>2, <3>2
  <2>3. CASE comments' + LiveTasks' + commentFaults + 1 <= comments + LiveTasks + commentFaults'
    <3>1. Cardinality(Live') <= Cardinality(Live) + 1
        BY <1>4, <1>7, OneMoreCounts
    <3> QED BY <1>6, <1>7, <2>0, <2>3, <3>1
  <2> QED BY <2>1, <2>2, <2>3
<1> QED BY <1>5, <1>8 DEF CommentsCounted

LEMMA CommenterSteps ==
    ASSUME CommentsCounted, NEW h \in Commenters, CommenterMoves(h) \/ CommenterDies(h)
    PROVE  CommentsCounted'
<1>0. /\ commenter[h] \in CommenterRow /\ commenter \in [Commenters -> CommenterRow]
      /\ comment \in [status : {"none", "pending", "posted", "failed"}, retries : Nat]
      /\ comment.retries \in Nat /\ comments \in Nat /\ commentTasks \in Nat /\ commentFaults \in Nat
      /\ canLookUp \in BOOLEAN
    BY DEF CommentsCounted, CommentTyped
<1>s. ASSUME NEW step \in {"idle", "loaded", "checked", "landed", "failing", "requeue", "ending"}
      PROVE  /\ [commenter[h] EXCEPT !.step = step] \in CommenterRow
             /\ [commenter[h] EXCEPT !.step = step].step = step
             /\ [commenter[h] EXCEPT !.step = step].again = commenter[h].again
             /\ [commenter[h] EXCEPT !.step = step].tries = commenter[h].tries
    BY <1>0 DEF CommenterRow
<1>f. ASSUME NEW retry \in BOOLEAN
      PROVE  /\ [commenter[h] EXCEPT !.step = "failing", !.again = retry] \in CommenterRow
             /\ [commenter[h] EXCEPT !.step = "failing", !.again = retry].step = "failing"
             /\ [commenter[h] EXCEPT !.step = "failing", !.again = retry].again = retry
             /\ [commenter[h] EXCEPT !.step = "failing", !.again = retry].tries = commenter[h].tries
    BY <1>0 DEF CommenterRow
<1>i. NotCommenting \in CommenterRow /\ NotCommenting.step = "idle"
    BY DEF NotCommenting, CommenterRow
<1>a. commenter[h].step # "idle" \/ commentTasks > 0 => asked # "no"
    BY <1>0 DEF CommentsCounted
<1>1. CASE TakeCommentTask(h)
  <2>1. PICK over \in BOOLEAN : commenter' = [commenter EXCEPT ![h] =
            [step |-> IF over THEN "ending" ELSE "loaded", tries |-> comment.retries, again |-> FALSE]]
      BY <1>1 DEF TakeCommentTask
  <2> DEFINE line == [step |-> IF over THEN "ending" ELSE "loaded", tries |-> comment.retries, again |-> FALSE]
  <2>2. line \in CommenterRow /\ line.step \in {"ending", "loaded"} /\ line.tries = comment.retries
        /\ commenter' = [commenter EXCEPT ![h] = line]
      BY <1>0, <2>1 DEF CommenterRow
  <2> HIDE DEF line
  <2>3. commenter'[h] = line /\ commenter' \in [Commenters -> CommenterRow]
      BY <1>0, <2>2
  <2>4. commentTasks > 0 /\ commentTasks' = commentTasks - 1
        /\ UNCHANGED <<comment, comments, asked, canLookUp, commentFaults>>
      BY <1>1 DEF TakeCommentTask
  <2>5. CommentTyped'
      BY <1>0, <2>3, <2>4 DEF CommentTyped
  <2>6. CASE Found /\ comment.retries > 0
    <3>1. ~MayComment(h)' /\ LiveTasks' = 0 /\ LiveTasks = 0
        BY <2>2, <2>3, <2>4, <2>6 DEF MayComment, LiveTasks, Found
    <3>2. comments' + LiveTasks' + commentFaults <= comments + LiveTasks + commentFaults'
          /\ comment'.retries >= comment.retries /\ comments' >= comments
        BY <1>0, <2>4, <3>1
    <3> QED BY <1>a, <2>2, <2>4, <2>5, <3>1, <3>2, CommenterStep
  <2>7. CASE ~(Found /\ comment.retries > 0)
    <3>1. LiveTasks' = LiveTasks - 1 /\ LiveTasks \in Nat
        BY <1>0, <2>4, <2>7 DEF LiveTasks, Found
    <3>2. comments' + LiveTasks' + commentFaults + 1 <= comments + LiveTasks + commentFaults'
          /\ comment'.retries >= comment.retries /\ comments' >= comments
        BY <1>0, <2>4, <3>1
    <3> QED BY <1>a, <2>2, <2>4, <2>5, <3>2, CommenterStep
  <2> QED BY <2>6, <2>7
<1>2. ASSUME NEW line \in CommenterRow, commenter' = [commenter EXCEPT ![h] = line], asked # "no", line.step # "requeue",
             UNCHANGED <<comment, comments, asked, commentTasks, canLookUp, commentFaults>>,
             MayComment(h)' => MayComment(h)
      PROVE  CommentsCounted'
  <2>1. commenter' \in [Commenters -> CommenterRow]
      BY <1>0, <1>2
  <2>2. CommentTyped' /\ LiveTasks' = LiveTasks /\ LiveTasks \in Nat
      BY <1>0, <1>2, <2>1 DEF CommentTyped, LiveTasks, Found
  <2>3. comments' + LiveTasks' + commentFaults <= comments + LiveTasks + commentFaults'
        /\ comment'.retries >= comment.retries /\ comments' >= comments
      BY <1>0, <1>2, <2>2
  <2> QED BY <1>2, <2>2, <2>3, CommenterStep
<1>3. CASE CannotComment(h)
  <2>1. PICK retry \in BOOLEAN : commenter' = [commenter EXCEPT ![h] = [commenter[h] EXCEPT !.step = "failing", !.again = retry]]
      BY <1>3 DEF CannotComment, GoesFailing
  <2>2. commenter[h].step = "loaded" /\ UNCHANGED <<comment, comments, asked, commentTasks, canLookUp, commentFaults>>
      BY <1>3 DEF CannotComment
  <2>3. commenter'[h].step = "failing" /\ Found' = Found
      BY <1>0, <1>f, <2>1, <2>2 DEF Found
  <2>4. MayComment(h)' => MayComment(h)
      BY <2>2, <2>3 DEF MayComment
  <2> QED BY <1>2, <1>a, <1>f, <2>1, <2>2, <2>4
<1>4. CASE LookUp(h)
  <2>1. commenter[h].step = "loaded" /\ UNCHANGED <<comment, comments, asked, commentTasks, canLookUp, commentFaults>>
        /\ Found' = Found
      BY <1>4 DEF LookUp, Found
  <2>2. CASE MustLookUp(h) /\ GoesFailing(h, TRUE)
    <3>1. commenter' = [commenter EXCEPT ![h] = [commenter[h] EXCEPT !.step = "failing", !.again = TRUE]]
        BY <2>2 DEF GoesFailing
    <3>2. commenter'[h].step = "failing"
        BY <1>0, <1>f, <3>1
    <3>3. MayComment(h)' => MayComment(h)
        BY <2>1, <3>2 DEF MayComment
    <3> QED BY <1>2, <1>a, <1>f, <2>1, <3>1, <3>3
  <2>3. CASE \E step \in {"landed", "checked"} : Goes(h, step) /\ (step = "checked" => ~MustLookUp(h) \/ comments = 0)
    <3>1. PICK step \in {"landed", "checked"} : Goes(h, step) /\ (step = "checked" => ~MustLookUp(h) \/ comments = 0)
        BY <2>3
    <3>2. commenter' = [commenter EXCEPT ![h] = [commenter[h] EXCEPT !.step = step]]
        BY <3>1 DEF Goes
    <3>3. commenter'[h].step = step
        BY <1>0, <1>s, <3>2
    <3>4. MayComment(h)' => MayComment(h)
        BY <1>0, <2>1, <3>1, <3>3 DEF MayComment, MustLookUp, Found
    <3> QED BY <1>2, <1>a, <1>s, <2>1, <3>2, <3>4
  <2>4. CASE MustLookUp(h) /\ Goes(h, IF comments > 0 THEN "landed" ELSE "checked")
      BY <1>0, <2>3, <2>4
  <2>5. CASE ~MustLookUp(h) /\ Goes(h, "checked")
      BY <2>3, <2>5
  <2> QED BY <1>4, <2>2, <2>4, <2>5, Zenon DEF LookUp
<1>5. CASE PublishComment(h)
  <2>1. commenter[h].step = "checked" /\ MayComment(h) /\ UNCHANGED <<comment, asked, commentTasks, canLookUp, commentFaults>>
      BY <1>5 DEF PublishComment, MayComment
  <2>2. ASSUME NEW line \in CommenterRow, commenter' = [commenter EXCEPT ![h] = line], line.step # "requeue",
               line.step = "landed" \/ (line.step = "failing" /\ (line.again => canLookUp)), comments' = comments + 1
        PROVE  CommentsCounted'
    <3>1. commenter'[h] = line /\ commenter' \in [Commenters -> CommenterRow]
        BY <1>0, <2>2
    <3>2. CommentTyped' /\ LiveTasks' <= LiveTasks /\ {LiveTasks, LiveTasks'} \subseteq Nat
        BY <1>0, <2>1, <2>2, <3>1 DEF CommentTyped, LiveTasks, Found
    <3>3. ~MayComment(h)'
        BY <1>0, <2>1, <2>2, <3>1 DEF MayComment, Found
    <3>4. commentFaults' = commentFaults /\ comment' = comment
        BY <2>1
    <3>5. comments' + LiveTasks' + commentFaults <= comments + LiveTasks + commentFaults' + 1
        BY <1>0, <2>2, <3>2, <3>4
    <3>6. comment'.retries >= comment.retries /\ comments' >= comments
        BY <1>0, <2>2, <3>4
    <3> QED BY <1>a, <2>1, <2>2, <3>2, <3>3, <3>5, <3>6, CommenterStep
  <2>3. ASSUME NEW retry \in BOOLEAN, GoesFailing(h, retry), comments' = comments PROVE CommentsCounted'
    <3>1. commenter' = [commenter EXCEPT ![h] = [commenter[h] EXCEPT !.step = "failing", !.again = retry]]
        BY <2>3 DEF GoesFailing
    <3> QED BY <1>2, <1>a, <1>f, <2>1, <2>3, <3>1
  <2>4. ASSUME NEW retry \in BOOLEAN, GoesFailing(h, retry), retry => canLookUp, comments' = comments + 1
        PROVE  CommentsCounted'
    <3>1. commenter' = [commenter EXCEPT ![h] = [commenter[h] EXCEPT !.step = "failing", !.again = retry]]
        BY <2>4 DEF GoesFailing
    <3> QED BY <1>f, <2>2, <2>4, <3>1
  <2>5. ASSUME Goes(h, "landed"), comments' = comments + 1 PROVE CommentsCounted'
    <3>1. commenter' = [commenter EXCEPT ![h] = [commenter[h] EXCEPT !.step = "landed"]]
        BY <2>5 DEF Goes
    <3> QED BY <1>s, <2>2, <2>5, <3>1
  <2>6. CASE Goes(h, "landed") /\ comments' = comments + 1
      BY <2>5, <2>6
  <2>7. CASE GoesFailing(h, RetryableUnknown) /\ comments' \in {comments, comments + 1}
      BY <1>0, <2>3, <2>4, <2>7 DEF RetryableUnknown
  <2>8. CASE GoesFailing(h, TRUE) /\ UNCHANGED comments
      BY <2>3, <2>8
  <2>9. CASE GoesFailing(h, FALSE) /\ comments' \in {comments, comments + 1}
      BY <2>3, <2>4, <2>9
  <2> QED BY <1>5, <2>6, <2>7, <2>8, <2>9, Zenon DEF PublishComment
<1>6. CASE MarkCommentPosted(h)
  <2>1. /\ commenter[h].step = "landed" /\ UNCHANGED <<comments, asked, commentTasks, canLookUp>>
        /\ commenter' = [commenter EXCEPT ![h] = [commenter[h] EXCEPT !.step = "ending"]]
        /\ \/ comment' = [comment EXCEPT !.status = "posted"] /\ commentFaults' = commentFaults
           \/ comment' = comment /\ commentFaults' = commentFaults + 1
      BY <1>6 DEF MarkCommentPosted, Goes
  <2>2. comment' \in [status : {"none", "pending", "posted", "failed"}, retries : Nat] /\ comment'.retries = comment.retries
      BY <1>0, <2>1
  <2>3. commenter'[h].step = "ending" /\ commenter' \in [Commenters -> CommenterRow]
      BY <1>0, <1>s, <2>1
  <2>4. ~MayComment(h)' /\ LiveTasks' = LiveTasks /\ LiveTasks \in Nat
      BY <1>0, <2>1, <2>2, <2>3 DEF MayComment, LiveTasks, Found
  <2>5. CommentTyped'
      BY <1>0, <2>1, <2>2, <2>3 DEF CommentTyped
  <2>6. comments' + LiveTasks' + commentFaults <= comments + LiveTasks + commentFaults'
        /\ comment'.retries >= comment.retries /\ comments' >= comments
      BY <1>0, <2>1, <2>2, <2>4
  <2> QED BY <1>a, <1>s, <2>1, <2>4, <2>5, <2>6, CommenterStep
<1>7. CASE RecordCommentFailure(h)
  <2>1. commenter[h].step = "failing" /\ UNCHANGED <<comments, asked, commentTasks, canLookUp, commentFaults>>
      BY <1>7 DEF RecordCommentFailure
  <2>2. PICK step \in {"requeue", "ending"} :
            /\ commenter' = [commenter EXCEPT ![h] = [commenter[h] EXCEPT !.step = step]]
            /\ step = "requeue" => commenter[h].again /\ comment' = [status |-> "pending", retries |-> comment.retries + 1]
            /\ step = "ending" => comment' = [comment EXCEPT !.status = "failed"]
    <3>1. CASE commenter[h].again /\ ~Exhausted(h)
        BY <1>7, <3>1 DEF RecordCommentFailure, Goes
    <3>2. CASE ~(commenter[h].again /\ ~Exhausted(h))
        BY <1>7, <3>2 DEF RecordCommentFailure, Goes
    <3> QED BY <3>1, <3>2
  <2>3. comment' \in [status : {"none", "pending", "posted", "failed"}, retries : Nat] /\ comment'.retries >= comment.retries
        /\ (step = "requeue" => comment'.retries > 0)
      BY <1>0, <2>2
  <2>4. commenter'[h].step = step /\ commenter' \in [Commenters -> CommenterRow]
      BY <1>0, <1>s, <2>2
  <2>5. MayComment(h)' => MayComment(h)
      BY <2>1, <2>2, <2>4 DEF MayComment, Found
  <2>6. LiveTasks' <= LiveTasks /\ {LiveTasks, LiveTasks'} \subseteq Nat
      BY <1>0, <2>1, <2>3 DEF LiveTasks, Found
  <2>7. CommentTyped'
      BY <1>0, <2>1, <2>3, <2>4 DEF CommentTyped
  <2>8. comments' + LiveTasks' + commentFaults <= comments + LiveTasks + commentFaults' /\ comments' >= comments
      BY <1>0, <2>1, <2>6
  <2> QED BY <1>a, <1>s, <2>1, <2>2, <2>3, <2>5, <2>7, <2>8, CommenterStep
<1>8. CASE RequeueComment(h)
  <2>1. /\ commenter[h].step = "requeue" /\ UNCHANGED <<comment, comments, asked, canLookUp, commentFaults>>
        /\ commenter' = [commenter EXCEPT ![h] = [commenter[h] EXCEPT !.step = "ending"]]
        /\ commentTasks' = commentTasks + 1 /\ comment.retries > 0
      BY <1>8 DEF RequeueComment, Goes, CommentsCounted
  <2>2. commenter'[h].step = "ending" /\ commenter' \in [Commenters -> CommenterRow]
      BY <1>0, <1>s, <2>1
  <2>3. CommentTyped' /\ ~MayComment(h)'
      BY <1>0, <2>1, <2>2 DEF CommentTyped, MayComment
  <2>4. CASE Found
    <3>1. LiveTasks = 0 /\ LiveTasks' = 0
        BY <1>0, <2>1, <2>4 DEF LiveTasks, Found
    <3>2. comments' + LiveTasks' + commentFaults <= comments + LiveTasks + commentFaults'
          /\ comment'.retries >= comment.retries /\ comments' >= comments
        BY <1>0, <2>1, <3>1
    <3> QED BY <1>a, <1>s, <2>1, <2>3, <3>2, CommenterStep
  <2>5. CASE ~Found
    <3>1. LiveTasks = commentTasks /\ LiveTasks' = commentTasks + 1 /\ MayComment(h)
        BY <1>0, <2>1, <2>5 DEF LiveTasks, Found, MayComment
    <3>2. comments' + LiveTasks' + commentFaults <= comments + LiveTasks + commentFaults' + 1
          /\ comment'.retries >= comment.retries /\ comments' >= comments
        BY <1>0, <2>1, <3>1
    <3> QED BY <1>a, <1>s, <2>1, <2>3, <3>1, <3>2, CommenterStep
  <2> QED BY <2>4, <2>5
<1>9. CASE CommentTaskEnds(h)
  <2>1. commenter[h].step = "ending" /\ commenter' = [commenter EXCEPT ![h] = NotCommenting]
        /\ UNCHANGED <<comment, comments, asked, commentTasks, canLookUp, commentFaults>>
      BY <1>9 DEF CommentTaskEnds
  <2>2. ~MayComment(h)'
      BY <1>0, <1>i, <2>1 DEF MayComment
  <2> QED BY <1>2, <1>a, <1>i, <2>1, <2>2
<1>10. CASE CommenterDies(h)
  <2>1. /\ commenter[h].step # "idle" /\ commenter' = [commenter EXCEPT ![h] = NotCommenting]
        /\ commentFaults' = commentFaults + 1 /\ commentTasks' = commentTasks + 1
        /\ UNCHANGED <<comment, comments, asked, canLookUp>>
      BY <1>10 DEF CommenterDies
  <2>2. commenter'[h].step = "idle" /\ commenter' \in [Commenters -> CommenterRow]
      BY <1>0, <1>i, <2>1
  <2>3. CommentTyped' /\ ~MayComment(h)'
      BY <1>0, <2>1, <2>2 DEF CommentTyped, MayComment
  <2>4. LiveTasks' <= LiveTasks + 1 /\ {LiveTasks, LiveTasks'} \subseteq Nat
      BY <1>0, <2>1 DEF LiveTasks, Found
  <2>5. comments' + LiveTasks' + commentFaults <= comments + LiveTasks + commentFaults'
        /\ comment'.retries >= comment.retries /\ comments' >= comments
      BY <1>0, <2>1, <2>4
  <2> QED BY <1>a, <1>i, <2>1, <2>3, <2>5, CommenterStep
<1> QED BY <1>1, <1>3, <1>4, <1>5, <1>6, <1>7, <1>8, <1>9, <1>10 DEF CommenterMoves

LEMMA CommentsCountedStep == CommentsCounted /\ [FirstCommentNext]_commentVars => CommentsCounted'
<1> SUFFICES ASSUME CommentsCounted, [FirstCommentNext]_commentVars PROVE CommentsCounted'
    OBVIOUS
<1>1. CASE AskForComment
  <2>1. /\ asked = "no" /\ asked' = "queued" /\ commentTasks' = commentTasks + 1
        /\ UNCHANGED <<comment, comments, commenter, canLookUp, commentFaults>>
      BY <1>1 DEF AskForComment
  <2>2. comments = 0 /\ commentTasks = 0 /\ \A h \in Commenters : commenter[h].step = "idle"
      BY <2>1 DEF CommentsCounted
  <2>3. CommentTyped'
      BY <2>1 DEF CommentsCounted, CommentTyped
  <2>4. Live' = {}
      BY <2>1, <2>2 DEF Live, MayComment
  <2>5. Cardinality(Live') = 0
      BY <2>4, FS_EmptySet
  <2>6. comments' = 0 /\ LiveTasks' <= 1 /\ {LiveTasks', commentFaults} \subseteq Nat /\ commentFaults' = commentFaults
      BY <2>1, <2>2 DEF LiveTasks, CommentsCounted, CommentTyped
  <2>7. comments' + LiveTasks' + Cardinality(Live') <= 1 + commentFaults'
      BY <2>5, <2>6
  <2>8. \A h \in Commenters : commenter'[h].step # "requeue"
      BY <2>1, <2>2
  <2> QED BY <2>1, <2>3, <2>7, <2>8 DEF CommentsCounted
<1>2. ASSUME UNCHANGED <<comments, commentTasks, commenter, canLookUp>>, asked' = asked \/ asked' # "no",
             comment' \in [status : {"none", "pending", "posted", "failed"}, retries : Nat],
             comment'.retries = comment.retries, commentFaults' \in {commentFaults, commentFaults + 1}
      PROVE  CommentsCounted'
  <2>1. Live' = Live /\ LiveTasks' = LiveTasks
      BY <1>2 DEF Live, MayComment, LiveTasks, Found
  <2>2. CommentTyped'
      BY <1>2 DEF CommentsCounted, CommentTyped
  <2>3. Cardinality(Live) \in Nat /\ LiveTasks \in Nat /\ comments \in Nat /\ commentFaults \in Nat
      BY LiveFinite DEF CommentsCounted, CommentTyped, LiveTasks
  <2>4. comments' + LiveTasks' + Cardinality(Live') <= 1 + commentFaults'
      BY <1>2, <2>1, <2>3 DEF CommentsCounted
  <2> QED BY <1>2, <2>2, <2>4 DEF CommentsCounted
<1>t. comment \in [status : {"none", "pending", "posted", "failed"}, retries : Nat]
    BY DEF CommentsCounted, CommentTyped
<1>3. CASE MarkPending
    BY <1>2, <1>3, <1>t DEF MarkPending
<1>4. CASE AskerDies
    BY <1>2, <1>4, <1>t DEF AskerDies
<1>5. CASE RemoveText
    BY <1>2, <1>5, <1>t DEF RemoveText
<1>6. CASE UNCHANGED commentVars
    BY <1>2, <1>6, <1>t DEF commentVars
<1> QED BY <1>1, <1>3, <1>4, <1>5, <1>6, CommenterSteps DEF FirstCommentNext

\* A live post gets one comment of ours, and one more for each death or database
\* failure at most, however many workers run its task and whatever the platform
\* answers (publisher/engine.py, _post_first_comment_task).
THEOREM CommentedOnce == CommentSpec => []OneFirstComment
<1>1. CommentsCounted => OneFirstComment
  <2> SUFFICES ASSUME CommentsCounted PROVE OneFirstComment
      OBVIOUS
  <2>1. Cardinality(Live) \in Nat /\ LiveTasks \in Nat /\ comments \in Nat /\ commentFaults \in Nat
      BY LiveFinite DEF CommentsCounted, CommentTyped, LiveTasks
  <2> QED BY <2>1 DEF CommentsCounted, OneFirstComment
<1> QED BY <1>1, CommentsCountedInit, CommentsCountedStep, PTL DEF CommentSpec

-----------------------------------------------------------------------------
(* Notification email.                                                     *)

DeliveryRow == [status : {"new", "pending", "delivered", "failed"}, attempts : Nat,
                claim : {NoClaim, "fresh", "stale"}, retry : {"none", "ahead", "past"}]
SweeperRow == [does : {"picked", "claimed", "sent", "unsent", "refused"}, rows : SUBSET Batched]
DispatcherRow == [does : {"due", "dispatching", "dispatched", "undispatched", "dropped"},
                  row : Deliveries \ Batched, attempts : Nat]
MailerRow == {Waiting} \cup SweeperRow \cup DispatcherRow

MailTyped ==
    /\ delivery \in [Deliveries -> DeliveryRow] /\ mailer \in [Mailers -> MailerRow]
    /\ mails \in [Deliveries -> Nat] /\ lapses \in [Deliveries -> Nat]

\* The processes that have picked, or claimed, a row.
Has(line, does, d) == line.does = does /\ d \in line.rows
Having(does, d) == {m \in Mailers : Has(mailer[m], does, d)}
FreshClaim(d) == IF delivery[d].claim = "fresh" THEN 1 ELSE 0

\* Who has picked a row may charge one attempt more; who has claimed it may send
\* one email more, on the attempt and on the claim that are already counted.
RowBounded(d) ==
    /\ delivery[d].attempts + Cardinality(Having("picked", d)) < MailAttempts + Cardinality(Mailers)
    /\ mails[d] + Cardinality(Having("claimed", d)) <= delivery[d].attempts
    /\ mails[d] + Cardinality(Having("claimed", d)) <= lapses[d] + FreshClaim(d)

MailCounted == MailTyped /\ \A d \in Batched : RowBounded(d)

LEMMA HavingCounts ==
    ASSUME NEW does, NEW d
    PROVE  /\ IsFiniteSet(Having(does, d)) /\ Cardinality(Having(does, d)') <= Cardinality(Mailers)
           /\ {Cardinality(Having(does, d)), Cardinality(Having(does, d)'), Cardinality(Mailers)} \subseteq Nat
<1>1. Having(does, d) \in SUBSET Mailers /\ Having(does, d)' \in SUBSET Mailers
    BY DEF Having
<1> QED BY <1>1, FewerAreFewer, EmailDigestAssumption

LEMMA MailNumbers ==
    ASSUME MailTyped, NEW d \in Batched
    PROVE  /\ d \in Deliveries /\ delivery[d] \in DeliveryRow
           /\ {delivery[d].attempts, mails[d], lapses[d], FreshClaim(d), MailAttempts} \subseteq Nat
<1>1. d \in Deliveries
    BY EmailDigestAssumption
<1>2. delivery[d] \in DeliveryRow /\ mails[d] \in Nat /\ lapses[d] \in Nat
    BY <1>1 DEF MailTyped
<1>3. delivery[d].attempts \in Nat
    BY <1>2 DEF DeliveryRow
<1>4. FreshClaim(d) \in Nat /\ MailAttempts \in Nat
    BY EmailDigestAssumption DEF FreshClaim
<1> QED BY <1>1, <1>2, <1>3, <1>4

LEMMA MailCountedInit == EmailDigestInit => MailCounted
<1> SUFFICES ASSUME EmailDigestInit PROVE MailCounted
    OBVIOUS
<1>1. MailTyped
    BY DEF EmailDigestInit, MailTyped, DeliveryRow, MailerRow, NoClaim
<1>2. ASSUME NEW d \in Batched PROVE RowBounded(d)
  <2>1. Having("picked", d) = {} /\ Having("claimed", d) = {}
      BY DEF EmailDigestInit, Having, Has, Waiting
  <2>2. delivery[d].attempts = 0 /\ mails[d] = 0 /\ lapses[d] = 0 /\ delivery[d].claim = NoClaim
      BY EmailDigestAssumption DEF EmailDigestInit
  <2>3. Cardinality(Having("picked", d)) = 0 /\ Cardinality(Having("claimed", d)) = 0
      BY <2>1, FS_EmptySet
  <2>4. MailAttempts \in Nat \ {0} /\ Cardinality(Mailers) \in Nat
      BY EmailDigestAssumption, HavingCounts
  <2> QED BY <2>2, <2>3, <2>4 DEF RowBounded, FreshClaim, NoClaim
<1> QED BY <1>1, <1>2 DEF MailCounted

\* A step of one process, as a change of who has the row.
LEMMA HavingMoves ==
    ASSUME MailTyped, NEW m \in Mailers, NEW line, mailer' = [mailer EXCEPT ![m] = line], NEW does, NEW d
    PROVE  /\ Cardinality(Having(does, d)') <= Cardinality(Having(does, d)) + 1
           /\ ~Has(line, does, d) => Cardinality(Having(does, d)') <= Cardinality(Having(does, d))
           /\ ~Has(line, does, d) /\ Has(mailer[m], does, d) =>
                 Cardinality(Having(does, d)') + 1 <= Cardinality(Having(does, d))
<1> DEFINE now == Having(does, d)
           then == {n \in Mailers : Has(mailer'[n], does, d)}
<1>1. Having(does, d)' = then
    BY DEF Having, Has
<1>2. mailer'[m] = line /\ \A n \in Mailers \ {m} : mailer'[n] = mailer[n]
    BY DEF MailTyped
<1>3. IsFiniteSet(now)
    BY HavingCounts
<1>4. then \in SUBSET (now \cup {m})
    BY <1>2 DEF Having
<1>5. {Cardinality(now), Cardinality(then)} \subseteq Nat /\ Cardinality(then) <= Cardinality(now) + 1
    BY <1>3, <1>4, OneMoreCounts
<1>6. ~Has(line, does, d) => Cardinality(then) <= Cardinality(now)
  <2>1. ~Has(line, does, d) => then \in SUBSET now
      BY <1>2 DEF Having
  <2> QED BY <1>3, <2>1, FewerAreFewer
<1>7. ~Has(line, does, d) /\ Has(mailer[m], does, d) => Cardinality(then) + 1 <= Cardinality(now)
  <2>1. ~Has(line, does, d) /\ Has(mailer[m], does, d) => m \in now /\ then \in SUBSET (now \ {m})
      BY <1>2 DEF Having
  <2> QED BY <1>3, <2>1, OneLessCounts
<1> QED BY <1>1, <1>5, <1>6, <1>7

\* A step that picks, claims and sends nothing.
LEMMA QuietMail ==
    ASSUME MailCounted, MailTyped',
           \/ mailer' = mailer
           \/ \E m \in Mailers : \E line \in MailerRow :
                 mailer' = [mailer EXCEPT ![m] = line] /\ line.does \notin {"picked", "claimed"},
           \A d \in Batched : /\ delivery'[d].attempts = delivery[d].attempts /\ mails'[d] = mails[d]
                              /\ lapses[d] + FreshClaim(d) <= lapses'[d] + FreshClaim(d)'
    PROVE  MailCounted'
<1> SUFFICES ASSUME NEW d \in Batched PROVE RowBounded(d)'
    BY DEF MailCounted
<1>1. ASSUME NEW does \in {"picked", "claimed"}
      PROVE  /\ {Cardinality(Having(does, d)), Cardinality(Having(does, d)')} \subseteq Nat
             /\ Cardinality(Having(does, d)') <= Cardinality(Having(does, d))
  <2>1. CASE mailer' = mailer
    <3>1. Having(does, d)' = Having(does, d)
        BY <2>1 DEF Having, Has
    <3> QED BY <3>1, HavingCounts
  <2>2. CASE \E m \in Mailers : \E line \in MailerRow :
                 mailer' = [mailer EXCEPT ![m] = line] /\ line.does \notin {"picked", "claimed"}
    <3>1. PICK m \in Mailers, line \in MailerRow : mailer' = [mailer EXCEPT ![m] = line] /\ ~Has(line, does, d)
        BY <2>2 DEF Has
    <3>2. MailTyped
        BY DEF MailCounted
    <3>3. mailer' = [mailer EXCEPT ![m] = line]
        BY <3>1
    <3>4. ~Has(line, does, d) => Cardinality(Having(does, d)') <= Cardinality(Having(does, d))
        BY <3>2, <3>3, HavingMoves
    <3> QED BY <3>1, <3>4, HavingCounts
  <2> QED BY <2>1, <2>2
<1>2. /\ {delivery[d].attempts, mails[d], lapses[d], FreshClaim(d), MailAttempts, Cardinality(Mailers)} \subseteq Nat
      /\ {lapses'[d], FreshClaim(d)'} \subseteq Nat
  <2>1. d \in Deliveries /\ lapses'[d] \in Nat /\ FreshClaim(d)' \in Nat
      BY EmailDigestAssumption DEF MailTyped, FreshClaim
  <2> QED BY <2>1, MailNumbers, HavingCounts DEF MailCounted
<1>3. RowBounded(d)
    BY DEF MailCounted
<1>4. /\ delivery[d].attempts + Cardinality(Having("picked", d)') < MailAttempts + Cardinality(Mailers)
      /\ mails[d] + Cardinality(Having("claimed", d)') <= delivery[d].attempts
    BY <1>1, <1>2, <1>3 DEF RowBounded
<1>5. mails[d] + Cardinality(Having("claimed", d)') <= lapses'[d] + FreshClaim(d)'
    BY <1>1, <1>2, <1>3 DEF RowBounded
<1> QED BY <1>4, <1>5 DEF RowBounded

LEMMA MailerKinds ==
    ASSUME MailTyped, NEW m \in Mailers
    PROVE  /\ mailer[m].does \in {"picked", "claimed", "sent", "unsent", "refused"} => mailer[m] \in SweeperRow
           /\ mailer[m].does \in {"due", "dispatching", "dispatched", "undispatched", "dropped"} => mailer[m] \in DispatcherRow
           /\ Waiting \in MailerRow /\ Waiting.does = "waiting"
<1>1. mailer[m] \in MailerRow
    BY DEF MailTyped
<1>2. Waiting.does = "waiting"
    BY DEF Waiting
<1>3. \A line \in SweeperRow : line.does \in {"picked", "claimed", "sent", "unsent", "refused"}
    BY DEF SweeperRow
<1>4. \A line \in DispatcherRow : line.does \in {"due", "dispatching", "dispatched", "undispatched", "dropped"}
    BY DEF DispatcherRow
<1> QED BY <1>1, <1>2, <1>3, <1>4 DEF MailerRow

\* A claim charges an attempt, and no other claim of the row was recent.
LEMMA ClaimStep ==
    ASSUME MailCounted, NEW m \in Mailers, ClaimRows(m)
    PROVE  MailCounted'
<1> DEFINE mine == {d \in mailer[m].rows : StillUnclaimed(d)}
           line == IF wanted /\ mine # {} THEN [does |-> "claimed", rows |-> mine] ELSE Waiting
<1>1. /\ mailer[m].does = "picked" /\ mails' = mails /\ lapses' = lapses
      /\ mailer' = [mailer EXCEPT ![m] = line]
      /\ delivery' = [d \in Deliveries |->
                        IF d \notin mine THEN delivery[d]
                        ELSE IF wanted THEN Charge(delivery[d])
                        ELSE [Charge(delivery[d]) EXCEPT !.status = "failed", !.claim = NoClaim]]
    BY Zenon DEF ClaimRows
<1>t. MailTyped
    BY DEF MailCounted
<1>2. mailer[m] \in SweeperRow /\ Waiting \in MailerRow /\ Waiting.does = "waiting"
    BY <1>1, <1>t, MailerKinds
<1>3. mine \subseteq Batched /\ mine \subseteq mailer[m].rows /\ \A d \in mine : delivery[d].claim # "fresh"
    BY <1>2 DEF SweeperRow, StillUnclaimed
<1> HIDE DEF mine
<1>4. line \in MailerRow /\ ~Has(line, "picked", 0) /\ line.does # "picked"
      /\ \A d : Has(line, "claimed", d) => d \in mine /\ wanted
    BY <1>2, <1>3 DEF MailerRow, SweeperRow, Has
<1> HIDE DEF line
<1>5. ASSUME NEW entry \in DeliveryRow
      PROVE  /\ Charge(entry) \in DeliveryRow /\ Charge(entry).attempts = entry.attempts + 1 /\ Charge(entry).claim = "fresh"
             /\ [Charge(entry) EXCEPT !.status = "failed", !.claim = NoClaim] \in DeliveryRow
             /\ [Charge(entry) EXCEPT !.status = "failed", !.claim = NoClaim].attempts = entry.attempts + 1
             /\ [Charge(entry) EXCEPT !.status = "failed", !.claim = NoClaim].claim = NoClaim
  <2>1. entry.attempts \in Nat /\ entry.attempts + 1 \in Nat
      BY DEF DeliveryRow
  <2>2. Charge(entry) \in DeliveryRow /\ Charge(entry).attempts = entry.attempts + 1 /\ Charge(entry).claim = "fresh"
      BY <2>1 DEF Charge, DeliveryRow
  <2> DEFINE charged == Charge(entry)
  <2> HIDE DEF charged
  <2>3. charged \in DeliveryRow => /\ [charged EXCEPT !.status = "failed", !.claim = NoClaim] \in DeliveryRow
                                   /\ [charged EXCEPT !.status = "failed", !.claim = NoClaim].attempts = charged.attempts
                                   /\ [charged EXCEPT !.status = "failed", !.claim = NoClaim].claim = NoClaim
      BY DEF DeliveryRow
  <2> QED BY <2>2, <2>3 DEF charged
<1>6. \A d \in Deliveries : delivery[d] \in DeliveryRow /\ delivery'[d] \in DeliveryRow
    BY <1>1, <1>5, <1>t DEF MailTyped
<1>7. MailTyped'
  <2>1. delivery' \in [Deliveries -> DeliveryRow]
      BY <1>1, <1>6
  <2> QED BY <1>1, <1>4, <1>t, <2>1 DEF MailTyped
<1>8. ASSUME NEW d \in Batched PROVE RowBounded(d)'
  <2>1. d \in Deliveries /\ RowBounded(d)
      BY EmailDigestAssumption DEF MailCounted
  <2>2. {delivery[d].attempts, mails[d], lapses[d], MailAttempts} \subseteq Nat
      BY <1>t, MailNumbers
  <2>3. \A does : {Cardinality(Having(does, d)), Cardinality(Having(does, d)'), Cardinality(Mailers)} \subseteq Nat
      BY HavingCounts
  <2>4. /\ Cardinality(Having("claimed", d)') <= Cardinality(Having("claimed", d)) + 1
        /\ ~Has(line, "claimed", d) => Cardinality(Having("claimed", d)') <= Cardinality(Having("claimed", d))
      BY <1>1, <1>t, HavingMoves
  <2>5. /\ Cardinality(Having("picked", d)') <= Cardinality(Having("picked", d))
        /\ Has(mailer[m], "picked", d) => Cardinality(Having("picked", d)') + 1 <= Cardinality(Having("picked", d))
    <3>1. ~Has(line, "picked", d)
        BY <1>4 DEF Has
    <3> QED BY <1>1, <1>t, <3>1, HavingMoves
  <2>6. CASE d \notin mine
    <3>1. delivery'[d] = delivery[d] /\ mails'[d] = mails[d] /\ lapses'[d] = lapses[d] /\ FreshClaim(d)' = FreshClaim(d)
        BY <1>1, <2>1, <2>6 DEF FreshClaim
    <3>2. Cardinality(Having("claimed", d)') <= Cardinality(Having("claimed", d))
        BY <1>4, <2>4, <2>6
    <3>3. FreshClaim(d) \in Nat
        BY DEF FreshClaim
    <3> QED BY <2>1, <2>2, <2>3, <2>5, <3>1, <3>2, <3>3 DEF RowBounded
  <2>7. CASE d \in mine
    <3>1. FreshClaim(d) = 0 /\ Has(mailer[m], "picked", d)
        BY <1>1, <1>3, <2>7 DEF FreshClaim, Has
    <3>2. delivery'[d].attempts = delivery[d].attempts + 1 /\ mails'[d] = mails[d] /\ lapses'[d] = lapses[d]
        BY <1>1, <1>5, <1>6, <2>1, <2>7
    <3>3. delivery'[d].attempts + Cardinality(Having("picked", d)') < MailAttempts + Cardinality(Mailers)
        BY <2>1, <2>2, <2>3, <2>5, <3>1, <3>2 DEF RowBounded
    <3>4. mails'[d] + Cardinality(Having("claimed", d)') <= delivery'[d].attempts
        BY <2>1, <2>2, <2>3, <2>4, <3>2 DEF RowBounded
    <3>5. CASE wanted
      <4>1. FreshClaim(d)' = 1
          BY <1>1, <1>5, <1>6, <2>1, <2>7, <3>5 DEF FreshClaim
      <4>2. mails'[d] + Cardinality(Having("claimed", d)') <= lapses'[d] + FreshClaim(d)'
          BY <2>1, <2>2, <2>3, <2>4, <3>1, <3>2, <4>1 DEF RowBounded
      <4> QED BY <3>3, <3>4, <4>2 DEF RowBounded
    <3>6. CASE ~wanted
      <4>1. FreshClaim(d)' \in Nat /\ Cardinality(Having("claimed", d)') <= Cardinality(Having("claimed", d))
          BY <1>4, <2>4, <3>6 DEF FreshClaim
      <4>2. mails'[d] + Cardinality(Having("claimed", d)') <= lapses'[d] + FreshClaim(d)'
          BY <2>1, <2>2, <2>3, <3>1, <3>2, <4>1 DEF RowBounded
      <4> QED BY <3>3, <3>4, <4>2 DEF RowBounded
    <3> QED BY <3>5, <3>6
  <2> QED BY <2>6, <2>7
<1> QED BY <1>7, <1>8 DEF MailCounted

LEMMA PickStep ==
    ASSUME MailCounted, NEW m \in Mailers, PickRows(m)
    PROVE  MailCounted'
<1> DEFINE line == [does |-> "picked", rows |-> {d \in Batched : Claimable(d)}]
<1>1. mailer' = [mailer EXCEPT ![m] = line] /\ UNCHANGED <<delivery, mails, lapses>>
    BY DEF PickRows
<1>t. MailTyped
    BY DEF MailCounted
<1>2. line \in MailerRow /\ \A d \in Batched : ~Has(line, "claimed", d) /\ (Has(line, "picked", d) => Claimable(d))
    BY DEF MailerRow, SweeperRow, Has
<1> HIDE DEF line
<1>3. MailTyped'
    BY <1>1, <1>2, <1>t DEF MailTyped
<1>4. ASSUME NEW d \in Batched PROVE RowBounded(d)'
  <2>1. RowBounded(d) /\ FreshClaim(d)' = FreshClaim(d) /\ FreshClaim(d) \in Nat
      BY <1>1 DEF MailCounted, FreshClaim
  <2>2. {delivery[d].attempts, mails[d], lapses[d], MailAttempts} \subseteq Nat
      BY <1>t, MailNumbers
  <2>3. \A does : {Cardinality(Having(does, d)), Cardinality(Having(does, d)'), Cardinality(Mailers)} \subseteq Nat
      BY HavingCounts
  <2>4. Cardinality(Having("claimed", d)') <= Cardinality(Having("claimed", d))
      BY <1>1, <1>2, <1>t, HavingMoves
  <2>5. delivery[d].attempts + Cardinality(Having("picked", d)') < MailAttempts + Cardinality(Mailers)
    <3>1. CASE Has(line, "picked", d)
      <4>1. delivery[d].attempts < MailAttempts
          BY <1>2, <3>1 DEF Claimable
      <4>2. Cardinality(Having("picked", d)') <= Cardinality(Mailers)
          BY HavingCounts
      <4> QED BY <2>2, <2>3, <4>1, <4>2
    <3>2. CASE ~Has(line, "picked", d)
      <4>1. Cardinality(Having("picked", d)') <= Cardinality(Having("picked", d))
          BY <1>1, <1>t, <3>2, HavingMoves
      <4> QED BY <2>1, <2>2, <2>3, <4>1 DEF RowBounded
    <3> QED BY <3>1, <3>2
  <2>6. /\ mails[d] + Cardinality(Having("claimed", d)') <= delivery[d].attempts
        /\ mails[d] + Cardinality(Having("claimed", d)') <= lapses[d] + FreshClaim(d)
      BY <2>1, <2>2, <2>3, <2>4 DEF RowBounded
  <2> QED BY <1>1, <2>1, <2>5, <2>6 DEF RowBounded
<1> QED BY <1>3, <1>4 DEF MailCounted

LEMMA DigestStep ==
    ASSUME MailCounted, NEW m \in Mailers, MailDigest(m)
    PROVE  MailCounted'
<1>1. PICK outcome \in {"sent", "unsent", "refused"}, left \in BOOLEAN :
        /\ mailer' = [mailer EXCEPT ![m].does = outcome]
        /\ mails' = [d \in Deliveries |-> IF left /\ d \in mailer[m].rows THEN mails[d] + 1 ELSE mails[d]]
    BY DEF MailDigest
<1>2. mailer[m].does = "claimed" /\ UNCHANGED <<delivery, lapses>>
    BY DEF MailDigest
<1>t. MailTyped
    BY DEF MailCounted
<1> DEFINE line == [mailer[m] EXCEPT !.does = outcome]
<1>3. mailer' = [mailer EXCEPT ![m] = line]
    BY <1>1
<1>4. mailer[m] \in SweeperRow
    BY <1>2, <1>t, MailerKinds
<1>5. line \in SweeperRow /\ line.does = outcome
    BY <1>4 DEF SweeperRow
<1> HIDE DEF line
<1>6. \A d : ~Has(line, "claimed", d) /\ ~Has(line, "picked", d)
    BY <1>5 DEF Has
<1>7. MailTyped'
  <2>1. mailer' \in [Mailers -> MailerRow]
      BY <1>3, <1>5, <1>t DEF MailTyped, MailerRow
  <2>2. mails' \in [Deliveries -> Nat]
      BY <1>1, <1>t DEF MailTyped
  <2> QED BY <1>2, <1>t, <2>1, <2>2 DEF MailTyped
<1>8. ASSUME NEW d \in Batched PROVE RowBounded(d)'
  <2>1. RowBounded(d) /\ FreshClaim(d)' = FreshClaim(d) /\ FreshClaim(d) \in Nat /\ d \in Deliveries
      BY <1>2, EmailDigestAssumption DEF MailCounted, FreshClaim
  <2>2. {delivery[d].attempts, mails[d], lapses[d], MailAttempts} \subseteq Nat
      BY <1>t, MailNumbers
  <2>3. \A does : {Cardinality(Having(does, d)), Cardinality(Having(does, d)'), Cardinality(Mailers)} \subseteq Nat
      BY HavingCounts
  <2>4. /\ Cardinality(Having("claimed", d)') <= Cardinality(Having("claimed", d))
        /\ Has(mailer[m], "claimed", d) => Cardinality(Having("claimed", d)') + 1 <= Cardinality(Having("claimed", d))
      BY <1>3, <1>6, <1>t, HavingMoves
  <2>5. Cardinality(Having("picked", d)') <= Cardinality(Having("picked", d))
      BY <1>3, <1>6, <1>t, HavingMoves
  <2>6. mails'[d] + Cardinality(Having("claimed", d)') <= mails[d] + Cardinality(Having("claimed", d))
        /\ mails'[d] \in Nat
    <3>1. CASE d \in mailer[m].rows
      <4>1. Has(mailer[m], "claimed", d) /\ mails'[d] \in {mails[d], mails[d] + 1}
          BY <1>1, <1>2, <2>1, <3>1 DEF Has
      <4> QED BY <2>2, <2>3, <2>4, <4>1
    <3>2. CASE d \notin mailer[m].rows
      <4>1. mails'[d] = mails[d]
          BY <1>1, <2>1, <3>2
      <4> QED BY <2>2, <2>3, <2>4, <4>1
    <3> QED BY <3>1, <3>2
  <2>7. /\ delivery[d].attempts + Cardinality(Having("picked", d)') < MailAttempts + Cardinality(Mailers)
        /\ mails'[d] + Cardinality(Having("claimed", d)') <= delivery[d].attempts
        /\ mails'[d] + Cardinality(Having("claimed", d)') <= lapses[d] + FreshClaim(d)
      BY <2>1, <2>2, <2>3, <2>5, <2>6 DEF RowBounded
  <2> QED BY <1>2, <2>1, <2>7 DEF RowBounded
<1> QED BY <1>7, <1>8 DEF MailCounted

\* What CountLapses counts is a claim that is no longer recent.
LEMMA LapsesCounted ==
    ASSUME MailTyped, delivery' \in [Deliveries -> DeliveryRow], CountLapses
    PROVE  /\ lapses' \in [Deliveries -> Nat]
           /\ \A d \in Deliveries : lapses[d] + FreshClaim(d) <= lapses'[d] + FreshClaim(d)'
<1>1. \A d \in Deliveries : lapses[d] \in Nat
    BY DEF MailTyped
<1>2. lapses' \in [Deliveries -> Nat]
    BY <1>1 DEF CountLapses
<1>3. ASSUME NEW d \in Deliveries PROVE lapses[d] + FreshClaim(d) <= lapses'[d] + FreshClaim(d)'
  <2>1. CASE delivery[d].claim = "fresh" /\ delivery'[d].claim # "fresh"
    <3>1. lapses'[d] = lapses[d] + 1 /\ FreshClaim(d) = 1 /\ FreshClaim(d)' = 0
        BY <2>1 DEF CountLapses, FreshClaim
    <3> QED BY <1>1, <3>1
  <2>2. CASE ~(delivery[d].claim = "fresh" /\ delivery'[d].claim # "fresh")
    <3>1. lapses'[d] = lapses[d] + 0 /\ FreshClaim(d) \in {0, 1} /\ FreshClaim(d)' \in {0, 1}
          /\ (FreshClaim(d) = 1 => FreshClaim(d)' = 1)
        BY <2>2 DEF CountLapses, FreshClaim
    <3> QED BY <1>1, <3>1
  <2> QED BY <2>1, <2>2
<1> QED BY <1>2, <1>3

\* Settling, releasing and reaping leave the attempts as they are.
RowsKept(rows) ==
    /\ rows \in [Deliveries -> DeliveryRow]
    /\ \A d \in Deliveries : rows[d].attempts = delivery[d].attempts

LEMMA ReapKeeps ==
    ASSUME NEW rows, RowsKept(rows)
    PROVE  RowsKept(Reaped(rows))
<1>1. ASSUME NEW entry \in DeliveryRow
      PROVE  /\ [entry EXCEPT !.status = "failed", !.claim = NoClaim] \in DeliveryRow
             /\ [entry EXCEPT !.status = "failed", !.claim = NoClaim].attempts = entry.attempts
    BY DEF DeliveryRow
<1>2. ASSUME NEW d \in Deliveries
      PROVE  Reaped(rows)[d] \in DeliveryRow /\ Reaped(rows)[d].attempts = delivery[d].attempts
  <2>1. rows[d] \in DeliveryRow /\ rows[d].attempts = delivery[d].attempts
      BY DEF RowsKept
  <2>2. Reaped(rows)[d] = rows[d] \/ Reaped(rows)[d] = [rows[d] EXCEPT !.status = "failed", !.claim = NoClaim]
      BY DEF Reaped
  <2> QED BY <1>1, <2>1, <2>2
<1>3. Reaped(rows) = [d \in Deliveries |-> Reaped(rows)[d]]
    BY DEF Reaped
<1> QED BY <1>2, <1>3 DEF RowsKept

LEMMA SettleStep ==
    ASSUME MailCounted, NEW m \in Mailers, SettleDigest(m) \/ ReapExhausted(m)
    PROVE  MailCounted'
<1>t. MailTyped /\ RowsKept(delivery) /\ Waiting \in MailerRow /\ Waiting.does = "waiting"
    BY MailerKinds DEF MailCounted, MailTyped, RowsKept
<1>r. \A d \in Deliveries : delivery[d] \in DeliveryRow
    BY <1>t DEF MailTyped
<1>1. RowsKept(delivery') /\ CountLapses /\ mails' = mails /\ (mailer' = mailer \/ mailer' = [mailer EXCEPT ![m] = Waiting])
  <2>1. CASE ReapExhausted(m)
    <3>1. delivery' = Reaped(delivery) /\ CountLapses /\ mails' = mails /\ mailer' = mailer
        BY <2>1 DEF ReapExhausted
    <3> QED BY <1>t, <3>1, ReapKeeps
  <2>2. CASE SettleDigest(m)
    <3> DEFINE rows == mailer[m].rows
               released == [d \in Deliveries |-> IF d \in rows THEN [delivery[d] EXCEPT !.claim = NoClaim] ELSE delivery[d]]
               refused2 == [d \in Deliveries |-> IF d \in rows THEN [released[d] EXCEPT !.status = "failed"] ELSE delivery[d]]
    <3>1. CountLapses /\ mails' = mails /\ mailer' = [mailer EXCEPT ![m] = Waiting]
        BY <2>2 DEF SettleDigest
    <3>2. delivery' = Settled(rows, "delivered") \/ delivery' = refused2 \/ delivery' = Reaped(released)
      <4>1. CASE mailer[m].does = "sent"
          BY <2>2, <4>1 DEF SettleDigest
      <4>2. CASE mailer[m].does = "refused"
          BY <2>2, <4>2 DEF SettleDigest
      <4>3. CASE mailer[m].does = "unsent"
          BY <2>2, <4>3 DEF SettleDigest
      <4> QED BY <2>2, <4>1, <4>2, <4>3 DEF SettleDigest
    <3>3. ASSUME NEW entry \in DeliveryRow
          PROVE  /\ [entry EXCEPT !.status = "delivered"] \in DeliveryRow /\ [entry EXCEPT !.status = "delivered"].attempts = entry.attempts
                 /\ [entry EXCEPT !.status = "failed"] \in DeliveryRow /\ [entry EXCEPT !.status = "failed"].attempts = entry.attempts
                 /\ [entry EXCEPT !.claim = NoClaim] \in DeliveryRow /\ [entry EXCEPT !.claim = NoClaim].attempts = entry.attempts
        BY DEF DeliveryRow
    <3> HIDE DEF rows
    <3>4. RowsKept(Settled(rows, "delivered"))
        BY <1>r, <3>3 DEF Settled, RowsKept
    <3>5. RowsKept(released)
        BY <1>r, <3>3 DEF RowsKept
    <3>6. RowsKept(refused2)
      <4>1. \A d \in Deliveries : released[d] \in DeliveryRow /\ released[d].attempts = delivery[d].attempts
          BY <3>5 DEF RowsKept
      <4> HIDE DEF released
      <4> QED BY <1>r, <3>3, <4>1 DEF RowsKept
    <3>7. RowsKept(Reaped(released))
      <4> HIDE DEF released
      <4> QED BY <3>5, ReapKeeps
    <3> HIDE DEF released, refused2
    <3> QED BY <3>1, <3>2, <3>4, <3>6, <3>7
  <2> QED BY <2>1, <2>2
<1>2. delivery' \in [Deliveries -> DeliveryRow] /\ \A d \in Deliveries : delivery'[d].attempts = delivery[d].attempts
    BY <1>1 DEF RowsKept
<1>3. lapses' \in [Deliveries -> Nat] /\ \A d \in Deliveries : lapses[d] + FreshClaim(d) <= lapses'[d] + FreshClaim(d)'
    BY <1>1, <1>2, <1>t, LapsesCounted
<1>4. MailTyped'
    BY <1>1, <1>2, <1>3, <1>t DEF MailTyped
<1>5. \/ mailer' = mailer
      \/ \E n \in Mailers : \E line \in MailerRow :
            mailer' = [mailer EXCEPT ![n] = line] /\ line.does \notin {"picked", "claimed"}
    BY <1>1, <1>t
<1>6. \A d \in Batched : /\ delivery'[d].attempts = delivery[d].attempts /\ mails'[d] = mails[d]
                         /\ lapses[d] + FreshClaim(d) <= lapses'[d] + FreshClaim(d)'
    BY <1>1, <1>2, <1>3, EmailDigestAssumption
<1> QED BY <1>4, <1>5, <1>6, QuietMail

\* The deliveries that are mailed where they are made are other rows.
LEMMA DispatchSteps ==
    ASSUME MailCounted, NEW m \in Mailers,
           \/ \E d \in Deliveries : PickOne(m, d)
           \/ DispatcherMoves(m) \/ MailerDies(m)
    PROVE  MailCounted'
<1>t. MailTyped /\ Waiting \in MailerRow /\ Waiting.does = "waiting"
    BY MailerKinds DEF MailCounted
<1>r. \A d \in Deliveries : delivery[d] \in DeliveryRow /\ delivery[d].attempts \in Nat
    BY <1>t DEF MailTyped, DeliveryRow
<1>1. ASSUME NEW d \in Deliveries \ Batched, NEW entry \in DeliveryRow, delivery' = [delivery EXCEPT ![d] = entry],
             NEW line \in MailerRow, line.does \notin {"picked", "claimed"}, mailer' = [mailer EXCEPT ![m] = line],
             NEW sent \in Nat, mails' = [mails EXCEPT ![d] = sent], lapses' = lapses
      PROVE  MailCounted'
  <2>1. MailTyped'
      BY <1>1, <1>t DEF MailTyped
  <2>2. \A e \in Batched : e \in Deliveries /\ delivery'[e] = delivery[e] /\ mails'[e] = mails[e] /\ lapses'[e] = lapses[e]
      BY <1>1, <1>t, EmailDigestAssumption DEF MailTyped
  <2>3. \A e \in Batched : /\ delivery'[e].attempts = delivery[e].attempts /\ mails'[e] = mails[e]
                           /\ lapses[e] + FreshClaim(e) <= lapses'[e] + FreshClaim(e)'
    <3> SUFFICES ASSUME NEW e \in Batched PROVE lapses[e] + FreshClaim(e) <= lapses'[e] + FreshClaim(e)'
        BY <2>2
    <3>1. lapses[e] \in Nat /\ FreshClaim(e) \in Nat /\ FreshClaim(e)' = FreshClaim(e) /\ lapses'[e] = lapses[e]
        BY <1>t, <2>2 DEF FreshClaim, MailTyped
    <3> QED BY <3>1
  <2> QED BY <1>1, <2>1, <2>3, QuietMail
<1>2. \A d \in Deliveries : mails[d] \in Nat /\ mails = [mails EXCEPT ![d] = mails[d]] /\ delivery = [delivery EXCEPT ![d] = delivery[d]]
    BY <1>t DEF MailTyped
<1>3. CASE \E d \in Deliveries : PickOne(m, d)
  <2>1. PICK d \in Deliveries : PickOne(m, d)
      BY <1>3
  <2> DEFINE line == [does |-> "due", row |-> d, attempts |-> delivery[d].attempts]
             row2 == [delivery[d] EXCEPT !.status = "pending"]
  <2>2. /\ d \in Deliveries \ Batched /\ UNCHANGED <<mails, lapses>>
        /\ mailer' = [mailer EXCEPT ![m] = line] /\ delivery' = [delivery EXCEPT ![d] = row2]
      BY <2>1 DEF PickOne
  <2>3. line \in MailerRow /\ line.does = "due"
      BY <1>r, <2>2 DEF MailerRow, DispatcherRow
  <2>4. row2 \in DeliveryRow
      BY <1>r DEF DeliveryRow
  <2>5. mails' = [mails EXCEPT ![d] = mails[d]] /\ mails[d] \in Nat
      BY <1>2, <2>2
  <2> HIDE DEF line, row2
  <2> QED BY <1>1, <2>2, <2>3, <2>4, <2>5
<1>4. CASE Dispatch(m)
  <2> DEFINE d == mailer[m].row
             line == [mailer[m] EXCEPT !.does = "dispatching", !.attempts = mailer[m].attempts + 1]
             row2 == [delivery[d] EXCEPT !.attempts = mailer[m].attempts + 1]
  <2>1. /\ mailer[m].does = "due" /\ UNCHANGED <<mails, lapses>>
        /\ mailer' = [mailer EXCEPT ![m] = line] /\ delivery' = [delivery EXCEPT ![d] = row2]
      BY <1>4 DEF Dispatch
  <2>2. mailer[m] \in DispatcherRow
      BY <1>t, <2>1, MailerKinds
  <2>3. d \in Deliveries \ Batched /\ mailer[m].attempts + 1 \in Nat
      BY <2>2 DEF DispatcherRow
  <2>4. line \in DispatcherRow /\ line.does = "dispatching"
      BY <2>2, <2>3 DEF DispatcherRow
  <2>5. row2 \in DeliveryRow
      BY <1>r, <2>3 DEF DeliveryRow
  <2>6. mails' = [mails EXCEPT ![d] = mails[d]] /\ mails[d] \in Nat
      BY <1>2, <2>1, <2>3
  <2> HIDE DEF d, line, row2
  <2> QED BY <1>1, <2>1, <2>3, <2>4, <2>5, <2>6 DEF MailerRow
<1>5. CASE MailOne(m)
  <2> DEFINE d == mailer[m].row
  <2>1. PICK outcome \in {"dispatched", "undispatched", "dropped"}, left \in BOOLEAN :
            /\ mailer' = [mailer EXCEPT ![m].does = outcome]
            /\ mails' = [mails EXCEPT ![d] = IF left THEN mails[d] + 1 ELSE mails[d]]
      BY <1>5 DEF MailOne
  <2> DEFINE line == [mailer[m] EXCEPT !.does = outcome]
  <2>2. mailer[m].does = "dispatching" /\ UNCHANGED <<delivery, lapses>> /\ mailer' = [mailer EXCEPT ![m] = line]
      BY <1>5, <2>1 DEF MailOne
  <2>3. mailer[m] \in DispatcherRow
      BY <1>t, <2>2, MailerKinds
  <2>4. d \in Deliveries \ Batched
      BY <2>3 DEF DispatcherRow
  <2>5. line \in DispatcherRow /\ line.does = outcome
      BY <2>3 DEF DispatcherRow
  <2>6. delivery' = [delivery EXCEPT ![d] = delivery[d]] /\ (IF left THEN mails[d] + 1 ELSE mails[d]) \in Nat
      BY <1>2, <2>2, <2>4
  <2> HIDE DEF d, line
  <2> QED BY <1>1, <1>r, <2>1, <2>2, <2>4, <2>5, <2>6 DEF MailerRow
<1>6. CASE DispatchEnds(m)
  <2> DEFINE d == mailer[m].row
             row2 == CASE mailer[m].does = "dispatched" -> [delivery[d] EXCEPT !.status = "delivered"]
                       [] mailer[m].does = "dropped"    -> [delivery[d] EXCEPT !.status = "failed"]
                       [] OTHER -> IF mailer[m].attempts >= MailAttempts THEN [delivery[d] EXCEPT !.status = "failed"]
                                   ELSE [delivery[d] EXCEPT !.status = "pending", !.retry = "ahead"]
  <2>1. /\ mailer[m].does \in {"dispatched", "undispatched", "dropped"} /\ UNCHANGED <<mails, lapses>>
        /\ mailer' = [mailer EXCEPT ![m] = Waiting] /\ delivery' = [delivery EXCEPT ![d] = row2]
      BY <1>6 DEF DispatchEnds
  <2>2. mailer[m] \in DispatcherRow
      BY <1>t, <2>1, MailerKinds
  <2>3. d \in Deliveries \ Batched
      BY <2>2 DEF DispatcherRow
  <2>4. row2 \in DeliveryRow
    <3>1. delivery[d] \in DeliveryRow
        BY <1>r, <2>3
    <3> DEFINE old == delivery[d]
    <3> HIDE DEF old
    <3>2. old \in DeliveryRow => /\ [old EXCEPT !.status = "delivered"] \in DeliveryRow
                                 /\ [old EXCEPT !.status = "failed"] \in DeliveryRow
                                 /\ [old EXCEPT !.status = "pending", !.retry = "ahead"] \in DeliveryRow
        BY DEF DeliveryRow
    <3> QED BY <3>1, <3>2 DEF old
  <2>5. mails' = [mails EXCEPT ![d] = mails[d]] /\ mails[d] \in Nat
      BY <1>2, <2>1, <2>3
  <2> HIDE DEF d, row2
  <2> QED BY <1>1, <1>t, <2>1, <2>3, <2>4, <2>5
<1>7. CASE MailerDies(m)
  <2>1. UNCHANGED <<delivery, mails, lapses>> /\ mailer' = [mailer EXCEPT ![m] = Waiting]
      BY <1>7 DEF MailerDies
  <2>2. MailTyped'
      BY <1>t, <2>1 DEF MailTyped
  <2>3. ASSUME NEW d \in Batched PROVE lapses[d] + FreshClaim(d) <= lapses'[d] + FreshClaim(d)'
    <3>1. lapses[d] \in Nat /\ FreshClaim(d) \in Nat /\ FreshClaim(d)' = FreshClaim(d) /\ lapses'[d] = lapses[d]
        BY <1>t, <2>1, EmailDigestAssumption DEF FreshClaim, MailTyped
    <3> QED BY <3>1
  <2> QED BY <1>t, <2>1, <2>2, <2>3, QuietMail
<1> QED BY <1>3, <1>4, <1>5, <1>6, <1>7 DEF DispatcherMoves

LEMMA MailCountedStep == MailCounted /\ [QueueNext \/ DispatchNext]_mailVars => MailCounted'
<1> SUFFICES ASSUME MailCounted, [QueueNext \/ DispatchNext]_mailVars PROVE MailCounted'
    OBVIOUS
<1>t. MailTyped /\ \A d \in Deliveries : delivery[d] \in DeliveryRow
    BY DEF MailCounted, MailTyped
\* One row is touched, not its attempts.
<1>1. ASSUME NEW d \in Deliveries, NEW entry \in DeliveryRow, delivery' = [delivery EXCEPT ![d] = entry],
             entry.attempts = delivery[d].attempts, mailer' = mailer, mails' = mails,
             (lapses' = lapses /\ (delivery[d].claim = "fresh" => entry.claim = "fresh")) \/ CountLapses
      PROVE  MailCounted'
  <2>1. delivery' \in [Deliveries -> DeliveryRow] /\ \A e \in Deliveries : delivery'[e].attempts = delivery[e].attempts
      BY <1>1, <1>t DEF MailTyped
  <2>2. lapses' \in [Deliveries -> Nat] /\ \A e \in Deliveries : lapses[e] + FreshClaim(e) <= lapses'[e] + FreshClaim(e)'
    <3>1. CASE CountLapses
        BY <1>t, <2>1, <3>1, LapsesCounted
    <3>2. CASE lapses' = lapses /\ (delivery[d].claim = "fresh" => entry.claim = "fresh")
      <4>1. ASSUME NEW e \in Deliveries PROVE lapses[e] + FreshClaim(e) <= lapses'[e] + FreshClaim(e)'
        <5>1. FreshClaim(e) \in {0, 1} /\ FreshClaim(e)' \in {0, 1} /\ (FreshClaim(e) = 1 => FreshClaim(e)' = 1)
            BY <1>1, <1>t, <3>2 DEF FreshClaim, MailTyped
        <5>2. lapses[e] \in Nat /\ lapses'[e] = lapses[e]
            BY <1>t, <3>2 DEF MailTyped
        <5> QED BY <5>1, <5>2
      <4> QED BY <1>t, <3>2, <4>1 DEF MailTyped
    <3> QED BY <1>1, <3>1, <3>2
  <2>3. MailTyped'
      BY <1>1, <1>t, <2>1, <2>2 DEF MailTyped
  <2> QED BY <1>1, <2>1, <2>2, <2>3, QuietMail, EmailDigestAssumption
<1>2. ASSUME NEW entry \in DeliveryRow
      PROVE  /\ [entry EXCEPT !.status = "pending"] \in DeliveryRow /\ [entry EXCEPT !.status = "pending"].attempts = entry.attempts
             /\ [entry EXCEPT !.status = "pending"].claim = entry.claim
             /\ [entry EXCEPT !.claim = "stale"] \in DeliveryRow /\ [entry EXCEPT !.claim = "stale"].attempts = entry.attempts
             /\ [entry EXCEPT !.retry = "past"] \in DeliveryRow /\ [entry EXCEPT !.retry = "past"].attempts = entry.attempts
             /\ [entry EXCEPT !.retry = "past"].claim = entry.claim
    BY DEF DeliveryRow
<1>3. ASSUME NEW d \in Deliveries, QueueEmail(d) PROVE MailCounted'
  <2>1. delivery' = [delivery EXCEPT ![d] = [delivery[d] EXCEPT !.status = "pending"]] /\ UNCHANGED <<mailer, mails, lapses>>
      BY <1>3 DEF QueueEmail
  <2> QED BY <1>1, <1>2, <1>t, <2>1
<1>4. ASSUME NEW d \in Deliveries, ClaimExpires(d) PROVE MailCounted'
  <2>1. delivery' = [delivery EXCEPT ![d] = [delivery[d] EXCEPT !.claim = "stale"]] /\ UNCHANGED <<mailer, mails>> /\ CountLapses
      BY <1>4 DEF ClaimExpires
  <2> QED BY <1>1, <1>2, <1>t, <2>1
<1>5. ASSUME NEW d \in Deliveries, RetryFallsDue(d) PROVE MailCounted'
  <2>1. delivery' = [delivery EXCEPT ![d] = [delivery[d] EXCEPT !.retry = "past"]] /\ UNCHANGED <<mailer, mails, lapses>>
      BY <1>5 DEF RetryFallsDue
  <2> QED BY <1>1, <1>2, <1>t, <2>1
<1>6. CASE UNCHANGED <<delivery, mailer, mails, lapses>>
    BY <1>6 DEF MailCounted, MailTyped, RowBounded, Having, Has, FreshClaim
<1>7. CASE TurnOffEmail \/ UNCHANGED mailVars
    BY <1>6, <1>7 DEF TurnOffEmail, mailVars
<1>8. CASE \E m \in Mailers : SweeperMoves(m) \/ PickRows(m) \/ ReapExhausted(m)
    BY <1>8, ClaimStep, DigestStep, SettleStep, PickStep DEF SweeperMoves
<1>9. CASE \E m \in Mailers : MailerDies(m) \/ DispatcherMoves(m) \/ \E d \in Deliveries : PickOne(m, d)
    BY <1>9, DispatchSteps
<1> QED BY <1>3, <1>4, <1>5, <1>7, <1>8, <1>9 DEF QueueNext, DispatchNext

\* A queued email goes out only on a charged attempt, the limit is overrun by one
\* sweep each, and while a claim lasts no other sweep sends it, however many
\* sweeps run and die (notifications/engine.py).
THEOREM MailBounded == MailSpec => []MailIsBounded
<1>1. MailCounted => MailIsBounded
  <2> SUFFICES ASSUME MailCounted, NEW d \in Batched
               PROVE  /\ mails[d] <= delivery[d].attempts
                      /\ delivery[d].attempts < MailAttempts + Cardinality(Mailers)
                      /\ mails[d] <= 1 + lapses[d]
      BY DEF MailIsBounded
  <2>1. RowBounded(d)
      BY DEF MailCounted
  <2>2. {delivery[d].attempts, mails[d], lapses[d], MailAttempts} \subseteq Nat
      BY MailNumbers DEF MailCounted
  <2>3. \A does : {Cardinality(Having(does, d)), Cardinality(Mailers)} \subseteq Nat
      BY HavingCounts
  <2>4. FreshClaim(d) \in {0, 1}
      BY DEF FreshClaim
  <2> QED BY <2>1, <2>2, <2>3, <2>4 DEF RowBounded
<1> QED BY <1>1, MailCountedInit, MailCountedStep, PTL DEF MailSpec

-----------------------------------------------------------------------------
(* The schedule of a recurring task.                                       *)

HostRow == [step : {"down", "reclaim", "register", "insert", "poll", "running", "repeat", "delete"},
            row : Rows \cup {Absent}]

\* One process at a time is between the look and the insert of a registration.
ScheduleShape ==
    /\ row \in [Rows -> Hosts \cup {Absent, Free}] /\ host \in [Hosts -> HostRow]
    /\ migrator \in [Migrators -> {"register", "insert", "done"}]
    /\ lease \in Hosts \cup {Nobody} /\ taskFaults \in Nat
    /\ \A h \in Hosts : host[h].step \in {"running", "repeat", "delete"} => host[h].row \in Rows
    /\ \A g, h \in Hosts : host[g].step = "insert" /\ host[h].step = "insert" => g = h
    /\ \A m, n \in Migrators : migrator[m] = "insert" /\ migrator[n] = "insert" => m = n
    /\ \A h \in Hosts, m \in Migrators : ~(host[h].step = "insert" /\ migrator[m] = "insert")

\* Once there is a schedule, there is a row that nobody is about to delete: the
\* next run's row is inserted before the last one's goes.
Deleting(h, r) == host[h].step = "delete" /\ host[h].row = r
NeverGone ==
    \/ Scheduled = {} /\ \A h \in Hosts : host[h].step \notin {"running", "repeat", "delete"}
    \/ \E r \in Scheduled : \A h \in Hosts : ~Deleting(h, r)

\* The workers that will insert the next row, and whether the one that holds the
\* lease has the row that it will delete.
Running == {h \in Hosts : host[h].step \in {"running", "repeat"}}
HoldsRow == lease \in Hosts /\ host[lease].step \in {"running", "repeat", "delete"} /\ row[host[lease].row] # Absent
ToInsert == IF Registering THEN 1 ELSE 0
ToDelete == IF HoldsRow THEN 1 ELSE 0

\* Rows that are there or on their way: one, and one more for each fault, but for
\* the row that its worker will delete.
RowsCounted ==
    Cardinality(Scheduled) + ToInsert + Cardinality(Running) <= 1 + taskFaults + ToDelete

ScheduleSound == ScheduleShape /\ NeverGone /\ RowsCounted

LEMMA ScheduleNumbers ==
    /\ IsFiniteSet(Scheduled) /\ IsFiniteSet(Running)
    /\ {Cardinality(Scheduled), Cardinality(Scheduled'), Cardinality(Running), Cardinality(Running')} \subseteq Nat
    /\ {ToInsert, ToInsert', ToDelete, ToDelete'} \subseteq {0, 1}
<1>1. Scheduled \in SUBSET Rows /\ Scheduled' \in SUBSET Rows /\ Running \in SUBSET Hosts /\ Running' \in SUBSET Hosts
    BY DEF Scheduled, Running
<1>2. {ToInsert, ToInsert', ToDelete, ToDelete'} \subseteq {0, 1}
    BY DEF ToInsert, ToDelete
<1> QED BY <1>1, <1>2, FewerAreFewer, RecurringAssumption

LEMMA ScheduleSoundInit == RecurringInit => ScheduleSound
<1> SUFFICES ASSUME RecurringInit PROVE ScheduleSound
    OBVIOUS
<1>1. Down \in HostRow /\ Down.step = "down"
    BY DEF Down, HostRow
<1>2. host \in [Hosts -> HostRow] /\ \A h \in Hosts : host[h].step = "down"
    BY <1>1 DEF RecurringInit
<1>3. ScheduleShape
    BY <1>2 DEF RecurringInit, ScheduleShape
<1>4. Scheduled = {} /\ Running = {} /\ ~Registering
    BY <1>2 DEF RecurringInit, Scheduled, Running, Registering
<1>5. Cardinality(Scheduled) = 0 /\ Cardinality(Running) = 0 /\ ToInsert = 0 /\ taskFaults = 0
    BY <1>4, FS_EmptySet DEF ToInsert, RecurringInit
<1>6. RowsCounted
    BY <1>5, ScheduleNumbers DEF RowsCounted
<1>7. NeverGone
    BY <1>2, <1>4 DEF NeverGone
<1> QED BY <1>3, <1>6, <1>7 DEF ScheduleSound

\* What a step of one worker does to who is running.
LEMMA RunningMoves ==
    ASSUME ScheduleShape, NEW h \in Hosts, NEW line \in HostRow, host' = [host EXCEPT ![h] = line]
    PROVE  /\ host' \in [Hosts -> HostRow] /\ host'[h] = line /\ \A g \in Hosts \ {h} : host'[g] = host[g]
           /\ Cardinality(Running') <= Cardinality(Running) + 1
           /\ line.step \notin {"running", "repeat"} \/ host[h].step \in {"running", "repeat"} =>
                 Cardinality(Running') <= Cardinality(Running)
           /\ line.step \notin {"running", "repeat"} /\ host[h].step \in {"running", "repeat"} =>
                 Cardinality(Running') + 1 <= Cardinality(Running)
<1>1. host' \in [Hosts -> HostRow] /\ host'[h] = line /\ \A g \in Hosts \ {h} : host'[g] = host[g]
    BY DEF ScheduleShape
<1>2. IsFiniteSet(Running)
    BY ScheduleNumbers
<1>3. Running' \in SUBSET (Running \cup {h})
    BY <1>1 DEF Running
<1>4. line.step \notin {"running", "repeat"} \/ host[h].step \in {"running", "repeat"} => Running' \in SUBSET Running
    BY <1>1 DEF Running
<1>5. line.step \notin {"running", "repeat"} /\ host[h].step \in {"running", "repeat"} =>
        h \in Running /\ Running' \in SUBSET (Running \ {h})
    BY <1>1 DEF Running
<1>6. Cardinality(Running') <= Cardinality(Running) + 1
    BY <1>2, <1>3, OneMoreCounts
<1>7. line.step \notin {"running", "repeat"} \/ host[h].step \in {"running", "repeat"} =>
        Cardinality(Running') <= Cardinality(Running)
    BY <1>2, <1>4, FewerAreFewer
<1>8. line.step \notin {"running", "repeat"} /\ host[h].step \in {"running", "repeat"} =>
        Cardinality(Running') + 1 <= Cardinality(Running)
    BY <1>2, <1>5, OneLessCounts
<1> QED BY <1>1, <1>6, <1>7, <1>8

\* A new row.
LEMMA RowInserted ==
    ASSUME ScheduleShape, NEW r \in NewRows, row' = [row EXCEPT ![r] = Free]
    PROVE  /\ row' \in [Rows -> Hosts \cup {Absent, Free}]
           /\ Scheduled' = Scheduled \cup {r} /\ r \in Rows /\ Cardinality(Scheduled') <= Cardinality(Scheduled) + 1
           /\ \A h \in Hosts : host[h].row # r
           /\ \A q \in Rows : row[q] # Absent => row'[q] # Absent
           /\ \A q \in Rows \ {r} : row'[q] = row[q]
<1>1. r \in Rows /\ \A h \in Hosts : host[h].row # r
    BY DEF NewRows
<1>2. row' \in [Rows -> Hosts \cup {Absent, Free}] /\ row'[r] = Free /\ \A q \in Rows \ {r} : row'[q] = row[q]
    BY <1>1 DEF ScheduleShape
<1>3. Free # Absent
    BY DEF Free, Absent
<1>4. Scheduled' = Scheduled \cup {r}
    BY <1>1, <1>2, <1>3 DEF Scheduled
<1>5. Cardinality(Scheduled') <= Cardinality(Scheduled) + 1
    BY <1>4, OneMoreCounts, ScheduleNumbers
<1> QED BY <1>1, <1>2, <1>3, <1>4, <1>5

\* A step of one worker that neither adds a row nor takes one away.
LEMMA WorkerStep ==
    ASSUME ScheduleSound, NEW h \in Hosts, NEW line \in HostRow, host' = [host EXCEPT ![h] = line], migrator' = migrator,
           row' \in [Rows -> Hosts \cup {Absent, Free}], Scheduled' = Scheduled,
           lease' \in Hosts \cup {Nobody}, taskFaults' \in Nat,
           line.step \in {"running", "repeat", "delete"} => line.row \in Rows /\ Scheduled # {},
           line.step = "insert" => ~Registering,
           line.step = "delete" => Deleting(h, line.row),
           RowsCounted'
    PROVE  ScheduleSound'
<1>1. host' \in [Hosts -> HostRow] /\ host'[h] = line /\ \A g \in Hosts \ {h} : host'[g] = host[g]
    BY RunningMoves DEF ScheduleSound
<1>2. ScheduleShape'
  <2>1. \A g \in Hosts : host'[g].step \in {"running", "repeat", "delete"} => host'[g].row \in Rows
      BY <1>1 DEF ScheduleSound, ScheduleShape
  <2>2. \A f, g \in Hosts : host'[f].step = "insert" /\ host'[g].step = "insert" => f = g
      BY <1>1 DEF ScheduleSound, ScheduleShape, Registering
  <2>3. \A g \in Hosts, m \in Migrators : ~(host'[g].step = "insert" /\ migrator[m] = "insert")
      BY <1>1 DEF ScheduleSound, ScheduleShape, Registering
  <2> QED BY <1>1, <2>1, <2>2, <2>3 DEF ScheduleSound, ScheduleShape
<1>3. \A g \in Hosts, r \in Rows : Deleting(g, r)' => Deleting(g, r)
    BY <1>1 DEF Deleting
<1>4. NeverGone'
  <2>1. CASE Scheduled = {} /\ \A g \in Hosts : host[g].step \notin {"running", "repeat", "delete"}
      BY <1>1, <2>1 DEF NeverGone
  <2>2. CASE \E r \in Scheduled : \A g \in Hosts : ~Deleting(g, r)
    <3>1. PICK r \in Scheduled : \A g \in Hosts : ~Deleting(g, r)
        BY <2>2
    <3>2. r \in Rows /\ r \in Scheduled'
        BY DEF Scheduled
    <3>3. \A g \in Hosts : ~Deleting(g, r)'
        BY <1>3, <3>1, <3>2
    <3> QED BY <3>2, <3>3 DEF NeverGone
  <2> QED BY <2>1, <2>2 DEF ScheduleSound, NeverGone
<1> QED BY <1>2, <1>4 DEF ScheduleSound

\* A row is inserted: by a registration, or for the next run.
LEMMA InsertStep ==
    ASSUME ScheduleSound, NEW r \in NewRows, row' = [row EXCEPT ![r] = Free],
           host' \in [Hosts -> HostRow], migrator' \in [Migrators -> {"register", "insert", "done"}],
           UNCHANGED <<lease, taskFaults>>,
           \A g \in Hosts : /\ host'[g].row = host[g].row
                            /\ host'[g].step = "insert" => host[g].step = "insert"
                            /\ host'[g].step \in {"running", "repeat", "delete"} => host[g].step \in {"running", "repeat", "delete"},
           \A m \in Migrators : migrator'[m] = "insert" => migrator[m] = "insert",
           HoldsRow => HoldsRow',
           ToInsert' + Cardinality(Running') + 1 <= ToInsert + Cardinality(Running)
    PROVE  ScheduleSound'
<1>0. ScheduleShape
    BY DEF ScheduleSound
<1>1. /\ row' \in [Rows -> Hosts \cup {Absent, Free}] /\ r \in Scheduled' /\ r \in Rows
      /\ Cardinality(Scheduled') <= Cardinality(Scheduled) + 1 /\ \A h \in Hosts : host[h].row # r
  <2>1. row' \in [Rows -> Hosts \cup {Absent, Free}]
      BY <1>0, RowInserted
  <2>2. Scheduled' = Scheduled \cup {r} /\ r \in Rows
      BY <1>0, RowInserted
  <2>3. Cardinality(Scheduled') <= Cardinality(Scheduled) + 1
      BY <1>0, RowInserted
  <2>4. \A h \in Hosts : host[h].row # r
      BY DEF NewRows
  <2> QED BY <2>1, <2>2, <2>3, <2>4
<1>2. ScheduleShape'
    BY <1>1 DEF ScheduleSound, ScheduleShape
<1>3. NeverGone'
    BY <1>1 DEF NeverGone, Deleting
<1>4. RowsCounted'
  <2>1. RowsCounted /\ taskFaults \in Nat /\ taskFaults' = taskFaults
      BY DEF ScheduleSound, ScheduleShape
  <2>2. ToDelete <= ToDelete'
      BY DEF ToDelete
  <2> QED BY <1>1, <2>1, <2>2, ScheduleNumbers DEF RowsCounted
<1> QED BY <1>2, <1>3, <1>4 DEF ScheduleSound

\* What a step gives to one side of the count it gives to the other.
LEMMA StillCounted ==
    ASSUME RowsCounted, taskFaults \in Nat, taskFaults' \in Nat, Scheduled' = Scheduled,
           ToInsert' + Cardinality(Running') + taskFaults + ToDelete
               <= ToInsert + Cardinality(Running) + taskFaults' + ToDelete'
    PROVE  RowsCounted'
BY ScheduleNumbers DEF RowsCounted

LEMMA StepRows ==
    ASSUME ScheduleShape, NEW h \in Hosts, NEW s \in {"reclaim", "register", "insert", "poll", "repeat", "delete"},
           GoesTo(h, s)
    PROVE  \E line \in HostRow : host' = [host EXCEPT ![h] = line] /\ line.step = s /\ line.row = host[h].row
<1> DEFINE line == [host[h] EXCEPT !.step = s]
<1>1. host[h] \in HostRow
    BY DEF ScheduleShape
<1>2. line \in HostRow /\ line.step = s /\ line.row = host[h].row
    BY <1>1 DEF HostRow
<1>3. host' = [host EXCEPT ![h] = line]
    BY DEF GoesTo
<1> HIDE DEF line
<1> QED BY <1>2, <1>3

LEMMA BootSteps ==
    ASSUME ScheduleSound, NEW h \in Hosts, BootWorker(h) \/ ReclaimLocks(h)
    PROVE  ScheduleSound'
<1>0. ScheduleShape /\ RowsCounted
    BY DEF ScheduleSound
<1>1. PICK s \in {"reclaim", "register"} : GoesTo(h, s)
    BY DEF BootWorker, ReclaimLocks
<1>2. PICK line \in HostRow : host' = [host EXCEPT ![h] = line] /\ line.step = s /\ line.row = host[h].row
    BY <1>0, <1>1, StepRows
<1>3. host'[h] = line /\ (\A g \in Hosts \ {h} : host'[g] = host[g]) /\ Cardinality(Running') <= Cardinality(Running)
    BY <1>0, <1>2, RunningMoves
<1>4. /\ row' \in [Rows -> Hosts \cup {Absent, Free}] /\ \A r \in Rows : row'[r] = Absent <=> row[r] = Absent
      /\ migrator' = migrator /\ taskFaults' = taskFaults
  <2>1. Free # Absent
      BY DEF Free, Absent
  <2> QED BY <1>0, <2>1 DEF BootWorker, ReclaimLocks, Reclaimed, ScheduleShape
<1>5. Scheduled' = Scheduled
    BY <1>4 DEF Scheduled
<1>6. host[h].step \in {"down", "reclaim"}
    BY DEF BootWorker, ReclaimLocks
<1>7. ~Registering => ~Registering'
    BY <1>2, <1>3, <1>4, <1>6 DEF Registering
<1>8. HoldsRow => HoldsRow'
  <2>1. CASE BootWorker(h)
      <3>1. lease = Nobody /\ Nobody \notin Hosts
          BY <2>1, RecurringAssumption DEF BootWorker, Nobody
      <3> QED BY <3>1 DEF HoldsRow
  <2>2. CASE ReclaimLocks(h)
      <3>1. lease' = lease
          BY <2>2 DEF ReclaimLocks
      <3>2. HoldsRow => lease # h /\ host[lease].row \in Rows
          BY <1>0, <1>6 DEF HoldsRow, ScheduleShape
      <3> QED BY <1>3, <1>4, <3>1, <3>2 DEF HoldsRow
  <2> QED BY <2>1, <2>2
<1>9. ToInsert' <= ToInsert /\ ToDelete <= ToDelete'
    BY <1>7, <1>8 DEF ToInsert, ToDelete
<1>10. RowsCounted'
  <2>1. taskFaults \in Nat /\ taskFaults' = taskFaults
      BY <1>0, <1>4 DEF ScheduleShape
  <2>2. ToInsert' + Cardinality(Running') + taskFaults + ToDelete
            <= ToInsert + Cardinality(Running) + taskFaults' + ToDelete'
      BY <1>3, <1>9, <2>1, ScheduleNumbers
  <2> QED BY <1>0, <1>5, <2>1, <2>2, StillCounted
<1>11. lease' \in Hosts \cup {Nobody} /\ taskFaults' \in Nat
    BY <1>0, <1>4 DEF BootWorker, ReclaimLocks, ScheduleShape
<1> QED BY <1>2, <1>4, <1>5, <1>10, <1>11, WorkerStep

LEMMA RunSteps ==
    ASSUME ScheduleSound, NEW h \in Hosts, LockRow(h) \/ TaskReturns(h)
    PROVE  ScheduleSound'
<1>0. ScheduleShape /\ RowsCounted /\ NeverGone
    BY DEF ScheduleSound
<1>1. migrator' = migrator /\ lease' = lease /\ taskFaults' = taskFaults
    BY DEF LockRow, TaskReturns
<1>2. Free # Absent /\ Absent \notin Hosts
    BY RecurringAssumption DEF Free, Absent
<1>3. CASE LockRow(h)
  <2>1. PICK r \in Rows : row[r] = Free /\ row' = [row EXCEPT ![r] = h] /\ host' = [host EXCEPT ![h] = [step |-> "running", row |-> r]]
      BY <1>3 DEF LockRow
  <2> DEFINE line == [step |-> "running", row |-> r]
  <2>2. line \in HostRow /\ line.step = "running" /\ line.row = r /\ host' = [host EXCEPT ![h] = line]
      BY <2>1 DEF HostRow
  <2> HIDE DEF line
  <2>3. host'[h] = line /\ (\A g \in Hosts \ {h} : host'[g] = host[g]) /\ Cardinality(Running') <= Cardinality(Running) + 1
      BY <1>0, <2>2, RunningMoves
  <2>4. row' \in [Rows -> Hosts \cup {Absent, Free}] /\ row'[r] # Absent /\ \A q \in Rows : row'[q] = Absent <=> row[q] = Absent
      BY <1>0, <1>2, <2>1 DEF ScheduleShape
  <2>5. Scheduled' = Scheduled /\ Scheduled # {}
      BY <1>2, <2>1, <2>4 DEF Scheduled
  <2>6. host[h].step = "poll" /\ lease = h
      BY <1>3 DEF LockRow
  <2>7. ToDelete = 0 /\ ToDelete' = 1
      BY <1>1, <2>2, <2>3, <2>4, <2>6 DEF ToDelete, HoldsRow
  <2>8. Registering' => Registering
      BY <1>1, <2>2, <2>3 DEF Registering
  <2>9. ToInsert' <= ToInsert
      BY <2>8 DEF ToInsert
  <2>10. taskFaults \in Nat /\ lease' \in Hosts \cup {Nobody}
      BY <1>0, <1>1 DEF ScheduleShape
  <2>11. ToInsert' + Cardinality(Running') + taskFaults + ToDelete
            <= ToInsert + Cardinality(Running) + taskFaults' + ToDelete'
      BY <1>1, <2>3, <2>7, <2>9, <2>10, ScheduleNumbers
  <2>12. RowsCounted'
      BY <1>0, <1>1, <2>5, <2>10, <2>11, StillCounted
  <2> QED BY <1>1, <2>1, <2>2, <2>4, <2>5, <2>10, <2>12, WorkerStep
<1>4. CASE TaskReturns(h)
  <2>1. host[h].step = "running" /\ GoesTo(h, "repeat") /\ row' = row
      BY <1>4 DEF TaskReturns, RaiseSwallowed
  <2>2. PICK line \in HostRow : host' = [host EXCEPT ![h] = line] /\ line.step = "repeat" /\ line.row = host[h].row
      BY <1>0, <2>1, StepRows
  <2>3. host'[h] = line /\ (\A g \in Hosts \ {h} : host'[g] = host[g]) /\ Cardinality(Running') <= Cardinality(Running)
      BY <1>0, <2>1, <2>2, RunningMoves
  <2>4. Scheduled' = Scheduled /\ Scheduled # {} /\ line.row \in Rows
      BY <1>0, <2>1, <2>2 DEF Scheduled, NeverGone, ScheduleShape
  <2>5. HoldsRow => HoldsRow'
      BY <1>1, <2>1, <2>2, <2>3 DEF HoldsRow
  <2>6. Registering' => Registering
      BY <1>1, <2>2, <2>3 DEF Registering
  <2>7. ToInsert' <= ToInsert /\ ToDelete <= ToDelete'
      BY <2>5, <2>6 DEF ToInsert, ToDelete
  <2>8. taskFaults \in Nat /\ lease' \in Hosts \cup {Nobody} /\ row' \in [Rows -> Hosts \cup {Absent, Free}]
      BY <1>0, <1>1, <2>1 DEF ScheduleShape
  <2>9. ToInsert' + Cardinality(Running') + taskFaults + ToDelete
            <= ToInsert + Cardinality(Running) + taskFaults' + ToDelete'
      BY <1>1, <2>3, <2>7, <2>8, ScheduleNumbers
  <2>10. RowsCounted'
      BY <1>0, <1>1, <2>4, <2>8, <2>9, StillCounted
  <2> QED BY <1>1, <2>2, <2>4, <2>8, <2>10, WorkerStep
<1> QED BY <1>3, <1>4

LEMMA DownSteps ==
    ASSUME ScheduleSound, NEW h \in Hosts, StopUnleased(h) \/ HostDies(h)
    PROVE  ScheduleSound'
<1>0. ScheduleShape /\ RowsCounted
    BY DEF ScheduleSound
<1>1. row' = row /\ migrator' = migrator /\ host' = [host EXCEPT ![h] = Down]
    BY DEF StopUnleased, HostDies
<1>2. Down \in HostRow /\ Down.step = "down"
    BY DEF Down, HostRow
<1> DEFINE line == Down
<1> HIDE DEF line
<1>3. line \in HostRow /\ line.step = "down" /\ host' = [host EXCEPT ![h] = line]
    BY <1>1, <1>2 DEF line
<1>4. host'[h] = line /\ (\A g \in Hosts \ {h} : host'[g] = host[g]) /\ Cardinality(Running') <= Cardinality(Running)
    BY <1>0, <1>3, RunningMoves
<1>5. Scheduled' = Scheduled
    BY <1>1 DEF Scheduled
<1>6. Registering' => Registering
    BY <1>1, <1>3, <1>4 DEF Registering
<1>7. ToInsert' <= ToInsert
    BY <1>6 DEF ToInsert
<1>8. taskFaults \in Nat /\ taskFaults' \in Nat /\ lease' \in Hosts \cup {Nobody}
    BY <1>0 DEF ScheduleShape, StopUnleased, HostDies
<1>9. taskFaults + ToDelete <= taskFaults' + ToDelete'
  <2>1. CASE StopUnleased(h)
    <3>1. lease # h /\ lease' = lease /\ taskFaults' = taskFaults
        BY <2>1 DEF StopUnleased
    <3>2. HoldsRow => HoldsRow'
        BY <1>1, <1>4, <3>1 DEF HoldsRow
    <3> QED BY <3>1, <3>2, <1>8, ScheduleNumbers DEF ToDelete
  <2>2. CASE HostDies(h)
    <3>1. taskFaults' = taskFaults + 1
        BY <2>2 DEF HostDies
    <3> QED BY <3>1, <1>8, ScheduleNumbers
  <2> QED BY <2>1, <2>2
<1>10. ToInsert' + Cardinality(Running') + taskFaults + ToDelete
            <= ToInsert + Cardinality(Running) + taskFaults' + ToDelete'
    BY <1>4, <1>7, <1>8, <1>9, ScheduleNumbers
<1>11. RowsCounted'
    BY <1>0, <1>5, <1>8, <1>10, StillCounted
<1>12. row' \in [Rows -> Hosts \cup {Absent, Free}]
    BY <1>0, <1>1 DEF ScheduleShape
<1> QED BY <1>1, <1>3, <1>5, <1>8, <1>11, <1>12, WorkerStep

\* Nothing is scheduled when a registration decides to insert.
LEMMA NothingScheduled ==
    ASSUME ScheduleSound, Scheduled = {}
    PROVE  Cardinality(Scheduled) = 0 /\ Cardinality(Running) = 0
<1>1. Running = {}
    BY DEF ScheduleSound, NeverGone, Running
<1> QED BY <1>1, FS_EmptySet

LEMMA MigratorLooks ==
    ASSUME ScheduleSound, NEW m \in Migrators, ~Registering, UNCHANGED <<row, host, lease, taskFaults>>,
           migrator' = [migrator EXCEPT ![m] = IF Scheduled = {} THEN "insert" ELSE "done"]
    PROVE  ScheduleSound'
<1>0. ScheduleShape /\ RowsCounted /\ NeverGone
    BY DEF ScheduleSound
<1>1. /\ migrator' \in [Migrators -> {"register", "insert", "done"}]
      /\ \A n \in Migrators \ {m} : migrator'[n] # "insert"
      /\ Scheduled # {} => migrator'[m] # "insert"
    BY <1>0 DEF ScheduleShape, Registering
<1>2. \A h \in Hosts : host'[h].step # "insert"
    BY DEF Registering
<1>3. ScheduleShape'
    BY <1>0, <1>1, <1>2 DEF ScheduleShape
<1>4. NeverGone' /\ Scheduled' = Scheduled /\ Running' = Running /\ ToDelete' = ToDelete
    BY <1>0 DEF NeverGone, Scheduled, Deleting, Running, ToDelete, HoldsRow
<1>5. RowsCounted'
  <2>1. taskFaults \in Nat /\ taskFaults' = taskFaults
      BY <1>0 DEF ScheduleShape
  <2>2. CASE Scheduled = {}
    <3>1. Cardinality(Scheduled') = 0 /\ Cardinality(Running') = 0
        BY <1>4, <2>2, NothingScheduled
    <3> QED BY <3>1, <2>1, ScheduleNumbers DEF RowsCounted
  <2>3. CASE Scheduled # {}
    <3>1. ToInsert' = 0
        BY <1>1, <1>2, <2>3 DEF ToInsert, Registering
    <3> QED BY <3>1, <2>1, <1>0, <1>4, ScheduleNumbers DEF RowsCounted
  <2> QED BY <2>2, <2>3
<1> QED BY <1>3, <1>4, <1>5 DEF ScheduleSound

LEMMA HostLooks ==
    ASSUME ScheduleSound, NEW h \in Hosts, host[h].step = "register", ~Registering,
           GoesTo(h, IF Scheduled = {} THEN "insert" ELSE "poll"), UNCHANGED <<row, migrator, lease, taskFaults>>
    PROVE  ScheduleSound'
<1>0. ScheduleShape /\ RowsCounted /\ NeverGone
    BY DEF ScheduleSound
<1>1. PICK s \in {"insert", "poll"} : GoesTo(h, s) /\ (Scheduled # {} => s = "poll")
  <2>1. CASE Scheduled = {}
      BY <2>1
  <2>2. CASE Scheduled # {}
      BY <2>2
  <2> QED BY <2>1, <2>2
<1>2. PICK line \in HostRow : host' = [host EXCEPT ![h] = line] /\ line.step = s /\ line.row = host[h].row
    BY <1>0, <1>1, StepRows
<1>3. host'[h] = line /\ (\A g \in Hosts \ {h} : host'[g] = host[g]) /\ Cardinality(Running') <= Cardinality(Running)
    BY <1>0, <1>2, RunningMoves
<1>4. Scheduled' = Scheduled
    BY DEF Scheduled
<1>5. HoldsRow => HoldsRow'
    BY <1>2, <1>3 DEF HoldsRow
<1>6. taskFaults \in Nat /\ taskFaults' = taskFaults /\ ToDelete <= ToDelete'
    BY <1>0, <1>5 DEF ScheduleShape, ToDelete
<1>7. RowsCounted'
  <2>1. CASE Scheduled = {}
    <3>1. Cardinality(Scheduled') = 0 /\ Cardinality(Running') <= 0
        BY <1>3, <1>4, <2>1, NothingScheduled
    <3> QED BY <3>1, <1>6, ScheduleNumbers DEF RowsCounted
  <2>2. CASE Scheduled # {}
    <3>1. ~Registering'
        BY <1>1, <1>2, <1>3, <2>2 DEF Registering
    <3>2. ToInsert' = 0
        BY <3>1 DEF ToInsert
    <3>3. ToInsert' + Cardinality(Running') + taskFaults + ToDelete
            <= ToInsert + Cardinality(Running) + taskFaults' + ToDelete'
        BY <1>3, <1>6, <3>2, ScheduleNumbers
    <3> QED BY <1>0, <1>4, <1>6, <3>3, StillCounted
  <2> QED BY <2>1, <2>2
<1>8. row' \in [Rows -> Hosts \cup {Absent, Free}] /\ lease' \in Hosts \cup {Nobody}
    BY <1>0 DEF ScheduleShape
<1> QED BY <1>1, <1>2, <1>4, <1>6, <1>7, <1>8, WorkerStep

LEMMA MigratorInserts ==
    ASSUME ScheduleSound, NEW m \in Migrators, migrator[m] = "insert",
           migrator' = [migrator EXCEPT ![m] = "done"], NEW r \in NewRows, row' = [row EXCEPT ![r] = Free],
           UNCHANGED <<host, lease, taskFaults>>
    PROVE  ScheduleSound'
<1>0. ScheduleShape
    BY DEF ScheduleSound
<1>1. /\ migrator' \in [Migrators -> {"register", "insert", "done"}]
      /\ \A n \in Migrators : migrator'[n] # "insert"
    BY <1>0 DEF ScheduleShape
<1>2. Registering /\ ~Registering'
    BY <1>0, <1>1 DEF Registering, ScheduleShape
<1>3. Running' = Running
    BY DEF Running
<1>4. ToInsert' = 0 /\ ToInsert = 1
    BY <1>2 DEF ToInsert
<1>5. ToInsert' + Cardinality(Running') + 1 <= ToInsert + Cardinality(Running)
    BY <1>3, <1>4, ScheduleNumbers
<1>6. \A q \in Rows : row[q] # Absent => row'[q] # Absent
    BY <1>0, RowInserted
<1>7. HoldsRow => HoldsRow'
    BY <1>0, <1>6 DEF HoldsRow, ScheduleShape
<1>8. host' \in [Hosts -> HostRow]
    BY <1>0 DEF ScheduleShape
<1> QED BY <1>1, <1>5, <1>7, <1>8, InsertStep

LEMMA HostInserts ==
    ASSUME ScheduleSound, NEW h \in Hosts, NEW r \in NewRows, row' = [row EXCEPT ![r] = Free],
           \/ host[h].step = "insert" /\ GoesTo(h, "poll")
           \/ host[h].step = "repeat" /\ GoesTo(h, "delete"),
           UNCHANGED <<migrator, lease, taskFaults>>
    PROVE  ScheduleSound'
<1>0. ScheduleShape
    BY DEF ScheduleSound
<1>1. PICK s \in {"poll", "delete"} :
            GoesTo(h, s) /\ host[h].step = IF s = "poll" THEN "insert" ELSE "repeat"
    OBVIOUS
<1>2. PICK line \in HostRow : host' = [host EXCEPT ![h] = line] /\ line.step = s /\ line.row = host[h].row
    BY <1>0, <1>1, StepRows
<1>3. host' \in [Hosts -> HostRow] /\ host'[h] = line /\ (\A g \in Hosts \ {h} : host'[g] = host[g])
    BY <1>0, <1>2, RunningMoves
<1>4. \A g \in Hosts : /\ host'[g].row = host[g].row
                       /\ host'[g].step = "insert" => host[g].step = "insert"
                       /\ host'[g].step \in {"running", "repeat", "delete"} => host[g].step \in {"running", "repeat", "delete"}
    BY <1>1, <1>2, <1>3
<1>5. \A q \in Rows : row[q] # Absent => row'[q] # Absent
    BY <1>0, RowInserted
<1>6. HoldsRow => HoldsRow'
  <2>1. HoldsRow => host[lease].row \in Rows
      BY <1>0 DEF HoldsRow, ScheduleShape
  <2>2. host[h].step \in {"running", "repeat", "delete"} => host'[h].step \in {"running", "repeat", "delete"}
      BY <1>1, <1>2, <1>3
  <2> QED BY <1>3, <1>4, <1>5, <2>1, <2>2 DEF HoldsRow
<1>7. ToInsert' + Cardinality(Running') + 1 <= ToInsert + Cardinality(Running)
  <2>1. CASE s = "poll"
    <3>1. Registering /\ ~Registering'
        BY <1>0, <1>1, <1>2, <1>3, <2>1 DEF Registering, ScheduleShape
    <3>2. ToInsert' = 0 /\ ToInsert = 1
        BY <3>1 DEF ToInsert
    <3>3. Cardinality(Running') <= Cardinality(Running)
        BY <1>0, <1>2, <2>1, RunningMoves
    <3> QED BY <3>2, <3>3, ScheduleNumbers
  <2>2. CASE s = "delete"
    <3>1. Registering' => Registering
        BY <1>2, <1>3, <2>2 DEF Registering
    <3>2. ToInsert' <= ToInsert
        BY <3>1 DEF ToInsert
    <3>3. Cardinality(Running') + 1 <= Cardinality(Running)
        BY <1>0, <1>1, <1>2, <2>2, RunningMoves
    <3> QED BY <3>2, <3>3, ScheduleNumbers
  <2> QED BY <2>1, <2>2
<1>8. migrator' \in [Migrators -> {"register", "insert", "done"}]
    BY <1>0 DEF ScheduleShape
<1> QED BY <1>3, <1>4, <1>6, <1>7, <1>8, InsertStep

LEMMA DeleteStep ==
    ASSUME ScheduleSound, NEW h \in Hosts, DeleteRow(h)
    PROVE  ScheduleSound'
<1>0. ScheduleShape /\ RowsCounted /\ NeverGone
    BY DEF ScheduleSound
<1> DEFINE r == host[h].row
           line == [step |-> "poll", row |-> Absent]
<1>1. /\ r \in Rows /\ host[h].step = "delete" /\ row' = [row EXCEPT ![r] = Absent]
      /\ host' = [host EXCEPT ![h] = line] /\ UNCHANGED <<migrator, lease, taskFaults>>
    BY <1>0 DEF DeleteRow, ScheduleShape
<1>2. line \in HostRow /\ line.step = "poll"
    BY DEF HostRow
<1> HIDE DEF line
<1>3. /\ host' \in [Hosts -> HostRow] /\ host'[h] = line /\ (\A g \in Hosts \ {h} : host'[g] = host[g])
      /\ Cardinality(Running') <= Cardinality(Running)
    BY <1>0, <1>1, <1>2, RunningMoves
<1>4. Deleting(h, r)
    BY <1>1 DEF Deleting
<1> HIDE DEF r
<1>5. row' \in [Rows -> Hosts \cup {Absent, Free}] /\ row'[r] = Absent /\ \A q \in Rows \ {r} : row'[q] = row[q]
    BY <1>0, <1>1 DEF ScheduleShape
<1>6. ScheduleShape'
  <2>1. \A g \in Hosts : host'[g].step \in {"running", "repeat", "delete"} => host'[g].row \in Rows
      BY <1>0, <1>2, <1>3 DEF ScheduleShape
  <2>2. \A g \in Hosts : host'[g].step = "insert" => host[g].step = "insert"
      BY <1>2, <1>3
  <2> QED BY <1>0, <1>1, <1>3, <1>5, <2>1, <2>2 DEF ScheduleShape
<1>7. Scheduled' = Scheduled \ {r}
    BY <1>1, <1>5 DEF Scheduled
<1>8. NeverGone'
  <2>1. PICK q \in Scheduled : \A g \in Hosts : ~Deleting(g, q)
      BY <1>0, <1>1 DEF NeverGone
  <2>2. q \in Scheduled'
      BY <1>4, <1>7, <2>1
  <2>3. \A g \in Hosts : ~Deleting(g, q)'
      BY <1>2, <1>3, <2>1 DEF Deleting
  <2> QED BY <2>2, <2>3 DEF NeverGone
<1>9. Registering' => Registering
    BY <1>1, <1>2, <1>3 DEF Registering
<1>10. ToInsert' <= ToInsert
    BY <1>9 DEF ToInsert
<1>11. Cardinality(Scheduled') + ToDelete <= Cardinality(Scheduled) + ToDelete'
  <2>1. CASE row[r] = Absent
    <3>1. Scheduled' = Scheduled
        BY <1>7, <2>1 DEF Scheduled
    <3>2. lease = h => ~HoldsRow
        BY <2>1 DEF HoldsRow, r
    <3>3. HoldsRow => HoldsRow'
        BY <1>0, <1>1, <1>3, <1>5, <2>1, <3>2 DEF HoldsRow, ScheduleShape
    <3>4. ToDelete <= ToDelete'
        BY <3>3 DEF ToDelete
    <3> QED BY <3>1, <3>4, ScheduleNumbers
  <2>2. CASE row[r] # Absent
    <3>1. r \in Scheduled
        BY <1>1, <2>2 DEF Scheduled
    <3>2. Cardinality(Scheduled') + 1 <= Cardinality(Scheduled)
        BY <1>7, <3>1, OneLessCounts, ScheduleNumbers
    <3> QED BY <3>2, ScheduleNumbers
  <2> QED BY <2>1, <2>2
<1>12. RowsCounted'
  <2>1. taskFaults \in Nat /\ taskFaults' = taskFaults
      BY <1>0, <1>1 DEF ScheduleShape
  <2> QED BY <1>0, <1>3, <1>10, <1>11, <2>1, ScheduleNumbers DEF RowsCounted
<1> QED BY <1>6, <1>8, <1>12 DEF ScheduleSound

LEMMA DropStep ==
    ASSUME ScheduleSound, DropLease
    PROVE  ScheduleSound'
<1>0. ScheduleShape /\ RowsCounted /\ NeverGone
    BY DEF ScheduleSound
<1>1. lease' = Nobody /\ taskFaults' = taskFaults + 1 /\ UNCHANGED <<row, host, migrator>>
    BY DEF DropLease
<1>2. taskFaults \in Nat
    BY <1>0 DEF ScheduleShape
<1>3. ScheduleShape'
    BY <1>0, <1>1, <1>2 DEF ScheduleShape
<1>4. NeverGone'
    BY <1>0, <1>1 DEF NeverGone, Scheduled, Deleting
<1>5. Scheduled' = Scheduled /\ Running' = Running /\ ToInsert' = ToInsert
    BY <1>1 DEF Scheduled, Running, ToInsert, Registering
<1>6. ToInsert' + Cardinality(Running') + taskFaults + ToDelete
        <= ToInsert + Cardinality(Running) + taskFaults' + ToDelete'
    BY <1>1, <1>2, <1>5, ScheduleNumbers
<1>7. RowsCounted'
    BY <1>0, <1>1, <1>2, <1>5, <1>6, StillCounted
<1> QED BY <1>3, <1>4, <1>7 DEF ScheduleSound

LEMMA ScheduleSoundStep == ScheduleSound /\ [RecurringNext]_recurringVars => ScheduleSound'
<1> SUFFICES ASSUME ScheduleSound, [RecurringNext]_recurringVars PROVE ScheduleSound'
    OBVIOUS
<1>1. ASSUME NEW m \in Migrators, MigratorRegisters(m) PROVE ScheduleSound'
    BY <1>1, MigratorLooks, MigratorInserts DEF MigratorRegisters
<1>2. ASSUME NEW h \in Hosts, HostRegisters(h) PROVE ScheduleSound'
  <2>1. CASE host[h].step = "register"
      BY <1>2, <2>1, HostLooks DEF HostRegisters
  <2>2. CASE host[h].step = "insert"
      BY <1>2, <2>2, HostInserts DEF HostRegisters
  <2> QED BY <1>2, <2>1, <2>2 DEF HostRegisters
<1>3. ASSUME NEW h \in Hosts, RepeatTask(h) PROVE ScheduleSound'
    BY <1>3, HostInserts DEF RepeatTask
<1>4. ASSUME NEW h \in Hosts, HostMoves(h) \/ BootWorker(h) \/ HostDies(h) PROVE ScheduleSound'
    BY <1>2, <1>3, <1>4, BootSteps, RunSteps, DownSteps, DeleteStep DEF HostMoves
<1>5. CASE DropLease
    BY <1>5, DropStep
<1>6. CASE UNCHANGED recurringVars
  <2>1. ScheduleShape' /\ NeverGone' /\ RowsCounted'
      BY <1>6 DEF recurringVars, ScheduleSound, ScheduleShape, NeverGone, Scheduled, Deleting, RowsCounted,
                  ToInsert, Registering, Running, ToDelete, HoldsRow
  <2> QED BY <2>1 DEF ScheduleSound
<1> QED BY <1>1, <1>4, <1>5, <1>6 DEF RecurringNext

\* However many processes register the task, and whichever workers die or lose
\* their lease in the middle of a run, the task has one schedule, one more for
\* each such fault, and the row that its worker is about to delete
\* (common/background.py).
THEOREM ScheduledOnce == ScheduleSpec => []OneSchedule
<1>1. ScheduleSound => OneSchedule
  <2> SUFFICES ASSUME ScheduleSound PROVE OneSchedule
      OBVIOUS
  <2> DEFINE Ending == {h \in Hosts : host[h].step = "delete" /\ row[host[h].row] # Absent}
  <2>1. IsFiniteSet(Ending) /\ Cardinality(Ending) \in Nat
      BY FewerAreFewer, RecurringAssumption
  <2>2. ToDelete <= Cardinality(Running) + Cardinality(Ending)
    <3>1. CASE ToDelete = 0
        BY <2>1, <3>1, ScheduleNumbers
    <3>2. CASE ToDelete # 0
      <4>1. lease \in Running \/ lease \in Ending
          BY <3>2 DEF ToDelete, HoldsRow, Running
      <4>2. \A S : IsFiniteSet(S) /\ lease \in S => Cardinality(S) \in Nat /\ 1 <= Cardinality(S)
        <5> SUFFICES ASSUME NEW S, IsFiniteSet(S), lease \in S PROVE Cardinality(S) \in Nat /\ 1 <= Cardinality(S)
            OBVIOUS
        <5>1. Cardinality(S) \in Nat
            BY FS_CardinalityType
        <5>2. Cardinality(S) # 0
            BY FS_EmptySet
        <5> QED BY <5>1, <5>2
      <4>3. ToDelete = 1
          BY <3>2 DEF ToDelete
      <4> HIDE DEF Ending
      <4> QED BY <2>1, <4>1, <4>2, <4>3, ScheduleNumbers
    <3> QED BY <3>1, <3>2
  <2>3. RowsCounted /\ taskFaults \in Nat
      BY DEF ScheduleSound, ScheduleShape
  <2>4. Cardinality(Scheduled) <= 1 + taskFaults + Cardinality(Ending)
    <3> HIDE DEF Ending
    <3> QED BY <2>1, <2>2, <2>3, ScheduleNumbers DEF RowsCounted
  <2> QED BY <2>4 DEF OneSchedule
<1> QED BY <1>1, ScheduleSoundInit, ScheduleSoundStep, PTL DEF ScheduleSpec

-----------------------------------------------------------------------------
(* The media library.                                                      *)

TaskRow == [step : {"none", "queued", "loaded", "saved", "shown"}, source : Nat, shown : Nat]

VersionShape ==
    /\ media \in [file : Nat \ {NoFile}, current : Nat] /\ version \in [Versions -> Nat]
    /\ task \in [Versions -> TaskRow] /\ written \in Nat /\ {crossed, again} \subseteq BOOLEAN
    /\ media.current = Newest(version)
    /\ \A n \in Versions : task[n].step # "none" => version[n] # NoFile

\* A pending edit is the newest version.  Its file is its own, unless it is still
\* the asset's, and the task knows both.
EditSound(n) ==
    /\ n = media.current
    /\ version[n] = media.file \/ \A m \in Versions \ {n} : version[m] # version[n]
    /\ task[n].step \in {"loaded", "saved"} => task[n].shown = media.file
    /\ task[n].step = "loaded" => task[n].source = version[n]
    /\ task[n].step = "saved" => version[n] # media.file
    /\ task[n].step = "shown" => version[n] = media.file

\* The version that a pending edit would leave as the newest is the asset's file.
FallsBack(n) ==
    \A m \in Kept(version) \ {n} : (\A k \in Kept(version) \ {n} : k <= m) => version[m] = media.file

EditsSound ==
    /\ FilesAreKept /\ files \subseteq 0..written
    /\ \A n \in Versions : task[n].step # "none" => EditSound(n)
    /\ ~again => Pending \/ media.current = NoFile \/ version[media.current] = media.file
    /\ ~again => \A n \in Versions : task[n].step \notin {"none", "shown"} => FallsBack(n)

UploadSound ==
    /\ upload \in [state : {"open", "finalized", "swept"}, expired : BOOLEAN]
    /\ space \in Nat \ {0} /\ assets \in {0, 1}
    /\ object \in {"awaited", "good", "bad", "deleted"}
    /\ upload.state = "open" => assets = 0
    /\ \A f \in Finalizers : finalizer[f] = "inspected" /\ assets = 0 =>
         object = "good" \/ uploadSweep = "emptied" \/ upload.state = "swept"
    /\ uploadSweep # "idle" => upload.expired
    /\ assets = 1 /\ ~upload.expired /\ assets < space => object = "good"

MediaSound == VersionShape /\ (~crossed => EditsSound) /\ UploadSound

\* A set of numbers that is finite has a largest one: sets of larger numbers
\* cannot shrink for ever.
LEMMA Largest ==
    ASSUME NEW S \in SUBSET Nat, IsFiniteSet(S), S # {}
    PROVE  \E x \in S : \A y \in S : y <= x
<1> DEFINE Above(x) == {y \in S : x < y}
           All == {Above(x) : x \in S}
           R == StrictSubsetOrdering(S)
<1>1. IsWellFoundedOn(R, FiniteSubsetsOf(S))
    BY FS_StrictSubsetOrderingWellFounded
<1>2. All \subseteq FiniteSubsetsOf(S) /\ All # {}
  <2>1. FiniteSubsetsOf(S) = SUBSET S
      BY FS_FiniteSubsetsOfFinite
  <2>2. All \subseteq SUBSET S /\ All # {}
      OBVIOUS
  <2> QED BY <2>1, <2>2
<1>3. PICK U \in All : \A V \in All : ~(<<V, U>> \in R)
  <2> HIDE DEF R, All
  <2> QED BY <1>1, <1>2, WFMin
<1>4. PICK x \in S : U = Above(x)
    BY <1>3
<1>5. ASSUME NEW y \in S, x < y PROVE FALSE
  <2>1. Above(y) \in All /\ Above(y) \subseteq S /\ Above(x) \subseteq S
      OBVIOUS
  <2>2. Above(y) \subseteq Above(x) /\ y \in Above(x) /\ y \notin Above(y)
    <3>1. \A z \in S : y < z => x < z
        BY <1>5
    <3>2. ~(y < y)
        OBVIOUS
    <3> QED BY <1>5, <3>1, <3>2
  <2>3. <<Above(y), Above(x)>> \in R
    <3> HIDE DEF Above
    <3> QED BY <2>1, <2>2 DEF StrictSubsetOrdering
  <2> QED BY <1>3, <1>4, <2>1, <2>3
<1> QED BY <1>5

\* The newest version: no version that is kept is above it.
LEMMA NewestIs ==
    ASSUME NEW table \in [Versions -> Nat]
    PROVE  /\ Newest(table) \in Kept(table) \cup {NoFile} /\ Newest(table) \in Nat
           /\ \A n \in Kept(table) : n <= Newest(table)
           /\ \A x \in Kept(table) \cup {NoFile} : (\A n \in Kept(table) : n <= x) => x = Newest(table)
<1> DEFINE S == Kept(table) \cup {NoFile}
           newest == Max(S)
<1>1. S \in SUBSET Nat /\ S \subseteq 0..LastVersion /\ NoFile \in S /\ LastVersion \in Nat
    BY MediaAssumption DEF Kept, Versions, NoFile
<1>2. Newest(table) = newest
    BY DEF Newest
<1> HIDE DEF S
<1>3. IsFiniteSet(S)
  <2>1. IsFiniteSet(0..LastVersion)
      BY <1>1, FS_Interval
  <2> QED BY <1>1, <2>1, FS_Subset
<1>4. \E x \in S : \A y \in S : y <= x
    BY <1>1, <1>3, Largest
<1>5. \E x \in S : \A y \in S : x >= y
    BY <1>1, <1>4
<1>6. newest \in S /\ \A y \in S : newest >= y
    BY <1>5 DEF Max
<1> HIDE DEF newest
<1>7. newest \in Nat /\ \A y \in S : y \in Nat /\ y <= newest
    BY <1>1, <1>6
<1>8. \A z \in S : (\A y \in Kept(table) : y <= z) => z = newest
  <2> SUFFICES ASSUME NEW z \in S, \A y \in Kept(table) : y <= z PROVE z = newest
      OBVIOUS
  <2>1. newest <= z
      BY <1>1, <1>6, <1>7 DEF S, NoFile
  <2>2. z <= newest
      BY <1>7
  <2> QED BY <1>7, <2>1, <2>2
<1> QED BY <1>2, <1>6, <1>7, <1>8 DEF S

LEMMA UploadSoundInit == MediaInit => UploadSound
<1> SUFFICES ASSUME MediaInit PROVE UploadSound
    OBVIOUS
<1>1. \A f \in Finalizers : finalizer[f] = "idle"
    BY DEF MediaInit
<1>2. upload \in [state : {"open", "finalized", "swept"}, expired : BOOLEAN] /\ space \in Nat \ {0}
    BY DEF MediaInit
<1>3. assets = 0 /\ object = "awaited" /\ uploadSweep = "idle"
    BY DEF MediaInit
<1> QED BY <1>1, <1>2, <1>3 DEF UploadSound

LEMMA UploadSoundStep == UploadSound /\ [UploadsNext]_uploadVars => UploadSound'
<1> SUFFICES ASSUME UploadSound, [UploadsNext]_uploadVars PROVE UploadSound'
    OBVIOUS
<1> USE DEF UploadSound
<1>1. CASE AgentUploads \/ UploadExpires \/ ListExpired \/ DeleteObject \/ DeleteUpload
  <2>1. finalizer' = finalizer
      BY <1>1 DEF AgentUploads, UploadExpires, ListExpired, DeleteObject, DeleteUpload
  <2>2. CASE AgentUploads
      BY <2>1, <2>2 DEF AgentUploads
  <2>3. CASE UploadExpires
      BY <2>1, <2>3 DEF UploadExpires
  <2>4. CASE ListExpired
      BY <2>1, <2>4 DEF ListExpired
  <2>5. CASE DeleteObject
    <3>1. upload.expired
        BY <2>5 DEF DeleteObject
    <3>2. uploadSweep' = "emptied" /\ object' = "deleted" /\ UNCHANGED <<upload, space, assets, finalizer>>
        BY <2>5 DEF DeleteObject
    <3> QED BY <3>1, <3>2
  <2>6. CASE DeleteUpload
      BY <2>1, <2>6 DEF DeleteUpload
  <2> QED BY <1>1, <2>2, <2>3, <2>4, <2>5, <2>6
<1>2. ASSUME NEW f \in Finalizers, LookAtUpload(f) \/ InspectObject(f) \/ RegisterAsset(f) PROVE UploadSound'
  <2>1. \A step : CallGoes(f, step) => \A g \in Finalizers : finalizer'[g] = "inspected" =>
                     (finalizer[g] = "inspected" \/ step = "inspected")
      BY DEF CallGoes
  <2>2. CASE LookAtUpload(f)
      BY <2>1, <2>2 DEF LookAtUpload
  <2>3. CASE InspectObject(f)
    <3>1. UNCHANGED <<upload, space, assets, uploadSweep>>
        BY <2>3 DEF InspectObject
    <3>2. CASE object \in {"awaited", "deleted"}
        BY <2>1, <2>3, <3>1, <3>2 DEF InspectObject
    <3>3. CASE object \notin {"awaited", "deleted"} /\ Rejected
      <4>1. CallGoes(f, "idle") /\ object' = "deleted"
          BY <2>3, <3>3 DEF InspectObject
      <4>2. assets = 0 => object = "bad"
          BY <3>3 DEF Rejected
      <4>3. assets = 1 => upload.expired \/ ~(assets < space)
          BY <3>3 DEF Rejected
      <4> QED BY <2>1, <3>1, <4>1, <4>2, <4>3
    <3>4. CASE object \notin {"awaited", "deleted"} /\ ~Rejected
      <4>1. CallGoes(f, "inspected") /\ UNCHANGED object
          BY <2>3, <3>4 DEF InspectObject
      <4> QED BY <2>1, <3>1, <3>4, <4>1 DEF Rejected
    <3> QED BY <3>2, <3>3, <3>4
  <2>4. CASE RegisterAsset(f)
    <3>1. /\ finalizer[f] = "inspected" /\ CallGoes(f, "idle") /\ UNCHANGED <<object, space, uploadSweep>>
        BY <2>4 DEF RegisterAsset
    <3>2. CASE UNCHANGED <<upload, assets>>
        BY <2>1, <3>1, <3>2
    <3>3. CASE ~UNCHANGED <<upload, assets>>
      <4>1. /\ upload.state \notin {"finalized", "swept"}
            /\ upload' = [upload EXCEPT !.state = "finalized"] /\ assets' = assets + 1
          BY <2>4, <3>3 DEF RegisterAsset, FinalizedMeanwhile
      <4>2. upload'.expired = upload.expired
          BY <4>1
      <4>3. assets = 0 /\ assets' = 1
          BY <4>1
      <4>4. ~upload'.expired => object' = "good"
          BY <3>1, <4>1, <4>2, <4>3
      <4> QED BY <2>1, <3>1, <4>1, <4>2, <4>3, <4>4
    <3> QED BY <3>2, <3>3
  <2> QED BY <1>2, <2>2, <2>3, <2>4
<1>3. CASE UNCHANGED uploadVars
    BY <1>3 DEF uploadVars
<1> QED BY <1>1, <1>2, <1>3 DEF UploadsNext

LEMMA NewVersion ==
    ASSUME NEW table \in [Versions -> Nat], NEW n \in Versions, n = NextVersion(table)
    PROVE  /\ table[n] = NoFile /\ Newest(table) # n
           /\ \A later \in [Versions -> Nat] : Kept(later) = Kept(table) \cup {n} => Newest(later) = n
<1>1. Newest(table) \in Nat /\ (\A k \in Kept(table) : k <= Newest(table)) /\ n = Newest(table) + 1
    BY NewestIs DEF NextVersion
<1>2. n \in Nat /\ n <= n /\ \A k \in Kept(table) : k \in Nat /\ k <= n /\ k # n
    BY <1>1 DEF Kept, Versions
<1>3. table[n] = NoFile /\ Newest(table) # n
    BY <1>1, <1>2 DEF Kept
<1>4. ASSUME NEW later \in [Versions -> Nat], Kept(later) = Kept(table) \cup {n} PROVE n = Newest(later)
  <2>1. n \in Kept(later) /\ \A k \in Kept(later) : k <= n
      BY <1>2, <1>4
  <2> QED BY <2>1, NewestIs
<1> QED BY <1>3, <1>4

\* What an edit starts from: the version made of the upload, if there was none.
EditedFrom == IF Kept(version) = {} THEN [version EXCEPT ![Original] = media.file] ELSE version

LEMMA RequestFacts ==
    ASSUME VersionShape, RequestEdit
    PROVE  LET n == media'.current
           IN  /\ EditedFrom \in [Versions -> Nat] /\ n = NextVersion(EditedFrom) /\ n \in Versions
               /\ media.file \in Nat \ {NoFile} /\ media' = [media EXCEPT !.current = n]
               /\ version' = [EditedFrom EXCEPT ![n] = media.file]
               /\ task' = [task EXCEPT ![n] = [NoTask EXCEPT !.step = "queued"]]
               /\ (crossed' = (crossed \/ Pending)) /\ UNCHANGED <<files, written, again>>
<1> DEFINE m == NextVersion(EditedFrom)
<1>1. EditedFrom \in [Versions -> Nat] /\ media.file \in Nat \ {NoFile}
    BY DEF EditedFrom, VersionShape
<1>2. /\ m \in Versions /\ version' = [EditedFrom EXCEPT ![m] = media.file]
      /\ task' = [task EXCEPT ![m] = [NoTask EXCEPT !.step = "queued"]]
      /\ media' = [media EXCEPT !.current = m]
      /\ (crossed' = (crossed \/ Pending)) /\ UNCHANGED <<files, written, again>>
    BY DEF RequestEdit, EditedFrom
<1> HIDE DEF m
<1>3. media'.current = m
    BY <1>2 DEF VersionShape
<1> QED BY <1>1, <1>2, <1>3 DEF m

LEMMA RequestKeeps ==
    ASSUME VersionShape, ~crossed => EditsSound, RequestEdit
    PROVE  VersionShape' /\ (~crossed' => EditsSound')
<1> DEFINE n == media'.current
<1>1. /\ EditedFrom \in [Versions -> Nat] /\ n = NextVersion(EditedFrom) /\ n \in Versions
      /\ media.file \in Nat \ {NoFile} /\ media' = [media EXCEPT !.current = n]
      /\ version' = [EditedFrom EXCEPT ![n] = media.file]
      /\ task' = [task EXCEPT ![n] = [NoTask EXCEPT !.step = "queued"]]
      /\ UNCHANGED <<files, written, again>>
    BY RequestFacts
<1>2. crossed' \in BOOLEAN /\ (crossed' <=> crossed \/ Pending)
    BY RequestFacts, Zenon
<1>4. media'.file = media.file /\ n \in Nat /\ media' \in [file : Nat \ {NoFile}, current : Nat]
    BY <1>1 DEF VersionShape, Versions
<1> HIDE DEF n
<1>3. /\ EditedFrom[n] = NoFile /\ version' \in [Versions -> Nat] /\ version'[n] = media.file
      /\ \A k \in Versions \ {n} : version'[k] = EditedFrom[k]
      /\ Kept(version') = Kept(EditedFrom) \cup {n} /\ Newest(version') = n
  <2>1. version' \in [Versions -> Nat] /\ version'[n] = media.file
        /\ \A k \in Versions \ {n} : version'[k] = EditedFrom[k]
      BY <1>1
  <2>2. EditedFrom[n] = NoFile
      BY <1>1, NewVersion
  <2>3. Kept(version') = Kept(EditedFrom) \cup {n}
    <3>1. media.file # NoFile
        BY <1>1
    <3> QED BY <1>1, <2>1, <2>2, <3>1 DEF Kept
  <2>4. Newest(version') = n
    <3>1. EditedFrom \in [Versions -> Nat] /\ n \in Versions /\ n = NextVersion(EditedFrom)
        BY <1>1
    <3>2. \A later \in [Versions -> Nat] : Kept(later) = Kept(EditedFrom) \cup {n} => Newest(later) = n
        BY ONLY <3>1, NewVersion
    <3> QED BY ONLY <2>1, <2>3, <3>2
  <2> QED BY <2>1, <2>2, <2>3, <2>4
<1>5. /\ task' \in [Versions -> TaskRow] /\ task'[n].step = "queued"
      /\ \A k \in Versions \ {n} : task'[k] = task[k]
    BY <1>1 DEF VersionShape, TaskRow, NoTask, NoFile
<1>6. \A k \in Kept(version) : EditedFrom[k] = version[k]
    BY DEF EditedFrom
<1>7. VersionShape'
  <2>1. \A k \in Versions : task'[k].step # "none" => version'[k] # NoFile
    <3> SUFFICES ASSUME NEW k \in Versions, task'[k].step # "none" PROVE version'[k] # NoFile
        OBVIOUS
    <3>1. CASE k = n
        BY <1>1, <1>3, <3>1
    <3>2. CASE k # n
      <4>1. version[k] # NoFile
          BY <1>5, <3>2 DEF VersionShape
      <4>2. EditedFrom[k] = version[k]
          BY <1>6, <4>1 DEF Kept
      <4> QED BY <1>3, <3>2, <4>1, <4>2
    <3> QED BY <3>1, <3>2
  <2>2. written' \in Nat /\ {crossed', again'} \subseteq BOOLEAN
      BY <1>1, <1>2 DEF VersionShape
  <2>3. media'.current = Newest(version')
      BY <1>3 DEF n
  <2> QED BY <1>3, <1>4, <1>5, <2>1, <2>2, <2>3 DEF VersionShape
<1>8. ASSUME ~crossed' PROVE EditsSound'
  <2>1. EditsSound /\ \A k \in Versions : task[k].step = "none"
      BY <1>2, <1>8 DEF Pending
  <2>2. \A k \in Versions : task'[k].step # "none" => k = n
      BY <1>5, <2>1
  <2>3. \A k \in Versions : EditedFrom[k] \in {version[k], media.file}
      BY <1>1 DEF EditedFrom, VersionShape
  <2>4. FilesAreKept' /\ files' \subseteq 0..written'
    <3>1. media.file \in files /\ (\A k \in Versions : version[k] # NoFile => version[k] \in files) /\ files \subseteq 0..written
        BY <2>1 DEF EditsSound, FilesAreKept, Kept
    <3>2. \A k \in Versions : version'[k] # NoFile => version'[k] \in files
        BY <1>3, <2>3, <3>1
    <3> QED BY <1>1, <1>4, <3>1, <3>2 DEF FilesAreKept, Kept
  <2>5. \A k \in Versions : task'[k].step # "none" => EditSound(k)'
      BY <1>3, <1>4, <1>5, <2>2 DEF n, EditSound
  <2>6. Pending'
      BY <1>1, <1>5 DEF Pending
  <2>7. ASSUME ~again', NEW k \in Versions, task'[k].step \notin {"none", "shown"} PROVE FallsBack(k)'
    <3> SUFFICES ASSUME NEW m \in Kept(version') \ {k}, \A i \in Kept(version') \ {k} : i <= m
                 PROVE  version'[m] = media'.file
        BY DEF FallsBack
    <3>1. k = n /\ n \notin Kept(EditedFrom)
        BY <1>3, <2>2, <2>7 DEF Kept
    <3>2. m \in Kept(EditedFrom) /\ (\A i \in Kept(EditedFrom) : i <= m) /\ m # n
        BY <1>3, <2>7, <3>1
    <3>3. m = Newest(EditedFrom)
        BY <1>1, <3>2, NewestIs
    <3>4. EditedFrom[m] = media.file
      <4>1. CASE Kept(version) = {}
          BY <4>1, <3>2 DEF EditedFrom, Kept, VersionShape
      <4>2. CASE Kept(version) # {}
        <5>1. EditedFrom = version
            BY <4>2 DEF EditedFrom
        <5>2. m = media.current /\ m # NoFile
            BY <3>2, <3>3, <5>1 DEF VersionShape, Kept, Versions, NoFile
        <5>3. ~again /\ ~Pending
            BY <1>1, <2>1, <2>7 DEF Pending
        <5> QED BY <2>1, <5>1, <5>2, <5>3 DEF EditsSound
      <4> QED BY <4>1, <4>2
    <3> QED BY <1>3, <1>4, <3>2, <3>4 DEF Kept
  <2> QED BY <2>4, <2>5, <2>6, <2>7 DEF EditsSound
<1> QED BY <1>7, <1>8

\* One task moves while no version comes or goes.
LEMMA TaskMoves ==
    ASSUME VersionShape, NEW n \in Versions, NEW line \in TaskRow, task' = [task EXCEPT ![n] = line],
           line.step # "none" => version'[n] # NoFile,
           version' \in [Versions -> Nat], Kept(version') = Kept(version),
           media' \in [file : Nat \ {NoFile}, current : Nat], media'.current = media.current,
           written' \in Nat, {crossed', again'} \subseteq BOOLEAN
    PROVE  VersionShape' /\ task'[n] = line /\ \A m \in Versions \ {n} : task'[m] = task[m]
<1>1. task' \in [Versions -> TaskRow] /\ task'[n] = line /\ \A m \in Versions \ {n} : task'[m] = task[m]
    BY DEF VersionShape
<1>2. Newest(version') = Newest(version)
    BY DEF Newest
<1>3. \A m \in Versions : version[m] # NoFile => version'[m] # NoFile
    BY DEF Kept
<1>4. \A m \in Versions : task'[m].step # "none" => version'[m] # NoFile
    BY <1>1, <1>3 DEF VersionShape
<1> QED BY <1>1, <1>2, <1>4 DEF VersionShape

LEMMA LoadKeeps ==
    ASSUME VersionShape, ~crossed => EditsSound, NEW n \in Versions, LoadEdit(n)
    PROVE  VersionShape' /\ (~crossed' => EditsSound')
<1> DEFINE line == [step |-> "loaded", source |-> version[n], shown |-> media.file]
<1>1. /\ UNCHANGED <<media, version, files, written, crossed, again>>
      /\ task[n].step = "queued" /\ version[n] # NoFile
    BY DEF LoadEdit
<1>2. /\ line \in TaskRow /\ task' = [task EXCEPT ![n] = line]
      /\ line.step = "loaded" /\ line.source = version[n] /\ line.shown = media.file
    BY DEF LoadEdit, VersionShape, TaskRow
<1> HIDE DEF line
<1>3. VersionShape' /\ task'[n] = line /\ \A m \in Versions \ {n} : task'[m] = task[m]
  <2>1. /\ version' \in [Versions -> Nat] /\ Kept(version') = Kept(version)
        /\ media' \in [file : Nat \ {NoFile}, current : Nat] /\ media'.current = media.current
        /\ written' \in Nat /\ {crossed', again'} \subseteq BOOLEAN
      BY <1>1 DEF VersionShape
  <2> QED BY <1>1, <1>2, <2>1, TaskMoves
<1>4. ASSUME ~crossed, EditsSound PROVE EditsSound'
  <2>1. FilesAreKept'
      BY <1>1, <1>4 DEF EditsSound, FilesAreKept
  <2>2. ASSUME NEW k \in Versions, task'[k].step # "none" PROVE EditSound(k)'
    <3>1. CASE k = n
        BY <1>1, <1>2, <1>3, <1>4, <3>1 DEF EditsSound, EditSound
    <3>2. CASE k # n
        BY <1>1, <1>3, <1>4, <2>2, <3>2 DEF EditsSound, EditSound
    <3> QED BY <3>1, <3>2
  <2>3. Pending' /\ files' \subseteq 0..written'
      BY <1>1, <1>2, <1>3, <1>4 DEF Pending, EditsSound
  <2>4. ASSUME ~again', NEW k \in Versions, task'[k].step \notin {"none", "shown"} PROVE FallsBack(k)'
    <3>1. task[k].step \notin {"none", "shown"}
        BY <1>1, <1>3, <2>4
    <3> QED BY <1>1, <1>4, <2>4, <3>1 DEF EditsSound, FallsBack
  <2> QED BY <2>1, <2>2, <2>3, <2>4 DEF EditsSound
<1> QED BY <1>1, <1>3, <1>4

LEMMA SaveKeeps ==
    ASSUME VersionShape, ~crossed => EditsSound, NEW n \in Versions, SaveEdit(n)
    PROVE  VersionShape' /\ (~crossed' => EditsSound')
<1> DEFINE line == [task[n] EXCEPT !.step = "saved"]
           file == written + 1
<1>1. /\ UNCHANGED <<media, crossed, again>> /\ task[n].step = "loaded" /\ version[n] # NoFile
      /\ version' = [version EXCEPT ![n] = file] /\ files' = files \cup {file} /\ written' = file
    BY DEF SaveEdit, VersionShape
<1>2. /\ line \in TaskRow /\ task' = [task EXCEPT ![n] = line]
      /\ line.step = "saved" /\ line.source = task[n].source /\ line.shown = task[n].shown
    BY DEF SaveEdit, VersionShape, TaskRow
<1>3. written \in Nat /\ file \in Nat /\ file # NoFile /\ \A f \in 0..written : f # file /\ f \in 0..file
    BY DEF VersionShape, NoFile
<1> HIDE DEF line, file
<1>4. version' \in [Versions -> Nat] /\ version'[n] = file /\ \A m \in Versions \ {n} : version'[m] = version[m]
    BY <1>1, <1>3 DEF VersionShape
<1>5. Kept(version') = Kept(version)
    BY <1>1, <1>3, <1>4 DEF Kept
<1>6. VersionShape' /\ task'[n] = line /\ \A m \in Versions \ {n} : task'[m] = task[m]
  <2>1. /\ media' \in [file : Nat \ {NoFile}, current : Nat] /\ media'.current = media.current
        /\ written' \in Nat /\ {crossed', again'} \subseteq BOOLEAN
      BY <1>1, <1>3 DEF VersionShape
  <2> QED BY <1>2, <1>3, <1>4, <1>5, <2>1, TaskMoves
<1>7. ASSUME ~crossed, EditsSound PROVE EditsSound'
  <2>1. /\ media.file \in files /\ (\A k \in Versions : version[k] # NoFile => version[k] \in files)
        /\ files \subseteq 0..written
      BY <1>7 DEF EditsSound, FilesAreKept, Kept
  <2>2. file # media.file /\ \A k \in Versions : version[k] # file
      BY <1>3, <2>1
  <2>3. FilesAreKept' /\ files' \subseteq 0..written'
    <3>1. \A k \in Versions : version'[k] # NoFile => version'[k] \in files'
        BY <1>1, <1>4, <2>1
    <3>2. files' \subseteq 0..written'
      <4>1. files \subseteq 0..file /\ file \in 0..file
          BY <1>3, <2>1
      <4>2. files' = files \cup {file} /\ written' = file
          BY <1>1
      <4> QED BY <4>1, <4>2
    <3> QED BY <1>1, <2>1, <3>1, <3>2 DEF FilesAreKept, Kept
  <2>4. ASSUME NEW k \in Versions, task'[k].step # "none" PROVE EditSound(k)'
    <3>1. EditSound(n) /\ n = media.current
        BY <1>1, <1>7 DEF EditsSound, EditSound
    <3>2. k = n
        BY <1>6, <1>7, <2>4, <3>1 DEF EditsSound, EditSound
    <3> QED BY <1>1, <1>2, <1>4, <1>6, <2>2, <3>1, <3>2 DEF EditSound
  <2>5. Pending'
      BY <1>2, <1>6 DEF Pending
  <2>6. ASSUME ~again', NEW k \in Versions, task'[k].step \notin {"none", "shown"} PROVE FallsBack(k)'
    <3>1. k = n
        BY <1>1, <1>6, <1>7, <2>6 DEF EditsSound, EditSound
    <3>2. FallsBack(n)
        BY <1>1, <1>7, <2>6 DEF EditsSound
    <3>3. \A m \in Kept(version) \ {n} : version'[m] = version[m]
        BY <1>4 DEF Kept
    <3> QED BY <1>1, <1>5, <3>1, <3>2, <3>3 DEF FallsBack
  <2> QED BY <2>3, <2>4, <2>5, <2>6 DEF EditsSound
<1> QED BY <1>1, <1>6, <1>7

LEMMA ShowKeeps ==
    ASSUME VersionShape, ~crossed => EditsSound, NEW n \in Versions, ShowEdit(n)
    PROVE  VersionShape' /\ (~crossed' => EditsSound')
<1> DEFINE line == [task[n] EXCEPT !.step = "shown"]
<1>1. /\ UNCHANGED <<version, files, written, crossed, again>> /\ task[n].step = "saved" /\ version[n] # NoFile
      /\ media'.file = version[n] /\ media'.current = media.current
      /\ media' \in [file : Nat \ {NoFile}, current : Nat]
    BY DEF ShowEdit, VersionShape
<1>2. line \in TaskRow /\ task' = [task EXCEPT ![n] = line] /\ line.step = "shown"
    BY DEF ShowEdit, VersionShape, TaskRow
<1> HIDE DEF line
<1>3. VersionShape' /\ task'[n] = line /\ \A m \in Versions \ {n} : task'[m] = task[m]
  <2>1. /\ version' \in [Versions -> Nat] /\ Kept(version') = Kept(version)
        /\ written' \in Nat /\ {crossed', again'} \subseteq BOOLEAN
      BY <1>1 DEF VersionShape
  <2> QED BY <1>1, <1>2, <2>1, TaskMoves
<1>4. ASSUME ~crossed, EditsSound PROVE EditsSound'
  <2>1. EditSound(n) /\ n = media.current
      BY <1>1, <1>4 DEF EditsSound, EditSound
  <2>2. \A k \in Versions : task'[k].step # "none" => k = n
      BY <1>3, <1>4, <2>1 DEF EditsSound, EditSound
  <2>3. FilesAreKept'
      BY <1>1, <1>4 DEF EditsSound, FilesAreKept, Kept
  <2>4. EditSound(n)'
      BY <1>1, <1>2, <1>3, <2>1 DEF EditSound
  <2>5. Pending' /\ files' \subseteq 0..written'
      BY <1>1, <1>2, <1>3, <1>4 DEF Pending, EditsSound
  <2>6. \A k \in Versions : task'[k].step \in {"none", "shown"}
      BY <1>2, <1>3, <2>2
  <2> QED BY <2>2, <2>3, <2>4, <2>5, <2>6 DEF EditsSound
<1> QED BY <1>1, <1>3, <1>4

LEMMA EndKeeps ==
    ASSUME VersionShape, ~crossed => EditsSound, NEW n \in Versions, EditEnds(n)
    PROVE  VersionShape' /\ (~crossed' => EditsSound')
<1>1. /\ UNCHANGED <<media, version, files, written, crossed, again>> /\ task[n].step = "shown"
      /\ task' = [task EXCEPT ![n] = NoTask]
    BY DEF EditEnds
<1>2. NoTask \in TaskRow /\ NoTask.step = "none"
    BY DEF NoTask, TaskRow, NoFile
<1>3. VersionShape' /\ task'[n] = NoTask /\ \A m \in Versions \ {n} : task'[m] = task[m]
  <2>1. /\ version' \in [Versions -> Nat] /\ Kept(version') = Kept(version)
        /\ media' \in [file : Nat \ {NoFile}, current : Nat] /\ media'.current = media.current
        /\ written' \in Nat /\ {crossed', again'} \subseteq BOOLEAN
      BY <1>1 DEF VersionShape
  <2> QED BY <1>1, <1>2, <2>1, TaskMoves
<1>4. ASSUME ~crossed, EditsSound PROVE EditsSound'
  <2>1. n = media.current /\ version[n] = media.file
      BY <1>1, <1>4 DEF EditsSound, EditSound
  <2>2. \A k \in Versions : task'[k].step = "none"
      BY <1>2, <1>3, <1>4, <2>1 DEF EditsSound, EditSound
  <2>3. FilesAreKept' /\ files' \subseteq 0..written'
      BY <1>1, <1>4 DEF EditsSound, FilesAreKept
  <2> QED BY <1>1, <2>1, <2>2, <2>3 DEF EditsSound
<1> QED BY <1>1, <1>3, <1>4

LEMMA FailKeeps ==
    ASSUME VersionShape, ~crossed => EditsSound, NEW n \in Versions, EditFails(n)
    PROVE  VersionShape' /\ (~crossed' => EditsSound')
<1>1. /\ UNCHANGED <<written, crossed, again>> /\ task[n].step \in {"loaded", "saved"}
      /\ task' = [task EXCEPT ![n] = NoTask] /\ version' = [version EXCEPT ![n] = NoFile]
      /\ media' = [media EXCEPT !.current = Newest(version')]
    BY DEF EditFails
<1>2. NoTask \in TaskRow /\ NoTask.step = "none"
    BY DEF NoTask, TaskRow, NoFile
<1>3. task' \in [Versions -> TaskRow] /\ task'[n] = NoTask /\ \A m \in Versions \ {n} : task'[m] = task[m]
    BY <1>1, <1>2 DEF VersionShape
<1>4. version' \in [Versions -> Nat] /\ version'[n] = NoFile /\ \A m \in Versions \ {n} : version'[m] = version[m]
    BY <1>1 DEF VersionShape, NoFile
<1>5. Kept(version') = Kept(version) \ {n}
    BY <1>4 DEF Kept
<1> DEFINE newest == Newest(version')
<1>6. newest \in Nat /\ newest \in Kept(version') \cup {NoFile} /\ \A k \in Kept(version') : k <= newest
    BY <1>4, NewestIs
<1>7. media' = [media EXCEPT !.current = newest]
    BY <1>1
<1> HIDE DEF newest
<1>8. media'.file = media.file /\ media'.current = newest /\ media' \in [file : Nat \ {NoFile}, current : Nat]
    BY <1>6, <1>7 DEF VersionShape
<1>9. VersionShape'
  <2>1. \A k \in Versions : task'[k].step # "none" => version'[k] # NoFile
      BY <1>2, <1>3, <1>4 DEF VersionShape
  <2>2. written' \in Nat /\ {crossed', again'} \subseteq BOOLEAN
      BY <1>1 DEF VersionShape
  <2> QED BY <1>3, <1>4, <1>8, <2>1, <2>2 DEF VersionShape, newest
<1>10. ASSUME ~crossed, EditsSound PROVE EditsSound'
  <2>1. EditSound(n) /\ n = media.current
      BY <1>1, <1>10 DEF EditsSound, EditSound
  <2>2. \A k \in Versions : task'[k].step = "none"
      BY <1>2, <1>3, <1>10, <2>1 DEF EditsSound, EditSound
  <2>3. PICK tooLarge \in BOOLEAN : files' = files \ ({version[n]} \ {Spared(n, tooLarge)})
      BY DEF EditFails
  <2>4. \A f \in files : f \notin files' => f = version[n] /\ f # Spared(n, tooLarge)
      BY <2>3
  <2>5. media.file \in files /\ (\A k \in Versions : version[k] # NoFile => version[k] \in files)
      BY <1>10 DEF EditsSound, FilesAreKept, Kept
  <2>6. version[n] \notin files' => version[n] # media.file
    <3>1. CASE task[n].step = "saved"
        BY <2>1, <3>1 DEF EditSound
    <3>2. CASE task[n].step = "loaded"
      <4>1. version[n] = media.file => Spared(n, tooLarge) = version[n]
          BY <2>1, <3>2 DEF EditSound, Spared
      <4> QED BY <2>3, <2>5, <4>1
    <3> QED BY <1>1, <3>1, <3>2
  <2>7. media.file \in files'
      BY <2>4, <2>5, <2>6
  <2>8. \A k \in Versions : version'[k] # NoFile => version'[k] \in files'
    <3> SUFFICES ASSUME NEW k \in Versions, version'[k] # NoFile, version'[k] \notin files' PROVE FALSE
        OBVIOUS
    <3>1. k # n /\ version[k] # NoFile /\ version[k] \notin files' /\ version[k] \in files
        BY <1>4, <2>5
    <3>2. version[k] = version[n] /\ version[n] # media.file
        BY <2>4, <2>6, <3>1
    <3> QED BY <2>1, <3>1, <3>2 DEF EditSound
  <2>9. FilesAreKept' /\ files' \subseteq 0..written'
      BY <1>1, <1>8, <1>10, <2>3, <2>7, <2>8 DEF EditsSound, FilesAreKept, Kept
  <2>10. ~again' => media'.current = NoFile \/ version'[media'.current] = media'.file
    <3> SUFFICES ASSUME ~again, newest # NoFile PROVE version'[newest] = media.file
        BY <1>1, <1>8
    <3>1. FallsBack(n)
        BY <1>1, <1>10 DEF EditsSound
    <3>2. newest \in Kept(version) \ {n} /\ \A k \in Kept(version) \ {n} : k <= newest
        BY <1>5, <1>6
    <3>3. version[newest] = media.file
        BY <3>1, <3>2 DEF FallsBack
    <3> QED BY <1>4, <3>2, <3>3 DEF Kept
  <2> QED BY <2>2, <2>9, <2>10 DEF EditsSound
<1> QED BY <1>1, <1>9, <1>10

LEMMA DeathKeeps ==
    ASSUME VersionShape, ~crossed => EditsSound, NEW n \in Versions, EditorDies(n)
    PROVE  VersionShape' /\ (~crossed' => EditsSound')
<1> DEFINE line == [NoTask EXCEPT !.step = "queued"]
<1>1. /\ UNCHANGED <<media, version, files, written, crossed>> /\ task[n].step \in {"loaded", "saved", "shown"}
      /\ task' = [task EXCEPT ![n] = line]
    BY DEF EditorDies
<1>2. again' \in BOOLEAN /\ (again' <=> again \/ task[n].step = "shown")
    BY Zenon DEF EditorDies
<1>3. line \in TaskRow /\ line.step = "queued"
    BY DEF NoTask, TaskRow, NoFile
<1> HIDE DEF line
<1>4. VersionShape' /\ task'[n] = line /\ \A m \in Versions \ {n} : task'[m] = task[m]
  <2>1. /\ version' \in [Versions -> Nat] /\ Kept(version') = Kept(version) /\ version'[n] # NoFile
        /\ media' \in [file : Nat \ {NoFile}, current : Nat] /\ media'.current = media.current
        /\ written' \in Nat /\ {crossed', again'} \subseteq BOOLEAN
      BY <1>1, <1>2 DEF VersionShape
  <2> QED BY <1>1, <1>3, <2>1, TaskMoves
<1>5. ASSUME ~crossed, EditsSound PROVE EditsSound'
  <2>1. EditSound(n) /\ n = media.current
      BY <1>1, <1>5 DEF EditsSound, EditSound
  <2>2. \A k \in Versions : task'[k].step # "none" => k = n
      BY <1>4, <1>5, <2>1 DEF EditsSound, EditSound
  <2>3. EditSound(n)'
      BY <1>1, <1>3, <1>4, <2>1 DEF EditSound
  <2>4. Pending' /\ FilesAreKept' /\ files' \subseteq 0..written'
      BY <1>1, <1>3, <1>4, <1>5 DEF Pending, EditsSound, FilesAreKept
  <2>5. ~again' => FallsBack(n)'
    <3> SUFFICES ASSUME ~again' PROVE FallsBack(n)'
        OBVIOUS
    <3>1. FallsBack(n)
        BY <1>1, <1>2, <1>5 DEF EditsSound
    <3> QED BY <1>1, <3>1 DEF FallsBack
  <2> QED BY <2>2, <2>3, <2>4, <2>5 DEF EditsSound
<1> QED BY <1>1, <1>4, <1>5

LEMMA RestoreKeeps ==
    ASSUME VersionShape, ~crossed => EditsSound, NEW n \in Versions, Restore(n)
    PROVE  VersionShape' /\ (~crossed' => EditsSound')
<1> DEFINE next == NextVersion(version)
           file == version[n]
<1>1. /\ UNCHANGED <<task, files, written, again>> /\ next \in Versions /\ file # NoFile
      /\ version' = [version EXCEPT ![next] = file] /\ media' = [file |-> file, current |-> next]
    BY DEF Restore
<1>2. crossed' \in BOOLEAN /\ (crossed' <=> crossed \/ Pending)
    BY Zenon DEF Restore
<1>3. version \in [Versions -> Nat] /\ next = NextVersion(version) /\ file \in Nat /\ next \in Nat
    BY <1>1 DEF VersionShape, Versions
<1>4. version[next] = NoFile /\ \A later \in [Versions -> Nat] : Kept(later) = Kept(version) \cup {next} => Newest(later) = next
    BY <1>1, <1>3, NewVersion
<1>5. file \in files \/ ~FilesAreKept
    BY <1>1 DEF FilesAreKept, Kept
<1> HIDE DEF next, file
<1>6. version' \in [Versions -> Nat] /\ version'[next] = file /\ \A m \in Versions \ {next} : version'[m] = version[m]
    BY <1>1, <1>3
<1>7. Kept(version') = Kept(version) \cup {next}
    BY <1>1, <1>6 DEF Kept
<1>8. Newest(version') = next
    BY ONLY <1>4, <1>6, <1>7
<1>9. media'.file = file /\ media'.current = next /\ media' \in [file : Nat \ {NoFile}, current : Nat]
    BY <1>1, <1>3
<1>10. VersionShape'
  <2>1. \A k \in Versions : task'[k].step # "none" => version'[k] # NoFile
      BY <1>1, <1>4, <1>6 DEF VersionShape
  <2>2. task' \in [Versions -> TaskRow] /\ written' \in Nat /\ {crossed', again'} \subseteq BOOLEAN
      BY <1>1, <1>2 DEF VersionShape
  <2> QED BY <1>6, <1>8, <1>9, <2>1, <2>2 DEF VersionShape
<1>11. ASSUME ~crossed' PROVE EditsSound'
  <2>1. EditsSound /\ \A k \in Versions : task'[k].step = "none"
      BY <1>1, <1>2, <1>11 DEF Pending
  <2>2. file \in files /\ \A k \in Versions : version[k] # NoFile => version[k] \in files
      BY <1>5, <2>1 DEF EditsSound, FilesAreKept, Kept
  <2>3. \A k \in Versions : version'[k] # NoFile => version'[k] \in files'
      BY <1>1, <1>6, <2>2
  <2>4. FilesAreKept' /\ files' \subseteq 0..written'
      BY <1>1, <1>9, <2>1, <2>2, <2>3 DEF EditsSound, FilesAreKept, Kept
  <2>5. version'[media'.current] = media'.file
      BY <1>6, <1>9
  <2> QED BY <2>1, <2>4, <2>5 DEF EditsSound
<1> QED BY <1>10, <1>11

LEMMA MediaSoundInit == MediaInit => MediaSound
<1> SUFFICES ASSUME MediaInit PROVE MediaSound
    OBVIOUS
<1>1. /\ media.file = Original /\ media.current = NoFile /\ media \in [file : Nat \ {NoFile}, current : Nat]
      /\ version \in [Versions -> Nat] /\ \A n \in Versions : version[n] = NoFile
    BY DEF MediaInit, Original, NoFile
<1>2. NoTask \in TaskRow /\ NoTask.step = "none"
    BY DEF NoTask, TaskRow, NoFile
<1>3. task \in [Versions -> TaskRow] /\ \A n \in Versions : task[n].step = "none"
    BY <1>2 DEF MediaInit
<1>4. Kept(version) = {}
    BY <1>1 DEF Kept
<1>5. Newest(version) = NoFile
    BY <1>1, <1>4, NewestIs
<1>6. files = {Original} /\ written = Original /\ crossed = FALSE /\ again = FALSE
    BY DEF MediaInit
<1>7. VersionShape
    BY <1>1, <1>3, <1>5, <1>6 DEF VersionShape, Original
<1>8. EditsSound
    BY <1>1, <1>3, <1>4, <1>6 DEF EditsSound, FilesAreKept, Original
<1> QED BY <1>7, <1>8, UploadSoundInit DEF MediaSound

LEMMA MediaSoundStep == MediaSound /\ [VersionsNext \/ UploadsNext]_mediaVars => MediaSound'
<1> SUFFICES ASSUME MediaSound, [VersionsNext \/ UploadsNext]_mediaVars PROVE MediaSound'
    OBVIOUS
<1>1. VersionShape /\ (~crossed => EditsSound) /\ UploadSound
    BY DEF MediaSound
<1>2. UNCHANGED versionVars => VersionShape' /\ (~crossed' => EditsSound')
  <2> SUFFICES ASSUME UNCHANGED versionVars PROVE VersionShape' /\ (~crossed' => EditsSound')
      OBVIOUS
  <2>1. UNCHANGED <<media, version, task, files, written, crossed, again>>
      BY DEF versionVars
  <2>2. VersionShape'
      BY <1>1, <2>1 DEF VersionShape
  <2>3. EditsSound => EditsSound'
      BY <2>1 DEF EditsSound, EditSound, FallsBack, FilesAreKept, Kept, Pending
  <2> QED BY <1>1, <2>1, <2>2, <2>3
<1>3. UNCHANGED uploadVars => UploadSound'
    BY <1>1, UploadSoundStep
<1>4. CASE VersionsNext
  <2>1. UNCHANGED uploadVars
      BY <1>4 DEF VersionsNext
  <2>2. VersionShape' /\ (~crossed' => EditsSound')
      BY <1>1, <1>4, RequestKeeps, LoadKeeps, SaveKeeps, ShowKeeps, EndKeeps, FailKeeps, DeathKeeps, RestoreKeeps
         DEF VersionsNext, EditorMoves
  <2> QED BY <1>3, <2>1, <2>2 DEF MediaSound
<1>5. CASE UploadsNext
  <2>1. UNCHANGED versionVars
      BY <1>5 DEF UploadsNext
  <2> QED BY <1>1, <1>2, <1>5, <2>1, UploadSoundStep DEF MediaSound
<1>6. CASE UNCHANGED mediaVars
    BY <1>2, <1>3, <1>6 DEF mediaVars, MediaSound
<1> QED BY <1>4, <1>5, <1>6

\* As long as people wait for an edit before they ask for the next, whatever
\* fails, dies or runs again, no file goes that a version or the asset names, and
\* the asset shows its current version; however many calls finalize an upload and
\* whenever the sweep comes, it becomes one asset, whose object is there until the
\* upload expires or the quota has no room left (media_library/services.py,
\* tasks.py, mcp/handlers.py).
THEOREM FilesKept == MediaSpec => []MediaKept
<1>1. MediaSound => MediaKept
  <2> SUFFICES ASSUME MediaSound PROVE MediaKept
      OBVIOUS
  <2>1. ~crossed => EditsSound
      BY DEF MediaSound
  <2>2. assets <= 1 /\ (assets = 1 /\ ~upload.expired /\ assets < space => object = "good")
      BY DEF MediaSound, UploadSound
  <2>3. ~crossed => FilesAreKept /\ (~again /\ ~Pending /\ media.current # NoFile => version[media.current] = media.file)
      BY <2>1 DEF EditsSound
  <2> QED BY <2>2, <2>3 DEF MediaKept
<1> QED BY <1>1, MediaSoundInit, MediaSoundStep, PTL DEF MediaSpec

-----------------------------------------------------------------------------
(* Requests repeated under one key.                                        *)

CallSteps == {"idle", "working", "releasing", "drafted", "sent", "unsent"}
CallAnswers == {"nothing", "created", "refused", "busy", "mismatch", "error"}
CallRow == [step : CallSteps, body : Bodies \cup {NoBody}, told : CallAnswers]

KeyHeld == IF apiRecord.status = "absent" THEN 0 ELSE 1

\* What has been made for the record there is now, and no more than one thing
\* for each record that was swept.
CallSound(c) ==
    /\ call[c].step # "idle" =>
         /\ ~apiRecord.old /\ apiRecord.status # "absent"
         /\ call[c].body \in Bodies /\ apiRecord.print = call[c].body
    /\ call[c].step = "working" \/ (call[c].step = "releasing" /\ apiRecord.status = "pending") =>
         Len(made) <= swept /\ sends <= swept
    /\ call[c].step = "drafted" => sends <= swept
    /\ call[c].step \in {"drafted", "sent", "unsent"} \/ call[c].told = "created" => call[c].body \in Range(made)

KeySound ==
    /\ ApiTypeOK
    /\ \A c, d \in Callers : call[c].step # "idle" /\ call[d].step # "idle" => c = d
    /\ \A c \in Callers : CallSound(c)
    /\ Len(made) <= swept + KeyHeld /\ sends <= swept + KeyHeld
    /\ apiRecord.status = "created" => apiRecord.print \in Range(made)

LEMMA RangeOfAppend ==
    ASSUME NEW S, NEW s \in Seq(S), NEW x \in S
    PROVE  /\ Append(s, x) \in Seq(S) /\ Len(Append(s, x)) = Len(s) + 1 /\ Len(s) \in Nat
           /\ Range(Append(s, x)) = Range(s) \cup {x}
<1>1. /\ Append(s, x) \in Seq(S) /\ Len(Append(s, x)) = Len(s) + 1 /\ Len(s) \in Nat
      /\ \A i \in 1..Len(s) : Append(s, x)[i] = s[i]
      /\ Append(s, x)[Len(s) + 1] = x
  BY AppendProperties, LenProperties
<1>2. DOMAIN s = 1..Len(s) /\ DOMAIN Append(s, x) = 1..(Len(s) + 1) BY <1>1, LenProperties
<1>3. Range(Append(s, x)) \subseteq Range(s) \cup {x}
  <2>. SUFFICES ASSUME NEW i \in 1..(Len(s) + 1) PROVE Append(s, x)[i] \in Range(s) \cup {x}
    BY <1>2 DEF Range
  <2>1. i \in 1..Len(s) \/ i = Len(s) + 1 BY <1>1
  <2>. QED BY <1>1, <1>2, <2>1 DEF Range
<1>4. Range(s) \cup {x} \subseteq Range(Append(s, x))
  <2>1. ASSUME NEW i \in 1..Len(s) PROVE s[i] \in Range(Append(s, x))
    <3>1. i \in 1..(Len(s) + 1) BY <1>1
    <3>2. s[i] = Append(s, x)[i] BY <1>1
    <3>. QED BY <1>2, <3>1, <3>2 DEF Range
  <2>2. x \in Range(Append(s, x))
    <3>1. Len(s) + 1 \in 1..(Len(s) + 1) BY <1>1
    <3>2. x = Append(s, x)[Len(s) + 1] BY <1>1
    <3>. QED BY <1>2, <3>1, <3>2 DEF Range
  <2>. QED BY <1>2, <2>1, <2>2 DEF Range
<1>. QED BY <1>1, <1>3, <1>4

\* One request goes on.
LEMMA OneCall ==
    ASSUME call \in [Callers -> CallRow], NEW c \in Callers, NEW step \in CallSteps, NEW answer \in CallAnswers,
           \/ call' = [call EXCEPT ![c].step = step, ![c].told = answer]
           \/ call' = [call EXCEPT ![c].step = step] /\ answer = call[c].told
    PROVE  /\ call' \in [Callers -> CallRow]
           /\ call'[c].step = step /\ call'[c].told = answer /\ call'[c].body = call[c].body
           /\ \A d \in Callers : d # c => call'[d] = call[d]
BY DEF CallRow

LEMMA KeyTypes == KeySound => call \in [Callers -> CallRow]
BY DEF KeySound, ApiTypeOK, CallRow, CallSteps, CallAnswers

LEMMA KeySoundStarts == ApiInit => KeySound
<1>. SUFFICES ASSUME ApiInit PROVE KeySound OBVIOUS
<1>1. made = << >> /\ Len(made) = 0 /\ made \in Seq(Bodies) BY EmptySeq DEF ApiInit
<1>2. \A c \in Callers : call[c] = NoCall BY DEF ApiInit
<1>3. ApiTypeOK BY <1>1, ApiAssumption DEF ApiInit, ApiTypeOK, NoRecord, NoCall
<1>4. \A c \in Callers : CallSound(c) BY <1>2 DEF CallSound, NoCall
<1>. QED BY <1>1, <1>2, <1>3, <1>4 DEF KeySound, ApiInit, NoRecord, NoCall, KeyHeld

\* A request that others leave alone, while more may have been made for another.
LEMMA OthersIdle ==
    ASSUME KeySound, NEW c \in Callers, call[c].step # "idle", Range(made) \subseteq Range(made'),
           \A d \in Callers : d # c => call'[d] = call[d]
    PROVE  \A d \in Callers : d # c => call[d].step = "idle" /\ call'[d].step = "idle" /\ CallSound(d)'
<1>. SUFFICES ASSUME NEW d \in Callers, d # c PROVE call[d].step = "idle" /\ call'[d].step = "idle" /\ CallSound(d)'
  OBVIOUS
<1>1. call'[d] = call[d] /\ call[d].step = "idle" /\ CallSound(d) BY DEF KeySound
<1>. QED BY <1>1 DEF CallSound

LEMMA ClaimSlotStep ==
    ASSUME KeySound, NEW c \in Callers, ClaimSlot(c)
    PROVE  KeySound'
<1>1. PICK b \in Bodies :
        IF apiRecord.status = "absent"
        THEN /\ apiRecord' = [status |-> "pending", print |-> b, old |-> FALSE]
             /\ call' = [call EXCEPT ![c] = [step |-> "working", body |-> b, told |-> "nothing"]]
        ELSE /\ call' = [call EXCEPT ![c] =
                  [step |-> "idle", body |-> b,
                   told |-> IF apiRecord.print # b THEN "mismatch"
                            ELSE IF apiRecord.status = "pending" THEN "busy" ELSE apiRecord.status]]
             /\ UNCHANGED apiRecord
  BY DEF ClaimSlot
<1>2. /\ call[c].step = "idle" /\ apiCalls < MaxCalls /\ apiCalls' = apiCalls + 1
      /\ UNCHANGED <<resource, made, sends, swept, apiFaults>>
  BY DEF ClaimSlot
<1>3. apiCalls' \in 0..MaxCalls BY <1>2, ApiAssumption DEF KeySound, ApiTypeOK
<1>4. PICK answer \in CallAnswers, step \in {"idle", "working"} :
        /\ call' = [call EXCEPT ![c] = [step |-> step, body |-> b, told |-> answer]]
        /\ step = "idle" => apiRecord' = apiRecord /\ apiRecord.status # "absent"
        /\ step = "working" => apiRecord.status = "absent" /\ apiRecord' = [status |-> "pending", print |-> b, old |-> FALSE]
        /\ answer = "created" => apiRecord.status = "created" /\ apiRecord.print = b
  <2>1. CASE apiRecord.status = "absent" BY <1>1, <2>1 DEF CallAnswers
  <2>2. CASE apiRecord.status # "absent"
    <3>1. apiRecord.status \in {"pending", "created", "refused"} BY <2>2 DEF KeySound, ApiTypeOK
    <3>2. CASE apiRecord.print # b BY <1>1, <2>2, <3>2 DEF CallAnswers
    <3>3. CASE apiRecord.print = b /\ apiRecord.status = "pending" BY <1>1, <2>2, <3>3 DEF CallAnswers
    <3>4. CASE apiRecord.print = b /\ apiRecord.status # "pending" BY <1>1, <2>2, <3>1, <3>4 DEF CallAnswers
    <3>. QED BY <3>2, <3>3, <3>4
  <2>. QED BY <2>1, <2>2
<1>. DEFINE entry == [step |-> step, body |-> b, told |-> answer]
<1>5. entry \in CallRow
      /\ entry.step = step /\ entry.body = b /\ entry.told = answer
  BY DEF CallRow, CallSteps
<1>. HIDE DEF entry
<1>6. /\ call'[c] = entry /\ \A d \in Callers : d # c => call'[d] = call[d]
      /\ call' \in [Callers -> CallRow]
  <2>1. call' = [call EXCEPT ![c] = entry] BY <1>4 DEF entry
  <2>. QED BY <1>5, <2>1, KeyTypes
<1>7. ApiTypeOK'
  <2>1. apiRecord' \in [status : {"absent", "pending", "created", "refused"}, print : Bodies \cup {NoBody}, old : BOOLEAN]
    <3>1. CASE step = "idle" BY <1>4, <3>1 DEF KeySound, ApiTypeOK
    <3>2. CASE step = "working"
      <4>1. apiRecord' = [status |-> "pending", print |-> b, old |-> FALSE] BY <1>4, <3>2
      <4>2. [status |-> "pending", print |-> b, old |-> FALSE]
              \in [status : {"absent", "pending", "created", "refused"}, print : Bodies \cup {NoBody}, old : BOOLEAN]
        OBVIOUS
      <4>. QED BY <4>1, <4>2
    <3>. QED BY <3>1, <3>2
  <2>. QED BY <1>2, <1>3, <1>6, <2>1 DEF KeySound, ApiTypeOK, CallRow, CallSteps, CallAnswers
<1>8. CASE step = "idle"
  <2>1. apiRecord' = apiRecord BY <1>4, <1>8
  <2>2. CallSound(c)' BY <1>2, <1>4, <1>5, <1>6, <1>8, <2>1 DEF CallSound, KeySound
  <2>3. ASSUME NEW d \in Callers, d # c PROVE CallSound(d)' /\ call'[d].step = call[d].step
    <3>1. call'[d] = call[d] /\ CallSound(d) BY <1>6, <2>3 DEF KeySound
    <3>. QED BY <1>2, <2>1, <3>1 DEF CallSound
  <2>4. \A d, e \in Callers : call'[d].step # "idle" /\ call'[e].step # "idle" => d = e
    BY <1>5, <1>6, <1>8, <2>3 DEF KeySound
  <2>. QED BY <1>2, <1>7, <2>1, <2>2, <2>3, <2>4 DEF KeySound, KeyHeld
<1>9. CASE step = "working"
  <2>1. apiRecord.status = "absent" /\ apiRecord' = [status |-> "pending", print |-> b, old |-> FALSE] BY <1>4, <1>9
  <2>2. \A d \in Callers : call[d].step = "idle" BY <2>1 DEF KeySound, CallSound
  <2>3. Len(made) <= swept /\ sends <= swept
    <3>1. Len(made) \in Nat /\ swept \in Nat /\ sends \in Nat BY LenProperties DEF KeySound, ApiTypeOK
    <3>. QED BY <2>1, <3>1 DEF KeySound, KeyHeld
  <2>4. answer # "created" BY <1>4, <2>1
  <2>5. CallSound(c)' BY <1>2, <1>5, <1>6, <1>9, <2>1, <2>3, <2>4 DEF CallSound
  <2>6. ASSUME NEW d \in Callers, d # c PROVE CallSound(d)' /\ call'[d].step = "idle"
    <3>1. call'[d] = call[d] /\ CallSound(d) BY <1>6, <2>6 DEF KeySound
    <3>. QED BY <1>2, <2>2, <3>1 DEF CallSound
  <2>7. Len(made') <= swept' + 1 /\ sends' <= swept' + 1
    <3>1. Len(made) \in Nat /\ swept \in Nat /\ sends \in Nat BY LenProperties DEF KeySound, ApiTypeOK
    <3>. QED BY <1>2, <2>3, <3>1
  <2>. QED BY <1>7, <2>1, <2>5, <2>6, <2>7 DEF KeySound, KeyHeld
<1>. QED BY <1>8, <1>9

\* What a request at work leaves to be shown.
LEMMA BusyCall ==
    ASSUME KeySound, NEW c \in Callers, call[c].step # "idle",
           call' \in [Callers -> CallRow], \A d \in Callers : d # c => call'[d] = call[d],
           apiRecord' \in [status : {"absent", "pending", "created", "refused"},
                           print : Bodies \cup {NoBody}, old : BOOLEAN],
           made' \in Seq(Bodies), Range(made) \subseteq Range(made'), sends' \in Nat,
           UNCHANGED <<resource, swept, apiCalls>>, apiFaults' \in 0..MaxApiFaults,
           CallSound(c)',
           Len(made') <= swept + KeyHeld', sends' <= swept + KeyHeld',
           apiRecord'.status = "created" => apiRecord'.print \in Range(made')
    PROVE  KeySound'
<1>1. ApiTypeOK' BY DEF KeySound, ApiTypeOK, CallRow, CallSteps, CallAnswers
<1>2. \A d \in Callers : d # c => call'[d].step = "idle" /\ CallSound(d)' BY OthersIdle
<1>. QED BY <1>1, <1>2 DEF KeySound

LEMMA KeyNumbers ==
    ASSUME KeySound
    PROVE  Len(made) \in Nat /\ sends \in Nat /\ swept \in Nat /\ KeyHeld \in 0..1
BY LenProperties DEF KeySound, ApiTypeOK, KeyHeld

LEMMA ApiFaulty ==
    ASSUME KeySound, ApiFault PROVE apiFaults' \in 0..MaxApiFaults
BY ApiAssumption DEF KeySound, ApiTypeOK, ApiFault

LEMMA WorkFailsStep ==
    ASSUME KeySound, NEW c \in Callers, WorkFails(c) PROVE KeySound'
<1>1. /\ call[c].step = "working" /\ call' = [call EXCEPT ![c].step = "releasing"]
      /\ UNCHANGED <<apiRecord, resource, made, sends, swept, apiFaults, apiCalls>>
  BY DEF WorkFails, GoesOn
<1>2. /\ call' \in [Callers -> CallRow]
      /\ call'[c].step = "releasing" /\ call'[c].told = call[c].told /\ call'[c].body = call[c].body
      /\ \A d \in Callers : d # c => call'[d] = call[d]
  BY <1>1, KeyTypes DEF CallRow, CallSteps
<1>3. CallSound(c)' BY <1>1, <1>2 DEF KeySound, CallSound
<1>. QED BY <1>1, <1>2, <1>3, BusyCall DEF KeySound, ApiTypeOK, KeyHeld

LEMMA ReleaseStep ==
    ASSUME KeySound, NEW c \in Callers, Release(c) PROVE KeySound'
<1>1. /\ call[c].step = "releasing" /\ call' = [call EXCEPT ![c].step = "idle", ![c].told = "error"]
      /\ apiRecord' = IF Releases THEN NoRecord ELSE apiRecord
      /\ UNCHANGED <<resource, made, sends, swept, apiFaults, apiCalls>>
  BY DEF Release, Ends
<1>2. /\ call' \in [Callers -> CallRow]
      /\ call'[c].step = "idle" /\ call'[c].told = "error" /\ call'[c].body = call[c].body
      /\ \A d \in Callers : d # c => call'[d] = call[d]
  BY <1>1, KeyTypes DEF CallRow, CallSteps, CallAnswers
<1>3. CallSound(c)' BY <1>2 DEF CallSound
<1>4. Len(made) <= swept + KeyHeld' /\ sends <= swept + KeyHeld'
  <2>1. CASE Releases
    <3>1. Len(made) <= swept /\ sends <= swept BY <1>1, <2>1 DEF KeySound, CallSound, Releases
    <3>2. KeyHeld' = 0 BY <1>1, <2>1 DEF KeyHeld, NoRecord
    <3>. QED BY <3>1, <3>2, KeyNumbers
  <2>2. CASE ~Releases BY <1>1, <2>2 DEF KeySound, KeyHeld
  <2>. QED BY <2>1, <2>2
<1>5. /\ apiRecord' \in [status : {"absent", "pending", "created", "refused"},
                         print : Bodies \cup {NoBody}, old : BOOLEAN]
      /\ apiRecord'.status = "created" => apiRecord'.print \in Range(made)
  BY <1>1 DEF KeySound, ApiTypeOK, NoRecord
<1>. QED BY <1>1, <1>2, <1>3, <1>4, <1>5, BusyCall DEF KeySound, ApiTypeOK

LEMMA CreateStep ==
    ASSUME KeySound, NEW c \in Callers, CreatePost(c) \/ CreateDraft(c) PROVE KeySound'
<1>1. /\ call[c].step = "working" /\ made' = Append(made, call[c].body) /\ UNCHANGED <<resource, swept, sends, apiCalls>>
  BY DEF CreatePost, CreateDraft
<1>2. /\ ~apiRecord.old /\ apiRecord.status # "absent" /\ call[c].body \in Bodies /\ apiRecord.print = call[c].body
      /\ Len(made) <= swept /\ sends <= swept
  BY <1>1 DEF KeySound, CallSound
<1>3. made \in Seq(Bodies) BY DEF KeySound, ApiTypeOK
<1>4. /\ made' \in Seq(Bodies) /\ Len(made') = Len(made) + 1 /\ Range(made) \subseteq Range(made')
      /\ call[c].body \in Range(made')
  BY <1>1, <1>2, <1>3, RangeOfAppend
<1>5. PICK step \in CallSteps, answer \in CallAnswers, status \in {"pending", "created", "refused"} :
        /\ \/ call' = [call EXCEPT ![c].step = step, ![c].told = answer]
           \/ call' = [call EXCEPT ![c].step = step] /\ answer = call[c].told
        /\ apiRecord' = [apiRecord EXCEPT !.status = status]
        /\ \/ step = "idle"
           \/ step = "releasing" /\ status = "created"
           \/ step = "drafted"
        /\ apiFaults' \in 0..MaxApiFaults
  <2>1. call[c].told \in CallAnswers BY KeyTypes DEF CallRow
  <2>2. apiRecord.status \in {"pending", "created", "refused"} /\ apiRecord = [apiRecord EXCEPT !.status = apiRecord.status]
    BY <1>2 DEF KeySound, ApiTypeOK
  <2>3. CASE CreatePost(c) /\ Ends(c, "created") /\ UNCHANGED apiFaults
    BY <1>2, <2>3 DEF CreatePost, Ends, CallSteps, CallAnswers, KeySound, ApiTypeOK
  <2>4. CASE CreatePost(c) /\ ApiFault /\ GoesOn(c, "releasing")
    BY <1>2, <2>1, <2>4, ApiFaulty DEF CreatePost, GoesOn, CallSteps
  <2>5. CASE CreateDraft(c)
    BY <1>2, <2>1, <2>2, <2>5 DEF CreateDraft, GoesOn, CallSteps, KeySound, ApiTypeOK
  <2>. QED BY <2>3, <2>4, <2>5 DEF CreatePost
<1>6. /\ call' \in [Callers -> CallRow]
      /\ call'[c].step = step /\ call'[c].told = answer /\ call'[c].body = call[c].body
      /\ \A d \in Callers : d # c => call'[d] = call[d]
  BY <1>5, KeyTypes, OneCall
<1>7. /\ apiRecord' \in [status : {"absent", "pending", "created", "refused"},
                         print : Bodies \cup {NoBody}, old : BOOLEAN]
      /\ apiRecord'.status = status /\ apiRecord'.print = call[c].body /\ ~apiRecord'.old
  BY <1>2, <1>5 DEF KeySound, ApiTypeOK
<1>8. KeyHeld' = 1 BY <1>7 DEF KeyHeld
<1>9. CallSound(c)' BY <1>1, <1>2, <1>4, <1>5, <1>6, <1>7 DEF CallSound
<1>10. Len(made') <= swept + KeyHeld' /\ sends' <= swept + KeyHeld' /\ sends' \in Nat BY <1>1, <1>2, <1>4, <1>8, KeyNumbers
<1>. QED BY <1>1, <1>4, <1>5, <1>6, <1>7, <1>9, <1>10, BusyCall

LEMMA SendReplyStep ==
    ASSUME KeySound, NEW c \in Callers, SendReply(c) PROVE KeySound'
<1>1. /\ call[c].step = "drafted" /\ UNCHANGED <<apiRecord, resource, made, swept, apiFaults, apiCalls>>
  BY DEF SendReply
<1>2. PICK step \in {"sent", "unsent"} : call' = [call EXCEPT ![c].step = step]
  BY DEF SendReply, GoesOn
<1>3. /\ call' \in [Callers -> CallRow]
      /\ call'[c].step = step /\ call'[c].told = call[c].told /\ call'[c].body = call[c].body
      /\ \A d \in Callers : d # c => call'[d] = call[d]
  BY <1>2, KeyTypes DEF CallRow, CallSteps
<1>4. /\ apiRecord.status # "absent" /\ sends <= swept /\ call[c].body \in Range(made)
  BY <1>1 DEF KeySound, CallSound
<1>5. sends' \in Nat /\ sends' <= swept + 1 BY <1>4, KeyNumbers DEF SendReply
<1>6. CallSound(c)' BY <1>1, <1>2, <1>3, <1>4 DEF KeySound, CallSound
<1>7. KeyHeld = 1 /\ KeyHeld' = 1 BY <1>1, <1>4 DEF KeyHeld
<1>. QED BY <1>1, <1>3, <1>5, <1>6, <1>7, BusyCall DEF KeySound, ApiTypeOK

LEMMA FinalizeStep ==
    ASSUME KeySound, NEW c \in Callers, Finalize(c) PROVE KeySound'
<1>1. /\ call[c].step \in {"sent", "unsent"} /\ UNCHANGED <<resource, made, sends, swept, apiFaults, apiCalls>>
  BY DEF Finalize
<1>2. /\ ~apiRecord.old /\ apiRecord.status # "absent" /\ apiRecord.print = call[c].body /\ call[c].body \in Range(made)
  BY <1>1 DEF KeySound, CallSound
<1>3. PICK answer \in {"created", "refused"} :
        /\ call' = [call EXCEPT ![c].step = "idle", ![c].told = answer]
        /\ apiRecord' = [apiRecord EXCEPT !.status = answer]
  BY <1>2 DEF Finalize, Ends
<1>4. /\ call' \in [Callers -> CallRow]
      /\ call'[c].step = "idle" /\ call'[c].told = answer /\ call'[c].body = call[c].body
      /\ \A d \in Callers : d # c => call'[d] = call[d]
  BY <1>3, KeyTypes DEF CallRow, CallSteps, CallAnswers
<1>5. /\ apiRecord' \in [status : {"absent", "pending", "created", "refused"},
                         print : Bodies \cup {NoBody}, old : BOOLEAN]
      /\ apiRecord'.status = answer /\ apiRecord'.print = apiRecord.print
  BY <1>3 DEF KeySound, ApiTypeOK
<1>6. CallSound(c)' BY <1>1, <1>2, <1>4 DEF CallSound
<1>7. KeyHeld' = KeyHeld BY <1>2, <1>5 DEF KeyHeld
<1>. QED BY <1>1, <1>2, <1>4, <1>5, <1>6, <1>7, BusyCall DEF KeySound, ApiTypeOK

LEMMA CallerDiesStep ==
    ASSUME KeySound, NEW c \in Callers, CallerDies(c) PROVE KeySound'
<1>1. /\ call[c].step # "idle" /\ call' = [call EXCEPT ![c].step = "idle", ![c].told = "nothing"]
      /\ UNCHANGED <<apiRecord, resource, made, sends, swept, apiCalls>> /\ apiFaults' \in 0..MaxApiFaults
  BY ApiFaulty DEF CallerDies, Ends
<1>2. /\ call' \in [Callers -> CallRow]
      /\ call'[c].step = "idle" /\ call'[c].told = "nothing" /\ call'[c].body = call[c].body
      /\ \A d \in Callers : d # c => call'[d] = call[d]
  BY <1>1, KeyTypes DEF CallRow, CallSteps, CallAnswers
<1>3. CallSound(c)' BY <1>2 DEF CallSound
<1>. QED BY <1>1, <1>2, <1>3, BusyCall DEF KeySound, ApiTypeOK, KeyHeld

LEMMA DayStep ==
    ASSUME KeySound, RecordAges \/ SweepRecord PROVE KeySound'
<1>1. UNCHANGED <<call, resource, made, sends, apiFaults, apiCalls>> BY DEF RecordAges, SweepRecord
<1>2. \A c \in Callers : call[c].step = "idle" BY DEF RecordAges, SweepRecord, KeySound, CallSound
<1>3. \A c \in Callers : CallSound(c)' BY <1>1, <1>2 DEF KeySound, CallSound
<1>4. /\ apiRecord' \in [status : {"absent", "pending", "created", "refused"},
                         print : Bodies \cup {NoBody}, old : BOOLEAN]
      /\ swept' \in Nat
      /\ apiRecord'.status = "created" => apiRecord.status = "created" /\ apiRecord'.print = apiRecord.print
      /\ swept' + KeyHeld' >= swept + KeyHeld
  <2>1. CASE RecordAges
    <3>1. apiRecord' = [apiRecord EXCEPT !.old = TRUE] /\ swept' = swept BY <2>1 DEF RecordAges
    <3>2. apiRecord \in [status : {"absent", "pending", "created", "refused"}, print : Bodies \cup {NoBody}, old : BOOLEAN]
      BY DEF KeySound, ApiTypeOK
    <3>3. apiRecord'.status = apiRecord.status /\ apiRecord'.print = apiRecord.print BY <3>1, <3>2
    <3>4. KeyHeld' = KeyHeld BY <3>3 DEF KeyHeld
    <3>5. apiRecord' \in [status : {"absent", "pending", "created", "refused"}, print : Bodies \cup {NoBody}, old : BOOLEAN]
      BY <3>1, <3>2
    <3>6. swept' \in Nat /\ swept' + KeyHeld' >= swept + KeyHeld BY <3>1, <3>4, KeyNumbers
    <3>. QED BY <3>3, <3>5, <3>6
  <2>2. CASE SweepRecord BY <2>2, KeyNumbers DEF SweepRecord, NoRecord, KeySound, ApiTypeOK, KeyHeld
  <2>. QED BY <2>1, <2>2
<1>5. KeyHeld' \in 0..1 BY DEF KeyHeld
<1>6. Len(made) <= swept' + KeyHeld' /\ sends <= swept' + KeyHeld' BY <1>4, <1>5, KeyNumbers DEF KeySound
<1>7. ApiTypeOK' BY <1>1, <1>4 DEF KeySound, ApiTypeOK
<1>. QED BY <1>1, <1>2, <1>3, <1>4, <1>6, <1>7 DEF KeySound

LEMMA KeySoundStep == KeySound /\ [ApiNext]_apiVars => KeySound'
<1>. SUFFICES ASSUME KeySound, [ApiNext]_apiVars PROVE KeySound' OBVIOUS
<1>1. ASSUME NEW c \in Callers, ClaimSlot(c) \/ CallerMoves(c) \/ CallerDies(c) PROVE KeySound'
  BY <1>1, ClaimSlotStep, WorkFailsStep, ReleaseStep, CreateStep, SendReplyStep, FinalizeStep, CallerDiesStep
     DEF CallerMoves
<1>2. CASE RecordAges \/ SweepRecord BY <1>2, DayStep
<1>3. CASE UNCHANGED apiVars BY <1>3 DEF apiVars, KeySound, ApiTypeOK, CallSound, KeyHeld
<1>. QED BY <1>1, <1>2, <1>3 DEF ApiNext

\* However often a request comes under one key, whoever dies and whatever answer
\* is lost, one thing is made of it until a day has passed, and who is told that
\* it was made finds it (api/middleware.py).
THEOREM MadeOncePerKey == ApiSpec => []OneResourcePerKey
<1>1. KeySound => OneResourcePerKey BY KeyNumbers DEF KeySound, CallSound, OneResourcePerKey
<1>. QED BY <1>1, KeySoundStarts, KeySoundStep, PTL DEF ApiSpec

-----------------------------------------------------------------------------
(* Replies to a customer.                                                  *)

AgentRow == [act : Acts \cup {"none"}, step : Steps, saw : ReplyStatuses, body : Texts \cup {"none"}]
UnderLock == {"sending", "accepted", "refused"}

\* Who holds the row sends what it says, while it says that nothing was sent.
SendSound(a) ==
    /\ agent[a].step = "loaded" /\ agent[a].act = "edit" => agent[a].body \in Texts
    /\ agent[a].step \in UnderLock => reply.status \in Sendable /\ agent[a].body = reply.body
    /\ agent[a].step = "accepted" => agent[a].body \in Range(customerGot)

ThreadSound ==
    /\ InboxTypeOK /\ agent \in [Agents -> AgentRow]
    /\ \A a \in Agents : SendSound(a)
    /\ \A a, b \in Agents : agent[a].step \in UnderLock /\ agent[b].step \in UnderLock => a = b
    /\ ThreadIsTrue

LEMMA OneAccepted ==
    ASSUME NEW rows, NEW a \in Agents, \A b \in Agents : b # a => rows[b].step # "accepted"
    PROVE  Cardinality({b \in Agents : rows[b].step = "accepted"}) = IF rows[a].step = "accepted" THEN 1 ELSE 0
<1>1. CASE rows[a].step = "accepted"
  <2>1. {b \in Agents : rows[b].step = "accepted"} = {a} BY <1>1
  <2>. QED BY <1>1, <2>1, FS_Singleton
<1>2. CASE rows[a].step # "accepted"
  <2>1. {b \in Agents : rows[b].step = "accepted"} = {} BY <1>2
  <2>. QED BY <1>2, <2>1, FS_EmptySet
<1>. QED BY <1>1, <1>2

LEMMA ThreadSoundStarts == InboxInit => ThreadSound
<1>. SUFFICES ASSUME InboxInit PROVE ThreadSound OBVIOUS
<1>1. customerGot = << >> /\ Len(customerGot) = 0 /\ customerGot \in Seq(Texts) BY EmptySeq DEF InboxInit
<1>2. NoAct \in AgentRow /\ [NoAct EXCEPT !.act = "compose", !.step = "loaded", !.saw = "draft"] \in AgentRow
  BY DEF NoAct, AgentRow, Acts, Steps, ReplyStatuses
<1>3. \A a \in Agents : \/ agent[a] = NoAct
                        \/ agent[a] = [NoAct EXCEPT !.act = "compose", !.step = "loaded", !.saw = "draft"]
  BY DEF InboxInit
<1>4. agent \in [Agents -> AgentRow] BY <1>2 DEF InboxInit
<1>5. \A a \in Agents : agent[a].step \in {"idle", "loaded"} /\ agent[a].act \in {"none", "compose"}
  <2>1. NoAct.step = "idle" /\ NoAct.act = "none" BY DEF NoAct
  <2>2. /\ [NoAct EXCEPT !.act = "compose", !.step = "loaded", !.saw = "draft"].step = "loaded"
        /\ [NoAct EXCEPT !.act = "compose", !.step = "loaded", !.saw = "draft"].act = "compose"
    BY DEF NoAct
  <2>. QED BY <1>3, <2>1, <2>2
<1>6. \A a \in Agents : SendSound(a) BY <1>5 DEF SendSound, UnderLock
<1>7. reply.status = "draft" /\ reply \in [status : ReplyStatuses, body : Texts] BY DEF InboxInit, ReplyStatuses
<1>8. {a \in Agents : agent[a].step = "accepted"} = {} BY <1>5
<1>9. ThreadIsTrue
  <2>1. Cardinality({a \in Agents : agent[a].step = "accepted"}) = 0 BY <1>8, FS_EmptySet
  <2>2. untold = 0 /\ reply.status # "sent" BY <1>7 DEF InboxInit
  <2>. QED BY <1>1, <2>1, <2>2 DEF ThreadIsTrue
<1>10. InboxTypeOK BY <1>1, <1>4, <1>7, InboxAssumption DEF InboxInit, InboxTypeOK, AgentRow
<1>. QED BY <1>4, <1>5, <1>6, <1>9, <1>10 DEF ThreadSound, UnderLock

\* A request that holds the row, or finds it free, is the only one that counts.
LEMMA AloneCounts ==
    ASSUME ThreadSound, NEW a \in Agents, \A b \in Agents : b # a => agent[b].step \notin UnderLock
    PROVE  Len(customerGot) = untold + (IF agent[a].step = "accepted" THEN 1 ELSE 0)
                              + (IF reply.status = "sent" THEN 1 ELSE 0)
<1>1. \A b \in Agents : b # a => agent[b].step # "accepted" BY DEF UnderLock
<1>2. Cardinality({b \in Agents : agent[b].step = "accepted"}) = IF agent[a].step = "accepted" THEN 1 ELSE 0
  BY <1>1, OneAccepted
<1>. QED BY <1>2 DEF ThreadSound, ThreadIsTrue

LEMMA AloneMoves ==
    ASSUME ThreadSound, NEW a \in Agents, \A b \in Agents : b # a => agent[b].step \notin UnderLock,
           NEW entry \in AgentRow, agent' = [agent EXCEPT ![a] = entry],
           reply' \in [status : ReplyStatuses, body : Texts], customerGot' \in Seq(Texts), untold' \in Nat,
           replyFaults' \in 0..MaxReplyFaults, replyActs' = replyActs,
           entry.step # "loaded",
           entry.step \in UnderLock => reply'.status \in Sendable /\ entry.body = reply'.body,
           entry.step = "accepted" => entry.body \in Range(customerGot'),
           reply'.status = "sent" => reply'.body \in Range(customerGot'),
           Len(customerGot') = untold' + (IF entry.step = "accepted" THEN 1 ELSE 0)
                               + (IF reply'.status = "sent" THEN 1 ELSE 0)
    PROVE  ThreadSound'
<1>1. agent' \in [Agents -> AgentRow] /\ agent'[a] = entry /\ \A b \in Agents : b # a => agent'[b] = agent[b]
  BY DEF ThreadSound
<1>2. \A b \in Agents : b # a => agent'[b].step \notin UnderLock /\ agent'[b].step # "accepted" BY <1>1 DEF UnderLock
<1>3. SendSound(a)' BY <1>1 DEF SendSound
<1>4. ASSUME NEW b \in Agents, b # a PROVE SendSound(b)'
  BY <1>1, <1>2, <1>4 DEF SendSound, ThreadSound
<1>5. Cardinality({b \in Agents : agent'[b].step = "accepted"}) = IF agent'[a].step = "accepted" THEN 1 ELSE 0
  BY <1>2, OneAccepted
<1>6. ThreadIsTrue' BY <1>1, <1>5 DEF ThreadIsTrue
<1>7. InboxTypeOK' BY <1>1 DEF ThreadSound, InboxTypeOK, AgentRow
<1>. QED BY <1>1, <1>2, <1>3, <1>4, <1>6, <1>7 DEF ThreadSound

LEMMA AloneRests ==
    ASSUME ThreadSound, NEW a \in Agents, \A b \in Agents : b # a => agent[b].step \notin UnderLock,
           NEW entry \in AgentRow, agent' = [agent EXCEPT ![a] = entry], entry.step \in {"idle", "cleaning"},
           reply' \in [status : ReplyStatuses, body : Texts], customerGot' \in Seq(Texts), untold' \in Nat,
           replyFaults' \in 0..MaxReplyFaults, replyActs' = replyActs,
           reply'.status = "sent" => reply'.body \in Range(customerGot'),
           Len(customerGot') = untold' + (IF reply'.status = "sent" THEN 1 ELSE 0)
    PROVE  ThreadSound'
<1>1. entry.step # "loaded" /\ entry.step \notin UnderLock /\ entry.step # "accepted" BY DEF UnderLock
<1>2. Len(customerGot') = untold' + (IF entry.step = "accepted" THEN 1 ELSE 0) + (IF reply'.status = "sent" THEN 1 ELSE 0)
  BY <1>1
<1>. QED BY <1>1, <1>2, AloneMoves

LEMMA LoadReplyStep ==
    ASSUME ThreadSound, NEW a \in Agents, LoadReply(a) PROVE ThreadSound'
<1>1. /\ agent[a].step = "idle" /\ replyActs < MaxReplyActs /\ replyActs' = replyActs + 1
      /\ UNCHANGED <<reply, customerGot, untold, replyFaults>>
  BY DEF LoadReply
<1>2. PICK entry \in AgentRow : /\ agent' = [agent EXCEPT ![a] = entry]
                              /\ entry.step = "loaded" /\ entry.body \in Texts
  <2>1. PICK act \in Acts \ {"compose"}, b \in Texts :
          agent' = [agent EXCEPT ![a] = [act |-> act, step |-> "loaded", saw |-> reply.status, body |-> b]]
    BY DEF LoadReply
  <2>2. [act |-> act, step |-> "loaded", saw |-> reply.status, body |-> b] \in AgentRow
    BY DEF ThreadSound, InboxTypeOK, AgentRow, Steps
  <2>. QED BY <2>1, <2>2
<1>3. agent' \in [Agents -> AgentRow] /\ agent'[a] = entry /\ \A b \in Agents : b # a => agent'[b] = agent[b]
  BY <1>2 DEF ThreadSound
<1>4. \A b \in Agents : /\ agent'[b].step \in UnderLock <=> agent[b].step \in UnderLock
                        /\ agent'[b].step = "accepted" <=> agent[b].step = "accepted"
  BY <1>1, <1>2, <1>3 DEF UnderLock
<1>5. \A b \in Agents : SendSound(b)'
  <2>1. SendSound(a)' BY <1>2, <1>3 DEF SendSound, UnderLock
  <2>2. ASSUME NEW b \in Agents, b # a PROVE SendSound(b)'
    BY <1>1, <1>3, <2>2 DEF SendSound, ThreadSound
  <2>. QED BY <2>1, <2>2
<1>6. {b \in Agents : agent'[b].step = "accepted"} = {b \in Agents : agent[b].step = "accepted"} BY <1>4
<1>7. ThreadIsTrue' BY <1>1, <1>6 DEF ThreadSound, ThreadIsTrue
<1>8. replyActs' \in 0..MaxReplyActs BY <1>1, InboxAssumption DEF ThreadSound, InboxTypeOK
<1>9. InboxTypeOK' BY <1>1, <1>3, <1>8 DEF ThreadSound, InboxTypeOK, AgentRow
<1>. QED BY <1>3, <1>4, <1>5, <1>7, <1>9 DEF ThreadSound

LEMMA IdleAgent == NoAct \in AgentRow /\ NoAct.step = "idle" /\ "idle" \notin UnderLock
BY DEF NoAct, AgentRow, Acts, Steps, ReplyStatuses, UnderLock

LEMMA LockReplyStep ==
    ASSUME ThreadSound, NEW a \in Agents, LockReply(a) PROVE ThreadSound'
<1>1. /\ agent[a].step = "loaded" /\ UNCHANGED <<customerGot, untold, replyFaults, replyActs>>
      /\ \A b \in Agents : agent[b].step \notin UnderLock
  BY DEF LockReply, RowLocked, UnderLock
<1>2. Len(customerGot) = untold + (IF reply.status = "sent" THEN 1 ELSE 0)
  BY <1>1, AloneCounts DEF UnderLock, ThreadSound, InboxTypeOK
<1>3. reply.status = "sent" => reply.body \in Range(customerGot) BY DEF ThreadSound, ThreadIsTrue
<1>4. /\ reply \in [status : ReplyStatuses, body : Texts] /\ agent[a] \in AgentRow
      /\ customerGot' \in Seq(Texts) /\ untold' \in Nat /\ replyFaults' \in 0..MaxReplyFaults /\ replyActs' = replyActs
  BY <1>1 DEF ThreadSound, InboxTypeOK
<1>5. CASE reply.status # "gone" /\ reply.status \in Sendable
  <2>1. CASE agent[a].act = "edit"
    <3>1. reply' = [reply EXCEPT !.body = agent[a].body] /\ agent' = [agent EXCEPT ![a] = NoAct]
      BY <1>5, <2>1 DEF LockReply, StatusSeen
    <3>2. agent[a].body \in Texts BY <1>1, <2>1 DEF ThreadSound, SendSound
    <3>3. reply' \in [status : ReplyStatuses, body : Texts] /\ reply'.status \in Sendable /\ reply'.status = reply.status
      BY <1>4, <1>5, <3>1, <3>2
    <3>4. reply'.status # "sent" /\ reply.status # "sent" BY <3>3 DEF Sendable
    <3>5. Len(customerGot') = untold' + (IF reply'.status = "sent" THEN 1 ELSE 0) BY <1>1, <1>2, <3>4
    <3>. QED BY <1>1, <1>4, <3>1, <3>3, <3>4, <3>5, AloneRests, IdleAgent
  <2>2. CASE agent[a].act = "discard"
    <3>1. reply' = [reply EXCEPT !.status = "gone"] /\ agent' = [agent EXCEPT ![a] = NoAct]
      BY <1>5, <2>2 DEF LockReply, StatusSeen
    <3>2. reply' \in [status : ReplyStatuses, body : Texts] /\ reply'.status = "gone" BY <1>4, <3>1 DEF ReplyStatuses
    <3>3. reply'.status # "sent" /\ reply.status # "sent" BY <1>5, <3>2 DEF Sendable
    <3>4. Len(customerGot') = untold' + (IF reply'.status = "sent" THEN 1 ELSE 0) BY <1>1, <1>2, <3>3
    <3>. QED BY <1>1, <1>4, <3>1, <3>2, <3>3, <3>4, AloneRests, IdleAgent
  <2>3. CASE agent[a].act # "edit" /\ agent[a].act # "discard"
    <3>1. reply' = reply /\ agent' = [agent EXCEPT ![a].step = "sending", ![a].body = reply.body]
      BY <1>5, <2>3 DEF LockReply, StatusSeen
    <3>. DEFINE entry == [agent[a] EXCEPT !.step = "sending", !.body = reply.body]
    <3>2. agent' = [agent EXCEPT ![a] = entry] BY <3>1 DEF ThreadSound
    <3>3. entry \in AgentRow /\ entry.step = "sending" /\ entry.body = reply.body BY <1>4 DEF AgentRow, Steps
    <3>. HIDE DEF entry
    <3>4. reply'.status # "sent" /\ reply'.status \in Sendable /\ entry.body = reply'.body /\ reply.status # "sent"
      BY <1>5, <3>1, <3>3 DEF Sendable
    <3>5. Len(customerGot') = untold' + (IF entry.step = "accepted" THEN 1 ELSE 0) + (IF reply'.status = "sent" THEN 1 ELSE 0)
      BY <1>1, <1>2, <1>4, <3>3, <3>4
    <3>6. reply' \in [status : ReplyStatuses, body : Texts] BY <1>4, <3>1
    <3>7. entry.step # "loaded" /\ entry.step # "accepted" BY <3>3
    <3>. QED BY <1>1, <1>4, <3>2, <3>3, <3>4, <3>5, <3>6, <3>7, AloneMoves
  <2>. QED BY <2>1, <2>2, <2>3
<1>6. CASE ~(reply.status # "gone" /\ reply.status \in Sendable)
  <2>1. /\ reply' = reply
        /\ agent' = [agent EXCEPT ![a] = IF @.act = "compose" THEN [@ EXCEPT !.step = "cleaning"] ELSE NoAct]
    BY <1>6 DEF LockReply, StatusSeen
  <2>. DEFINE entry == IF agent[a].act = "compose" THEN [agent[a] EXCEPT !.step = "cleaning"] ELSE NoAct
  <2>2. agent' = [agent EXCEPT ![a] = entry] BY <2>1 DEF ThreadSound
  <2>3. entry \in AgentRow /\ entry.step \in {"idle", "cleaning"} BY <1>4, IdleAgent DEF AgentRow, Steps
  <2>. HIDE DEF entry
  <2>4. Len(customerGot') = untold' + (IF reply'.status = "sent" THEN 1 ELSE 0) BY <1>1, <1>2, <2>1
  <2>5. reply'.status = "sent" => reply'.body \in Range(customerGot') BY <1>1, <1>3, <2>1
  <2>6. reply' \in [status : ReplyStatuses, body : Texts] BY <1>4, <2>1
  <2>. QED BY <1>1, <1>4, <2>2, <2>3, <2>4, <2>5, <2>6, AloneRests
<1>. QED BY <1>5, <1>6

LEMMA HolderAlone ==
    ASSUME ThreadSound, NEW a \in Agents, agent[a].step \in UnderLock
    PROVE  /\ \A b \in Agents : b # a => agent[b].step \notin UnderLock
           /\ reply.status \in Sendable /\ reply.status # "sent" /\ agent[a].body = reply.body
           /\ agent[a].body \in Texts
           /\ Len(customerGot) = untold + (IF agent[a].step = "accepted" THEN 1 ELSE 0)
<1>1. \A b \in Agents : b # a => agent[b].step \notin UnderLock BY DEF ThreadSound
<1>2. reply.status \in Sendable /\ agent[a].body = reply.body BY DEF ThreadSound, SendSound
<1>. QED BY <1>1, <1>2, AloneCounts DEF ThreadSound, InboxTypeOK, Sendable

LEMMA DispatchReplyStep ==
    ASSUME ThreadSound, NEW a \in Agents, DispatchReply(a) PROVE ThreadSound'
<1>1. agent[a].step = "sending" /\ UNCHANGED <<reply, replyActs>> BY DEF DispatchReply
<1>2. /\ \A b \in Agents : b # a => agent[b].step \notin UnderLock
      /\ reply.status \in Sendable /\ reply.status # "sent" /\ agent[a].body = reply.body
      /\ agent[a].body \in Texts /\ Len(customerGot) = untold
  BY <1>1, HolderAlone DEF UnderLock, ThreadSound, InboxTypeOK
<1>3. customerGot \in Seq(Texts) /\ untold \in Nat /\ reply \in [status : ReplyStatuses, body : Texts]
      /\ agent[a] \in AgentRow /\ replyFaults \in 0..MaxReplyFaults
  BY DEF ThreadSound, InboxTypeOK
<1>4. /\ Append(customerGot, agent[a].body) \in Seq(Texts)
      /\ Len(Append(customerGot, agent[a].body)) = untold + 1
      /\ agent[a].body \in Range(Append(customerGot, agent[a].body))
  BY <1>2, <1>3, RangeOfAppend
<1>5. PICK s \in {"accepted", "refused"} :
        /\ agent' = [agent EXCEPT ![a].step = s]
        /\ customerGot' \in Seq(Texts) /\ untold' \in Nat /\ replyFaults' \in 0..MaxReplyFaults
        /\ Len(customerGot') = untold' + (IF s = "accepted" THEN 1 ELSE 0)
        /\ s = "accepted" => agent[a].body \in Range(customerGot')
  <2>1. CASE /\ agent' = [agent EXCEPT ![a].step = "accepted"]
             /\ customerGot' = Append(customerGot, agent[a].body) /\ UNCHANGED <<untold, replyFaults>>
    BY <1>3, <1>4, <2>1
  <2>2. CASE /\ agent' = [agent EXCEPT ![a].step = "refused"]
             /\ UNCHANGED <<customerGot, untold, replyFaults>>
    BY <1>2, <1>3, <2>2
  <2>3. CASE /\ replyFaults < MaxReplyFaults /\ replyFaults' = replyFaults + 1 /\ untold' = untold + 1
             /\ agent' = [agent EXCEPT ![a].step = "refused"]
             /\ customerGot' = Append(customerGot, agent[a].body)
    BY <1>3, <1>4, <2>3, InboxAssumption
  <2>. QED BY <2>1, <2>2, <2>3 DEF DispatchReply
<1>. DEFINE entry == [agent[a] EXCEPT !.step = s]
<1>6. agent' = [agent EXCEPT ![a] = entry] BY <1>5 DEF ThreadSound
<1>7. entry \in AgentRow /\ entry.step = s /\ entry.body = reply.body BY <1>2, <1>3 DEF AgentRow, Steps
<1>. HIDE DEF entry
<1>8. Len(customerGot') = untold' + (IF entry.step = "accepted" THEN 1 ELSE 0) + (IF reply'.status = "sent" THEN 1 ELSE 0)
  BY <1>1, <1>2, <1>5, <1>7
<1>. QED BY <1>1, <1>2, <1>3, <1>5, <1>6, <1>7, <1>8, AloneMoves

LEMMA RecordReplyStep ==
    ASSUME ThreadSound, NEW a \in Agents, RecordReply(a) PROVE ThreadSound'
<1>1. /\ agent[a].step \in {"accepted", "refused"} /\ UNCHANGED <<customerGot, untold, replyFaults, replyActs>>
      /\ reply' = [reply EXCEPT !.status = IF agent[a].step = "accepted" THEN "sent" ELSE "failed"]
      /\ agent' = [agent EXCEPT ![a] = IF @.act = "compose" /\ @.step = "refused"
                                       THEN [@ EXCEPT !.step = "cleaning"] ELSE NoAct]
  BY DEF RecordReply
<1>2. /\ \A b \in Agents : b # a => agent[b].step \notin UnderLock
      /\ agent[a].body = reply.body /\ Len(customerGot) = untold + (IF agent[a].step = "accepted" THEN 1 ELSE 0)
  BY <1>1, HolderAlone DEF UnderLock
<1>3. /\ customerGot \in Seq(Texts) /\ untold \in Nat /\ reply \in [status : ReplyStatuses, body : Texts]
      /\ agent[a] \in AgentRow /\ replyFaults \in 0..MaxReplyFaults
  BY DEF ThreadSound, InboxTypeOK
<1>4. /\ reply' \in [status : ReplyStatuses, body : Texts] /\ reply'.body = reply.body
      /\ reply'.status = "sent" <=> agent[a].step = "accepted"
  BY <1>1, <1>3 DEF ReplyStatuses
<1>5. reply'.status = "sent" => reply'.body \in Range(customerGot)
  BY <1>2, <1>4 DEF ThreadSound, SendSound
<1>. DEFINE entry == IF agent[a].act = "compose" /\ agent[a].step = "refused"
                   THEN [agent[a] EXCEPT !.step = "cleaning"] ELSE NoAct
<1>6. agent' = [agent EXCEPT ![a] = entry] BY <1>1 DEF ThreadSound
<1>7. entry \in AgentRow /\ entry.step \in {"idle", "cleaning"} BY <1>3, IdleAgent DEF AgentRow, Steps
<1>. HIDE DEF entry
<1>8. Len(customerGot') = untold' + (IF reply'.status = "sent" THEN 1 ELSE 0) BY <1>1, <1>2, <1>3, <1>4
<1>9. /\ reply'.status = "sent" => reply'.body \in Range(customerGot')
      /\ customerGot' \in Seq(Texts) /\ untold' \in Nat /\ replyFaults' \in 0..MaxReplyFaults /\ replyActs' = replyActs
  BY <1>1, <1>3, <1>5
<1>. QED BY <1>2, <1>4, <1>6, <1>7, <1>8, <1>9, AloneRests

LEMMA SendDiesStep ==
    ASSUME ThreadSound, NEW a \in Agents, SendDies(a) PROVE ThreadSound'
<1>1. /\ agent[a].step \in UnderLock /\ UNCHANGED <<reply, customerGot, replyActs>>
      /\ replyFaults < MaxReplyFaults /\ replyFaults' = replyFaults + 1
      /\ untold' = IF agent[a].step = "accepted" THEN untold + 1 ELSE untold
      /\ agent' = [agent EXCEPT ![a] = NoAct]
  BY DEF SendDies, UnderLock
<1>2. /\ \A b \in Agents : b # a => agent[b].step \notin UnderLock
      /\ reply.status # "sent" /\ Len(customerGot) = untold + (IF agent[a].step = "accepted" THEN 1 ELSE 0)
  BY <1>1, HolderAlone
<1>3. /\ customerGot \in Seq(Texts) /\ untold \in Nat /\ reply \in [status : ReplyStatuses, body : Texts]
      /\ replyFaults' \in 0..MaxReplyFaults
  BY <1>1, InboxAssumption DEF ThreadSound, InboxTypeOK
<1>4. untold' \in Nat /\ reply'.status # "sent" /\ Len(customerGot') = untold' + (IF reply'.status = "sent" THEN 1 ELSE 0)
  BY <1>1, <1>2, <1>3
<1>5. reply' \in [status : ReplyStatuses, body : Texts] /\ customerGot' \in Seq(Texts) /\ replyActs' = replyActs BY <1>1, <1>3
<1>. QED BY <1>1, <1>2, <1>3, <1>4, <1>5, AloneRests, IdleAgent

LEMMA CleanUpStep ==
    ASSUME ThreadSound, NEW a \in Agents, CleanUp(a) PROVE ThreadSound'
<1>1. /\ agent[a].step = "cleaning" /\ UNCHANGED <<customerGot, untold, replyFaults, replyActs>>
      /\ \A b \in Agents : agent[b].step \notin UnderLock
      /\ reply' = IF Removable THEN [reply EXCEPT !.status = "gone"] ELSE reply
      /\ agent' = [agent EXCEPT ![a] = NoAct]
  BY DEF CleanUp, RowLocked, UnderLock
<1>2. Len(customerGot) = untold + (IF reply.status = "sent" THEN 1 ELSE 0)
  BY <1>1, AloneCounts DEF UnderLock, ThreadSound, InboxTypeOK
<1>3. reply.status = "sent" => reply.body \in Range(customerGot) BY DEF ThreadSound, ThreadIsTrue
<1>4. /\ customerGot \in Seq(Texts) /\ untold \in Nat /\ reply \in [status : ReplyStatuses, body : Texts]
      /\ replyFaults \in 0..MaxReplyFaults
  BY DEF ThreadSound, InboxTypeOK
<1>5. /\ reply' \in [status : ReplyStatuses, body : Texts] /\ reply'.body = reply.body
      /\ reply'.status = "sent" <=> reply.status = "sent"
  BY <1>1, <1>4 DEF ReplyStatuses, Removable
<1>6. Len(customerGot') = untold' + (IF reply'.status = "sent" THEN 1 ELSE 0) BY <1>1, <1>2, <1>5
<1>7. /\ reply'.status = "sent" => reply'.body \in Range(customerGot')
      /\ customerGot' \in Seq(Texts) /\ untold' \in Nat /\ replyFaults' \in 0..MaxReplyFaults /\ replyActs' = replyActs
  <2>1. reply'.body = reply.body BY <1>1, <1>4
  <2>. QED BY <1>1, <1>3, <1>4, <1>5, <2>1
<1>. QED BY <1>1, <1>5, <1>6, <1>7, AloneRests, IdleAgent

LEMMA ThreadSoundStep == ThreadSound /\ [InboxNext]_inboxVars => ThreadSound'
<1>. SUFFICES ASSUME ThreadSound, [InboxNext]_inboxVars PROVE ThreadSound' OBVIOUS
<1>1. CASE UNCHANGED inboxVars
  BY <1>1 DEF inboxVars, ThreadSound, InboxTypeOK, SendSound, ThreadIsTrue
<1>. QED BY <1>1, LoadReplyStep, LockReplyStep, DispatchReplyStep, RecordReplyStep, SendDiesStep, CleanUpStep DEF InboxNext

\* The thread tells what the customer got, whoever edits, discards or sends the
\* reply meanwhile and whatever answer or process is lost (inbox/services.py).
THEOREM ThreadTold == InboxSpec => []ThreadIsTrue
<1>1. ThreadSound => ThreadIsTrue BY DEF ThreadSound
<1>. QED BY <1>1, ThreadSoundStarts, ThreadSoundStep, PTL DEF InboxSpec

-----------------------------------------------------------------------------
(* The posting queues of a channel.                                        *)

ChipRow == [status : {"draft", "scheduled", "failed"} \cup ProtectedStatuses,
            at : 0..LastInstant, queue : Queues \cup {NoQueue}]
ClerkRow == [op : QueueOps \cup {"none"}, queue : Queues \cup {NoQueue}, post : Posts \cup {"no post"},
             plan : Plans \cup {<< >>}]

\* What a plan would write is held by nobody but those it moves, nor given twice.
PlanApart(plan) ==
    /\ \A x, y \in DOMAIN plan : x # y /\ plan[x] = plan[y] /\ plan[x] > clock => plan[x] \in byHand
    /\ \A x \in DOMAIN plan, y \in Posts \ DOMAIN plan :
          plan[x] > clock /\ ~IsProtected(y) /\ chip[y].at = plan[x] => plan[x] \in byHand

Dated(plan) == \A x \in DOMAIN plan : plan[x] \in 1..LastInstant

RequestSound(c) ==
    clerk[c].op # "none" =>
        /\ clerk[c].queue \in Queues /\ clerk[c].post \in Posts
        /\ PlanApart(clerk[c].plan)
        /\ IF clerk[c].op = "remove" THEN clerk[c].plan \in {<< >>, Place(clerk[c].post, NoTime)}
           ELSE Dated(clerk[c].plan)

\* One request holds the channel; a row that is history waits for an instant only
\* where a person or a late write gave it.
SlotsSound ==
    /\ chip \in [Posts -> ChipRow] /\ clerk \in [Clerks -> ClerkRow]
    /\ clock \in 0..LastNow /\ byHand \subseteq 1..LastInstant
    /\ requests \in 0..MaxQueueRequests /\ drags \in 0..MaxDrags
    /\ \A p \in Posts : IsProtected(p) /\ chip[p].at > clock => chip[p].at \in byHand
    /\ \A c, d \in Clerks : clerk[c].op # "none" /\ clerk[d].op # "none" => c = d
    /\ \A c \in Clerks : RequestSound(c)
    /\ SlotsNotShared

LEMMA PlanValues ==
    ASSUME NEW plan \in Plans \cup {<< >>}
    PROVE  DOMAIN plan \subseteq Posts /\ \A x \in DOMAIN plan : plan[x] \in 0..LastInstant
BY DEF Plans

LEMMA Smallest ==
    ASSUME NEW N \in Nat, NEW S \in SUBSET (0..N), S # {}
    PROVE  Min(S) \in S /\ \A y \in S : Min(S) <= y
<1>. DEFINE T == {N - x : x \in S}
<1>1. T \in SUBSET (0..N) /\ T \in SUBSET Nat /\ T # {}
  <2>1. \A x \in S : N - x \in 0..N /\ N - x \in Nat
    <3>. SUFFICES ASSUME NEW x \in 0..N PROVE N - x \in 0..N /\ N - x \in Nat OBVIOUS
    <3>. QED OBVIOUS
  <2>. QED BY <2>1
<1>2. IsFiniteSet(T)
  <2>. HIDE DEF T
  <2>1. IsFiniteSet(0..N) BY FS_Interval
  <2>. QED BY <1>1, <2>1, FS_Subset
<1>3. PICK t \in T : \A u \in T : u <= t
  <2>. HIDE DEF T
  <2>. QED BY <1>1, <1>2, Largest
<1>4. PICK x \in S : t = N - x OBVIOUS
<1>5. \A y \in S : x <= y
  <2>. SUFFICES ASSUME NEW y \in S PROVE x <= y OBVIOUS
  <2>1. N - y <= N - x BY <1>3, <1>4
  <2>2. x \in Nat /\ y \in Nat BY <1>4
  <2>. QED BY <2>1, <2>2
<1>. QED BY <1>5 DEF Min

LEMMA SlotsBounded ==
    ASSUME NEW S \in SUBSET UpcomingSlots, S # {}
    PROVE  Min(S) \in S /\ \A y \in S : Min(S) <= y
<1>1. S \in SUBSET (0..LastInstant) /\ LastInstant \in Nat BY PostingQueueAssumption DEF UpcomingSlots
<1>. QED BY <1>1, Smallest

LEMMA SlotTypes == UpcomingSlots \subseteq 1..LastInstant /\ \A s \in UpcomingSlots : s > clock
BY PostingQueueAssumption DEF UpcomingSlots

LEMMA SlotsSoundStarts == PostingQueueInit => SlotsSound
<1>. SUFFICES ASSUME PostingQueueInit PROVE SlotsSound OBVIOUS
<1>1. \A p \in Posts : chip[p].status = "draft" /\ chip[p].at = 0 BY DEF PostingQueueInit, NoTime
<1>2. \A c \in Clerks : clerk[c].op = "none" BY DEF PostingQueueInit, NoRequest
<1>3. clerk \in [Clerks -> ClerkRow] BY DEF PostingQueueInit, NoRequest, ClerkRow
<1>4. chip \in [Posts -> ChipRow] BY PostingQueueAssumption DEF PostingQueueInit, NoTime, ChipRow
<1>5. \A p \in Posts : ~IsProtected(p) /\ ~Upcoming(p) BY <1>1 DEF IsProtected, Upcoming, ProtectedStatuses, PostingQueueInit
<1>. QED BY <1>2, <1>3, <1>4, <1>5, PostingQueueAssumption DEF SlotsSound, PostingQueueInit, RequestSound, SlotsNotShared

-----------------------------------------------------------------------------
\* An instant that no other upcoming post holds.
LEMMA PlaceApart ==
    ASSUME SlotsSound, NEW p \in Posts, NEW s \in UpcomingSlots, s \notin Occupied(p)
    PROVE  Place(p, s) \in Plans /\ PlanApart(Place(p, s)) /\ Dated(Place(p, s))
<1>1. s \in 1..LastInstant /\ s > clock BY SlotTypes
<1>2. DOMAIN Place(p, s) = {p} /\ Place(p, s)[p] = s BY DEF Place
<1>3. Place(p, s) \in Plans
  <2>1. s \in 0..LastInstant BY <1>1
  <2>2. Place(p, s) \in [{p} -> 0..LastInstant] BY <2>1 DEF Place
  <2>. QED BY <2>2 DEF Plans
<1>4. ASSUME NEW y \in Posts \ {p}, ~IsProtected(y), chip[y].at = s PROVE FALSE
  BY <1>1, <1>4 DEF Occupied, Upcoming
<1>. QED BY <1>1, <1>2, <1>3, <1>4 DEF PlanApart, Dated

LEMMA NextAvailableApart ==
    ASSUME SlotsSound, NEW p \in Posts, NEW plan \in NextAvailable(p)
    PROVE  plan \in Plans /\ PlanApart(plan) /\ Dated(plan)
<1>1. FreeSlots(p) # {} /\ plan = Place(p, Min(FreeSlots(p))) BY DEF NextAvailable
<1>2. FreeSlots(p) \subseteq UpcomingSlots BY DEF FreeSlots
<1>3. Min(FreeSlots(p)) \in FreeSlots(p) BY <1>1, <1>2, SlotsBounded
<1>. QED BY <1>1, <1>2, <1>3, PlaceApart DEF FreeSlots

\* The first slot, if a post of the queue that waits holds it, is a mover's.
LEMMA FirstIsMoved ==
    ASSUME SlotsSound, NEW p \in Posts, NEW q, UpcomingSlots # {}, NEW x \in Movable(p, q),
           chip[x].at = Min(UpcomingSlots)
    PROVE  x \in Movers(p, q)
<1>1. Min(UpcomingSlots) \in UpcomingSlots /\ \A y \in UpcomingSlots : Min(UpcomingSlots) <= y BY SlotsBounded
<1>2. UpcomingSlots \subseteq Nat BY SlotTypes
<1>. DEFINE first == Min(UpcomingSlots)
<1>. HIDE DEF first
<1>3. {t \in UpcomingSlots : t < first} = {}
  <2>. SUFFICES ASSUME NEW t \in UpcomingSlots, t < first PROVE FALSE OBVIOUS
  <2>1. first \in Nat /\ t \in Nat /\ first <= t BY <1>1, <1>2 DEF first
  <2>. QED BY <2>1
<1>4. Cardinality(Movable(p, q)) \in Nat
  <2>1. Movable(p, q) \subseteq Posts BY DEF Movable
  <2>. QED BY <2>1, PostingQueueAssumption, FS_Subset, FS_CardinalityType
<1>5. Min(UpcomingSlots) \in FirstSlots(Cardinality(Movable(p, q)) + 2)
  <2>1. Cardinality({t \in UpcomingSlots : t < first}) = 0 BY <1>3, FS_EmptySet
  <2>2. 0 < Cardinality(Movable(p, q)) + 2 BY <1>4
  <2>3. first \in FirstSlots(Cardinality(Movable(p, q)) + 2) BY <1>1, <2>1, <2>2 DEF FirstSlots, first
  <2>. QED BY <2>3 DEF first
<1>. QED BY <1>5 DEF Movers

LEMMA LadderApart ==
    ASSUME SlotsSound, NEW p \in Posts, NEW q, UpcomingSlots # {},
           Min(UpcomingSlots) \in {chip[x].at : x \in Movable(p, q)},
           NEW plan \in Ladder(p, q)
    PROVE  plan \in Plans /\ PlanApart(plan) /\ Dated(plan)
<1>. DEFINE M == Movers(p, q)
            stays == Occupied(p) \ {chip[x].at : x \in M}
            Before(x) == {y \in M \ {x} : chip[y].at > chip[x].at \/ (chip[y].at = chip[x].at /\ plan[y] <= plan[x])}
            first == Min(UpcomingSlots)
<1>1. /\ plan \in [{p} \cup M -> UpcomingSlots] /\ plan[p] = first
      /\ \A x \in M : /\ plan[x] \in UpcomingSlots /\ plan[x] \notin stays
                      /\ \A y \in {p} \cup Before(x) : plan[y] # plan[x]
  BY DEF Ladder
<1>2. M \subseteq Posts \ {p} /\ \A x \in M : Upcoming(x) BY DEF Movers, Movable
<1>3. plan \in Plans /\ DOMAIN plan = {p} \cup M
  <2>1. UpcomingSlots \subseteq 0..LastInstant
    <3>1. \A s \in 1..LastInstant : s \in 0..LastInstant BY PostingQueueAssumption
    <3>. QED BY <3>1, SlotTypes
  <2>2. {p} \cup M \in SUBSET Posts BY <1>2
  <2>3. plan \in [{p} \cup M -> 0..LastInstant] BY <1>1, <2>1
  <2>. HIDE DEF M
  <2>. QED BY <2>2, <2>3 DEF Plans
<1>4. ASSUME NEW x \in M, NEW y \in M, x # y PROVE plan[x] # plan[y]
  <2>1. x \in Posts /\ y \in Posts /\ plan[x] \in UpcomingSlots /\ plan[y] \in UpcomingSlots
    BY <1>1, <1>2
  <2>3. chip[x].at \in 0..LastInstant /\ chip[y].at \in 0..LastInstant BY <2>1 DEF SlotsSound, ChipRow
  <2>4. plan[x] \in Nat /\ plan[y] \in Nat
    <3>1. \A s \in 1..LastInstant : s \in Nat OBVIOUS
    <3>. QED BY <2>1, <3>1, SlotTypes
  <2>2. y \in Before(x) \/ x \in Before(y) BY <1>4, <2>3, <2>4
  <2>. QED BY <1>1, <2>2
<1>5. \A x, y \in DOMAIN plan : x # y => plan[x] # plan[y]
  BY <1>1, <1>3, <1>4
<1>6. ASSUME NEW x \in Posts, NEW y \in Posts, x # y, Upcoming(x), Upcoming(y), chip[x].at = chip[y].at
      PROVE  chip[x].at \in byHand
  BY <1>6 DEF SlotsSound, SlotsNotShared
<1>7. ASSUME NEW x \in DOMAIN plan, NEW y \in Posts \ DOMAIN plan,
             plan[x] > clock, ~IsProtected(y), chip[y].at = plan[x]
      PROVE  plan[x] \in byHand
  <2>1. Upcoming(y) /\ y # p /\ y \notin M /\ chip[y].at \in Occupied(p)
    BY <1>3, <1>7 DEF Upcoming, Occupied
  <2>2. CASE x = p
    <3>1. PICK m \in Movable(p, q) : chip[m].at = first OBVIOUS
    <3>2. m \in M BY <3>1, FirstIsMoved
    <3>3. m \in Posts /\ m # y /\ Upcoming(m) BY <1>2, <2>1, <3>2
    <3>4. chip[m].at = chip[y].at BY <1>1, <1>7, <2>2, <3>1
    <3>. QED BY <1>6, <1>7, <2>1, <3>3, <3>4
  <2>3. CASE x \in M
    <3>1. plan[x] \notin stays /\ plan[x] \in Occupied(p) BY <1>1, <1>7, <2>1, <2>3
    <3>2. PICK m \in M : chip[m].at = plan[x] BY <3>1
    <3>3. m \in Posts /\ m # y /\ Upcoming(m) BY <1>2, <2>1, <3>2
    <3>. QED BY <1>6, <1>7, <2>1, <3>2, <3>3
  <2>. QED BY <1>3, <2>2, <2>3
<1>8. Dated(plan)
  <2>1. plan \in [{p} \cup M -> UpcomingSlots] BY <1>1
  <2>. QED BY <1>3, <2>1, SlotTypes DEF Dated
<1>. QED BY <1>3, <1>5, <1>7, <1>8 DEF PlanApart

LEMMA PrioritizeApart ==
    ASSUME SlotsSound, NEW p \in Posts, NEW q, NEW plan \in Prioritize(p, q)
    PROVE  plan \in Plans /\ PlanApart(plan) /\ Dated(plan)
<1>1. UpcomingSlots # {} BY DEF Prioritize
<1>2. CASE Min(UpcomingSlots) \in {chip[x].at : x \in Movable(p, q)}
  <2>1. plan \in Ladder(p, q) BY <1>1, <1>2 DEF Prioritize
  <2>. QED BY <1>1, <1>2, <2>1, LadderApart
<1>3. CASE Min(UpcomingSlots) \notin {chip[x].at : x \in Movable(p, q)} /\ Min(UpcomingSlots) \in FreeSlots(p)
  <2>1. plan = Place(p, Min(UpcomingSlots)) BY <1>1, <1>3 DEF Prioritize
  <2>. QED BY <1>3, <2>1, PlaceApart DEF FreeSlots
<1>4. CASE Min(UpcomingSlots) \notin {chip[x].at : x \in Movable(p, q)} /\ Min(UpcomingSlots) \notin FreeSlots(p)
  <2>1. plan \in NextAvailable(p) BY <1>1, <1>4 DEF Prioritize
  <2>. QED BY <2>1, NextAvailableApart
<1>. QED BY <1>2, <1>3, <1>4

LEMMA ReorderApart ==
    ASSUME SlotsSound, NEW S \in SUBSET Posts, \A x \in S : ~IsProtected(x) /\ chip[x].at # NoTime,
           NEW plan \in Reorder(S)
    PROVE  plan \in Plans /\ PlanApart(plan) /\ Dated(plan)
<1>1. PICK f \in Bijection(S, S) : plan = [x \in S |-> chip[f[x]].at] BY DEF Reorder
<1>2. f \in [S -> S] /\ \A x, y \in S : f[x] = f[y] => x = y
  BY <1>1 DEF Bijection, Injection, IsInjective
<1>3. plan \in [S -> 0..LastInstant] BY <1>1, <1>2 DEF SlotsSound, ChipRow
<1>4. plan \in Plans /\ DOMAIN plan = S BY <1>3 DEF Plans
<1>5. ASSUME NEW x \in Posts, NEW y \in Posts, x # y, Upcoming(x), Upcoming(y), chip[x].at = chip[y].at
      PROVE  chip[x].at \in byHand
  BY <1>5 DEF SlotsSound, SlotsNotShared
<1>6. \A x \in S : f[x] \in S /\ plan[x] = chip[f[x]].at /\ (plan[x] > clock => Upcoming(f[x]))
  BY <1>1, <1>2 DEF Upcoming
<1>7. ASSUME NEW x \in S, NEW y \in S, x # y, plan[x] = plan[y], plan[x] > clock PROVE plan[x] \in byHand
  BY <1>2, <1>5, <1>6, <1>7
<1>8. ASSUME NEW x \in S, NEW y \in Posts \ S, plan[x] > clock, ~IsProtected(y), chip[y].at = plan[x]
      PROVE  plan[x] \in byHand
  <2>1. Upcoming(y) /\ f[x] # y BY <1>6, <1>8 DEF Upcoming
  <2>. QED BY <1>5, <1>6, <1>8, <2>1
<1>9. Dated(plan)
  <2>1. \A x \in S : plan[x] \in 0..LastInstant /\ plan[x] # 0 BY <1>3, <1>6 DEF NoTime
  <2>2. \A n \in 0..LastInstant : n # 0 => n \in 1..LastInstant BY PostingQueueAssumption
  <2>. QED BY <1>4, <2>1, <2>2 DEF Dated
<1>. QED BY <1>4, <1>7, <1>8, <1>9 DEF PlanApart

LEMMA RemoveApart ==
    ASSUME SlotsSound, NEW p \in Posts
    PROVE  PlanApart(<< >>) /\ Place(p, NoTime) \in Plans /\ PlanApart(Place(p, NoTime))
<1>1. DOMAIN << >> = {} OBVIOUS
<1>2. Place(p, NoTime) \in [{p} -> 0..LastInstant] /\ Place(p, NoTime)[p] = 0 /\ DOMAIN Place(p, NoTime) = {p}
  BY PostingQueueAssumption DEF Place, NoTime
<1>3. clock \in Nat BY DEF SlotsSound
<1>. QED BY <1>1, <1>2, <1>3 DEF PlanApart, Plans

LEMMA BeginStep ==
    ASSUME SlotsSound, NEW c \in Clerks, BeginQueueOp(c) PROVE SlotsSound'
<1>1. /\ \A d \in Clerks : clerk[d].op = "none"
      /\ requests < MaxQueueRequests /\ requests' = requests + 1 /\ UNCHANGED <<chip, clock, byHand, drags>>
  BY DEF BeginQueueOp, ChannelLocked
<1>2. PICK op \in QueueOps, p \in Posts, q \in Queues, S \in SUBSET Posts :
          /\ IF op = "reorder"
             THEN p \in S /\ \A x \in S : chip[x].queue = q /\ ~IsProtected(x) /\ chip[x].at # NoTime
             ELSE S = {p}
          /\ \E plan \in PlansFor(op, p, q, S) :
                clerk' = [clerk EXCEPT ![c] = [op |-> op, queue |-> q, post |-> p, plan |-> plan]]
  BY DEF BeginQueueOp
<1>3. PICK plan \in PlansFor(op, p, q, S) :
        clerk' = [clerk EXCEPT ![c] = [op |-> op, queue |-> q, post |-> p, plan |-> plan]]
  BY <1>2
<1>4. /\ plan \in Plans \cup {<< >>} /\ PlanApart(plan)
      /\ IF op = "remove" THEN plan \in {<< >>, Place(p, NoTime)} ELSE Dated(plan)
  <2>1. CASE op \in {"add", "reslot"}
    <3>1. plan \in NextAvailable(p) BY <2>1 DEF PlansFor
    <3>. QED BY <2>1, <3>1, NextAvailableApart
  <2>2. CASE op = "top"
    <3>1. plan \in Prioritize(p, q) BY <2>2 DEF PlansFor
    <3>. QED BY <2>2, <3>1, PrioritizeApart
  <2>3. CASE op = "reorder"
    <3>1. plan \in Reorder(S) BY <2>3 DEF PlansFor
    <3>. QED BY <1>2, <2>3, <3>1, ReorderApart
  <2>4. CASE op = "remove"
    <3>1. plan = IF IsProtected(p) THEN << >> ELSE Place(p, NoTime) BY <2>4 DEF PlansFor
    <3>. QED BY <2>4, <3>1, RemoveApart
  <2>. QED BY <2>1, <2>2, <2>3, <2>4 DEF QueueOps
<1>. DEFINE entry == [op |-> op, queue |-> q, post |-> p, plan |-> plan]
<1>5. entry \in ClerkRow /\ entry.op = op /\ entry.queue = q /\ entry.post = p /\ entry.plan = plan
  BY <1>4 DEF ClerkRow
<1>. HIDE DEF entry
<1>6. clerk' = [clerk EXCEPT ![c] = entry] BY <1>3 DEF entry
<1>7. /\ clerk' \in [Clerks -> ClerkRow] /\ clerk'[c] = entry
      /\ \A d \in Clerks : d # c => clerk'[d].op = "none"
  BY <1>1, <1>5, <1>6 DEF SlotsSound
<1>8. PlanApart(plan)' BY <1>1, <1>4 DEF PlanApart, IsProtected
<1>9. \A d \in Clerks : RequestSound(d)'
  <2>1. RequestSound(c)'
    <3>1. PlanApart(clerk[c].plan)' BY <1>5, <1>7, <1>8 DEF PlanApart, IsProtected
    <3>2. Dated(clerk[c].plan)' <=> Dated(plan) BY <1>5, <1>7 DEF Dated
    <3>. QED BY <1>4, <1>5, <1>7, <3>1, <3>2 DEF RequestSound
  <2>2. \A d \in Clerks : d # c => RequestSound(d)' BY <1>7 DEF RequestSound
  <2>. QED BY <2>1, <2>2
<1>10. requests' \in 0..MaxQueueRequests BY <1>1, PostingQueueAssumption DEF SlotsSound
<1>11. SlotsNotShared' BY <1>1 DEF SlotsSound, SlotsNotShared, Upcoming, IsProtected
<1>. QED BY <1>1, <1>7, <1>9, <1>10, <1>11 DEF SlotsSound, IsProtected

LEMMA WriteStep ==
    ASSUME SlotsSound, NEW c \in Clerks, WriteSlots(c) PROVE SlotsSound'
<1>1. PICK r \in ClerkRow : r = clerk[c] BY DEF SlotsSound
<1>2. PICK plan \in Plans \cup {<< >>} : plan = r.plan BY DEF ClerkRow
<1>. DEFINE Placed(p) ==
              [status |-> IF r.op \in {"add", "top"} /\ p = r.post /\ ~IsProtected(p)
                          THEN "scheduled" ELSE chip[p].status,
               at |-> plan[p], queue |-> r.queue]
            Removed(p) ==
              IF p \in DOMAIN plan THEN [status |-> "draft", at |-> NoTime, queue |-> NoQueue]
              ELSE [chip[p] EXCEPT !.queue = NoQueue]
            Written(p) ==
              IF r.op = "remove" /\ p = r.post THEN Removed(p)
              ELSE IF p \in DOMAIN plan THEN Placed(p) ELSE chip[p]
<1>3. /\ r.op # "none" /\ clerk' = [clerk EXCEPT ![c] = NoRequest] /\ UNCHANGED <<clock, requests, drags>>
      /\ chip' = [p \in Posts |-> Written(p)]
      /\ byHand' = byHand \cup {plan[p] : p \in {x \in DOMAIN plan : r.op # "remove" /\ IsProtected(x)}}
  BY <1>1, <1>2, Zenon DEF WriteSlots
<1>4. /\ r.queue \in Queues /\ r.post \in Posts /\ PlanApart(plan)
      /\ IF r.op = "remove" THEN plan \in {<< >>, Place(r.post, NoTime)} ELSE Dated(plan)
  BY <1>1, <1>2, <1>3 DEF SlotsSound, RequestSound
<1>5. DOMAIN plan \subseteq Posts /\ \A x \in DOMAIN plan : plan[x] \in 0..LastInstant BY PlanValues
<1>6. r.op = "remove" => \A x \in DOMAIN plan : x = r.post /\ plan[x] = NoTime
  <2>1. DOMAIN << >> = {} OBVIOUS
  <2>. QED BY <1>4, <2>1 DEF Place
<1>7. ASSUME NEW p \in Posts
      PROVE  /\ chip'[p] \in ChipRow
             /\ p \in DOMAIN plan => chip'[p].at = plan[p] /\ (chip'[p].status \in ProtectedStatuses => IsProtected(p) /\ r.op # "remove")
             /\ p \notin DOMAIN plan => chip'[p].at = chip[p].at /\ chip'[p].status = chip[p].status
  <2>1. chip[p] \in ChipRow /\ chip'[p] = Written(p) BY <1>3 DEF SlotsSound
  <2>2. CASE r.op = "remove" /\ p = r.post /\ p \in DOMAIN plan
    <3>1. chip'[p] = [status |-> "draft", at |-> NoTime, queue |-> NoQueue] BY <2>1, <2>2
    <3>2. NoTime \in 0..LastInstant BY PostingQueueAssumption DEF NoTime
    <3>. QED BY <1>6, <2>2, <3>1, <3>2 DEF ChipRow, ProtectedStatuses
  <2>3. CASE r.op = "remove" /\ p = r.post /\ p \notin DOMAIN plan
    <3>1. chip'[p] = [chip[p] EXCEPT !.queue = NoQueue] BY <2>1, <2>3
    <3>. QED BY <2>1, <2>3, <3>1 DEF ChipRow
  <2>4. CASE ~(r.op = "remove" /\ p = r.post) /\ p \in DOMAIN plan
    <3>1. chip'[p] = Placed(p) /\ r.op # "remove" BY <1>6, <2>1, <2>4
    <3>2. plan[p] \in 0..LastInstant BY <1>5, <2>4
    <3>3. chip'[p].at = plan[p] /\ chip'[p].status \in {"scheduled", chip[p].status} BY <3>1
    <3>4. Placed(p) \in ChipRow BY <1>4, <2>1, <3>2 DEF ChipRow
    <3>. QED BY <2>4, <3>1, <3>3, <3>4 DEF ProtectedStatuses, IsProtected
  <2>5. CASE ~(r.op = "remove" /\ p = r.post) /\ p \notin DOMAIN plan
    <3>1. chip'[p] = chip[p] BY <2>1, <2>5
    <3>. QED BY <2>1, <2>5, <3>1
  <2>. QED BY <2>2, <2>3, <2>4, <2>5
<1>. HIDE DEF Written, Placed, Removed
<1>8. chip' \in [Posts -> ChipRow] BY <1>3, <1>7
<1>9. byHand \subseteq byHand' /\ byHand' \subseteq 1..LastInstant
  <2>1. \A x \in DOMAIN plan : r.op # "remove" => plan[x] \in 1..LastInstant BY <1>4 DEF Dated
  <2>. QED BY <1>3, <2>1 DEF SlotsSound
<1>10. ASSUME NEW p \in Posts, IsProtected(p)', chip'[p].at > clock PROVE chip'[p].at \in byHand'
  <2>1. chip'[p].status \in ProtectedStatuses BY <1>10 DEF IsProtected
  <2>2. CASE p \in DOMAIN plan BY <1>3, <1>7, <2>1, <2>2
  <2>3. CASE p \notin DOMAIN plan
    <3>1. IsProtected(p) /\ chip[p].at > clock /\ chip'[p].at = chip[p].at BY <1>7, <1>10, <2>1, <2>3 DEF IsProtected
    <3>. QED BY <1>9, <3>1 DEF SlotsSound
  <2>. QED BY <2>2, <2>3
<1>11. ASSUME NEW x \in Posts, NEW y \in Posts, x # y, Upcoming(x)', Upcoming(y)', chip'[x].at = chip'[y].at
       PROVE  chip'[x].at \in byHand'
  <2>1. /\ chip'[x].status \notin ProtectedStatuses /\ chip'[x].at > clock
        /\ chip'[y].status \notin ProtectedStatuses /\ chip'[y].at > clock
    BY <1>3, <1>11 DEF Upcoming, IsProtected
  <2>2. CASE x \in DOMAIN plan /\ y \in DOMAIN plan BY <1>4, <1>7, <1>9, <1>11, <2>1, <2>2 DEF PlanApart
  <2>3. CASE x \in DOMAIN plan /\ y \notin DOMAIN plan
    <3>1. ~IsProtected(y) /\ chip[y].at = plan[x] /\ plan[x] > clock /\ chip'[x].at = plan[x]
      BY <1>7, <1>11, <2>1, <2>3 DEF IsProtected
    <3>. QED BY <1>4, <1>9, <2>3, <3>1 DEF PlanApart
  <2>4. CASE x \notin DOMAIN plan /\ y \in DOMAIN plan
    <3>1. ~IsProtected(x) /\ chip[x].at = plan[y] /\ plan[y] > clock /\ chip'[x].at = plan[y]
      BY <1>7, <1>11, <2>1, <2>4 DEF IsProtected
    <3>. QED BY <1>4, <1>9, <2>4, <3>1 DEF PlanApart
  <2>5. CASE x \notin DOMAIN plan /\ y \notin DOMAIN plan
    <3>1. Upcoming(x) /\ Upcoming(y) /\ chip[x].at = chip[y].at /\ chip'[x].at = chip[x].at
      BY <1>7, <1>11, <2>1, <2>5 DEF Upcoming, IsProtected
    <3>. QED BY <1>9, <1>11, <3>1 DEF SlotsSound, SlotsNotShared
  <2>. QED BY <2>2, <2>3, <2>4, <2>5
<1>12. NoRequest \in ClerkRow /\ NoRequest.op = "none" BY DEF NoRequest, ClerkRow
<1>13. clerk' \in [Clerks -> ClerkRow] /\ \A d \in Clerks : clerk'[d].op = "none"
  <2>1. clerk' \in [Clerks -> ClerkRow] /\ clerk'[c].op = "none" BY <1>3, <1>12 DEF SlotsSound
  <2>2. ASSUME NEW d \in Clerks, d # c PROVE clerk'[d].op = "none"
    BY <1>1, <1>3, <2>2 DEF SlotsSound
  <2>. QED BY <2>1, <2>2
<1>14. \A d \in Clerks : RequestSound(d)' BY <1>13 DEF RequestSound
<1>15. SlotsNotShared' BY <1>11 DEF SlotsNotShared
<1>. QED BY <1>3, <1>8, <1>9, <1>10, <1>13, <1>14, <1>15 DEF SlotsSound

\* Beside the queue: instants given by hand are noted, and rows become history
\* when their time has come.
LEMMA BesideKeeps ==
    ASSUME SlotsSound, chip' \in [Posts -> ChipRow], UNCHANGED <<clerk, requests>>,
           clock' \in 0..LastNow, clock <= clock', byHand' \subseteq 1..LastInstant, byHand \subseteq byHand',
           drags' \in 0..MaxDrags,
           \A p \in Posts : chip'[p].at > clock' =>
              \/ chip'[p].at \in byHand'
              \/ ~IsProtected(p) /\ chip'[p].at = chip[p].at /\ chip'[p].status \notin ProtectedStatuses
    PROVE  SlotsSound'
<1>1. clock \in Nat /\ clock' \in Nat BY DEF SlotsSound
<1>2. \A p \in Posts : IsProtected(p)' /\ chip'[p].at > clock' => chip'[p].at \in byHand'
  BY DEF IsProtected
<1>3. ASSUME NEW x \in Posts, NEW y \in Posts, x # y, Upcoming(x)', Upcoming(y)', chip'[x].at = chip'[y].at
      PROVE  chip'[x].at \in byHand'
  <2>1. chip'[x].at > clock' /\ chip'[y].at > clock' BY <1>3 DEF Upcoming
  <2>2. CASE chip'[x].at \notin byHand'
    <3>1. ~IsProtected(x) /\ ~IsProtected(y) /\ chip'[x].at = chip[x].at /\ chip'[y].at = chip[y].at
      BY <1>3, <2>1, <2>2
    <3>2. chip[x].at \in 0..LastInstant /\ chip[y].at \in 0..LastInstant BY DEF SlotsSound, ChipRow
    <3>3. chip[x].at > clock /\ chip[y].at > clock BY <1>1, <2>1, <3>1, <3>2
    <3>4. chip[x].at \in byHand BY <1>3, <3>1, <3>3 DEF SlotsSound, SlotsNotShared, Upcoming
    <3>. QED BY <3>1, <3>4
  <2>. QED BY <2>2
<1>4. ASSUME NEW c \in Clerks PROVE RequestSound(c)'
  <2>1. CASE clerk[c].op = "none" BY <2>1 DEF RequestSound
  <2>2. CASE clerk[c].op # "none"
    <3>1. RequestSound(c) /\ PlanApart(clerk[c].plan) BY <2>2 DEF SlotsSound, RequestSound
    <3>2. PICK plan \in Plans \cup {<< >>} : plan = clerk[c].plan BY DEF SlotsSound, ClerkRow
    <3>3. \A x \in DOMAIN plan : x \in Posts /\ plan[x] \in 0..LastInstant BY PlanValues
    <3>4. \A x \in DOMAIN plan : plan[x] > clock' => plan[x] > clock BY <1>1, <3>3
    <3>5. PlanApart(plan) BY <3>1, <3>2
    <3>6. ASSUME NEW x \in DOMAIN plan, NEW y \in Posts \ DOMAIN plan,
                 plan[x] > clock', ~IsProtected(y)', chip'[y].at = plan[x]
          PROVE  plan[x] \in byHand'
      <4>1. CASE plan[x] \notin byHand'
        <5>1. ~IsProtected(y) /\ chip'[y].at = chip[y].at BY <3>6, <4>1
        <5>. QED BY <3>4, <3>5, <3>6, <5>1 DEF PlanApart
      <4>. QED BY <4>1
    <3>7. PlanApart(plan)' BY <3>4, <3>5, <3>6 DEF PlanApart
    <3>8. PlanApart(clerk[c].plan)' BY <3>2, <3>7 DEF PlanApart, IsProtected
    <3>. QED BY <3>1, <3>8 DEF RequestSound, Dated
  <2>. QED BY <2>1, <2>2
<1>5. SlotsNotShared' BY <1>3 DEF SlotsNotShared
<1>. QED BY <1>2, <1>4, <1>5 DEF SlotsSound

LEMMA BesideStep ==
    ASSUME SlotsSound,
           (\E p \in Posts : Drag(p) \/ ClaimDue(p) \/ PublishEnds(p)) \/ ClockMoves
    PROVE  SlotsSound'
<1>1. ASSUME NEW p \in Posts, Drag(p) PROVE SlotsSound'
  <2>1. PICK t \in 1..LastInstant : /\ chip' = [chip EXCEPT ![p].at = t, ![p].status = "scheduled"]
                                    /\ byHand' = byHand \cup {t}
    BY <1>1 DEF Drag
  <2>2. drags < MaxDrags /\ drags' = drags + 1 /\ UNCHANGED <<clerk, clock, requests>> BY <1>1 DEF Drag
  <2>3. t \in 0..LastInstant OBVIOUS
  <2>4. /\ chip' \in [Posts -> ChipRow] /\ chip'[p].at = t
        /\ \A x \in Posts : x # p => chip'[x] = chip[x]
    BY <2>1, <2>3 DEF SlotsSound, ChipRow
  <2>5. ASSUME NEW x \in Posts, chip'[x].at > clock'
        PROVE  \/ chip'[x].at \in byHand'
               \/ ~IsProtected(x) /\ chip'[x].at = chip[x].at /\ chip'[x].status \notin ProtectedStatuses
    BY <2>1, <2>2, <2>4, <2>5 DEF SlotsSound, IsProtected
  <2>6. drags' \in 0..MaxDrags BY <2>2, PostingQueueAssumption DEF SlotsSound
  <2>7. byHand' \subseteq 1..LastInstant /\ byHand \subseteq byHand' BY <2>1 DEF SlotsSound
  <2>8. clock' \in 0..LastNow /\ clock <= clock' BY <2>2 DEF SlotsSound
  <2>. QED BY <2>2, <2>4, <2>5, <2>6, <2>7, <2>8, BesideKeeps
<1>2. ASSUME NEW p \in Posts, ClaimDue(p) \/ PublishEnds(p) PROVE SlotsSound'
  <2>1. UNCHANGED <<clerk, clock, byHand, requests, drags>> BY <1>2 DEF ClaimDue, PublishEnds
  <2>2. PICK s \in {"publishing", "published", "failed"} : chip' = [chip EXCEPT ![p].status = s]
    BY <1>2 DEF ClaimDue, PublishEnds
  <2>3. IsProtected(p) \/ chip[p].at <= clock
    BY <1>2 DEF ClaimDue, PublishEnds, IsProtected, ProtectedStatuses
  <2>4. /\ chip' \in [Posts -> ChipRow] /\ chip'[p].at = chip[p].at
        /\ \A x \in Posts : x # p => chip'[x] = chip[x]
    BY <2>2 DEF SlotsSound, ChipRow, ProtectedStatuses
  <2>5. ASSUME NEW x \in Posts, chip'[x].at > clock'
        PROVE  \/ chip'[x].at \in byHand'
               \/ ~IsProtected(x) /\ chip'[x].at = chip[x].at /\ chip'[x].status \notin ProtectedStatuses
    <3>1. chip[x].at > clock /\ chip'[x].at = chip[x].at BY <2>1, <2>4, <2>5
    <3>2. chip[x].at \in 0..LastInstant /\ clock \in Nat BY DEF SlotsSound, ChipRow
    <3>3. CASE x = p
      <4>1. IsProtected(p) BY <2>3, <3>1, <3>2, <3>3
      <4>. QED BY <2>1, <3>1, <3>3, <4>1 DEF SlotsSound
    <3>4. CASE x # p BY <2>1, <2>4, <3>1, <3>4 DEF SlotsSound, IsProtected
    <3>. QED BY <3>3, <3>4
  <2>6. /\ clock' \in 0..LastNow /\ clock <= clock' /\ byHand' \subseteq 1..LastInstant /\ byHand \subseteq byHand'
        /\ drags' \in 0..MaxDrags
    BY <2>1 DEF SlotsSound
  <2>. QED BY <2>1, <2>4, <2>5, <2>6, BesideKeeps
<1>3. CASE ClockMoves
  <2>1. UNCHANGED <<chip, clerk, byHand, requests, drags>> /\ clock < LastNow /\ clock' = clock + 1 BY <1>3 DEF ClockMoves
  <2>2. clock' \in 0..LastNow /\ clock <= clock' BY <2>1, PostingQueueAssumption DEF SlotsSound
  <2>3. ASSUME NEW x \in Posts, chip'[x].at > clock'
        PROVE  \/ chip'[x].at \in byHand'
               \/ ~IsProtected(x) /\ chip'[x].at = chip[x].at /\ chip'[x].status \notin ProtectedStatuses
    <3>1. chip[x].at \in 0..LastInstant /\ clock \in Nat BY DEF SlotsSound, ChipRow
    <3>2. chip[x].at > clock BY <2>1, <2>3, <3>1
    <3>. QED BY <2>1, <3>2 DEF SlotsSound, IsProtected
  <2>4. chip' \in [Posts -> ChipRow] /\ byHand' \subseteq 1..LastInstant /\ byHand \subseteq byHand' /\ drags' \in 0..MaxDrags
    BY <2>1 DEF SlotsSound
  <2>. QED BY <2>1, <2>2, <2>3, <2>4, BesideKeeps
<1>. QED BY <1>1, <1>2, <1>3

LEMMA SlotsSoundStep == SlotsSound /\ [PostingQueueNext]_queueVars => SlotsSound'
<1>. SUFFICES ASSUME SlotsSound, [PostingQueueNext]_queueVars PROVE SlotsSound' OBVIOUS
<1>1. CASE UNCHANGED queueVars
  BY <1>1 DEF queueVars, SlotsSound, RequestSound, SlotsNotShared, PlanApart, Dated, IsProtected, Upcoming
<1>. QED BY <1>1, BeginStep, WriteStep, BesideStep DEF PostingQueueNext

\* Two posts of a channel wait for one instant only where a person put one of
\* them there, whatever comes between an operation's read and its write and
\* however many slots, queues and requests there are (calendar/services.py).
THEOREM SlotsKeptApart == PostingQueueSpec => []SlotsNotShared
<1>1. SlotsSound => SlotsNotShared BY DEF SlotsSound
<1>. QED BY <1>1, SlotsSoundStarts, SlotsSoundStep, PTL DEF PostingQueueSpec

-----------------------------------------------------------------------------
(* Types: what the invariants above do not say of them.                    *)

LEMMA SeriesTypesStart == RecurrenceInit => RecurrenceTypeOK
<1>. SUFFICES ASSUME RecurrenceInit PROVE RecurrenceTypeOK OBVIOUS
<1>1. {0} \subseteq 0..LastDay /\ {0} \subseteq 0..MaxGeneratorDeaths BY RecurrenceAssumption
<1>2. generator \in [Generators -> [step : {"idle", "going"}, dates : SUBSET Dates, already : SUBSET Dates]]
  BY DEF RecurrenceInit, NotGenerating
<1>. QED BY <1>1, <1>2 DEF RecurrenceInit, RecurrenceTypeOK

LEMMA SeriesTypesStep == RecurrenceTypeOK /\ [RecurrenceNext]_recurrenceVars => RecurrenceTypeOK'
<1>. SUFFICES ASSUME RecurrenceTypeOK, [RecurrenceNext]_recurrenceVars PROVE RecurrenceTypeOK' OBVIOUS
<1>. USE DEF RecurrenceTypeOK
<1>. DEFINE Cycle == [step : {"idle", "going"}, dates : SUBSET Dates, already : SUBSET Dates]
<1>0. NotGenerating \in Cycle /\ {LastDay, MaxGeneratorDeaths} \subseteq Nat
  BY RecurrenceAssumption DEF NotGenerating
<1>1. ASSUME NEW w \in Generators, StartCycle(w) PROVE RecurrenceTypeOK'
  <2>1. DatesDue \subseteq Dates BY DEF DatesDue, Ahead
  <2>2. [step |-> "going", dates |-> DatesDue, already |-> ledger] \in Cycle BY <2>1
  <2>. QED BY <1>1, <2>2 DEF StartCycle
<1>2. ASSUME NEW w \in Generators, GenerateDate(w) PROVE RecurrenceTypeOK'
  <2>. DEFINE d == CHOOSE x \in generator[w].dates : \A y \in generator[w].dates : x <= y
  <2>1. generator[w].dates \in SUBSET Dates /\ generator[w].dates # {} BY <1>2 DEF GenerateDate
  <2>2. generator[w].dates \in SUBSET (0..(LastDay + Lookahead)) /\ LastDay + Lookahead \in Nat
    BY <2>1, RecurrenceAssumption DEF Dates
  <2>3. \E x \in generator[w].dates : \A y \in generator[w].dates : x <= y BY <2>1, <2>2, Smallest
  <2>4. d \in Dates BY <2>1, <2>3, Zenon
  <2>5. \/ generator' = [generator EXCEPT ![w] = NotGenerating]
        \/ generator' = [generator EXCEPT ![w].dates = @ \ {d}, ![w].already = ledger \cup {d}]
    BY <1>2, Zenon DEF GenerateDate, LedgerSeenBy
  <2>7. \/ UNCHANGED <<ledger, clones, shown>>
        \/ clones' = [clones EXCEPT ![d] = @ + 1] /\ shown' = shown \cup {d} /\ ledger' = ledger \cup {d}
    BY <1>2, Zenon DEF GenerateDate, LedgerSeenBy
  <2>6. UNCHANGED <<rule, held, today, generatorDeaths>> BY <1>2 DEF GenerateDate
  <2>. HIDE DEF d
  <2>8. generator' \in [Generators -> Cycle] BY <1>0, <2>1, <2>4, <2>5
  <2>9. clones' \in [Dates -> Nat]
    <3>1. clones \in [Dates -> Nat] /\ clones[d] + 1 \in Nat BY <2>4
    <3>. QED BY <2>4, <2>7, <3>1
  <2>10. {ledger', shown'} \subseteq SUBSET Dates BY <2>4, <2>7
  <2>. QED BY <2>6, <2>8, <2>9, <2>10
<1>3. ASSUME NEW w \in Generators, CycleEnds(w) \/ GeneratorDies(w) PROVE RecurrenceTypeOK'
  BY <1>0, <1>3 DEF CycleEnds, GeneratorDies
<1>4. CASE (\E d \in Dates : DeleteOccurrence(d)) \/ DeleteSource \/ DayPasses
  <2>1. UNCHANGED <<clones, ledger, held, generator, generatorDeaths>> BY <1>4 DEF DeleteOccurrence, DeleteSource, DayPasses
  <2>2. shown' \subseteq shown /\ rule' \in {rule, "gone"} /\ today' \in 0..LastDay
    BY <1>0, <1>4 DEF DeleteOccurrence, DeleteSource, DayPasses
  <2>. QED BY <2>1, <2>2
<1>6. CASE HoldSource
  <2>1. UNCHANGED <<rule, ledger, clones, shown, today, generator, generatorDeaths>> /\ held' \in BOOLEAN BY <1>6 DEF HoldSource
  <2>. QED BY <2>1
<1>5. CASE UNCHANGED recurrenceVars BY <1>5 DEF recurrenceVars
<1>. QED BY <1>1, <1>2, <1>3, <1>4, <1>5, <1>6 DEF RecurrenceNext, GeneratorMoves

-----------------------------------------------------------------------------
DeadlineTypes ==
    /\ pending \subseteq PendingPosts /\ deadline \in [PendingPosts -> Nears]
    /\ reminded \in [Reviewers -> SUBSET PendingPosts]

LEMMA ReminderTypesFollow == Reminding /\ DeadlineTypes => RemindersTypeOK
<1>. SUFFICES ASSUME Reminding, DeadlineTypes PROVE RemindersTypeOK OBVIOUS
<1>1. \A p \in PendingPosts : reminder[p] \in ReminderRow /\ reminder[p].count <= MaxReminders
  BY DEF Reminding, NoticesRecorded, Recorded
<1>2. reminder \in [PendingPosts -> [count : 0..MaxReminders, rested : BOOLEAN, escalated : BOOLEAN,
                                      lead : BOOLEAN, backup : BOOLEAN, overdue : BOOLEAN]]
  <2>1. reminder = [p \in PendingPosts |-> reminder[p]] BY DEF Reminding, NoticesRecorded
  <2>2. \A p \in PendingPosts : reminder[p] \in [count : 0..MaxReminders, rested : BOOLEAN, escalated : BOOLEAN,
                                      lead : BOOLEAN, backup : BOOLEAN, overdue : BOOLEAN]
    BY <1>1, Limits DEF ReminderRow
  <2>. QED BY <2>1, <2>2
<1>. QED BY <1>2 DEF RemindersTypeOK, Reminding, Transactions, NoticesRecorded, DeadlineTypes, SweepRow

LEMMA DeadlineTypesStart == RemindersInit => DeadlineTypes
BY DEF RemindersInit, DeadlineTypes, Nears

LEMMA DeadlineTypesStep == Reminding /\ DeadlineTypes /\ [RemindersNext]_reminderVars => DeadlineTypes'
<1>. SUFFICES ASSUME Reminding, DeadlineTypes, [RemindersNext]_reminderVars PROVE DeadlineTypes' OBVIOUS
<1>. USE DEF DeadlineTypes
<1>1. CASE UNCHANGED <<pending, deadline, reminded>> BY <1>1
<1>2. ASSUME NEW s \in Sweeps, SendNotices(s) PROVE DeadlineTypes'
  <2>1. sweep[s].post \in PendingPosts BY <1>2 DEF SendNotices, Reminding, Transactions
  <2>2. UNCHANGED <<pending, deadline>> /\ reminded' \in [Reviewers -> SUBSET PendingPosts]
    BY <1>2, <2>1 DEF SendNotices
  <2>. QED BY <2>2
<1>3. ASSUME NEW p \in PendingPosts, DecisionMade(p) \/ DeadlineNears(p) PROVE DeadlineTypes'
  BY <1>3 DEF DecisionMade, DeadlineNears, Nears
<1>4. CASE AlertDayPasses BY <1>4 DEF AlertDayPasses
<1>5. CASE \E s \in Sweeps : CountAlerts(s) \/ \E p \in PendingPosts : LockPost(s, p)
  BY <1>1, <1>5 DEF CountAlerts, LockPost
<1>. QED BY <1>1, <1>2, <1>3, <1>4, <1>5 DEF RemindersNext, SweepMoves, reminderVars

-----------------------------------------------------------------------------
FaultsBounded == taskFaults <= MaxTaskFaults

LEMMA ScheduleTypesFollow == ScheduleShape /\ FaultsBounded => RecurringTypeOK
BY RecurringAssumption DEF ScheduleShape, FaultsBounded, RecurringTypeOK, HostRow

LEMMA FaultsBoundedStart == RecurringInit => FaultsBounded
BY RecurringAssumption DEF RecurringInit, FaultsBounded

LEMMA FaultsBoundedStep == ScheduleShape /\ FaultsBounded /\ [RecurringNext]_recurringVars => FaultsBounded'
<1>. SUFFICES ASSUME ScheduleShape, FaultsBounded, [RecurringNext]_recurringVars PROVE FaultsBounded' OBVIOUS
<1>1. \/ UNCHANGED taskFaults
      \/ taskFaults < MaxTaskFaults /\ taskFaults' = taskFaults + 1
  BY Zenon DEF RecurringNext, recurringVars, MigratorRegisters, HostMoves, HostRegisters, ReclaimLocks, LockRow, TaskReturns,
         RepeatTask, DeleteRow, StopUnleased, BootWorker, HostDies, DropLease
<1>. QED BY <1>1, RecurringAssumption DEF FaultsBounded, ScheduleShape

-----------------------------------------------------------------------------
GrantsBounded ==
    /\ granted \in 1..MaxGrants /\ {refused, lost} \subseteq BOOLEAN
    /\ offers \subseteq 1..MaxGrants /\ consent \in 1..MaxGrants /\ standing \in 1..MaxGrants

LEMMA GrantTypesFollow == GrantSound /\ GrantsBounded => TokensTypeOK
<1>. SUFFICES ASSUME GrantSound, GrantsBounded PROVE TokensTypeOK OBVIOUS
<1>1. granted \in 1..MaxGrants /\ MaxGrants \in Nat BY AccountAssumption DEF GrantsBounded
<1>2. account \in [token : 0..MaxGrants, expires : {"never", "later", "soon", "past"}, status : Statuses]
      /\ usable \subseteq 1..MaxGrants
  BY <1>1 DEF GrantSound, RowSound
<1>3. user \in [Users -> [does : {"nothing", "use", "check", "disconnect"}, token : 0..MaxGrants,
                           step : {"idle", "stale", "loaded", "refreshing", "rotated", "probing", "probed", "revoked"},
                           note : Statuses]]
  <2>1. user \in [Users -> UserRow] /\ \A u \in Users : user[u].token <= granted BY DEF GrantSound, UsersSound
  <2>2. user = [u \in Users |-> user[u]] BY <2>1
  <2>3. \A u \in Users : user[u] \in UserRow /\ user[u].token \in 0..MaxGrants BY <1>1, <2>1 DEF UserRow
  <2>. QED BY <2>2, <2>3 DEF UserRow
<1>. QED BY <1>2, <1>3 DEF GrantsBounded, TokensTypeOK

LEMMA GrantsBoundedStart == TokensInit => GrantsBounded
<1>1. 1 \in 1..MaxGrants BY AccountAssumption
<1>. QED BY <1>1 DEF TokensInit, GrantsBounded

LEMMA GrantsBoundedStep == GrantsBounded /\ [TokensNext]_tokenVars => GrantsBounded'
<1>. SUFFICES ASSUME GrantsBounded, [TokensNext]_tokenVars PROVE GrantsBounded' OBVIOUS
<1>1. UNCHANGED granted \/ (granted < MaxGrants /\ granted' = granted + 1)
  BY Zenon DEF TokensNext, tokenVars, LoadAccount, UseAsItIs, LockAccount, PlatformRotates, SaveRotation, RefreshFails,
         RotationLost, Probe, RecordProbe, RevokeToken, BlankTokens,
         ExchangeCode, SaveGrant, CallbackFails, ExpiryNears
<1>2. lost' \in {lost, TRUE, FALSE}
  BY DEF TokensNext, tokenVars, LoadAccount, UseAsItIs, LockAccount, PlatformRotates, SaveRotation, RefreshFails,
         RotationLost, Probe, RecordProbe, RevokeToken, BlankTokens,
         ExchangeCode, SaveGrant, CallbackFails, ExpiryNears
<1>3. refused' \in {refused, FALSE} \/ \E token : Refused(token)
  BY DEF TokensNext, tokenVars, LoadAccount, UseAsItIs, LockAccount, PlatformRotates, SaveRotation, RefreshFails,
         RotationLost, Probe, RecordProbe, RevokeToken, BlankTokens,
         ExchangeCode, SaveGrant, CallbackFails, ExpiryNears
<1>4. refused' \in BOOLEAN BY <1>3 DEF Refused, GrantsBounded
<1>5. granted' \in 1..MaxGrants BY <1>1, AccountAssumption DEF GrantsBounded
<1>6. lost' \in BOOLEAN BY <1>2 DEF GrantsBounded
<1>7. UNCHANGED callbackVars \/ ExchangeCode \/ SaveGrant \/ CallbackFails
  BY Zenon DEF TokensNext, tokenVars, callbackVars, LoadAccount, UseAsItIs, LockAccount, PlatformRotates, SaveRotation,
         RefreshFails, RotationLost, Probe, RecordProbe, RevokeToken, BlankTokens, ExpiryNears
<1>8. offers' \subseteq 1..MaxGrants /\ consent' \in 1..MaxGrants /\ standing' \in 1..MaxGrants
  <2>1. CASE UNCHANGED callbackVars BY <2>1 DEF callbackVars, GrantsBounded
  <2>2. CASE ExchangeCode
    <3>1. granted + 1 \in 1..MaxGrants BY <2>2, AccountAssumption DEF ExchangeCode, GrantsBounded
    <3>. QED BY <2>2, <3>1 DEF ExchangeCode, GrantsBounded
  <2>3. CASE SaveGrant BY <2>3 DEF SaveGrant, GrantsBounded
  <2>4. CASE CallbackFails BY <2>4 DEF CallbackFails, GrantsBounded
  <2>. QED BY <1>7, <2>1, <2>2, <2>3, <2>4
<1>. QED BY <1>4, <1>5, <1>6, <1>8 DEF GrantsBounded

-----------------------------------------------------------------------------
LEMMA QueueTypesFollow == SlotsSound => PostingQueueTypeOK
<1>. SUFFICES ASSUME SlotsSound PROVE PostingQueueTypeOK OBVIOUS
<1>1. << >> \in Plans
  <2>1. << >> \in Seq(0..LastInstant) /\ Len(<< >>) = 0 BY EmptySeq
  <2>2. << >> \in [1..Len(<< >>) -> 0..LastInstant] BY ONLY <2>1, LenProperties
  <2>3. 1..0 = {} /\ {} \in SUBSET Posts OBVIOUS
  <2>4. << >> \in [{} -> 0..LastInstant] BY <2>1, <2>2, <2>3
  <2>. QED BY <2>3, <2>4, Zenon DEF Plans
<1>2. \A c \in Clerks : clerk[c] \in ClerkRow /\ RequestSound(c) BY DEF SlotsSound
<1>3. \A c \in Clerks : /\ clerk[c].op \in QueueOps \cup {"none"} /\ clerk[c].plan \in Plans
                        /\ clerk[c].op # "none" => clerk[c].post \in Posts
  BY <1>1, <1>2 DEF ClerkRow, RequestSound
<1>. QED BY <1>3 DEF SlotsSound, PostingQueueTypeOK, ChipRow

-----------------------------------------------------------------------------
(* The retries of a first comment are bounded although a task that is run  *)
(* again may run beside its first run.                                     *)

\* The workers with a task that may go back to the queue, and those among them
\* that will count a retry.
BusyLine(line) == line.step \notin {"idle", "ending"}
EagerLine(line) == line.step \in {"loaded", "checked", "failing"} /\ line.tries < CommentRetries
Busy == {h \in Commenters : BusyLine(commenter[h])}
Eager == {h \in Commenters : EagerLine(commenter[h])}

RetriesBounded ==
    /\ asked \in {"no", "queued", "over"} /\ {hasText, alone, commentLost} \subseteq BOOLEAN
    /\ commentFaults <= MaxCommentFaults
    /\ commentTasks + Cardinality(Busy) <= 1 + commentFaults
    /\ comment.retries >= CommentRetries => comment.retries + Cardinality(Eager) <= CommentRetries + commentFaults

Yes(P) == IF P THEN 1 ELSE 0

LEMMA CommenterSets ==
    /\ IsFiniteSet(Busy) /\ IsFiniteSet(Eager) /\ IsFiniteSet(Busy') /\ IsFiniteSet(Eager')
    /\ {Cardinality(Busy), Cardinality(Eager), Cardinality(Busy'), Cardinality(Eager')} \subseteq Nat
<1>1. Busy \in SUBSET Commenters /\ Eager \in SUBSET Commenters /\ Busy' \in SUBSET Commenters /\ Eager' \in SUBSET Commenters
  BY DEF Busy, Eager
<1>. QED BY <1>1, FewerAreFewer, FirstCommentAssumption

\* What a worker's step does to the counts, and that they stay bounded.
LEMMA CommenterCounts ==
    ASSUME CommentTyped, CommentTyped', RetriesBounded, NEW h \in Commenters, NEW line \in CommenterRow,
           commenter' = [commenter EXCEPT ![h] = line],
           UNCHANGED <<asked, hasText, alone>>, commentLost' \in BOOLEAN,
           commentFaults <= commentFaults', commentFaults' <= MaxCommentFaults,
           commentTasks' + Yes(BusyLine(line)) + commentFaults <= commentTasks + Yes(BusyLine(commenter[h])) + commentFaults',
           \/ comment'.retries = comment.retries /\ (EagerLine(line) => EagerLine(commenter[h]) \/ comment.retries < CommentRetries)
           \/ comment'.retries = comment.retries + 1 /\ EagerLine(commenter[h]) /\ ~EagerLine(line)
    PROVE  RetriesBounded'
<1>1. /\ {commentTasks, commentTasks', commentFaults, commentFaults', CommentRetries, comment.retries, comment'.retries} \subseteq Nat
      /\ commenter \in [Commenters -> CommenterRow]
  BY FirstCommentAssumption DEF CommentTyped
<1>2. commenter'[h] = line /\ \A g \in Commenters \ {h} : commenter'[g] = commenter[g] BY <1>1
<1>. DEFINE B == Busy \ {h}
            E == Eager \ {h}
<1>3. /\ Busy' = IF BusyLine(line) THEN B \cup {h} ELSE B
      /\ Busy = IF BusyLine(commenter[h]) THEN B \cup {h} ELSE B
  BY <1>2 DEF Busy
<1>4. /\ Eager' = IF EagerLine(line) THEN E \cup {h} ELSE E
      /\ Eager = IF EagerLine(commenter[h]) THEN E \cup {h} ELSE E
  BY <1>2 DEF Eager
<1>5. E \in SUBSET B /\ B \in SUBSET Commenters /\ h \notin B /\ h \notin E
  BY DEF Eager, Busy, EagerLine, BusyLine
<1>6. IsFiniteSet(B) /\ IsFiniteSet(E) /\ {Cardinality(B), Cardinality(E)} \subseteq Nat /\ Cardinality(E) <= Cardinality(B)
  BY <1>5, FewerAreFewer, FirstCommentAssumption
<1>. HIDE DEF B, E
<1>7. Cardinality(B \cup {h}) = Cardinality(B) + 1 /\ Cardinality(E \cup {h}) = Cardinality(E) + 1
  BY <1>5, <1>6, FS_AddElement
<1>8. /\ Cardinality(Busy') = Cardinality(B) + Yes(BusyLine(line))
      /\ Cardinality(Busy) = Cardinality(B) + Yes(BusyLine(commenter[h]))
  BY <1>3, <1>6, <1>7 DEF Yes
<1>9. /\ Cardinality(Eager') = Cardinality(E) + Yes(EagerLine(line))
      /\ Cardinality(Eager) = Cardinality(E) + Yes(EagerLine(commenter[h]))
  BY <1>4, <1>6, <1>7 DEF Yes
<1>10. {Yes(BusyLine(line)), Yes(BusyLine(commenter[h])), Yes(EagerLine(line)), Yes(EagerLine(commenter[h]))} \subseteq {0, 1}
       /\ (EagerLine(commenter[h]) => BusyLine(commenter[h]))
  BY DEF Yes, EagerLine, BusyLine
<1>11. commentTasks' + Cardinality(Busy') <= 1 + commentFaults'
  BY <1>1, <1>6, <1>8, <1>10 DEF RetriesBounded
<1>12. ASSUME comment'.retries >= CommentRetries
       PROVE  comment'.retries + Cardinality(Eager') <= CommentRetries + commentFaults'
  <2>1. CASE comment'.retries = comment.retries /\ (EagerLine(line) => EagerLine(commenter[h]) \/ comment.retries < CommentRetries)
    <3>1. Yes(EagerLine(line)) <= Yes(EagerLine(commenter[h])) BY <1>1, <1>12, <2>1 DEF Yes
    <3>2. comment.retries + Cardinality(Eager) <= CommentRetries + commentFaults
      BY <1>1, <1>12, <2>1 DEF RetriesBounded
    <3>. QED BY <1>1, <1>6, <1>9, <1>10, <2>1, <3>1, <3>2
  <2>2. CASE comment'.retries = comment.retries + 1 /\ EagerLine(commenter[h]) /\ ~EagerLine(line)
    <3>1. Yes(EagerLine(line)) = 0 /\ Yes(EagerLine(commenter[h])) = 1 /\ Yes(BusyLine(commenter[h])) = 1
      BY <1>10, <2>2 DEF Yes
    <3>2. CASE comment.retries >= CommentRetries
      <4>1. comment.retries + Cardinality(Eager) <= CommentRetries + commentFaults BY <3>2 DEF RetriesBounded
      <4>2. Cardinality(Eager) = Cardinality(E) + 1 /\ Cardinality(Eager') = Cardinality(E) /\ comment'.retries = comment.retries + 1
        <5>1. Eager = E \cup {h} /\ Eager' = E BY <1>4, <2>2
        <5>. QED BY <1>7, <2>2, <5>1
      <4>. QED BY <1>1, <1>6, <4>1, <4>2
    <3>3. CASE ~(comment.retries >= CommentRetries)
      <4>1. Cardinality(B) <= commentFaults BY <1>1, <1>6, <1>8, <3>1 DEF RetriesBounded
      <4>. QED BY <1>1, <1>6, <1>9, <2>2, <3>1, <3>3, <4>1
    <3>. QED BY <3>2, <3>3
  <2>. QED BY <2>1, <2>2
<1>. QED BY <1>11, <1>12 DEF RetriesBounded

LEMMA RetriesBoundedStart == FirstCommentInit => RetriesBounded
<1>. SUFFICES ASSUME FirstCommentInit PROVE RetriesBounded OBVIOUS
<1>1. \A h \in Commenters : commenter[h].step = "idle" BY DEF FirstCommentInit, NotCommenting
<1>2. Busy = {} /\ Eager = {} BY <1>1 DEF Busy, Eager, BusyLine, EagerLine
<1>3. Cardinality(Busy) = 0 /\ Cardinality(Eager) = 0 BY <1>2, FS_EmptySet
<1>4. CommentRetries \in Nat /\ MaxCommentFaults \in Nat BY FirstCommentAssumption
<1>5. comment.retries = 0 /\ commentTasks = 0 /\ commentFaults = 0 /\ asked = "no" /\ {hasText, alone, commentLost} \subseteq BOOLEAN
  BY DEF FirstCommentInit
<1>. QED BY <1>3, <1>4, <1>5 DEF RetriesBounded

LEMMA RetriesBoundedMoves ==
    ASSUME CommentTyped, CommentTyped', RetriesBounded, NEW h \in Commenters, CommenterMoves(h) \/ CommenterDies(h)
    PROVE  RetriesBounded'
<1>0. /\ commenter \in [Commenters -> CommenterRow] /\ commenter[h] \in CommenterRow /\ commenter' \in [Commenters -> CommenterRow]
      /\ {commentTasks, commentTasks', commentFaults, commentFaults', CommentRetries, MaxCommentFaults,
          comment.retries, comment'.retries, commenter[h].tries} \subseteq Nat
      /\ commentFaults <= MaxCommentFaults /\ commentLost \in BOOLEAN /\ canLookUp \in BOOLEAN
      /\ comment \in [status : {"none", "pending", "posted", "failed"}, retries : Nat]
  BY FirstCommentAssumption DEF CommentTyped, CommenterRow, RetriesBounded
<1>. DEFINE line == commenter'[h]
<1>1. line \in CommenterRow BY <1>0
<1>s. ASSUME NEW step, Goes(h, step)
      PROVE  commenter' = [commenter EXCEPT ![h] = line] /\ line.step = step /\ line.tries = commenter[h].tries
  BY <1>0, <1>s DEF Goes, CommenterRow
<1>f. ASSUME NEW retry \in BOOLEAN, GoesFailing(h, retry)
      PROVE  commenter' = [commenter EXCEPT ![h] = line] /\ line.step = "failing" /\ line.tries = commenter[h].tries
  <2>1. commenter' = [commenter EXCEPT ![h] = [commenter[h] EXCEPT !.step = "failing", !.again = retry]] BY <1>f DEF GoesFailing
  <2>2. line = [commenter[h] EXCEPT !.step = "failing", !.again = retry] BY <1>0, <2>1
  <2>. QED BY <1>0, <2>1, <2>2 DEF CommenterRow
<1>3. ASSUME commenter' = [commenter EXCEPT ![h] = line], UNCHANGED <<asked, hasText, alone>>, commentLost' \in BOOLEAN,
             commentFaults <= commentFaults', commentFaults' <= MaxCommentFaults,
             commentTasks' + Yes(BusyLine(line)) + commentFaults <= commentTasks + Yes(BusyLine(commenter[h])) + commentFaults',
             \/ comment'.retries = comment.retries /\ (EagerLine(line) => EagerLine(commenter[h]) \/ comment.retries < CommentRetries)
             \/ comment'.retries = comment.retries + 1 /\ EagerLine(commenter[h]) /\ ~EagerLine(line)
      PROVE  RetriesBounded'
  BY <1>1, <1>3, CommenterCounts
<1>4. CASE TakeCommentTask(h)
  <2>1. /\ line.step \in {"ending", "loaded"} /\ line.tries = comment.retries /\ commenter' = [commenter EXCEPT ![h] = line]
        /\ commenter[h].step = "idle" /\ commentTasks' = commentTasks - 1 /\ UNCHANGED <<comment, asked, hasText, alone, commentFaults>>
        /\ commentLost' \in BOOLEAN
    BY <1>0, <1>4 DEF TakeCommentTask
  <2>2. ~BusyLine(commenter[h]) /\ (EagerLine(line) => comment.retries < CommentRetries) BY <2>1 DEF BusyLine, EagerLine
  <2>3. Yes(BusyLine(commenter[h])) = 0 /\ Yes(BusyLine(line)) \in {0, 1} BY <2>2 DEF Yes
  <2>4. commentTasks' + Yes(BusyLine(line)) + commentFaults <= commentTasks + Yes(BusyLine(commenter[h])) + commentFaults'
    BY <1>0, <2>1, <2>3
  <2>. QED BY <1>0, <1>3, <2>1, <2>2, <2>4
<1>5. CASE CannotComment(h) \/ LookUp(h) \/ PublishComment(h)
  <2>1. /\ commenter[h].step \in {"loaded", "checked"} /\ line.step \in {"failing", "checked", "landed"} /\ line.tries = commenter[h].tries
        /\ commenter' = [commenter EXCEPT ![h] = line]
    <3>1. commenter[h].step \in {"loaded", "checked"} BY <1>5 DEF CannotComment, LookUp, PublishComment
    <3>2. (\E retry \in BOOLEAN : GoesFailing(h, retry)) \/ (\E step \in {"checked", "landed"} : Goes(h, step))
      <4>1. CASE CannotComment(h) BY <4>1 DEF CannotComment
      <4>2. CASE LookUp(h)
        <5>1. GoesFailing(h, TRUE) \/ Goes(h, IF comments > 0 THEN "landed" ELSE "checked") \/ Goes(h, "checked")
          BY <4>2, Zenon DEF LookUp
        <5>. QED BY <5>1
      <4>3. CASE PublishComment(h)
        <5>1. Goes(h, "landed") \/ GoesFailing(h, canLookUp) \/ GoesFailing(h, TRUE) \/ GoesFailing(h, FALSE)
          BY <4>3, Zenon DEF PublishComment, RetryableUnknown
        <5>. QED BY <1>0, <5>1
      <4>. QED BY <1>5, <4>1, <4>2, <4>3
    <3>. QED BY <1>s, <1>f, <3>1, <3>2
  <2>2. UNCHANGED <<comment, asked, hasText, alone, commentFaults, commentLost, commentTasks>>
    BY <1>5 DEF CannotComment, LookUp, PublishComment
  <2>3. BusyLine(commenter[h]) /\ BusyLine(line) /\ (EagerLine(line) => EagerLine(commenter[h])) BY <2>1 DEF BusyLine, EagerLine
  <2>4. commentTasks' + Yes(BusyLine(line)) + commentFaults <= commentTasks + Yes(BusyLine(commenter[h])) + commentFaults'
    BY <1>0, <2>2, <2>3 DEF Yes
  <2>. QED BY <1>0, <1>3, <2>1, <2>2, <2>3, <2>4
<1>6. CASE MarkCommentPosted(h)
  <2>1. /\ commenter[h].step = "landed" /\ line.step = "ending" /\ commenter' = [commenter EXCEPT ![h] = line]
        /\ comment'.retries = comment.retries
    BY <1>0, <1>6 DEF MarkCommentPosted, Goes
  <2>5. UNCHANGED <<asked, hasText, alone, commentTasks>>
        /\ \/ UNCHANGED <<commentFaults, commentLost>>
           \/ commentFaults < MaxCommentFaults /\ commentFaults' = commentFaults + 1 /\ commentLost' = TRUE
    BY <1>6 DEF MarkCommentPosted
  <2>2. UNCHANGED <<asked, hasText, alone, commentTasks>> /\ commentLost' \in BOOLEAN
        /\ commentFaults <= commentFaults' /\ commentFaults' <= MaxCommentFaults
    <3>1. commentLost' \in BOOLEAN BY <1>0, <2>5
    <3>2. commentFaults' \in {commentFaults, commentFaults + 1} /\ commentFaults' <= MaxCommentFaults BY <1>0, <2>5
    <3>. QED BY <1>0, <2>5, <3>1, <3>2
  <2>3. ~BusyLine(line) /\ ~EagerLine(line) /\ Yes(BusyLine(line)) = 0 /\ Yes(BusyLine(commenter[h])) \in {0, 1}
    BY <2>1 DEF BusyLine, EagerLine, Yes
  <2>4. commentTasks' + Yes(BusyLine(line)) + commentFaults <= commentTasks + Yes(BusyLine(commenter[h])) + commentFaults'
    BY <1>0, <2>2, <2>3
  <2>. QED BY <1>0, <1>3, <2>1, <2>2, <2>3, <2>4
<1>7. CASE RecordCommentFailure(h)
  <2>1. UNCHANGED <<asked, hasText, alone, commentTasks, commentFaults, commentLost>> /\ commenter[h].step = "failing"
    BY <1>7 DEF RecordCommentFailure
  <2>2. \/ /\ comment'.retries = comment.retries + 1 /\ line.step = "requeue" /\ commenter' = [commenter EXCEPT ![h] = line]
           /\ commenter[h].tries < CommentRetries
        \/ comment'.retries = comment.retries /\ line.step = "ending" /\ commenter' = [commenter EXCEPT ![h] = line]
    <3>1. CASE commenter[h].again /\ ~Exhausted(h)
      <4>1. comment' = [status |-> "pending", retries |-> comment.retries + 1] /\ Goes(h, "requeue")
        BY <1>7, <3>1 DEF RecordCommentFailure
      <4>2. commenter[h].tries < CommentRetries BY <1>0, <3>1 DEF Exhausted
      <4>3. comment'.retries = comment.retries + 1 BY <4>1
      <4>. QED BY <1>s, <4>1, <4>2, <4>3
    <3>2. CASE ~(commenter[h].again /\ ~Exhausted(h))
      <4>1. comment' = [comment EXCEPT !.status = "failed"] /\ Goes(h, "ending") BY <1>7, <3>2 DEF RecordCommentFailure
      <4>2. comment'.retries = comment.retries BY <1>0, <4>1
      <4>. QED BY <1>s, <4>1, <4>2
    <3>. QED BY <3>1, <3>2
  <2>3. BusyLine(commenter[h]) /\ ~EagerLine(line) /\ (commenter[h].tries < CommentRetries => EagerLine(commenter[h]))
    BY <2>1, <2>2 DEF BusyLine, EagerLine
  <2>4. commentTasks' + Yes(BusyLine(line)) + commentFaults <= commentTasks + Yes(BusyLine(commenter[h])) + commentFaults'
    BY <1>0, <2>1, <2>3 DEF Yes
  <2>. QED BY <1>0, <1>3, <2>1, <2>2, <2>3, <2>4
<1>8. CASE RequeueComment(h)
  <2>1. /\ commenter[h].step = "requeue" /\ line.step = "ending" /\ commenter' = [commenter EXCEPT ![h] = line]
        /\ commentTasks' = commentTasks + 1 /\ UNCHANGED <<comment, asked, hasText, alone, commentFaults, commentLost>>
    BY <1>0, <1>8 DEF RequeueComment, Goes
  <2>2. BusyLine(commenter[h]) /\ ~BusyLine(line) /\ ~EagerLine(line) BY <2>1 DEF BusyLine, EagerLine
  <2>3. commentTasks' + Yes(BusyLine(line)) + commentFaults <= commentTasks + Yes(BusyLine(commenter[h])) + commentFaults'
    BY <1>0, <2>1, <2>2 DEF Yes
  <2>. QED BY <1>0, <1>3, <2>1, <2>2, <2>3
<1>9. CASE CommentTaskEnds(h)
  <2>1. /\ commenter[h].step = "ending" /\ line.step = "idle" /\ commenter' = [commenter EXCEPT ![h] = line]
        /\ UNCHANGED <<comment, asked, hasText, alone, commentTasks, commentFaults, commentLost>>
    BY <1>0, <1>9 DEF CommentTaskEnds, NotCommenting
  <2>2. ~BusyLine(commenter[h]) /\ ~BusyLine(line) /\ ~EagerLine(line) BY <2>1 DEF BusyLine, EagerLine
  <2>3. commentTasks' + Yes(BusyLine(line)) + commentFaults <= commentTasks + Yes(BusyLine(commenter[h])) + commentFaults'
    BY <1>0, <2>1, <2>2 DEF Yes
  <2>. QED BY <1>0, <1>3, <2>1, <2>2, <2>3
<1>10. CASE CommenterDies(h)
  <2>1. /\ line.step = "idle" /\ commenter' = [commenter EXCEPT ![h] = line]
        /\ commentTasks' = commentTasks + 1 /\ commentFaults' = commentFaults + 1 /\ commentFaults < MaxCommentFaults
        /\ UNCHANGED <<comment, asked, hasText, alone, commentLost>>
    BY <1>0, <1>10 DEF CommenterDies, NotCommenting
  <2>2. ~BusyLine(line) /\ ~EagerLine(line) BY <2>1 DEF BusyLine, EagerLine
  <2>3. Yes(BusyLine(line)) = 0 /\ Yes(BusyLine(commenter[h])) \in {0, 1} BY <2>2 DEF Yes
  <2>4. commentTasks' + Yes(BusyLine(line)) + commentFaults <= commentTasks + Yes(BusyLine(commenter[h])) + commentFaults'
    BY <1>0, <2>1, <2>3
  <2>. QED BY <1>0, <1>3, <2>1, <2>2, <2>4
<1>. QED BY <1>4, <1>5, <1>6, <1>7, <1>8, <1>9, <1>10 DEF CommenterMoves

LEMMA RetriesBoundedStep ==
    CommentsCounted /\ CommentsCounted' /\ RetriesBounded /\ [FirstCommentNext]_commentVars => RetriesBounded'
<1>. SUFFICES ASSUME CommentsCounted, CommentsCounted', RetriesBounded, [FirstCommentNext]_commentVars PROVE RetriesBounded' OBVIOUS
<1>0. /\ CommentTyped /\ CommentTyped' /\ {commentTasks, commentFaults, MaxCommentFaults, CommentRetries} \subseteq Nat
      /\ {Cardinality(Busy), Cardinality(Eager), Cardinality(Busy'), Cardinality(Eager')} \subseteq Nat
      /\ comment \in [status : {"none", "pending", "posted", "failed"}, retries : Nat]
  BY CommenterSets, FirstCommentAssumption DEF CommentsCounted, CommentTyped
<1>1. commenter' = commenter => Busy' = Busy /\ Eager' = Eager BY DEF Busy, Eager
<1>2. CASE AskForComment
  <2>1. /\ commentTasks' = commentTasks + 1 /\ commentTasks = 0 /\ asked' = "queued" /\ \A h \in Commenters : commenter[h].step = "idle"
        /\ UNCHANGED <<comment, commenter, hasText, alone, commentFaults, commentLost>>
    BY <1>2 DEF AskForComment, CommentsCounted
  <2>2. Busy = {} BY <2>1 DEF Busy, BusyLine
  <2>3. Cardinality(Busy) = 0 BY <2>2, FS_EmptySet
  <2>. QED BY <1>0, <1>1, <2>1, <2>3 DEF RetriesBounded
<1>3. CASE MarkPending \/ AskerDies \/ RemoveText
  <2>1. /\ commenter' = commenter /\ commentTasks' = commentTasks /\ comment'.retries = comment.retries
        /\ asked' \in {asked, "over"} /\ {hasText', alone', commentLost'} \subseteq BOOLEAN
    BY <1>0, <1>3 DEF MarkPending, AskerDies, RemoveText, RetriesBounded
  <2>2. commentFaults' = commentFaults \/ (commentFaults < MaxCommentFaults /\ commentFaults' = commentFaults + 1)
    BY <1>3 DEF MarkPending, AskerDies, RemoveText
  <2>. QED BY <1>0, <1>1, <2>1, <2>2 DEF RetriesBounded
<1>4. CASE \E h \in Commenters : CommenterMoves(h) \/ CommenterDies(h) BY <1>0, <1>4, RetriesBoundedMoves
<1>5. CASE UNCHANGED commentVars BY <1>1, <1>5 DEF commentVars, RetriesBounded
<1>. QED BY <1>2, <1>3, <1>4, <1>5 DEF FirstCommentNext

LEMMA CommentTypesFollow == CommentsCounted /\ RetriesBounded => FirstCommentTypeOK
<1>. SUFFICES ASSUME CommentsCounted, RetriesBounded PROVE FirstCommentTypeOK OBVIOUS
<1>1. comment.retries \in 0..CommentRetries + MaxCommentFaults
  <2>1. {comment.retries, Cardinality(Eager), CommentRetries, MaxCommentFaults, commentFaults} \subseteq Nat
    BY CommenterSets, FirstCommentAssumption DEF CommentsCounted, CommentTyped
  <2>. QED BY <2>1 DEF RetriesBounded
<1>2. comment \in [status : {"none", "pending", "posted", "failed"}, retries : 0..CommentRetries + MaxCommentFaults]
  BY <1>1 DEF CommentsCounted, CommentTyped
<1>3. commentFaults \in 0..MaxCommentFaults BY FirstCommentAssumption DEF CommentsCounted, CommentTyped, RetriesBounded
<1>. QED BY <1>2, <1>3 DEF CommentsCounted, CommentTyped, RetriesBounded, FirstCommentTypeOK, CommenterRow

-----------------------------------------------------------------------------
Dispatching == {"due", "dispatching", "dispatched", "undispatched", "dropped"}

\* A delivery that is dispatched where it was made is tried as often as the limit
\* says, also when several processes have a copy of its row.
AttemptsBounded ==
    /\ wanted \in BOOLEAN /\ mailerDeaths \in 0..MaxMailerDeaths
    /\ \A d \in Deliveries \ Batched :
          delivery[d].attempts <= MailAttempts /\ (delivery[d].status = "new" => delivery[d].attempts = 0)
    /\ \A m \in Mailers : mailer[m].does \in Dispatching =>
          /\ mailer[m].attempts <= MailAttempts /\ (mailer[m].does = "due" => mailer[m].attempts < MailAttempts)
          /\ delivery[mailer[m].row].status # "new"

LEMMA AttemptsBoundedStart == EmailDigestInit => AttemptsBounded
<1>. SUFFICES ASSUME EmailDigestInit PROVE AttemptsBounded OBVIOUS
<1>1. 0 \in 0..MaxMailerDeaths /\ 0 <= MailAttempts BY EmailDigestAssumption
<1>2. \A m \in Mailers : mailer[m].does \notin Dispatching BY DEF EmailDigestInit, Waiting, Dispatching
<1>. QED BY <1>1, <1>2 DEF EmailDigestInit, AttemptsBounded

\* The sweep's steps leave the other deliveries alone.
LEMMA OthersKept ==
    ASSUME MailTyped, AttemptsBounded, mailerDeaths' \in 0..MaxMailerDeaths, wanted' \in BOOLEAN,
           \A d \in Deliveries \ Batched : delivery'[d].attempts = delivery[d].attempts /\ delivery'[d].status = delivery[d].status,
           \A m \in Mailers : mailer'[m] = mailer[m] \/ mailer'[m].does \notin Dispatching
    PROVE  AttemptsBounded'
<1>1. ASSUME NEW m \in Mailers, mailer[m].does \in Dispatching PROVE mailer[m].row \in Deliveries \ Batched
  BY <1>1 DEF MailTyped, MailerRow, SweeperRow, DispatcherRow, Waiting, Dispatching
<1>2. \A m \in Mailers : mailer'[m].does \in Dispatching => mailer'[m] = mailer[m] OBVIOUS
<1>. QED BY <1>1, <1>2 DEF AttemptsBounded

LEMMA AttemptsBoundedQueue ==
    ASSUME MailTyped, AttemptsBounded, QueueNext
    PROVE  AttemptsBounded'
<1>0. /\ delivery \in [Deliveries -> DeliveryRow] /\ mailer \in [Mailers -> MailerRow]
      /\ mailerDeaths \in 0..MaxMailerDeaths /\ wanted \in BOOLEAN /\ Batched \subseteq Deliveries /\ MaxMailerDeaths \in Nat
  BY EmailDigestAssumption DEF MailTyped, AttemptsBounded
<1>1. Waiting.does \notin Dispatching BY DEF Waiting, Dispatching
<1>2. \A m \in Mailers : mailer[m].does \in {"picked", "claimed", "sent", "unsent", "refused"} => mailer[m].rows \subseteq Batched
  BY <1>0 DEF MailerRow, SweeperRow, DispatcherRow, Waiting
<1>3. CASE \E d \in Deliveries : QueueEmail(d)
  <2>1. PICK d \in Batched : delivery' = [delivery EXCEPT ![d].status = "pending"] /\ UNCHANGED <<mailer, wanted, mailerDeaths>>
    BY <1>3 DEF QueueEmail
  <2>. QED BY <1>0, <2>1, OthersKept
<1>4. CASE \E d \in Deliveries : ClaimExpires(d)
  <2>1. PICK d \in Deliveries : delivery' = [delivery EXCEPT ![d].claim = "stale"] /\ UNCHANGED <<mailer, wanted, mailerDeaths>>
    BY <1>4 DEF ClaimExpires
  <2>2. \A e \in Deliveries : delivery'[e].attempts = delivery[e].attempts /\ delivery'[e].status = delivery[e].status
    BY <1>0, <2>1 DEF DeliveryRow
  <2>. QED BY <1>0, <2>1, <2>2, OthersKept
<1>5. CASE TurnOffEmail
  <2>1. UNCHANGED <<delivery, mailer, mailerDeaths>> /\ wanted' \in BOOLEAN BY <1>5 DEF TurnOffEmail
  <2>. QED BY <1>0, <2>1, OthersKept
<1>6. ASSUME NEW m \in Mailers, PickRows(m) PROVE AttemptsBounded'
  <2>1. PICK rows : mailer' = [mailer EXCEPT ![m] = [does |-> "picked", rows |-> rows]]
    BY <1>6 DEF PickRows
  <2>2. UNCHANGED <<delivery, wanted, mailerDeaths>> BY <1>6 DEF PickRows
  <2>. QED BY <1>0, <2>1, <2>2, OthersKept DEF Dispatching
<1>7. ASSUME NEW m \in Mailers, ClaimRows(m) PROVE AttemptsBounded'
  <2>1. mailer[m].rows \subseteq Batched /\ UNCHANGED <<wanted, mailerDeaths>> BY <1>2, <1>7 DEF ClaimRows
  <2>2. \A d \in Deliveries \ Batched : delivery'[d] = delivery[d]
    BY <1>7, <2>1 DEF ClaimRows
  <2>3. \A k \in Mailers : mailer'[k] = mailer[k] \/ mailer'[k].does \notin Dispatching
    BY <1>0, <1>1, <1>7 DEF ClaimRows, Dispatching
  <2>. QED BY <1>0, <2>1, <2>2, <2>3, OthersKept
<1>8. ASSUME NEW m \in Mailers, MailDigest(m) PROVE AttemptsBounded'
  <2>1. PICK outcome \in {"sent", "unsent", "refused"} : mailer' = [mailer EXCEPT ![m].does = outcome]
    BY <1>8 DEF MailDigest
  <2>2. UNCHANGED <<delivery, wanted, mailerDeaths>> BY <1>8 DEF MailDigest
  <2>3. mailer[m].does = "claimed" BY <1>8 DEF MailDigest
  <2>4. mailer[m] \in SweeperRow BY <1>0, <2>3 DEF MailerRow, Waiting, DispatcherRow
  <2>5. mailer'[m].does = outcome /\ \A k \in Mailers \ {m} : mailer'[k] = mailer[k] BY <1>0, <2>1, <2>4 DEF SweeperRow
  <2>. QED BY <1>0, <2>2, <2>5, OthersKept DEF Dispatching
<1>9. ASSUME NEW m \in Mailers, SettleDigest(m) PROVE AttemptsBounded'
  <2>1. mailer[m].rows \subseteq Batched /\ UNCHANGED <<wanted, mailerDeaths>> /\ mailer' = [mailer EXCEPT ![m] = Waiting]
    BY <1>2, <1>9 DEF SettleDigest
  <2>2. \A d \in Deliveries \ Batched : delivery'[d] = delivery[d]
    <3>. DEFINE rows == mailer[m].rows
               released == [d \in Deliveries |-> IF d \in rows THEN [delivery[d] EXCEPT !.claim = NoClaim] ELSE delivery[d]]
    <3>1. \/ delivery' = Settled(rows, "delivered")
          \/ delivery' = [d \in Deliveries |-> IF d \in rows THEN [released[d] EXCEPT !.status = "failed"] ELSE delivery[d]]
          \/ delivery' = Reaped(released)
      BY <1>9, Zenon DEF SettleDigest
    <3>2. \A d \in Deliveries \ Batched : d \notin rows /\ released[d] = delivery[d] BY <2>1
    <3>. HIDE DEF released, rows
    <3>. QED BY <3>1, <3>2 DEF Settled, Reaped
  <2>. QED BY <1>0, <1>1, <2>1, <2>2, OthersKept
<1>10. ASSUME NEW m \in Mailers, ReapExhausted(m) PROVE AttemptsBounded'
  <2>1. UNCHANGED <<mailer, wanted, mailerDeaths>> /\ \A d \in Deliveries \ Batched : delivery'[d] = delivery[d]
    BY <1>10 DEF ReapExhausted, Reaped
  <2>. QED BY <1>0, <2>1, OthersKept
<1>11. ASSUME NEW m \in Mailers, MailerDies(m) PROVE AttemptsBounded'
  <2>1. UNCHANGED <<delivery, wanted>> /\ mailer' = [mailer EXCEPT ![m] = Waiting] /\ mailerDeaths' \in 0..MaxMailerDeaths
    BY <1>0, <1>11 DEF MailerDies
  <2>. QED BY <1>0, <1>1, <2>1, OthersKept
<1>. QED BY <1>3, <1>4, <1>5, <1>6, <1>7, <1>8, <1>9, <1>10, <1>11 DEF QueueNext, SweeperMoves

LEMMA AttemptsBoundedDispatch ==
    ASSUME MailTyped, AttemptsBounded, DispatchNext
    PROVE  AttemptsBounded'
<1>0. /\ delivery \in [Deliveries -> DeliveryRow] /\ mailer \in [Mailers -> MailerRow]
      /\ mailerDeaths \in 0..MaxMailerDeaths /\ wanted \in BOOLEAN /\ MaxMailerDeaths \in Nat /\ MailAttempts \in Nat \ {0}
  BY EmailDigestAssumption DEF MailTyped, AttemptsBounded
<1>1. Waiting.does \notin Dispatching BY DEF Waiting, Dispatching
<1>2. ASSUME NEW m \in Mailers, mailer[m].does \in Dispatching
      PROVE  /\ mailer[m] \in DispatcherRow /\ mailer[m].row \in Deliveries \ Batched /\ mailer[m].attempts \in Nat
             /\ mailer[m].attempts <= MailAttempts
  BY <1>0, <1>2 DEF MailerRow, SweeperRow, DispatcherRow, Waiting, Dispatching, AttemptsBounded
<1>3. CASE \E d \in Deliveries : RetryFallsDue(d)
  <2>1. PICK d \in Deliveries : delivery' = [delivery EXCEPT ![d].retry = "past"] /\ UNCHANGED <<mailer, wanted, mailerDeaths>>
    BY <1>3 DEF RetryFallsDue
  <2>2. \A e \in Deliveries : delivery'[e].attempts = delivery[e].attempts /\ delivery'[e].status = delivery[e].status
    BY <1>0, <2>1 DEF DeliveryRow
  <2>. QED BY <1>0, <2>1, <2>2, OthersKept
<1>4. ASSUME NEW m \in Mailers, NEW d \in Deliveries, PickOne(m, d) PROVE AttemptsBounded'
  <2>1. /\ d \in Deliveries \ Batched /\ delivery' = [delivery EXCEPT ![d].status = "pending"]
        /\ mailer' = [mailer EXCEPT ![m] = [does |-> "due", row |-> d, attempts |-> delivery[d].attempts]]
        /\ UNCHANGED <<wanted, mailerDeaths>>
        /\ delivery[d].status = "new" \/ delivery[d].attempts < MailAttempts
    BY <1>4 DEF PickOne
  <2>2. delivery[d].attempts \in Nat /\ delivery[d].attempts < MailAttempts /\ delivery[d].attempts <= MailAttempts
    BY <1>0, <2>1 DEF AttemptsBounded, DeliveryRow
  <2>3. \A e \in Deliveries \ Batched :
           delivery'[e].attempts = delivery[e].attempts /\ (delivery'[e].status = "new" => delivery[e].status = "new")
    BY <1>0, <2>1 DEF DeliveryRow
  <2>4. /\ mailer'[m].attempts = delivery[d].attempts /\ mailer'[m].row = d
        /\ \A k \in Mailers \ {m} : mailer'[k] = mailer[k]
    BY <1>0, <2>1
  <2>5. delivery'[d].status # "new" /\ \A e \in Deliveries : delivery[e].status # "new" => delivery'[e].status # "new"
    BY <1>0, <2>1 DEF DeliveryRow
  <2>6. ASSUME NEW k \in Mailers, mailer'[k].does \in Dispatching
        PROVE  /\ mailer'[k].attempts <= MailAttempts /\ (mailer'[k].does = "due" => mailer'[k].attempts < MailAttempts)
               /\ delivery'[mailer'[k].row].status # "new"
    <3>1. CASE k = m BY <2>2, <2>4, <2>5, <3>1
    <3>2. CASE k # m
      <4>1. mailer'[k] = mailer[k] /\ mailer[k].row \in Deliveries BY <1>2, <2>4, <2>6, <3>2
      <4>. QED BY <2>5, <2>6, <4>1 DEF AttemptsBounded
    <3>. QED BY <3>1, <3>2
  <2>. QED BY <2>1, <2>3, <2>6 DEF AttemptsBounded
<1>5. ASSUME NEW m \in Mailers, Dispatch(m) PROVE AttemptsBounded'
  <2>. DEFINE d == mailer[m].row
             n == mailer[m].attempts + 1
  <2>1. mailer[m].does = "due" /\ UNCHANGED <<wanted, mailerDeaths>> BY <1>5 DEF Dispatch
  <2>2. mailer[m].does \in Dispatching BY <2>1 DEF Dispatching
  <2>3. mailer[m].attempts < MailAttempts /\ mailer[m].attempts \in Nat /\ d \in Deliveries \ Batched
    BY <1>2, <2>1, <2>2 DEF AttemptsBounded
  <2>4. n \in Nat /\ n <= MailAttempts BY <1>0, <2>3
  <2>5. delivery' = [delivery EXCEPT ![d].attempts = n]
        /\ mailer' = [mailer EXCEPT ![m] = [mailer[m] EXCEPT !.does = "dispatching", !.attempts = n]]
    BY <1>5 DEF Dispatch
  <2>6. mailer[m] \in DispatcherRow BY <1>2, <2>2
  <2>. HIDE DEF n, d
  <2>7. mailer'[m] = [mailer[m] EXCEPT !.does = "dispatching", !.attempts = n] /\ \A k \in Mailers \ {m} : mailer'[k] = mailer[k]
    BY <1>0, <2>5
  <2>8. mailer'[m].does = "dispatching" /\ mailer'[m].attempts = n /\ mailer'[m].row = mailer[m].row
    BY <2>6, <2>7 DEF DispatcherRow
  <2>9. \A e \in Deliveries \ Batched :
           /\ delivery'[e].attempts = (IF e = d THEN n ELSE delivery[e].attempts)
           /\ delivery'[e].status = delivery[e].status
    BY <1>0, <2>3, <2>5 DEF DeliveryRow
  <2>10. ASSUME NEW e \in Deliveries \ Batched
         PROVE  delivery'[e].attempts <= MailAttempts /\ (delivery'[e].status = "new" => delivery'[e].attempts = 0)
    <3>1. CASE e # d BY <2>9, <3>1 DEF AttemptsBounded
    <3>2. CASE e = d
      <4>1. delivery[d].status # "new" BY <2>2 DEF AttemptsBounded, d
      <4>. QED BY <2>4, <2>9, <3>2, <4>1
    <3>. QED BY <3>1, <3>2
  <2>11. \A k \in Mailers : mailer'[k].does \in Dispatching =>
            /\ mailer'[k].attempts <= MailAttempts /\ (mailer'[k].does = "due" => mailer'[k].attempts < MailAttempts)
            /\ delivery'[mailer'[k].row].status # "new"
    <3>1. \A k \in Mailers : mailer'[k].row = mailer[k].row /\ (mailer'[k].does \in Dispatching => mailer[k].does \in Dispatching)
      BY <2>2, <2>7, <2>8
    <3>2. \A k \in Mailers : mailer[k].does \in Dispatching => delivery'[mailer[k].row].status # "new"
      BY <1>2, <2>9 DEF AttemptsBounded
    <3>. QED BY <2>4, <2>7, <2>8, <3>1, <3>2 DEF AttemptsBounded
  <2>. QED BY <2>1, <2>10, <2>11 DEF AttemptsBounded
<1>6. ASSUME NEW m \in Mailers, MailOne(m) PROVE AttemptsBounded'
  <2>1. PICK outcome \in {"dispatched", "undispatched", "dropped"} : mailer' = [mailer EXCEPT ![m].does = outcome]
    BY <1>6 DEF MailOne
  <2>2. UNCHANGED <<delivery, wanted, mailerDeaths>> /\ mailer[m].does = "dispatching" BY <1>6 DEF MailOne
  <2>3. mailer[m] \in DispatcherRow /\ mailer[m].attempts <= MailAttempts BY <1>2, <2>2 DEF Dispatching
  <2>4. mailer'[m].does = outcome /\ mailer'[m].attempts = mailer[m].attempts /\ mailer'[m].row = mailer[m].row /\ \A k \in Mailers \ {m} : mailer'[k] = mailer[k]
    BY <1>0, <2>1, <2>3 DEF DispatcherRow
  <2>5. delivery[mailer[m].row].status # "new" BY <2>2 DEF AttemptsBounded, Dispatching
  <2>. QED BY <2>2, <2>3, <2>4, <2>5 DEF AttemptsBounded
<1>7. ASSUME NEW m \in Mailers, DispatchEnds(m) PROVE AttemptsBounded'
  <2>1. mailer[m].does \in Dispatching /\ mailer' = [mailer EXCEPT ![m] = Waiting] /\ UNCHANGED <<wanted, mailerDeaths>>
    BY <1>7 DEF DispatchEnds, Dispatching
  <2>2. mailer[m].row \in Deliveries \ Batched BY <1>2, <2>1
  <2>3. PICK entry : delivery' = [delivery EXCEPT ![mailer[m].row] = entry] /\
            entry \in {[delivery[mailer[m].row] EXCEPT !.status = "delivered"], [delivery[mailer[m].row] EXCEPT !.status = "failed"],
                       [delivery[mailer[m].row] EXCEPT !.status = "pending", !.retry = "ahead"]}
    BY <1>7 DEF DispatchEnds
  <2>4. entry.attempts = delivery[mailer[m].row].attempts /\ entry.status # "new"
    BY <1>0, <2>2, <2>3 DEF DeliveryRow
  <2>5. \A e \in Deliveries \ Batched :
           delivery'[e].attempts = delivery[e].attempts /\ (delivery'[e].status = "new" => delivery[e].status = "new")
    BY <1>0, <2>2, <2>3, <2>4
  <2>6. \A k \in Mailers : mailer'[k] = mailer[k] \/ mailer'[k].does \notin Dispatching BY <1>0, <1>1, <2>1
  <2>7. \A k \in Mailers : mailer[k].does \in Dispatching => mailer[k].row \in Deliveries \ Batched BY <1>2
  <2>. QED BY <2>1, <2>5, <2>6, <2>7 DEF AttemptsBounded
<1>8. ASSUME NEW m \in Mailers, MailerDies(m) PROVE AttemptsBounded'
  <2>1. UNCHANGED <<delivery, wanted>> /\ mailer' = [mailer EXCEPT ![m] = Waiting] /\ mailerDeaths' \in 0..MaxMailerDeaths
    BY <1>0, <1>8 DEF MailerDies
  <2>. QED BY <1>0, <1>1, <2>1, OthersKept
<1>. QED BY <1>3, <1>4, <1>5, <1>6, <1>7, <1>8 DEF DispatchNext, DispatcherMoves

LEMMA AttemptsBoundedStep == MailCounted /\ AttemptsBounded /\ [QueueNext \/ DispatchNext]_mailVars => AttemptsBounded'
<1>. SUFFICES ASSUME MailCounted, AttemptsBounded, [QueueNext \/ DispatchNext]_mailVars PROVE AttemptsBounded' OBVIOUS
<1>1. MailTyped BY DEF MailCounted
<1>2. CASE UNCHANGED mailVars BY <1>2 DEF mailVars, AttemptsBounded
<1>. QED BY <1>1, <1>2, AttemptsBoundedQueue, AttemptsBoundedDispatch

LEMMA MailTypesFollow == MailCounted /\ AttemptsBounded => EmailDigestTypeOK
<1>. SUFFICES ASSUME MailCounted, AttemptsBounded PROVE EmailDigestTypeOK OBVIOUS
<1>1. MailTyped /\ MailAttempts \in Nat /\ Cardinality(Mailers) \in Nat
  BY EmailDigestAssumption, FS_CardinalityType DEF MailCounted
<1>2. ASSUME NEW d \in Deliveries PROVE delivery[d].attempts \in 0..MailAttempts + Cardinality(Mailers)
  <2>1. delivery[d].attempts \in Nat BY <1>1 DEF MailTyped, DeliveryRow
  <2>2. CASE d \in Batched
    <3>1. RowBounded(d) /\ Cardinality(Having("picked", d)) \in Nat BY <2>2, HavingCounts DEF MailCounted
    <3>. QED BY <1>1, <2>1, <3>1 DEF RowBounded
  <2>3. CASE d \notin Batched BY <1>1, <2>1, <2>3 DEF AttemptsBounded
  <2>. QED BY <2>2, <2>3
<1>3. delivery \in [Deliveries -> [status : {"new", "pending", "delivered", "failed"},
                                    attempts : 0..MailAttempts + Cardinality(Mailers),
                                    claim : {NoClaim, "fresh", "stale"},
                                    retry : {"none", "ahead", "past"}]]
  BY <1>1, <1>2 DEF MailTyped, DeliveryRow
<1>4. ASSUME NEW m \in Mailers
      PROVE  \/ mailer[m] = Waiting
             \/ mailer[m].does \in {"picked", "claimed", "sent", "unsent", "refused"} /\ mailer[m].rows \subseteq Batched
             \/ /\ mailer[m].does \in {"due", "dispatching", "dispatched", "undispatched", "dropped"}
                /\ mailer[m].row \in Deliveries \ Batched /\ mailer[m].attempts \in 0..MailAttempts
  <2>1. mailer[m] \in {Waiting} \cup SweeperRow \cup DispatcherRow BY <1>1 DEF MailTyped, MailerRow
  <2>2. CASE mailer[m] \in SweeperRow BY <2>2 DEF SweeperRow
  <2>3. CASE mailer[m] \in DispatcherRow
    <3>1. mailer[m].does \in Dispatching /\ mailer[m].attempts \in Nat BY <2>3 DEF DispatcherRow, Dispatching
    <3>2. mailer[m].attempts \in 0..MailAttempts BY <1>1, <3>1 DEF AttemptsBounded
    <3>. QED BY <2>3, <3>2 DEF DispatcherRow
  <2>. QED BY <2>1, <2>2, <2>3
<1>. QED BY <1>1, <1>3, <1>4 DEF MailTyped, AttemptsBounded, EmailDigestTypeOK

-----------------------------------------------------------------------------
Files == 1..LastFile
Named == {NoFile} \cup Files

\* Every file that is named has been written.
FilesBounded ==
    /\ media.file \in Files /\ written \in Files /\ files \subseteq Files /\ version \in [Versions -> Named]
    /\ \A n \in Versions : task[n].source \in Named /\ task[n].shown \in Named

CallsBounded ==
    /\ space \in 1..2 /\ uploadSweep \in {"idle", "listed", "emptied"}
    /\ finalizer \in [Finalizers -> {"idle", "looked", "inspected"}]
    /\ assets > 0 => Finalizers # {}

LEMMA FilesBoundedStart == MediaInit => FilesBounded /\ CallsBounded
<1>. SUFFICES ASSUME MediaInit PROVE FilesBounded /\ CallsBounded OBVIOUS
<1>1. Original \in Files /\ NoFile \in Named BY MediaAssumption DEF Original, NoFile, Named, Files
<1>2. NoTask.source = NoFile /\ NoTask.shown = NoFile BY DEF NoTask
<1>3. FilesBounded BY <1>1, <1>2 DEF MediaInit, FilesBounded
<1>4. ~(assets > 0) BY DEF MediaInit
<1>5. CallsBounded BY <1>4 DEF MediaInit, CallsBounded
<1>. QED BY <1>3, <1>5

LEMMA FilesBoundedStep ==
    ASSUME VersionShape, FilesBounded, VersionsNext
    PROVE  FilesBounded'
<1>0. /\ Named \subseteq Nat /\ Files \subseteq Named /\ NoFile \in Named
      /\ media.file \in Files /\ written \in Files /\ files \subseteq Files /\ version \in [Versions -> Named]
      /\ \A n \in Versions : task[n].source \in Named /\ task[n].shown \in Named
      /\ task \in [Versions -> TaskRow]
  BY MediaAssumption DEF Named, Files, NoFile, FilesBounded, VersionShape
<1>1. /\ NoTask.source \in Named /\ NoTask.shown \in Named
      /\ [NoTask EXCEPT !.step = "queued"].source \in Named /\ [NoTask EXCEPT !.step = "queued"].shown \in Named
  BY <1>0 DEF NoTask
<1>2. ASSUME NEW n \in Versions, NEW line, task' = [task EXCEPT ![n] = line], line.source \in Named, line.shown \in Named
      PROVE  \A k \in Versions : task'[k].source \in Named /\ task'[k].shown \in Named
  BY <1>0, <1>2
<1>3. CASE RequestEdit
  <2>1. PICK n \in Versions :
           /\ media' = [media EXCEPT !.current = n] /\ version' = [EditedFrom EXCEPT ![n] = media.file]
           /\ task' = [task EXCEPT ![n] = [NoTask EXCEPT !.step = "queued"]] /\ UNCHANGED <<files, written>>
    BY <1>3, RequestFacts
  <2>2. EditedFrom \in [Versions -> Named]
    BY <1>0 DEF EditedFrom
  <2>3. version' \in [Versions -> Named] BY <1>0, <2>1, <2>2
  <2>4. media'.file = media.file BY <2>1 DEF VersionShape
  <2>. QED BY <1>0, <1>1, <1>2, <2>1, <2>3, <2>4 DEF FilesBounded
<1>4. ASSUME NEW n \in Versions, EditorMoves(n) \/ EditorDies(n) \/ Restore(n) PROVE FilesBounded'
  <2>1. CASE LoadEdit(n)
    <3>. DEFINE line == [step |-> "loaded", source |-> version[n], shown |-> media.file]
    <3>1. task' = [task EXCEPT ![n] = line] /\ UNCHANGED <<media, version, files, written>> BY <2>1 DEF LoadEdit
    <3>2. line.source \in Named /\ line.shown \in Named BY <1>0
    <3>. HIDE DEF line
    <3>. QED BY <1>0, <1>2, <3>1, <3>2 DEF FilesBounded
  <2>2. CASE SaveEdit(n)
    <3>. DEFINE line == [task[n] EXCEPT !.step = "saved"]
    <3>1. task' = [task EXCEPT ![n] = line] /\ media' = media BY <2>2 DEF SaveEdit
    <3>2. line.source \in Named /\ line.shown \in Named BY <1>0 DEF TaskRow
    <3>3. written' \in Files BY <1>0, <2>2, MediaAssumption DEF SaveEdit, Files
    <3>4. version' \in [Versions -> Named] /\ files' \subseteq Files BY <1>0, <2>2, <3>3 DEF SaveEdit
    <3>. HIDE DEF line
    <3>. QED BY <1>0, <1>2, <3>1, <3>2, <3>3, <3>4 DEF FilesBounded
  <2>3. CASE ShowEdit(n)
    <3>. DEFINE line == [task[n] EXCEPT !.step = "shown"]
    <3>1. task' = [task EXCEPT ![n] = line] /\ UNCHANGED <<version, files, written>> /\ task[n].step = "saved"
      BY <2>3 DEF ShowEdit
    <3>2. line.source \in Named /\ line.shown \in Named BY <1>0 DEF TaskRow
    <3>3. version[n] # NoFile BY <3>1 DEF VersionShape
    <3>4. media'.file = version[n] BY <2>3 DEF ShowEdit, VersionShape
    <3>5. media'.file \in Files BY <1>0, <3>3, <3>4 DEF Named
    <3>. HIDE DEF line
    <3>. QED BY <1>0, <1>2, <3>1, <3>2, <3>5 DEF FilesBounded
  <2>4. CASE EditEnds(n)
    BY <1>0, <1>1, <1>2, <2>4 DEF EditEnds, FilesBounded
  <2>5. CASE EditFails(n)
    <3>1. /\ version' = [version EXCEPT ![n] = NoFile] /\ task' = [task EXCEPT ![n] = NoTask] /\ written' = written
          /\ files' \subseteq files /\ media' = [media EXCEPT !.current = Newest(version')]
      BY <2>5 DEF EditFails
    <3>2. media'.file = media.file BY <3>1 DEF VersionShape
    <3>. QED BY <1>0, <1>1, <1>2, <3>1, <3>2 DEF FilesBounded
  <2>6. CASE EditorDies(n)
    BY <1>0, <1>1, <1>2, <2>6 DEF EditorDies, FilesBounded
  <2>7. CASE Restore(n)
    <3>1. version[n] \in Files BY <1>0, <2>7 DEF Restore, Named
    <3>2. media'.file = version[n] /\ UNCHANGED <<task, files, written>> BY <2>7 DEF Restore
    <3>3. version' \in [Versions -> Named] BY <1>0, <2>7 DEF Restore
    <3>. QED BY <1>0, <3>1, <3>2, <3>3 DEF FilesBounded
  <2>. QED BY <1>4, <2>1, <2>2, <2>3, <2>4, <2>5, <2>6, <2>7 DEF EditorMoves
<1>. QED BY <1>3, <1>4 DEF VersionsNext

LEMMA CallsBoundedStep ==
    ASSUME UploadSound, CallsBounded, UploadsNext
    PROVE  CallsBounded'
<1>1. CASE AgentUploads \/ UploadExpires \/ ListExpired \/ DeleteObject \/ DeleteUpload
  BY <1>1 DEF AgentUploads, UploadExpires, ListExpired, DeleteObject, DeleteUpload, CallsBounded
<1>2. ASSUME NEW f \in Finalizers, LookAtUpload(f) \/ InspectObject(f) \/ RegisterAsset(f) PROVE CallsBounded'
  <2>1. PICK step \in {"idle", "looked", "inspected"} : CallGoes(f, step)
    BY <1>2 DEF LookAtUpload, InspectObject, RegisterAsset
  <2>2. UNCHANGED <<space, uploadSweep>> BY <1>2 DEF LookAtUpload, InspectObject, RegisterAsset
  <2>. QED BY <2>1, <2>2 DEF CallsBounded, CallGoes
<1>. QED BY <1>1, <1>2 DEF UploadsNext

LEMMA FileTypesStep ==
    MediaSound /\ FilesBounded /\ CallsBounded /\ [VersionsNext \/ UploadsNext]_mediaVars => FilesBounded' /\ CallsBounded'
<1>. SUFFICES ASSUME MediaSound, FilesBounded, CallsBounded, [VersionsNext \/ UploadsNext]_mediaVars
              PROVE  FilesBounded' /\ CallsBounded'
  OBVIOUS
<1>1. VersionShape /\ UploadSound BY DEF MediaSound
<1>2. UNCHANGED versionVars => FilesBounded' BY DEF versionVars, FilesBounded
<1>3. UNCHANGED uploadVars => CallsBounded' BY DEF uploadVars, CallsBounded
<1>4. CASE VersionsNext BY <1>1, <1>3, <1>4, FilesBoundedStep DEF VersionsNext
<1>5. CASE UploadsNext BY <1>1, <1>2, <1>5, CallsBoundedStep DEF UploadsNext
<1>6. CASE UNCHANGED mediaVars BY <1>2, <1>3, <1>6 DEF mediaVars
<1>. QED BY <1>4, <1>5, <1>6

LEMMA FileTypesFollow == MediaSound /\ FilesBounded /\ CallsBounded => MediaTypeOK
<1>. SUFFICES ASSUME MediaSound, FilesBounded, CallsBounded PROVE MediaTypeOK OBVIOUS
<1>1. VersionShape /\ UploadSound BY DEF MediaSound
<1>2. Named = 0..LastFile BY MediaAssumption DEF Named, Files, NoFile
<1>3. media.current \in 0..LastVersion
  <2>1. media.current \in Kept(version) \cup {NoFile} BY <1>1, NewestIs DEF VersionShape
  <2>. QED BY <2>1, MediaAssumption DEF Kept, Versions, NoFile
<1>4. media \in [file : 1..LastFile, current : 0..LastVersion] BY <1>1, <1>3 DEF VersionShape, FilesBounded, Files
<1>5. task \in [Versions -> [step : {"none", "queued", "loaded", "saved", "shown"}, source : 0..LastFile, shown : 0..LastFile]]
  BY <1>1, <1>2 DEF VersionShape, FilesBounded, TaskRow
<1>6. assets \in 0..Cardinality(Finalizers)
  <2>1. Cardinality(Finalizers) \in Nat BY MediaAssumption, FS_CardinalityType
  <2>2. CASE assets = 0 BY <2>1, <2>2
  <2>3. CASE assets = 1
    <3>1. Cardinality(Finalizers) # 0 BY <2>3, MediaAssumption, FS_EmptySet DEF CallsBounded
    <3>. QED BY <2>1, <2>3, <3>1
  <2>. QED BY <1>1, <2>2, <2>3 DEF UploadSound
<1>7. {crossed, again} \subseteq BOOLEAN BY <1>1 DEF VersionShape, UploadSound
<1>8. upload \in [state : {"open", "finalized", "swept"}, expired : BOOLEAN] /\ object \in {"awaited", "good", "bad", "deleted"}
  BY <1>1 DEF UploadSound
<1>. QED BY <1>2, <1>4, <1>5, <1>6, <1>7, <1>8 DEF MediaTypeOK, FilesBounded, CallsBounded, Files

-----------------------------------------------------------------------------
(* All of them.                                                            *)

LEMMA CommentTypes == CommentSpec => []FirstCommentTypeOK
BY CommentsCountedInit, CommentsCountedStep, RetriesBoundedStart, RetriesBoundedStep, CommentTypesFollow, PTL DEF CommentSpec

LEMMA MailTypes == MailSpec => []EmailDigestTypeOK
BY MailCountedInit, MailCountedStep, AttemptsBoundedStart, AttemptsBoundedStep, MailTypesFollow, PTL DEF MailSpec

LEMMA SeriesTypes == RecurrenceSpec => []RecurrenceTypeOK
BY SeriesTypesStart, SeriesTypesStep, PTL DEF RecurrenceSpec

LEMMA ReminderTypes == RemindersSpec => []RemindersTypeOK
BY RemindingInit, RemindingStep, DeadlineTypesStart, DeadlineTypesStep, ReminderTypesFollow, PTL DEF RemindersSpec

LEMMA ScheduleTypes == ScheduleSpec => []RecurringTypeOK
<1>1. ScheduleSound => ScheduleShape BY DEF ScheduleSound
<1>. QED BY <1>1, ScheduleSoundInit, ScheduleSoundStep, FaultsBoundedStart, FaultsBoundedStep, ScheduleTypesFollow, PTL DEF ScheduleSpec

LEMMA GrantTypes == TokensSpec => []TokensTypeOK
BY GrantSoundInit, GrantSoundStep, GrantsBoundedStart, GrantsBoundedStep, GrantTypesFollow, PTL DEF TokensSpec

LEMMA FileTypes == MediaSpec => []MediaTypeOK
BY MediaSoundInit, MediaSoundStep, FilesBoundedStart, FileTypesStep, FileTypesFollow, PTL DEF MediaSpec

LEMMA QueueTypes == PostingQueueSpec => []PostingQueueTypeOK
BY SlotsSoundStarts, SlotsSoundStep, QueueTypesFollow, PTL DEF PostingQueueSpec

LEMMA ThreadTypes == InboxSpec => []InboxTypeOK
<1>1. ThreadSound => InboxTypeOK BY DEF ThreadSound
<1>. QED BY <1>1, ThreadSoundStarts, ThreadSoundStep, PTL DEF InboxSpec

LEMMA KeyTypesKept == ApiSpec => []ApiTypeOK
<1>1. KeySound => ApiTypeOK BY DEF KeySound
<1>. QED BY <1>1, KeySoundStarts, KeySoundStep, PTL DEF ApiSpec
===============================================================================
