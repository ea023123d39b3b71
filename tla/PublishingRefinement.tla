------------------------- MODULE PublishingRefinement -------------------------
(***************************************************************************)
(* The engine implements Delivery, keeps its retry budget and leaves the   *)
(* question of an unknown outcome to a person: proved for every set of     *)
(* channels and every bound, for the deployment of PublishingSafety (one   *)
(* worker, and the guarded web operations).  And it stops writing while a  *)
(* channel of the post is on hold, for every deployment.                   *)
(*                                                                         *)
(* The first and the third rest on one lemma, StepEffect: apart from the   *)
(* claim of a group, a step touches at most one channel, in one of nine    *)
(* ways.                                                                   *)
(***************************************************************************)
EXTENDS PublishingSafety, ClientBrake

-----------------------------------------------------------------------------
(* The ways a step may touch channel c.                                    *)

Untouched(c) == SameRow(c) /\ SameBook(c)

\* A flight is settled without success.
Settled(c) ==
    /\ row[c].status = "publishing" /\ hold[c] = "none"
    /\ \E s \in {"failed", "scheduled"}, k \in HoldKinds :
          Goes2(c, s, k) /\ (SameBook(c) \/ k = "none")

\* A flight's acceptance is recorded.
Recorded(c) ==
    /\ row[c].status = "publishing" /\ row'[c].status \in {"publishing", "published"}
    /\ hold'[c] = hold[c] /\ SameBook(c)

\* The retry pass claims a row, or turns it away.
Claimed(c) ==
    /\ row[c].status = "scheduled" /\ row'[c].status = "publishing"
    /\ hold[c] = "none" /\ hold'[c] = "none" /\ SameBook(c)

TurnedAway(c) ==
    /\ row[c].status = "scheduled" /\ row'[c].status = "failed"
    /\ hold'[c] \in {hold[c], HoldKind(c)} /\ SameBook(c)

\* A person, or the approval re-check, moves a row the engine does not have.
Edited(c) ==
    /\ {row[c].status, row'[c].status} \cap {"publishing", "published"} = {}
    /\ hold'[c] = hold[c] /\ SameBook(c)

Ruled(c) == (ReconcileExisting(c) \/ CheckedAbsent(c)) /\ RowOK(c)'

\* A copy is made; and the platform's last word on one.
Written(c) ==
    /\ SameRow(c) /\ row[c].status = "publishing" /\ hold[c] = "none"
    /\ ~Open(c) /\ Open(c)'

Answered(c) == SameRow(c) /\ (Open(c)' => Open(c))

Touched(c) ==
    \/ Untouched(c) \/ Settled(c) \/ Recorded(c) \/ Claimed(c) \/ TurnedAway(c)
    \/ Edited(c) \/ Ruled(c) \/ Written(c) \/ Answered(c)

OneTouched == \E c \in Channels : Touched(c) /\ \A d \in Channels \ {c} : Untouched(d)

LEMMA KindsOfHold == HoldKinds = {"none", "unknown", "expired"}
  BY DEF HoldKinds

\* The end of a thread: its row untouched, settled, or recorded.
LEMMA RecordEffect ==
    ASSUME Safe, DbType, RestType, NEW w \in Workers, NEW c \in Channels,
           \/ CheckBeforeSending(w, c)
           \/ StopBeforeSending(w, c)
           \/ RecordAccepted(w, c)
           \/ RecordFailure(w, c)
           \/ RecordNothing(w, c)
    PROVE  OneTouched
  <1> USE DEF extVars, dbVars
  <1>1. /\ thr[w][c].stage # "idle" /\ UNCHANGED <<platform, sent, excused>>
    BY DEF CheckBeforeSending, StopBeforeSending, RecordAccepted, RecordFailure, RecordNothing
  <1>2. /\ row[c].status = "publishing" /\ hold[c] = "none"
        /\ row \in [Channels -> Row] /\ row[c] \in Row
    BY <1>1, AtWork DEF DbType
  <1>3. \A d \in Channels : SameBook(d)
    BY <1>1 DEF SameBook
  <1>4. HoldKind(c) \in HoldKinds /\ hold[c] \in HoldKinds
    BY KindsOfHold DEF HoldKind, DbType
  <1>5. ASSUME NEW k \in HoldKinds, Mark(c, "publishing", k) PROVE OneTouched
    <2>1. Goes2(c, "failed", k) /\ \A d \in Channels : d # c => SameRow(d)
      BY <1>2, <1>5, MarkEffect
    <2> QED BY <1>2, <1>3, <2>1 DEF OneTouched, Touched, Settled, Untouched
  <1>6. CASE FailPermanently(c) \/ BlockPublish(c, "publishing")
    <2>1. Goes2(c, "failed", hold[c]) /\ \A d \in Channels : d # c => SameRow(d)
      BY <1>2, <1>6, FailEffect, BlockEffect
    <2> QED BY <1>2, <1>3, <1>4, <2>1 DEF OneTouched, Touched, Settled, Untouched
  <1>7. CASE ScheduleRetry(c, thr[w][c].tries)
    <2>1. /\ Goes2(c, "failed", hold[c]) \/ Goes2(c, "scheduled", hold[c])
          /\ \A d \in Channels : d # c => SameRow(d)
      BY <1>2, <1>7, RetryEffect
    <2> QED BY <1>2, <1>3, <1>4, <2>1 DEF OneTouched, Touched, Settled, Untouched
  <1>8. CASE UNCHANGED <<row, hold>>
    BY <1>3, <1>8 DEF OneTouched, Touched, Untouched, SameRow
  <1>9. CASE /\ \E s \in {"publishing", "published"} : \E h, n, b :
                   row' = [row EXCEPT ![c] = [row[c] EXCEPT !.status = s, !.handle = h, !.retry = n,
                                                            !.parked = b, !.age = 0]]
             /\ hold' = hold
    <2>1. row'[c].status \in {"publishing", "published"} /\ \A d \in Channels : d # c => SameRow(d)
      BY <1>2, <1>9 DEF Row, SameRow
    <2> QED BY <1>2, <1>3, <1>9, <2>1 DEF OneTouched, Touched, Recorded, Untouched
  <1>10. CASE CheckBeforeSending(w, c)
    BY <1>4, <1>5, <1>6, <1>7, <1>8, <1>10 DEF CheckBeforeSending
  <1>11. CASE StopBeforeSending(w, c)
    BY <1>5, <1>8, <1>11, KindsOfHold DEF StopBeforeSending
  <1>12. CASE RecordAccepted(w, c)
    BY <1>5, <1>9, <1>12, KindsOfHold DEF RecordAccepted
  <1>13. CASE RecordFailure(w, c)
    <2>1. CASE /\ row' = [row EXCEPT ![c] = [@ EXCEPT !.handle = thr[w][c].n, !.retry = 0,
                                                       !.parked = FALSE, !.age = 0]]
               /\ hold' = hold
      <3>1. row'[c].status = "publishing" /\ \A d \in Channels : d # c => SameRow(d)
        BY <1>2, <2>1 DEF Row, SameRow
      <3> QED BY <1>2, <1>3, <2>1, <3>1 DEF OneTouched, Touched, Recorded, Untouched
    <2> QED BY <1>2, <1>5, <1>6, <1>7, <1>13, <2>1, KindsOfHold DEF RecordFailure
  <1>14. CASE RecordNothing(w, c)
    BY <1>8, <1>14 DEF RecordNothing
  <1> QED BY <1>10, <1>11, <1>12, <1>13, <1>14

\* The write itself, and what the thread hears of it.
LEMMA SendEffect ==
    ASSUME Safe, DbType, RestType, NEW w \in Workers, NEW c \in Channels,
           Send(w, c) \/ Answer(w, c)
    PROVE  OneTouched
  <1> USE DEF extVars, dbVars
  <1>1. /\ thr[w][c].stage # "idle" /\ UNCHANGED <<row, hold, excused>>
        /\ platform \in [Channels -> [Attempts -> Verdicts]]
        /\ sent \in [Channels -> 0..MaxAttempts]
    BY DEF Send, Answer, RestType
  <1>2. row[c].status = "publishing" /\ hold[c] = "none" /\ ThreadOK(w, c) /\ BooksOK(c)
    BY <1>1, AtWork
  <1>3. \A d \in Channels : SameRow(d)
    BY <1>1 DEF SameRow
  <1>4. CASE Send(w, c)
    <2> DEFINE n == sent[c] + 1
    <2>1. /\ thr[w][c].stage = "cleared" /\ n \in Attempts
          /\ sent' = [sent EXCEPT ![c] = n]
          /\ platform' = [platform EXCEPT ![c][n] = "processing"]
      BY <1>1, <1>4, PublishingAssumption DEF Send, Attempts
    <2>2. ~Open(c)
      BY <1>2, <2>1 DEF ThreadOK, BeforeWrite
    <2>3. platform'[c][n] = "processing" /\ \A d \in Channels : d # c => SameBook(d)
      BY <1>1, <2>1 DEF SameBook
    <2>4. CASE n \in excused[c]
      <3>1. \A m \in Attempts : OpenAt(c, m)' => OpenAt(c, m)
        BY <1>1, <2>1, <2>4 DEF OpenAt
      <3> QED BY <1>3, <2>3, <3>1 DEF OneTouched, Touched, Answered, Untouched, Open
    <2>5. CASE n \notin excused[c]
      <3>1. Open(c)'
        BY <1>1, <2>1, <2>3, <2>5 DEF Open, OpenAt, Possible
      <3> QED BY <1>2, <1>3, <2>2, <2>3, <3>1 DEF OneTouched, Touched, Written, Untouched
    <2> QED BY <2>4, <2>5
  <1>5. CASE Answer(w, c)
    <2>1. UNCHANGED sent
      BY <1>5 DEF Answer
    <2>2. CASE platform' = platform
      BY <1>1, <1>3, <2>1, <2>2 DEF OneTouched, Touched, Untouched, SameBook
    <2>3. CASE platform' = [platform EXCEPT ![c][thr[w][c].n] = "refused"]
      <3>1. \A d \in Channels : d # c => SameBook(d)
        BY <1>1, <2>1, <2>3 DEF SameBook
      <3>2. \A m \in Attempts : OpenAt(c, m)' => OpenAt(c, m)
        BY <1>1, <2>3 DEF OpenAt, Possible
      <3> QED BY <1>3, <3>1, <3>2 DEF OneTouched, Touched, Answered, Untouched, Open
    <2> QED BY <1>5, <2>2, <2>3 DEF Answer
  <1> QED BY <1>4, <1>5

LEMMA RetryClaimEffect ==
    ASSUME Safe, DbType, RestType, NEW w \in Workers, NEW c \in Channels, ProcessRetry(w, c)
    PROVE  OneTouched
  <1> USE DEF extVars, dbVars
  <1>2. \A d \in Channels : SameBook(d)
    BY RetryStep DEF SameBook
  <1>5. CASE UNCHANGED <<row, hold>>
    BY <1>2, <1>5 DEF OneTouched, Touched, Untouched, SameRow
  <1>6. SUFFICES ASSUME RetryDue(c), ~UNCHANGED <<row, hold>> PROVE OneTouched
    BY <1>5, RetryStep
  <1>1. /\ row[c].status = "scheduled" /\ UNCHANGED <<platform, sent, excused>>
        /\ row \in [Channels -> Row] /\ row[c] \in Row /\ RowOK(c)
    BY <1>6, RetryStep DEF RetryDue, DbType, Safe, ChannelOK
  <1>3. CASE BlockPublish(c, "scheduled") \/ Mark(c, "scheduled", HoldKind(c))
    <2>1. /\ Goes2(c, "failed", hold[c]) \/ Goes2(c, "failed", HoldKind(c))
          /\ \A d \in Channels : d # c => SameRow(d)
      BY <1>1, <1>3, BlockEffect, MarkEffect
    <2> QED BY <1>1, <1>2, <2>1 DEF OneTouched, Touched, TurnedAway, Untouched, Goes2
  <1>4. CASE /\ ~HoldReason(c) /\ hold' = hold
             /\ row' = [row EXCEPT ![c] = [@ EXCEPT !.status = "publishing", !.age = 0]]
    <2>1. hold[c] = "none" /\ \A d \in Channels : d # c => SameRow(d)
      BY <1>1, <1>4, Claimable DEF SameRow
    <2>2. row'[c].status = "publishing"
      BY <1>1, <1>4 DEF Row
    <2> QED BY <1>1, <1>2, <1>4, <2>1, <2>2 DEF OneTouched, Touched, Claimed, Untouched
  <1> QED BY <1>3, <1>4, <1>6, RetryStep

LEMMA SweepEffect ==
    ASSUME Safe, DbType, RestType, NEW w \in Workers, SweepRow(w)
    PROVE  OneTouched
  <1> USE DEF extVars, dbVars
  <1>1. PICK s \in look[w] : SweepUnaskable(s) \/ SweepAsk(s)
    BY DEF SweepRow
  <1>2. /\ UNCHANGED <<platform, sent>> /\ s.c \in Channels
        /\ row \in [Channels -> Row] /\ row[s.c] \in Row
        /\ excused \in [Channels -> SUBSET Attempts]
    BY <1>1 DEF SweepRow, RestType, Sight, DbType
  <1>3. row[s.c].status = "publishing" /\ hold[s.c] = "none"
    BY <1>1, <1>2 DEF Safe, SweepOK, ChannelOK, RowOK
  <1>4. CASE UNCHANGED <<row, hold, excused>>
    BY <1>2, <1>4 DEF OneTouched, Touched, Untouched, SameRow, SameBook
  <1>5. CASE Mark(s.c, "publishing", "unknown") /\ UNCHANGED excused
    <2>1. Goes2(s.c, "failed", "unknown") /\ \A d \in Channels : d # s.c => SameRow(d)
      BY <1>2, <1>3, <1>5, MarkEffect
    <2>2. \A d \in Channels : SameBook(d)
      BY <1>2, <1>5 DEF SameBook
    <2> QED BY <1>2, <1>3, <2>1, <2>2, KindsOfHold DEF OneTouched, Touched, Settled, Untouched
  <1>6. CASE /\ row' = [row EXCEPT ![s.c] = [@ EXCEPT !.status = "published",
                                                       !.handle = s.handle, !.age = 0]]
             /\ UNCHANGED <<hold, excused>>
    <2>1. row'[s.c].status = "published" /\ \A d \in Channels : d # s.c => SameRow(d)
      BY <1>2, <1>6 DEF Row, SameRow
    <2>2. \A d \in Channels : SameBook(d)
      BY <1>2, <1>6 DEF SameBook
    <2> QED BY <1>2, <1>3, <1>6, <2>1, <2>2 DEF OneTouched, Touched, Recorded, Untouched
  <1>7. CASE /\ FailPermanently(s.c)
             /\ \/ UNCHANGED excused
                \/ excused' = [excused EXCEPT ![s.c] = @ \cup {s.handle}]
    <2>1. Goes2(s.c, "failed", "none") /\ \A d \in Channels : d # s.c => SameRow(d)
      BY <1>2, <1>3, <1>7, FailEffect
    <2>2. \A d \in Channels : d # s.c => SameBook(d)
      BY <1>2, <1>7 DEF SameBook
    <2> QED BY <1>2, <1>3, <2>1, <2>2, KindsOfHold DEF OneTouched, Touched, Settled, Untouched
  <1>8. CASE SweepUnaskable(s)
    BY <1>4, <1>5, <1>8 DEF SweepUnaskable
  <1>9. CASE SweepAsk(s)
    BY <1>4, <1>5, <1>6, <1>7, <1>9 DEF SweepAsk
  <1> QED BY <1>1, <1>8, <1>9

LEMMA WorldEffect ==
    ASSUME Safe, DbType, RestType, NEW c \in Channels, World(c)
    PROVE  OneTouched
  <1>1. CASE TimePasses(c) \/ BackoffEnds(c) \/ ClaimAges(c)
    <2>1. /\ UNCHANGED <<hold, platform, sent, excused>>
          /\ row \in [Channels -> Row] /\ row[c] \in Row
          /\ \/ row' = [row EXCEPT ![c].sched = "due"]
             \/ row' = [row EXCEPT ![c].sched = "late"]
             \/ row' = [row EXCEPT ![c].parked = FALSE]
             \/ row' = [row EXCEPT ![c].age = @ + 1]
      BY <1>1 DEF TimePasses, BackoffEnds, ClaimAges, extVars, DbType
    <2>2. \A d \in Channels : row'[d].status = row[d].status /\ row'[d].handle = row[d].handle
      BY <2>1 DEF Row
    <2> QED BY <2>1, <2>2 DEF OneTouched, Touched, Untouched, SameRow, SameBook
  <1>2. ASSUME NEW n \in Attempts, PlatformFinishes(c, n) PROVE OneTouched
    <2>1. /\ UNCHANGED <<row, hold, sent, excused>> /\ platform[c][n] = "processing"
          /\ platform \in [Channels -> [Attempts -> Verdicts]]
          /\ \E v \in {"live", "refused"} : platform' = [platform EXCEPT ![c][n] = v]
      BY <1>2 DEF PlatformFinishes, RestType, dbVars
    <2>2. \A m \in Attempts : OpenAt(c, m)' => OpenAt(c, m)
      BY <2>1 DEF OpenAt, Possible
    <2> QED BY <2>1, <2>2 DEF OneTouched, Touched, Answered, Untouched, SameRow, SameBook, Open
  <1> QED BY <1>1, <1>2 DEF World

LEMMA PeopleEffect ==
    ASSUME GuardedWeb, Safe, DbType, RestType, People, Safe'
    PROVE  OneTouched \/ \A d \in Channels : Untouched(d)
  <1> USE DEF extVars, dbVars
  <1>1. CASE WriteRow
    <2>1. PICK q \in requests : \E when \in NewTimes(q.op) :
            row' = IF Writable(q) THEN [row EXCEPT ![q.c] = WrittenBack(q, when)] ELSE row
      BY <1>1 DEF WriteRow
    <2>2. /\ q.op \in GuardedOps /\ q.old.status \in From(q.op) /\ q.c \in Channels
          /\ row \in [Channels -> Row] /\ UNCHANGED <<hold, platform, sent, excused>>
      BY <1>1, <2>1 DEF Safe, RequestOK, DbType, RestType, Request, WriteRow
    <2>3. CASE ~Writable(q)
      BY <2>1, <2>2, <2>3 DEF Untouched, SameRow, SameBook
    <2>4. CASE Writable(q)
      <3>1. row[q.c].status \notin {"publishing", "published"}
        BY <2>2, <2>4, WebFacts DEF Writable
      <3>2. PICK when \in NewTimes(q.op) : row' = [row EXCEPT ![q.c] = WrittenBack(q, when)]
        BY <2>1, <2>4
      <3>3. row'[q.c] = WrittenBack(q, when) /\ \A d \in Channels : d # q.c => row'[d] = row[d]
        BY <2>2, <3>2
      <3>4. row'[q.c].status \notin {"publishing", "published"}
        BY <2>2, <3>3, WebFacts DEF WrittenBack
      <3> QED BY <2>2, <3>1, <3>3, <3>4 DEF OneTouched, Touched, Edited, Untouched, SameRow, SameBook
    <2> QED BY <2>3, <2>4
  <1>2. ASSUME NEW c \in Channels, Withdraw(c) PROVE OneTouched
    <2>1. /\ row[c].status \in {"approved", "scheduled"} /\ UNCHANGED <<hold, platform, sent, excused>>
          /\ row \in [Channels -> Row] /\ row[c] \in Row
          /\ row' = [row EXCEPT ![c] = [@ EXCEPT !.status = "pending_review", !.age = 0]]
      BY <1>2 DEF Withdraw, DbType
    <2>2. row'[c].status = "pending_review"
      BY <2>1 DEF Row
    <2> QED BY <2>1, <2>2 DEF OneTouched, Touched, Edited, Untouched, SameRow, SameBook
  <1>3. ASSUME NEW c \in Channels, ReconcileExisting(c) \/ CheckedAbsent(c) PROVE OneTouched
    <2>1. /\ UNCHANGED <<platform, sent>>
          /\ \A d \in Channels : d # c =>
                row'[d] = row[d] /\ hold'[d] = hold[d] /\ excused'[d] = excused[d]
      <3>1. /\ row \in [Channels -> Row] /\ hold \in [Channels -> HoldKinds]
            /\ excused \in [Channels -> SUBSET Attempts]
        BY DEF DbType, RestType
      <3>2. CASE ReconcileExisting(c)
        BY <3>1, <3>2 DEF ReconcileExisting
      <3>3. CASE CheckedAbsent(c)
        BY <3>1, <3>3 DEF CheckedAbsent
      <3> QED BY <1>3, <3>2, <3>3
    <2>2. \A d \in Channels : d # c => Untouched(d)
      BY <2>1 DEF Untouched, SameRow, SameBook
    <2> QED BY <1>3, <2>2 DEF OneTouched, Touched, Ruled, Safe, ChannelOK
  <1>4. CASE \E c \in Channels, op \in WebOps : LoadRow(op, c)
    BY <1>4 DEF LoadRow, Untouched, SameRow, SameBook
  <1> QED BY <1>1, <1>2, <1>3, <1>4 DEF People

\* Every step but the claim of a group.
LEMMA StepEffect ==
    ASSUME OneWorker, GuardedWeb, Safe, DbType, RestType, [Next]_vars
    PROVE  \/ \E w \in Workers : PublishPostGroup(w)
           \/ OneTouched
           \/ \A d \in Channels : Untouched(d)
  <1> USE DEF extVars, dbVars
  <1>1. CASE UNCHANGED <<row, hold, platform, sent, excused>>
    BY <1>1 DEF Untouched, SameRow, SameBook
  <1>2. ASSUME NEW w \in Workers, Work(w), ~PublishPostGroup(w)
        PROVE  OneTouched \/ \A d \in Channels : Untouched(d)
    <2>1. CASE SweepRead(w) \/ Crash(w) \/ StartWorker(w) \/ FindDue(w) \/ FindRetries(w)
      <3>1. UNCHANGED <<row, hold, platform, sent, excused>>
        BY <2>1 DEF SweepRead, Crash, StartWorker, FindDue, FindRetries
      <3> QED BY <3>1 DEF Untouched, SameRow, SameBook
    <2>2. CASE SweepRow(w)
      BY <2>2, SweepEffect
    <2>3. ASSUME NEW c \in Channels, ProcessRetry(w, c) PROVE OneTouched
      BY <2>3, RetryClaimEffect
    <2>4. ASSUME NEW c \in Channels, Send(w, c) \/ Answer(w, c) PROVE OneTouched
      BY <2>4, SendEffect
    <2>5. ASSUME NEW c \in Channels,
                 \/ CheckBeforeSending(w, c) \/ StopBeforeSending(w, c)
                 \/ RecordAccepted(w, c) \/ RecordFailure(w, c) \/ RecordNothing(w, c)
          PROVE  OneTouched
      BY <2>5, RecordEffect
    <2> QED BY <1>2, <2>1, <2>2, <2>3, <2>4, <2>5 DEF Work
  <1>3. Safe'
    BY NextSafe
  <1>4. CASE People
    BY <1>3, <1>4, PeopleEffect
  <1>5. CASE LoseLease \/ UNCHANGED vars
    BY <1>1, <1>5 DEF LoseLease, vars
  <1> QED BY <1>2, <1>4, <1>5, WorldEffect DEF Next
-----------------------------------------------------------------------------
(* Refinement.                                                             *)

\* One channel takes a step Delivery allows it, other than in a Claim of many.
Allowed(c) ==
    \/ Phase(c)' = Phase(c) /\ (Open(c)' => Open(c))
    \/ /\ Phase(c) = "inflight" /\ Phase(c)' = "inflight" /\ ~Open(c) /\ Open(c)'
    \/ /\ Phase(c) = "ready" /\ Phase(c)' \in {"inflight", "held"} /\ Open(c)' = Open(c)
    \/ /\ Phase(c) \in {"inflight", "held"} /\ Phase(c)' = "ready" /\ ~Open(c)'
    \/ /\ Phase(c) = "inflight" /\ Phase(c)' \in {"held", "live"} /\ Open(c)' = Open(c)
    \/ /\ Phase(c) = "held" /\ Phase(c)' = "live" /\ Open(c)' = Open(c)

\* The phase of a channel nothing touches stands, and so does its copy.
LEMMA PhaseFrame ==
    ASSUME NEW d \in Channels
    PROVE  /\ SameRow(d) => Phase(d)' = Phase(d)
           /\ Untouched(d) => Phase(d)' = Phase(d) /\ Open(d)' = Open(d)
  <1>1. SameRow(d) => Phase(d)' = Phase(d)
    BY DEF SameRow, Phase
  <1> QED BY <1>1, OpenFrame DEF Untouched

\* However a channel is touched, Delivery allows it.
LEMMA TouchAllowed ==
    ASSUME DbType, NEW c \in Channels, RowOK(c), RowOK(c)', Touched(c)
    PROVE  Allowed(c)
  <1>1. CASE Untouched(c)
    BY <1>1, PhaseFrame DEF Allowed
  <1>2. CASE Settled(c)
    <2>1. Phase(c) = "inflight"
      BY <1>2 DEF Settled, Phase
    <2>2. PICK s \in {"failed", "scheduled"}, k \in HoldKinds :
            Goes2(c, s, k) /\ (SameBook(c) \/ k = "none")
      BY <1>2 DEF Settled
    <2>3. CASE k = "none"
      BY <2>1, <2>2, <2>3 DEF Allowed, RowOK, Goes2, Phase
    <2>4. CASE k # "none"
      <3>1. Open(c)' = Open(c) /\ Phase(c)' = "held"
        BY <2>2, <2>4, OpenFrame DEF Goes2, Phase
      <3> QED BY <2>1, <3>1 DEF Allowed
    <2> QED BY <2>3, <2>4
  <1>3. CASE Recorded(c)
    <2>1. hold[c] = "none" /\ Open(c)' = Open(c)
      BY <1>3, OpenFrame DEF Recorded, RowOK
    <2>2. Phase(c) = "inflight" /\ Phase(c)' \in {"inflight", "live"}
      BY <1>3, <2>1 DEF Recorded, Phase
    <2> QED BY <2>1, <2>2 DEF Allowed
  <1>4. CASE Claimed(c)
    <2>1. Open(c)' = Open(c) /\ Phase(c) = "ready" /\ Phase(c)' = "inflight"
      BY <1>4, OpenFrame DEF Claimed, Phase
    <2> QED BY <2>1 DEF Allowed
  <1>5. CASE TurnedAway(c)
    <2>1. Open(c)' = Open(c) /\ HoldKind(c) # "none"
      BY <1>5, OpenFrame DEF TurnedAway, HoldKind
    <2>2. \/ Phase(c) \in {"ready", "held"} /\ Phase(c)' = "held"
          \/ Phase(c) = "ready" /\ Phase(c)' = "ready"
      BY <1>5, <2>1 DEF TurnedAway, Phase
    <2> QED BY <2>1, <2>2 DEF Allowed
  <1>6. CASE Edited(c)
    <2>1. Open(c)' = Open(c) /\ Phase(c)' = Phase(c)
      BY <1>6, OpenFrame DEF Edited, Phase
    <2> QED BY <2>1 DEF Allowed
  <1>7. CASE Ruled(c)
    <2>1. CASE ReconcileExisting(c)
      <3>1. Phase(c) = "held" /\ SameBook(c)
        BY <2>1 DEF ReconcileExisting, Phase, SameBook, extVars
      <3>2. row'[c].status = "published"
        BY <2>1 DEF ReconcileExisting, DbType, Row
      <3> QED BY <3>1, <3>2, OpenFrame DEF Allowed, Phase
    <2>2. CASE CheckedAbsent(c)
      <3>1. Phase(c) = "held" /\ row'[c].status = "pending_review" /\ hold'[c] = "none"
        BY <2>2 DEF CheckedAbsent, Phase, DbType
      <3> QED BY <3>1 DEF Allowed, Phase, RowOK
    <2> QED BY <1>7, <2>1, <2>2 DEF Ruled
  <1>8. CASE Written(c)
    <2>1. Phase(c) = "inflight"
      BY <1>8 DEF Written, Phase
    <2> QED BY <1>8, <2>1, PhaseFrame DEF Allowed, Written
  <1>9. CASE Answered(c)
    BY <1>9, PhaseFrame DEF Allowed, Answered
  <1> QED BY <1>1, <1>2, <1>3, <1>4, <1>5, <1>6, <1>7, <1>8, <1>9 DEF Touched

\* A step in which one channel does what is allowed and the others nothing is
\* a step of Delivery, or leaves it unchanged.
LEMMA AllowedStep ==
    ASSUME NEW c \in Channels, Allowed(c),
           \A d \in Channels \ {c} : Phase(d)' = Phase(d) /\ Open(d)' = Open(d)
    PROVE  [Contract!Next]_(Contract!vars)
  <1> DEFINE ph == [d \in Channels |-> Phase(d)]
             op == [d \in Channels |-> Open(d)]
  <1>1. /\ ph' = [ph EXCEPT ![c] = Phase(c)']
        /\ op' = [op EXCEPT ![c] = Open(c)']
    OBVIOUS
  <1>2. Open(c) \in BOOLEAN /\ Open(c)' \in BOOLEAN
    BY DEF Open
  <1>3. CASE Phase(c)' = Phase(c) /\ Open(c)' = Open(c)
    BY <1>1, <1>3 DEF Contract!vars
  <1>4. CASE Phase(c)' = Phase(c) /\ Open(c) /\ ~Open(c)'
    <2>1. ph' = ph
      BY <1>1, <1>4
    <2>2. op' = [op EXCEPT ![c] = FALSE]
      BY <1>1, <1>2, <1>4
    <2>3. op[c]
      BY <1>4
    <2>4. Contract!Refuse(c)
      BY <2>1, <2>2, <2>3 DEF Contract!Refuse
    <2> QED BY <2>4 DEF Contract!Next
  <1>5. CASE Phase(c) = "inflight" /\ Phase(c)' = "inflight" /\ ~Open(c) /\ Open(c)'
    BY <1>1, <1>5 DEF Contract!Next, Contract!Write
  <1>6. CASE Phase(c) = "ready" /\ Phase(c)' \in {"inflight", "held"} /\ Open(c)' = Open(c)
    <2>1. op' = op /\ ph[c] = "ready"
      BY <1>1, <1>6
    <2>2. ASSUME NEW go \in SUBSET {c}, NEW held \in SUBSET {c}, go \cap held = {},
                 ph' = [d \in Channels |-> IF d \in go THEN "inflight"
                                           ELSE IF d \in held THEN "held" ELSE ph[d]]
          PROVE  Contract!Claim
      <3>1. /\ go \in SUBSET Channels /\ held \in SUBSET Channels
            /\ \A d \in go : ph[d] = "ready"
            /\ \A d \in held : ph[d] \in {"ready", "held"}
        BY <2>1
      <3> QED BY <2>1, <2>2, <3>1 DEF Contract!Claim
    <2>3. /\ Phase(c)' = "inflight" =>
                ph' = [d \in Channels |-> IF d \in {c} THEN "inflight"
                                          ELSE IF d \in {} THEN "held" ELSE ph[d]]
          /\ Phase(c)' = "held" =>
                ph' = [d \in Channels |-> IF d \in {} THEN "inflight"
                                          ELSE IF d \in {c} THEN "held" ELSE ph[d]]
      BY <1>1
    <2>4. {c} \in SUBSET {c} /\ {} \in SUBSET {c} /\ {} \cap {c} = {} /\ {c} \cap {} = {}
      OBVIOUS
    <2> HIDE DEF ph, op
    <2>5. Contract!Claim
      BY <1>6, <2>2, <2>3, <2>4
    <2> QED BY <2>5 DEF Contract!Next
  <1>7. CASE Phase(c) \in {"inflight", "held"} /\ Phase(c)' = "ready" /\ ~Open(c)'
    BY <1>1, <1>2, <1>7 DEF Contract!Next, Contract!Settle, Contract!Rule
  <1>8. CASE Phase(c) = "inflight" /\ Phase(c)' \in {"held", "live"} /\ Open(c)' = Open(c)
    BY <1>1, <1>8 DEF Contract!Next, Contract!Settle
  <1>9. CASE Phase(c) = "held" /\ Phase(c)' = "live" /\ Open(c)' = Open(c)
    BY <1>1, <1>9 DEF Contract!Next, Contract!Rule
  <1> QED BY <1>2, <1>3, <1>4, <1>5, <1>6, <1>7, <1>8, <1>9 DEF Allowed

\* A claim of the group, as Delivery sees it.
LEMMA GroupClaims ==
    ASSUME Safe, DbType, RestType, NEW w \in Workers, PublishPostGroup(w)
    PROVE  [Contract!Next]_(Contract!vars)
  <1> DEFINE ph == [d \in Channels |-> Phase(d)]
             op == [d \in Channels |-> Open(d)]
  <1>1. CASE UNCHANGED <<row, hold, thr>>
    <2>1. \A c \in Channels : Untouched(c)
      BY <1>1, GroupStep DEF Untouched, SameRow, SameBook
    <2> QED BY <2>1, PhaseFrame DEF Contract!vars
  <1>2. SUFFICES ASSUME NEW D \in SUBSET Channels, NEW refused \in SUBSET Channels,
                        NEW go \in SUBSET Channels, GroupOutcome(w, D, refused, go)
                 PROVE  Contract!Next
    BY <1>1, GroupStep
  <1> DEFINE held == {c \in D : HoldReason(c)}
  <1>3. \A c \in D : row[c].status = "scheduled"
    BY <1>2 DEF GroupOutcome, IsDueNow
  <1>4. \A c \in Channels : row[c] \in Row
    BY DEF DbType
  <1>5. \A c \in go : Phase(c) = "ready" /\ Phase(c)' = "inflight"
    <2> TAKE c \in go
    <2>1. hold[c] = "none" /\ row'[c].status = "publishing" /\ hold'[c] = hold[c]
      BY <1>2, <1>4 DEF GroupOutcome, HoldReason, Row
    <2>2. row[c].status = "scheduled"
      BY <1>2, <1>3 DEF GroupOutcome
    <2> QED BY <2>1, <2>2 DEF Phase
  <1>6. \A c \in held : Phase(c) \in {"ready", "held"} /\ Phase(c)' = "held"
    <2> TAKE c \in held
    <2>1. row'[c].status = "failed" /\ hold'[c] = HoldKind(c) /\ HoldKind(c) # "none"
      BY <1>2, <1>4 DEF GroupOutcome, HoldKind, Row
    <2> QED BY <1>3, <2>1 DEF Phase
  <1>7. \A c \in Channels \ (go \cup held) : Phase(c)' = Phase(c)
    <2> TAKE c \in Channels \ (go \cup held)
    <2>1. hold'[c] = hold[c]
      BY <1>2 DEF GroupOutcome
    <2>2. CASE c \in refused
      <3>1. row'[c].status = "failed" /\ row[c].status = "scheduled"
        BY <1>2, <1>3, <1>4, <2>2 DEF GroupOutcome, Row
      <3> QED BY <2>1, <3>1 DEF Phase
    <2>3. CASE c \notin refused
      <3>1. row'[c] = row[c]
        BY <1>2, <2>3 DEF GroupOutcome
      <3> QED BY <2>1, <3>1 DEF Phase
    <2> QED BY <2>2, <2>3
  <1>8. op' = op
    <2>1. UNCHANGED <<platform, sent, excused>>
      BY GroupStep
    <2>2. \A c \in Channels : SameBook(c)
      BY <2>1 DEF SameBook
    <2> QED BY <2>2, OpenFrame
  <1>9. ph' = [c \in Channels |-> IF c \in go THEN "inflight"
                                  ELSE IF c \in held THEN "held" ELSE ph[c]]
    BY <1>5, <1>6, <1>7
  <1>10. go \in SUBSET Channels /\ held \in SUBSET Channels /\ go \cap held = {}
    BY <1>2 DEF GroupOutcome
  <1> HIDE DEF held
  <1>11. Contract!Claim
    BY <1>5, <1>6, <1>8, <1>9, <1>10 DEF Contract!Claim
  <1> QED BY <1>11 DEF Contract!Next

\* The engine is Delivery seen closely: it writes nothing while a copy is
\* open, makes a channel ready again only when none is, lets nobody but a
\* person take a channel out of `held`, and nothing out of `live`
\* (delivery.py, PublishEngine.confirm_pending_publishes).
THEOREM EngineImplementsDelivery ==
    ASSUME OneWorker, GuardedWeb
    PROVE  Spec => ImplementsDelivery
  <1>1. Init => Contract!Init
    <2> SUFFICES ASSUME Init PROVE Contract!Init
      OBVIOUS
    <2>1. \A c \in Channels : Phase(c) = "ready"
      BY DEF Init, Phase
    <2>2. \A c \in Channels : ~Open(c)
      BY DEF Init, Open, OpenAt, Possible
    <2> QED BY <2>1, <2>2 DEF Contract!Init, Open
  <1>2. IInv /\ IInv' /\ [Next]_vars => [Contract!Next]_(Contract!vars)
    <2> SUFFICES ASSUME Safe, DbType, RestType, Safe', [Next]_vars
                 PROVE  [Contract!Next]_(Contract!vars)
      BY TypeParts DEF IInv
    <2>1. CASE OneTouched
      <3>1. PICK c \in Channels : Touched(c) /\ \A d \in Channels \ {c} : Untouched(d)
        BY <2>1 DEF OneTouched
      <3>2. Allowed(c)
        BY <3>1, TouchAllowed DEF Safe, ChannelOK
      <3> QED BY <3>1, <3>2, PhaseFrame, AllowedStep
    <2>2. CASE \A d \in Channels : Untouched(d)
      BY <2>2, PhaseFrame DEF Contract!vars
    <2> QED BY <2>1, <2>2, StepEffect, GroupClaims
  <1> QED BY <1>1, <1>2, Inductive, PTL DEF Spec, ImplementsDelivery, Contract!Spec

-----------------------------------------------------------------------------
(* The question of an unknown outcome.                                     *)

LEMMA GroupKeeps ==
    ASSUME DbType, NEW w \in Workers, PublishPostGroup(w)
    PROVE  \A c \in Channels : hold'[c] = hold[c] \/ hold'[c] = HoldKind(c)
  <1>1. ASSUME NEW D \in SUBSET Channels, NEW refused \in SUBSET Channels,
               NEW go \in SUBSET Channels, GroupOutcome(w, D, refused, go)
        PROVE  \A c \in Channels : hold'[c] = hold[c] \/ hold'[c] = HoldKind(c)
    BY <1>1 DEF GroupOutcome
  <1> QED BY <1>1, GroupStep

\* The question of an unknown outcome is put away by a person's answer and by
\* nothing else; no claim of the row downgrades it (delivery.mark, hold_kind).
THEOREM PeopleAnswerUnknowns ==
    ASSUME OneWorker, GuardedWeb
    PROVE  Spec => UnknownNeedsAPerson
  <1> DEFINE Asked == \A c \in Channels : hold[c] = "unknown" /\ hold'[c] # "unknown"
                          => ReconcileExisting(c) \/ CheckedAbsent(c)
  <1>1. IInv /\ [Next]_vars => [Asked]_vars
    <2> SUFFICES ASSUME Safe, DbType, RestType, [Next]_vars PROVE Asked
      BY TypeParts DEF IInv
    <2>1. ASSUME NEW c \in Channels, Touched(c), hold[c] = "unknown", hold'[c] # "unknown"
          PROVE  Ruled(c)
      BY <2>1 DEF Touched, Untouched, SameRow, Settled, Recorded, Claimed, TurnedAway,
                  HoldKind, Edited, Written, Answered
    <2>2. ASSUME NEW w \in Workers, PublishPostGroup(w) PROVE Asked
      BY <2>2, GroupKeeps DEF HoldKind
    <2>3. ASSUME NEW c \in Channels, Untouched(c) PROVE hold'[c] = hold[c]
      BY <2>3 DEF Untouched, SameRow
    <2> QED BY <2>1, <2>2, <2>3, StepEffect DEF OneTouched, Ruled
  <1> QED BY <1>1, Inductive, PTL DEF Spec, UnknownNeedsAPerson

-----------------------------------------------------------------------------
(* The client's brake.                                                     *)

\* Under a hold nothing new is claimed, and only what is claimed is written.
LEMMA HeldStep ==
    ASSUME DbType, RestType, [Next]_vars, SiblingHeld
    PROVE  Underway' \subseteq Underway
  <1>1. /\ thr \in [Workers -> [Channels -> Thread]]
        /\ \A w \in Workers, c \in Channels :
              thr[w][c].stage \in {"claimed", "cleared"} <=> w \in Waiting(c)
    BY DEF RestType, Waiting
  <1>2. SUFFICES \A w \in Workers, c \in Channels :
                    thr'[w][c].stage \in {"claimed", "cleared"} => thr[w][c].stage \in {"claimed", "cleared"}
    BY DEF Underway, Waiting
  <1>3. CASE thr' = thr
    BY <1>3
  <1>4. ASSUME NEW w \in Workers, NEW c \in Channels,
               \/ CheckBeforeSending(w, c) \/ StopBeforeSending(w, c) \/ Send(w, c) \/ Answer(w, c)
               \/ RecordAccepted(w, c) \/ RecordFailure(w, c) \/ RecordNothing(w, c)
        PROVE  \A v \in Workers, d \in Channels :
                  thr'[v][d].stage \in {"claimed", "cleared"} => thr[v][d].stage \in {"claimed", "cleared"}
    <2>1. \E t : /\ thr' = [thr EXCEPT ![w][c] = t]
                 /\ t.stage \in {"claimed", "cleared"} => thr[w][c].stage \in {"claimed", "cleared"}
      <3>1. ASSUME NEW s, Goes(w, c, s), s # "cleared", s # "claimed"
            PROVE  \E t : thr' = [thr EXCEPT ![w][c] = t] /\ t.stage \notin {"claimed", "cleared"}
        <4>1. /\ thr' = [thr EXCEPT ![w][c] = [thr[w][c] EXCEPT !.stage = s]]
              /\ thr[w][c] \in Thread
          BY <1>1, <3>1 DEF Goes
        <4>2. [thr[w][c] EXCEPT !.stage = s].stage = s
          BY <4>1 DEF Thread
        <4> QED BY <3>1, <4>1, <4>2
      <3>2. Ends(w, c) => thr' = [thr EXCEPT ![w][c] = IdleThread] /\ IdleThread.stage = "idle"
        BY DEF Ends, IdleThread
      <3>3. Goes(w, c, "cleared") => thr' = [thr EXCEPT ![w][c] = [thr[w][c] EXCEPT !.stage = "cleared"]]
        BY <1>1 DEF Goes
      <3>4. CASE CheckBeforeSending(w, c)
        BY <3>2, <3>3, <3>4 DEF CheckBeforeSending
      <3>5. CASE StopBeforeSending(w, c)
        BY <3>1, <3>2, <3>5 DEF StopBeforeSending
      <3>6. CASE Send(w, c)
        BY <1>1, <3>6 DEF Send
      <3>7. CASE Answer(w, c)
        BY <3>1, <3>7 DEF Answer
      <3>8. CASE RecordAccepted(w, c) \/ RecordFailure(w, c) \/ RecordNothing(w, c)
        BY <3>2, <3>8 DEF RecordAccepted, RecordFailure, RecordNothing
      <3> QED BY <1>4, <3>4, <3>5, <3>6, <3>7, <3>8
    <2>2. PICK t : /\ thr' = [thr EXCEPT ![w][c] = t]
                   /\ t.stage \in {"claimed", "cleared"} => thr[w][c].stage \in {"claimed", "cleared"}
      BY <2>1
    <2>3. ASSUME NEW v \in Workers, NEW d \in Channels
          PROVE  thr'[v][d] = IF v = w /\ d = c THEN t ELSE thr[v][d]
      BY <1>1, <2>2
    <2> QED BY <2>2, <2>3
  <1>5. ASSUME NEW w \in Workers, Work(w)
        PROVE  \A v \in Workers, d \in Channels :
                  thr'[v][d].stage \in {"claimed", "cleared"} => thr[v][d].stage \in {"claimed", "cleared"}
    <2>1. PublishPostGroup(w) => thr' = thr
      BY GroupStep
    <2>2. \A c \in Channels : ProcessRetry(w, c) => thr' = thr
      BY RetryStep
    <2>3. FindDue(w) \/ FindRetries(w) \/ SweepRead(w) \/ SweepRow(w) \/ StartWorker(w) => thr' = thr
      BY DEF FindDue, FindRetries, SweepRead, SweepRow, StartWorker
    <2>4. CASE Crash(w)
      BY <1>1, <2>4 DEF Crash, Forgotten, IdleThread
    <2> QED BY <1>3, <1>4, <1>5, <2>1, <2>2, <2>3, <2>4 DEF Work
  <1>6. (\E c \in Channels : World(c)) \/ LoseLease \/ People \/ UNCHANGED vars => thr' = thr
    BY DEF World, TimePasses, BackoffEnds, ClaimAges, PlatformFinishes, LoseLease, People, WriteRow,
           LoadRow, Withdraw, ReconcileExisting, CheckedAbsent, vars
  <1> QED BY <1>3, <1>5, <1>6 DEF Next

LEMMA WriteNeedsClaim ==
    ASSUME RestType, [Next]_vars, NEW c \in Channels, sent'[c] # sent[c]
    PROVE  c \in Underway
  <1>1. PICK w \in Workers, d \in Channels : Send(w, d)
    <2>1. ASSUME NEW w \in Workers, Work(w) PROVE sent' = sent \/ \E d \in Channels : Send(w, d)
      BY <2>1, GroupStep, RetryStep
         DEF Work, FindDue, FindRetries, SweepRead, SweepRow, Crash, StartWorker, CheckBeforeSending,
             StopBeforeSending, Answer, RecordAccepted, RecordFailure, RecordNothing, extVars
    <2>2. (\E d \in Channels : World(d)) \/ LoseLease \/ People \/ UNCHANGED vars => sent' = sent
      BY DEF World, TimePasses, BackoffEnds, ClaimAges, PlatformFinishes, LoseLease, People, WriteRow,
             LoadRow, Withdraw, ReconcileExisting, CheckedAbsent, vars, extVars
    <2> QED BY <2>1, <2>2 DEF Next
  <1>2. c = d /\ thr[w][d].stage = "cleared"
    BY <1>1 DEF Send, RestType
  <1> QED BY <1>1, <1>2 DEF Underway, Waiting

\* The client's brake holds, whatever the workers, the faults and the web
\* operations: while a channel of a post is on hold the engine writes only
\* what it had claimed before the hold was placed, and that only once
\* (PublishEngine._publish_post_group, _process_retries).
THEOREM BrakeHolds == BrakeSpec => BrakeStopsWrites
  <1> DEFINE Covered == SiblingHeld => Underway \subseteq spare
             Braked == \A c \in Channels : SiblingHeld /\ sent'[c] # sent[c] => c \in spare
  <1>1. Init /\ spare = {} => TypeInv /\ Covered
    BY InitType DEF Init, SiblingHeld
  <1>2. TypeInv /\ Covered /\ [Next /\ Remember]_brakeVars => TypeInv' /\ Covered' /\ [Braked]_brakeVars
    <2> SUFFICES ASSUME TypeInv, Covered, [Next /\ Remember]_brakeVars
                 PROVE  TypeInv' /\ Covered' /\ Braked
      OBVIOUS
    <2>1. [Next]_vars
      BY DEF brakeVars
    <2>2. TypeInv'
      BY <2>1, NextType
    <2>3. SiblingHeld => Underway' \subseteq Underway
      BY <2>1, TypeParts, HeldStep
    <2>4. Covered'
      <3>1. CASE Remember
        BY <2>3, <3>1 DEF Remember
      <3>2. CASE UNCHANGED brakeVars
        <4>1. row' = row /\ thr' = thr /\ spare' = spare
          BY <3>2 DEF brakeVars, vars
        <4>2. SiblingHeld' = SiblingHeld /\ Underway' = Underway
          BY <4>1 DEF SiblingHeld, Underway, Waiting
        <4> QED BY <4>1, <4>2
      <3> QED BY <3>1, <3>2
    <2>5. Braked
      BY <2>1, TypeParts, WriteNeedsClaim
    <2> QED BY <2>2, <2>4, <2>5
  <1> QED BY <1>1, <1>2, PTL DEF BrakeSpec, BrakeStopsWrites

-----------------------------------------------------------------------------
(* The retry budget.                                                       *)

\* What has been spent on channel c since a person scheduled it is covered by
\* the counter its row will be retried with, or its thread was claimed with.
ThreadBudget(w, c) ==
    thr[w][c].stage # "idle" =>
        /\ tried[c] <= thr[w][c].tries + 1
        /\ thr[w][c].stage \in {"claimed", "cleared"} => tried[c] <= thr[w][c].tries

BudgetOK(c) ==
    /\ tried[c] <= MaxRetries + 1
    /\ row[c].status = "scheduled" => tried[c] <= row[c].retry
    /\ \A w \in Workers : ThreadBudget(w, c)

\* A step that spends nothing on c and starts nothing for it.
LeanRow(c) == row'[c].status = "scheduled" => row[c].status = "scheduled" /\ row'[c].retry = row[c].retry

LeanThread(w, c) ==
    thr'[w][c].stage # "idle" =>
        /\ thr[w][c].stage # "idle" /\ thr'[w][c].tries = thr[w][c].tries
        /\ thr'[w][c].stage \in {"claimed", "cleared"} => thr[w][c].stage \in {"claimed", "cleared"}

LEMMA LeanStep ==
    ASSUME NEW c \in Channels, BudgetOK(c), LeanRow(c), tried'[c] = tried[c],
           \A w \in Workers : LeanThread(w, c)
    PROVE  BudgetOK(c)'
  BY DEF BudgetOK, ThreadBudget, LeanRow, LeanThread

\* The engine's own ways to settle a row requeue none.
LEMMA LeanWrites ==
    ASSUME DbType, NEW c \in Channels, NEW from,
           \/ \E k : Mark(c, from, k)
           \/ FailPermanently(c)
           \/ BlockPublish(c, from)
           \/ UNCHANGED dbVars
    PROVE  \A d \in Channels : LeanRow(d)
  <1>1. row \in [Channels -> Row] /\ row[c] \in Row
    BY DEF DbType
  <1>2. \/ row' = row
        \/ row' = [row EXCEPT ![c] = [row[c] EXCEPT !.status = "failed", !.parked = FALSE, !.age = 0]]
        \/ row' = [row EXCEPT ![c] = [row[c] EXCEPT !.status = "failed", !.age = 0]]
    BY DEF Mark, FailPermanently, BlockPublish, dbVars
  <1> QED BY <1>1, <1>2 DEF LeanRow, Row

\* A thread that ends, or goes on but not to its start, spends nothing.
LEMMA LeanMoves ==
    ASSUME RestType, NEW w \in Workers, NEW c \in Channels, thr[w][c].stage # "idle",
           \/ Ends(w, c)
           \/ \E s \in Stages \ {"claimed", "cleared"} : Goes(w, c, s)
           \/ thr[w][c].stage = "claimed" /\ Goes(w, c, "cleared")
    PROVE  \A v \in Workers, d \in Channels : LeanThread(v, d)
  <1>1. thr \in [Workers -> [Channels -> Thread]] /\ thr[w][c] \in Thread
    BY DEF RestType
  <1>2. CASE Ends(w, c)
    BY <1>1, <1>2 DEF Ends, IdleThread, LeanThread
  <1>3. ASSUME NEW s, Goes(w, c, s),
               s \in {"claimed", "cleared"} => thr[w][c].stage \in {"claimed", "cleared"}
        PROVE  \A v \in Workers, d \in Channels : LeanThread(v, d)
    <2>1. /\ thr'[w][c].stage = s /\ thr'[w][c].tries = thr[w][c].tries
          /\ \A v \in Workers, d \in Channels : v # w \/ d # c => thr'[v][d] = thr[v][d]
      BY <1>1, <1>3 DEF Goes, Thread
    <2> QED BY <1>3, <2>1 DEF LeanThread
  <1> QED BY <1>2, <1>3

\* A thread's step other than the write itself.
LEMMA ThreadSpend ==
    ASSUME OneWorker, DbType, RestType, \A c \in Channels : BudgetOK(c),
           NEW w \in Workers, NEW c \in Channels,
           \/ CheckBeforeSending(w, c)
           \/ StopBeforeSending(w, c)
           \/ Answer(w, c)
           \/ RecordAccepted(w, c)
           \/ RecordFailure(w, c)
           \/ RecordNothing(w, c)
    PROVE  \A d \in Channels : BudgetOK(d)'
  <1> USE DEF extVars, dbVars
  <1>1. thr[w][c].stage # "idle" /\ tried' = tried
    BY DEF CheckBeforeSending, StopBeforeSending, Answer, RecordAccepted, RecordFailure, RecordNothing
  <1>2. \A v \in Workers, d \in Channels : LeanThread(v, d)
    <2>1. \/ Ends(w, c)
          \/ \E s \in {"accepted", "lost", "handled", "rejected", "refused"} : Goes(w, c, s)
          \/ thr[w][c].stage = "claimed" /\ Goes(w, c, "cleared")
      BY DEF CheckBeforeSending, StopBeforeSending, Answer, RecordAccepted, RecordFailure, RecordNothing
    <2>2. {"accepted", "lost", "handled", "rejected", "refused"} \subseteq Stages \ {"claimed", "cleared"}
      BY DEF Stages
    <2> QED BY <1>1, <2>1, <2>2, LeanMoves
  <1>3. CASE \A d \in Channels : LeanRow(d)
    BY <1>1, <1>2, <1>3, LeanStep
  <1>4. CASE ScheduleRetry(c, thr[w][c].tries) /\ Ends(w, c)
    <2>1. CASE thr[w][c].tries >= MaxRetries
      BY <1>3, <1>4, <2>1, LeanWrites DEF ScheduleRetry
    <2>2. CASE ~(thr[w][c].tries >= MaxRetries)
      <3>1. /\ row \in [Channels -> Row] /\ row[c] \in Row
            /\ thr \in [Workers -> [Channels -> Thread]]
        BY DEF DbType, RestType
      <3>2. row' = [row EXCEPT ![c] = [row[c] EXCEPT !.status = "scheduled",
                                          !.retry = thr[w][c].tries + 1, !.parked = TRUE, !.age = 0]]
        BY <1>4, <2>2 DEF ScheduleRetry
      <3>3. row'[c].retry = thr[w][c].tries + 1
        BY <3>1, <3>2 DEF Row
      <3>4. \A v \in Workers : thr'[v][c].stage = "idle"
        BY <1>4, <3>1 DEF OneWorker, Ends, IdleThread
      <3>5. BudgetOK(c)'
        BY <1>1, <3>3, <3>4 DEF BudgetOK, ThreadBudget
      <3>6. \A d \in Channels \ {c} : LeanRow(d)
        BY <3>1, <3>2 DEF LeanRow
      <3> QED BY <1>1, <1>2, <3>5, <3>6, LeanStep
    <2> QED BY <2>1, <2>2
  <1>5. ASSUME \E from : \/ \E k : Mark(c, from, k)
                         \/ FailPermanently(c)
                         \/ BlockPublish(c, from)
                         \/ UNCHANGED dbVars
        PROVE  \A d \in Channels : BudgetOK(d)'
    BY <1>3, <1>5, LeanWrites
  <1>6. CASE \E r : /\ row' = [row EXCEPT ![c] = r]
                    /\ r.status \in {"publishing", "published"}
    BY <1>3, <1>6 DEF LeanRow, DbType
  <1>7. CASE CheckBeforeSending(w, c)
    BY <1>4, <1>5, <1>7 DEF CheckBeforeSending
  <1>8. CASE StopBeforeSending(w, c)
    BY <1>5, <1>8 DEF StopBeforeSending
  <1>9. CASE Answer(w, c)
    BY <1>5, <1>9 DEF Answer
  <1>10. CASE RecordAccepted(w, c)
    <2>1. row[c] \in Row
      BY DEF DbType
    <2>2. \A s \in {"publishing", "published"} :
             [row[c] EXCEPT !.status = s, !.handle = thr[w][c].n, !.retry = 0,
                            !.parked = FALSE, !.age = 0].status = s
      BY <2>1 DEF Row
    <2> QED BY <1>5, <1>6, <1>10, <2>2 DEF RecordAccepted
  <1>11. CASE RecordFailure(w, c)
    <2>1. row[c] \in Row
      BY DEF DbType
    <2>2. [row[c] EXCEPT !.handle = thr[w][c].n, !.retry = 0, !.parked = FALSE, !.age = 0].status
             = row[c].status
      BY <2>1 DEF Row
    <2>3. CASE thr[w][c].stage = "handled"
      BY <1>5, <1>6, <1>11, <2>2, <2>3 DEF RecordFailure
    <2>4. CASE thr[w][c].stage # "handled"
      BY <1>4, <1>5, <1>11, <2>4 DEF RecordFailure
    <2> QED BY <2>3, <2>4
  <1>12. CASE RecordNothing(w, c)
    BY <1>5, <1>12 DEF RecordNothing
  <1> QED BY <1>7, <1>8, <1>9, <1>10, <1>11, <1>12

\* The write is the one step that spends.
LEMMA SendSpend ==
    ASSUME OneWorker, Safe, DbType, RestType, \A c \in Channels : BudgetOK(c),
           NEW w \in Workers, NEW c \in Channels, Send(w, c)
    PROVE  \A d \in Channels : BudgetOK(d)'
  <1>1. /\ thr[w][c].stage = "cleared" /\ row' = row
        /\ thr \in [Workers -> [Channels -> Thread]] /\ thr[w][c] \in Thread
        /\ tried \in [Channels -> 0..MaxAttempts]
    BY DEF Send, RestType, dbVars
  <1>2. /\ tried' = [tried EXCEPT ![c] = @ + 1]
        /\ thr' = [thr EXCEPT ![w][c] = [@ EXCEPT !.stage = "sending", !.n = sent[c] + 1]]
    BY DEF Send
  <1>3. \A d \in Channels \ {c} : BudgetOK(d)'
    <2>1. \A d \in Channels \ {c} : tried'[d] = tried[d] /\ \A v \in Workers : thr'[v][d] = thr[v][d]
      BY <1>1, <1>2
    <2> QED BY <1>1, <2>1, LeanStep DEF LeanRow, LeanThread
  <1>4. BudgetOK(c)'
    <2>1. thr'[w][c].stage = "sending" /\ thr'[w][c].tries = thr[w][c].tries
      BY <1>1, <1>2 DEF Thread
    <2>2. tried'[c] = tried[c] + 1 /\ tried[c] <= thr[w][c].tries
      BY <1>1, <1>2 DEF BudgetOK, ThreadBudget
    <2>3. thr[w][c].tries \in 0..MaxRetries /\ tried[c] \in Nat /\ MaxRetries \in Nat
      BY <1>1, PublishingAssumption DEF Thread
    <2>4. tried'[c] <= thr'[w][c].tries + 1 /\ tried'[c] <= MaxRetries + 1
      BY <2>1, <2>2, <2>3
    <2>5. row'[c].status # "scheduled"
      BY <1>1, AtWork
    <2> QED BY <2>1, <2>4, <2>5 DEF BudgetOK, ThreadBudget, OneWorker
  <1> QED BY <1>3, <1>4

\* A claimed row hands its counter on to its thread.
LEMMA ClaimSpend ==
    ASSUME OneWorker, DbType, RestType, \A c \in Channels : BudgetOK(c), NEW w \in Workers,
           PublishPostGroup(w) \/ \E c \in Channels : ProcessRetry(w, c)
    PROVE  \A d \in Channels : BudgetOK(d)'
  <1>1. /\ tried' = tried /\ \A d \in Channels : thr[w][d].stage = "idle"
        /\ thr \in [Workers -> [Channels -> Thread]]
        /\ row \in [Channels -> Row] /\ \A d \in Channels : row[d] \in Row
    BY GroupStep, RetryStep DEF AtHand, DbType, RestType
  <1>2. ASSUME NEW d \in Channels, row[d].status = "scheduled",
               row'[d].status # "scheduled", thr'[w][d] = ClaimedThread(d)
        PROVE  BudgetOK(d)'
    <2>1. thr'[w][d].tries = row[d].retry
      BY <1>2 DEF ClaimedThread
    <2>2. tried'[d] <= thr'[w][d].tries /\ thr'[w][d].tries \in Nat
      BY <1>1, <1>2, <2>1 DEF BudgetOK, Row
    <2>3. tried'[d] \in Nat /\ tried'[d] <= MaxRetries + 1
      BY <1>1 DEF RestType, BudgetOK
    <2> QED BY <1>2, <2>2, <2>3 DEF BudgetOK, ThreadBudget, OneWorker
  <1>3. ASSUME NEW d \in Channels, LeanRow(d), thr'[w][d] = thr[w][d]
        PROVE  BudgetOK(d)'
    BY <1>1, <1>3, LeanStep DEF LeanThread, OneWorker
  <1>4. CASE PublishPostGroup(w)
    <2>4. CASE UNCHANGED <<row, hold, thr>>
      BY <1>1, <1>3, <2>4 DEF LeanRow
    <2>1. SUFFICES ASSUME NEW D \in SUBSET Channels, NEW refused \in SUBSET Channels,
                          NEW go \in SUBSET Channels, GroupOutcome(w, D, refused, go)
                   PROVE  \A d \in Channels : BudgetOK(d)'
      BY <1>4, <2>4, GroupStep
    <2>2. ASSUME NEW d \in go PROVE BudgetOK(d)'
      <3>1. row[d].status = "scheduled" /\ row'[d].status = "publishing"
        BY <1>1, <2>1 DEF GroupOutcome, IsDueNow, Row
      <3>2. thr'[w][d] = ClaimedThread(d)
        BY <1>1, <2>1 DEF GroupOutcome
      <3> QED BY <1>2, <3>1, <3>2
    <2>3. ASSUME NEW d \in Channels \ go PROVE BudgetOK(d)'
      <3>1. row'[d].status = "failed" \/ row'[d] = row[d]
        BY <1>1, <2>1 DEF GroupOutcome, Row
      <3>2. thr'[w][d] = thr[w][d]
        BY <1>1, <2>1 DEF GroupOutcome
      <3> QED BY <1>3, <3>1, <3>2 DEF LeanRow
    <2> QED BY <2>2, <2>3
  <1>5. ASSUME NEW c \in Channels, ProcessRetry(w, c) PROVE \A d \in Channels : BudgetOK(d)'
    <2>1. CASE (BlockPublish(c, "scheduled") \/ Mark(c, "scheduled", HoldKind(c))) /\ thr' = thr
      BY <1>3, <2>1, LeanWrites
    <2>3. CASE UNCHANGED <<row, hold, thr>>
      BY <1>3, <2>3 DEF LeanRow
    <2>2. CASE /\ RetryDue(c)
               /\ row' = [row EXCEPT ![c] = [@ EXCEPT !.status = "publishing", !.age = 0]]
               /\ thr' = [thr EXCEPT ![w][c] = ClaimedThread(c)]
      <3>1. row'[c].status = "publishing" /\ \A d \in Channels \ {c} : row'[d] = row[d]
        BY <1>1, <2>2 DEF Row
      <3>2. thr'[w][c] = ClaimedThread(c) /\ \A d \in Channels \ {c} : thr'[w][d] = thr[w][d]
        BY <1>1, <2>2
      <3> QED BY <1>2, <1>3, <2>2, <3>1, <3>2 DEF RetryDue, LeanRow
    <2> QED BY <1>5, <2>1, <2>2, <2>3, RetryStep
  <1> QED BY <1>4, <1>5

\* Deliberate scheduling starts the count afresh; no other edit requeues.
LEMMA PeopleSpend ==
    ASSUME GuardedWeb, Safe, DbType, RestType, \A c \in Channels : BudgetOK(c), People
    PROVE  \A d \in Channels : BudgetOK(d)'
  <1>1. /\ thr' = thr /\ row \in [Channels -> Row] /\ \A d \in Channels : row[d] \in Row
        /\ tried \in [Channels -> 0..MaxAttempts]
    BY DEF People, WriteRow, LoadRow, Withdraw, ReconcileExisting, CheckedAbsent, DbType, RestType
  <1>2. ASSUME NEW d \in Channels, LeanRow(d), tried'[d] = tried[d] PROVE BudgetOK(d)'
    BY <1>1, <1>2, LeanStep DEF LeanThread
  <1>3. CASE WriteRow
    <2>1. PICK q \in requests :
            /\ \E when \in NewTimes(q.op) :
                  row' = IF Writable(q) THEN [row EXCEPT ![q.c] = WrittenBack(q, when)] ELSE row
            /\ tried' = IF Writable(q) /\ Target(q.op) = "scheduled"
                        THEN [tried EXCEPT ![q.c] = 0] ELSE tried
      BY <1>3 DEF WriteRow
    <2>2. q.op \in GuardedOps /\ q.old.status \in From(q.op) /\ q.c \in Channels
      BY <2>1 DEF Safe, RequestOK, RestType, Request
    <2>3. CASE ~Writable(q)
      BY <1>2, <2>1, <2>3 DEF LeanRow
    <2>4. CASE Writable(q)
      <3>1. \A w \in Workers : thr[w][q.c].stage = "idle"
        BY <2>2, <2>4, WebFacts, AtWork DEF Writable
      <3>2. PICK when \in NewTimes(q.op) : row' = [row EXCEPT ![q.c] = WrittenBack(q, when)]
        BY <2>1, <2>4
      <3>3. row'[q.c] = WrittenBack(q, when) /\ \A d \in Channels \ {q.c} : row'[d] = row[d]
        BY <1>1, <2>2, <3>2
      <3>4. row'[q.c].status = Target(q.op) /\ (Target(q.op) = "scheduled" => row'[q.c].retry = 0)
        BY <3>3 DEF WrittenBack
      <3>5. ASSUME NEW d \in Channels \ {q.c} PROVE BudgetOK(d)'
        <4>1. tried'[d] = tried[d]
          BY <1>1, <2>1, <2>2
        <4> QED BY <1>2, <3>3, <4>1 DEF LeanRow
      <3>6. BudgetOK(q.c)'
        <4>1. CASE Target(q.op) = "scheduled"
          <5>1. tried'[q.c] = 0
            BY <1>1, <2>1, <2>2, <2>4, <4>1
          <5>2. row'[q.c].retry = 0 /\ MaxRetries \in Nat
            BY <3>4, <4>1, PublishingAssumption
          <5> QED BY <1>1, <2>2, <3>1, <5>1, <5>2 DEF BudgetOK, ThreadBudget
        <4>2. CASE Target(q.op) # "scheduled"
          BY <1>2, <2>1, <2>2, <3>4, <4>2 DEF LeanRow
        <4> QED BY <4>1, <4>2
      <3> QED BY <3>5, <3>6
    <2> QED BY <2>3, <2>4
  <1>4. CASE ~WriteRow
    <2>1. tried' = tried
      BY <1>4 DEF People, LoadRow, Withdraw, ReconcileExisting, CheckedAbsent, extVars
    <2>2. \A d \in Channels : row'[d] = row[d] \/ row'[d].status \in {"pending_review", "published"}
      <3>1. ASSUME NEW c \in Channels, Withdraw(c)
            PROVE  row'[c].status = "pending_review" /\ \A d \in Channels \ {c} : row'[d] = row[d]
        BY <1>1, <3>1 DEF Withdraw, Row
      <3>2. ASSUME NEW c \in Channels, ReconcileExisting(c)
            PROVE  row'[c].status = "published" /\ \A d \in Channels \ {c} : row'[d] = row[d]
        BY <1>1, <3>2 DEF ReconcileExisting, Row
      <3>3. ASSUME NEW c \in Channels, CheckedAbsent(c)
            PROVE  row'[c].status = "pending_review" /\ \A d \in Channels \ {c} : row'[d] = row[d]
        BY <1>1, <3>3 DEF CheckedAbsent
      <3>4. (\E c \in Channels, op \in WebOps : LoadRow(op, c)) => row' = row
        BY DEF LoadRow, dbVars
      <3> QED BY <1>4, <3>1, <3>2, <3>3, <3>4 DEF People
    <2> QED BY <1>1, <1>2, <2>1, <2>2 DEF LeanRow
  <1> QED BY <1>3, <1>4

LEMMA BudgetStep ==
    ASSUME OneWorker, GuardedWeb, Safe, DbType, RestType, [Next]_vars,
           \A c \in Channels : BudgetOK(c)
    PROVE  \A c \in Channels : BudgetOK(c)'
  <1> USE DEF extVars, dbVars
  <1>1. ASSUME row' = row, tried' = tried, thr' = thr
        PROVE  \A c \in Channels : BudgetOK(c)'
    BY <1>1, LeanStep DEF LeanRow, LeanThread
  <1>2. ASSUME NEW w \in Workers, Work(w) PROVE \A c \in Channels : BudgetOK(c)'
    <2>1. CASE SweepRead(w) \/ StartWorker(w) \/ FindDue(w) \/ FindRetries(w)
      BY <1>1, <2>1 DEF SweepRead, StartWorker, FindDue, FindRetries
    <2>2. CASE Crash(w)
      <3>1. row' = row /\ tried' = tried
        BY <2>2 DEF Crash
      <3>2. \A v \in Workers, c \in Channels : LeanThread(v, c)
        BY <2>2 DEF Crash, Forgotten, IdleThread, LeanThread, OneWorker, RestType
      <3> QED BY <3>1, <3>2, LeanStep DEF LeanRow
    <2>3. CASE SweepRow(w)
      <3>1. PICK s \in look[w] : SweepUnaskable(s) \/ SweepAsk(s)
        BY <2>3 DEF SweepRow
      <3>2. thr' = thr /\ tried' = tried /\ s.c \in Channels
        BY <2>3, <3>1 DEF SweepRow, RestType, Sight
      <3>3. \A c \in Channels : LeanRow(c)
        <4>1. CASE \/ \E k : Mark(s.c, "publishing", k)
                   \/ FailPermanently(s.c)
                   \/ UNCHANGED dbVars
          BY <3>2, <4>1, LeanWrites
        <4>2. CASE row' = [row EXCEPT ![s.c] = [@ EXCEPT !.status = "published",
                                                          !.handle = s.handle, !.age = 0]]
          <5>1. row \in [Channels -> Row] /\ row[s.c] \in Row
            BY <3>2 DEF DbType
          <5> QED BY <4>2, <5>1 DEF LeanRow, Row
        <4> QED BY <3>1, <4>1, <4>2 DEF SweepUnaskable, SweepAsk
      <3> QED BY <3>2, <3>3, LeanStep DEF LeanThread
    <2>4. ASSUME NEW c \in Channels,
                 \/ CheckBeforeSending(w, c) \/ StopBeforeSending(w, c) \/ Answer(w, c)
                 \/ RecordAccepted(w, c) \/ RecordFailure(w, c) \/ RecordNothing(w, c)
          PROVE  \A d \in Channels : BudgetOK(d)'
      BY <2>4, ThreadSpend
    <2> QED BY <1>2, <2>1, <2>2, <2>3, <2>4, SendSpend, ClaimSpend DEF Work
  <1>3. ASSUME NEW c \in Channels, World(c) PROVE \A d \in Channels : BudgetOK(d)'
    <2>1. /\ thr' = thr /\ tried' = tried
          /\ \/ row' = row
             \/ row' = [row EXCEPT ![c].sched = "due"]
             \/ row' = [row EXCEPT ![c].sched = "late"]
             \/ row' = [row EXCEPT ![c].parked = FALSE]
             \/ row' = [row EXCEPT ![c].age = @ + 1]
      BY <1>3 DEF World, TimePasses, BackoffEnds, ClaimAges, PlatformFinishes
    <2>2. row \in [Channels -> Row] /\ row[c] \in Row
      BY DEF DbType
    <2>3. \A d \in Channels : LeanRow(d)
      BY <2>1, <2>2 DEF LeanRow, Row
    <2> QED BY <2>1, <2>3, LeanStep DEF LeanThread
  <1>4. CASE LoseLease \/ UNCHANGED vars
    BY <1>1, <1>4 DEF LoseLease, vars
  <1> QED BY <1>2, <1>3, <1>4, PeopleSpend DEF Next

\* However often the publish cycle, the retry pass and crashes come between,
\* one deliberate scheduling buys at most 1 + MAX_RETRIES platform writes
\* (PublishEngine._schedule_retry, _process_retries).
THEOREM BudgetIsKept ==
    ASSUME OneWorker, GuardedWeb
    PROVE  Spec => []RetryBudget
  <1> DEFINE Kept == \A c \in Channels : BudgetOK(c)
  <1>1. Init => Kept
    BY PublishingAssumption DEF Init, IdleThread, BudgetOK, ThreadBudget
  <1>2. IInv /\ Kept /\ [Next]_vars => Kept'
    <2> SUFFICES ASSUME Safe, DbType, RestType, Kept, [Next]_vars PROVE Kept'
      BY TypeParts DEF IInv
    <2> QED BY BudgetStep
  <1>3. Kept => RetryBudget
    BY DEF BudgetOK, RetryBudget
  <1> QED BY <1>1, <1>2, <1>3, Inductive, PTL DEF Spec

===============================================================================
