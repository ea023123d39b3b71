--------------------------- MODULE PublishingProofs ---------------------------
(***************************************************************************)
(* Theorems about Publishing, for every set of channels and workers and    *)
(* every bound.                                                            *)
(***************************************************************************)
EXTENDS Publishing, TLAPS

-----------------------------------------------------------------------------
(* Type correctness.                                                       *)

HoldKinds == {"none", "unknown", "expired"}

\* The values handlers write, as members of the sets they are written to; the
\* sets stay closed in the proofs below.
LEMMA Values ==
    /\ {"draft", "pending_review", "approved", "scheduled", "publishing",
        "published", "failed", "on_hold"} \subseteq Statuses
    /\ {"none", "future", "due", "late"} \subseteq Times
    /\ 0 \in Ages /\ 0 \in 0..MaxRetries /\ 0 \in 0..MaxAttempts
    /\ \A a \in Ages : a < 3 => a + 1 \in Ages
    /\ {TRUE, FALSE} \subseteq BOOLEAN
    /\ {"idle", "claimed", "cleared", "sending", "accepted", "handled", "lost",
        "rejected", "refused"} \subseteq Stages
    /\ {"unsent", "processing", "live", "refused"} \subseteq Verdicts
    /\ \A c : HoldKind(c) \in {"unknown", "expired"}
  BY PublishingAssumption DEF Statuses, Times, Ages, Stages, Verdicts, HoldKind

\* A record of a row stays one under every combination of writes in use.
LEMMA RowWrites ==
    ASSUME NEW r \in Row, NEW s \in Statuses, NEW a \in Ages, NEW b \in BOOLEAN,
           NEW n \in 0..MaxRetries, NEW h \in 0..MaxAttempts, NEW t \in Times
    PROVE  /\ [r EXCEPT !.status = s, !.age = a] \in Row
           /\ [r EXCEPT !.status = s, !.parked = b, !.age = a] \in Row
           /\ [r EXCEPT !.status = s, !.retry = n, !.parked = b, !.age = a] \in Row
           /\ [r EXCEPT !.status = s, !.handle = h, !.age = a] \in Row
           /\ [r EXCEPT !.status = s, !.handle = h, !.parked = b, !.age = a] \in Row
           /\ [r EXCEPT !.status = s, !.handle = h, !.retry = n, !.parked = b, !.age = a] \in Row
           /\ [r EXCEPT !.handle = h, !.retry = n, !.parked = b, !.age = a] \in Row
           /\ [r EXCEPT !.sched = t] \in Row
           /\ [r EXCEPT !.parked = b] \in Row
           /\ [r EXCEPT !.age = a] \in Row
           /\ [status |-> s, sched |-> t, retry |-> n, parked |-> b, handle |-> h, age |-> a] \in Row
  BY DEF Row

\* The part of TypeOK the handlers' shared writes touch.
DbType == row \in [Channels -> Row] /\ hold \in [Channels -> HoldKinds]

LEMMA MarkType ==
    ASSUME DbType, NEW c \in Channels, NEW from, NEW kind \in {"unknown", "expired"},
           Mark(c, from, kind)
    PROVE  DbType'
  <1>1. [row[c] EXCEPT !.status = "failed", !.parked = FALSE, !.age = 0] \in Row
    BY Values, RowWrites DEF DbType
  <1> QED BY <1>1 DEF DbType, Mark, HoldKinds, dbVars

LEMMA FailType ==
    ASSUME DbType, NEW c \in Channels, FailPermanently(c)
    PROVE  DbType'
  <1>1. [row[c] EXCEPT !.status = "failed", !.parked = FALSE, !.age = 0] \in Row
    BY Values, RowWrites DEF DbType
  <1> QED BY <1>1 DEF DbType, FailPermanently

LEMMA RetryType ==
    ASSUME DbType, NEW c \in Channels, NEW tries \in 0..MaxRetries, ScheduleRetry(c, tries)
    PROVE  DbType'
  <1>1. CASE tries >= MaxRetries
    BY <1>1, FailType DEF ScheduleRetry
  <1>2. CASE ~(tries >= MaxRetries)
    <2>1. tries + 1 \in 0..MaxRetries
      BY <1>2, PublishingAssumption
    <2>2. [row[c] EXCEPT !.status = "scheduled", !.retry = tries + 1, !.parked = TRUE, !.age = 0] \in Row
      BY <2>1, Values, RowWrites DEF DbType
    <2> QED BY <1>2, <2>2 DEF DbType, ScheduleRetry
  <1> QED BY <1>1, <1>2

LEMMA BlockType ==
    ASSUME DbType, NEW c \in Channels, NEW from, BlockPublish(c, from)
    PROVE  DbType'
  <1>1. [row[c] EXCEPT !.status = "failed", !.age = 0] \in Row
    BY Values, RowWrites DEF DbType
  <1> QED BY <1>1 DEF DbType, BlockPublish

LEMMA ThreadType ==
    ASSUME thr \in [Workers -> [Channels -> Thread]], NEW w \in Workers, NEW c \in Channels
    PROVE  /\ Ends(w, c) => thr' \in [Workers -> [Channels -> Thread]]
           /\ \A s \in Stages : Goes(w, c, s) => thr' \in [Workers -> [Channels -> Thread]]
           /\ DbType => ClaimedThread(c) \in Thread
           /\ thr[w][c].n \in 0..MaxAttempts /\ thr[w][c].tries \in 0..MaxRetries
           /\ thr[w][c].stage \in Stages
  <1>1. IdleThread \in Thread
    BY Values DEF IdleThread, Thread
  <1>2. thr[w][c] \in Thread
    OBVIOUS
  <1>3. \A s \in Stages : [thr[w][c] EXCEPT !.stage = s] \in Thread
    BY <1>2 DEF Thread
  <1>4. ASSUME DbType PROVE ClaimedThread(c) \in Thread
    BY <1>4, Values DEF ClaimedThread, Thread, DbType, Row
  <1>5. Ends(w, c) => thr' \in [Workers -> [Channels -> Thread]]
    BY <1>1 DEF Ends
  <1>6. \A s \in Stages : Goes(w, c, s) => thr' \in [Workers -> [Channels -> Thread]]
    BY <1>3 DEF Goes
  <1>7. /\ thr[w][c].n \in 0..MaxAttempts /\ thr[w][c].tries \in 0..MaxRetries
        /\ thr[w][c].stage \in Stages
    BY <1>2 DEF Thread
  <1> QED BY <1>4, <1>5, <1>6, <1>7

\* TypeOK needs one fact more to be inductive: writes since the last
\* scheduling are among the writes made.
TypeInv == TypeOK /\ \A c \in Channels : tried[c] <= sent[c]

LEMMA InitType == Init => TypeInv
  <1> SUFFICES ASSUME Init PROVE TypeInv
    OBVIOUS
  <1>1. [status |-> "draft", sched |-> "none", retry |-> 0, parked |-> FALSE,
         handle |-> 0, age |-> 0] \in Row
    BY Values DEF Row
  <1>2. IdleThread \in Thread
    BY Values DEF IdleThread, Thread
  <1>3. row \in [Channels -> Row] /\ thr \in [Workers -> [Channels -> Thread]]
    BY <1>1, <1>2 DEF Init
  <1> QED BY <1>3, PublishingAssumption DEF Init, TypeInv, TypeOK, Verdicts

\* Facts about the web operations that their CASE tables hide.
LEMMA WebFacts ==
    ASSUME NEW op \in GuardedOps \cup ApiOps
    PROVE  /\ Target(op) \in Statuses \ {"publishing", "published", "failed"}
           /\ From(op) \subseteq Statuses \ {"publishing", "published"}
           /\ NewTimes(op) \subseteq Times \cup {"keep"}
           /\ "keep" \notin Times
  BY DEF GuardedOps, ApiOps, Target, From, NewTimes, Statuses, Times

LEMMA WrittenBackType ==
    ASSUME DbType, NEW q \in Request, NEW when \in NewTimes(q.op)
    PROVE  WrittenBack(q, when) \in Row
  <1>1. /\ q.op \in GuardedOps \cup ApiOps /\ q.c \in Channels /\ q.old \in Copy
    BY DEF Request
  <1>2. /\ q.old.retry \in 0..MaxRetries /\ q.old.parked \in BOOLEAN
        /\ q.old.handle \in 0..MaxAttempts /\ row[q.c].sched \in Times
    BY <1>1 DEF DbType, Row, Copy
  <1>3. Target(q.op) \in Statuses /\ (when = "keep" \/ when \in Times)
    BY <1>1, WebFacts
  <1>4. /\ (IF when = "keep" THEN row[q.c].sched ELSE when) \in Times
        /\ (IF Target(q.op) = "scheduled" THEN 0 ELSE q.old.retry) \in 0..MaxRetries
        /\ (IF Target(q.op) = "scheduled" THEN FALSE ELSE q.old.parked) \in BOOLEAN
        /\ (IF Target(q.op) = "scheduled" /\ q.op # "retime" THEN 0 ELSE q.old.handle) \in 0..MaxAttempts
    BY <1>2, <1>3, Values
  <1> QED BY <1>3, <1>4, Values DEF WrittenBack, Row

\* TypeInv in the two parts the actions touch separately.
RestType ==
    /\ thr \in [Workers -> [Channels -> Thread]]
    /\ look \in [Workers -> SUBSET Sight]
    /\ found \in [Workers -> SUBSET Find]
    /\ lease \in Workers \cup {Nobody}
    /\ requests \in SUBSET Request
    /\ platform \in [Channels -> [Attempts -> Verdicts]]
    /\ sent \in [Channels -> 0..MaxAttempts]
    /\ tried \in [Channels -> 0..MaxAttempts]
    /\ excused \in [Channels -> SUBSET Attempts]
    /\ faults \in 0..MaxFaults
    /\ \A c \in Channels : tried[c] <= sent[c]

LEMMA TypeParts == TypeInv <=> DbType /\ RestType
  BY DEF TypeInv, TypeOK, DbType, RestType, HoldKinds

-----------------------------------------------------------------------------
(* What a claim does, for the proofs that follow it.                       *)

\* Of the rows D that are due, some are held, some refused; go are claimed.
GroupOutcome(w, D, refused, go) ==
    LET held == {c \in D : HoldReason(c)}
    IN  /\ \A c \in D : IsDueNow(c)
        /\ refused \subseteq D \ held
        /\ go \subseteq D \ (held \cup refused)
        /\ row' = [c \in Channels |->
             IF c \in held THEN [row[c] EXCEPT !.status = "failed", !.parked = FALSE, !.age = 0]
             ELSE IF c \in refused THEN [row[c] EXCEPT !.status = "failed", !.age = 0]
             ELSE IF c \in go THEN [row[c] EXCEPT !.status = "publishing", !.age = 0]
             ELSE row[c]]
        /\ hold' = [c \in Channels |-> IF c \in held THEN HoldKind(c) ELSE hold[c]]
        /\ thr' = [thr EXCEPT ![w] =
             [c \in Channels |-> IF c \in go THEN ClaimedThread(c) ELSE thr[w][c]]]

LEMMA GroupStep ==
    ASSUME NEW w \in Workers, PublishPostGroup(w)
    PROVE  /\ AtHand(w) /\ found' = [found EXCEPT ![w] = {}]
           /\ UNCHANGED <<look, lease, requests, platform, sent, tried, excused, faults>>
           /\ \/ UNCHANGED <<row, hold, thr>>
              \/ ~SiblingHeld /\ \E D, refused, go \in SUBSET Channels : GroupOutcome(w, D, refused, go)
  <1>1. CASE HeldUnderLock
    BY <1>1 DEF PublishPostGroup, dbVars, extVars
  <1>2. CASE ~HeldUnderLock
    <2>1. ClaimGroup(w)
      BY <1>2 DEF PublishPostGroup
    <2> DEFINE due == {c \in Channels : <<c, "due">> \in found[w] /\ IsDueNow(c)}
               held == {c \in due : HoldReason(c)}
               claimed(refused) == {c \in due \ (held \cup refused) : InBounds(c)}
    <2>2. PICK refused \in SUBSET Channels :
            /\ refused \subseteq due \ held
            /\ row' = [c \in Channels |->
                 IF c \in held THEN [row[c] EXCEPT !.status = "failed", !.parked = FALSE, !.age = 0]
                 ELSE IF c \in refused THEN [row[c] EXCEPT !.status = "failed", !.age = 0]
                 ELSE IF c \in claimed(refused) THEN [row[c] EXCEPT !.status = "publishing", !.age = 0]
                 ELSE row[c]]
            /\ hold' = [c \in Channels |-> IF c \in held THEN HoldKind(c) ELSE hold[c]]
            /\ thr' = [thr EXCEPT ![w] =
                 [c \in Channels |-> IF c \in claimed(refused) THEN ClaimedThread(c) ELSE thr[w][c]]]
      BY <2>1 DEF ClaimGroup
    <2> DEFINE go == claimed(refused)
    <2>3. due \in SUBSET Channels /\ go \in SUBSET Channels /\ go \subseteq due \ (held \cup refused)
      OBVIOUS
    <2>4. \A c \in due : IsDueNow(c)
      OBVIOUS
    <2>5. GroupOutcome(w, due, refused, go)
      BY <2>2, <2>3, <2>4, Zenon DEF GroupOutcome
    <2> HIDE DEF due, go
    <2> QED BY <1>2, <2>2, <2>3, <2>5 DEF PublishPostGroup, HeldUnderLock, extVars
  <1> QED BY <1>1, <1>2

LEMMA RetryStep ==
    ASSUME NEW w \in Workers, NEW c \in Channels, ProcessRetry(w, c)
    PROVE  /\ AtHand(w) /\ found' = [found EXCEPT ![w] = @ \ {<<c, "retry">>}]
           /\ UNCHANGED <<look, lease, requests, platform, sent, tried, excused, faults>>
           /\ \/ UNCHANGED <<row, hold, thr>>
              \/ ~SiblingHeld /\ RetryDue(c) /\ BlockPublish(c, "scheduled") /\ thr' = thr
              \/ ~SiblingHeld /\ RetryDue(c) /\ Mark(c, "scheduled", HoldKind(c)) /\ thr' = thr
              \/ /\ ~SiblingHeld /\ RetryDue(c) /\ ~HoldReason(c)
                 /\ row' = [row EXCEPT ![c] = [@ EXCEPT !.status = "publishing", !.age = 0]]
                 /\ thr' = [thr EXCEPT ![w][c] = ClaimedThread(c)]
                 /\ hold' = hold
  <1>1. CASE HeldUnderLock \/ ~RetryDue(c)
    BY <1>1 DEF ProcessRetry, dbVars, extVars
  <1>2. CASE ~HeldUnderLock /\ RetryDue(c)
    <2>1. ClaimRetry(w, c)
      BY <1>2 DEF ProcessRetry
    <2> QED BY <1>2, <2>1 DEF ProcessRetry, ClaimRetry, HeldUnderLock, dbVars, extVars
  <1> QED BY <1>1, <1>2

LEMMA WorkType ==
    ASSUME DbType, RestType, NEW w \in Workers, Work(w)
    PROVE  DbType' /\ RestType'
  <1> USE DEF extVars, dbVars
  <1>1. CASE PublishPostGroup(w)
    <2>1. \/ UNCHANGED <<row, hold, thr>>
          \/ \E D, refused, go \in SUBSET Channels : GroupOutcome(w, D, refused, go)
      BY <1>1, GroupStep
    <2>7. /\ UNCHANGED <<look, lease, requests, platform, sent, tried, excused, faults>>
          /\ found' \in [Workers -> SUBSET Find]
      BY <1>1, GroupStep DEF RestType
    <2>2. \A c \in Channels :
            /\ [row[c] EXCEPT !.status = "failed", !.parked = FALSE, !.age = 0] \in Row
            /\ [row[c] EXCEPT !.status = "failed", !.age = 0] \in Row
            /\ [row[c] EXCEPT !.status = "publishing", !.age = 0] \in Row
      BY Values, RowWrites DEF DbType
    <2>3. \A c \in Channels : ClaimedThread(c) \in Thread
      BY ThreadType DEF RestType
    <2>4. CASE UNCHANGED <<row, hold, thr>>
      BY <2>4, <2>7 DEF DbType, RestType
    <2>5. ASSUME NEW D \in SUBSET Channels, NEW refused \in SUBSET Channels, NEW go \in SUBSET Channels,
                 GroupOutcome(w, D, refused, go)
          PROVE  DbType' /\ thr' \in [Workers -> [Channels -> Thread]]
      <3> DEFINE held == {c \in D : HoldReason(c)}
      <3>1. /\ row' = [c \in Channels |->
                 IF c \in held THEN [row[c] EXCEPT !.status = "failed", !.parked = FALSE, !.age = 0]
                 ELSE IF c \in refused THEN [row[c] EXCEPT !.status = "failed", !.age = 0]
                 ELSE IF c \in go THEN [row[c] EXCEPT !.status = "publishing", !.age = 0]
                 ELSE row[c]]
            /\ hold' = [c \in Channels |-> IF c \in held THEN HoldKind(c) ELSE hold[c]]
            /\ thr' = [thr EXCEPT ![w] =
                 [c \in Channels |-> IF c \in go THEN ClaimedThread(c) ELSE thr[w][c]]]
        BY <2>5 DEF GroupOutcome
      <3> HIDE DEF held
      <3>2. row' \in [Channels -> Row]
        BY <3>1, <2>2 DEF DbType
      <3>3. hold' \in [Channels -> HoldKinds]
        BY <3>1, Values DEF DbType, HoldKinds
      <3>4. thr' \in [Workers -> [Channels -> Thread]]
        <4>1. thr[w] \in [Channels -> Thread] /\ thr \in [Workers -> [Channels -> Thread]]
          BY DEF RestType
        <4>2. [c \in Channels |-> IF c \in go THEN ClaimedThread(c) ELSE thr[w][c]] \in [Channels -> Thread]
          BY <4>1, <2>3
        <4> QED BY <3>1, <4>1, <4>2
      <3> QED BY <3>2, <3>3, <3>4 DEF DbType
    <2>6. CASE \E D, refused, go \in SUBSET Channels : GroupOutcome(w, D, refused, go)
      BY <2>5, <2>6, <2>7 DEF RestType
    <2> QED BY <2>1, <2>4, <2>6
  <1>2. CASE SweepRead(w)
    <2>1. \A c \in Channels : [c |-> c, handle |-> row[c].handle, age |-> row[c].age] \in Sight
      BY DEF DbType, Row, Sight
    <2> QED BY <1>2, <2>1 DEF SweepRead, DbType, RestType
  <1>3. CASE SweepRow(w)
    <2>1. PICK s \in look[w] :
            /\ look' = [look EXCEPT ![w] = @ \ {s}]
            /\ SweepUnaskable(s) \/ SweepAsk(s)
      BY <1>3 DEF SweepRow
    <2>2. s.c \in Channels /\ s.handle \in 0..MaxAttempts /\ s \in Sight
      BY <2>1 DEF RestType, Sight
    <2>3. look' \in [Workers -> SUBSET Sight]
      BY <2>1 DEF RestType
    <2>4. DbType' /\ excused' \in [Channels -> SUBSET Attempts]
      <3>1. CASE SweepUnaskable(s)
        BY <3>1, <2>2, MarkType DEF SweepUnaskable, DbType, RestType
      <3>2. CASE SweepAsk(s)
        <4>1. CASE UNCHANGED dbVars /\ UNCHANGED excused
          BY <4>1 DEF DbType, RestType
        <4>2. CASE Mark(s.c, "publishing", "unknown") /\ UNCHANGED excused
          BY <4>2, <2>2, MarkType DEF RestType
        <4>3. CASE /\ row' = [row EXCEPT ![s.c] = [@ EXCEPT !.status = "published",
                                                    !.handle = s.handle, !.age = 0]]
                   /\ UNCHANGED <<hold, excused>>
          <5>1. [row[s.c] EXCEPT !.status = "published", !.handle = s.handle, !.age = 0] \in Row
            BY <2>2, Values, RowWrites DEF DbType
          <5> QED BY <4>3, <5>1 DEF DbType, RestType
        <4>4. CASE FailPermanently(s.c) /\ UNCHANGED excused
          BY <4>4, <2>2, FailType DEF RestType
        <4>5. CASE /\ FailPermanently(s.c)
                   /\ excused' = [excused EXCEPT ![s.c] = @ \cup {s.handle}]
          <5>1. s.handle \in Attempts
            BY <3>2, <2>2, PublishingAssumption DEF SweepAsk, Attempts
          <5> QED BY <4>5, <5>1, <2>2, FailType DEF RestType
        <4> QED BY <3>2, <4>1, <4>2, <4>3, <4>4, <4>5 DEF SweepAsk
      <3> QED BY <2>1, <3>1, <3>2
    <2> QED BY <1>3, <2>3, <2>4 DEF SweepRow, RestType
  <1>4. CASE Crash(w)
    <2>1. IdleThread \in Thread
      BY Values DEF IdleThread, Thread
    <2>2. faults' \in 0..MaxFaults
      BY <1>4, PublishingAssumption DEF Crash, RestType
    <2>3. /\ thr' \in [Workers -> [Channels -> Thread]] /\ look' \in [Workers -> SUBSET Sight]
          /\ found' \in [Workers -> SUBSET Find]
      BY <1>4, <2>1 DEF Crash, Forgotten, RestType
    <2> QED BY <1>4, <2>2, <2>3 DEF Crash, DbType, RestType
  <1>5. CASE StartWorker(w)
    BY <1>5 DEF StartWorker, DbType, RestType
  <1>6. ASSUME NEW c \in Channels, ProcessRetry(w, c)
        PROVE  DbType' /\ RestType'
    <2>1. DbType'
      <3>1. [row[c] EXCEPT !.status = "publishing", !.age = 0] \in Row
        BY Values, RowWrites DEF DbType
      <3>2. CASE BlockPublish(c, "scheduled")
        BY <3>2, BlockType
      <3>3. CASE Mark(c, "scheduled", HoldKind(c))
        BY <3>3, Values, MarkType
      <3>4. CASE row' = [row EXCEPT ![c] = [@ EXCEPT !.status = "publishing", !.age = 0]] /\ UNCHANGED hold
        BY <3>1, <3>4 DEF DbType
      <3>5. CASE UNCHANGED <<row, hold>>
        BY <3>5 DEF DbType
      <3> QED BY <1>6, <3>2, <3>3, <3>4, <3>5, RetryStep
    <2>2. thr' \in [Workers -> [Channels -> Thread]]
      <3>1. thr' = thr \/ thr' = [thr EXCEPT ![w][c] = ClaimedThread(c)]
        BY <1>6, RetryStep
      <3>2. ClaimedThread(c) \in Thread /\ thr \in [Workers -> [Channels -> Thread]]
        BY ThreadType DEF RestType
      <3> QED BY <3>1, <3>2
    <2>3. /\ UNCHANGED <<look, lease, requests, platform, sent, tried, excused, faults>>
          /\ found' = [found EXCEPT ![w] = @ \ {<<c, "retry">>}]
      BY <1>6, RetryStep
    <2>4. found' \in [Workers -> SUBSET Find]
      BY <2>3 DEF RestType
    <2> QED BY <2>1, <2>2, <2>3, <2>4 DEF RestType
  <1>7. ASSUME NEW c \in Channels, CheckBeforeSending(w, c)
        PROVE  DbType' /\ RestType'
    <2>1. DbType'
      <3>1. thr[w][c].tries \in 0..MaxRetries
        BY ThreadType DEF RestType
      <3>2. CASE Mark(c, "publishing", HoldKind(c))
        BY <3>2, Values, MarkType
      <3>3. CASE ScheduleRetry(c, thr[w][c].tries)
        BY <3>1, <3>3, RetryType
      <3>4. CASE BlockPublish(c, "publishing")
        BY <3>4, BlockType
      <3>5. CASE UNCHANGED dbVars
        BY <3>5 DEF DbType
      <3> QED BY <1>7, <3>2, <3>3, <3>4, <3>5 DEF CheckBeforeSending
    <2>2. thr' \in [Workers -> [Channels -> Thread]]
      BY <1>7, ThreadType, Values DEF CheckBeforeSending, RestType
    <2> QED BY <1>7, <2>1, <2>2 DEF CheckBeforeSending, RestType
  <1>8. ASSUME NEW c \in Channels, StopBeforeSending(w, c)
        PROVE  DbType' /\ RestType'
    <2>1. DbType'
      <3>1. CASE Mark(c, "publishing", "expired")
        BY <3>1, MarkType
      <3>2. CASE UNCHANGED dbVars
        BY <3>2 DEF DbType
      <3> QED BY <1>8, <3>1, <3>2 DEF StopBeforeSending
    <2>2. thr' \in [Workers -> [Channels -> Thread]]
      BY <1>8, ThreadType, Values DEF StopBeforeSending, RestType
    <2> QED BY <1>8, <2>1, <2>2 DEF StopBeforeSending, RestType
  <1>9. ASSUME NEW c \in Channels, Send(w, c)
        PROVE  DbType' /\ RestType'
    <2> DEFINE n == sent[c] + 1
    <2>1. n \in Attempts /\ n \in 0..MaxAttempts
      BY <1>9, PublishingAssumption DEF Send, RestType, Attempts
    <2>2. sent' = [sent EXCEPT ![c] = n] /\ sent' \in [Channels -> 0..MaxAttempts]
      BY <1>9, <2>1 DEF Send, RestType
    <2>3. /\ tried' = [tried EXCEPT ![c] = tried[c] + 1]
          /\ tried[c] + 1 \in 0..MaxAttempts /\ tried[c] + 1 <= n
      BY <1>9, <2>1, PublishingAssumption DEF Send, RestType, Attempts
    <2>4. platform' \in [Channels -> [Attempts -> Verdicts]]
      BY <1>9, <2>1, Values DEF Send, RestType
    <2>5. thr' \in [Workers -> [Channels -> Thread]]
      <3>1. [thr[w][c] EXCEPT !.stage = "sending", !.n = n] \in Thread
        <4>1. thr[w][c] \in Thread /\ "sending" \in Stages
          BY Values DEF RestType
        <4> HIDE DEF n
        <4> QED BY <4>1, <2>1 DEF Thread
      <3> QED BY <1>9, <3>1 DEF Send, RestType
    <2>6. /\ tried' \in [Channels -> 0..MaxAttempts]
          /\ \A d \in Channels : tried'[d] <= sent'[d]
      BY <2>2, <2>3 DEF RestType
    <2> HIDE DEF n
    <2> QED BY <1>9, <2>2, <2>4, <2>5, <2>6 DEF Send, DbType, RestType
  <1>10. ASSUME NEW c \in Channels, Answer(w, c)
         PROVE  DbType' /\ RestType'
    <2>1. thr' \in [Workers -> [Channels -> Thread]]
      BY <1>10, ThreadType, Values DEF Answer, RestType
    <2>2. platform' \in [Channels -> [Attempts -> Verdicts]]
      <3>1. platform' = platform \/ platform' = [platform EXCEPT ![c][thr[w][c].n] = "refused"]
        BY <1>10 DEF Answer
      <3>2. platform \in [Channels -> [Attempts -> Verdicts]]
        BY DEF RestType
      <3> QED BY <3>1, <3>2, Values
    <2> QED BY <1>10, <2>1, <2>2 DEF Answer, DbType, RestType
  <1>11. ASSUME NEW c \in Channels, RecordAccepted(w, c)
         PROVE  DbType' /\ RestType'
    <2>1. DbType'
      <3>1. thr[w][c].n \in 0..MaxAttempts
        BY ThreadType DEF RestType
      <3>2. (IF c \in Async THEN "publishing" ELSE "published") \in Statuses
        BY Values
      <3>3. [row[c] EXCEPT !.status = IF c \in Async THEN "publishing" ELSE "published",
                !.handle = thr[w][c].n, !.retry = 0, !.parked = FALSE, !.age = 0] \in Row
        BY <3>1, <3>2, Values, RowWrites DEF DbType
      <3>4. CASE Mark(c, "publishing", "unknown")
        BY <3>4, MarkType
      <3> QED BY <1>11, <3>3, <3>4 DEF RecordAccepted, DbType
    <2> QED BY <1>11, <2>1, ThreadType DEF RecordAccepted, RestType
  <1>12. ASSUME NEW c \in Channels, RecordFailure(w, c)
         PROVE  DbType' /\ RestType'
    <2>1. DbType'
      <3>1. thr[w][c].n \in 0..MaxAttempts /\ thr[w][c].tries \in 0..MaxRetries
        BY ThreadType DEF RestType
      <3>2. [row[c] EXCEPT !.handle = thr[w][c].n, !.retry = 0, !.parked = FALSE, !.age = 0] \in Row
        BY <3>1, Values, RowWrites DEF DbType
      <3>3. CASE Mark(c, "publishing", "unknown")
        BY <3>3, MarkType
      <3>4. CASE ScheduleRetry(c, thr[w][c].tries)
        BY <3>1, <3>4, RetryType
      <3>5. CASE FailPermanently(c)
        BY <3>5, FailType
      <3>6. CASE thr[w][c].stage = "handled"
        BY <1>12, <3>2, <3>6 DEF RecordFailure, DbType
      <3> QED BY <1>12, <3>3, <3>4, <3>5, <3>6 DEF RecordFailure
    <2> QED BY <1>12, <2>1, ThreadType DEF RecordFailure, RestType
  <1>13. ASSUME NEW c \in Channels, RecordNothing(w, c)
         PROVE  DbType' /\ RestType'
    BY <1>13, ThreadType DEF RecordNothing, DbType, RestType
  <1>14. CASE FindDue(w) \/ FindRetries(w)
    <2>1. found' \in [Workers -> SUBSET Find]
      <3>1. \A D \in SUBSET Channels : D \X {"due"} \in SUBSET Find /\ D \X {"retry"} \in SUBSET Find
        BY DEF Find
      <3>2. \E D \in SUBSET Channels :
              \/ found' = [found EXCEPT ![w] = D \X {"due"}]
              \/ found' = [found EXCEPT ![w] = D \X {"retry"}]
        <4>1. CASE FindDue(w)
          BY <4>1 DEF FindDue
        <4>2. CASE FindRetries(w)
          <5>1. {c \in Channels : RetryDue(c)} \in SUBSET Channels
            OBVIOUS
          <5> QED BY <4>2, <5>1 DEF FindRetries
        <4> QED BY <1>14, <4>1, <4>2
      <3> QED BY <3>1, <3>2 DEF RestType
    <2> QED BY <1>14, <2>1 DEF FindDue, FindRetries, DbType, RestType
  <1> QED
    BY <1>14, <1>1, <1>2, <1>3, <1>4, <1>5, <1>6, <1>7, <1>8, <1>9, <1>10, <1>11, <1>12, <1>13 DEF Work

LEMMA WorldType ==
    ASSUME DbType, RestType, NEW c \in Channels, World(c)
    PROVE  DbType' /\ RestType'
  <1> USE DEF extVars, dbVars
  <1>1. CASE TimePasses(c)
    <2>1. \A t \in Times : [row[c] EXCEPT !.sched = t] \in Row
      BY Values, RowWrites DEF DbType
    <2> QED BY <1>1, <2>1, Values DEF TimePasses, DbType, RestType
  <1>2. CASE BackoffEnds(c)
    <2>1. [row[c] EXCEPT !.parked = FALSE] \in Row
      BY Values, RowWrites DEF DbType
    <2> QED BY <1>2, <2>1 DEF BackoffEnds, DbType, RestType
  <1>3. CASE ClaimAges(c)
    <2>1. row[c].age \in Ages /\ row[c].age < 3
      BY <1>3 DEF ClaimAges, DbType, Row
    <2>2. [row[c] EXCEPT !.age = row[c].age + 1] \in Row
      BY <2>1, Values, RowWrites DEF DbType
    <2> QED BY <1>3, <2>2 DEF ClaimAges, DbType, RestType
  <1>4. ASSUME NEW n \in Attempts, PlatformFinishes(c, n)
        PROVE  DbType' /\ RestType'
    <2>1. platform' \in [Channels -> [Attempts -> Verdicts]]
      BY <1>4, Values DEF PlatformFinishes, RestType
    <2> QED BY <1>4, <2>1 DEF PlatformFinishes, DbType, RestType
  <1> QED BY <1>1, <1>2, <1>3, <1>4 DEF World

LEMMA PeopleType ==
    ASSUME DbType, RestType, People
    PROVE  DbType' /\ RestType'
  <1> USE DEF extVars, dbVars
  <1>1. CASE WriteRow
    <2>1. PICK q \in requests : \E when \in NewTimes(q.op) :
            /\ requests' = requests \ {q}
            /\ row' = IF Writable(q) THEN [row EXCEPT ![q.c] = WrittenBack(q, when)] ELSE row
            /\ tried' = IF Writable(q) /\ Target(q.op) = "scheduled"
                        THEN [tried EXCEPT ![q.c] = 0] ELSE tried
      BY <1>1 DEF WriteRow
    <2>2. q \in Request
      BY <2>1 DEF RestType
    <2>3. \A when \in NewTimes(q.op) : WrittenBack(q, when) \in Row
      BY <2>2, WrittenBackType
    <2>4. DbType'
      BY <1>1, <2>1, <2>3 DEF WriteRow, DbType
    <2>5. /\ tried' \in [Channels -> 0..MaxAttempts]
          /\ \A c \in Channels : tried'[c] <= sent[c]
      <3>1. tried' = tried \/ tried' = [tried EXCEPT ![q.c] = 0]
        BY <2>1
      <3>2. /\ tried \in [Channels -> 0..MaxAttempts] /\ sent \in [Channels -> 0..MaxAttempts]
            /\ \A c \in Channels : tried[c] <= sent[c]
        BY DEF RestType
      <3>3. 0 \in 0..MaxAttempts /\ \A c \in Channels : 0 <= sent[c]
        BY <3>2, Values
      <3> QED BY <3>1, <3>2, <3>3
    <2>6. requests' \in SUBSET Request
      BY <2>1 DEF RestType
    <2> QED BY <1>1, <2>4, <2>5, <2>6 DEF WriteRow, RestType
  <1>2. ASSUME NEW c \in Channels, NEW op \in WebOps, LoadRow(op, c)
        PROVE  DbType' /\ RestType'
    <2>1. [op |-> op, c |-> c, old |-> CopyOf(row[c])] \in Request
      BY PublishingAssumption DEF DbType, Request, Row, Copy, CopyOf
    <2> QED BY <1>2, <2>1 DEF LoadRow, DbType, RestType
  <1>3. ASSUME NEW c \in Channels, Withdraw(c)
        PROVE  DbType' /\ RestType'
    <2>1. [row[c] EXCEPT !.status = "pending_review", !.age = 0] \in Row
      BY Values, RowWrites DEF DbType
    <2> QED BY <1>3, <2>1 DEF Withdraw, DbType, RestType
  <1>4. ASSUME NEW c \in Channels, ReconcileExisting(c)
        PROVE  DbType' /\ RestType'
    <2>1. \A n \in Attempts :
            [row[c] EXCEPT !.status = "published", !.handle = n, !.parked = FALSE, !.age = 0] \in Row
      <3>1. \A n \in Attempts : n \in 0..MaxAttempts
        BY PublishingAssumption DEF Attempts
      <3> QED BY <3>1, Values, RowWrites DEF DbType
    <2> QED BY <1>4, <2>1 DEF ReconcileExisting, DbType, RestType, HoldKinds
  <1>5. ASSUME NEW c \in Channels, CheckedAbsent(c)
        PROVE  DbType' /\ RestType'
    <2>1. [status |-> "pending_review", sched |-> "none", retry |-> 0,
           parked |-> FALSE, handle |-> 0, age |-> 0] \in Row
      BY Values DEF Row
    <2> QED BY <1>5, <2>1 DEF CheckedAbsent, DbType, RestType, HoldKinds
  <1> QED BY <1>1, <1>2, <1>3, <1>4, <1>5 DEF People

LEMMA NextType == TypeInv /\ [Next]_vars => TypeInv'
  <1> SUFFICES ASSUME DbType, RestType, [Next]_vars PROVE DbType' /\ RestType'
    BY TypeParts, PTL
  <1>1. CASE \E w \in Workers : Work(w)
    BY <1>1, WorkType
  <1>2. CASE \E c \in Channels : World(c)
    BY <1>2, WorldType
  <1>3. CASE LoseLease
    <2>1. faults' \in 0..MaxFaults
      BY <1>3, PublishingAssumption DEF LoseLease, RestType
    <2> QED BY <1>3, <2>1 DEF LoseLease, DbType, RestType, dbVars, extVars
  <1>4. CASE People
    BY <1>4, PeopleType
  <1>5. CASE UNCHANGED vars
    BY <1>5 DEF vars, DbType, RestType
  <1> QED BY <1>1, <1>2, <1>3, <1>4, <1>5 DEF Next

\* Every reachable state is well typed, for every set of channels, workers,
\* web operations and bounds: in particular no retry counter passes MAX_RETRIES
\* and no handler writes a status the row does not have.
THEOREM TypeCorrect == Spec => []TypeOK
  <1>1. TypeInv => TypeOK
    BY DEF TypeInv
  <1> QED BY InitType, NextType, <1>1, PTL DEF Spec

===============================================================================
