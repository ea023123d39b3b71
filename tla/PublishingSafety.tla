--------------------------- MODULE PublishingSafety ---------------------------
(***************************************************************************)
(* At-most-once delivery, proved for every set of channels and every       *)
(* bound, for the deployment the documentation describes: one worker       *)
(* process (worker_process_lock), and people who use the guarded web       *)
(* operations only.                                                        *)
(*                                                                         *)
(* The inductive invariant says what each party may rely on: a thread that *)
(* its row is still claimed, with nothing open but its own attempt; the    *)
(* sweep that no thread runs beside it and its reading of a row still      *)
(* stands; a row that is neither claimed nor published that nothing of it  *)
(* is open unless the post carries the unknown-outcome hold.               *)
(***************************************************************************)
EXTENDS PublishingProofs

OneWorker  == \A v, w \in Workers : v = w
GuardedWeb == WebOps \subseteq GuardedOps

\* What a row alone guarantees.
RowOK(c) ==
    /\ row[c].status = "scheduled" => row[c].handle = 0
    /\ row[c].status = "publishing" => hold[c] = "none"
    /\ Open(c) => row[c].status \in {"publishing", "published"} \/ hold[c] = "unknown"
    /\ row[c].status = "publishing" /\ row[c].handle # 0
          => \A n \in Attempts : OpenAt(c, n) => n = row[c].handle
    /\ row[c].status = "published" => \E n \in Attempts : platform[c][n] = "live"

\* What a thread may rely on.
BeforeWrite == {"claimed", "cleared", "rejected", "refused"}
AfterWrite  == {"sending", "accepted", "handled", "lost"}

ThreadOK(w, c) ==
    thr[w][c].stage # "idle" =>
        /\ row[c].status = "publishing" /\ row[c].handle = 0
        /\ thr[w][c].stage \in BeforeWrite => ~Open(c)
        /\ thr[w][c].stage \in AfterWrite =>
              /\ thr[w][c].n = sent[c] /\ thr[w][c].n \in Attempts
              /\ \A n \in Attempts : OpenAt(c, n) => n = thr[w][c].n
        /\ thr[w][c].stage = "accepted" /\ c \notin Async => platform[c][thr[w][c].n] = "live"

\* The attempts are numbered in order, and none follows an open one.
BooksOK(c) ==
    /\ \A n \in Attempts : platform[c][n] = "unsent" <=> n > sent[c]
    /\ \A m, n \in Attempts :
          m < n /\ platform[c][n] # "unsent" /\ platform[c][m] \in Possible => m \in excused[c]

ChannelOK(c) == RowOK(c) /\ BooksOK(c) /\ \A w \in Workers : ThreadOK(w, c)

\* What the sweep may rely on.
SweepOK(w) ==
    /\ look[w] # {} => \A c \in Channels : thr[w][c].stage = "idle"
    /\ \A s \in look[w] : row[s.c].status = "publishing" /\ row[s.c].handle = s.handle
    /\ \A s, t \in look[w] : s.c = t.c => s = t

\* What a web request still knows when it writes back.
RequestOK(q) ==
    /\ q.op \in GuardedOps /\ q.old.status \in From(q.op)
    /\ q.old.status = "scheduled" => q.old.handle = 0

Safe ==
    /\ \A c \in Channels : ChannelOK(c)
    /\ \A w \in Workers : SweepOK(w)
    /\ \A q \in requests : RequestOK(q)

IInv == TypeInv /\ Safe

-----------------------------------------------------------------------------
(* What the shared writes do, as plain facts about the row they touch.     *)

\* Nothing of channel d but its clocks and counters differs after the step.
SameRow(d)  == row'[d].status = row[d].status /\ row'[d].handle = row[d].handle /\ hold'[d] = hold[d]
SameBook(d) == platform'[d] = platform[d] /\ sent'[d] = sent[d] /\ excused'[d] = excused[d]
SameThreads(d) == \A w \in Workers : thr'[w][d] = thr[w][d]

\* Row c goes to status s, keeping its handle; the hold becomes k.
Goes2(c, s, k) == row'[c].status = s /\ row'[c].handle = row[c].handle /\ hold'[c] = k

LEMMA MarkEffect ==
    ASSUME DbType, NEW c \in Channels, NEW from, NEW kind, Mark(c, from, kind)
    PROVE  /\ \A d \in Channels : d # c => SameRow(d)
           /\ row[c].status = from => Goes2(c, "failed", kind)
           /\ row[c].status # from => SameRow(c)
  <1>1. CASE row[c].status = from
    BY <1>1 DEF DbType, Mark, Row, SameRow, Goes2
  <1>2. CASE row[c].status # from
    BY <1>2 DEF Mark, SameRow, dbVars
  <1> QED BY <1>1, <1>2

LEMMA FailEffect ==
    ASSUME DbType, NEW c \in Channels, FailPermanently(c)
    PROVE  /\ \A d \in Channels : d # c => SameRow(d)
           /\ row[c].status = "publishing" => Goes2(c, "failed", hold[c])
           /\ row[c].status # "publishing" => SameRow(c)
  BY DEF DbType, FailPermanently, Row, SameRow, Goes2

LEMMA BlockEffect ==
    ASSUME DbType, NEW c \in Channels, NEW from, BlockPublish(c, from)
    PROVE  /\ \A d \in Channels : d # c => SameRow(d)
           /\ row[c].status = from => Goes2(c, "failed", hold[c])
           /\ row[c].status # from => SameRow(c)
  BY DEF DbType, BlockPublish, Row, SameRow, Goes2

LEMMA RetryEffect ==
    ASSUME DbType, NEW c \in Channels, NEW tries, ScheduleRetry(c, tries),
           row[c].status = "publishing"
    PROVE  /\ \A d \in Channels : d # c => SameRow(d)
           /\ Goes2(c, "failed", hold[c]) \/ Goes2(c, "scheduled", hold[c])
  <1>1. CASE tries >= MaxRetries
    BY <1>1, FailEffect DEF ScheduleRetry
  <1>2. CASE ~(tries >= MaxRetries)
    <2>1. /\ row' = [row EXCEPT ![c] = [row[c] EXCEPT !.status = "scheduled", !.retry = tries + 1,
                                                     !.parked = TRUE, !.age = 0]]
          /\ hold' = hold
      BY <1>2 DEF ScheduleRetry
    <2>2. row \in [Channels -> Row] /\ row[c] \in Row
      BY DEF DbType
    <2>3. \A d \in Channels : d # c => row'[d] = row[d]
      BY <2>1, <2>2
    <2>4. row'[c].status = "scheduled" /\ row'[c].handle = row[c].handle
      BY <2>1, <2>2 DEF Row
    <2> QED BY <2>1, <2>3, <2>4 DEF SameRow, Goes2
  <1> QED BY <1>1, <1>2

LEMMA ThreadEffect ==
    ASSUME thr \in [Workers -> [Channels -> Thread]], NEW w \in Workers, NEW c \in Channels
    PROVE  /\ Ends(w, c) =>
                /\ thr'[w][c].stage = "idle"
                /\ \A v \in Workers, d \in Channels : v # w \/ d # c => thr'[v][d] = thr[v][d]
           /\ \A s : Goes(w, c, s) =>
                /\ thr'[w][c].stage = s /\ thr'[w][c].n = thr[w][c].n
                /\ \A v \in Workers, d \in Channels : v # w \/ d # c => thr'[v][d] = thr[v][d]
  BY DEF Ends, Goes, Thread, IdleThread

\* What is open on a channel depends on its book alone.
LEMMA OpenFrame ==
    ASSUME NEW d \in Channels, SameBook(d)
    PROVE  Open(d)' = Open(d) /\ \A n \in Attempts : OpenAt(d, n)' = OpenAt(d, n)
  BY DEF Open, OpenAt, SameBook

LEMMA BooksFrame ==
    ASSUME NEW d \in Channels, BooksOK(d), SameBook(d)
    PROVE  BooksOK(d)'
  BY DEF BooksOK, SameBook

LEMMA RowFrame ==
    ASSUME NEW d \in Channels, RowOK(d), SameRow(d), SameBook(d)
    PROVE  RowOK(d)'
  BY OpenFrame DEF RowOK, SameRow, SameBook

LEMMA ThreadFrame ==
    ASSUME NEW d \in Channels, NEW w \in Workers, ThreadOK(w, d),
           SameRow(d), SameBook(d), thr'[w][d] = thr[w][d]
    PROVE  ThreadOK(w, d)'
  BY OpenFrame DEF ThreadOK, SameRow, SameBook

LEMMA ChannelFrame ==
    ASSUME NEW d \in Channels, ChannelOK(d), SameRow(d), SameBook(d), SameThreads(d)
    PROVE  ChannelOK(d)'
  BY RowFrame, BooksFrame, ThreadFrame DEF ChannelOK, SameThreads

\* An unclaimed row to which no thread belongs is in order when its own facts are.
LEMMA Quiet ==
    ASSUME NEW d \in Channels, BooksOK(d)', RowOK(d)',
           \A w \in Workers : thr'[w][d].stage = "idle"
    PROVE  ChannelOK(d)'
  BY DEF ChannelOK, ThreadOK

\* A claimed row with nothing open goes back with the hold it had (none), or
\* with any hold; it may only be requeued without a handle.
LEMMA SettleClosed ==
    ASSUME NEW c \in Channels, SameBook(c), ~Open(c),
           NEW s \in {"failed", "scheduled"}, NEW k,
           Goes2(c, s, k), s = "scheduled" => row[c].handle = 0
    PROVE  RowOK(c)'
  BY OpenFrame DEF RowOK, Goes2

\* Marking a claimed row `unknown` is always in order.
LEMMA SettleUnknown ==
    ASSUME NEW c \in Channels, SameBook(c), Goes2(c, "failed", "unknown")
    PROVE  RowOK(c)'
  BY DEF RowOK, Goes2

-----------------------------------------------------------------------------
(* Steps that touch one channel.                                           *)

\* Only channel c is touched.
OnlyOn(c) == \A d \in Channels : d # c => SameRow(d) /\ SameBook(d) /\ SameThreads(d)

LEMMA OneChannel ==
    ASSUME Safe, NEW c \in Channels, OnlyOn(c), ChannelOK(c)'
    PROVE  \A d \in Channels : ChannelOK(d)'
  BY ChannelFrame DEF Safe, OnlyOn

\* A thread at work means no sweep is under way, before or after its step.
LEMMA NoSweep ==
    ASSUME OneWorker, Safe, NEW w \in Workers, look' = look,
           look[w] = {} \/ \E c \in Channels : thr[w][c].stage # "idle"
    PROVE  \A v \in Workers : SweepOK(v)'
  <1>1. look[w] = {}
    BY DEF Safe, SweepOK
  <1>2. \A v \in Workers : look'[v] = {}
    BY <1>1 DEF OneWorker
  <1> QED BY <1>2 DEF SweepOK

\* The sweep's readings stand as long as claimed rows and threads stay put.
LEMMA SweepFrame ==
    ASSUME Safe, look' = look, thr' = thr, look \in [Workers -> SUBSET Sight],
           \A d \in Channels : row[d].status = "publishing" => SameRow(d)
    PROVE  \A v \in Workers : SweepOK(v)'
  <1> SUFFICES ASSUME NEW v \in Workers PROVE SweepOK(v)'
    OBVIOUS
  <1>1. SweepOK(v)
    BY DEF Safe
  <1>2. \A s \in look[v] : s.c \in Channels
    BY DEF Sight
  <1> QED BY <1>1, <1>2 DEF SweepOK, SameRow

LEMMA RequestsFrame ==
    ASSUME Safe, requests' \subseteq requests
    PROVE  \A q \in requests' : RequestOK(q)'
  BY DEF Safe, RequestOK

\* A row that is not claimed has no thread.
LEMMA NoThread ==
    ASSUME Safe, NEW c \in Channels, row[c].status # "publishing"
    PROVE  \A w \in Workers : thr[w][c].stage = "idle"
  BY DEF Safe, ChannelOK, ThreadOK

\* A thread ends and leaves its row in order.
LEMMA ThreadEnds ==
    ASSUME OneWorker, Safe, thr \in [Workers -> [Channels -> Thread]],
           NEW w \in Workers, NEW c \in Channels, thr[w][c].stage # "idle", Ends(w, c),
           UNCHANGED <<look, requests, platform, sent, excused>>,
           \A d \in Channels : d # c => SameRow(d),
           RowOK(c)'
    PROVE  Safe'
  <1>1. \A d \in Channels : SameBook(d)
    BY DEF SameBook
  <1>2. OnlyOn(c)
    BY <1>1, ThreadEffect DEF OnlyOn, SameThreads
  <1>3. \A v \in Workers : thr'[v][c].stage = "idle"
    BY ThreadEffect DEF OneWorker
  <1>4. BooksOK(c)'
    BY <1>1, BooksFrame DEF Safe, ChannelOK
  <1>5. ChannelOK(c)'
    BY <1>3, <1>4, Quiet
  <1> QED BY <1>2, <1>5, OneChannel, NoSweep, RequestsFrame DEF Safe

\* A thread goes on, its row untouched.
LEMMA ThreadGoes ==
    ASSUME OneWorker, Safe, NEW w \in Workers, NEW c \in Channels, thr[w][c].stage # "idle",
           \A d \in Channels : SameRow(d),
           \A d \in Channels : d # c => SameBook(d) /\ SameThreads(d),
           UNCHANGED <<look, requests>>,
           RowOK(c)', BooksOK(c)', ThreadOK(w, c)'
    PROVE  Safe'
  <1>1. OnlyOn(c)
    BY DEF OnlyOn
  <1>2. \A v \in Workers : ThreadOK(v, c)'
    BY DEF OneWorker
  <1>3. ChannelOK(c)'
    BY <1>2 DEF ChannelOK
  <1> QED BY <1>1, <1>3, OneChannel, NoSweep, RequestsFrame DEF Safe

-----------------------------------------------------------------------------
(* Each step of a thread.                                                  *)

\* What a thread at work knows of its row.
LEMMA AtWork ==
    ASSUME Safe, NEW w \in Workers, NEW c \in Channels, thr[w][c].stage # "idle"
    PROVE  /\ row[c].status = "publishing" /\ row[c].handle = 0 /\ hold[c] = "none"
           /\ RowOK(c) /\ BooksOK(c) /\ ThreadOK(w, c)
           /\ thr[w][c].stage \in BeforeWrite => ~Open(c)
  BY DEF Safe, ChannelOK, ThreadOK, RowOK

LEMMA CheckSafe ==
    ASSUME OneWorker, Safe, DbType, RestType,
           NEW w \in Workers, NEW c \in Channels, CheckBeforeSending(w, c)
    PROVE  Safe'
  <1> USE DEF extVars, dbVars
  <1>1. /\ thr[w][c].stage = "claimed" /\ thr \in [Workers -> [Channels -> Thread]]
        /\ UNCHANGED <<look, requests, platform, sent, excused>>
    BY DEF CheckBeforeSending, RestType
  <1>2. /\ row[c].status = "publishing" /\ row[c].handle = 0 /\ ~Open(c)
        /\ RowOK(c) /\ BooksOK(c) /\ ThreadOK(w, c)
    BY <1>1, AtWork DEF BeforeWrite
  <1>3. \A d \in Channels : SameBook(d)
    BY <1>1 DEF SameBook
  <1>4. CASE Mark(c, "publishing", HoldKind(c)) /\ Ends(w, c)
    <2>1. Goes2(c, "failed", HoldKind(c)) /\ \A d \in Channels : d # c => SameRow(d)
      BY <1>4, <1>2, MarkEffect
    <2>2. RowOK(c)'
      BY <2>1, <1>2, <1>3, SettleClosed
    <2> QED BY <1>4, <1>1, <2>1, <2>2, ThreadEnds
  <1>5. CASE ScheduleRetry(c, thr[w][c].tries) /\ Ends(w, c)
    <2>1. /\ Goes2(c, "failed", hold[c]) \/ Goes2(c, "scheduled", hold[c])
          /\ \A d \in Channels : d # c => SameRow(d)
      BY <1>5, <1>2, RetryEffect
    <2>2. RowOK(c)'
      BY <2>1, <1>2, <1>3, SettleClosed
    <2> QED BY <1>5, <1>1, <2>1, <2>2, ThreadEnds
  <1>6. CASE BlockPublish(c, "publishing") /\ Ends(w, c)
    <2>1. Goes2(c, "failed", hold[c]) /\ \A d \in Channels : d # c => SameRow(d)
      BY <1>6, <1>2, BlockEffect
    <2>2. RowOK(c)'
      BY <2>1, <1>2, <1>3, SettleClosed
    <2> QED BY <1>6, <1>1, <2>1, <2>2, ThreadEnds
  <1>7. CASE Goes(w, c, "cleared") /\ UNCHANGED <<row, hold>>
    <2>1. /\ thr'[w][c].stage = "cleared"
          /\ \A v \in Workers, d \in Channels : v # w \/ d # c => thr'[v][d] = thr[v][d]
      BY <1>7, <1>1, ThreadEffect
    <2>2. \A d \in Channels : SameRow(d) /\ (d # c => SameThreads(d))
      BY <1>7, <2>1 DEF SameRow, SameThreads
    <2>3. ThreadOK(w, c)'
      BY <1>2, <1>3, <1>7, <2>1, OpenFrame DEF ThreadOK, BeforeWrite, AfterWrite
    <2> QED BY <1>1, <1>2, <1>3, <2>2, <2>3, RowFrame, BooksFrame, ThreadGoes
  <1> QED BY <1>4, <1>5, <1>6, <1>7 DEF CheckBeforeSending

LEMMA StopSafe ==
    ASSUME OneWorker, Safe, DbType, RestType,
           NEW w \in Workers, NEW c \in Channels, StopBeforeSending(w, c)
    PROVE  Safe'
  <1> USE DEF extVars, dbVars
  <1>1. /\ thr[w][c].stage = "cleared" /\ thr \in [Workers -> [Channels -> Thread]]
        /\ UNCHANGED <<look, requests, platform, sent, excused>>
    BY DEF StopBeforeSending, RestType
  <1>2. /\ row[c].status = "publishing" /\ row[c].handle = 0 /\ ~Open(c)
        /\ RowOK(c) /\ BooksOK(c) /\ ThreadOK(w, c)
    BY <1>1, AtWork DEF BeforeWrite
  <1>3. \A d \in Channels : SameBook(d)
    BY <1>1 DEF SameBook
  <1>4. ASSUME NEW s \in {"rejected", "refused"}, Goes(w, c, s), UNCHANGED <<row, hold>>
        PROVE  Safe'
    <2>1. /\ thr'[w][c].stage = s
          /\ \A v \in Workers, d \in Channels : v # w \/ d # c => thr'[v][d] = thr[v][d]
      BY <1>4, <1>1, ThreadEffect
    <2>2. \A d \in Channels : SameRow(d) /\ (d # c => SameThreads(d))
      BY <1>4, <2>1 DEF SameRow, SameThreads
    <2>3. ThreadOK(w, c)'
      BY <1>2, <1>3, <1>4, <2>1, OpenFrame DEF ThreadOK, BeforeWrite, AfterWrite
    <2> QED BY <1>1, <1>2, <1>3, <2>2, <2>3, RowFrame, BooksFrame, ThreadGoes
  <1>5. CASE Mark(c, "publishing", "expired") /\ Ends(w, c)
    <2>1. Goes2(c, "failed", "expired") /\ \A d \in Channels : d # c => SameRow(d)
      BY <1>5, <1>2, MarkEffect
    <2>2. RowOK(c)'
      BY <2>1, <1>2, <1>3, SettleClosed
    <2> QED BY <1>5, <1>1, <2>1, <2>2, ThreadEnds
  <1>6. CASE Ends(w, c) /\ UNCHANGED <<row, hold>>
    <2>1. \A d \in Channels : SameRow(d)
      BY <1>6 DEF SameRow
    <2> QED BY <1>1, <1>2, <1>3, <1>6, <2>1, RowFrame, ThreadEnds
  <1> QED BY <1>4, <1>5, <1>6 DEF StopBeforeSending

\* The one step that makes a copy: every earlier attempt is closed.
LEMMA SendSafe ==
    ASSUME OneWorker, Safe, DbType, RestType,
           NEW w \in Workers, NEW c \in Channels, Send(w, c)
    PROVE  Safe'
  <1> USE DEF extVars, dbVars
  <1> DEFINE n == sent[c] + 1
  <1>1. /\ thr[w][c].stage = "cleared"
        /\ UNCHANGED <<row, hold, look, requests, excused>>
        /\ thr \in [Workers -> [Channels -> Thread]]
        /\ sent \in [Channels -> 0..MaxAttempts]
        /\ platform \in [Channels -> [Attempts -> Verdicts]]
    BY DEF Send, RestType
  <1>2. /\ row[c].status = "publishing" /\ row[c].handle = 0 /\ ~Open(c)
        /\ RowOK(c) /\ BooksOK(c) /\ ThreadOK(w, c)
    BY <1>1, AtWork DEF BeforeWrite
  <1>3. n \in Attempts /\ sent[c] \in Nat
    BY <1>1, PublishingAssumption DEF Send, Attempts
  <1>4. /\ sent' = [sent EXCEPT ![c] = n]
        /\ platform' = [platform EXCEPT ![c][n] = "processing"]
        /\ thr' = [thr EXCEPT ![w][c] = [thr[w][c] EXCEPT !.stage = "sending", !.n = n]]
    BY DEF Send
  <1>5. /\ sent'[c] = n /\ platform'[c][n] = "processing"
        /\ \A m \in Attempts : m # n => platform'[c][m] = platform[c][m]
        /\ \A d \in Channels : d # c => sent'[d] = sent[d] /\ platform'[d] = platform[d]
    BY <1>1, <1>3, <1>4
  <1>6. /\ thr'[w][c].stage = "sending" /\ thr'[w][c].n = n
        /\ \A v \in Workers, d \in Channels : v # w \/ d # c => thr'[v][d] = thr[v][d]
    <2>1. thr[w][c] \in Thread
      BY <1>1
    <2>2. thr'[w][c] = [thr[w][c] EXCEPT !.stage = "sending", !.n = n]
      BY <1>1, <1>4
    <2> HIDE DEF n
    <2>3. thr'[w][c].stage = "sending" /\ thr'[w][c].n = n
      BY <2>1, <2>2 DEF Thread
    <2> QED BY <1>1, <1>4, <2>3
  <1>7. \A d \in Channels : SameRow(d) /\ (d # c => SameBook(d) /\ SameThreads(d))
    BY <1>1, <1>5, <1>6 DEF SameRow, SameBook, SameThreads
  <1>8. \A m \in Attempts : m # n => ~OpenAt(c, m)'
    BY <1>1, <1>2, <1>5 DEF Open, OpenAt
  <1>9. BooksOK(c)'
    <2>1. \A m \in Attempts : platform[c][m] = "unsent" <=> m > sent[c]
      BY <1>2 DEF BooksOK
    <2>2. \A m \in Attempts : platform'[c][m] = "unsent" <=> m > n
      BY <1>3, <1>5, <2>1 DEF Attempts
    <2>3. ASSUME NEW m \in Attempts, NEW k \in Attempts, m < k,
                 platform'[c][k] # "unsent", platform'[c][m] \in Possible
          PROVE  m \in excused'[c]
      <3>1. k <= n
        BY <2>2, <2>3, <1>3 DEF Attempts
      <3>2. m # n
        BY <2>3, <3>1, <1>3 DEF Attempts
      <3> QED BY <1>8, <2>3, <3>2 DEF OpenAt
    <2> QED BY <1>5, <2>2, <2>3 DEF BooksOK
  <1>10. RowOK(c)'
    BY <1>1, <1>2 DEF RowOK
  <1>11. ThreadOK(w, c)'
    <2> HIDE DEF n
    <2> QED BY <1>1, <1>2, <1>3, <1>5, <1>6, <1>8 DEF ThreadOK, BeforeWrite, AfterWrite
  <1> QED BY <1>1, <1>7, <1>9, <1>10, <1>11, ThreadGoes

LEMMA AnswerSafe ==
    ASSUME OneWorker, Safe, DbType, RestType,
           NEW w \in Workers, NEW c \in Channels, Answer(w, c)
    PROVE  Safe'
  <1> USE DEF extVars, dbVars
  <1> DEFINE n == thr[w][c].n
  <1>1. /\ thr[w][c].stage = "sending"
        /\ UNCHANGED <<row, hold, look, requests, sent, excused>>
        /\ thr \in [Workers -> [Channels -> Thread]]
        /\ sent \in [Channels -> 0..MaxAttempts]
        /\ platform \in [Channels -> [Attempts -> Verdicts]]
    BY DEF Answer, RestType
  <1>2. /\ row[c].status = "publishing" /\ row[c].handle = 0
        /\ RowOK(c) /\ BooksOK(c) /\ ThreadOK(w, c)
        /\ n = sent[c] /\ n \in Attempts
        /\ \A m \in Attempts : OpenAt(c, m) => m = n
    BY <1>1, AtWork DEF ThreadOK, AfterWrite
  <1>3. \A d \in Channels : SameRow(d)
    BY <1>1 DEF SameRow
  <1>4. ASSUME NEW s \in {"accepted", "lost", "handled"}, Goes(w, c, s), platform' = platform,
               s = "accepted" => c \in Async \/ platform[c][n] = "live"
        PROVE  Safe'
    <2>1. /\ thr'[w][c].stage = s /\ thr'[w][c].n = n
          /\ \A v \in Workers, d \in Channels : v # w \/ d # c => thr'[v][d] = thr[v][d]
      BY <1>1, <1>4, ThreadEffect
    <2>2. \A d \in Channels : SameBook(d) /\ (d # c => SameThreads(d))
      BY <1>1, <1>4, <2>1 DEF SameBook, SameThreads
    <2>3. ThreadOK(w, c)'
      BY <1>1, <1>2, <1>3, <1>4, <2>1, <2>2, OpenFrame DEF ThreadOK, BeforeWrite, AfterWrite, SameRow
    <2> QED BY <1>1, <1>2, <1>3, <2>2, <2>3, RowFrame, BooksFrame, ThreadGoes
  <1>5. ASSUME NEW s \in {"rejected", "refused"}, Goes(w, c, s),
               platform' = [platform EXCEPT ![c][n] = "refused"]
        PROVE  Safe'
    <2>1. /\ thr'[w][c].stage = s
          /\ \A v \in Workers, d \in Channels : v # w \/ d # c => thr'[v][d] = thr[v][d]
      BY <1>1, <1>5, ThreadEffect
    <2>2. /\ platform'[c][n] = "refused"
          /\ \A m \in Attempts : m # n => platform'[c][m] = platform[c][m]
          /\ \A d \in Channels : d # c => platform'[d] = platform[d]
      BY <1>1, <1>2, <1>5
    <2>3. \A d \in Channels : d # c => SameBook(d) /\ SameThreads(d)
      BY <1>1, <2>1, <2>2 DEF SameBook, SameThreads
    <2>4. \A m \in Attempts : ~OpenAt(c, m)'
      BY <1>1, <1>2, <2>2 DEF OpenAt, Possible
    <2>5. BooksOK(c)'
      <3>1. \A m \in Attempts : platform'[c][m] = "unsent" <=> platform[c][m] = "unsent"
        <4>1. platform[c][n] # "unsent"
          BY <1>1, <1>2 DEF BooksOK
        <4> QED BY <4>1, <2>2
      <3>2. \A m \in Attempts : platform'[c][m] \in Possible => m \in excused'[c]
        BY <2>4 DEF OpenAt
      <3> QED BY <1>1, <1>2, <3>1, <3>2 DEF BooksOK
    <2>6. ~Open(c)'
      BY <2>4 DEF Open
    <2>7. RowOK(c)'
      BY <1>1, <1>2, <2>4, <2>6 DEF RowOK
    <2>8. ThreadOK(w, c)'
      BY <1>1, <1>2, <2>1, <2>6 DEF ThreadOK, AfterWrite
    <2> QED BY <1>1, <1>3, <2>3, <2>5, <2>7, <2>8, ThreadGoes
  <1> QED BY <1>4, <1>5 DEF Answer

LEMMA AcceptedSafe ==
    ASSUME OneWorker, Safe, DbType, RestType,
           NEW w \in Workers, NEW c \in Channels, RecordAccepted(w, c)
    PROVE  Safe'
  <1> USE DEF extVars
  <1> DEFINE n == thr[w][c].n
  <1>1. /\ thr[w][c].stage = "accepted" /\ Ends(w, c)
        /\ UNCHANGED <<look, requests, platform, sent, excused>>
        /\ thr \in [Workers -> [Channels -> Thread]]
    BY DEF RecordAccepted, RestType
  <1>2. /\ row[c].status = "publishing" /\ hold[c] = "none"
        /\ RowOK(c) /\ ThreadOK(w, c)
        /\ n \in Attempts /\ \A m \in Attempts : OpenAt(c, m) => m = n
        /\ c \notin Async => platform[c][n] = "live"
    BY <1>1, AtWork DEF ThreadOK, AfterWrite
  <1>3. \A d \in Channels : SameBook(d)
    BY <1>1 DEF SameBook
  <1>4. CASE Mark(c, "publishing", "unknown")
    <2>1. Goes2(c, "failed", "unknown") /\ \A d \in Channels : d # c => SameRow(d)
      BY <1>4, <1>2, MarkEffect
    <2> QED BY <1>1, <1>3, <2>1, SettleUnknown, ThreadEnds
  <1>5. CASE /\ row' = [row EXCEPT ![c] = [@ EXCEPT
                          !.status = IF c \in Async THEN "publishing" ELSE "published",
                          !.handle = thr[w][c].n, !.retry = 0, !.parked = FALSE, !.age = 0]]
             /\ UNCHANGED hold
    <2>1. row \in [Channels -> Row] /\ row[c] \in Row
      BY DEF DbType
    <2>2. \A d \in Channels : d # c => SameRow(d)
      BY <1>5, <2>1 DEF SameRow
    <2>3. /\ row'[c].status = IF c \in Async THEN "publishing" ELSE "published"
          /\ row'[c].handle = n /\ hold'[c] = hold[c]
      BY <1>5, <2>1 DEF Row
    <2>4. \A m \in Attempts : OpenAt(c, m)' => m = n
      BY <1>2, <1>3, OpenFrame
    <2>5. RowOK(c)'
      <3> HIDE DEF n
      <3> QED BY <1>1, <1>2, <2>3, <2>4 DEF RowOK
    <2> QED BY <1>1, <2>2, <2>5, ThreadEnds
  <1> QED BY <1>4, <1>5 DEF RecordAccepted

LEMMA FailureSafe ==
    ASSUME OneWorker, Safe, DbType, RestType,
           NEW w \in Workers, NEW c \in Channels, RecordFailure(w, c)
    PROVE  Safe'
  <1> USE DEF extVars
  <1> DEFINE n == thr[w][c].n
  <1>1. /\ thr[w][c].stage # "idle" /\ Ends(w, c)
        /\ UNCHANGED <<look, requests, platform, sent, excused>>
        /\ thr \in [Workers -> [Channels -> Thread]]
    BY DEF RecordFailure, RestType
  <1>2. /\ row[c].status = "publishing" /\ row[c].handle = 0 /\ hold[c] = "none"
        /\ RowOK(c) /\ ThreadOK(w, c)
        /\ thr[w][c].stage \in BeforeWrite => ~Open(c)
    BY <1>1, AtWork
  <1>3. \A d \in Channels : SameBook(d)
    BY <1>1 DEF SameBook
  <1>4. CASE Mark(c, "publishing", "unknown")
    <2>1. Goes2(c, "failed", "unknown") /\ \A d \in Channels : d # c => SameRow(d)
      BY <1>4, <1>2, MarkEffect
    <2> QED BY <1>1, <1>3, <2>1, SettleUnknown, ThreadEnds
  <1>5. CASE /\ thr[w][c].stage = "handled"
             /\ row' = [row EXCEPT ![c] = [@ EXCEPT !.handle = thr[w][c].n, !.retry = 0,
                                                    !.parked = FALSE, !.age = 0]]
             /\ hold' = hold
    <2>1. row \in [Channels -> Row] /\ row[c] \in Row
      BY DEF DbType
    <2>2. \A d \in Channels : d # c => SameRow(d)
      BY <1>5, <2>1 DEF SameRow
    <2>3. row'[c].status = row[c].status /\ row'[c].handle = n /\ hold'[c] = hold[c]
      BY <1>5, <2>1 DEF Row
    <2>4. \A m \in Attempts : OpenAt(c, m)' => m = n
      BY <1>2, <1>3, <1>5, OpenFrame DEF ThreadOK, AfterWrite
    <2>5. RowOK(c)'
      <3> HIDE DEF n
      <3> QED BY <1>1, <1>2, <2>3, <2>4 DEF RowOK
    <2> QED BY <1>1, <2>2, <2>5, ThreadEnds
  <1>6. CASE thr[w][c].stage = "rejected" /\ ScheduleRetry(c, thr[w][c].tries)
    <2>1. ~Open(c)
      BY <1>2, <1>6 DEF BeforeWrite
    <2>2. /\ Goes2(c, "failed", hold[c]) \/ Goes2(c, "scheduled", hold[c])
          /\ \A d \in Channels : d # c => SameRow(d)
      BY <1>6, <1>2, RetryEffect
    <2>3. RowOK(c)'
      BY <2>1, <2>2, <1>2, <1>3, SettleClosed
    <2> QED BY <1>1, <2>2, <2>3, ThreadEnds
  <1>7. CASE thr[w][c].stage = "refused" /\ FailPermanently(c)
    <2>1. ~Open(c)
      BY <1>2, <1>7 DEF BeforeWrite
    <2>2. Goes2(c, "failed", hold[c]) /\ \A d \in Channels : d # c => SameRow(d)
      BY <1>7, <1>2, FailEffect
    <2>3. RowOK(c)'
      BY <2>1, <2>2, <1>3, SettleClosed
    <2> QED BY <1>1, <2>2, <2>3, ThreadEnds
  <1> QED BY <1>2, <1>4, <1>5, <1>6, <1>7 DEF RecordFailure

LEMMA NothingSafe ==
    ASSUME OneWorker, Safe, DbType, RestType,
           NEW w \in Workers, NEW c \in Channels, RecordNothing(w, c)
    PROVE  Safe'
  <1>1. /\ thr[w][c].stage # "idle" /\ Ends(w, c)
        /\ UNCHANGED <<row, hold, look, requests, platform, sent, excused>>
        /\ thr \in [Workers -> [Channels -> Thread]]
    BY DEF RecordNothing, RestType, extVars, dbVars
  <1>2. \A d \in Channels : SameRow(d) /\ SameBook(d)
    BY <1>1 DEF SameRow, SameBook
  <1>3. RowOK(c)'
    BY <1>2, RowFrame DEF Safe, ChannelOK
  <1> QED BY <1>1, <1>2, <1>3, ThreadEnds

\* Steps that leave statuses, handles, holds, attempts, threads and sweeps alone.
LEMMA StillSafe ==
    ASSUME Safe, RestType, \A d \in Channels : SameRow(d),
           UNCHANGED <<thr, look, requests, platform, sent, excused>>
    PROVE  Safe'
  <1>1. \A d \in Channels : SameBook(d) /\ SameThreads(d)
    BY DEF SameBook, SameThreads
  <1>2. \A v \in Workers : SweepOK(v)'
    BY SweepFrame DEF RestType
  <1> QED BY <1>1, <1>2, ChannelFrame, RequestsFrame DEF Safe

-----------------------------------------------------------------------------
(* Claims.                                                                 *)

\* A scheduled row that is not held has nothing open: it may be claimed.
LEMMA Claimable ==
    ASSUME RestType, NEW c \in Channels, RowOK(c), row[c].status = "scheduled", ~HoldReason(c)
    PROVE  ~Open(c) /\ row[c].handle = 0 /\ hold[c] = "none"
  BY DEF RowOK, HoldReason

\* A row claimed for thread w, and a row the claim turned away, are in order.
LEMMA ClaimedRow ==
    ASSUME NEW c \in Channels, SameBook(c), RowOK(c), BooksOK(c), ~Open(c), hold[c] = "none",
           row[c].handle = 0, Goes2(c, "publishing", "none"),
           \A v \in Workers : thr'[v][c].stage \in {"idle", "claimed"}
    PROVE  ChannelOK(c)'
  <1>1. RowOK(c)' /\ ~Open(c)'
    BY OpenFrame DEF RowOK, Goes2, Open
  <1>2. \A v \in Workers : ThreadOK(v, c)'
    BY <1>1 DEF ThreadOK, Goes2, AfterWrite
  <1> QED BY <1>1, <1>2, BooksFrame DEF ChannelOK

LEMMA HeldRow ==
    ASSUME NEW c \in Channels, SameBook(c), RowOK(c), row[c].status = "scheduled",
           NEW k, k = hold[c] \/ k = HoldKind(c), Goes2(c, "failed", k)
    PROVE  RowOK(c)'
  BY OpenFrame DEF RowOK, Goes2, HoldKind

LEMMA ClaimSafe ==
    ASSUME OneWorker, Safe, DbType, RestType, NEW w \in Workers, PublishPostGroup(w)
    PROVE  Safe'
  <1>1. /\ UNCHANGED <<look, requests, platform, sent, excused>>
        /\ look[w] = {} /\ \A c \in Channels : thr[w][c].stage = "idle"
        /\ thr \in [Workers -> [Channels -> Thread]] /\ row \in [Channels -> Row]
    BY GroupStep DEF AtHand, RestType, DbType
  <1>4. CASE UNCHANGED <<row, hold, thr>>
    BY <1>1, <1>4, StillSafe DEF SameRow
  <1>5. SUFFICES ASSUME NEW D \in SUBSET Channels, NEW refused \in SUBSET Channels,
                        NEW go \in SUBSET Channels, GroupOutcome(w, D, refused, go)
                 PROVE  Safe'
    BY <1>4, GroupStep
  <1> DEFINE held == {c \in D : HoldReason(c)}
  <1>2. /\ \A c \in D : IsDueNow(c)
        /\ refused \subseteq D
        /\ go \subseteq D \ (held \cup refused)
        /\ row' = [c \in Channels |->
             IF c \in held THEN [row[c] EXCEPT !.status = "failed", !.parked = FALSE, !.age = 0]
             ELSE IF c \in refused THEN [row[c] EXCEPT !.status = "failed", !.age = 0]
             ELSE IF c \in go THEN [row[c] EXCEPT !.status = "publishing", !.age = 0]
             ELSE row[c]]
        /\ hold' = [c \in Channels |-> IF c \in held THEN HoldKind(c) ELSE hold[c]]
        /\ thr' = [thr EXCEPT ![w] =
             [c \in Channels |-> IF c \in go THEN ClaimedThread(c) ELSE thr[w][c]]]
    BY <1>5 DEF GroupOutcome
  <1>3. ASSUME NEW c \in Channels PROVE ChannelOK(c)'
    <2>1. ChannelOK(c) /\ RowOK(c) /\ BooksOK(c) /\ SameBook(c) /\ row[c] \in Row
      BY <1>1 DEF Safe, ChannelOK, SameBook
    <2>2. /\ c \in held => c \in D /\ HoldReason(c)
          /\ c \in go => c \in D /\ ~HoldReason(c)
          /\ c \in D => row[c].status = "scheduled"
      BY <1>2 DEF IsDueNow
    <2>3. \A v \in Workers :
            thr'[v][c] = IF c \in go THEN ClaimedThread(c) ELSE thr[v][c]
      BY <1>1, <1>2 DEF OneWorker
    <2>4. \A v \in Workers : thr[v][c].stage = "idle"
      BY <1>1 DEF OneWorker
    <2>5. BooksOK(c)'
      BY <2>1, BooksFrame
    <2>6. CASE c \in held
      <3>1. row'[c] = [row[c] EXCEPT !.status = "failed", !.parked = FALSE, !.age = 0]
            /\ hold'[c] = HoldKind(c)
        BY <1>2, <2>6
      <3>2. Goes2(c, "failed", HoldKind(c))
        BY <2>1, <3>1 DEF Row, Goes2
      <3>3. RowOK(c)'
        BY <2>1, <2>2, <2>6, <3>2, HeldRow
      <3>4. \A v \in Workers : thr'[v][c].stage = "idle"
        BY <2>3, <2>4, <2>6, <1>2
      <3> QED BY <2>5, <3>3, <3>4, Quiet
    <2>7. CASE c \notin held /\ c \in refused
      <3>1. row'[c] = [row[c] EXCEPT !.status = "failed", !.age = 0] /\ hold'[c] = hold[c]
        BY <1>2, <2>7
      <3>2. Goes2(c, "failed", hold[c])
        BY <2>1, <3>1 DEF Row, Goes2
      <3>3. RowOK(c)'
        BY <1>2, <2>1, <2>2, <2>7, <3>2, HeldRow
      <3>4. \A v \in Workers : thr'[v][c].stage = "idle"
        BY <2>3, <2>4, <2>7, <1>2
      <3> QED BY <2>5, <3>3, <3>4, Quiet
    <2>8. CASE c \in go
      <3>1. row'[c] = [row[c] EXCEPT !.status = "publishing", !.age = 0] /\ hold'[c] = hold[c]
        BY <1>2, <2>8
      <3>2. ~Open(c) /\ row[c].handle = 0 /\ hold[c] = "none"
        BY <2>1, <2>2, <2>8, Claimable
      <3>3. Goes2(c, "publishing", "none")
        BY <2>1, <3>1, <3>2 DEF Row, Goes2
      <3>4. \A v \in Workers : thr'[v][c].stage = "claimed"
        BY <2>3, <2>8 DEF ClaimedThread
      <3> QED BY <2>1, <3>2, <3>3, <3>4, ClaimedRow
    <2>9. CASE c \notin held /\ c \notin refused /\ c \notin go
      <3>1. row'[c] = row[c] /\ hold'[c] = hold[c]
        BY <1>2, <2>9
      <3>2. SameRow(c) /\ SameThreads(c)
        BY <3>1, <2>3, <2>9 DEF SameRow, SameThreads
      <3> QED BY <2>1, <3>2, ChannelFrame
    <2> QED BY <2>6, <2>7, <2>8, <2>9
  <1> QED BY <1>1, <1>3, NoSweep, RequestsFrame DEF Safe

LEMMA ProcessRetrySafe ==
    ASSUME OneWorker, Safe, DbType, RestType,
           NEW w \in Workers, NEW c \in Channels, ProcessRetry(w, c)
    PROVE  Safe'
  <1>0. /\ UNCHANGED <<look, requests, platform, sent, excused>>
        /\ look[w] = {} /\ \A d \in Channels : thr[w][d].stage = "idle"
        /\ thr \in [Workers -> [Channels -> Thread]] /\ row \in [Channels -> Row]
    BY RetryStep DEF AtHand, RestType, DbType
  <1>7. CASE UNCHANGED <<row, hold, thr>>
    BY <1>0, <1>7, StillSafe DEF SameRow
  <1>8. SUFFICES ASSUME RetryDue(c), ~UNCHANGED <<row, hold, thr>> PROVE Safe'
    BY <1>7, RetryStep
  <1>1. /\ UNCHANGED <<look, requests, platform, sent, excused>>
        /\ look[w] = {} /\ \A d \in Channels : thr[w][d].stage = "idle"
        /\ thr \in [Workers -> [Channels -> Thread]] /\ row \in [Channels -> Row]
        /\ row[c].status = "scheduled" /\ row[c] \in Row
    BY <1>0, <1>8 DEF RetryDue
  <1>2. /\ \A d \in Channels : SameBook(d)
        /\ RowOK(c) /\ BooksOK(c) /\ \A v \in Workers : thr[v][c].stage = "idle"
    BY <1>1 DEF Safe, ChannelOK, SameBook, OneWorker
  <1>3. SUFFICES OnlyOn(c) /\ ChannelOK(c)'
    BY <1>1, OneChannel, NoSweep, RequestsFrame DEF Safe
  <1>4. CASE BlockPublish(c, "scheduled") /\ UNCHANGED thr
    <2>1. Goes2(c, "failed", hold[c]) /\ \A d \in Channels : d # c => SameRow(d)
      BY <1>4, <1>1, BlockEffect
    <2>2. RowOK(c)' /\ BooksOK(c)'
      BY <1>1, <1>2, <2>1, HeldRow, BooksFrame
    <2> QED BY <1>2, <1>4, <2>1, <2>2, Quiet DEF OnlyOn, SameThreads
  <1>5. CASE Mark(c, "scheduled", HoldKind(c)) /\ UNCHANGED thr
    <2>1. Goes2(c, "failed", HoldKind(c)) /\ \A d \in Channels : d # c => SameRow(d)
      BY <1>5, <1>1, MarkEffect
    <2>2. RowOK(c)' /\ BooksOK(c)'
      BY <1>1, <1>2, <2>1, HeldRow, BooksFrame
    <2> QED BY <1>2, <1>5, <2>1, <2>2, Quiet DEF OnlyOn, SameThreads
  <1>6. CASE /\ ~HoldReason(c) /\ UNCHANGED hold
             /\ row' = [row EXCEPT ![c] = [@ EXCEPT !.status = "publishing", !.age = 0]]
             /\ thr' = [thr EXCEPT ![w][c] = ClaimedThread(c)]
    <2>1. ~Open(c) /\ row[c].handle = 0 /\ hold[c] = "none"
      BY <1>1, <1>2, <1>6, Claimable
    <2>2. \A d \in Channels : d # c => SameRow(d)
      BY <1>1, <1>6 DEF SameRow
    <2>3. Goes2(c, "publishing", "none")
      BY <1>1, <1>6, <2>1 DEF Row, Goes2
    <2>4. /\ \A v \in Workers : thr'[v][c].stage \in {"idle", "claimed"}
          /\ \A v \in Workers, d \in Channels : d # c => thr'[v][d] = thr[v][d]
      BY <1>1, <1>2, <1>6 DEF ClaimedThread
    <2> QED BY <1>2, <2>1, <2>2, <2>3, <2>4, ClaimedRow DEF OnlyOn, SameThreads
  <1> QED BY <1>4, <1>5, <1>6, <1>8, RetryStep

-----------------------------------------------------------------------------
(* The sweep.                                                              *)

LEMMA SweepReadSafe ==
    ASSUME OneWorker, Safe, DbType, RestType, NEW w \in Workers, SweepRead(w)
    PROVE  Safe'
  <1>1. /\ UNCHANGED <<row, hold, thr, requests, platform, sent, excused>>
        /\ \A c \in Channels : thr[w][c].stage = "idle"
        /\ look \in [Workers -> SUBSET Sight]
    BY DEF SweepRead, Idle, AtHand, RestType, dbVars, extVars
  <1>2. look'[w] = {[c |-> c, handle |-> row[c].handle, age |-> row[c].age] :
                      c \in {d \in Channels : row[d].status = "publishing"}}
    BY <1>1 DEF SweepRead
  <1>3. \A d \in Channels : SameRow(d) /\ SameBook(d) /\ SameThreads(d)
    BY <1>1 DEF SameRow, SameBook, SameThreads
  <1>4. \A v \in Workers : SweepOK(v)'
    <2>1. SweepOK(w)'
      BY <1>1, <1>2 DEF SweepOK
    <2> QED BY <2>1 DEF OneWorker
  <1> QED BY <1>1, <1>3, <1>4, ChannelFrame, RequestsFrame DEF Safe

\* The sweep settles one reading; no thread runs beside it.
LEMMA SweepSettles ==
    ASSUME OneWorker, Safe, look \in [Workers -> SUBSET Sight], NEW w \in Workers, NEW s \in look[w],
           look' = [look EXCEPT ![w] = @ \ {s}], UNCHANGED <<thr, requests>>,
           \A d \in Channels : d # s.c => SameRow(d) /\ SameBook(d),
           RowOK(s.c)', BooksOK(s.c)'
    PROVE  Safe'
  <1>1. s.c \in Channels /\ \A t \in look[w] : t.c \in Channels
    BY DEF Sight
  <1>2. /\ SweepOK(w) /\ \A v \in Workers : v = w
        /\ \A v \in Workers, d \in Channels : thr[v][d].stage = "idle"
    BY DEF Safe, SweepOK, OneWorker
  <1>3. ChannelOK(s.c)' /\ OnlyOn(s.c)
    BY <1>1, <1>2, Quiet DEF OnlyOn, SameThreads
  <1>4. SweepOK(w)'
    <2>1. look'[w] = look[w] \ {s}
      OBVIOUS
    <2>2. \A t \in look'[w] : t \in look[w] /\ t.c # s.c
      BY <1>2, <2>1 DEF SweepOK
    <2>3. \A t \in look'[w] : SameRow(t.c)
      BY <1>1, <2>2
    <2> QED BY <1>2, <2>2, <2>3 DEF SweepOK, SameRow
  <1>5. \A v \in Workers : SweepOK(v)'
    BY <1>2, <1>4
  <1> QED BY <1>1, <1>3, <1>5, OneChannel, RequestsFrame DEF Safe

LEMMA SweepRowSafe ==
    ASSUME OneWorker, Safe, DbType, RestType, NEW w \in Workers, SweepRow(w)
    PROVE  Safe'
  <1> USE DEF extVars
  <1>1. PICK s \in look[w] : look' = [look EXCEPT ![w] = @ \ {s}] /\ (SweepUnaskable(s) \/ SweepAsk(s))
    BY DEF SweepRow
  <1>2. /\ UNCHANGED <<thr, requests, platform, sent>>
        /\ look \in [Workers -> SUBSET Sight] /\ row \in [Channels -> Row]
        /\ excused \in [Channels -> SUBSET Attempts]
    BY DEF SweepRow, RestType, DbType
  <1>3. /\ s.c \in Channels /\ s.handle \in 0..MaxAttempts
    BY <1>1, <1>2 DEF Sight
  <1>4. /\ row[s.c].status = "publishing" /\ row[s.c].handle = s.handle
        /\ RowOK(s.c) /\ BooksOK(s.c)
    BY <1>1, <1>3 DEF Safe, SweepOK, ChannelOK
  <1>5. SUFFICES /\ \A d \in Channels : d # s.c => SameRow(d) /\ SameBook(d)
                 /\ RowOK(s.c)' /\ BooksOK(s.c)'
    BY <1>1, <1>2, SweepSettles
  <1>6. CASE UNCHANGED <<row, hold, excused>>
    <2>1. \A d \in Channels : SameRow(d) /\ SameBook(d)
      BY <1>2, <1>6 DEF SameRow, SameBook
    <2> QED BY <1>3, <1>4, <2>1, RowFrame, BooksFrame
  <1>7. CASE Mark(s.c, "publishing", "unknown") /\ UNCHANGED excused
    <2>1. \A d \in Channels : SameBook(d)
      BY <1>2, <1>7 DEF SameBook
    <2>2. Goes2(s.c, "failed", "unknown") /\ \A d \in Channels : d # s.c => SameRow(d)
      BY <1>3, <1>4, <1>7, MarkEffect
    <2> QED BY <1>3, <1>4, <2>1, <2>2, SettleUnknown, BooksFrame
  <1>8. CASE /\ platform[s.c][s.handle] = "live" /\ s.handle # 0
             /\ row' = [row EXCEPT ![s.c] = [@ EXCEPT !.status = "published",
                                                       !.handle = s.handle, !.age = 0]]
             /\ UNCHANGED <<hold, excused>>
    <2>1. \A d \in Channels : SameBook(d) /\ (d # s.c => SameRow(d))
      BY <1>2, <1>8 DEF SameBook, SameRow
    <2>2. row'[s.c].status = "published"
      BY <1>2, <1>3, <1>8 DEF Row
    <2>3. s.handle \in Attempts
      BY <1>3, <1>8, PublishingAssumption DEF Attempts
    <2>4. RowOK(s.c)'
      BY <1>2, <1>8, <2>2, <2>3 DEF RowOK
    <2> QED BY <1>3, <1>4, <2>1, <2>4, BooksFrame
  <1>9. CASE /\ platform[s.c][s.handle] = "refused" /\ s.handle # 0
             /\ FailPermanently(s.c) /\ UNCHANGED excused
    <2>1. \A d \in Channels : SameBook(d)
      BY <1>2, <1>9 DEF SameBook
    <2>2. ~Open(s.c)
      BY <1>4, <1>9 DEF RowOK, Open, OpenAt, Possible
    <2>3. Goes2(s.c, "failed", hold[s.c]) /\ \A d \in Channels : d # s.c => SameRow(d)
      BY <1>3, <1>4, <1>9, FailEffect
    <2> QED BY <1>3, <1>4, <2>1, <2>2, <2>3, SettleClosed, BooksFrame
  <1>10. CASE /\ s.handle # 0 /\ FailPermanently(s.c)
              /\ excused' = [excused EXCEPT ![s.c] = @ \cup {s.handle}]
    <2>1. /\ excused'[s.c] = excused[s.c] \cup {s.handle}
          /\ \A d \in Channels : d # s.c => SameBook(d)
      BY <1>2, <1>3, <1>10 DEF SameBook
    <2>2. \A n \in Attempts : OpenAt(s.c, n) => n = s.handle
      BY <1>4, <1>10 DEF RowOK
    <2>3. ~Open(s.c)'
      BY <1>2, <2>1, <2>2 DEF Open, OpenAt
    <2>4. Goes2(s.c, "failed", hold[s.c]) /\ \A d \in Channels : d # s.c => SameRow(d)
      BY <1>3, <1>4, <1>10, FailEffect
    <2>5. RowOK(s.c)'
      BY <2>3, <2>4 DEF RowOK, Goes2
    <2>6. BooksOK(s.c)'
      BY <1>2, <1>4, <2>1 DEF BooksOK
    <2> QED BY <2>1, <2>4, <2>5, <2>6
  <1>11. CASE SweepUnaskable(s)
    BY <1>6, <1>7, <1>11 DEF SweepUnaskable, dbVars
  <1>12. CASE SweepAsk(s)
    BY <1>6, <1>7, <1>8, <1>9, <1>10, <1>12 DEF SweepAsk, dbVars
  <1> QED BY <1>1, <1>11, <1>12

-----------------------------------------------------------------------------
(* Processes, clocks and the platform.                                     *)

LEMMA CrashSafe ==
    ASSUME OneWorker, Safe, DbType, RestType, NEW w \in Workers, Crash(w)
    PROVE  Safe'
  <1>1. /\ UNCHANGED <<row, hold, requests, platform, sent, excused>>
        /\ thr \in [Workers -> [Channels -> Thread]] /\ look \in [Workers -> SUBSET Sight]
    BY DEF Crash, RestType, dbVars, extVars
  <1>2. /\ \A c \in Channels : thr'[w][c] = IdleThread
        /\ look'[w] = {}
    BY <1>1 DEF Crash, Forgotten
  <1>3. \A v \in Workers : v = w
    BY DEF OneWorker
  <1>4. \A v \in Workers : SweepOK(v)'
    BY <1>2, <1>3 DEF SweepOK
  <1>5. ASSUME NEW c \in Channels PROVE ChannelOK(c)'
    <2>1. SameRow(c) /\ SameBook(c)
      BY <1>1 DEF SameRow, SameBook
    <2>2. \A v \in Workers : thr'[v][c].stage = "idle"
      BY <1>2, <1>3 DEF IdleThread
    <2> QED BY <2>1, <2>2, RowFrame, BooksFrame, Quiet DEF Safe, ChannelOK
  <1> QED BY <1>1, <1>4, <1>5, RequestsFrame DEF Safe

LEMMA ClockSafe ==
    ASSUME Safe, DbType, RestType, NEW c \in Channels,
           TimePasses(c) \/ BackoffEnds(c) \/ ClaimAges(c)
    PROVE  Safe'
  <1>1. UNCHANGED <<hold, thr, look, requests, platform, sent, excused>>
    BY DEF TimePasses, BackoffEnds, ClaimAges, extVars
  <1>2. row \in [Channels -> Row] /\ row[c] \in Row
    BY DEF DbType
  <1>3. \/ row' = [row EXCEPT ![c].sched = "due"]
        \/ row' = [row EXCEPT ![c].sched = "late"]
        \/ row' = [row EXCEPT ![c].parked = FALSE]
        \/ row' = [row EXCEPT ![c].age = @ + 1]
    BY DEF TimePasses, BackoffEnds, ClaimAges
  <1>4. \A d \in Channels : row'[d].status = row[d].status /\ row'[d].handle = row[d].handle
    BY <1>2, <1>3 DEF Row
  <1>5. \A d \in Channels : SameRow(d)
    BY <1>1, <1>4 DEF SameRow
  <1> QED BY <1>1, <1>5, StillSafe

LEMMA PlatformSafe ==
    ASSUME Safe, DbType, RestType, NEW c \in Channels, NEW n \in Attempts, PlatformFinishes(c, n)
    PROVE  Safe'
  <1>1. /\ UNCHANGED <<row, hold, thr, look, requests, sent, excused>>
        /\ platform \in [Channels -> [Attempts -> Verdicts]]
        /\ platform[c][n] = "processing"
    BY DEF PlatformFinishes, RestType, dbVars
  <1>2. PICK v \in {"live", "refused"} : platform' = [platform EXCEPT ![c][n] = v]
    BY DEF PlatformFinishes
  <1>3. /\ platform'[c][n] = v
        /\ \A m \in Attempts : m # n => platform'[c][m] = platform[c][m]
        /\ \A d \in Channels : d # c => platform'[d] = platform[d]
    BY <1>1, <1>2
  <1>4. \A d \in Channels : SameRow(d) /\ SameThreads(d) /\ (d # c => SameBook(d))
    BY <1>1, <1>3 DEF SameRow, SameBook, SameThreads
  <1>5. OnlyOn(c)
    BY <1>4 DEF OnlyOn
  <1>6. RowOK(c) /\ BooksOK(c) /\ \A w \in Workers : ThreadOK(w, c)
    BY DEF Safe, ChannelOK
  <1>7. /\ \A m \in Attempts : OpenAt(c, m)' => OpenAt(c, m)
        /\ Open(c)' => Open(c)
        /\ \A m \in Attempts : platform[c][m] = "live" => platform'[c][m] = "live"
        /\ \A m \in Attempts : platform'[c][m] \in Possible => platform[c][m] \in Possible
        /\ \A m \in Attempts : platform'[c][m] = "unsent" <=> platform[c][m] = "unsent"
    BY <1>1, <1>3 DEF Open, OpenAt, Possible
  <1>8. RowOK(c)'
    BY <1>1, <1>6, <1>7 DEF RowOK
  <1>9. BooksOK(c)'
    BY <1>1, <1>6, <1>7 DEF BooksOK
  <1>10. \A w \in Workers : ThreadOK(w, c)'
    BY <1>1, <1>6, <1>7 DEF ThreadOK, AfterWrite
  <1>11. \A w \in Workers : SweepOK(w)'
    BY <1>1, <1>4, SweepFrame DEF RestType
  <1> QED BY <1>1, <1>5, <1>8, <1>9, <1>10, <1>11, OneChannel, RequestsFrame DEF Safe, ChannelOK

-----------------------------------------------------------------------------
(* People.                                                                 *)

\* A person's step on a row that is neither claimed nor published.
LEMMA PersonalStep ==
    ASSUME Safe, RestType, NEW c \in Channels, row[c].status # "publishing",
           \A d \in Channels : d # c => SameRow(d) /\ SameBook(d),
           UNCHANGED <<thr, look>>, RowOK(c)', BooksOK(c)',
           \A q \in requests' : RequestOK(q)'
    PROVE  Safe'
  <1>1. \A w \in Workers : thr'[w][c].stage = "idle"
    BY NoThread
  <1>2. ChannelOK(c)' /\ OnlyOn(c)
    BY <1>1, Quiet DEF OnlyOn, SameThreads
  <1>3. \A v \in Workers : SweepOK(v)'
    BY SweepFrame DEF RestType
  <1> QED BY <1>2, <1>3, OneChannel DEF Safe

LEMMA WriteRowSafe ==
    ASSUME GuardedWeb, Safe, DbType, RestType, WriteRow
    PROVE  Safe'
  <1>1. PICK q \in requests : \E when \in NewTimes(q.op) :
          /\ requests' = requests \ {q}
          /\ row' = IF Writable(q) THEN [row EXCEPT ![q.c] = WrittenBack(q, when)] ELSE row
    BY DEF WriteRow
  <1>2. /\ UNCHANGED <<hold, thr, look, platform, sent, excused>>
        /\ row \in [Channels -> Row] /\ q \in Request
    BY <1>1 DEF WriteRow, RestType, DbType
  <1>3. /\ q.c \in Channels /\ q.op \in GuardedOps /\ q.old.status \in From(q.op)
        /\ q.old.status = "scheduled" => q.old.handle = 0
    BY <1>1, <1>2 DEF Safe, RequestOK, Request
  <1>4. \A d \in Channels : SameBook(d)
    BY <1>2 DEF SameBook
  <1>5. CASE ~Writable(q)
    <2>1. \A d \in Channels : SameRow(d)
      BY <1>1, <1>2, <1>5 DEF SameRow
    <2> QED BY <1>1, <1>2, <1>4, <2>1, ChannelFrame, SweepFrame, RequestsFrame
            DEF Safe, SameThreads, RestType
  <1>6. CASE Writable(q)
    <2>1. row[q.c].status = q.old.status /\ row[q.c].status \notin {"publishing", "published"}
      BY <1>3, <1>6, WebFacts DEF Writable
    <2>2. PICK when \in NewTimes(q.op) : row' = [row EXCEPT ![q.c] = WrittenBack(q, when)]
      BY <1>1, <1>6
    <2>3. /\ row'[q.c] = WrittenBack(q, when)
          /\ \A d \in Channels : d # q.c => SameRow(d)
      BY <1>2, <1>3, <2>2 DEF SameRow
    <2>4. /\ row'[q.c].status = Target(q.op)
          /\ Target(q.op) = "scheduled" =>
                row'[q.c].handle = IF q.op # "retime" THEN 0 ELSE q.old.handle
      BY <2>3 DEF WrittenBack
    <2>5. row'[q.c].status \notin {"publishing", "published"}
      BY <1>3, <2>4, WebFacts
    <2>6. row'[q.c].status = "scheduled" => row'[q.c].handle = 0
      <3>1. From("retime") = {"scheduled"}
        BY DEF From
      <3> QED BY <1>3, <2>4, <3>1
    <2>7. RowOK(q.c) /\ BooksOK(q.c) /\ hold'[q.c] = hold[q.c]
      BY <1>2, <1>3 DEF Safe, ChannelOK
    <2>8. RowOK(q.c)' /\ BooksOK(q.c)'
      BY <1>3, <1>4, <2>1, <2>5, <2>6, <2>7, OpenFrame, BooksFrame DEF RowOK
    <2> QED BY <1>1, <1>2, <1>3, <1>4, <2>1, <2>3, <2>8, PersonalStep, RequestsFrame
  <1> QED BY <1>5, <1>6

LEMMA LoadRowSafe ==
    ASSUME GuardedWeb, Safe, DbType, RestType,
           NEW c \in Channels, NEW op \in WebOps, LoadRow(op, c)
    PROVE  Safe'
  <1>1. /\ UNCHANGED <<row, hold, thr, look, platform, sent, excused>>
        /\ row[c].status \in From(op) /\ op \in GuardedOps
        /\ requests' = requests \cup {[op |-> op, c |-> c, old |-> CopyOf(row[c])]}
    BY DEF LoadRow, dbVars, extVars, GuardedWeb
  <1>2. \A d \in Channels : SameRow(d) /\ SameBook(d) /\ SameThreads(d)
    BY <1>1 DEF SameRow, SameBook, SameThreads
  <1>3. row[c].status = "scheduled" => row[c].handle = 0
    BY DEF Safe, ChannelOK, RowOK
  <1>4. RequestOK([op |-> op, c |-> c, old |-> CopyOf(row[c])])'
    BY <1>1, <1>3 DEF RequestOK, CopyOf
  <1>5. \A q \in requests' : RequestOK(q)'
    BY <1>1, <1>4 DEF Safe, RequestOK
  <1>6. \A v \in Workers : SweepOK(v)'
    BY <1>1, <1>2, SweepFrame DEF RestType
  <1> QED BY <1>2, <1>5, <1>6, ChannelFrame DEF Safe

LEMMA RulingSafe ==
    ASSUME Safe, DbType, RestType, NEW c \in Channels,
           Withdraw(c) \/ ReconcileExisting(c) \/ CheckedAbsent(c)
    PROVE  Safe'
  <1> USE DEF extVars
  <1>1. /\ UNCHANGED <<thr, look, requests, platform, sent>>
        /\ row \in [Channels -> Row] /\ hold \in [Channels -> HoldKinds] /\ row[c] \in Row
        /\ excused \in [Channels -> SUBSET Attempts]
        /\ row[c].status \notin {"publishing", "published"}
    BY DEF Withdraw, ReconcileExisting, CheckedAbsent, DbType, RestType
  <1>2. RowOK(c) /\ BooksOK(c) /\ \A q \in requests' : RequestOK(q)'
    BY <1>1, RequestsFrame DEF Safe, ChannelOK
  <1>3. CASE Withdraw(c)
    <2>1. /\ \A d \in Channels : SameBook(d) /\ (d # c => SameRow(d))
          /\ hold'[c] = hold[c]
      BY <1>1, <1>3 DEF Withdraw, SameBook, SameRow
    <2>2. row'[c].status = "pending_review"
      BY <1>1, <1>3 DEF Withdraw, Row
    <2>3. RowOK(c)' /\ BooksOK(c)'
      BY <1>1, <1>2, <2>1, <2>2, OpenFrame, BooksFrame DEF RowOK
    <2> QED BY <1>1, <1>2, <2>1, <2>3, PersonalStep
  <1>4. CASE ReconcileExisting(c)
    <2>1. PICK n \in Attempts :
            /\ platform[c][n] = "live"
            /\ row' = [row EXCEPT ![c] = [row[c] EXCEPT !.status = "published", !.handle = n,
                                                        !.parked = FALSE, !.age = 0]]
      BY <1>4 DEF ReconcileExisting
    <2>2. \A d \in Channels : SameBook(d) /\ (d # c => SameRow(d))
      BY <1>1, <1>4, <2>1 DEF ReconcileExisting, SameBook, SameRow
    <2>3. row'[c].status = "published"
      BY <1>1, <2>1 DEF Row
    <2>4. RowOK(c)' /\ BooksOK(c)'
      BY <1>1, <1>2, <2>1, <2>2, <2>3, BooksFrame DEF RowOK
    <2> QED BY <1>1, <1>2, <2>2, <2>4, PersonalStep
  <1>5. CASE CheckedAbsent(c)
    <2>1. /\ \A d \in Channels : d # c => SameBook(d) /\ SameRow(d)
          /\ excused'[c] = excused[c] \cup {n \in Attempts : platform[c][n] = "processing"}
          /\ row'[c].status = "pending_review"
          /\ \A n \in Attempts : platform[c][n] # "live"
      BY <1>1, <1>5 DEF CheckedAbsent, SameBook, SameRow
    <2>2. ~Open(c)'
      BY <1>1, <2>1 DEF Open, OpenAt, Possible
    <2>3. RowOK(c)' /\ BooksOK(c)'
      BY <1>1, <1>2, <2>1, <2>2 DEF RowOK, BooksOK
    <2> QED BY <1>1, <1>2, <2>1, <2>3, PersonalStep
  <1> QED BY <1>3, <1>4, <1>5

-----------------------------------------------------------------------------
(* The invariant and what follows from it.                                 *)

LEMMA InitSafe == Init => Safe
  <1> SUFFICES ASSUME Init PROVE Safe
    OBVIOUS
  <1>1. \A w \in Workers : SweepOK(w)
    BY DEF Init, SweepOK
  <1>2. ASSUME NEW c \in Channels PROVE ChannelOK(c)
    <2>1. /\ row[c].status = "draft" /\ sent[c] = 0
          /\ \A n \in Attempts : platform[c][n] = "unsent"
          /\ \A w \in Workers : thr[w][c].stage = "idle"
      BY DEF Init, IdleThread
    <2>2. ~Open(c)
      BY <2>1 DEF Open, OpenAt, Possible
    <2>3. BooksOK(c)
      BY <2>1 DEF BooksOK, Attempts, Possible
    <2> QED BY <2>1, <2>2, <2>3 DEF ChannelOK, RowOK, ThreadOK
  <1> QED BY <1>1, <1>2 DEF Safe, Init

LEMMA NextSafe ==
    ASSUME OneWorker, GuardedWeb, Safe, DbType, RestType, [Next]_vars
    PROVE  Safe'
  <1>1. ASSUME NEW w \in Workers, Work(w) PROVE Safe'
    <2>1. CASE PublishPostGroup(w)
      BY <2>1, ClaimSafe
    <2>2. CASE SweepRead(w)
      BY <2>2, SweepReadSafe
    <2>3. CASE SweepRow(w)
      BY <2>3, SweepRowSafe
    <2>4. CASE Crash(w)
      BY <2>4, CrashSafe
    <2>5. CASE StartWorker(w) \/ FindDue(w) \/ FindRetries(w)
      BY <2>5, StillSafe DEF StartWorker, FindDue, FindRetries, dbVars, extVars, SameRow
    <2>6. ASSUME NEW c \in Channels,
                 \/ ProcessRetry(w, c)
                 \/ CheckBeforeSending(w, c)
                 \/ StopBeforeSending(w, c)
                 \/ Send(w, c)
                 \/ Answer(w, c)
                 \/ RecordAccepted(w, c)
                 \/ RecordFailure(w, c)
                 \/ RecordNothing(w, c)
          PROVE  Safe'
      BY <2>6, ProcessRetrySafe, CheckSafe, StopSafe, SendSafe, AnswerSafe,
         AcceptedSafe, FailureSafe, NothingSafe
    <2> QED BY <1>1, <2>1, <2>2, <2>3, <2>4, <2>5, <2>6 DEF Work
  <1>2. ASSUME NEW c \in Channels, World(c) PROVE Safe'
    BY <1>2, ClockSafe, PlatformSafe DEF World
  <1>3. CASE LoseLease
    BY <1>3, StillSafe DEF LoseLease, dbVars, extVars, SameRow
  <1>4. CASE People
    BY <1>4, WriteRowSafe, LoadRowSafe, RulingSafe DEF People
  <1>5. CASE UNCHANGED vars
    BY <1>5, StillSafe DEF vars, SameRow
  <1> QED BY <1>1, <1>2, <1>3, <1>4, <1>5 DEF Next

LEMMA Inductive ==
    ASSUME OneWorker, GuardedWeb
    PROVE  Spec => []IInv
  <1>1. Init => IInv
    BY InitType, InitSafe DEF IInv
  <1>2. IInv /\ [Next]_vars => IInv'
    <2> SUFFICES ASSUME IInv, [Next]_vars PROVE IInv'
      OBVIOUS
    <2>1. TypeInv'
      BY NextType DEF IInv
    <2>2. Safe'
      BY TypeParts, NextSafe DEF IInv
    <2> QED BY <2>1, <2>2 DEF IInv
  <1> QED BY <1>1, <1>2, PTL DEF Spec

\* One worker and guarded web writes: the engine makes no copy of a post while
\* an earlier one may be on the platform (PublishEngine._publish_platform_post,
\* confirm_pending_publishes), whatever crashes, answers get lost or people do.
THEOREM NeverPostsTwice ==
    ASSUME OneWorker, GuardedWeb
    PROVE  Spec => []NoDoublePost
  <1>1. IInv => NoDoublePost
    BY DEF IInv, Safe, ChannelOK, BooksOK, NoDoublePost
  <1> QED BY <1>1, Inductive, PTL

\* ... and an attempt that is or may be live never drops out of sight: its row
\* is claimed or published, or the post carries the unknown-outcome hold
\* (delivery.mark, _record_hold).
THEOREM NeverForgets ==
    ASSUME OneWorker, GuardedWeb
    PROVE  Spec => []NothingForgotten
  <1>1. IInv => NothingForgotten
    BY DEF IInv, Safe, ChannelOK, RowOK, NothingForgotten
  <1> QED BY <1>1, Inductive, PTL

\* ... and a row reads Published only when a copy is live
\* (_publish_platform_post, _mark_confirmed_published, reconcile_existing).
THEOREM PublishedMeansLive ==
    ASSUME OneWorker, GuardedWeb
    PROVE  Spec => []PublishedIsLive
  <1>1. IInv => PublishedIsLive
    BY DEF IInv, Safe, ChannelOK, RowOK, PublishedIsLive
  <1> QED BY <1>1, Inductive, PTL

\* ... and a row a publishing thread works on stays claimed for that thread
\* alone, though no transaction is open during the minutes of the upload.
THEOREM ClaimsAreExclusive ==
    ASSUME OneWorker, GuardedWeb
    PROVE  Spec => []ThreadOwnsItsRow
  <1>1. IInv => ThreadOwnsItsRow
    BY DEF IInv, Safe, ChannelOK, ThreadOK, OneWorker, ThreadOwnsItsRow
  <1> QED BY <1>1, Inductive, PTL

-----------------------------------------------------------------------------
(* No step walks a published row back.                                     *)

\* The rows of a published post that a step writes at all.
KeepsPublished == \A c \in Channels : row[c].status = "published" => row'[c].status = "published"

LEMMA ThreadKeeps ==
    ASSUME Safe, DbType, NEW w \in Workers, NEW c \in Channels,
           \/ CheckBeforeSending(w, c)
           \/ StopBeforeSending(w, c)
           \/ Send(w, c)
           \/ Answer(w, c)
           \/ RecordAccepted(w, c)
           \/ RecordFailure(w, c)
           \/ RecordNothing(w, c)
    PROVE  KeepsPublished
  <1>1. thr[w][c].stage # "idle"
    BY DEF CheckBeforeSending, StopBeforeSending, Send, Answer, RecordAccepted,
           RecordFailure, RecordNothing
  <1>2. row[c].status = "publishing"
    BY <1>1, AtWork
  <1>3. row' = row \/ \E r : row' = [row EXCEPT ![c] = r]
    BY DEF CheckBeforeSending, StopBeforeSending, Send, Answer, RecordAccepted,
           RecordFailure, RecordNothing, Mark, ScheduleRetry, BlockPublish, FailPermanently, dbVars
  <1>4. row \in [Channels -> Row]
    BY DEF DbType
  <1> QED BY <1>2, <1>3, <1>4 DEF KeepsPublished

LEMMA ClaimKeeps ==
    ASSUME Safe, DbType, NEW w \in Workers,
           PublishPostGroup(w) \/ \E c \in Channels : ProcessRetry(w, c)
    PROVE  KeepsPublished
  <1>1. ASSUME NEW c \in Channels, ProcessRetry(w, c) PROVE KeepsPublished
    <2>1. row' = row \/ \E r : row' = [row EXCEPT ![c] = r]
      BY <1>1, RetryStep DEF Mark, BlockPublish, dbVars
    <2>2. row' = row \/ row[c].status = "scheduled"
      BY <1>1, RetryStep DEF RetryDue
    <2>3. row \in [Channels -> Row]
      BY DEF DbType
    <2> QED BY <2>1, <2>2, <2>3 DEF KeepsPublished
  <1>2. CASE PublishPostGroup(w)
    <2>1. \A c \in Channels : row[c].status # "scheduled" => row'[c] = row[c]
      <3>1. CASE row' = row
        BY <3>1
      <3>2. ASSUME NEW D \in SUBSET Channels, NEW refused \in SUBSET Channels,
                   NEW go \in SUBSET Channels, GroupOutcome(w, D, refused, go),
                   NEW c \in Channels, row[c].status # "scheduled"
            PROVE  row'[c] = row[c]
        <4>1. c \notin D /\ c \notin refused /\ c \notin go
          BY <3>2 DEF GroupOutcome, IsDueNow
        <4> QED BY <3>2, <4>1 DEF GroupOutcome
      <3> QED BY <1>2, <3>1, <3>2, GroupStep
    <2> QED BY <2>1 DEF KeepsPublished
  <1> QED BY <1>1, <1>2

LEMMA SweepKeeps ==
    ASSUME Safe, DbType, RestType, NEW w \in Workers, SweepRow(w)
    PROVE  KeepsPublished
  <1>1. PICK s \in look[w] : SweepUnaskable(s) \/ SweepAsk(s)
    BY DEF SweepRow
  <1>2. /\ s.c \in Channels /\ row[s.c].status = "publishing"
        /\ row \in [Channels -> Row]
    BY <1>1 DEF Safe, SweepOK, RestType, Sight, DbType
  <1>3. row' = row \/ \E r : row' = [row EXCEPT ![s.c] = r]
    BY <1>1 DEF SweepUnaskable, SweepAsk, Mark, FailPermanently, dbVars
  <1> QED BY <1>2, <1>3 DEF KeepsPublished

LEMMA PeopleKeep ==
    ASSUME GuardedWeb, Safe, DbType, RestType, People
    PROVE  KeepsPublished
  <1>1. CASE WriteRow
    <2>1. PICK q \in requests : \E when \in NewTimes(q.op) :
            row' = IF Writable(q) THEN [row EXCEPT ![q.c] = WrittenBack(q, when)] ELSE row
      BY <1>1 DEF WriteRow
    <2>2. /\ q.op \in GuardedOps /\ q.old.status \in From(q.op)
          /\ row \in [Channels -> Row]
      BY <2>1 DEF Safe, RequestOK, DbType
    <2>3. Writable(q) => row[q.c].status # "published"
      BY <2>2, WebFacts DEF Writable
    <2> QED BY <2>1, <2>2, <2>3 DEF KeepsPublished
  <1>2. ASSUME NEW c \in Channels,
               Withdraw(c) \/ ReconcileExisting(c) \/ CheckedAbsent(c)
        PROVE  KeepsPublished
    <2>1. /\ row[c].status # "published" /\ row \in [Channels -> Row]
          /\ \E r : row' = [row EXCEPT ![c] = r]
      BY <1>2 DEF Withdraw, ReconcileExisting, CheckedAbsent, DbType
    <2> QED BY <2>1 DEF KeepsPublished
  <1>3. CASE row' = row
    BY <1>3 DEF KeepsPublished
  <1> QED BY <1>1, <1>2, <1>3 DEF People, LoadRow, dbVars

\* "published" is terminal (composer/models.py VALID_TRANSITIONS): no step of
\* the engine, the sweep or the guarded web operations takes a row out of it.
THEOREM PublishedStays ==
    ASSUME OneWorker, GuardedWeb
    PROVE  Spec => PublishedIsFinal
  <1>1. IInv /\ [Next]_vars => [KeepsPublished]_vars
    <2> SUFFICES ASSUME Safe, DbType, RestType, Next PROVE KeepsPublished
      BY TypeParts DEF IInv
    <2>1. CASE row' = row
      BY <2>1 DEF KeepsPublished
    <2>2. ASSUME NEW w \in Workers, Work(w) PROVE KeepsPublished
      BY <2>1, <2>2, ThreadKeeps, ClaimKeeps, SweepKeeps
         DEF Work, SweepRead, Crash, StartWorker, FindDue, FindRetries, dbVars
    <2>3. ASSUME NEW c \in Channels, World(c) PROVE KeepsPublished
      <3>1. \/ row' = row
            \/ row'[c].status = row[c].status /\ \A d \in Channels : d # c => row'[d] = row[d]
        <4>1. row \in [Channels -> Row] /\ row[c] \in Row
          BY DEF DbType
        <4>2. \/ row' = row
              \/ row' = [row EXCEPT ![c].sched = "due"]
              \/ row' = [row EXCEPT ![c].sched = "late"]
              \/ row' = [row EXCEPT ![c].parked = FALSE]
              \/ row' = [row EXCEPT ![c].age = @ + 1]
          BY <2>3 DEF World, TimePasses, BackoffEnds, ClaimAges, PlatformFinishes, dbVars
        <4> QED BY <4>1, <4>2 DEF Row
      <3> QED BY <2>1, <3>1 DEF KeepsPublished
    <2> QED BY <2>1, <2>2, <2>3, PeopleKeep DEF Next, LoseLease, dbVars
  <1> QED BY <1>1, Inductive, PTL DEF Spec, PublishedIsFinal, KeepsPublished

===============================================================================
