-------------------------- MODULE ApprovalGateProofs --------------------------
(***************************************************************************)
(* Theorems about ApprovalGate, for every set of contents and times and    *)
(* every number of concurrent requests.                                    *)
(*                                                                         *)
(* The inductive invariant says what a request, the row and the publishing *)
(* thread carry with them: a stamp names content only when an approver put *)
(* it there; a request headed for the schedule holds such a stamp, and one *)
(* that read a held row is headed for `approved` or `draft`; while a thread*)
(* runs the row is `publishing` under the stamp its text was checked with. *)
(***************************************************************************)
EXTENDS ApprovalGate, TLAPS

StampOK(stamp) == stamp.content # NoContent => stamp.by = "approver"

RequestOK(q) ==
    /\ StampOK(q.stamp)
    /\ q.from \notin {"publishing", "published"} /\ q.to # "publishing"
    /\ q.from = "on_hold" => q.to \in {"approved", "draft"}
    /\ q.to = "scheduled" => q.stamp.content # NoContent

RowOK == StampOK(row.stamp) /\ (row.status \in Gated => row.stamp.content # NoContent)

ThreadOK ==
    /\ thr.stage # "idle" => row.status = "publishing" /\ row.stamp.content[1] = thr.text
    /\ thr.stage = "cleared" => row.stamp.content = <<thr.text, thr.media>>

IInv ==
    /\ GateTypeOK
    /\ \A q \in requests : RequestOK(q)
    /\ RowOK
    /\ ThreadOK

-----------------------------------------------------------------------------
(* The values the handlers write.                                          *)

LEMMA FingerprintNames ==
    ASSUME GateTypeOK
    PROVE  Fingerprint \in Contents /\ Fingerprint # NoContent /\ Fingerprint[1] = text
  BY GateAssumption DEF GateTypeOK, Fingerprint, Contents, NoContent

LEMMA Values ==
    /\ NoStamp \in Stamp /\ StampOK(NoStamp)
    /\ "none" \in When /\ Times \subseteq When
    /\ IdleThread \in Thread
    /\ Gated \subseteq Statuses /\ Revalidated \subseteq Statuses /\ Clearing \subseteq Statuses
    /\ {"draft", "pending_review", "pending_client", "approved", "scheduled", "publishing",
        "published", "failed", "on_hold"} \subseteq Statuses
  BY DEF NoStamp, Stamp, StampOK, NoContent, Contents, When, IdleThread, Thread,
         Gated, Revalidated, Clearing, Statuses, Actors

LEMMA FreshStampsOK ==
    ASSUME GateTypeOK, NEW by \in Actors, NEW stamp \in FreshStamps(by)
    PROVE  stamp \in Stamp /\ stamp.by = by /\ stamp.content = Fingerprint
  <1>1. PICK t \in When : stamp = [content |-> Fingerprint, time |-> t, by |-> by]
    BY DEF FreshStamps, GateTypeOK, Row
  <1> QED BY <1>1, FingerprintNames DEF Stamp

-----------------------------------------------------------------------------
(* Requests.                                                               *)

\* A request is well typed and fit to be written, and nothing else changes.
Fit(by, to, time, stamp) ==
    /\ by \in Actors /\ to \in Statuses /\ time \in When \cup {"keep"} /\ stamp \in Stamp
    /\ RequestOK([by |-> by, from |-> row.status, to |-> to, time |-> time, stamp |-> stamp])

LEMMA DecidesFit ==
    ASSUME IInv, NEW by, NEW to, NEW time, NEW stamp,
           Decides(by, to, time, stamp), Fit(by, to, time, stamp)
    PROVE  IInv'
  <1> DEFINE q == [by |-> by, from |-> row.status, to |-> to, time |-> time, stamp |-> stamp]
  <1>1. q \in Request /\ RequestOK(q)
    BY DEF IInv, GateTypeOK, Row, Request, Fit
  <1>2. requests' = requests \cup {q} /\ UNCHANGED <<row, text, media, rechecks, lost, thr>>
    BY DEF Decides
  <1> HIDE DEF q
  <1>3. GateTypeOK'
    BY <1>1, <1>2 DEF IInv, GateTypeOK
  <1>4. (\A p \in requests : RequestOK(p))'
    BY <1>1, <1>2 DEF IInv, RequestOK, StampOK
  <1>5. RowOK' /\ ThreadOK'
    BY <1>2 DEF IInv, RowOK, ThreadOK, StampOK
  <1> QED BY <1>3, <1>4, <1>5 DEF IInv

LEMMA DecideStep ==
    ASSUME IInv, NEW op, NEW by \in Actors, Decide(op, by)
    PROVE  IInv'
  <1> USE DEF Fit
  <1>0. row \in Row /\ row.status \in Statuses /\ row.time \in When /\ row.stamp \in Stamp
        /\ StampOK(row.stamp) /\ Fingerprint # NoContent
        /\ (row.status \in Gated => row.stamp.content # NoContent)
    BY FingerprintNames DEF IInv, GateTypeOK, Row, RowOK
  <1>1. CASE Submit(by)
    BY <1>0, <1>1, Values, DecidesFit DEF Submit, RequestOK, Clearing
  <1>2. CASE Approve(by)
    <2>1. PICK stamp \in IF by = "approver" THEN FreshStamps(by) ELSE {row.stamp} :
            /\ by = "approver" \/ (row.status = "pending_client" /\ stamp.content = Fingerprint)
            /\ Decides(by, IF TwoStage /\ row.status = "pending_review" THEN "pending_client"
                           ELSE "approved", "keep", stamp)
      BY <1>2 DEF Approve
    <2>2. stamp \in Stamp /\ StampOK(stamp)
      BY <1>0, <2>1, FreshStampsOK DEF IInv, StampOK
    <2> QED BY <1>2, <2>1, <2>2, Values, DecidesFit DEF Approve, RequestOK
  <1>3. CASE Resume(by)
    <2>1. PICK stamp \in FreshStamps(by) : Decides(by, "approved", "keep", stamp)
      BY <1>3 DEF Resume
    <2>2. stamp \in Stamp /\ StampOK(stamp)
      BY <1>3, <2>1, FreshStampsOK DEF IInv, StampOK, Resume
    <2> QED BY <1>3, <2>1, <2>2, Values, DecidesFit DEF Resume, RequestOK
  <1>4. CASE Object(by)
    BY <1>0, <1>4, Values, DecidesFit DEF Object, RequestOK, Clearing
  <1>5. CASE Hold(by)
    BY <1>0, <1>5, Values, DecidesFit DEF Hold, RequestOK
  <1>6. CASE Unschedule(by)
    BY <1>0, <1>6, Values, DecidesFit DEF Unschedule, RequestOK, Clearing
  <1>7. CASE Schedule(by)
    <2>1. PICK time \in Times \cup {"keep"} :
            \E stamp \in TimeStamp(by, IF time = "keep" THEN row.time ELSE time) :
                Decides(by, "scheduled", time, stamp)
      BY <1>7 DEF Schedule
    <2> DEFINE when == IF time = "keep" THEN row.time ELSE time
    <2>2. PICK stamp \in TimeStamp(by, when) : Decides(by, "scheduled", time, stamp)
      BY <2>1
    <2>3. when \in When /\ time \in When \cup {"keep"}
      BY <1>0, <2>1 DEF When
    <2> HIDE DEF when
    <2>a. [row.stamp EXCEPT !.time = when, !.by = by] \in Stamp
          /\ [row.stamp EXCEPT !.time = when, !.by = by].content = row.stamp.content
          /\ [row.stamp EXCEPT !.time = when, !.by = by].by = by
      BY <1>0, <2>3 DEF Stamp
    <2>b. stamp = row.stamp \/ (by = "approver" /\ stamp = [row.stamp EXCEPT !.time = when, !.by = by])
      BY <2>2 DEF TimeStamp
    <2>4. stamp \in Stamp /\ StampOK(stamp) /\ stamp.content = row.stamp.content
      BY <1>0, <2>a, <2>b DEF StampOK
    <2> QED BY <1>0, <1>7, <2>2, <2>3, <2>4, Values, DecidesFit DEF Schedule, RequestOK
  <1>8. CASE Retime(by)
    BY <1>0, <1>8, Values, DecidesFit DEF Retime, RequestOK, Gated
  <1> QED BY <1>1, <1>2, <1>3, <1>4, <1>5, <1>6, <1>7, <1>8 DEF Decide

-----------------------------------------------------------------------------
(* The other steps.                                                        *)

\* Only requests, re-checks, the contents or the thread change.
LEMMA RowKept ==
    ASSUME IInv, row' = row, requests' \subseteq requests, GateTypeOK', ThreadOK'
    PROVE  IInv'
  BY DEF IInv, RowOK, RequestOK, StampOK

LEMMA WriteStep ==
    ASSUME IInv, Write
    PROVE  IInv'
  <1>1. PICK q \in requests :
           /\ requests' = requests \ {q}
           /\ \/ /\ Writable(q)
                 /\ row' = Written(q)
                 /\ SchedulesRecheck(q.by)
              \/ ~Writable(q) /\ UNCHANGED <<row, rechecks, lost>>
           /\ UNCHANGED <<text, media, thr>>
    BY DEF Write
  <1>2. CASE ~Writable(q) /\ UNCHANGED <<row, rechecks, lost>>
    <2>1. GateTypeOK' /\ ThreadOK'
      BY <1>1, <1>2 DEF IInv, GateTypeOK, ThreadOK
    <2> QED BY <1>1, <1>2, <2>1, RowKept
  <1>3. CASE Writable(q) /\ row' = Written(q) /\ SchedulesRecheck(q.by)
    <2>1. /\ q \in Request /\ RequestOK(q) /\ row.status = q.from
          /\ row'.status = q.to /\ row'.stamp = q.stamp /\ row' \in Row
      BY <1>1, <1>3 DEF IInv, GateTypeOK, Request, Row, Writable, Written
    <2>2. Look(q.by) \in Recheck
      BY <2>1 DEF Look, Recheck, Request
    <2>3. GateTypeOK'
      BY <1>1, <1>3, <2>1, <2>2 DEF SchedulesRecheck, IInv, GateTypeOK
    <2>4. RowOK'
      BY <2>1 DEF RowOK, RequestOK, StampOK, Gated
    <2>5. thr.stage \in {"idle", "claimed", "cleared", "sent"} /\ thr.stage = "idle" /\ thr' = thr
      BY <1>1, <2>1 DEF IInv, ThreadOK, RequestOK, GateTypeOK, Thread
    <2>6. ThreadOK'
      BY <2>5 DEF ThreadOK
    <2>7. (\A p \in requests : RequestOK(p))'
      BY <1>1 DEF IInv, RequestOK, StampOK
    <2> QED BY <2>3, <2>4, <2>6, <2>7 DEF IInv
  <1> QED BY <1>1, <1>2, <1>3

LEMMA EditStep ==
    ASSUME IInv, NEW by \in Actors, EditText(by) \/ EditMedia(by)
    PROVE  IInv'
  <1>1. Look(by) \in Recheck
    BY DEF Look, Recheck
  <1>2. GateTypeOK' /\ ThreadOK'
    BY <1>1 DEF EditText, EditMedia, SchedulesRecheck, IInv, GateTypeOK, ThreadOK
  <1> QED BY <1>2, RowKept DEF EditText, EditMedia

LEMMA RecheckStep ==
    ASSUME IInv, RecheckReads \/ RecheckWrites \/ LoseRecheck
    PROVE  IInv'
  <1>1. CASE RecheckReads
    <2>1. PICK by \in Actors : rechecks' = (rechecks \ {Look(by)}) \cup Plans(by)
      BY <1>1 DEF RecheckReads
    <2>2. Plans(by) \subseteq Recheck
      BY DEF Plans, Recheck, IInv, GateTypeOK, Row, When, SameTime, Revalidated
    <2>3. GateTypeOK' /\ ThreadOK'
      BY <1>1, <2>1, <2>2 DEF RecheckReads, IInv, GateTypeOK, ThreadOK
    <2> QED BY <1>1, <2>3, RowKept DEF RecheckReads
  <1>2. ASSUME NEW status \in Revalidated,
               rechecks' = rechecks \ {<<"withdraw", status>>},
               row' = IF row.status = status
                      THEN [row EXCEPT !.status = "pending_review", !.stamp = NoStamp] ELSE row,
               UNCHANGED <<text, media, requests, lost, thr>>
        PROVE  IInv'
    <2>1. CASE row.status # status
      <3>1. GateTypeOK' /\ ThreadOK'
        BY <1>2, <2>1 DEF IInv, GateTypeOK, ThreadOK
      <3> QED BY <1>2, <2>1, <3>1, RowKept
    <2>2. CASE row.status = status
      <3>1. row' \in Row /\ row'.status = "pending_review" /\ row'.stamp = NoStamp
        BY <1>2, <2>2, Values DEF IInv, GateTypeOK, Row
      <3>2. thr.stage = "idle" /\ thr' = thr
        BY <1>2, <2>2 DEF IInv, ThreadOK, Revalidated
      <3>3. GateTypeOK' /\ ThreadOK'
        BY <1>2, <3>1, <3>2 DEF IInv, GateTypeOK, ThreadOK
      <3>4. RowOK'
        BY <3>1, Values DEF RowOK, Gated, StampOK
      <3> QED BY <1>2, <3>3, <3>4 DEF IInv, RequestOK, StampOK
    <2> QED BY <2>1, <2>2
  <1>3. ASSUME NEW time \in Times,
               rechecks' = rechecks \ {<<"retime", time>>},
               row' = [row EXCEPT !.stamp = [@ EXCEPT !.time = time, !.by = "approver"]],
               UNCHANGED <<text, media, requests, lost, thr>>
        PROVE  IInv'
    <2> DEFINE stamp == [row.stamp EXCEPT !.time = time, !.by = "approver"]
    <2>1. row.stamp \in Stamp /\ row \in Row /\ time \in When /\ "approver" \in Actors
      BY DEF IInv, GateTypeOK, Row, When, Actors
    <2>2. stamp \in Stamp /\ stamp.content = row.stamp.content /\ stamp.by = "approver"
      BY <2>1 DEF Stamp
    <2>3. row' \in Row /\ row'.status = row.status /\ row'.stamp = stamp
      BY <1>3, <2>1, <2>2 DEF Row
    <2> HIDE DEF stamp
    <2>4. GateTypeOK' /\ ThreadOK'
      BY <1>3, <2>2, <2>3 DEF IInv, GateTypeOK, ThreadOK
    <2>5. RowOK'
      BY <2>2, <2>3 DEF IInv, RowOK, StampOK
    <2> QED BY <1>3, <2>4, <2>5 DEF IInv, RequestOK, StampOK
  <1>4. CASE LoseRecheck
    <2>1. GateTypeOK' /\ ThreadOK'
      BY <1>4 DEF LoseRecheck, IInv, GateTypeOK, ThreadOK
    <2> QED BY <1>4, <2>1, RowKept DEF LoseRecheck
  <1> QED BY <1>1, <1>2, <1>3, <1>4 DEF RecheckWrites

\* A row that keeps its stamp and goes to status s while the thread goes to t.
LEMMA Moves ==
    ASSUME IInv, NEW s \in Statuses, row' = [row EXCEPT !.status = s],
           s \in Gated => row.stamp.content # NoContent,
           requests' = requests, text' = text, media' = media, rechecks' \subseteq Recheck,
           lost' \in BOOLEAN, thr' \in Thread, ThreadOK'
    PROVE  IInv'
  <1>1. row' \in Row /\ row'.status = s /\ row'.stamp = row.stamp
    BY DEF IInv, GateTypeOK, Row
  <1> QED BY <1>1 DEF IInv, GateTypeOK, RowOK, RequestOK, StampOK

LEMMA EngineStep ==
    ASSUME IInv, Claim \/ LastLook \/ Dispatch \/ Outcome \/ CheckedAbsent
    PROVE  IInv'
  <1>0. /\ row \in Row /\ row.status \in Statuses /\ rechecks \subseteq Recheck /\ lost \in BOOLEAN
        /\ thr \in Thread /\ text \in Texts /\ media \in Media
        /\ Fingerprint[1] = text /\ Fingerprint # NoContent
    BY FingerprintNames DEF IInv, GateTypeOK, Row
  <1>1. CASE Claim
    <2>1. CASE Fails /\ UNCHANGED thr
      <3>1. row'.status = "failed" /\ thr.stage = "idle" /\ thr' = thr
        BY <1>0, <1>1, <2>1, Values DEF Claim, Fails, Row
      <3> QED BY <1>0, <1>1, <2>1, <3>1, Values, Moves DEF Claim, Fails, ThreadOK, Gated
    <2>2. CASE /\ ~PublishBlocker
               /\ row' = [row EXCEPT !.status = "publishing"]
               /\ thr' = [stage |-> "claimed", text |-> text, media |-> "none"]
      <3>1. row'.status = "publishing" /\ row'.stamp = row.stamp /\ row.stamp.content = Fingerprint
        BY <1>0, <2>2 DEF PublishBlocker, Row
      <3>2. thr' \in Thread /\ thr'.stage = "claimed" /\ thr'.text = text
        BY <1>0, <2>2 DEF Thread
      <3>3. ThreadOK'
        BY <1>0, <3>1, <3>2 DEF ThreadOK
      <3> QED BY <1>0, <1>1, <2>2, <3>1, <3>2, <3>3, Values, Moves DEF Claim
    <2> QED BY <1>1, <2>1, <2>2 DEF Claim
  <1>2. CASE LastLook
    <2>1. CASE Fails /\ thr' = IdleThread
      <3>1. thr' \in Thread /\ thr'.stage = "idle"
        BY <2>1, Values DEF IdleThread
      <3> QED BY <1>0, <1>2, <2>1, <3>1, Values, Moves DEF LastLook, Fails, ThreadOK, Gated
    <2>2. CASE /\ ~(PublishBlocker \/ row.stamp.content # <<thr.text, media>>)
               /\ thr' = [thr EXCEPT !.stage = "cleared", !.media = media]
               /\ UNCHANGED row
      <3>1. thr' \in Thread /\ thr'.stage = "cleared" /\ thr'.text = thr.text /\ thr'.media = media
        BY <1>0, <2>2 DEF Thread
      <3>2. row.status = "publishing" /\ row.stamp.content[1] = thr.text
        BY <1>2 DEF IInv, ThreadOK, LastLook
      <3>3. GateTypeOK' /\ ThreadOK'
        BY <1>2, <2>2, <3>1, <3>2 DEF LastLook, IInv, GateTypeOK, ThreadOK
      <3> QED BY <1>2, <2>2, <3>3, RowKept DEF LastLook
    <2> QED BY <1>2, <2>1, <2>2 DEF LastLook
  <1>3. CASE Dispatch
    <2>1. thr' \in Thread /\ thr'.stage = "sent" /\ thr'.text = thr.text
      BY <1>0, <1>3 DEF Dispatch, Thread
    <2>2. GateTypeOK' /\ ThreadOK'
      BY <1>3, <2>1 DEF Dispatch, IInv, GateTypeOK, ThreadOK
    <2> QED BY <1>3, <2>2, RowKept DEF Dispatch
  <1>4. CASE Outcome
    <2>1. PICK s \in {"failed", "published", "scheduled"} : row' = [row EXCEPT !.status = s]
      BY <1>4 DEF Outcome, Fails
    <2>2. row.status = "publishing" /\ row.stamp.content # NoContent
      BY <1>4 DEF Outcome, IInv, ThreadOK, RowOK, Gated
    <2>3. thr' \in Thread /\ thr'.stage = "idle"
      BY <1>4, Values DEF Outcome, IdleThread
    <2>4. rechecks' \subseteq Recheck
      BY <1>0, <1>4 DEF Outcome, SchedulesRecheck, Look, Recheck, Actors
    <2>5. lost' \in BOOLEAN
      BY <1>0, <1>4, Zenon DEF Outcome, SchedulesRecheck
    <2> QED BY <1>4, <2>1, <2>2, <2>3, <2>4, <2>5, Values, Moves DEF Outcome, ThreadOK
  <1>5. CASE CheckedAbsent
    <2>1. row' \in Row /\ row'.status = "pending_review" /\ row'.stamp = NoStamp
      BY <1>0, <1>5, Values DEF CheckedAbsent, Row
    <2>2. thr.stage = "idle" /\ thr' = thr
      BY <1>5 DEF CheckedAbsent, IInv, ThreadOK
    <2>3. GateTypeOK' /\ ThreadOK'
      BY <1>5, <2>1, <2>2 DEF CheckedAbsent, IInv, GateTypeOK, ThreadOK
    <2>4. RowOK'
      BY <2>1, Values DEF RowOK, Gated
    <2> QED BY <1>5, <2>3, <2>4 DEF CheckedAbsent, IInv, RequestOK, StampOK
  <1> QED BY <1>1, <1>2, <1>3, <1>4, <1>5

LEMMA InitOK == Init => IInv
  <1> SUFFICES ASSUME Init PROVE IInv
    OBVIOUS
  <1>1. lost \in BOOLEAN
    BY Zenon DEF Init
  <1> QED BY <1>1, Values DEF Init, IInv, GateTypeOK, RowOK, ThreadOK, IdleThread, Row, Gated, NoStamp

LEMMA StepOK == IInv /\ [Next]_vars => IInv'
  <1> SUFFICES ASSUME IInv, [Next]_vars PROVE IInv'
    OBVIOUS
  <1>1. ASSUME NEW by \in Actors, NEW op \in Ops, Decide(op, by) PROVE IInv'
    BY <1>1, DecideStep
  <1>2. ASSUME NEW by \in Actors, EditText(by) \/ EditMedia(by) PROVE IInv'
    BY <1>2, EditStep
  <1>3. CASE Write
    BY <1>3, WriteStep
  <1>4. CASE RecheckReads \/ RecheckWrites \/ LoseRecheck
    BY <1>4, RecheckStep
  <1>5. CASE Claim \/ LastLook \/ Dispatch \/ Outcome \/ CheckedAbsent
    BY <1>5, EngineStep
  <1>6. CASE UNCHANGED vars
    BY <1>6 DEF vars, IInv, GateTypeOK, RowOK, ThreadOK, RequestOK, StampOK
  <1> QED BY <1>1, <1>2, <1>3, <1>4, <1>5, <1>6 DEF Next

LEMMA Invariance == Spec => []IInv
  BY InitOK, StepOK, PTL DEF Spec

-----------------------------------------------------------------------------
(* Theorems.                                                               *)

\* Every variable keeps its type.
THEOREM GateTypeCorrect == Spec => []GateTypeOK
  BY Invariance, PTL DEF IInv

\* Nothing is on its way out without content an internal approver approved,
\* however many requests race, whoever makes them, and whichever workflow the
\* workspace runs.
THEOREM OnlyApprovedIsScheduled == Spec => []ScheduledIsApproved
  <1>1. IInv => ScheduledIsApproved
    BY DEF IInv, RowOK, StampOK, ScheduledIsApproved
  <1> QED BY <1>1, Invariance, PTL

\* A thread that passed the last look holds exactly what the stamp names.
THEOREM LastLookHolds == Spec => []ClearedIsApproved
  <1>1. IInv => ClearedIsApproved
    BY DEF IInv, ThreadOK, ClearedIsApproved
  <1> QED BY <1>1, Invariance, PTL

\* A held row leaves the hold for `approved` or `draft` and for nothing else.
THEOREM HoldsAreKept == Spec => HoldIsKept
  <1>1. IInv /\ [Next]_vars =>
          (row.status = "on_hold" => row'.status \in {"on_hold", "approved", "draft"})
    <2> SUFFICES ASSUME IInv, [Next]_vars, row.status = "on_hold"
                 PROVE  row'.status \in {"on_hold", "approved", "draft"}
      OBVIOUS
    <2>1. CASE Write
      BY <2>1 DEF Write, Written, Writable, IInv, RequestOK
    <2>2. CASE RecheckWrites
      BY <2>2 DEF RecheckWrites, Revalidated, IInv, GateTypeOK, Row
    <2>3. CASE Claim \/ LastLook \/ Dispatch \/ Outcome \/ CheckedAbsent
      BY <2>3 DEF Claim, LastLook, Dispatch, Outcome, CheckedAbsent, IInv, ThreadOK
    <2>4. ASSUME NEW by \in Actors, NEW op \in Ops, Decide(op, by)
          PROVE  row' = row
      BY <2>4 DEF Decide, Submit, Approve, Resume, Object, Hold, Unschedule, Schedule, Retime,
                  Decides
    <2>5. ASSUME NEW by \in Actors, EditText(by) \/ EditMedia(by)
          PROVE  row' = row
      BY <2>5 DEF EditText, EditMedia
    <2>6. CASE RecheckReads \/ LoseRecheck \/ UNCHANGED vars
      BY <2>6 DEF RecheckReads, LoseRecheck, vars
    <2> QED BY <2>1, <2>2, <2>3, <2>4, <2>5, <2>6 DEF Next
  <1> QED BY <1>1, Invariance, PTL DEF Spec, HoldIsKept

\* A stale approval is watched, by a look that has not run yet or by a
\* withdrawal that will find the row where it saw it, unless a re-check was lost
\* and nothing has looked or changed since: what makes a stamp stale, or moves a
\* row that carries one, leaves a look behind, and a look that runs to its end
\* leaves a withdrawal.  With such losses the other theorems hold as they stand.
THEOREM StaleApprovalsAreWatched == Spec => []StaleApprovalIsWatched
  <1>1. Init => StaleApprovalIsWatched
    BY DEF Init, StaleApprovalIsWatched, Revalidated
  <1>2. IInv /\ StaleApprovalIsWatched /\ [Next]_vars => StaleApprovalIsWatched'
    <2> SUFFICES ASSUME IInv, StaleApprovalIsWatched, [Next]_vars
                 PROVE  StaleApprovalIsWatched'
      OBVIOUS
    <2>a. ASSUME NEW by \in Actors, Look(by) \in rechecks'
          PROVE  StaleApprovalIsWatched'
      BY <2>a DEF StaleApprovalIsWatched, Look
    <2>b. ASSUME UNCHANGED <<row, text, media, rechecks, lost>>
          PROVE  StaleApprovalIsWatched'
      BY <2>b DEF StaleApprovalIsWatched, Fingerprint, Look
    <2>c. ASSUME row'.status \notin Revalidated
          PROVE  StaleApprovalIsWatched'
      BY <2>c DEF StaleApprovalIsWatched
    <2>1. ASSUME NEW by \in Actors, NEW op \in Ops, Decide(op, by)
          PROVE  StaleApprovalIsWatched'
      BY <2>1, <2>b DEF Decide, Submit, Approve, Resume, Object, Hold, Unschedule, Schedule,
                        Retime, Decides
    <2>2. ASSUME NEW by \in Actors, EditText(by) \/ EditMedia(by)
          PROVE  StaleApprovalIsWatched'
      BY <2>2, <2>a DEF EditText, EditMedia, SchedulesRecheck
    <2>3. CASE Write
      <3>1. PICK q \in requests :
               /\ \/ rechecks' = rechecks \cup {Look(q.by)}
                  \/ UNCHANGED <<row, rechecks, lost>>
               /\ UNCHANGED <<text, media>>
        BY <2>3 DEF Write, SchedulesRecheck
      <3>2. q.by \in Actors
        BY DEF IInv, GateTypeOK, Request
      <3> QED BY <3>1, <3>2, <2>a, <2>b
    <2>4. CASE RecheckReads
      <3>1. PICK by \in Actors : rechecks' = (rechecks \ {Look(by)}) \cup Plans(by)
        BY <2>4 DEF RecheckReads
      <3>2. CASE row.status \in Revalidated /\ row.stamp.content # Fingerprint
        BY <2>4, <3>1, <3>2 DEF RecheckReads, Plans, StaleApprovalIsWatched
      <3>3. CASE ~(row.status \in Revalidated /\ row.stamp.content # Fingerprint)
        BY <2>4, <3>3 DEF RecheckReads, StaleApprovalIsWatched, Fingerprint
      <3> QED BY <3>2, <3>3
    <2>5. CASE RecheckWrites
      <3>0. row \in Row
        BY DEF IInv, GateTypeOK
      <3>1. ASSUME NEW status \in Revalidated,
                   rechecks' = rechecks \ {<<"withdraw", status>>},
                   row' = IF row.status = status
                          THEN [row EXCEPT !.status = "pending_review", !.stamp = NoStamp] ELSE row
            PROVE  StaleApprovalIsWatched'
        <4>1. CASE row.status = status
          BY <3>0, <3>1, <4>1, <2>c DEF Row, Revalidated
        <4>2. CASE row.status # status
          BY <2>5, <3>1, <4>2 DEF RecheckWrites, StaleApprovalIsWatched, Fingerprint, Look
        <4> QED BY <4>1, <4>2
      <3>2. ASSUME NEW time \in Times,
                   rechecks' = rechecks \ {<<"retime", time>>},
                   row' = [row EXCEPT !.stamp = [@ EXCEPT !.time = time, !.by = "approver"]]
            PROVE  StaleApprovalIsWatched'
        <4>1. row'.status = row.status /\ row'.stamp.content = row.stamp.content
          BY <3>0, <3>2 DEF Row, Stamp
        <4> QED BY <2>5, <3>2, <4>1 DEF RecheckWrites, StaleApprovalIsWatched, Fingerprint, Look
      <3> QED BY <2>5, <3>1, <3>2 DEF RecheckWrites
    <2>6. CASE Claim \/ CheckedAbsent
      BY <2>6, <2>c DEF Claim, Fails, CheckedAbsent, Revalidated, IInv, GateTypeOK, Row
    <2>7. CASE LastLook \/ Dispatch
      BY <2>7, <2>b, <2>c DEF LastLook, Dispatch, Fails, Revalidated, IInv, GateTypeOK, Row
    <2>8. CASE Outcome
      <3>1. "other" \in Actors
        BY DEF Actors
      <3> QED BY <2>8, <3>1, <2>a, <2>c DEF Outcome, SchedulesRecheck, Fails, Revalidated, IInv, GateTypeOK, Row
    <2>9. CASE UNCHANGED vars
      BY <2>9, <2>b DEF vars
    <2>10. CASE LoseRecheck
      BY <2>10 DEF LoseRecheck, StaleApprovalIsWatched
    <2> QED BY <2>1, <2>2, <2>3, <2>4, <2>5, <2>6, <2>7, <2>8, <2>9, <2>10 DEF Next
  <1> QED BY <1>1, <1>2, Invariance, PTL DEF Spec
===============================================================================
