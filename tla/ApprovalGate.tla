----------------------------- MODULE ApprovalGate -----------------------------
(***************************************************************************)
(* The approval gate (apps/approvals) for one channel of a post, in a      *)
(* workspace that requires dashboard approval.                             *)
(*                                                                         *)
(* Approving stamps the row with a fingerprint of what will be published   *)
(* and with the publish time.  Entering `scheduled` or `publishing` needs  *)
(* a stamp that matches; an edit schedules a re-check, run when it has     *)
(* committed, that withdraws a stamp that no longer does.  A re-check can  *)
(* be lost: its callback swallows what it raises, and nothing keeps it     *)
(* when the process dies.  The worker asks again when it claims the row    *)
(* and once more before it dispatches it.  None of this is one             *)
(* transaction: requests, edits, re-checks and the publishing thread       *)
(* interleave, each on what it read.                                       *)
(*                                                                         *)
(* A fingerprint is the pair <<text, media>>: `text` stands for all that   *)
(* the publishing thread takes along from its claim (caption, overrides,   *)
(* format, account), `media` for the attachments, which are read afresh.   *)
(***************************************************************************)
EXTENDS Naturals, FiniteSets

CONSTANTS
    Texts, Media,  \* versions of the content
    Times,         \* publish times
    TwoStage,      \* approval_workflow_mode = required_internal_and_client
    Ops,           \* the editorial operations in use
    MaxRequests    \* bound: web requests in progress at once

Operations == {"submit", "approve", "resume", "object", "hold", "unschedule", "schedule", "retime"}

ASSUME GateAssumption ==
    /\ Ops \subseteq Operations
    /\ TwoStage \in BOOLEAN
    /\ MaxRequests \in Nat
    /\ "none" \notin Texts \cup Media \cup Times

VARIABLES
    row,       \* the PlatformPost row: status, time, and the stamp it carries
    text,      \* the content in the database
    media,
    requests,  \* web requests that have decided and not yet written
    rechecks,  \* on_commit re-checks: waiting, or decided and not yet written
    lost,      \* history: a re-check was lost, and nothing has looked or changed since
    thr        \* the publishing thread and its copy of the content

vars == <<row, text, media, requests, rechecks, lost, thr>>

\* "approver": a person the gate accepts as an internal approver
\* (verified_human_approver).  "other": a client, an editor, the API, the worker.
Actors      == {"approver", "other"}
Statuses    == {"draft", "pending_review", "pending_client", "changes_requested", "rejected",
                "approved", "scheduled", "publishing", "published", "failed", "on_hold"}
Gated       == {"scheduled", "publishing"}
Revalidated == {"approved", "pending_client", "scheduled"}
Clearing    == {"changes_requested", "rejected"}

When        == Times \cup {"none"}
NoContent   == <<"none", "none">>
Contents    == (Texts \X Media) \cup {NoContent}
Stamp       == [content : Contents, time : When, by : Actors \cup {"none"}]
NoStamp     == [content |-> NoContent, time |-> "none", by |-> "none"]
Row         == [status : Statuses, time : When, stamp : Stamp]

Request == [by : Actors, from : Statuses, to : Statuses, time : When \cup {"keep"}, stamp : Stamp]
Recheck == ({"look"} \X Actors) \cup ({"withdraw"} \X Revalidated) \cup ({"retime"} \X Times)
Thread  == [stage : {"idle", "claimed", "cleared", "sent"},
            text : Texts \cup {"none"}, media : Media \cup {"none"}]

IdleThread == [stage |-> "idle", text |-> "none", media |-> "none"]

GateTypeOK ==
    /\ row \in Row
    /\ text \in Texts /\ media \in Media
    /\ requests \subseteq Request
    /\ rechecks \subseteq Recheck
    /\ lost \in BOOLEAN
    /\ thr \in Thread

Init ==
    /\ row = [status |-> "draft", time |-> "none", stamp |-> NoStamp]
    /\ text \in Texts /\ media \in Media
    /\ requests = {} /\ rechecks = {} /\ lost = FALSE
    /\ thr = IdleThread

-----------------------------------------------------------------------------
(* The gate's questions.                                                   *)

Fingerprint == <<text, media>>
SameTime(a, b) == a # "none" /\ a = b          \* equal to within a minute

\* schedule_revalidation: the re-check runs as whoever made the change.
Look(by) == <<"look", by>>

SchedulesRecheck(by) == rechecks' = rechecks \cup {Look(by)} /\ lost' = FALSE

\* publish_blocker: the worker may not send the row as it is.
PublishBlocker ==
    \/ row.stamp.content # Fingerprint
    \/ ~SameTime(row.time, row.stamp.time)

-----------------------------------------------------------------------------
(* Editorial requests.  A handler loads the row, decides through the gate  *)
(* (on_transition), and later writes back what it decided.                 *)

Decides(by, to, time, stamp) ==
    /\ Cardinality(requests) < MaxRequests
    /\ requests' = requests \cup
          {[by |-> by, from |-> row.status, to |-> to, time |-> time, stamp |-> stamp]}
    /\ UNCHANGED <<row, text, media, rechecks, lost, thr>>

\* submit_for_review, resubmit_post: the stamp stays on the row.
Submit(by) ==
    /\ row.status \in {"draft", "approved"} \cup Clearing
    /\ Decides(by, "pending_review", "keep", row.stamp)

\* _stamp_on_approve: a post without a time is stamped with its proposed one.
FreshStamps(by) ==
    {[content |-> Fingerprint, time |-> t, by |-> by] :
        t \in IF row.time # "none" THEN {row.time} ELSE When}

\* (Mutant: whoever approves is recorded as having approved what is there.)
ApproveByAnyone(by) ==
    /\ row.status \in {"pending_review", "pending_client"}
    /\ \E stamp \in FreshStamps(by) :
          Decides(by, IF TwoStage /\ row.status = "pending_review" THEN "pending_client"
                      ELSE "approved", "keep", stamp)

\* approve_post: in the two-stage workflow an internal approval goes on to the
\* client, whose sign-off confirms a stamp and cannot originate one.
Approve(by) ==
    /\ row.status \in {"pending_review", "pending_client"}
    /\ \E stamp \in IF by = "approver" THEN FreshStamps(by) ELSE {row.stamp} :
          /\ by = "approver" \/ (row.status = "pending_client" /\ stamp.content = Fingerprint)
          /\ Decides(by, IF TwoStage /\ row.status = "pending_review" THEN "pending_client"
                         ELSE "approved", "keep", stamp)

\* resume_hold: lifting a hold is an approval.
Resume(by) ==
    /\ row.status = "on_hold" /\ by = "approver"
    /\ \E stamp \in FreshStamps(by) : Decides(by, "approved", "keep", stamp)

\* request_changes, reject_post
Object(by) ==
    /\ row.status \in {"pending_review", "pending_client"}
    /\ \E to \in Clearing : Decides(by, to, "keep", NoStamp)

\* request_hold
Hold(by) ==
    /\ row.status \in {"approved", "scheduled"}
    /\ Decides(by, "on_hold", "keep", row.stamp)

\* The chip menu's Draft, and the calendar's bulk one, which drops the time.
Unschedule(by) ==
    /\ row.status \in {"scheduled", "approved", "failed", "on_hold"} \cup Clearing
    /\ \E time \in {"keep", "none"} : Decides(by, "draft", time, row.stamp)

\* The stamps under which `time` may be scheduled: an approver approves the
\* new time by choosing it.
TimeStamp(by, time) ==
    IF SameTime(time, row.stamp.time) THEN {row.stamp}
    ELSE IF by = "approver" /\ time # "none"
         THEN {[row.stamp EXCEPT !.time = time, !.by = by]}
    ELSE {}

\* _require_for_schedule, for the chip menu, the composer's Schedule and the
\* calendar's drop, which writes a time of its own.
Schedule(by) ==
    /\ row.status \in {"draft", "approved", "failed"}
    /\ row.stamp.content = Fingerprint
    /\ \E time \in Times \cup {"keep"} :
          \E stamp \in TimeStamp(by, IF time = "keep" THEN row.time ELSE time) :
              Decides(by, "scheduled", time, stamp)

\* reschedule_post, for a row whose status a move in time does not change.
Retime(by) ==
    /\ row.status \in {"approved", "scheduled", "pending_review", "pending_client"}
    /\ \E time \in Times : Decides(by, row.status, time, row.stamp)

Decide(op, by) ==
    \/ op = "submit"     /\ Submit(by)
    \/ op = "approve"    /\ Approve(by)
    \/ op = "resume"     /\ Resume(by)
    \/ op = "object"     /\ Object(by)
    \/ op = "hold"       /\ Hold(by)
    \/ op = "unschedule" /\ Unschedule(by)
    \/ op = "schedule"   /\ Schedule(by)
    \/ op = "retime"     /\ Retime(by)

\* (Mutant: the row is saved whatever has become of it.)
AlwaysWritable(q) == TRUE

\* save_guarded: write only if the row still has the status it was read with.
Writable(q) == row.status = q.from

Written(q) == [status |-> q.to,
               time   |-> IF q.time = "keep" THEN row.time ELSE q.time,
               stamp  |-> q.stamp]

\* (Mutant: a guarded write, which sends no signal, schedules no re-check.)
WriteUnchecked ==
    \E q \in requests :
        /\ requests' = requests \ {q}
        /\ row' = IF Writable(q) THEN Written(q) ELSE row
        /\ UNCHANGED <<rechecks, lost, text, media, thr>>

\* A refused write drops the request; an accepted one schedules a re-check.
Write ==
    \E q \in requests :
        /\ requests' = requests \ {q}
        /\ \/ /\ Writable(q)
              /\ row' = Written(q)
              /\ SchedulesRecheck(q.by)
           \/ ~Writable(q) /\ UNCHANGED <<row, rechecks, lost>>
        /\ UNCHANGED <<text, media, thr>>

-----------------------------------------------------------------------------
(* Edits, and the re-checks they schedule.                                 *)

\* The composer refuses to save a post all of whose channels are published or
\* publishing; one that another channel keeps open, or that was loaded before
\* the claim, is saved.  Media files can be edited at any time.
EditText(by) ==
    /\ \E t \in Texts \ {text} : text' = t
    /\ SchedulesRecheck(by)
    /\ UNCHANGED <<row, media, requests, thr>>

EditMedia(by) ==
    /\ \E m \in Media \ {media} : media' = m
    /\ SchedulesRecheck(by)
    /\ UNCHANGED <<row, text, requests, thr>>

\* What revalidate_post makes of the row it reads, as plans to be carried out.
\* (Mutant: it reads the row whatever its status.)
PlansForAnyRow(by) ==
    IF row.stamp.content # Fingerprint
    THEN {<<"withdraw", row.status>>}
    ELSE {}

Plans(by) ==
    IF row.status \notin Revalidated THEN {}
    ELSE IF row.stamp.content # Fingerprint
         THEN {<<"withdraw", row.status>>}
    ELSE IF row.status # "scheduled" \/ SameTime(row.time, row.stamp.time) THEN {}
    ELSE IF by = "approver" /\ row.time # "none"
         THEN {<<"retime", row.time>>}
    ELSE {<<"withdraw", row.status>>}

RecheckReads ==
    /\ \E by \in Actors :
          /\ Look(by) \in rechecks
          /\ rechecks' = (rechecks \ {Look(by)}) \cup Plans(by)
    /\ lost' = FALSE
    /\ UNCHANGED <<row, text, media, requests, thr>>

\* _withdraw is guarded on the status read, _approve_time on nothing; both are
\* queryset updates, which schedule no further re-check.
RecheckWrites ==
    /\ \/ \E status \in Revalidated :
             /\ <<"withdraw", status>> \in rechecks
             /\ rechecks' = rechecks \ {<<"withdraw", status>>}
             /\ row' = IF row.status = status
                       THEN [row EXCEPT !.status = "pending_review", !.stamp = NoStamp] ELSE row
       \/ \E time \in Times :
             /\ <<"retime", time>> \in rechecks
             /\ rechecks' = rechecks \ {<<"retime", time>>}
             /\ row' = [row EXCEPT !.stamp = [@ EXCEPT !.time = time, !.by = "approver"]]
    /\ UNCHANGED <<text, media, requests, lost, thr>>

\* A re-check that never runs or breaks off: its process dies once the change
\* has committed, or it raises, which the callback logs and drops.
LoseRecheck ==
    /\ \E r \in rechecks : rechecks' = rechecks \ {r}
    /\ lost' = TRUE
    /\ UNCHANGED <<row, text, media, requests, thr>>

-----------------------------------------------------------------------------
(* The publisher.  A scheduled time may come due at any moment.            *)

\* block_publish, and the engine's other ways of failing a row.
Fails == row' = [row EXCEPT !.status = "failed"]

Claim ==
    /\ thr.stage = "idle" /\ row.status = "scheduled" /\ row.time # "none"
    /\ \/ PublishBlocker /\ Fails /\ UNCHANGED thr
       \/ /\ ~PublishBlocker
          /\ row' = [row EXCEPT !.status = "publishing"]
          /\ thr' = [stage |-> "claimed", text |-> text, media |-> "none"]
    /\ UNCHANGED <<text, media, requests, rechecks, lost>>

\* (Mutant: the last look trusts the thread's copy of the row.)
LastLookAtCopy ==
    /\ thr.stage = "claimed"
    /\ LET blocked == row.stamp.content[1] # thr.text
       IN  \/ blocked /\ Fails /\ thr' = IdleThread
           \/ ~blocked /\ thr' = [thr EXCEPT !.stage = "cleared", !.media = media] /\ UNCHANGED row
    /\ UNCHANGED <<text, media, requests, rechecks, lost>>

\* _approval_blocker: the row as it is now, and the copy about to be sent.
LastLook ==
    /\ thr.stage = "claimed"
    /\ LET blocked == PublishBlocker \/ row.stamp.content # <<thr.text, media>>
       IN  \/ blocked /\ Fails /\ thr' = IdleThread
           \/ ~blocked /\ thr' = [thr EXCEPT !.stage = "cleared", !.media = media] /\ UNCHANGED row
    /\ UNCHANGED <<text, media, requests, rechecks, lost>>

\* _dispatch_to_provider: after the token refresh the attachments are read
\* once more, and what was read then is sent.
Dispatch ==
    /\ thr.stage = "cleared"
    /\ thr' = [thr EXCEPT !.stage = "sent", !.media = media]
    /\ UNCHANGED <<row, text, media, requests, rechecks, lost>>

\* The thread records its outcome: failed, or published, or back on the
\* schedule (_schedule_retry).  The last two are plain saves, which schedule
\* a re-check as the worker.
Outcome ==
    /\ thr.stage \in {"claimed", "cleared", "sent"}
    /\ \/ Fails /\ UNCHANGED <<rechecks, lost>>
       \/ /\ \E s \in {"published", "scheduled"} :
                /\ s = "published" => thr.stage = "sent"
                /\ row' = [row EXCEPT !.status = s]
          /\ SchedulesRecheck("other")
    /\ thr' = IdleThread
    /\ UNCHANGED <<text, media, requests>>

\* delivery.checked_absent: a failed delivery goes back for fresh review.
CheckedAbsent ==
    /\ row.status = "failed"
    /\ row' = [status |-> "pending_review", time |-> "none", stamp |-> NoStamp]
    /\ UNCHANGED <<text, media, requests, rechecks, lost, thr>>

-----------------------------------------------------------------------------
Next ==
    \/ \E by \in Actors :
          \/ \E op \in Ops : Decide(op, by)
          \/ EditText(by)
          \/ EditMedia(by)
    \/ Write
    \/ RecheckReads \/ RecheckWrites \/ LoseRecheck
    \/ Claim \/ LastLook \/ Dispatch \/ Outcome
    \/ CheckedAbsent

Spec == Init /\ [][Next]_vars

-----------------------------------------------------------------------------
(* Properties.                                                             *)

\* "Nothing goes out unless an internal human approver approved it": a row on
\* its way out carries a stamp an approver put there, whoever moved the row
\* and on whatever reading of it.
ScheduledIsApproved ==
    row.status \in Gated => row.stamp.content # NoContent /\ row.stamp.by = "approver"

\* A thread cleared to dispatch holds the approved text and saw the approved
\* attachments, whatever was edited, re-approved or retried since its claim;
\* the text it sends is still the approved one.
ClearedIsApproved ==
    /\ thr.stage = "cleared" => row.stamp.content = <<thr.text, thr.media>>
    /\ thr.stage = "sent" => row.stamp.content[1] = thr.text

\* What leaves is what was approved, attachments included ("once more on
\* freshly read data immediately before calling the platform").
SentIsApproved == thr.stage = "sent" => row.stamp.content = <<thr.text, thr.media>>

\* A hold is lifted through resume or rework, never straight onto the schedule
\* by a request that read the row before the client stopped it.
HoldIsKept ==
    [][row.status = "on_hold" => row'.status \in {"on_hold", "approved", "draft"}]_vars

\* "Any change to those withdraws the approval": a stamp that no longer matches
\* the content stays on an approved or scheduled row only while a re-check is
\* on its way that will see it, or has seen it and will find the row in the
\* status it saw; or after a re-check was lost, until the next change or the
\* next re-check looks at the row again.
StaleApprovalIsWatched ==
    row.status \in Revalidated /\ row.stamp.content # Fingerprint
        => \/ \E by \in Actors : Look(by) \in rechecks
           \/ <<"withdraw", row.status>> \in rechecks
           \/ lost
===============================================================================
