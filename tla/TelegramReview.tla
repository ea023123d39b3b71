--------------------------- MODULE TelegramReview ---------------------------
(***************************************************************************)
(* Reviewing a post in Telegram (telegram/outbox.py, processing.py,        *)
(* actions.py): a review card is sent in segments, the last one with its   *)
(* buttons; a tap arrives as an update and is applied once, to exactly     *)
(* what the card showed.  A send whose outcome is unknown is never         *)
(* repeated; a revoked chat takes its unfinished work with it.             *)
(***************************************************************************)
EXTENDS Naturals

CONSTANTS
    LastSegment,       \* the card's segments are 1..LastSegment
    Buttons,           \* subset of {"approve", "reject"}: TelegramAction rows of the card
    Taps,              \* TelegramUpdate rows: one for each tap
    Senders, Handlers, \* processes that send deliveries, and that handle updates
    SendAttempts,      \* MAX_SEND_ATTEMPTS
    MaxPostMoves,      \* bound: changes to the post outside Telegram
    MaxTelegramDeaths  \* bound: processes that die

ASSUME TelegramAssumption ==
    /\ {LastSegment, SendAttempts} \subseteq Nat \ {0}
    /\ Buttons \subseteq {"approve", "reject"}
    /\ {MaxPostMoves, MaxTelegramDeaths} \subseteq Nat

VARIABLES
    segment,       \* the TelegramDelivery rows
    received,      \* received[i]: times segment i appeared in the chat
    sender,        \* sender[s]: what the sending process is doing
    tap,           \* the TelegramUpdate rows
    handler,       \* handler[h]: what the process that handles updates is doing
    used,          \* buttons with used_at
    expired,       \* expires_at has passed
    pairing,       \* the chat: as when the card was issued, revoked, or paired again
    reviewed,      \* the post: its content, and the status of its rows
    taken,         \* taken[b]: decisions recorded by button b
    postMoves, telegramDeaths

telegramVars == <<segment, received, sender, tap, handler, used, expired, pairing, reviewed, taken,
                  postMoves, telegramDeaths>>
outboxVars == <<segment, received, sender>>
tapVars == <<tap, handler, used, reviewed, taken>>

Segments == 1..LastSegment
Resting == [step |-> "idle"]

\* _post_snapshot, when the card was issued
Shown == [content |-> 0, status |-> "pending_review"]

TelegramTypeOK ==
    /\ segment \in [Segments -> [status : {"none", "pending", "sending", "sent", "failed", "unknown"},
                                 attempts : 0..SendAttempts, due : BOOLEAN]]
    /\ received \in [Segments -> Nat]
    /\ \A s \in Senders :
         \/ sender[s] = Resting
         \/ /\ sender[s].step \in {"claimed", "calling", "answered", "suspending"}
            /\ sender[s].row \in Segments /\ sender[s].attempt \in 1..SendAttempts
            /\ sender[s].answer \in {"none", "accepted", "ambiguous", "forbidden", "limited", "rejected"}
    /\ tap \in [Taps -> [status : {"none", "pending", "working", "processed", "failed"},
                         button : Buttons, since : {"paired", "revoked", "again"}]]
    /\ \A h \in Handlers : handler[h] = Resting \/ (handler[h].step \in {"claimed", "handled"} /\ handler[h].tap \in Taps)
    /\ used \subseteq Buttons /\ expired \in BOOLEAN
    /\ pairing \in {"paired", "revoked", "again"}
    /\ reviewed \in [content : 0..MaxPostMoves, status : {"pending_review", "approved", "rejected"}]
    /\ taken \in [Buttons -> Nat]
    /\ postMoves \in 0..MaxPostMoves /\ telegramDeaths \in 0..MaxTelegramDeaths

OutboxInit ==
    /\ segment = [i \in Segments |-> [status |-> "none", attempts |-> 0, due |-> TRUE]]
    /\ received = [i \in Segments |-> 0]
    /\ sender = [s \in Senders |-> Resting]

\* A card that has arrived, for the study of its taps.
CardArrived ==
    /\ segment = [i \in Segments |-> [status |-> "sent", attempts |-> 1, due |-> TRUE]]
    /\ received = [i \in Segments |-> 1]
    /\ sender = [s \in Senders |-> Resting]

TapsInit ==
    /\ tap \in [Taps -> {[status |-> "none", button |-> b, since |-> "paired"] : b \in Buttons}]
    /\ handler = [h \in Handlers |-> Resting]
    /\ used = {} /\ expired = FALSE /\ pairing = "paired"
    /\ reviewed = Shown /\ taken = [b \in Buttons |-> 0]
    /\ postMoves = 0 /\ telegramDeaths = 0

-----------------------------------------------------------------------------
(* The outbox.                                                             *)

\* queue_message inserts the segments one after another.
QueueSegment(i) ==
    /\ segment[i].status = "none" /\ (i > 1 => segment[i - 1].status # "none")
    /\ segment' = [segment EXCEPT ![i].status = "pending"]
    /\ UNCHANGED <<received, sender, tapVars, expired, pairing, postMoves, telegramDeaths>>

\* (Mutant of PriorLost: only a failed segment counts as lost.)
PriorFailed(i) == i > 1 /\ segment[i - 1].status \in {"none", "failed"}

\* (Mutant of PriorOpen: a segment of unknown outcome may still arrive.)
PriorOpenOrUnknown(i) == i > 1 /\ segment[i - 1].status \in {"pending", "sending", "unknown"}

\* The segment before: lost, or still on its way.
PriorLost(i) == i > 1 /\ segment[i - 1].status \in {"none", "failed", "unknown"}
PriorOpen(i) == i > 1 /\ segment[i - 1].status \in {"pending", "sending"}

\* _claim, under the row's lock; the claim is known by the attempt it counted.
ClaimSegment(s, i) ==
    /\ sender[s] = Resting
    /\ segment[i].status = "pending" /\ segment[i].due /\ ~PriorOpen(i)
    /\ IF PriorLost(i) \/ segment[i].attempts >= SendAttempts
       THEN segment' = [segment EXCEPT ![i].status = "failed"] /\ UNCHANGED sender
       ELSE /\ segment' = [segment EXCEPT ![i] = [@ EXCEPT !.status = "sending", !.attempts = segment[i].attempts + 1]]
            /\ sender' = [sender EXCEPT ![s] = [step |-> "claimed", row |-> i,
                                               attempt |-> segment[i].attempts + 1, answer |-> "none"]]
    /\ UNCHANGED <<received, tapVars, expired, pairing, postMoves, telegramDeaths>>

\* _finish: the row is still sending, under the claim of this sender.
StillClaimed(s) == segment[sender[s].row].status = "sending" /\ segment[sender[s].row].attempts = sender[s].attempt
Finished(s, status) ==
    IF StillClaimed(s) THEN [segment EXCEPT ![sender[s].row].status = status] ELSE segment

SenderDone(s) == sender' = [sender EXCEPT ![s] = Resting]

\* send_one until the transport: the recipient and scope are read again, and
\* the content may be unavailable.
BeforeTransport(s) ==
    /\ sender[s].step = "claimed"
    /\ \/ /\ StillClaimed(s) /\ pairing = "paired"
          /\ sender' = [sender EXCEPT ![s].step = "calling"] /\ UNCHANGED segment
       \/ segment' = Finished(s, "failed") /\ SenderDone(s)
    /\ UNCHANGED <<received, tapVars, expired, pairing, postMoves, telegramDeaths>>

\* The Bot API: accepted, ambiguous (it may have arrived), or refused.
CallTelegram(s) ==
    /\ sender[s].step = "calling"
    /\ \E answer \in {"accepted", "ambiguous", "forbidden", "limited", "rejected"}, arrived \in BOOLEAN :
         /\ answer = "accepted" => arrived
         /\ answer \in {"forbidden", "limited", "rejected"} => ~arrived
         /\ sender' = [sender EXCEPT ![s] = [@ EXCEPT !.step = "answered", !.answer = answer]]
         /\ received' = [received EXCEPT ![sender[s].row] = IF arrived THEN @ + 1 ELSE @]
    /\ UNCHANGED <<segment, tapVars, expired, pairing, postMoves, telegramDeaths>>

SendAgain(answer, attempt) == answer = "limited" /\ attempt < SendAttempts

Outcome(answer) ==
    CASE answer = "accepted"  -> "sent"
      [] answer = "ambiguous" -> "unknown"
      [] OTHER                -> "failed"

RecordSend(s) ==
    /\ sender[s].step = "answered"
    /\ segment' = IF ~SendAgain(sender[s].answer, sender[s].attempt) THEN Finished(s, Outcome(sender[s].answer))
                  ELSE IF StillClaimed(s)
                       THEN [segment EXCEPT ![sender[s].row] = [@ EXCEPT !.status = "pending", !.due = FALSE]]
                       ELSE segment
    /\ IF sender[s].answer = "forbidden" THEN sender' = [sender EXCEPT ![s].step = "suspending"] ELSE SenderDone(s)
    /\ UNCHANGED <<received, tapVars, expired, pairing, postMoves, telegramDeaths>>

SegmentFallsDue(i) ==
    /\ ~segment[i].due /\ segment' = [segment EXCEPT ![i].due = TRUE]
    /\ UNCHANGED <<received, sender, tapVars, expired, pairing, postMoves, telegramDeaths>>

\* recover_stale_deliveries, SEND_CLAIM_TIMEOUT after the claim
RecoverDelivery(i) ==
    /\ segment[i].status = "sending"
    /\ segment' = [segment EXCEPT ![i].status = "unknown"]
    /\ UNCHANGED <<received, sender, tapVars, expired, pairing, postMoves, telegramDeaths>>

-----------------------------------------------------------------------------
(* Access.                                                                 *)

\* _invalidate_queues for the chat, which becomes inactive.
InvalidateQueues ==
    /\ pairing' = "revoked"
    /\ used' = Buttons
    /\ tap' = [u \in Taps |-> IF tap[u].status \in {"pending", "working"}
                              THEN [tap[u] EXCEPT !.status = "failed"] ELSE tap[u]]
    /\ segment' = [i \in Segments |->
                     CASE segment[i].status = "pending" -> [segment[i] EXCEPT !.status = "failed"]
                       [] segment[i].status = "sending" -> [segment[i] EXCEPT !.status = "unknown"]
                       [] OTHER -> segment[i]]

\* The bot was removed, or a person disconnected the chat.
RevokeChat ==
    /\ pairing = "paired" /\ InvalidateQueues
    /\ UNCHANGED <<received, sender, handler, reviewed, taken, expired, postMoves, telegramDeaths>>

PairAgain ==
    /\ pairing = "revoked" /\ pairing' = "again"
    /\ UNCHANGED <<outboxVars, tapVars, expired, postMoves, telegramDeaths>>

\* _suspend_recipient: not the chat that was paired again meanwhile.
SuspendRecipient(s) ==
    /\ sender[s].step = "suspending" /\ SenderDone(s)
    /\ IF pairing = "paired" THEN InvalidateQueues ELSE UNCHANGED <<segment, tap, used, pairing>>
    /\ UNCHANGED <<received, handler, reviewed, taken, expired, postMoves, telegramDeaths>>

-----------------------------------------------------------------------------
(* The taps.                                                               *)

\* ingress: a person taps a button that is in the chat, used or not.
Tap(u) ==
    /\ tap[u].status = "none" /\ received[LastSegment] > 0
    /\ tap' = [tap EXCEPT ![u] = [@ EXCEPT !.status = "pending", !.since = pairing]]
    /\ UNCHANGED <<outboxVars, handler, used, reviewed, taken, expired, pairing, postMoves, telegramDeaths>>

ClaimTap(h, u) ==
    /\ handler[h] = Resting /\ tap[u].status = "pending"
    /\ tap' = [tap EXCEPT ![u].status = "working"]
    /\ handler' = [handler EXCEPT ![h] = [step |-> "claimed", tap |-> u]]
    /\ UNCHANGED <<outboxVars, used, reviewed, taken, expired, pairing, postMoves, telegramDeaths>>

\* (Mutant of SameAsShown: the content is not compared.)
SameStatus == reviewed.status = Shown.status

SameAsShown == reviewed = Shown

Unused(b) == b \notin used

\* handle_callback, one transaction under the chat's, the button's and the
\* post's locks; whether the update is still working is not asked.
HandleTap(h) ==
    LET u == handler[h].tap
        b == tap[u].button
    IN /\ handler[h].step = "claimed"
       /\ IF pairing = "again" /\ tap[u].since # "again"
          THEN /\ handler' = [handler EXCEPT ![h] = Resting]
               /\ tap' = [tap EXCEPT ![u].status = IF @ = "working" THEN "failed" ELSE @]
               /\ UNCHANGED <<used, reviewed, taken>>
          ELSE /\ handler' = [handler EXCEPT ![h].step = "handled"] /\ UNCHANGED tap
               /\ IF pairing = "paired" /\ Unused(b) /\ ~expired /\ SameAsShown
                  THEN /\ reviewed' = [reviewed EXCEPT !.status = IF b = "approve" THEN "approved" ELSE "rejected"]
                       /\ used' = used \cup {b} /\ taken' = [taken EXCEPT ![b] = @ + 1]
                  ELSE UNCHANGED <<used, reviewed, taken>>
       /\ UNCHANGED <<outboxVars, expired, pairing, postMoves, telegramDeaths>>

\* queue_response and the last update of the row, unless it was settled already.
FinishTap(h) ==
    /\ handler[h].step = "handled" /\ handler' = [handler EXCEPT ![h] = Resting]
    /\ tap' = [tap EXCEPT ![handler[h].tap].status =
                 IF @ # "working" THEN @ ELSE IF pairing = tap[handler[h].tap].since THEN "processed" ELSE "failed"]
    /\ UNCHANGED <<outboxVars, used, reviewed, taken, expired, pairing, postMoves, telegramDeaths>>

\* recover_stale_updates, UPDATE_CLAIM_TIMEOUT after the claim
RecoverUpdate(u) ==
    /\ tap[u].status = "working"
    /\ tap' = [tap EXCEPT ![u].status = "failed"]
    /\ UNCHANGED <<outboxVars, handler, used, reviewed, taken, expired, pairing, postMoves, telegramDeaths>>

ButtonsExpire ==
    /\ ~expired /\ expired' = TRUE
    /\ UNCHANGED <<outboxVars, tapVars, pairing, postMoves, telegramDeaths>>

\* The post is edited, decided or sent back in the dashboard.
PostMoves ==
    /\ postMoves < MaxPostMoves /\ postMoves' = postMoves + 1
    /\ \/ reviewed' = [content |-> reviewed.content + 1, status |-> "pending_review"]
       \/ \E status \in {"pending_review", "approved", "rejected"} \ {reviewed.status} :
             reviewed' = [reviewed EXCEPT !.status = status]
    /\ UNCHANGED <<outboxVars, tap, handler, used, taken, expired, pairing, telegramDeaths>>

Die == telegramDeaths < MaxTelegramDeaths /\ telegramDeaths' = telegramDeaths + 1

SenderDies(s) ==
    /\ sender[s] # Resting /\ Die /\ SenderDone(s)
    /\ UNCHANGED <<segment, received, tapVars, expired, pairing, postMoves>>

HandlerDies(h) ==
    /\ handler[h] # Resting /\ Die /\ handler' = [handler EXCEPT ![h] = Resting]
    /\ UNCHANGED <<outboxVars, tap, used, reviewed, taken, expired, pairing, postMoves>>

SenderMoves(s) == BeforeTransport(s) \/ CallTelegram(s) \/ RecordSend(s) \/ SuspendRecipient(s)
HandlerMoves(h) == HandleTap(h) \/ FinishTap(h)

OutboxNext ==
    \/ \E i \in Segments : QueueSegment(i) \/ SegmentFallsDue(i) \/ RecoverDelivery(i)
    \/ \E s \in Senders : SenderMoves(s) \/ SenderDies(s) \/ \E i \in Segments : ClaimSegment(s, i)
    \/ RevokeChat \/ PairAgain

TapsNext ==
    \/ \E u \in Taps : Tap(u) \/ RecoverUpdate(u)
    \/ \E h \in Handlers : HandlerMoves(h) \/ HandlerDies(h) \/ \E u \in Taps : ClaimTap(h, u)
    \/ RevokeChat \/ PairAgain \/ ButtonsExpire \/ PostMoves

-----------------------------------------------------------------------------
\* What the outbox reports is so: a segment that waits or failed is not in the
\* chat, a sent one is, and none is there twice, whoever died or was slow.
ReportedTruly ==
    \A i \in Segments :
        /\ received[i] <= 1
        /\ segment[i].status \in {"pending", "failed"} => received[i] = 0
        /\ segment[i].status = "sent" => received[i] = 1

\* "An incomplete review must never carry an approval button" (queue_message):
\* the buttons arrive after every segment before them.
SegmentsInOrder == \A i, j \in Segments : i < j /\ received[j] > 0 => received[i] > 0

\* Both for the card as a whole: what is shown of it is so.
CardIsTrue == ReportedTruly /\ SegmentsInOrder

\* "One-use" (actions.py): a button decides once, and so do all buttons of a
\* card together, unless the post was moved back in the dashboard meanwhile.
OneDecision ==
    /\ \A b \in Buttons : taken[b] <= 1
    /\ \A b, c \in Buttons : b # c /\ taken[b] > 0 /\ taken[c] > 0 => postMoves > 0

\* "Exact-review" (actions.py): a decision is recorded only while the post is
\* what the card showed, its chat was not revoked since, and it is the first.
ExactDecision ==
    /\ []OneDecision
    /\ [][taken' # taken => reviewed = Shown /\ pairing = "paired"]_telegramVars

\* Every delivery and every update is settled in the end, although processes
\* die: none is left waiting, half sent or half handled.
TelegramSettles ==
    <>[](/\ \A i \in Segments : segment[i].status \notin {"pending", "sending"}
         /\ \A u \in Taps : tap[u].status \notin {"pending", "working"})
===============================================================================
