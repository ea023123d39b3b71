---------------------------- MODULE TelegramProofs ----------------------------
(***************************************************************************)
(* Theorems about the review in Telegram, for every number of segments,    *)
(* processes and taps, however often a process dies and the post moves.    *)
(***************************************************************************)
EXTENDS ServicesProofs, BlogProofs

TelegramSpec == (OutboxInit \/ CardArrived) /\ TapsInit /\ [][OutboxNext \/ TapsNext]_telegramVars

\* The other services leave the review alone, and a run about the card or about
\* its taps makes the steps of both.
THEOREM ReviewApart == Spec => TelegramSpec
<1>1. Init => (OutboxInit \/ CardArrived) /\ TapsInit
    BY DEF Init
<1>2. [Next]_vars => [OutboxNext \/ TapsNext]_telegramVars
  <2> SUFFICES ASSUME [Next]_vars PROVE [OutboxNext \/ TapsNext]_telegramVars
      OBVIOUS
  <2> USE DEF earlyVars, platformVars, lateVars, otherVars
  <2>1. CASE Comment(FirstCommentNext) BY <2>1 DEF Comment
  <2>2. CASE Digest(QueueNext) \/ Alert(DispatchNext) BY <2>2 DEF Digest, Alert
  <2>3. CASE Article(BlogNext) \/ Sitemap(BlogNext) BY <2>3 DEF Article, Sitemap
  <2>4. CASE Card(OutboxNext) \/ Review(TapsNext) BY <2>4 DEF Card, Review
  <2>5. CASE Calendar(PostingQueueNext) BY <2>5 DEF Calendar
  <2>6. CASE Series(RecurrenceNext) \/ Remind(RemindersNext) BY <2>6 DEF Series, Remind
  <2>7. CASE Inbox(InboxNext) \/ Schedule(RecurringNext) BY <2>7 DEF Inbox, Schedule
  <2>8. CASE Key(ApiNext) \/ Grant(TokensNext) BY <2>8 DEF Key, Grant
  <2>9. CASE Edits(VersionsNext) \/ Upload(UploadsNext) BY <2>9 DEF Edits, Upload
  <2>10. CASE UNCHANGED vars BY <2>10 DEF vars
  <2> QED BY <2>1, <2>2, <2>3, <2>4, <2>5, <2>6, <2>7, <2>8, <2>9, <2>10 DEF Next
<1> QED BY <1>1, <1>2, PTL DEF Spec, TelegramSpec

-----------------------------------------------------------------------------
(* The card.                                                               *)

SegmentRow == [status : {"none", "pending", "sending", "sent", "failed", "unknown"}, attempts : Nat, due : BOOLEAN]
Sends == [step : {"claimed", "calling", "answered", "suspending"}, row : Segments, attempt : Nat,
          answer : {"none", "accepted", "ambiguous", "forbidden", "limited", "rejected"}]

\* A process in the middle of sending segment i.
Sending(s, i) == sender[s] # Resting /\ sender[s].step # "suspending" /\ sender[s].row = i

\* A claim lasts until its sender ends it, or nobody claims the segment again.
ClaimSound(s) ==
    /\ segment[sender[s].row].status \in {"sending", "unknown"}
    /\ segment[sender[s].row].attempts = sender[s].attempt
    /\ sender[s].step \in {"claimed", "calling"} => received[sender[s].row] = 0
    /\ sender[s].step = "answered" =>
         /\ sender[s].answer # "none"
         /\ sender[s].answer = "accepted" => received[sender[s].row] = 1
         /\ sender[s].answer \in {"forbidden", "limited", "rejected"} => received[sender[s].row] = 0

SegmentSound(i) ==
    /\ received[i] \in {0, 1}
    /\ segment[i].status \in {"none", "pending", "failed"} => received[i] = 0
    /\ segment[i].status = "sent" => received[i] = 1
    /\ segment[i].status \in {"sending", "sent", "unknown"} =>
         \A h \in Segments : h < i => segment[h].status = "sent"

CardSound ==
    /\ segment \in [Segments -> SegmentRow] /\ received \in [Segments -> Nat]
    /\ sender \in [Senders -> {Resting} \cup Sends]
    /\ \A i \in Segments : SegmentSound(i)
    /\ \A s \in Senders, i \in Segments : Sending(s, i) => ClaimSound(s)
    /\ \A s, t \in Senders, i \in Segments : Sending(s, i) /\ Sending(t, i) => s = t

ReviewStatuses == {"pending_review", "approved", "rejected"}
DecisionSound ==
    /\ tap \in [Taps -> [status : {"none", "pending", "working", "processed", "failed"},
                         button : Buttons, since : {"paired", "revoked", "again"}]]
    /\ handler \in [Handlers -> {Resting} \cup [step : {"claimed", "handled"}, tap : Taps]]
    /\ reviewed \in [content : Nat, status : ReviewStatuses] /\ postMoves \in Nat
    /\ taken \in [Buttons -> Nat] /\ pairing \in {"paired", "revoked", "again"}
    /\ \A b \in Buttons : taken[b] \in {0, 1} /\ (taken[b] # 0 => b \in used)
    /\ postMoves = 0 /\ reviewed = Shown => \A b \in Buttons : taken[b] = 0
    /\ \A b, c \in Buttons : b # c /\ taken[b] # 0 /\ taken[c] # 0 => postMoves # 0

LEMMA CardSoundInit == OutboxInit \/ CardArrived => CardSound
<1> SUFFICES ASSUME OutboxInit \/ CardArrived PROVE CardSound
    OBVIOUS
<1>1. sender \in [Senders -> {Resting} \cup Sends] /\ \A s \in Senders, i \in Segments : ~Sending(s, i)
    BY DEF OutboxInit, CardArrived, Sending
<1>2. segment \in [Segments -> SegmentRow] /\ received \in [Segments -> Nat]
  <2>1. [status |-> "none", attempts |-> 0, due |-> TRUE] \in SegmentRow
        /\ [status |-> "sent", attempts |-> 1, due |-> TRUE] \in SegmentRow
      BY DEF SegmentRow
  <2>2. CASE OutboxInit
      BY <2>1, <2>2 DEF OutboxInit
  <2>3. CASE CardArrived
      BY <2>1, <2>3 DEF CardArrived
  <2> QED BY <2>2, <2>3
<1>3. \A i \in Segments : SegmentSound(i)
  <2>1. CASE OutboxInit
      BY <2>1 DEF OutboxInit, SegmentSound
  <2>2. CASE CardArrived
    <3>1. \A i \in Segments : segment[i].status = "sent" /\ received[i] = 1
        BY <2>2 DEF CardArrived
    <3> QED BY <3>1 DEF SegmentSound
  <2> QED BY <2>1, <2>2
<1> QED BY <1>1, <1>2, <1>3 DEF CardSound

\* A step of one segment that leaves the senders where they are.
LEMMA RowStep ==
    ASSUME CardSound, UNCHANGED <<sender, received>>, NEW i \in Segments, NEW line \in SegmentRow,
           segment' = [segment EXCEPT ![i] = line], segment[i].status # "sent", SegmentSound(i)',
           \A s \in Senders : Sending(s, i) => line.status \in {"sending", "unknown"} /\ line.attempts = segment[i].attempts
    PROVE  CardSound'
<1>1. segment' \in [Segments -> SegmentRow] /\ segment'[i] = line /\ \A h \in Segments \ {i} : segment'[h] = segment[h]
    BY DEF CardSound
<1>2. \A h \in Segments : SegmentSound(h)'
  <2> SUFFICES ASSUME NEW h \in Segments, h # i PROVE SegmentSound(h)'
      OBVIOUS
  <2>1. SegmentSound(h) /\ segment'[h] = segment[h]
      BY <1>1 DEF CardSound
  <2> QED BY <1>1, <2>1 DEF SegmentSound
<1>3. \A s \in Senders, h \in Segments : Sending(s, h)' <=> Sending(s, h)
    BY DEF Sending
<1>4. \A s \in Senders, h \in Segments : Sending(s, h) => ClaimSound(s)'
  <2> SUFFICES ASSUME NEW s \in Senders, NEW h \in Segments, Sending(s, h) PROVE ClaimSound(s)'
      OBVIOUS
  <2>1. ClaimSound(s) /\ sender[s].row = h
      BY DEF CardSound, Sending
  <2>2. CASE h = i
      BY <1>1, <2>1, <2>2 DEF ClaimSound
  <2>3. CASE h # i
      BY <1>1, <2>1, <2>3 DEF ClaimSound
  <2> QED BY <2>2, <2>3
<1> QED BY <1>1, <1>2, <1>3, <1>4 DEF CardSound

\* A step of one sender on its segment.
LEMMA SenderStep ==
    ASSUME CardSound, NEW i \in Segments, NEW line \in SegmentRow, segment' = [segment EXCEPT ![i] = line],
           received' \in [Segments -> Nat], \A h \in Segments \ {i} : received'[h] = received[h],
           NEW s \in Senders, NEW now \in {Resting} \cup Sends, sender' = [sender EXCEPT ![s] = now],
           segment[i].status # "sent" \/ line.status = "sent", SegmentSound(i)',
           \A t \in Senders \ {s} : ~Sending(t, i),
           now = Resting \/ now.step = "suspending" \/ (now.row = i /\ ClaimSound(s)')
    PROVE  CardSound'
<1>1. segment' \in [Segments -> SegmentRow] /\ segment'[i] = line /\ \A h \in Segments \ {i} : segment'[h] = segment[h]
    BY DEF CardSound
<1>2. sender' \in [Senders -> {Resting} \cup Sends] /\ sender'[s] = now /\ \A t \in Senders \ {s} : sender'[t] = sender[t]
    BY DEF CardSound
<1>3. \A h \in Segments : SegmentSound(h)'
  <2> SUFFICES ASSUME NEW h \in Segments, h # i PROVE SegmentSound(h)'
      OBVIOUS
  <2>1. SegmentSound(h) /\ segment'[h] = segment[h] /\ received'[h] = received[h]
      BY <1>1 DEF CardSound
  <2> QED BY <1>1, <2>1 DEF SegmentSound
<1>4. \A t \in Senders \ {s}, h \in Segments : Sending(t, h)' => Sending(t, h) /\ h # i
    BY <1>2 DEF Sending
<1>5. \A h \in Segments : Sending(s, h)' => h = i /\ ClaimSound(s)'
    BY <1>2 DEF Sending
<1>6. \A t \in Senders, h \in Segments : Sending(t, h)' => ClaimSound(t)'
  <2> SUFFICES ASSUME NEW t \in Senders \ {s}, NEW h \in Segments, Sending(t, h), h # i PROVE ClaimSound(t)'
      BY <1>4, <1>5
  <2>1. ClaimSound(t) /\ sender[t].row = h /\ sender'[t] = sender[t] /\ segment'[h] = segment[h] /\ received'[h] = received[h]
      BY <1>1, <1>2 DEF CardSound, Sending
  <2> QED BY <2>1 DEF ClaimSound
<1>7. \A t, u \in Senders, h \in Segments : Sending(t, h)' /\ Sending(u, h)' => t = u
    BY <1>4, <1>5 DEF CardSound
<1> QED BY <1>1, <1>2, <1>3, <1>6, <1>7 DEF CardSound

\* Who is sending what, and that nobody else does.
LEMMA SenderFacts ==
    ASSUME CardSound, NEW s \in Senders, sender[s] # Resting, sender[s].step # "suspending"
    PROVE  \E i \in Segments :
              /\ i = sender[s].row /\ sender[s] \in Sends /\ segment[i] \in SegmentRow /\ SegmentSound(i) /\ ClaimSound(s)
              /\ \A t \in Senders \ {s} : ~Sending(t, i)
<1>1. sender[s] \in Sends
    BY DEF CardSound
<1>2. sender[s].row \in Segments
    BY <1>1 DEF Sends
<1>3. Sending(s, sender[s].row)
    BY DEF Sending
<1> QED BY <1>1, <1>2, <1>3 DEF CardSound

\* _finish: the outcome is written while the claim still stands.
LEMMA FinishStep ==
    ASSUME CardSound, NEW s \in Senders, sender[s] # Resting, sender[s].step # "suspending",
           NEW status \in {"sent", "unknown", "failed"}, segment' = Finished(s, status), received' = received,
           NEW now \in {Resting} \cup Sends, sender' = [sender EXCEPT ![s] = now],
           now = Resting \/ now.step = "suspending",
           status = "sent" => received[sender[s].row] = 1,
           status = "failed" => received[sender[s].row] = 0
    PROVE  CardSound'
<1>1. PICK i \in Segments :
         /\ i = sender[s].row /\ segment[i] \in SegmentRow /\ SegmentSound(i) /\ ClaimSound(s)
         /\ \A t \in Senders \ {s} : ~Sending(t, i)
    BY SenderFacts
<1> DEFINE line == IF StillClaimed(s) THEN [segment[i] EXCEPT !.status = status] ELSE segment[i]
<1>2. segment' = [segment EXCEPT ![i] = line]
  <2>1. CASE StillClaimed(s)
      BY <1>1, <2>1 DEF Finished
  <2>2. CASE ~StillClaimed(s)
    <3>1. segment' = segment /\ line = segment[i]
        BY <2>2 DEF Finished
    <3>2. segment \in [Segments -> SegmentRow]
        BY DEF CardSound
    <3> HIDE DEF line
    <3> QED BY <3>1, <3>2
  <2> QED BY <2>1, <2>2
<1>3. line \in SegmentRow
    BY <1>1 DEF SegmentRow
<1>4. line.status \in {segment[i].status, status} /\ (line.status # segment[i].status => segment[i].status = "sending")
    BY <1>1 DEF SegmentRow, StillClaimed
<1>5. segment[i].status \in {"sending", "unknown"}
    BY <1>1 DEF ClaimSound
<1>6. received[i] \in {0, 1} /\ \A h \in Segments : h < i => segment[h].status = "sent"
    BY <1>1, <1>5 DEF SegmentSound
<1>9. i \in Segments
    BY <1>1
<1>10. status = "sent" => received[i] = 1
    BY <1>1
<1>11. status = "failed" => received[i] = 0
    BY <1>1
<1>12. sender' = [sender EXCEPT ![s] = now] /\ received' = received
    OBVIOUS
<1> HIDE DEF line
<1>7. SegmentSound(i)'
  <2>1. segment'[i] = line /\ \A h \in Segments : h # i => segment'[h] = segment[h]
      BY <1>1, <1>2 DEF CardSound
  <2>2. \A h \in Segments : h < i => h # i
      BY DEF Segments
  <2>3. CASE line.status = segment[i].status
      BY <1>1, <1>5, <1>6, <1>9, <1>12, <2>1, <2>2, <2>3 DEF SegmentSound
  <2>4. CASE line.status = status
      BY <1>6, <1>9, <1>10, <1>11, <1>12, <2>1, <2>2, <2>4 DEF SegmentSound
  <2> QED BY <1>4, <2>3, <2>4
<1>8. received' \in [Segments -> Nat]
    BY DEF CardSound
<1>13. \A h \in Segments \ {i} : received'[h] = received[h]
    BY <1>12
<1>14. segment[i].status # "sent" \/ line.status = "sent"
    BY <1>5
<1>15. \A t \in Senders \ {s} : ~Sending(t, i)
    BY <1>1
<1>16. now = Resting \/ now.step = "suspending" \/ (now.row = i /\ ClaimSound(s)')
    OBVIOUS
<1> QED BY <1>2, <1>3, <1>7, <1>8, <1>9, <1>12, <1>13, <1>14, <1>15, <1>16, SenderStep

\* Nobody is sending a segment that is not claimed.
LEMMA UnclaimedIsIdle ==
    ASSUME CardSound, NEW i \in Segments, segment[i].status \notin {"sending", "unknown"}
    PROVE  \A s \in Senders : ~Sending(s, i)
BY DEF CardSound, ClaimSound, Sending

LEMMA QueueSteps ==
    ASSUME CardSound, NEW i \in Segments, QueueSegment(i) \/ SegmentFallsDue(i) \/ RecoverDelivery(i)
    PROVE  CardSound'
<1>1. UNCHANGED <<sender, received>> /\ segment \in [Segments -> SegmentRow] /\ segment[i] \in SegmentRow /\ SegmentSound(i)
    BY DEF QueueSegment, SegmentFallsDue, RecoverDelivery, CardSound
<1>2. \A h \in Segments : h < i => h # i
    BY DEF Segments
<1>3. CASE QueueSegment(i)
  <2> DEFINE line == [segment[i] EXCEPT !.status = "pending"]
  <2>1. segment' = [segment EXCEPT ![i] = line] /\ segment[i].status = "none"
      BY <1>3 DEF QueueSegment
  <2>2. line \in SegmentRow /\ line.status = "pending"
      BY <1>1 DEF SegmentRow
  <2> HIDE DEF line
  <2>3. SegmentSound(i)'
      BY <1>1, <2>1, <2>2 DEF SegmentSound
  <2> QED BY <1>1, <2>1, <2>2, <2>3, UnclaimedIsIdle, RowStep
<1>4. CASE SegmentFallsDue(i)
  <2> DEFINE line == [segment[i] EXCEPT !.due = TRUE]
  <2>1. segment' = [segment EXCEPT ![i] = line]
      BY <1>4 DEF SegmentFallsDue
  <2>2. line \in SegmentRow /\ line.status = segment[i].status /\ line.attempts = segment[i].attempts
      BY <1>1 DEF SegmentRow
  <2> HIDE DEF line
  <2>3. segment' \in [Segments -> SegmentRow] /\ segment'[i] = line /\ \A h \in Segments \ {i} : segment'[h] = segment[h]
      BY <1>1, <2>1, <2>2
  <2>4. \A h \in Segments : /\ segment'[h].status = segment[h].status /\ segment'[h].attempts = segment[h].attempts
                            /\ received'[h] = received[h]
      BY <1>1, <2>2, <2>3
  <2>5. \A h \in Segments : SegmentSound(h)'
      BY <2>4 DEF CardSound, SegmentSound
  <2>6. \A s \in Senders, h \in Segments : Sending(s, h)' => Sending(s, h) /\ ClaimSound(s)'
    <3> SUFFICES ASSUME NEW s \in Senders, NEW h \in Segments, Sending(s, h)' PROVE Sending(s, h) /\ ClaimSound(s)'
        OBVIOUS
    <3>1. Sending(s, h) /\ sender[s].row = h /\ ClaimSound(s)
        BY <1>1 DEF Sending, CardSound
    <3> QED BY <1>1, <2>4, <3>1 DEF ClaimSound
  <2> QED BY <1>1, <2>3, <2>5, <2>6 DEF CardSound
<1>5. CASE RecoverDelivery(i)
  <2> DEFINE line == [segment[i] EXCEPT !.status = "unknown"]
  <2>1. segment' = [segment EXCEPT ![i] = line] /\ segment[i].status = "sending"
      BY <1>5 DEF RecoverDelivery
  <2>2. line \in SegmentRow /\ line.status = "unknown" /\ line.attempts = segment[i].attempts
      BY <1>1 DEF SegmentRow
  <2> HIDE DEF line
  <2>3. segment'[i] = line /\ \A h \in Segments \ {i} : segment'[h] = segment[h]
      BY <1>1, <2>1
  <2>4. SegmentSound(i)'
      BY <1>1, <1>2, <2>1, <2>2, <2>3 DEF SegmentSound
  <2> QED BY <1>1, <2>1, <2>2, <2>4, RowStep
<1> QED BY <1>3, <1>4, <1>5

LEMMA ClaimSegmentStep ==
    ASSUME CardSound, NEW s \in Senders, NEW i \in Segments, ClaimSegment(s, i)
    PROVE  CardSound'
<1>1. /\ segment \in [Segments -> SegmentRow] /\ segment[i] \in SegmentRow /\ SegmentSound(i)
      /\ segment[i].status = "pending" /\ sender[s] = Resting /\ received' = received /\ received[i] = 0
    BY DEF ClaimSegment, CardSound, SegmentSound
<1>2. \A t \in Senders : ~Sending(t, i)
    BY <1>1, UnclaimedIsIdle
<1>3. \A h \in Segments : h < i => h # i
    BY DEF Segments
<1>4. CASE segment' = [segment EXCEPT ![i].status = "failed"] /\ sender' = sender
  <2> DEFINE line == [segment[i] EXCEPT !.status = "failed"]
  <2>1. segment' = [segment EXCEPT ![i] = line]
      BY <1>4
  <2>2. line \in SegmentRow /\ line.status = "failed"
      BY <1>1 DEF SegmentRow
  <2> HIDE DEF line
  <2>3. SegmentSound(i)'
      BY <1>1, <2>1, <2>2 DEF SegmentSound
  <2> QED BY <1>1, <1>2, <1>4, <2>1, <2>2, <2>3, RowStep
<1>5. CASE ~(segment' = [segment EXCEPT ![i].status = "failed"] /\ sender' = sender)
  <2> DEFINE line == [segment[i] EXCEPT !.status = "sending", !.attempts = segment[i].attempts + 1]
             now == [step |-> "claimed", row |-> i, attempt |-> segment[i].attempts + 1, answer |-> "none"]
  <2>1. ~PriorOpen(i) /\ ~PriorLost(i) /\ segment' = [segment EXCEPT ![i] = line] /\ sender' = [sender EXCEPT ![s] = now]
      BY <1>5 DEF ClaimSegment
  <2>2. line \in SegmentRow /\ line.status = "sending" /\ line.attempts = segment[i].attempts + 1
    <3> DEFINE attempt == segment[i].attempts + 1
    <3>1. attempt \in Nat
        BY <1>1 DEF SegmentRow
    <3>2. line = [segment[i] EXCEPT !.status = "sending", !.attempts = attempt]
        OBVIOUS
    <3> HIDE DEF line, attempt
    <3>3. line \in SegmentRow /\ line.status = "sending" /\ line.attempts = attempt
        BY <1>1, <3>1, <3>2 DEF SegmentRow
    <3> QED BY <3>3 DEF attempt
  <2>3. now \in Sends /\ now.step = "claimed" /\ now.row = i /\ now.attempt = segment[i].attempts + 1
      BY <1>1 DEF Sends, SegmentRow
  <2>4. \A h \in Segments : h < i => segment[h].status = "sent"
    <3> SUFFICES ASSUME NEW h \in Segments, h < i PROVE segment[h].status = "sent"
        OBVIOUS
    <3>1. i \in Nat /\ h \in Nat /\ 1 <= h /\ i - 1 \in Segments /\ i > 1 /\ (h = i - 1 \/ h < i - 1)
        BY TelegramAssumption DEF Segments
    <3>2. segment[i - 1] \in SegmentRow
        BY <1>1, <3>1
    <3>3. segment[i - 1].status = "sent"
        BY <2>1, <3>1, <3>2 DEF PriorOpen, PriorLost, SegmentRow
    <3>4. SegmentSound(i - 1)
        BY <3>1 DEF CardSound
    <3> QED BY <3>1, <3>3, <3>4 DEF SegmentSound
  <2> HIDE DEF line, now
  <2>5. segment'[i] = line /\ \A h \in Segments \ {i} : segment'[h] = segment[h]
      BY <1>1, <2>1
  <2>6. SegmentSound(i)'
      BY <1>1, <1>3, <2>2, <2>4, <2>5 DEF SegmentSound
  <2>7. sender'[s] = now
      BY <2>1 DEF CardSound
  <2>8. ClaimSound(s)'
      BY <1>1, <2>2, <2>3, <2>5, <2>7 DEF ClaimSound
  <2>9. received' \in [Segments -> Nat] /\ \A h \in Segments \ {i} : received'[h] = received[h]
      BY <1>1 DEF CardSound
  <2>10. \A t \in Senders \ {s} : ~Sending(t, i)
      BY <1>2
  <2> QED BY <1>1, <2>1, <2>2, <2>3, <2>6, <2>8, <2>9, <2>10, SenderStep
<1> QED BY <1>4, <1>5

LEMMA TransportStep ==
    ASSUME CardSound, NEW s \in Senders, BeforeTransport(s)
    PROVE  CardSound'
<1>1. sender[s].step = "claimed" /\ received' = received /\ sender[s] # Resting /\ sender[s].step # "suspending"
    BY DEF BeforeTransport, Resting
<1>2. PICK i \in Segments :
         /\ i = sender[s].row /\ sender[s] \in Sends /\ segment[i] \in SegmentRow /\ SegmentSound(i) /\ ClaimSound(s)
         /\ \A t \in Senders \ {s} : ~Sending(t, i)
    BY <1>1, SenderFacts
<1>3. received[i] = 0
    BY <1>1, <1>2 DEF ClaimSound
<1>4. CASE sender' = [sender EXCEPT ![s].step = "calling"] /\ segment' = segment /\ StillClaimed(s)
  <2> DEFINE now == [sender[s] EXCEPT !.step = "calling"]
             line == segment[i]
  <2>1. sender' = [sender EXCEPT ![s] = now]
      BY <1>4
  <2>2. now \in Sends /\ now.step = "calling" /\ now.row = i /\ now.attempt = sender[s].attempt
      BY <1>2 DEF Sends
  <2> HIDE DEF now
  <2>3. segment' = [segment EXCEPT ![i] = line]
      BY <1>4 DEF CardSound
  <2>4. SegmentSound(i)'
      BY <1>1, <1>2, <1>4 DEF SegmentSound
  <2>5. sender'[s] = now
      BY <2>1 DEF CardSound
  <2>6. ClaimSound(s)'
      BY <1>1, <1>2, <1>3, <1>4, <2>2, <2>5 DEF ClaimSound
  <2>7. received' \in [Segments -> Nat] /\ \A h \in Segments \ {i} : received'[h] = received[h]
      BY <1>1 DEF CardSound
  <2>8. line \in SegmentRow /\ (segment[i].status # "sent" \/ line.status = "sent")
      BY <1>2
  <2> QED BY <1>2, <2>1, <2>2, <2>3, <2>4, <2>6, <2>7, <2>8, SenderStep
<1>5. CASE segment' = Finished(s, "failed") /\ SenderDone(s)
  <2>1. sender' = [sender EXCEPT ![s] = Resting] /\ received[sender[s].row] = 0
      BY <1>2, <1>3, <1>5 DEF SenderDone
  <2> QED BY <1>1, <1>5, <2>1, FinishStep
<1> QED BY <1>4, <1>5 DEF BeforeTransport

LEMMA CallStep ==
    ASSUME CardSound, NEW s \in Senders, CallTelegram(s)
    PROVE  CardSound'
<1>1. sender[s].step = "calling" /\ segment' = segment /\ sender[s] # Resting /\ sender[s].step # "suspending"
    BY DEF CallTelegram, Resting
<1>2. PICK i \in Segments :
         /\ i = sender[s].row /\ sender[s] \in Sends /\ segment[i] \in SegmentRow /\ SegmentSound(i) /\ ClaimSound(s)
         /\ \A t \in Senders \ {s} : ~Sending(t, i)
    BY <1>1, SenderFacts
<1>3. received[i] = 0 /\ segment[i].status \in {"sending", "unknown"}
    BY <1>1, <1>2 DEF ClaimSound
<1>4. PICK answer \in {"accepted", "ambiguous", "forbidden", "limited", "rejected"}, arrived \in BOOLEAN :
         /\ answer = "accepted" => arrived
         /\ answer \in {"forbidden", "limited", "rejected"} => ~arrived
         /\ sender' = [sender EXCEPT ![s] = [@ EXCEPT !.step = "answered", !.answer = answer]]
         /\ received' = [received EXCEPT ![sender[s].row] = IF arrived THEN @ + 1 ELSE @]
    BY DEF CallTelegram
<1> DEFINE now == [sender[s] EXCEPT !.step = "answered", !.answer = answer]
           line == segment[i]
<1>5. sender' = [sender EXCEPT ![s] = now]
    BY <1>4
<1>6. now \in Sends /\ now.step = "answered" /\ now.row = i /\ now.attempt = sender[s].attempt /\ now.answer = answer
    BY <1>2 DEF Sends
<1> HIDE DEF now
<1>7. received' \in [Segments -> Nat] /\ received'[i] = (IF arrived THEN 1 ELSE 0)
      /\ \A h \in Segments \ {i} : received'[h] = received[h]
    BY <1>2, <1>3, <1>4 DEF CardSound
<1>8. segment' = [segment EXCEPT ![i] = line]
    BY <1>1 DEF CardSound
<1>9. SegmentSound(i)'
    BY <1>1, <1>2, <1>3, <1>7 DEF SegmentSound
<1>10. sender'[s] = now
    BY <1>5 DEF CardSound
<1>11. ClaimSound(s)'
    BY <1>1, <1>2, <1>3, <1>4, <1>6, <1>7, <1>10 DEF ClaimSound
<1>12. line \in SegmentRow /\ (segment[i].status # "sent" \/ line.status = "sent")
    BY <1>2, <1>3
<1> QED BY <1>2, <1>5, <1>6, <1>7, <1>8, <1>9, <1>11, <1>12, SenderStep

LEMMA RecordSendStep ==
    ASSUME CardSound, NEW s \in Senders, RecordSend(s)
    PROVE  CardSound'
<1>1. sender[s].step = "answered" /\ received' = received /\ sender[s] # Resting /\ sender[s].step # "suspending"
    BY DEF RecordSend, Resting
<1>2. PICK i \in Segments :
         /\ i = sender[s].row /\ sender[s] \in Sends /\ segment[i] \in SegmentRow /\ SegmentSound(i) /\ ClaimSound(s)
         /\ \A t \in Senders \ {s} : ~Sending(t, i)
    BY <1>1, SenderFacts
<1>3. /\ sender[s].answer \in {"accepted", "ambiguous", "forbidden", "limited", "rejected"}
      /\ sender[s].answer = "accepted" => received[i] = 1
      /\ sender[s].answer \in {"forbidden", "limited", "rejected"} => received[i] = 0
      /\ segment[i].status \in {"sending", "unknown"}
    BY <1>1, <1>2 DEF ClaimSound, Sends
<1> DEFINE now == IF sender[s].answer = "forbidden" THEN [sender[s] EXCEPT !.step = "suspending"] ELSE Resting
<1>4. sender' = [sender EXCEPT ![s] = now]
  <2>1. CASE sender[s].answer = "forbidden"
      BY <2>1 DEF RecordSend
  <2>2. CASE sender[s].answer # "forbidden"
      BY <2>2 DEF RecordSend, SenderDone
  <2> QED BY <2>1, <2>2
<1>5. now \in {Resting} \cup Sends /\ (now = Resting \/ now.step = "suspending")
    BY <1>2 DEF Sends
<1> HIDE DEF now
<1>6. CASE ~SendAgain(sender[s].answer, sender[s].attempt)
  <2> DEFINE status == Outcome(sender[s].answer)
  <2>1. segment' = Finished(s, status)
      BY <1>6 DEF RecordSend
  <2>2. /\ status \in {"sent", "unknown", "failed"}
        /\ status = "sent" => received[sender[s].row] = 1
        /\ status = "failed" => received[sender[s].row] = 0
      BY <1>2, <1>3 DEF Outcome
  <2> HIDE DEF status
  <2> QED BY <1>1, <1>4, <1>5, <2>1, <2>2, FinishStep
<1>7. CASE SendAgain(sender[s].answer, sender[s].attempt)
  <2>1. received[i] = 0
      BY <1>3, <1>7 DEF SendAgain
  <2> DEFINE line == IF StillClaimed(s) THEN [segment[i] EXCEPT !.status = "pending", !.due = FALSE] ELSE segment[i]
  <2>2. segment' = [segment EXCEPT ![i] = line]
    <3>1. CASE StillClaimed(s)
        BY <1>2, <1>7, <3>1 DEF RecordSend
    <3>2. CASE ~StillClaimed(s)
      <4>1. segment' = segment /\ line = segment[i] /\ segment \in [Segments -> SegmentRow]
          BY <1>7, <3>2 DEF RecordSend, CardSound
      <4> HIDE DEF line
      <4> QED BY <4>1
    <3> QED BY <3>1, <3>2
  <2>3. line \in SegmentRow /\ (line.status = "pending" \/ line.status = segment[i].status)
      BY <1>2 DEF SegmentRow
  <2> HIDE DEF line
  <2>4. segment'[i] = line /\ \A h \in Segments \ {i} : segment'[h] = segment[h]
      BY <2>2 DEF CardSound
  <2>5. \A h \in Segments : h < i => h # i
      BY DEF Segments
  <2>6. SegmentSound(i)'
    <3>1. CASE line.status = "pending"
        BY <1>1, <2>1, <2>4, <3>1 DEF SegmentSound
    <3>2. CASE line.status = segment[i].status
        BY <1>1, <1>2, <1>3, <2>1, <2>4, <2>5, <3>2 DEF SegmentSound
    <3> QED BY <2>3, <3>1, <3>2
  <2>7. received' \in [Segments -> Nat] /\ \A h \in Segments \ {i} : received'[h] = received[h]
      BY <1>1 DEF CardSound
  <2>8. segment[i].status # "sent" \/ line.status = "sent"
      BY <1>3
  <2>9. now = Resting \/ now.step = "suspending" \/ (now.row = i /\ ClaimSound(s)')
      BY <1>5
  <2> QED BY <1>2, <1>4, <1>5, <2>2, <2>3, <2>6, <2>7, <2>8, <2>9, SenderStep
<1> QED BY <1>6, <1>7

\* A process that stops, or only has the chat left to suspend, sends nothing.
LEMMA DoneStep ==
    ASSUME CardSound, sender' \in [Senders -> {Resting} \cup Sends],
           \A s \in Senders : sender'[s] \in {sender[s], Resting}, received' = received, segment' \in [Segments -> SegmentRow],
           \A i \in Segments :
              \/ segment'[i] = segment[i]
              \/ /\ segment[i].status \in {"pending", "sending"} /\ segment'[i].attempts = segment[i].attempts
                 /\ segment'[i].status = IF segment[i].status = "pending" THEN "failed" ELSE "unknown"
    PROVE  CardSound'
<1>1. received' \in [Segments -> Nat]
    BY DEF CardSound
<1>2. \A t \in Senders, i \in Segments : Sending(t, i)' => Sending(t, i) /\ sender'[t] = sender[t]
    BY DEF Sending, CardSound
<1>3. \A i \in Segments : segment[i].status = "sent" => segment'[i].status = "sent"
    OBVIOUS
<1>4. \A i \in Segments : SegmentSound(i)'
  <2> SUFFICES ASSUME NEW i \in Segments PROVE SegmentSound(i)'
      OBVIOUS
  <2>1. SegmentSound(i)
      BY DEF CardSound
  <2>2. CASE segment'[i] = segment[i]
      BY <1>3, <2>1, <2>2 DEF SegmentSound
  <2>3. CASE segment'[i] # segment[i]
    <3>1. \/ segment[i].status = "pending" /\ segment'[i].status = "failed"
          \/ segment[i].status = "sending" /\ segment'[i].status = "unknown"
        BY <2>3
    <3> QED BY <1>3, <2>1, <3>1 DEF SegmentSound
  <2> QED BY <2>2, <2>3
<1>5. \A t \in Senders, i \in Segments : Sending(t, i)' => ClaimSound(t)'
  <2> SUFFICES ASSUME NEW t \in Senders, NEW i \in Segments, Sending(t, i), sender'[t] = sender[t] PROVE ClaimSound(t)'
      BY <1>2
  <2>1. ClaimSound(t) /\ sender[t].row = i
      BY DEF CardSound, Sending
  <2>2. segment'[i].attempts = segment[i].attempts /\ segment'[i].status \in {"sending", "unknown"}
      BY <2>1 DEF ClaimSound
  <2> QED BY <2>1, <2>2 DEF ClaimSound
<1> QED BY <1>1, <1>2, <1>4, <1>5 DEF CardSound

\* Revoking the chat ends what waits, and gives up what is under way as unknown.
LEMMA RevokedRows ==
    ASSUME CardSound, InvalidateQueues
    PROVE  /\ segment' \in [Segments -> SegmentRow]
           /\ \A i \in Segments :
                \/ segment'[i] = segment[i]
                \/ /\ segment[i].status \in {"pending", "sending"} /\ segment'[i].attempts = segment[i].attempts
                   /\ segment'[i].status = IF segment[i].status = "pending" THEN "failed" ELSE "unknown"
<1> DEFINE Line(i) == CASE segment[i].status = "pending" -> [segment[i] EXCEPT !.status = "failed"]
                       [] segment[i].status = "sending" -> [segment[i] EXCEPT !.status = "unknown"]
                       [] OTHER -> segment[i]
<1>1. segment' = [i \in Segments |-> Line(i)]
    BY DEF InvalidateQueues
<1>2. \A i \in Segments :
        /\ Line(i) \in SegmentRow
        /\ \/ Line(i) = segment[i]
           \/ /\ segment[i].status \in {"pending", "sending"} /\ Line(i).attempts = segment[i].attempts
              /\ Line(i).status = IF segment[i].status = "pending" THEN "failed" ELSE "unknown"
  <2> SUFFICES ASSUME NEW i \in Segments
               PROVE  /\ Line(i) \in SegmentRow
                      /\ \/ Line(i) = segment[i]
                         \/ /\ segment[i].status \in {"pending", "sending"} /\ Line(i).attempts = segment[i].attempts
                            /\ Line(i).status = IF segment[i].status = "pending" THEN "failed" ELSE "unknown"
      OBVIOUS
  <2>1. segment[i] \in SegmentRow
      BY DEF CardSound
  <2>2. CASE segment[i].status = "pending"
      BY <2>1, <2>2 DEF SegmentRow
  <2>3. CASE segment[i].status = "sending"
      BY <2>1, <2>3 DEF SegmentRow
  <2>4. CASE segment[i].status \notin {"pending", "sending"}
    <3>1. Line(i) = segment[i]
        BY <2>4
    <3> QED BY <2>1, <3>1
  <2> QED BY <2>2, <2>3, <2>4
<1> HIDE DEF Line
<1>3. \A i \in Segments : segment'[i] = Line(i)
    BY <1>1
<1> QED BY <1>1, <1>2, <1>3

LEMMA CardSoundStep == CardSound /\ [OutboxNext \/ TapsNext]_telegramVars => CardSound'
<1> SUFFICES ASSUME CardSound, [OutboxNext \/ TapsNext]_telegramVars PROVE CardSound'
    OBVIOUS
<1>1. ASSUME NEW i \in Segments, QueueSegment(i) \/ SegmentFallsDue(i) \/ RecoverDelivery(i) PROVE CardSound'
    BY <1>1, QueueSteps
<1>2. ASSUME NEW s \in Senders, NEW i \in Segments, ClaimSegment(s, i) PROVE CardSound'
    BY <1>2, ClaimSegmentStep
<1>3. ASSUME NEW s \in Senders, BeforeTransport(s) \/ CallTelegram(s) \/ RecordSend(s) PROVE CardSound'
    BY <1>3, TransportStep, CallStep, RecordSendStep
<1>4. ASSUME NEW s \in Senders, SuspendRecipient(s) PROVE CardSound'
  <2>1. /\ sender' \in [Senders -> {Resting} \cup Sends] /\ \A t \in Senders : sender'[t] \in {sender[t], Resting}
        /\ received' = received
      BY <1>4 DEF SuspendRecipient, SenderDone, CardSound
  <2>2. CASE InvalidateQueues
      BY <2>1, <2>2, RevokedRows, DoneStep
  <2>3. CASE UNCHANGED segment
    <3>1. segment' \in [Segments -> SegmentRow] /\ \A i \in Segments : segment'[i] = segment[i]
        BY <2>3 DEF CardSound
    <3> QED BY <2>1, <3>1, DoneStep
  <2> QED BY <1>4, <2>2, <2>3 DEF SuspendRecipient
<1>5. ASSUME NEW s \in Senders, SenderDies(s) PROVE CardSound'
  <2>1. segment' \in [Segments -> SegmentRow] /\ \A i \in Segments : segment'[i] = segment[i]
      BY <1>5 DEF SenderDies, CardSound
  <2>2. /\ sender' \in [Senders -> {Resting} \cup Sends] /\ \A t \in Senders : sender'[t] \in {sender[t], Resting}
        /\ received' = received
      BY <1>5 DEF SenderDies, SenderDone, CardSound
  <2> QED BY <2>1, <2>2, DoneStep
<1>6. CASE RevokeChat
  <2>1. InvalidateQueues /\ UNCHANGED <<received, sender>>
      BY <1>6 DEF RevokeChat
  <2>2. sender' \in [Senders -> {Resting} \cup Sends] /\ \A t \in Senders : sender'[t] \in {sender[t], Resting}
      BY <2>1 DEF CardSound
  <2> QED BY <2>1, <2>2, RevokedRows, DoneStep
<1>7. CASE UNCHANGED outboxVars
    BY <1>7 DEF outboxVars, CardSound, SegmentSound, ClaimSound, Sending
<1>8. CASE TapsNext /\ ~RevokeChat
  <2>1. UNCHANGED outboxVars
      BY <1>8 DEF TapsNext, Tap, RecoverUpdate, HandlerMoves, HandleTap, FinishTap, HandlerDies, ClaimTap, PairAgain,
                  ButtonsExpire, PostMoves
  <2> QED BY <1>7, <2>1
<1>9. CASE PairAgain
    BY <1>7, <1>9 DEF PairAgain
<1>10. CASE UNCHANGED telegramVars
    BY <1>7, <1>10 DEF telegramVars, outboxVars
<1> QED BY <1>1, <1>2, <1>3, <1>4, <1>5, <1>6, <1>8, <1>9, <1>10 DEF OutboxNext, SenderMoves

\* What the outbox reports of the card is so, and its parts arrive in order,
\* whoever died, was slow, or had the chat taken away (send_one, _finish,
\* recover_stale_deliveries and _invalidate_queues in telegram/outbox.py).
THEOREM CardStaysTrue == TelegramSpec => []CardIsTrue
<1>1. CardSound => CardIsTrue
  <2> SUFFICES ASSUME CardSound PROVE CardIsTrue
      OBVIOUS
  <2>1. ReportedTruly
    <3> SUFFICES ASSUME NEW i \in Segments
                 PROVE  /\ received[i] <= 1
                        /\ segment[i].status \in {"pending", "failed"} => received[i] = 0
                        /\ segment[i].status = "sent" => received[i] = 1
        BY DEF ReportedTruly
    <3>1. SegmentSound(i)
        BY DEF CardSound
    <3> QED BY <3>1 DEF SegmentSound
  <2>2. SegmentsInOrder
    <3> SUFFICES ASSUME NEW i \in Segments, NEW j \in Segments, i < j, received[j] > 0 PROVE received[i] > 0
        BY DEF SegmentsInOrder
    <3>1. SegmentSound(i) /\ SegmentSound(j) /\ segment[j] \in SegmentRow
        BY DEF CardSound
    <3>2. segment[j].status \in {"sending", "sent", "unknown"}
        BY <3>1 DEF SegmentSound, SegmentRow
    <3>3. segment[i].status = "sent"
        BY <3>1, <3>2 DEF SegmentSound
    <3> QED BY <3>1, <3>3 DEF SegmentSound
  <2> QED BY <2>1, <2>2 DEF CardIsTrue
<1> QED BY <1>1, CardSoundInit, CardSoundStep, PTL DEF TelegramSpec

-----------------------------------------------------------------------------
(* The decision.                                                           *)

LEMMA DecisionSoundInit == TapsInit => DecisionSound
<1> SUFFICES ASSUME TapsInit PROVE DecisionSound
    OBVIOUS
<1> DEFINE Fresh == {[status |-> "none", button |-> b, since |-> "paired"] : b \in Buttons}
           TapRow == [status : {"none", "pending", "working", "processed", "failed"},
                      button : Buttons, since : {"paired", "revoked", "again"}]
<1>1. Fresh \subseteq TapRow
    OBVIOUS
<1>2. tap \in [Taps -> TapRow]
  <2>1. tap \in [Taps -> Fresh]
      BY DEF TapsInit
  <2> HIDE DEF Fresh, TapRow
  <2> QED BY <1>1, <2>1
<1>3. reviewed \in [content : Nat, status : ReviewStatuses]
    BY DEF TapsInit, Shown, ReviewStatuses
<1>4. handler \in [Handlers -> {Resting} \cup [step : {"claimed", "handled"}, tap : Taps]]
    BY DEF TapsInit
<1>5. \A b \in Buttons : taken[b] = 0
    BY DEF TapsInit
<1> QED BY <1>2, <1>3, <1>4, <1>5 DEF TapsInit, DecisionSound


TapRows == [status : {"none", "pending", "working", "processed", "failed"},
            button : Buttons, since : {"paired", "revoked", "again"}]
Handling == {Resting} \cup [step : {"claimed", "handled"}, tap : Taps]

\* A step that decides nothing.
LEMMA UndecidedStep ==
    ASSUME DecisionSound, taken' = taken, tap' \in [Taps -> TapRows], handler' \in [Handlers -> Handling],
           used \cap Buttons \subseteq used', pairing' \in {"paired", "revoked", "again"},
           \/ reviewed' = reviewed /\ postMoves' = postMoves
           \/ reviewed' \in [content : Nat, status : ReviewStatuses] /\ postMoves' = postMoves + 1
    PROVE  DecisionSound'
<1>1. /\ tap' \in [Taps -> [status : {"none", "pending", "working", "processed", "failed"},
                            button : Buttons, since : {"paired", "revoked", "again"}]]
      /\ handler' \in [Handlers -> {Resting} \cup [step : {"claimed", "handled"}, tap : Taps]]
    BY DEF TapRows, Handling
<1>2. reviewed' \in [content : Nat, status : ReviewStatuses] /\ postMoves' \in Nat /\ taken' \in [Buttons -> Nat]
    BY DEF DecisionSound
<1>3. \A b \in Buttons : taken'[b] \in {0, 1} /\ (taken'[b] # 0 => b \in used')
    BY DEF DecisionSound
<1>4. postMoves' = 0 => reviewed' = reviewed /\ postMoves = 0
    BY DEF DecisionSound
<1>5. postMoves' = 0 /\ reviewed' = Shown => \A b \in Buttons : taken'[b] = 0
    BY <1>4 DEF DecisionSound
<1>6. \A b, c \in Buttons : b # c /\ taken'[b] # 0 /\ taken'[c] # 0 => postMoves' # 0
    BY <1>4 DEF DecisionSound
<1>7. Shown' = Shown
    BY DEF Shown
<1> QED BY <1>1, <1>2, <1>3, <1>5, <1>6, <1>7 DEF DecisionSound

\* What is known of the updates and of who handles them.
LEMMA TapTypes ==
    ASSUME DecisionSound
    PROVE  /\ tap \in [Taps -> TapRows] /\ handler \in [Handlers -> Handling]
           /\ \A h \in Handlers : handler[h] # Resting => handler[h].tap \in Taps
           /\ \A u \in Taps, status \in {"pending", "working", "processed", "failed"} :
                 [tap[u] EXCEPT !.status = status] \in TapRows
<1>1. tap \in [Taps -> TapRows] /\ handler \in [Handlers -> Handling]
    BY DEF DecisionSound, TapRows, Handling
<1>2. \A h \in Handlers : handler[h] # Resting => handler[h].tap \in Taps
    BY <1>1 DEF Handling
<1>3. \A u \in Taps, status \in {"pending", "working", "processed", "failed"} :
         [tap[u] EXCEPT !.status = status] \in TapRows
    BY <1>1 DEF TapRows
<1> QED BY <1>1, <1>2, <1>3

\* handle_callback, when it decides.
LEMMA DecideStep ==
    ASSUME DecisionSound, NEW h \in Handlers, HandleTap(h), taken' # taken
    PROVE  reviewed = Shown /\ pairing = "paired" /\ DecisionSound'
<1>1. handler[h].step = "claimed" /\ handler[h] # Resting
    BY DEF HandleTap, Resting
<1>2. PICK b : b = tap[handler[h].tap].button
    OBVIOUS
<1>3. b \in Buttons
    BY <1>1, <1>2, TapTypes DEF TapRows
<1>4. /\ pairing = "paired" /\ Unused(b) /\ SameAsShown /\ tap' = tap
      /\ handler' = [handler EXCEPT ![h].step = "handled"]
      /\ reviewed' = [reviewed EXCEPT !.status = IF b = "approve" THEN "approved" ELSE "rejected"]
      /\ used' = used \cup {b} /\ taken' = [taken EXCEPT ![b] = @ + 1]
    BY <1>2 DEF HandleTap
<1>5. postMoves' = postMoves /\ pairing' = pairing
    BY DEF HandleTap
<1>6. handler' \in [Handlers -> {Resting} \cup [step : {"claimed", "handled"}, tap : Taps]]
  <2>1. handler[h] \in [step : {"claimed", "handled"}, tap : Taps]
      BY <1>1 DEF DecisionSound
  <2> QED BY <1>4, <2>1 DEF DecisionSound
<1>7. reviewed = Shown /\ reviewed' \in [content : Nat, status : ReviewStatuses] /\ reviewed' # Shown
    BY <1>4 DEF SameAsShown, Shown, ReviewStatuses
<1>8. taken[b] = 0
    BY <1>3, <1>4 DEF DecisionSound, Unused
<1>9. taken' \in [Buttons -> Nat] /\ taken'[b] = 1 /\ \A c \in Buttons \ {b} : taken'[c] = taken[c]
    BY <1>3, <1>4, <1>8 DEF DecisionSound
<1>10. \A c \in Buttons : taken'[c] \in {0, 1} /\ (taken'[c] # 0 => c \in used')
    BY <1>4, <1>9 DEF DecisionSound
<1>11. \A c, d \in Buttons : c # d /\ taken'[c] # 0 /\ taken'[d] # 0 => postMoves' # 0
  <2>1. postMoves = 0 => \A c \in Buttons : taken[c] = 0
      BY <1>7 DEF DecisionSound
  <2> QED BY <1>5, <1>9, <2>1
<1>12. Shown' = Shown
    BY DEF Shown
<1>13. DecisionSound'
    BY <1>4, <1>5, <1>6, <1>7, <1>9, <1>10, <1>11, <1>12 DEF DecisionSound
<1> QED BY <1>4, <1>7, <1>13

\* The steps of a handler that decide nothing.
LEMMA TapSteps ==
    ASSUME DecisionSound, taken' = taken, NEW u \in Taps, NEW h \in Handlers,
           ClaimTap(h, u) \/ HandleTap(h) \/ FinishTap(h) \/ HandlerDies(h)
    PROVE  DecisionSound'
<1>1. /\ tap \in [Taps -> TapRows] /\ handler \in [Handlers -> Handling] /\ pairing \in {"paired", "revoked", "again"}
      /\ \A v \in Taps, status \in {"pending", "working", "processed", "failed"} :
            [tap[v] EXCEPT !.status = status] \in TapRows
    BY TapTypes DEF DecisionSound
<1>4. pairing' = pairing
    BY DEF ClaimTap, HandleTap, FinishTap, HandlerDies
<1>2. handler[h] # Resting => handler[h].tap \in Taps
    BY TapTypes
<1>3. [handler EXCEPT ![h] = Resting] \in [Handlers -> Handling]
    BY <1>1 DEF Handling
<1>5. CASE ClaimTap(h, u)
  <2>1. tap' = [tap EXCEPT ![u] = [tap[u] EXCEPT !.status = "working"]]
      BY <1>5 DEF ClaimTap
  <2>2. tap' \in [Taps -> TapRows]
      BY <1>1, <2>1
  <2>3. handler' \in [Handlers -> Handling]
      BY <1>1, <1>5 DEF ClaimTap, Handling
  <2> QED BY <1>1, <1>5, <1>4, <2>2, <2>3, UndecidedStep DEF ClaimTap
<1>6. CASE FinishTap(h)
  <2>1. handler[h] # Resting /\ handler' \in [Handlers -> Handling]
      BY <1>3, <1>6 DEF FinishTap, Resting
  <2>2. PICK v \in Taps : v = handler[h].tap
      BY <1>2, <2>1
  <2>3. tap' \in [Taps -> TapRows]
    <3> DEFINE status == IF tap[v].status # "working" THEN tap[v].status
                         ELSE IF pairing = tap[v].since THEN "processed" ELSE "failed"
    <3>1. tap' = [tap EXCEPT ![v].status = status]
        BY <1>6, <2>2 DEF FinishTap
    <3>2. status \in {"none", "pending", "working", "processed", "failed"}
        BY <1>1 DEF TapRows
    <3> HIDE DEF status
    <3> QED BY <1>1, <3>1, <3>2 DEF TapRows
  <2> QED BY <1>1, <1>6, <1>4, <2>1, <2>3, UndecidedStep DEF FinishTap
<1>7. CASE HandlerDies(h)
    BY <1>1, <1>3, <1>7, <1>4, UndecidedStep DEF HandlerDies
<1>8. CASE HandleTap(h)
  <2>1. handler[h] # Resting
      BY <1>8 DEF HandleTap, Resting
  <2>2. PICK v \in Taps : v = handler[h].tap
      BY <1>2, <2>1
  <2>3. CASE pairing = "again" /\ tap[v].since # "again"
    <3>1. handler' = [handler EXCEPT ![h] = Resting] /\ UNCHANGED <<used, reviewed, taken, postMoves>>
        BY <1>8, <2>2, <2>3 DEF HandleTap
    <3>3. tap' \in [Taps -> TapRows]
      <4> DEFINE status == IF tap[v].status = "working" THEN "failed" ELSE tap[v].status
      <4>1. tap' = [tap EXCEPT ![v].status = status]
          BY <1>8, <2>2, <2>3 DEF HandleTap
      <4>2. status \in {"none", "pending", "working", "processed", "failed"}
          BY <1>1 DEF TapRows
      <4> HIDE DEF status
      <4> QED BY <1>1, <4>1, <4>2 DEF TapRows
    <3> QED BY <1>1, <1>3, <1>4, <3>1, <3>3, UndecidedStep
  <2>4. CASE ~(pairing = "again" /\ tap[v].since # "again")
    <3>1. handler' = [handler EXCEPT ![h].step = "handled"] /\ tap' = tap /\ postMoves' = postMoves
        BY <1>8, <2>2, <2>4 DEF HandleTap
    <3>2. UNCHANGED <<used, reviewed>>
      <4> SUFFICES ASSUME taken' = [taken EXCEPT ![tap[v].button] = @ + 1] PROVE FALSE
          BY <1>8, <2>2, <2>4 DEF HandleTap
      <4>1. tap[v].button \in Buttons
          BY <1>1 DEF TapRows
      <4>2. taken'[tap[v].button] = taken[tap[v].button] + 1 /\ taken[tap[v].button] \in Nat
          BY <4>1 DEF DecisionSound
      <4> QED BY <4>2
    <3>3. handler' \in [Handlers -> Handling]
        BY <1>1, <2>1, <3>1 DEF Handling
    <3> QED BY <1>1, <1>4, <3>1, <3>2, <3>3, UndecidedStep
  <2> QED BY <2>3, <2>4
<1> QED BY <1>5, <1>6, <1>7, <1>8

\* The steps that handle no update.
LEMMA OtherSteps ==
    ASSUME DecisionSound,
           \/ UNCHANGED <<tapVars, postMoves>> /\ pairing' \in {pairing, "again"}
           \/ InvalidateQueues /\ UNCHANGED <<handler, reviewed, taken, postMoves>>
           \/ PostMoves
    PROVE  DecisionSound'
<1>1. /\ tap \in [Taps -> TapRows] /\ handler \in [Handlers -> Handling] /\ pairing \in {"paired", "revoked", "again"}
      /\ \A v \in Taps, status \in {"pending", "working", "processed", "failed"} :
            [tap[v] EXCEPT !.status = status] \in TapRows
    BY TapTypes DEF DecisionSound
<1>2. CASE UNCHANGED <<tapVars, postMoves>> /\ pairing' \in {pairing, "again"}
  <2>1. UNCHANGED <<tap, handler, used, reviewed, taken, postMoves>> /\ pairing' \in {"paired", "revoked", "again"}
      BY <1>1, <1>2 DEF tapVars
  <2> QED BY <1>1, <2>1, UndecidedStep
<1>3. CASE InvalidateQueues /\ UNCHANGED <<handler, reviewed, taken, postMoves>>
  <2>1. tap' \in [Taps -> TapRows]
    <3>1. \A u \in Taps : (IF tap[u].status \in {"pending", "working"}
                           THEN [tap[u] EXCEPT !.status = "failed"] ELSE tap[u]) \in TapRows
        BY <1>1
    <3> QED BY <1>3, <3>1 DEF InvalidateQueues
  <2>2. used' = Buttons /\ pairing' = "revoked"
      BY <1>3 DEF InvalidateQueues
  <2> QED BY <1>1, <1>3, <2>1, <2>2, UndecidedStep
<1>4. CASE PostMoves
  <2>1. reviewed \in [content : Nat, status : ReviewStatuses]
      BY DEF DecisionSound
  <2>2. reviewed' \in [content : Nat, status : ReviewStatuses]
    <3>1. CASE reviewed' = [content |-> reviewed.content + 1, status |-> "pending_review"]
        BY <2>1, <3>1 DEF ReviewStatuses
    <3>2. CASE \E status \in {"pending_review", "approved", "rejected"} \ {reviewed.status} :
                  reviewed' = [reviewed EXCEPT !.status = status]
        BY <2>1, <3>2 DEF ReviewStatuses
    <3> QED BY <1>4, <3>1, <3>2 DEF PostMoves
  <2>3. UNCHANGED <<tap, handler, used, taken, pairing>> /\ postMoves' = postMoves + 1
      BY <1>4 DEF PostMoves
  <2> QED BY <1>1, <2>2, <2>3, UndecidedStep
<1> QED BY <1>2, <1>3, <1>4

LEMMA DecisionSoundStep ==
    DecisionSound /\ [OutboxNext \/ TapsNext]_telegramVars
        => DecisionSound' /\ (taken' # taken => reviewed = Shown /\ pairing = "paired")
<1> SUFFICES ASSUME DecisionSound, [OutboxNext \/ TapsNext]_telegramVars
             PROVE  DecisionSound' /\ (taken' # taken => reviewed = Shown /\ pairing = "paired")
    OBVIOUS
<1>1. ASSUME NEW h \in Handlers, HandleTap(h), taken' # taken
      PROVE  DecisionSound' /\ reviewed = Shown /\ pairing = "paired"
    BY <1>1, DecideStep
<1>2. ASSUME NEW h \in Handlers, HandleTap(h) \/ FinishTap(h) \/ HandlerDies(h), taken' = taken
      PROVE  DecisionSound'
  <2>1. \A u \in Taps : DecisionSound'
      BY <1>2, TapSteps
  <2>2. handler[h] # Resting
      BY <1>2 DEF HandleTap, FinishTap, HandlerDies, Resting
  <2> QED BY <2>1, <2>2, TapTypes
<1>3. ASSUME NEW h \in Handlers, FinishTap(h) \/ HandlerDies(h) PROVE taken' = taken
    BY <1>3 DEF FinishTap, HandlerDies
<1>4. ASSUME NEW u \in Taps, Tap(u) \/ RecoverUpdate(u) PROVE DecisionSound' /\ taken' = taken
  <2>1. taken' = taken
      BY <1>4 DEF Tap, RecoverUpdate
  <2>2. UNCHANGED <<handler, used, reviewed, postMoves, pairing>>
      BY <1>4 DEF Tap, RecoverUpdate
  <2>3. /\ tap \in [Taps -> TapRows] /\ handler \in [Handlers -> Handling] /\ pairing \in {"paired", "revoked", "again"}
        /\ [tap[u] EXCEPT !.status = "failed"] \in TapRows
      BY TapTypes DEF DecisionSound
  <2>4. [tap[u] EXCEPT !.status = "pending", !.since = pairing] \in TapRows
      BY <2>3 DEF TapRows
  <2>5. tap' \in [Taps -> TapRows]
    <3>1. CASE Tap(u)
        BY <2>3, <2>4, <3>1 DEF Tap
    <3>2. CASE RecoverUpdate(u)
        BY <2>3, <3>2 DEF RecoverUpdate
    <3> QED BY <1>4, <3>1, <3>2
  <2> QED BY <2>1, <2>2, <2>3, <2>5, UndecidedStep
<1>5. ASSUME NEW h \in Handlers, NEW u \in Taps, ClaimTap(h, u) PROVE DecisionSound' /\ taken' = taken
  <2>1. taken' = taken
      BY <1>5 DEF ClaimTap
  <2> QED BY <1>5, <2>1, TapSteps
<1>6. CASE RevokeChat \/ \E s \in Senders : SuspendRecipient(s)
  <2>1. UNCHANGED <<handler, reviewed, taken, postMoves>>
      BY <1>6 DEF RevokeChat, SuspendRecipient
  <2>2. CASE InvalidateQueues
      BY <2>1, <2>2, OtherSteps
  <2>3. CASE UNCHANGED <<tap, used, pairing>>
      BY <2>1, <2>3, OtherSteps DEF tapVars
  <2> QED BY <1>6, <2>1, <2>2, <2>3 DEF RevokeChat, SuspendRecipient
<1>7. CASE PairAgain \/ ButtonsExpire \/ UNCHANGED telegramVars
  <2>1. UNCHANGED <<tapVars, postMoves>> /\ pairing' \in {pairing, "again"} /\ taken' = taken
      BY <1>7 DEF PairAgain, ButtonsExpire, telegramVars, tapVars
  <2> QED BY <2>1, OtherSteps
<1>8. CASE PostMoves
  <2>1. taken' = taken
      BY <1>8 DEF PostMoves
  <2> QED BY <1>8, <2>1, OtherSteps
<1>9. CASE \/ \E i \in Segments : QueueSegment(i) \/ SegmentFallsDue(i) \/ RecoverDelivery(i)
           \/ \E s \in Senders : \/ BeforeTransport(s) \/ CallTelegram(s) \/ RecordSend(s) \/ SenderDies(s)
                                 \/ \E i \in Segments : ClaimSegment(s, i)
  <2>1. UNCHANGED <<tapVars, postMoves, pairing>>
      BY <1>9 DEF QueueSegment, SegmentFallsDue, RecoverDelivery, BeforeTransport, CallTelegram, RecordSend,
                  SenderDies, ClaimSegment
  <2> QED BY <2>1, OtherSteps DEF tapVars
<1>10. CASE OutboxNext
    BY <1>6, <1>7, <1>9, <1>10 DEF OutboxNext, SenderMoves
<1>11. CASE TapsNext
    BY <1>1, <1>2, <1>3, <1>4, <1>5, <1>6, <1>7, <1>8, <1>11 DEF TapsNext, HandlerMoves
<1> QED BY <1>7, <1>10, <1>11

\* A button decides once, and a decision is on what the card showed, in a chat
\* that is still the one it was sent to (handle_callback in telegram/actions.py).
THEOREM DecidedExactly == TelegramSpec => ExactDecision
<1>1. DecisionSound => OneDecision
    BY DEF DecisionSound, OneDecision
<1>2. DecisionSound /\ [OutboxNext \/ TapsNext]_telegramVars
        => [taken' # taken => reviewed = Shown /\ pairing = "paired"]_telegramVars
    BY DecisionSoundStep
<1> QED BY <1>1, <1>2, DecisionSoundInit, DecisionSoundStep, PTL DEF TelegramSpec, ExactDecision

-----------------------------------------------------------------------------
(* Types.                                                                  *)

SendsBounded ==
    /\ \A i \in Segments : segment[i].attempts <= SendAttempts
    /\ \A s \in Senders : sender[s] # Resting => sender[s].attempt \in 1..SendAttempts

PostBounded ==
    /\ used \subseteq Buttons /\ expired \in BOOLEAN
    /\ reviewed.content <= postMoves /\ postMoves <= MaxPostMoves
    /\ telegramDeaths \in 0..MaxTelegramDeaths

LEMMA ReviewBoundedStart == (OutboxInit \/ CardArrived) /\ TapsInit => SendsBounded /\ PostBounded
<1>. SUFFICES ASSUME OutboxInit \/ CardArrived, TapsInit PROVE SendsBounded /\ PostBounded OBVIOUS
<1>1. 0 <= SendAttempts /\ 1 <= SendAttempts /\ 0 <= MaxPostMoves /\ 0 \in 0..MaxTelegramDeaths BY TelegramAssumption
<1>2. \A i \in Segments : segment[i].attempts \in {0, 1} BY DEF OutboxInit, CardArrived
<1>3. \A s \in Senders : sender[s] = Resting BY DEF OutboxInit, CardArrived
<1>4. PostBounded
  <2>1. used \subseteq Buttons /\ expired \in BOOLEAN BY DEF TapsInit
  <2>2. reviewed.content = 0 /\ postMoves = 0 /\ telegramDeaths = 0 BY DEF TapsInit, Shown
  <2>. QED BY <1>1, <2>1, <2>2 DEF PostBounded
<1>. QED BY <1>1, <1>2, <1>3, <1>4 DEF SendsBounded

\* A step that begins no attempt.
LEMMA NoNewSend ==
    ASSUME SendsBounded, \A i \in Segments : segment'[i].attempts = segment[i].attempts,
           \A s \in Senders : sender'[s] # Resting => sender[s] # Resting /\ sender'[s].attempt = sender[s].attempt
    PROVE  SendsBounded'
<1>1. Resting' = Resting BY DEF Resting
<1>. QED BY <1>1 DEF SendsBounded

\* One that changes the status of a segment, and lets at most one sender go on.
LEMMA SenderGoesOn ==
    ASSUME CardSound, SendsBounded, NEW s \in Senders,
           \/ segment' = segment
           \/ \E status \in {"failed", "sent", "unknown", "pending"} : segment' = [segment EXCEPT ![sender[s].row].status = status]
           \/ segment' = [segment EXCEPT ![sender[s].row] = [segment[sender[s].row] EXCEPT !.status = "pending", !.due = FALSE]],
           sender[s] # Resting, NEW now, sender' = [sender EXCEPT ![s] = now],
           now = Resting \/ now.attempt = sender[s].attempt
    PROVE  SendsBounded'
<1>1. segment \in [Segments -> SegmentRow] /\ sender \in [Senders -> {Resting} \cup Sends] BY DEF CardSound
<1>2. \A i \in Segments : segment'[i].attempts = segment[i].attempts
  <2>1. \A i \in Segments : segment[i] \in SegmentRow BY <1>1
  <2>2. CASE \E status \in {"failed", "sent", "unknown", "pending"} : segment' = [segment EXCEPT ![sender[s].row].status = status]
    BY <1>1, <2>1, <2>2 DEF SegmentRow
  <2>3. CASE segment' = [segment EXCEPT ![sender[s].row] = [segment[sender[s].row] EXCEPT !.status = "pending", !.due = FALSE]]
    <3>. DEFINE line == [segment[sender[s].row] EXCEPT !.status = "pending", !.due = FALSE]
    <3>1. sender[s].row \in Segments => line.attempts = segment[sender[s].row].attempts BY <2>1 DEF SegmentRow
    <3>2. segment' = [segment EXCEPT ![sender[s].row] = line] BY <2>3
    <3>. HIDE DEF line
    <3>. QED BY <1>1, <3>1, <3>2
  <2>. QED BY <2>2, <2>3
<1>3. \A k \in Senders : sender'[k] = IF k = s THEN now ELSE sender[k] BY <1>1
<1>. QED BY <1>2, <1>3, NoNewSend

LEMMA SendsBoundedStep == CardSound /\ SendsBounded /\ [OutboxNext \/ TapsNext]_telegramVars => SendsBounded'
<1>. SUFFICES ASSUME CardSound, SendsBounded, [OutboxNext \/ TapsNext]_telegramVars PROVE SendsBounded' OBVIOUS
<1>1. segment \in [Segments -> SegmentRow] /\ sender \in [Senders -> {Resting} \cup Sends] /\ SendAttempts \in Nat
  BY TelegramAssumption DEF CardSound
<1>2. ASSUME NEW i \in Segments, QueueSegment(i) \/ SegmentFallsDue(i) \/ RecoverDelivery(i) PROVE SendsBounded'
  <2>1. sender' = sender BY <1>2 DEF QueueSegment, SegmentFallsDue, RecoverDelivery
  <2>2. \A k \in Segments : segment'[k].attempts = segment[k].attempts
    BY <1>1, <1>2 DEF QueueSegment, SegmentFallsDue, RecoverDelivery, SegmentRow
  <2>. QED BY <2>1, <2>2, NoNewSend
<1>3. ASSUME NEW s \in Senders, NEW i \in Segments, ClaimSegment(s, i) PROVE SendsBounded'
  <2>1. CASE PriorLost(i) \/ segment[i].attempts >= SendAttempts
    <3>1. sender' = sender /\ segment' = [segment EXCEPT ![i].status = "failed"] BY <1>3, <2>1 DEF ClaimSegment
    <3>2. \A k \in Segments : segment'[k].attempts = segment[k].attempts BY <1>1, <3>1 DEF SegmentRow
    <3>. QED BY <3>1, <3>2, NoNewSend
  <2>2. CASE ~(PriorLost(i) \/ segment[i].attempts >= SendAttempts)
    <3>. DEFINE n == segment[i].attempts + 1
                line == [segment[i] EXCEPT !.status = "sending", !.attempts = n]
                now == [step |-> "claimed", row |-> i, attempt |-> n, answer |-> "none"]
    <3>1. n \in 1..SendAttempts BY <1>1, <2>2 DEF SegmentRow
    <3>2. segment' = [segment EXCEPT ![i] = line] /\ sender' = [sender EXCEPT ![s] = now] BY <1>3, <2>2 DEF ClaimSegment
    <3>3. line.attempts = n /\ now.attempt = n BY <1>1 DEF SegmentRow
    <3>4. n <= SendAttempts BY <1>1, <3>1
    <3>. HIDE DEF n, line, now
    <3>5. \A k \in Segments : segment'[k] = IF k = i THEN line ELSE segment[k] BY <1>1, <3>2
    <3>6. \A k \in Senders : sender'[k] = IF k = s THEN now ELSE sender[k] BY <1>1, <3>2
    <3>7. Resting' = Resting BY DEF Resting
    <3>. QED BY <3>1, <3>3, <3>4, <3>5, <3>6, <3>7 DEF SendsBounded
  <2>. QED BY <2>1, <2>2
<1>4. ASSUME NEW s \in Senders, BeforeTransport(s) \/ CallTelegram(s) \/ RecordSend(s) PROVE SendsBounded'
  <2>1. sender[s] # Resting BY <1>4 DEF BeforeTransport, CallTelegram, RecordSend, Resting
  <2>2. sender[s] \in Sends BY <1>1, <2>1
  <2>3. CASE BeforeTransport(s)
    <3>1. CASE sender' = [sender EXCEPT ![s].step = "calling"] /\ segment' = segment
      <4>. DEFINE now == [sender[s] EXCEPT !.step = "calling"]
      <4>1. sender' = [sender EXCEPT ![s] = now] BY <3>1
      <4>2. now.attempt = sender[s].attempt BY <2>2 DEF Sends
      <4>. HIDE DEF now
      <4>. QED BY <2>1, <3>1, <4>1, <4>2, SenderGoesOn
    <3>2. CASE segment' = Finished(s, "failed") /\ SenderDone(s)
      BY <2>1, <3>2, SenderGoesOn DEF Finished, SenderDone
    <3>. QED BY <2>3, <3>1, <3>2 DEF BeforeTransport
  <2>4. CASE CallTelegram(s)
    <3>1. PICK answer : sender' = [sender EXCEPT ![s] = [sender[s] EXCEPT !.step = "answered", !.answer = answer]]
      BY <2>4 DEF CallTelegram
    <3>. DEFINE now == [sender[s] EXCEPT !.step = "answered", !.answer = answer]
    <3>2. sender' = [sender EXCEPT ![s] = now] /\ segment' = segment BY <2>4, <3>1 DEF CallTelegram
    <3>3. now.attempt = sender[s].attempt BY <2>2 DEF Sends
    <3>. HIDE DEF now
    <3>. QED BY <2>1, <3>2, <3>3, SenderGoesOn
  <2>5. CASE RecordSend(s)
    <3>1. PICK now : sender' = [sender EXCEPT ![s] = now] /\ (now = Resting \/ now.attempt = sender[s].attempt)
      <4>1. CASE sender[s].answer = "forbidden"
        <5>1. sender' = [sender EXCEPT ![s] = [sender[s] EXCEPT !.step = "suspending"]] BY <2>5, <4>1 DEF RecordSend
        <5>2. [sender[s] EXCEPT !.step = "suspending"].attempt = sender[s].attempt BY <2>2 DEF Sends
        <5>. QED BY <5>1, <5>2
      <4>2. CASE sender[s].answer # "forbidden" BY <2>5, <4>2 DEF RecordSend, SenderDone
      <4>. QED BY <4>1, <4>2
    <3>2. \/ segment' = segment
          \/ \E status \in {"failed", "sent", "unknown", "pending"} : segment' = [segment EXCEPT ![sender[s].row].status = status]
          \/ segment' = [segment EXCEPT ![sender[s].row] = [segment[sender[s].row] EXCEPT !.status = "pending", !.due = FALSE]]
      <4>1. Outcome(sender[s].answer) \in {"sent", "unknown", "failed"} BY DEF Outcome
      <4>. QED BY <2>5, <4>1 DEF RecordSend, Finished
    <3>. QED BY <2>1, <3>1, <3>2, SenderGoesOn
  <2>. QED BY <1>4, <2>3, <2>4, <2>5
<1>5. ASSUME InvalidateQueues \/ segment' = segment, sender' = sender \/ \E s \in Senders : SenderDone(s) PROVE SendsBounded'
  <2>1. \A i \in Segments : segment'[i].attempts = segment[i].attempts BY <1>5, RevokedRows
  <2>2. \A k \in Senders : sender'[k] \in {sender[k], Resting} BY <1>1, <1>5 DEF SenderDone
  <2>. QED BY <2>1, <2>2, NoNewSend
<1>6. ASSUME NEW s \in Senders, SuspendRecipient(s) \/ SenderDies(s) PROVE SendsBounded'
  BY <1>5, <1>6 DEF SuspendRecipient, SenderDies
<1>7. CASE RevokeChat BY <1>5, <1>7 DEF RevokeChat
<1>8. CASE PairAgain BY <1>5, <1>8 DEF PairAgain, outboxVars
<1>9. CASE TapsNext /\ ~RevokeChat
  <2>1. UNCHANGED outboxVars
    BY <1>9, Zenon DEF TapsNext, Tap, RecoverUpdate, HandlerMoves, HandleTap, FinishTap, HandlerDies, ClaimTap, PairAgain, ButtonsExpire, PostMoves
  <2>. QED BY <1>5, <2>1 DEF outboxVars
<1>10. CASE UNCHANGED telegramVars BY <1>5, <1>10 DEF telegramVars
<1>11. CASE OutboxNext BY <1>2, <1>3, <1>4, <1>6, <1>7, <1>8, <1>11, Zenon DEF OutboxNext, SenderMoves
<1>. QED BY <1>7, <1>9, <1>10, <1>11

\* A step that leaves the post and the deaths alone.
LEMMA NothingBounded ==
    ASSUME PostBounded, used' \subseteq Buttons, expired' \in BOOLEAN, reviewed'.content = reviewed.content,
           postMoves' = postMoves, telegramDeaths' \in 0..MaxTelegramDeaths
    PROVE  PostBounded'
BY DEF PostBounded

LEMMA PostBoundedStep == DecisionSound /\ PostBounded /\ [OutboxNext \/ TapsNext]_telegramVars => PostBounded'
<1>. SUFFICES ASSUME DecisionSound, PostBounded, [OutboxNext \/ TapsNext]_telegramVars PROVE PostBounded' OBVIOUS
<1>1. /\ used \subseteq Buttons /\ expired \in BOOLEAN /\ telegramDeaths \in 0..MaxTelegramDeaths
      /\ reviewed \in [content : Nat, status : ReviewStatuses] /\ postMoves \in Nat
      /\ MaxPostMoves \in Nat /\ MaxTelegramDeaths \in Nat
  BY TelegramAssumption DEF PostBounded, DecisionSound
<1>2. CASE UNCHANGED <<tapVars, expired, postMoves, telegramDeaths>>
  BY <1>1, <1>2, NothingBounded DEF tapVars
<1>3. Die => telegramDeaths' \in 0..MaxTelegramDeaths BY <1>1 DEF Die
<1>4. ASSUME NEW s \in Senders, SenderDies(s) PROVE PostBounded'
  BY <1>1, <1>3, <1>4, NothingBounded DEF SenderDies, tapVars
<1>5. ASSUME NEW h \in Handlers, HandlerDies(h) PROVE PostBounded'
  BY <1>1, <1>3, <1>5, NothingBounded DEF HandlerDies
<1>6. CASE ButtonsExpire BY <1>1, <1>6, NothingBounded DEF ButtonsExpire, tapVars
<1>7. CASE RevokeChat \/ \E s \in Senders : SuspendRecipient(s)
  <2>1. used' = Buttons \/ used' = used BY <1>7 DEF RevokeChat, SuspendRecipient, InvalidateQueues
  <2>2. UNCHANGED <<reviewed, expired, postMoves, telegramDeaths>> BY <1>7 DEF RevokeChat, SuspendRecipient
  <2>. QED BY <1>1, <2>1, <2>2, NothingBounded
<1>8. CASE PostMoves
  <2>1. postMoves' = postMoves + 1 /\ postMoves' <= MaxPostMoves /\ UNCHANGED <<used, expired, telegramDeaths>>
    BY <1>1, <1>8 DEF PostMoves
  <2>2. reviewed'.content \in {reviewed.content, reviewed.content + 1} BY <1>1, <1>8 DEF PostMoves
  <2>. QED BY <1>1, <2>1, <2>2 DEF PostBounded
<1>9. ASSUME NEW h \in Handlers, HandlerMoves(h) PROVE PostBounded'
  <2>1. UNCHANGED <<expired, postMoves, telegramDeaths>> BY <1>9, Zenon DEF HandlerMoves, HandleTap, FinishTap
  <2>2. CASE UNCHANGED <<used, reviewed>> BY <1>1, <2>1, <2>2, NothingBounded
  <2>3. CASE ~UNCHANGED <<used, reviewed>>
    <3>1. PICK b : b = tap[handler[h].tap].button OBVIOUS
    <3>2. HandleTap(h) BY <1>9, <2>3 DEF HandlerMoves, FinishTap
    <3>3. \E status : reviewed' = [reviewed EXCEPT !.status = status] /\ used' = used \cup {b}
      BY <2>3, <3>1, <3>2 DEF HandleTap
    <3>4. b \in Buttons
      <4>1. handler[h] # Resting BY <3>2 DEF HandleTap, Resting
      <4>. QED BY <3>1, <4>1, TapTypes DEF TapRows
    <3>5. reviewed'.content = reviewed.content BY <1>1, <3>3
    <3>. QED BY <1>1, <2>1, <3>3, <3>4, <3>5, NothingBounded
  <2>. QED BY <2>2, <2>3
<1>10. CASE \/ \E i \in Segments : QueueSegment(i) \/ SegmentFallsDue(i) \/ RecoverDelivery(i)
            \/ \E s \in Senders : \/ BeforeTransport(s) \/ CallTelegram(s) \/ RecordSend(s)
                                  \/ \E i \in Segments : ClaimSegment(s, i)
            \/ PairAgain
            \/ UNCHANGED telegramVars
  <2>1. UNCHANGED <<tapVars, expired, postMoves, telegramDeaths>>
    BY <1>10 DEF QueueSegment, SegmentFallsDue, RecoverDelivery, BeforeTransport, CallTelegram, RecordSend,
                 ClaimSegment, PairAgain, telegramVars, tapVars
  <2>. QED BY <1>2, <2>1
<1>11. ASSUME NEW u \in Taps, Tap(u) \/ RecoverUpdate(u) \/ \E h \in Handlers : ClaimTap(h, u) PROVE PostBounded'
  <2>1. UNCHANGED <<used, reviewed, expired, postMoves, telegramDeaths>> BY <1>11 DEF Tap, RecoverUpdate, ClaimTap
  <2>. QED BY <1>1, <2>1, NothingBounded
<1>12. CASE OutboxNext BY <1>4, <1>7, <1>10, <1>12, Zenon DEF OutboxNext, SenderMoves
<1>13. CASE TapsNext BY <1>5, <1>6, <1>7, <1>8, <1>9, <1>10, <1>11, <1>13, Zenon DEF TapsNext
<1>. QED BY <1>10, <1>12, <1>13

LEMMA ReviewTypesFollow == CardSound /\ DecisionSound /\ SendsBounded /\ PostBounded => TelegramTypeOK
<1>. SUFFICES ASSUME CardSound, DecisionSound, SendsBounded, PostBounded PROVE TelegramTypeOK OBVIOUS
<1>1. SendAttempts \in Nat /\ MaxPostMoves \in Nat BY TelegramAssumption
<1>2. segment \in [Segments -> [status : {"none", "pending", "sending", "sent", "failed", "unknown"},
                                attempts : 0..SendAttempts, due : BOOLEAN]]
  BY <1>1 DEF CardSound, SendsBounded, SegmentRow
<1>3. ASSUME NEW s \in Senders, sender[s] # Resting
      PROVE  /\ sender[s].step \in {"claimed", "calling", "answered", "suspending"}
             /\ sender[s].row \in Segments /\ sender[s].attempt \in 1..SendAttempts
             /\ sender[s].answer \in {"none", "accepted", "ambiguous", "forbidden", "limited", "rejected"}
  <2>1. sender[s] \in Sends BY <1>3 DEF CardSound
  <2>. QED BY <1>3, <2>1 DEF Sends, SendsBounded
<1>4. \A h \in Handlers : handler[h] = Resting \/ (handler[h].step \in {"claimed", "handled"} /\ handler[h].tap \in Taps)
  BY DEF DecisionSound
<1>5. reviewed \in [content : 0..MaxPostMoves, status : {"pending_review", "approved", "rejected"}] /\ postMoves \in 0..MaxPostMoves
  BY <1>1 DEF DecisionSound, PostBounded, ReviewStatuses
<1>6. /\ received \in [Segments -> Nat] /\ used \subseteq Buttons /\ expired \in BOOLEAN
      /\ telegramDeaths \in 0..MaxTelegramDeaths /\ taken \in [Buttons -> Nat] /\ pairing \in {"paired", "revoked", "again"}
      /\ tap \in [Taps -> [status : {"none", "pending", "working", "processed", "failed"},
                           button : Buttons, since : {"paired", "revoked", "again"}]]
  BY DEF CardSound, DecisionSound, PostBounded
<1>. QED BY <1>2, <1>3, <1>4, <1>5, <1>6 DEF TelegramTypeOK

\* Every reachable state of the services, whichever of them runs, has the type
\* that its module gives it, with every counter within its bound: attempts and
\* retries (the limits of the tasks and sweeps hold although they run at once),
\* version numbers, faults.
THEOREM ServicesTyped == Spec => []TypesOK
<1>1. TelegramSpec => []TelegramTypeOK
  BY CardSoundInit, CardSoundStep, DecisionSoundInit, DecisionSoundStep, ReviewBoundedStart, SendsBoundedStep,
     PostBoundedStep, ReviewTypesFollow, PTL DEF TelegramSpec
<1>2. /\ FirstCommentTypeOK /\ EmailDigestTypeOK /\ BlogTypeOK /\ TelegramTypeOK
      /\ PostingQueueTypeOK /\ RecurrenceTypeOK /\ RemindersTypeOK /\ InboxTypeOK /\ RecurringTypeOK
      /\ ApiTypeOK /\ TokensTypeOK /\ MediaTypeOK
      => TypesOK
  BY DEF TypesOK
<1>. QED BY <1>1, <1>2, ServicesApart, ReviewApart, CommentTypes, MailTypes, BlogTypes, SeriesTypes, ReminderTypes,
            ScheduleTypes, GrantTypes, FileTypes, QueueTypes, ThreadTypes, KeyTypesKept, PTL
===============================================================================
