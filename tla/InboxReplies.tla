---------------------------- MODULE InboxReplies ----------------------------
(***************************************************************************)
(* A reply to a customer (inbox/services.py).  The row is a draft, is sent *)
(* once and is then permanent; the platform cannot be asked what it took.  *)
(* Editing, discarding and sending each lock the row and look at it again; *)
(* a send keeps the lock while the platform answers.  The composer's send  *)
(* also removes the row of a reply that was refused.                       *)
(***************************************************************************)
EXTENDS Naturals, Sequences, FiniteSets, Functions

CONSTANTS
    Agents,          \* requests of the web, the API or the MCP server about one reply
    Texts,           \* bodies
    MaxReplyFaults,  \* bound: lost answers, deaths and failed records
    MaxReplyActs     \* bound: requests

ASSUME InboxAssumption == {MaxReplyFaults, MaxReplyActs} \subseteq Nat

VARIABLES
    reply,        \* the InboxReply: its status, "gone" once deleted, and body
    customerGot,  \* the bodies of the replies the customer got, in their order
    agent,        \* agent[a]: the request's operation, where it is, what it loaded
    untold,       \* replies the customer got whose success was never recorded
    replyFaults,
    replyActs

inboxVars == <<reply, customerGot, agent, untold, replyFaults, replyActs>>

NoAct == [act |-> "none", step |-> "idle", saw |-> "gone", body |-> "none"]
Acts == {"send", "compose", "edit", "discard"}
Steps == {"idle", "loaded", "sending", "accepted", "refused", "cleaning"}
ReplyStatuses == {"draft", "failed", "sent", "gone"}

InboxTypeOK ==
    /\ reply \in [status : ReplyStatuses, body : Texts]
    /\ customerGot \in Seq(Texts)
    /\ \A a \in Agents : /\ agent[a].act \in Acts \cup {"none"} /\ agent[a].step \in Steps
                         /\ agent[a].saw \in ReplyStatuses /\ agent[a].body \in Texts \cup {"none"}
    /\ untold \in Nat /\ replyFaults \in 0..MaxReplyFaults /\ replyActs \in 0..MaxReplyActs

\* A draft that somebody, or a studio job, has written; and the composer's
\* reply, a row that is created with the request that sends it.
InboxInit ==
    /\ reply \in [status : {"draft"}, body : Texts]
    /\ customerGot = << >>
    /\ agent \in [Agents -> {NoAct}] \cup
                 {[a \in Agents |-> IF a = c THEN [NoAct EXCEPT !.act = "compose", !.step = "loaded", !.saw = "draft"]
                                    ELSE NoAct] : c \in Agents}
    /\ untold = 0 /\ replyFaults = 0 /\ replyActs = 0

-----------------------------------------------------------------------------
Sendable == {"draft", "failed"}

\* The row is locked from the look at its status to the record of the outcome.
RowLocked == \E a \in Agents : agent[a].step \in {"sending", "accepted", "refused"}

\* The view loads the reply, and answers 404 for one that is gone.
LoadReply(a) ==
    /\ agent[a].step = "idle" /\ reply.status # "gone"
    /\ replyActs < MaxReplyActs /\ replyActs' = replyActs + 1
    /\ \E act \in Acts \ {"compose"}, b \in Texts :
          agent' = [agent EXCEPT ![a] = [act |-> act, step |-> "loaded", saw |-> reply.status, body |-> b]]
    /\ UNCHANGED <<reply, customerGot, untold, replyFaults>>

\* (Mutant of StatusSeen: the status the view loaded, not refreshed.)
StatusLoaded(a) == agent[a].saw

\* _lock_reply: the row as it is under the lock.
StatusSeen(a) == reply.status

\* update_reply_draft, discard_reply_draft, the first half of send_reply_now.
LockReply(a) ==
    /\ agent[a].step = "loaded" /\ ~RowLocked
    /\ IF reply.status # "gone" /\ StatusSeen(a) \in Sendable
       THEN CASE agent[a].act = "edit" ->
                     /\ reply' = [reply EXCEPT !.body = agent[a].body]
                     /\ agent' = [agent EXCEPT ![a] = NoAct]
              [] agent[a].act = "discard" ->
                     /\ reply' = [reply EXCEPT !.status = "gone"]
                     /\ agent' = [agent EXCEPT ![a] = NoAct]
              [] OTHER ->
                     /\ agent' = [agent EXCEPT ![a].step = "sending", ![a].body = reply.body]
                     /\ UNCHANGED reply
       ELSE /\ agent' = [agent EXCEPT ![a] = IF @.act = "compose" THEN [@ EXCEPT !.step = "cleaning"] ELSE NoAct]
            /\ UNCHANGED reply
    /\ UNCHANGED <<customerGot, untold, replyFaults, replyActs>>

\* _dispatch_to_platform: taken, refused, or taken with the answer lost.
DispatchReply(a) ==
    /\ agent[a].step = "sending"
    /\ \/ /\ agent' = [agent EXCEPT ![a].step = "accepted"]
          /\ customerGot' = Append(customerGot, agent[a].body)
          /\ UNCHANGED <<untold, replyFaults>>
       \/ /\ agent' = [agent EXCEPT ![a].step = "refused"]
          /\ UNCHANGED <<customerGot, untold, replyFaults>>
       \/ /\ replyFaults < MaxReplyFaults /\ replyFaults' = replyFaults + 1 /\ untold' = untold + 1
          /\ agent' = [agent EXCEPT ![a].step = "refused"]
          /\ customerGot' = Append(customerGot, agent[a].body)
    /\ UNCHANGED <<reply, replyActs>>

\* The rest of send_reply_now, and the commit that lets the row go.
RecordReply(a) ==
    /\ agent[a].step \in {"accepted", "refused"}
    /\ reply' = [reply EXCEPT !.status = IF agent[a].step = "accepted" THEN "sent" ELSE "failed"]
    /\ agent' = [agent EXCEPT ![a] = IF @.act = "compose" /\ @.step = "refused"
                                     THEN [@ EXCEPT !.step = "cleaning"] ELSE NoAct]
    /\ UNCHANGED <<customerGot, untold, replyFaults, replyActs>>

\* The process dies, or the record fails: the transaction is rolled back.
SendDies(a) ==
    /\ agent[a].step \in {"sending", "accepted", "refused"}
    /\ replyFaults < MaxReplyFaults /\ replyFaults' = replyFaults + 1
    /\ untold' = IF agent[a].step = "accepted" THEN untold + 1 ELSE untold
    /\ agent' = [agent EXCEPT ![a] = NoAct]
    /\ UNCHANGED <<reply, customerGot, replyActs>>

Removable == reply.status = "failed"

\* send_reply's last step, in a statement of its own: the failed row goes.
CleanUp(a) ==
    /\ agent[a].step = "cleaning" /\ ~RowLocked
    /\ reply' = IF Removable THEN [reply EXCEPT !.status = "gone"] ELSE reply
    /\ agent' = [agent EXCEPT ![a] = NoAct]
    /\ UNCHANGED <<customerGot, untold, replyFaults, replyActs>>

InboxNext ==
    \E a \in Agents : \/ LoadReply(a) \/ LockReply(a) \/ DispatchReply(a)
                      \/ RecordReply(a) \/ SendDies(a) \/ CleanUp(a)

-----------------------------------------------------------------------------
\* The thread tells what the customer got: a reply it shows as sent was received
\* in these words, a reply it does not show as sent, or shows no more, was not
\* received, and none was twice, except sends whose answer or record was lost.
ThreadIsTrue ==
    /\ reply.status = "sent" => reply.body \in Range(customerGot)
    /\ Len(customerGot) = untold + Cardinality({a \in Agents : agent[a].step = "accepted"})
                           + (IF reply.status = "sent" THEN 1 ELSE 0)
===============================================================================
