---------------------------- MODULE FirstComment ----------------------------
(***************************************************************************)
(* The first comment under a published post (publisher/engine.py,          *)
(* _maybe_schedule_first_comment and _post_first_comment_task).            *)
(*                                                                         *)
(* The publish cycle queues a task and marks the row pending; the task     *)
(* comments on the platform and records it.  A comment cannot be taken     *)
(* back: the response may be lost, the worker may die between any two      *)
(* steps and the task is then run again, perhaps beside another one.       *)
(***************************************************************************)
EXTENDS Naturals, FiniteSets

CONSTANTS
    Commenters,        \* workers that may run the task
    CommentRetries,    \* FIRST_COMMENT_MAX_RETRIES
    MaxCommentFaults   \* bound: deaths and database failures

ASSUME FirstCommentAssumption ==
    /\ {CommentRetries, MaxCommentFaults} \subseteq Nat /\ IsFiniteSet(Commenters)

VARIABLES
    comment,       \* the row: first_comment_status and first_comment_retry_count
    comments,      \* comments of ours under the post, on the platform
    asked,         \* _maybe_schedule_first_comment: not yet, task queued, or over
    commentTasks,  \* tasks in the queue that no worker has locked
    commenter,     \* commenter[h]: where worker h is in its task
    hasText,       \* effective_first_comment is not empty
    canLookUp,     \* _can_reconcile_comments(provider)
    alone,         \* one worker: it is busy with the publish cycle while that asks
    commentFaults, \* deaths and database failures so far
    commentLost    \* the row was left, or put back to pending, with no task behind it

commentVars == <<comment, comments, asked, commentTasks, commenter, hasText, canLookUp,
                 alone, commentFaults, commentLost>>

NotCommenting == [step |-> "idle", tries |-> 0, again |-> FALSE]

FirstCommentTypeOK ==
    /\ comment \in [status : {"none", "pending", "posted", "failed"}, retries : 0..CommentRetries + MaxCommentFaults]
    /\ {comments, commentTasks} \subseteq Nat
    /\ asked \in {"no", "queued", "over"}
    /\ commenter \in [Commenters -> [step : {"idle", "loaded", "checked", "landed", "failing", "requeue", "ending"},
                                     tries : Nat, again : BOOLEAN]]
    /\ {hasText, canLookUp, alone, commentLost} \subseteq BOOLEAN
    /\ commentFaults \in 0..MaxCommentFaults

FirstCommentInit ==
    /\ comment = [status |-> "none", retries |-> 0]
    /\ comments = 0 /\ asked = "no" /\ commentTasks = 0
    /\ commenter = [h \in Commenters |-> NotCommenting]
    /\ hasText = TRUE
    /\ canLookUp \in BOOLEAN /\ alone \in BOOLEAN
    /\ commentFaults = 0 /\ commentLost = FALSE

-----------------------------------------------------------------------------
(* Asking: the task is queued before the row is marked.                    *)

AskForComment ==
    /\ asked = "no" /\ asked' = "queued"
    /\ commentTasks' = commentTasks + 1
    /\ UNCHANGED <<comment, comments, commenter, hasText, canLookUp, alone, commentFaults, commentLost>>

MarkPending ==
    /\ asked = "queued" /\ asked' = "over"
    /\ comment' = [comment EXCEPT !.status = "pending"]
    /\ commentLost' = (commentLost \/ comment.status \in {"posted", "failed"})
    /\ UNCHANGED <<comments, commentTasks, commenter, hasText, canLookUp, alone, commentFaults>>

AskerDies ==
    /\ asked = "queued" /\ asked' = "over"
    /\ commentFaults < MaxCommentFaults /\ commentFaults' = commentFaults + 1
    /\ UNCHANGED <<comment, comments, commentTasks, commenter, hasText, canLookUp, alone, commentLost>>

\* The person empties the first comment in the composer.
RemoveText ==
    /\ hasText /\ hasText' = FALSE
    /\ UNCHANGED <<comment, comments, asked, commentTasks, commenter, canLookUp, alone, commentFaults, commentLost>>

-----------------------------------------------------------------------------
(* The task.                                                               *)

Goes(h, step) == commenter' = [commenter EXCEPT ![h].step = step]

GoesFailing(h, retryable) ==
    commenter' = [commenter EXCEPT ![h] = [@ EXCEPT !.step = "failing", !.again = retryable]]

\* The first lines: the row is read once; posted already, or nothing to say.
TakeCommentTask(h) ==
    /\ commenter[h].step = "idle" /\ commentTasks > 0
    /\ alone => asked = "over" /\ \A g \in Commenters : commenter[g].step = "idle"
    /\ commentTasks' = commentTasks - 1
    /\ LET over == comment.status = "posted" \/ ~hasText
       IN /\ commenter' = [commenter EXCEPT ![h] = [step |-> IF over THEN "ending" ELSE "loaded",
                                                    tries |-> comment.retries, again |-> FALSE]]
          /\ commentLost' = (commentLost \/ (over /\ comment.status # "posted"))
    /\ UNCHANGED <<comment, comments, asked, hasText, canLookUp, alone, commentFaults>>

\* No credentials, or no platform_post_id to comment on.
CannotComment(h) ==
    /\ commenter[h].step = "loaded"
    /\ \E retryable \in BOOLEAN : GoesFailing(h, retryable)
    /\ UNCHANGED <<comment, comments, asked, commentTasks, hasText, canLookUp, alone, commentFaults, commentLost>>

\* A retry looks for the comment of the attempt before, where the provider can.
MustLookUp(h) == commenter[h].tries > 0 /\ canLookUp

LookUp(h) ==
    /\ commenter[h].step = "loaded"
    /\ IF MustLookUp(h)
       THEN GoesFailing(h, TRUE) \/ Goes(h, IF comments > 0 THEN "landed" ELSE "checked")
       ELSE Goes(h, "checked")
    /\ UNCHANGED <<comment, comments, asked, commentTasks, hasText, canLookUp, alone, commentFaults, commentLost>>

\* (Mutant of RetryableUnknown: an unknown outcome is always tried again.)
RetryableAlways == TRUE

\* An unknown outcome is tried again only where the comment can be looked up.
RetryableUnknown == canLookUp

\* provider.publish_comment: accepted; unknown (a timeout, a 5xx); refused for
\* now (429, 401); refused for good, which Instagram has answered to a comment
\* it created.
PublishComment(h) ==
    /\ commenter[h].step = "checked"
    /\ \/ Goes(h, "landed") /\ comments' = comments + 1
       \/ GoesFailing(h, RetryableUnknown) /\ comments' \in {comments, comments + 1}
       \/ GoesFailing(h, TRUE) /\ UNCHANGED comments
       \/ GoesFailing(h, FALSE) /\ comments' \in {comments, comments + 1}
    /\ UNCHANGED <<comment, asked, commentTasks, hasText, canLookUp, alone, commentFaults, commentLost>>

\* _mark_first_comment_posted never raises: a failed write leaves the row.
MarkCommentPosted(h) ==
    /\ commenter[h].step = "landed" /\ Goes(h, "ending")
    /\ \/ comment' = [comment EXCEPT !.status = "posted"] /\ UNCHANGED <<commentFaults, commentLost>>
       \/ /\ commentFaults < MaxCommentFaults /\ commentFaults' = commentFaults + 1
          /\ commentLost' = TRUE
          /\ UNCHANGED comment
    /\ UNCHANGED <<comments, asked, commentTasks, hasText, canLookUp, alone>>

\* (Mutant of Exhausted: one attempt more than the limit.)
ExhaustedLate(h) == commenter[h].tries > CommentRetries

Exhausted(h) == commenter[h].tries >= CommentRetries

\* _record_first_comment_failure
RecordCommentFailure(h) ==
    /\ commenter[h].step = "failing"
    /\ IF commenter[h].again /\ ~Exhausted(h)
       THEN comment' = [status |-> "pending", retries |-> comment.retries + 1] /\ Goes(h, "requeue")
       ELSE comment' = [comment EXCEPT !.status = "failed"] /\ Goes(h, "ending")
    /\ UNCHANGED <<comments, asked, commentTasks, hasText, canLookUp, alone, commentFaults, commentLost>>

RequeueComment(h) ==
    /\ commenter[h].step = "requeue" /\ Goes(h, "ending")
    /\ commentTasks' = commentTasks + 1
    /\ UNCHANGED <<comment, comments, asked, hasText, canLookUp, alone, commentFaults, commentLost>>

\* The task returned and its row is deleted.
CommentTaskEnds(h) ==
    /\ commenter[h].step = "ending"
    /\ commenter' = [commenter EXCEPT ![h] = NotCommenting]
    /\ UNCHANGED <<comment, comments, asked, commentTasks, hasText, canLookUp, alone, commentFaults, commentLost>>

\* The worker dies, or the record of a failure raises: the task is there again.
CommenterDies(h) ==
    /\ commenter[h].step # "idle"
    /\ commentFaults < MaxCommentFaults /\ commentFaults' = commentFaults + 1
    /\ commenter' = [commenter EXCEPT ![h] = NotCommenting]
    /\ commentTasks' = commentTasks + 1
    /\ UNCHANGED <<comment, comments, asked, hasText, canLookUp, alone, commentLost>>

CommenterMoves(h) ==
    \/ TakeCommentTask(h) \/ CannotComment(h) \/ LookUp(h) \/ PublishComment(h)
    \/ MarkCommentPosted(h) \/ RecordCommentFailure(h) \/ RequeueComment(h) \/ CommentTaskEnds(h)

FirstCommentNext ==
    \/ AskForComment \/ MarkPending \/ AskerDies \/ RemoveText
    \/ \E h \in Commenters : CommenterMoves(h) \/ CommenterDies(h)

-----------------------------------------------------------------------------
\* A live post gets one comment of ours, and one more for each death or
\* database failure at most: nothing else makes the task comment twice.
OneFirstComment == comments <= 1 + commentFaults

\* The comment is posted or reported in the end, although workers die, unless
\* its text was taken away, its record failed, or a second worker was faster
\* than the publish cycle's mark: it is not left pending.
CommentSettles == <>[](comment.status # "pending" \/ commentLost)
===============================================================================
