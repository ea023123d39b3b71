--------------------------- MODULE BlogPublishing ---------------------------
(***************************************************************************)
(* Blog articles (blog/services.py, blog/publisher.py): content, the       *)
(* approval pinned to it, the claim that starts a publish, and the task    *)
(* that commits the page and the sitemap to the site's branch, follows the *)
(* deploy and settles the article.                                         *)
(***************************************************************************)
EXTENDS Naturals, FiniteSets

CONSTANTS
    Articles,          \* BlogPost rows of one site
    Writers,           \* workers that run the publish tasks
    CommitAttempts,    \* COMMIT_ATTEMPTS
    MaxStarts,         \* bound: publish_attempts of an article
    MaxChanges,        \* bound: edits and image replacements
    MaxBlogFaults      \* bound: deaths and crashes of a publish task

ASSUME BlogAssumption ==
    /\ CommitAttempts \in Nat \ {0}
    /\ {MaxStarts, MaxChanges, MaxBlogFaults} \subseteq Nat

VARIABLES
    article,       \* the rows
    branch,        \* the branch's head: the page of each article, and whom the sitemap lists
    writer,        \* writer[w]: where worker w is in run_publish
    publishTasks,  \* publish_blog_post tasks no worker has locked: <<article, attempt>>
    polls,         \* poll_blog_deploy tasks
    everApproved,  \* contents an approver has approved
    overlapped,    \* two publishes ran at once
    changes,       \* edits and image replacements so far
    blogFaults

blogVars == <<article, branch, writer, publishTasks, polls, everApproved, overlapped, changes, blogFaults>>

NotWriting == [step |-> "idle"]

\* What fingerprint() covers: the fields of the row, and the file of its image.
Contents == [text : 1..MaxChanges + 1, image : 1..MaxChanges + 1]
Nothing == [text |-> 0, image |-> 0]

BlogTypeOK ==
    /\ article \in [Articles ->
         [status : {"draft", "pending_review", "changes_requested", "approved", "publishing", "published", "failed"},
          content : Contents,
          approved : Contents \cup {Nothing},     \* approved_fingerprint
          attempts : 0..MaxStarts,
          card : Contents \cup {Nothing},         \* published_card
          dispatched : BOOLEAN]]
    /\ branch \in [page : [Articles -> Contents \cup {Nothing}], listed : SUBSET Articles]
    /\ \A w \in Writers :
         \/ writer[w] = NotWriting
         \/ /\ writer[w].step \in {"cards", "head", "guard", "write", "record", "dispatch"}
            /\ writer[w].post \in Articles /\ writer[w].attempt \in 1..MaxStarts
            /\ writer[w].content \in Contents /\ writer[w].listed \subseteq Articles
            /\ {writer[w].committed, writer[w].moved, writer[w].same} \subseteq BOOLEAN
            /\ writer[w].tries \in 0..CommitAttempts
    /\ publishTasks \subseteq Articles \X (1..MaxStarts) /\ polls \subseteq Articles \X (1..MaxStarts)
    /\ everApproved \in [Articles -> SUBSET Contents]
    /\ overlapped \in BOOLEAN /\ changes \in 0..MaxChanges /\ blogFaults \in 0..MaxBlogFaults

BlogInit ==
    /\ article = [p \in Articles |-> [status |-> "draft", content |-> [text |-> 1, image |-> 1],
                                      approved |-> Nothing, attempts |-> 0, card |-> Nothing, dispatched |-> FALSE]]
    /\ branch = [page |-> [p \in Articles |-> Nothing], listed |-> {}]
    /\ writer = [w \in Writers |-> NotWriting]
    /\ publishTasks = {} /\ polls = {}
    /\ everApproved = [p \in Articles |-> {}]
    /\ overlapped = FALSE /\ changes = 0 /\ blogFaults = 0

OnlyArticle == UNCHANGED <<branch, writer, publishTasks, polls, overlapped, blogFaults>>

-----------------------------------------------------------------------------
(* People.                                                                 *)

Withdrawn(row) == [row EXCEPT !.status = "pending_review", !.approved = Nothing]

\* update_content: new text, which takes the approval with it.
UpdateContent(p) ==
    /\ article[p].status # "publishing"
    /\ changes < MaxChanges /\ changes' = changes + 1
    /\ LET edited == [article[p] EXCEPT !.content.text = @ + 1]
           stale == \/ article[p].approved # Nothing /\ article[p].status \in {"approved", "failed"}
                    \/ article[p].status = "published"
       IN article' = [article EXCEPT ![p] = IF stale THEN Withdrawn(edited) ELSE edited]
    /\ UNCHANGED everApproved /\ OnlyArticle

\* The featured image is replaced or deleted in the media library, at any time
\* and past every rule of the article.
ReplaceImage(p) ==
    /\ changes < MaxChanges /\ changes' = changes + 1
    /\ article' = [article EXCEPT ![p].content.image = @ + 1]
    /\ UNCHANGED everApproved /\ OnlyArticle

SubmitForReview(p) ==
    /\ article[p].status \in {"draft", "changes_requested"}
    /\ article' = [article EXCEPT ![p].status = "pending_review"]
    /\ UNCHANGED <<changes, everApproved>> /\ OnlyArticle

ApproveArticle(p) ==
    /\ article[p].status = "pending_review"
    /\ article' = [article EXCEPT ![p] = [@ EXCEPT !.status = "approved", !.approved = article[p].content]]
    /\ everApproved' = [everApproved EXCEPT ![p] = @ \cup {article[p].content}]
    /\ UNCHANGED changes /\ OnlyArticle

RequestChanges(p) ==
    /\ article[p].status \in {"pending_review", "approved", "failed"}
    /\ article' = [article EXCEPT ![p] = [@ EXCEPT !.status = "changes_requested", !.approved = Nothing]]
    /\ UNCHANGED <<changes, everApproved>> /\ OnlyArticle

\* start_publish: what moved since it was approved goes back to review; else the
\* claim, and the task with it.
StartPublish(p) ==
    /\ article[p].status \in {"approved", "failed"} /\ article[p].approved # Nothing
    /\ article[p].attempts < MaxStarts
    /\ IF article[p].content # article[p].approved
       THEN article' = [article EXCEPT ![p] = Withdrawn(@)] /\ UNCHANGED publishTasks
       ELSE /\ article' = [article EXCEPT ![p] = [@ EXCEPT !.status = "publishing", !.dispatched = FALSE,
                                                           !.attempts = article[p].attempts + 1]]
            /\ publishTasks' = publishTasks \cup {<<p, article[p].attempts + 1>>}
    /\ UNCHANGED <<branch, writer, polls, everApproved, overlapped, changes, blogFaults>>

-----------------------------------------------------------------------------
(* run_publish.                                                            *)

Claimed(p, attempt) == article[p].status = "publishing" /\ article[p].attempts = attempt

\* (Mutant of ClaimMatches: the content is not compared again.)
ClaimMatchesRow(p, attempt) == Claimed(p, attempt) /\ article[p].approved # Nothing

ClaimMatches(p, attempt) == Claimed(p, attempt) /\ article[p].content = article[p].approved

\* fail_publish and return_to_approved; stop_stale_publish, which does not ask
\* whose attempt it stops.
SettledAs(p, attempt, status) ==
    IF Claimed(p, attempt) THEN [article EXCEPT ![p].status = status] ELSE article
StoppedStale(p) ==
    IF article[p].status = "publishing" THEN [article EXCEPT ![p] = Withdrawn(@)] ELSE article

TaskOver(w) == writer' = [writer EXCEPT ![w] = NotWriting]
WritesOn(w, next) == writer' = [writer EXCEPT ![w] = next]

\* The task is taken up: it may be stale, lack its token, or find other content.
TakePublishTask(w) == \E task \in publishTasks :
    LET p == task[1]
        attempt == task[2]
    IN /\ writer[w] = NotWriting
       /\ publishTasks' = publishTasks \ {task}
       /\ \/ /\ ~ClaimMatches(p, attempt)
             /\ article' = IF Claimed(p, attempt) THEN StoppedStale(p) ELSE article
             /\ UNCHANGED <<writer, overlapped>>
          \/ /\ Claimed(p, attempt)
             /\ article' = SettledAs(p, attempt, "approved")
             /\ UNCHANGED <<writer, overlapped>>
          \/ /\ ClaimMatches(p, attempt)
             /\ WritesOn(w, [step |-> "cards", post |-> p, attempt |-> attempt, content |-> article[p].content,
                             committed |-> article[p].card # Nothing, listed |-> {}, tries |-> 0,
                             moved |-> FALSE, same |-> FALSE])
             /\ overlapped' = (overlapped \/ \E v \in Writers : writer[v] # NotWriting)
             /\ UNCHANGED article
       /\ UNCHANGED <<branch, polls, everApproved, changes, blogFaults>>

\* published_cards: the sitemap lists this article and the recorded ones.
ReadCards(w) ==
    /\ writer[w].step = "cards"
    /\ LET recorded == {p \in Articles : article[p].card # Nothing}
       IN WritesOn(w, [writer[w] EXCEPT !.step = "head", !.listed = recorded \cup {writer[w].post}])
    /\ UNCHANGED <<article, branch, publishTasks, polls, everApproved, overlapped, changes, blogFaults>>

\* (Mutant of NothingToCommit: only the page is compared, not the sitemap.)
SamePage(w) == branch.page[writer[w].post] = writer[w].content

NothingToCommit(w) ==
    branch.page[writer[w].post] = writer[w].content /\ branch.listed = writer[w].listed

\* branch_head and the files there: a page at its path that it does not know
\* to be its own stops it.
ReadHead(w) ==
    /\ writer[w].step = "head"
    /\ IF ~writer[w].committed /\ branch.page[writer[w].post] \notin {Nothing, writer[w].content}
       THEN article' = SettledAs(writer[w].post, writer[w].attempt, "failed") /\ TaskOver(w)
       ELSE /\ WritesOn(w, [writer[w] EXCEPT !.step = "guard", !.moved = FALSE, !.same = NothingToCommit(w)])
            /\ UNCHANGED article
    /\ UNCHANGED <<branch, publishTasks, polls, everApproved, overlapped, changes, blogFaults>>

\* guard(), immediately before the first write.
Guard(w) ==
    /\ writer[w].step = "guard"
    /\ IF ClaimMatches(writer[w].post, writer[w].attempt)
       THEN /\ WritesOn(w, [writer[w] EXCEPT !.step = IF writer[w].same THEN "record" ELSE "write"])
            /\ UNCHANGED article
       ELSE article' = StoppedStale(writer[w].post) /\ TaskOver(w)
    /\ UNCHANGED <<branch, publishTasks, polls, everApproved, overlapped, changes, blogFaults>>

FastForward(w) == ~writer[w].moved

\* update_ref lands only on the head that was read; its answer may be lost.
UpdateRef(w) ==
    /\ writer[w].step = "write" /\ FastForward(w)
    /\ branch' = [page |-> [branch.page EXCEPT ![writer[w].post] = writer[w].content], listed |-> writer[w].listed]
    /\ LET others == [v \in Writers |->
                        IF writer[v] = NotWriting THEN NotWriting ELSE [writer[v] EXCEPT !.moved = TRUE]]
       IN \/ writer' = [others EXCEPT ![w] = [writer[w] EXCEPT !.step = "record"]] /\ UNCHANGED article
          \/ /\ writer' = [others EXCEPT ![w] = NotWriting]
             /\ article' = SettledAs(writer[w].post, writer[w].attempt, "failed")
    /\ UNCHANGED <<publishTasks, polls, everApproved, overlapped, changes, blogFaults>>

\* RefMovedError: everything is read again, COMMIT_ATTEMPTS times.
RefMoved(w) ==
    /\ writer[w].step = "write" /\ ~FastForward(w)
    /\ IF writer[w].tries + 1 < CommitAttempts
       THEN /\ WritesOn(w, [writer[w] EXCEPT !.step = "cards", !.tries = @ + 1])
            /\ UNCHANGED article
       ELSE article' = SettledAs(writer[w].post, writer[w].attempt, "failed") /\ TaskOver(w)
    /\ UNCHANGED <<branch, publishTasks, polls, everApproved, overlapped, changes, blogFaults>>

\* GitHub answers with an error before anything is written.
GitHubFails(w) ==
    /\ writer[w].step \in {"head", "write"} /\ TaskOver(w)
    /\ article' = SettledAs(writer[w].post, writer[w].attempt, "failed")
    /\ UNCHANGED <<branch, publishTasks, polls, everApproved, overlapped, changes, blogFaults>>

RecordCommit(w) ==
    /\ writer[w].step = "record"
    /\ article' = IF Claimed(writer[w].post, writer[w].attempt)
                  THEN [article EXCEPT ![writer[w].post].card = writer[w].content] ELSE article
    /\ WritesOn(w, [writer[w] EXCEPT !.step = "dispatch"])
    /\ UNCHANGED <<branch, publishTasks, polls, everApproved, overlapped, changes, blogFaults>>

\* dispatch_workflow: the deploy could not be started, or its poll is queued.
DispatchDeploy(w) ==
    LET p == writer[w].post
        attempt == writer[w].attempt
    IN /\ writer[w].step = "dispatch" /\ TaskOver(w)
       /\ \/ article' = SettledAs(p, attempt, "failed") /\ UNCHANGED polls
          \/ /\ article' = IF Claimed(p, attempt) THEN [article EXCEPT ![p].dispatched = TRUE] ELSE article
             /\ polls' = polls \cup {<<p, attempt>>}
       /\ UNCHANGED <<branch, publishTasks, everApproved, overlapped, changes, blogFaults>>

\* The worker dies and the task is there again; or the database fails under it,
\* and publish_blog_post swallows that.
WriterDies(w) ==
    /\ writer[w] # NotWriting /\ blogFaults < MaxBlogFaults /\ blogFaults' = blogFaults + 1
    /\ publishTasks' = publishTasks \cup {<<writer[w].post, writer[w].attempt>>}
    /\ TaskOver(w)
    /\ UNCHANGED <<article, branch, polls, everApproved, overlapped, changes>>

PublishCrashes(w) ==
    /\ writer[w].step \in {"guard", "record", "dispatch"} /\ TaskOver(w)
    /\ blogFaults < MaxBlogFaults /\ blogFaults' = blogFaults + 1
    /\ UNCHANGED <<article, branch, publishTasks, polls, everApproved, overlapped, changes>>

\* run_poll: stale; not done yet, and polled again; failed or past its
\* deadline; or live.
PollDeploy == \E poll \in polls :
    LET p == poll[1]
        attempt == poll[2]
    IN /\ IF Claimed(p, attempt) /\ article[p].dispatched
          THEN \/ article' = SettledAs(p, attempt, "failed") /\ polls' = polls \ {poll}
               \/ article' = SettledAs(p, attempt, "published") /\ polls' = polls \ {poll}
          ELSE UNCHANGED article /\ polls' = polls \ {poll}
       /\ UNCHANGED <<branch, writer, publishTasks, everApproved, overlapped, changes, blogFaults>>

Stuck(p) == article[p].status = "publishing"

\* sweep_stuck, STUCK_AFTER the start; the task may still be running.
SweepStuckArticle(p) ==
    /\ Stuck(p)
    /\ article' = [article EXCEPT ![p].status = "failed"]
    /\ UNCHANGED <<changes, everApproved>> /\ OnlyArticle

WriterMoves(w) ==
    \/ ReadCards(w) \/ ReadHead(w) \/ Guard(w) \/ UpdateRef(w) \/ RefMoved(w) \/ GitHubFails(w)
    \/ RecordCommit(w) \/ DispatchDeploy(w)

BlogNext ==
    \/ \E p \in Articles :
          UpdateContent(p) \/ ReplaceImage(p) \/ SubmitForReview(p) \/ ApproveArticle(p) \/ RequestChanges(p)
          \/ StartPublish(p) \/ SweepStuckArticle(p)
    \/ \E w \in Writers : TakePublishTask(w) \/ WriterMoves(w) \/ WriterDies(w) \/ PublishCrashes(w)
    \/ PollDeploy

BlogSpec == BlogInit /\ [][BlogNext]_blogVars

-----------------------------------------------------------------------------
\* "Nothing unapproved leaves the app" (services.py): every page on the branch
\* is content that an approver approved, images included.
OnlyApprovedPages ==
    \A p \in Articles : branch.page[p] # Nothing => branch.page[p] \in everApproved[p]

\* A published article's page is the approved one: no slower attempt overwrites
\* it, whatever was edited, swept or restarted meanwhile.
PublishedPageIsLive ==
    \A p \in Articles : article[p].status = "published" => branch.page[p] = article[p].approved

\* The sitemap lists every recorded article, although workers die between the
\* commit and its record; only publishes that run at once can lose one.
RecordedIsListed ==
    \A p \in Articles : article[p].card # Nothing => p \in branch.listed \/ overlapped

\* Both for the site as a whole: what the articles' rows claim is so.
SiteIsTrue == PublishedPageIsLive /\ RecordedIsListed

\* No article stays in publishing, although its task was lost.
PublishSettles == <>[](\A p \in Articles : article[p].status # "publishing")
===============================================================================
