----------------------------- MODULE MCServices -----------------------------
(***************************************************************************)
(* Instances for TLC of the small services beside the publisher.  They     *)
(* share no state, so one behaviour is about one of them: focus says which *)
(* and the others stay as they are.                                        *)
(***************************************************************************)
EXTENDS FirstComment, EmailDigest, BlogPublishing, TelegramReview, PostingQueue,
        Recurrence, ApprovalReminders, InboxReplies, RecurringTasks,
        ApiRequests, AccountTokens, MediaLibrary

VARIABLE focus

earlyVars == <<commentVars, mailVars, blogVars, telegramVars>>
platformVars == <<apiVars, tokenVars, mediaVars>>
lateVars == <<queueVars, recurrenceVars, reminderVars, inboxVars, recurringVars, platformVars>>
vars == <<earlyVars, lateVars, focus>>

TheTap == CHOOSE u \in Taps : TRUE
TheClerk == CHOOSE c \in Clerks : TRUE

Foci == {"comment", "digest", "dispatch", "article", "sitemap", "card", "taps",
         "queue", "series", "reminders", "inbox", "schedule", "key", "grant", "versions", "upload"}

Init ==
    /\ focus \in Foci
    /\ FirstCommentInit /\ (focus # "comment" => ~alone /\ ~canLookUp)
    /\ EmailDigestInit /\ BlogInit
    /\ IF focus = "taps" THEN CardArrived ELSE OutboxInit
    /\ TapsInit /\ tap[TheTap].button = "approve"
    /\ focus # "taps" => \A u \in Taps : tap[u].button = "approve"
    /\ PostingQueueInit /\ RecurrenceInit /\ RemindersInit /\ RecurringInit
    /\ InboxInit
    /\ focus # "inbox" => agent = [a \in Agents |-> NoAct] /\ reply.body = CHOOSE b \in Texts : TRUE
    /\ ApiInit /\ TokensInit /\ MediaInit
    /\ (focus # "key" => resource = "post") /\ (focus # "upload" => space = 1)

Comment(A)  == focus = "comment"  /\ A /\ UNCHANGED <<mailVars, blogVars, telegramVars, lateVars, focus>>
Digest(A)   == focus = "digest"   /\ A /\ UNCHANGED <<commentVars, blogVars, telegramVars, lateVars, focus>>
Alert(A)    == focus = "dispatch" /\ A /\ UNCHANGED <<commentVars, blogVars, telegramVars, lateVars, focus>>

\* One article with everything people do to it; and all articles of the site,
\* sent straight to their publish.
TheArticle == CHOOSE p \in Articles : TRUE
SiteStarts == 2

\* The workers that publish are alike: the first that is free takes the task.
TheWriter == CHOOSE w \in Writers : TRUE
FirstFreeWrites ==
    \A w \in Writers \ {TheWriter} :
        writer[w] = NotWriting /\ writer'[w] # NotWriting => writer[TheWriter] # NotWriting

Article(A) ==
    /\ focus = "article" /\ A /\ UNCHANGED <<commentVars, mailVars, telegramVars, lateVars, focus>>
    /\ FirstFreeWrites /\ \A p \in Articles \ {TheArticle} : UNCHANGED article[p]
Sitemap(A) ==
    /\ focus = "sitemap" /\ A /\ UNCHANGED <<commentVars, mailVars, telegramVars, lateVars, focus>>
    /\ FirstFreeWrites /\ UNCHANGED changes
    /\ \A p \in Articles : article'[p].status # "changes_requested"
    /\ FoldSet(LAMBDA p, n : n + article'[p].attempts, 0, Articles) <= SiteStarts

\* A card on its way, and its chat; and the taps on a card that has arrived.
Card(A)     == focus = "card" /\ A /\ UNCHANGED <<commentVars, mailVars, blogVars, lateVars, focus>>
Review(A)   == focus = "taps" /\ A /\ UNCHANGED <<commentVars, mailVars, blogVars, lateVars, focus>>

\* The web request that holds the channel is always the same one: the others
\* wait for its lock.
Calendar(A) ==
    /\ focus = "queue" /\ A
    /\ UNCHANGED <<earlyVars, recurrenceVars, reminderVars, inboxVars, recurringVars, platformVars, focus>>
    /\ \A c, d \in Clerks : clerk'[c].op # "none" /\ clerk'[d].op = "none" => c = TheClerk
Series(A)   == focus = "series" /\ A /\ UNCHANGED <<earlyVars, queueVars, reminderVars, inboxVars, recurringVars, platformVars, focus>>
Remind(A)   == focus = "reminders" /\ A /\ UNCHANGED <<earlyVars, queueVars, recurrenceVars, inboxVars, recurringVars, platformVars, focus>>
Inbox(A)    == focus = "inbox" /\ A /\ UNCHANGED <<earlyVars, queueVars, recurrenceVars, reminderVars, recurringVars, platformVars, focus>>
Schedule(A) == focus = "schedule" /\ A /\ UNCHANGED <<earlyVars, queueVars, recurrenceVars, reminderVars, inboxVars, platformVars, focus>>

otherVars == <<earlyVars, queueVars, recurrenceVars, reminderVars, inboxVars, recurringVars>>

Key(A)      == focus = "key" /\ A /\ UNCHANGED <<otherVars, tokenVars, mediaVars, focus>>

\* One health check beside a process that uses or disconnects the channel.
TheCheck == CHOOSE u \in Users : TRUE
Grant(A) ==
    /\ focus = "grant" /\ A /\ UNCHANGED <<otherVars, apiVars, mediaVars, focus>>
    /\ user'[TheCheck].does \in {"nothing", "check"}
    /\ \A u \in Users \ {TheCheck} : user'[u].does # "check"

\* Edits of people who wait for one before the next; and one upload.
Edits(A)    == focus = "versions" /\ A /\ ~crossed' /\ UNCHANGED <<otherVars, apiVars, tokenVars, focus>>
Upload(A)   == focus = "upload" /\ A /\ UNCHANGED <<otherVars, apiVars, tokenVars, focus>>

Next ==
    \/ Comment(FirstCommentNext)
    \/ Digest(QueueNext)
    \/ Alert(DispatchNext)
    \/ Article(BlogNext)
    \/ Sitemap(BlogNext)
    \/ Card(OutboxNext)
    \/ Review(TapsNext)
    \/ Calendar(PostingQueueNext)
    \/ Series(RecurrenceNext)
    \/ Remind(RemindersNext)
    \/ Inbox(InboxNext)
    \/ Schedule(RecurringNext)
    \/ Key(ApiNext)
    \/ Grant(TokensNext)
    \/ Edits(VersionsNext)
    \/ Upload(UploadsNext)

Spec == Init /\ [][Next]_vars

\* The workers are the same for every service.  What a worker has begun goes
\* on, unless it dies; what is due is taken up by some worker, although they
\* are busy in between; the recurring sweeps run and clocks move.
ASSUME SameWorkers == \A W \in {Mailers, Senders, Handlers, Generators, Sweeps, Hosts, Callers} : W = Commenters

Fairness ==
    /\ \A w \in Commenters :
         WF_vars(\/ Comment(CommenterMoves(w)) \/ Digest(SweeperMoves(w)) \/ Alert(DispatcherMoves(w))
                 \/ Card(SenderMoves(w)) \/ Review(HandlerMoves(w))
                 \/ Series(GeneratorMoves(w)) \/ Remind(SweepMoves(w)) \/ Schedule(HostMoves(w))
                 \/ Key(CallerMoves(w)))
    /\ SF_vars(\E w \in Commenters :
                 \/ Digest(PickRows(w))
                 \/ \E d \in Deliveries : Alert(PickOne(w, d))
                 \/ \E i \in Segments : Card(ClaimSegment(w, i))
                 \/ \E u \in Taps : Review(ClaimTap(w, u))
                 \/ Series(StartCycle(w)) \/ Schedule(BootWorker(w))
                 \/ \E p \in PendingPosts : Remind(LockPost(w, p)))
    /\ WF_vars(\/ Comment(MarkPending)
               \/ \E d \in Deliveries : Digest(ClaimExpires(d)) \/ Alert(RetryFallsDue(d))
               \/ \E p \in Articles : Article(SweepStuckArticle(p)) \/ Sitemap(SweepStuckArticle(p))
               \/ \E i \in Segments : Card(SegmentFallsDue(i) \/ RecoverDelivery(i))
               \/ \E u \in Taps : Review(RecoverUpdate(u))
               \/ Remind(AlertDayPasses) \/ Key(RecordAges) \/ Key(SweepRecord)
               \/ \E m \in Migrators : Schedule(MigratorRegisters(m)))
    /\ WF_vars(\/ \E w \in Commenters : Digest(ReapExhausted(w))
               \/ \E p \in PendingPosts : Remind(DeadlineNears(p)))

FairSpec == Spec /\ Fairness

TypesOK ==
    /\ FirstCommentTypeOK /\ EmailDigestTypeOK /\ BlogTypeOK /\ TelegramTypeOK
    /\ PostingQueueTypeOK /\ RecurrenceTypeOK /\ RemindersTypeOK /\ InboxTypeOK /\ RecurringTypeOK
    /\ ApiTypeOK /\ TokensTypeOK /\ MediaTypeOK

\* What the services leave to their workers comes to an end, and what they do
\* for ever goes on, although workers die and answers are lost: see the parts.
ServicesSettle ==
    /\ CommentSettles /\ EmailSettles /\ PublishSettles /\ TelegramSettles /\ KeySettles
    /\ <>[](focus # "series") \/ SeriesSettles
    /\ <>[](focus # "reminders") \/ RemindersSettle
    /\ <>[](focus # "schedule") \/ ScheduleGoesOn
===============================================================================
