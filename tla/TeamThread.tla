------------------------------ MODULE TeamThread ------------------------------
(***************************************************************************)
(* A team member's conversation with the account manager (studio/chat.py,  *)
(* jobtypes/chat.py, creative_brief.py).  Each message makes a chat job,   *)
(* which a worker answers: an idea comes back as a brief card, with the    *)
(* evidence it rests on, or starts a draft at once; a tap on a card checks *)
(* everything again and starts the draft.  Meanwhile the person writes     *)
(* more, taps again, stops and retries, or leaves; evidence changes and    *)
(* grows old; workers die.                                                 *)
(***************************************************************************)
EXTENDS Naturals, Sequences, FiniteSets, FiniteSetsExt

CONSTANTS
    Answerers,       \* worker processes
    LastMessage,     \* bound: messages of the person, each with its job
    ChatCap,         \* MAX_ACTIVE_CHAT_POSTS
    LastRevision,    \* bound: revisions of a job
    MaxMishaps       \* bound: deaths of workers, failed or slow calls, stops, departures

ASSUME ThreadAssumption == {LastMessage, ChatCap, LastRevision} \subseteq Nat \ {0} /\ MaxMishaps \in Nat

VARIABLES
    thread,      \* the messages of the person and of the account manager, in order
    chatJob,     \* chatJob[n]: the job of the person's n-th message
    drafts,      \* the StudioBriefs started from this thread
    answerer,    \* answerer[w]: the job worker w is in, and what it has read or decided
    evidence,    \* what the website and the channels say now
    mode,        \* AgencySettings.creation_mode
    isMember,    \* the person belongs to the workspace
    mishaps

threadVars == <<thread, chatJob, drafts, answerer, evidence, mode, isMember, mishaps>>

Asked == 1..LastMessage
Nowhere == 0            \* no message; evidence that has not been read
Evidence == 1..2
Open == {"queued", "working"}
\* What the job's result says: a card that awaits confirmation, a question, a
\* draft it has started.  All three carry a creative brief.
Intakes == {"card", "question", "started"}
NoJob == [status |-> "none", rev |-> 1, taps |-> Nowhere, result |-> "none", card |-> Nowhere,
          saw |-> Nowhere, stale |-> FALSE]
Idle == [does |-> "nothing", job |-> 1, rev |-> 1, result |-> "none", card |-> Nowhere,
         saw |-> Nowhere, stale |-> FALSE]
Results == Intakes \cup {"none", "plain"}

ThreadTypeOK ==
    /\ \A i \in DOMAIN thread : thread[i].by \in {"person", "manager"} /\ thread[i].job \in Asked
    /\ \A n \in Asked :
         /\ chatJob[n].status \in Open \cup {"none", "done", "failed", "cancelled"} /\ chatJob[n].rev \in 1..LastRevision
         /\ {chatJob[n].taps, chatJob[n].card} \subseteq {Nowhere} \cup DOMAIN thread
         /\ chatJob[n].result \in Results /\ chatJob[n].saw \in {Nowhere} \cup Evidence
    /\ \A i \in DOMAIN drafts : drafts[i].job \in Asked /\ drafts[i].status \in {"making", "planned", "over"}
    /\ \A w \in Answerers :
         /\ answerer[w].does \in {"nothing", "reading", "asking", "looking", "confirming", "decided", "replied"}
         /\ answerer[w].result \in Results /\ answerer[w].saw \in {Nowhere} \cup Evidence
    /\ evidence \in Evidence /\ mode \in {"confirm", "auto"} /\ isMember \in BOOLEAN
    /\ mishaps \in 0..MaxMishaps

ThreadInit ==
    /\ thread = <<>> /\ chatJob = [n \in Asked |-> NoJob] /\ drafts = <<>>
    /\ answerer = [w \in Answerers |-> Idle]
    /\ evidence = 1 /\ mode \in {"confirm", "auto"} /\ isMember = TRUE /\ mishaps = 0

Mishap == mishaps < MaxMishaps /\ mishaps' = mishaps + 1

-----------------------------------------------------------------------------
(* The person.                                                             *)

\* post_message: the message and its job in one transaction.
Post(taps) ==
    \E n \in Asked :
        /\ chatJob[n].status = "none" /\ \A m \in 1..(n - 1) : chatJob[m].status # "none"
        /\ isMember
        /\ thread' = Append(thread, [by |-> "person", job |-> n])
        /\ chatJob' = [chatJob EXCEPT ![n] = [NoJob EXCEPT !.status = "queued", !.taps = taps]]
        /\ UNCHANGED <<drafts, answerer, evidence, mode, isMember, mishaps>>

SendIdea == Post(Nowhere)

\* Any card that was ever shown: a page may be old.
TapCard == \E n \in Asked : chatJob[n].result = "card" /\ Post(chatJob[n].card)

\* engine.cancel and control_job pause or stop, which also raise the revision;
\* then control_job retry.
StopAsked(n) ==
    /\ chatJob[n].status \in Open /\ Mishap
    /\ \E rev \in {chatJob[n].rev, chatJob[n].rev + 1} \cap 1..LastRevision :
         chatJob' = [chatJob EXCEPT ![n].status = "cancelled", ![n].rev = rev]
    /\ UNCHANGED <<thread, drafts, answerer, evidence, mode, isMember>>

RetryAsked(n) ==
    /\ chatJob[n].status \in {"cancelled", "failed"} /\ isMember /\ chatJob[n].rev < LastRevision
    /\ chatJob' = [chatJob EXCEPT ![n].status = "queued", ![n].rev = @ + 1]
    /\ UNCHANGED <<thread, drafts, answerer, evidence, mode, isMember, mishaps>>

Leave ==
    /\ isMember /\ Mishap /\ isMember' = FALSE
    /\ UNCHANGED <<thread, chatJob, drafts, answerer, evidence, mode>>

-----------------------------------------------------------------------------
(* The worker.                                                             *)

On(w, fields) == answerer' = [answerer EXCEPT ![w] = fields]
GoesOnTo(w, does) == On(w, [answerer[w] EXCEPT !.does = does])
Rests(w) == On(w, Idle)

\* run_step claims the job.
TakeJob(w, n) ==
    /\ answerer[w] = Idle /\ chatJob[n].status = "queued"
    /\ chatJob' = [chatJob EXCEPT ![n].status = "working"]
    /\ On(w, [Idle EXCEPT !.does = IF chatJob[n].taps = Nowhere THEN "reading" ELSE "looking",
                          !.job = n, !.rev = chatJob[n].rev])
    /\ UNCHANGED <<thread, drafts, evidence, mode, isMember, mishaps>>

\* _lock_current_job, and the guard of engine.save.
Mine(w) == chatJob[answerer[w].job].status = "working" /\ chatJob[answerer[w].job].rev = answerer[w].rev

Reply(n) == thread' = Append(thread, [by |-> "manager", job |-> n])

\* engine.finish: the result, with the message that shows it; else StaleJobError.
Finish(w, result, card, saw, stale) ==
    LET n == answerer[w].job
    IN  /\ Rests(w)
        /\ chatJob' = IF ~Mine(w) THEN chatJob
                      ELSE [chatJob EXCEPT ![n] = [@ EXCEPT !.status = "done", !.result = result, !.card = card,
                                                            !.saw = saw, !.stale = stale]]

Skips(w) == Finish(w, "plain", Nowhere, Nowhere, FALSE) /\ UNCHANGED <<thread, drafts>>
Stops(w) == Rests(w) /\ UNCHANGED <<thread, chatJob, drafts>>

\* creative_brief.latest_intake: the newest answered message before this one.
LatestIntake(n) == Max({Nowhere} \cup {m \in 1..(n - 1) : chatJob[m].status = "done" /\ chatJob[m].result \in Intakes})

\* _start_from_snapshot, up to the same number again waits; other reasons to
\* refuse (budget, accounts, photo) are left to the caller's choice.
DraftsIn(status) == Cardinality({i \in DOMAIN drafts : drafts[i].status = status})
HasRoom == DraftsIn("making") < ChatCap \/ DraftsIn("planned") < ChatCap
StartDraft(n, saw) ==
    drafts' = Append(drafts, [job |-> n, saw |-> saw,
                              status |-> IF DraftsIn("making") < ChatCap THEN "making" ELSE "planned"])

\* answer, up to the paid call: who asks, what the last brief rests on, and
\* whether the job is still wanted.
AskModel(w) ==
    /\ answerer[w].does = "reading"
    /\ LET last == LatestIntake(answerer[w].job)
           reuses == last # Nowhere /\ chatJob[last].result # "started"
       IN  IF ~isMember THEN Skips(w)
           ELSE IF ~Mine(w) THEN Stops(w)
           ELSE /\ On(w, [answerer[w] EXCEPT !.does = "asking",
                                             !.saw = IF reuses THEN chatJob[last].saw ELSE evidence,
                                             !.stale = reuses /\ chatJob[last].stale])
                /\ UNCHANGED <<thread, chatJob, drafts>>
    /\ UNCHANGED <<evidence, mode, isMember, mishaps>>

\* The rest of answer, one transaction under the membership's and the job's locks.
\* A new topic has read the evidence afresh.
Answer(w) ==
    /\ answerer[w].does = "asking"
    /\ LET n == answerer[w].job
           here == Len(thread) + 1
       IN  IF ~isMember THEN Skips(w)
           ELSE IF ~Mine(w) THEN Stops(w)
           ELSE \E newTopic \in BOOLEAN, says \in {"card", "question", "plain", "started"} :
                  LET saw == IF newTopic THEN evidence ELSE answerer[w].saw
                      stale == ~newTopic /\ answerer[w].stale
                  IN  /\ says = "card" => mode = "confirm" \/ ~HasRoom
                      /\ says = "started" => mode = "auto" /\ HasRoom
                      /\ Reply(n)
                      /\ IF says = "plain" THEN Finish(w, "plain", here, Nowhere, FALSE)
                                           ELSE Finish(w, says, here, saw, stale)
                      /\ IF says = "started" THEN StartDraft(n, saw) ELSE UNCHANGED drafts
    /\ UNCHANGED <<evidence, mode, isMember, mishaps>>

\* A model that fails, or does not answer, fails the job; a note says so.
ModelFails(w) ==
    /\ answerer[w].does = "asking" /\ Mishap /\ Rests(w)
    /\ chatJob' = IF Mine(w) THEN [chatJob EXCEPT ![answerer[w].job].status = "failed"] ELSE chatJob
    /\ UNCHANGED <<thread, drafts, evidence, mode, isMember>>

\* The card's message, its job, and what the person said since.
TappedBy(w) == chatJob[answerer[w].job].taps
CardOf(w) == thread[TappedBy(w)].job
AskedAt(n) == CHOOSE i \in DOMAIN thread : thread[i] = [by |-> "person", job |-> n]
NewerMessage(w) ==
    \E i \in (TappedBy(w) + 1)..(AskedAt(answerer[w].job) - 1) :
        thread[i].by = "person" /\ chatJob[thread[i].job].taps # TappedBy(w)

\* _confirm reads old evidence again before it takes any lock.
LookAtCard(w) ==
    /\ answerer[w].does = "looking"
    /\ IF ~isMember THEN Skips(w)
       ELSE /\ On(w, [answerer[w] EXCEPT !.does = "confirming",
                                         !.saw = IF chatJob[CardOf(w)].stale THEN evidence ELSE Nowhere])
            /\ UNCHANGED <<thread, chatJob, drafts>>
    /\ UNCHANGED <<evidence, mode, isMember, mishaps>>

\* (Mutant of AlreadyStarted: the card's own state is trusted.)
NeverStarted(w) == FALSE

\* A draft of a job that confirmed the same card.
AlreadyStarted(w) == \E i \in DOMAIN drafts : chatJob[drafts[i].job].taps = TappedBy(w)

Decides(w, result, saw) == On(w, [answerer[w] EXCEPT !.does = "decided", !.result = result, !.saw = saw])
Denied(w) == Decides(w, "plain", Nowhere) /\ UNCHANGED drafts

\* The locked part of _confirm, a transaction of its own.
Confirm(w) ==
    /\ answerer[w].does = "confirming"
    /\ LET card == chatJob[CardOf(w)]
           fresh == answerer[w].saw
       IN  IF ~isMember THEN Denied(w)
           ELSE IF ~Mine(w) THEN Rests(w) /\ UNCHANGED drafts
           ELSE \/ Denied(w)
                \/ IF AlreadyStarted(w) \/ LatestIntake(answerer[w].job) # CardOf(w) \/ NewerMessage(w)
                   THEN Denied(w)
                   ELSE IF fresh # Nowhere /\ fresh # card.saw
                   THEN Decides(w, "card", fresh) /\ UNCHANGED drafts
                   ELSE /\ (fresh # Nowhere \/ ~card.stale) /\ HasRoom
                        /\ StartDraft(answerer[w].job, card.saw)
                        /\ Decides(w, "started", card.saw)
    /\ UNCHANGED <<thread, chatJob, evidence, mode, isMember, mishaps>>

\* The reply, and then the end of the job, each in a statement of its own.
PostReply(w) ==
    /\ answerer[w].does = "decided" /\ Reply(answerer[w].job)
    /\ On(w, [answerer[w] EXCEPT !.does = "replied", !.card = Len(thread) + 1])
    /\ UNCHANGED <<chatJob, drafts, evidence, mode, isMember, mishaps>>

FinishTap(w) ==
    /\ answerer[w].does = "replied"
    /\ Finish(w, answerer[w].result, answerer[w].card, answerer[w].saw, FALSE)
    /\ UNCHANGED <<thread, drafts, evidence, mode, isMember, mishaps>>

AnswererDies(w) ==
    /\ answerer[w] # Idle /\ Mishap /\ Rests(w)
    /\ UNCHANGED <<thread, chatJob, drafts, evidence, mode, isMember>>

\* engine.sweep_stuck; a worker that takes longer than stuck_after is still in it.
SweepChat(n) ==
    /\ chatJob[n].status = "working"
    /\ IF \E w \in Answerers : answerer[w] # Idle /\ answerer[w].job = n THEN Mishap ELSE UNCHANGED mishaps
    /\ chatJob' = [chatJob EXCEPT ![n].status = "failed"]
    /\ UNCHANGED <<thread, drafts, answerer, evidence, mode, isMember>>

-----------------------------------------------------------------------------
(* The rest of the world.                                                  *)

EvidenceChanges ==
    /\ evidence = 1 /\ evidence' = 2
    /\ UNCHANGED <<thread, chatJob, drafts, answerer, mode, isMember, mishaps>>

\* SOURCE_MAX_AGE passes (between two jobs only: a bound).
EvidenceAges ==
    /\ \E n \in Asked : chatJob[n].result = "card" /\ ~chatJob[n].stale
    /\ \A w \in Answerers : answerer[w] = Idle
    /\ chatJob' = [n \in Asked |-> [chatJob[n] EXCEPT !.stale = chatJob[n].saw # Nowhere]]
    /\ UNCHANGED <<thread, drafts, answerer, evidence, mode, isMember, mishaps>>

\* The team finishes a draft or a person discards it; the feeder starts the next.
DraftEnds(i) ==
    /\ drafts[i].status \in {"making", "planned"}
    /\ drafts' = [drafts EXCEPT ![i].status = "over"]
    /\ UNCHANGED <<thread, chatJob, answerer, evidence, mode, isMember, mishaps>>

FeedDraft(i) ==
    /\ drafts[i].status = "planned" /\ drafts' = [drafts EXCEPT ![i].status = "making"]
    /\ UNCHANGED <<thread, chatJob, answerer, evidence, mode, isMember, mishaps>>

AnswererMoves(w) ==
    AskModel(w) \/ Answer(w) \/ ModelFails(w) \/ LookAtCard(w) \/ Confirm(w) \/ PostReply(w) \/ FinishTap(w)

ThreadNext ==
    \/ SendIdea \/ TapCard \/ Leave \/ EvidenceChanges \/ EvidenceAges
    \/ \E n \in Asked : StopAsked(n) \/ RetryAsked(n) \/ SweepChat(n) \/ \E w \in Answerers : TakeJob(w, n)
    \/ \E w \in Answerers : AnswererMoves(w) \/ AnswererDies(w)
    \/ \E i \in DOMAIN drafts : DraftEnds(i) \/ FeedDraft(i)

ThreadSpec == ThreadInit /\ [][ThreadNext]_threadVars

-----------------------------------------------------------------------------
CardOfDraft(i) == chatJob[drafts[i].job].taps

\* A card starts one draft, however often it is tapped, on however many workers,
\* and whoever dies between the draft and the end of its job; so does an idea that
\* starts by itself.  A confirmed draft rests on the evidence that its card showed.
\* No more drafts wait than the cap allows, and none is started by a job that was
\* stopped in the meantime or for a person who has left.
OneDraftPerCard ==
    /\ [](/\ \A i, j \in DOMAIN drafts :
               i # j => /\ drafts[i].job # drafts[j].job
                        /\ CardOfDraft(i) = CardOfDraft(j) => CardOfDraft(i) = Nowhere
          /\ \A i \in DOMAIN drafts :
               CardOfDraft(i) # Nowhere => drafts[i].saw = chatJob[thread[CardOfDraft(i)].job].saw
          /\ DraftsIn("planned") <= ChatCap)
    /\ [][Len(drafts') > Len(drafts) =>
             isMember /\ chatJob[drafts'[Len(drafts')].job].status = "working"]_threadVars

\* "do not confirm the old snapshot while a delayed model turn is collecting the
\* person's changes" (_confirm): no earlier message of the person is still to be
\* answered when a tap starts a draft.
ChangesAreCollected ==
    [][ Len(drafts') > Len(drafts) =>
          LET n == drafts'[Len(drafts')].job
          IN  chatJob[n].taps # Nowhere => \A m \in 1..(n - 1) : chatJob[m].taps = Nowhere => chatJob[m].status \notin Open
      ]_threadVars

\* Every message is answered, fails or is stopped.
ThreadSettled == \A n \in Asked : chatJob[n].status \notin Open
===============================================================================
