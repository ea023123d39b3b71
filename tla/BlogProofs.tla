------------------------------ MODULE BlogProofs ------------------------------
(***************************************************************************)
(* Blog articles: every page on the branch was approved, a published       *)
(* article's page is the approved one, and the sitemap lists every         *)
(* recorded article unless publishes ran at once; for any number of        *)
(* articles, workers and attempts.                                         *)
(*                                                                         *)
(* Why no slower attempt overwrites the page of a published article: the   *)
(* content of an article only moves forward, a task's content is at most   *)
(* the approved one, and a task that may still write (its head has not     *)
(* moved) compared the claim after it read that head, so its content is at *)
(* least the page's.                                                       *)
(***************************************************************************)
EXTENDS BlogPublishing, TLAPS

-----------------------------------------------------------------------------
(* Types, as far as the argument needs them.                               *)

ArticleStatuses == {"draft", "pending_review", "changes_requested", "approved", "publishing", "published", "failed"}
WriterSteps    == {"cards", "head", "guard", "write", "record", "dispatch"}
Perhaps  == Contents \cup {Nothing}
Row      == [status : ArticleStatuses, content : Contents, approved : Perhaps, attempts : 0..MaxStarts,
             card : Perhaps, dispatched : BOOLEAN]
Task     == [step : WriterSteps, post : Articles, attempt : 1..MaxStarts, content : Contents,
             committed : BOOLEAN, listed : SUBSET Articles, tries : 0..CommitAttempts,
             moved : BOOLEAN, same : BOOLEAN]

Typed ==
    /\ article \in [Articles -> Row]
    /\ branch \in [page : [Articles -> Perhaps], listed : SUBSET Articles]
    /\ writer \in [Writers -> Task \cup {NotWriting}]
    /\ publishTasks \subseteq Articles \X (1..MaxStarts)
    /\ polls \subseteq Articles \X (1..MaxStarts)
    /\ everApproved \in [Articles -> SUBSET Contents]
    /\ overlapped \in BOOLEAN /\ changes \in 0..MaxChanges /\ blogFaults \in 0..MaxBlogFaults
    /\ \A p \in Articles : article[p].content.text <= changes + 1 /\ article[p].content.image <= changes + 1

-----------------------------------------------------------------------------
(* The inductive invariant.                                                *)

Writing(w) == writer[w] # NotWriting

\* x is no later than y.
Upto(x, y) == x.text <= y.text /\ x.image <= y.image

Approvals ==
    /\ \A p \in Articles :
         /\ article[p].approved # Nothing =>
              article[p].approved \in everApproved[p] /\ Upto(article[p].approved, article[p].content)
         /\ branch.page[p] # Nothing => branch.page[p] \in everApproved[p]
         /\ article[p].content # Nothing
         /\ article[p].status \in {"publishing", "published"} => article[p].approved # Nothing
    /\ \A w \in Writers : Writing(w) => writer[w].content \in everApproved[writer[w].post]

\* A task and the article it works on.
TaskOK(w) ==
    LET p == writer[w].post
    IN  /\ writer[w].content # Nothing
        /\ writer[w].attempt <= article[p].attempts
        /\ Upto(writer[w].content, article[p].content)
        /\ article[p].approved # Nothing => Upto(writer[w].content, article[p].approved)
        /\ Claimed(p, writer[w].attempt) => writer[w].content = article[p].approved
        /\ writer[w].step = "write" /\ ~writer[w].moved => Upto(branch.page[p], writer[w].content)
        /\ writer[w].step = "guard" /\ writer[w].same => Upto(writer[w].content, branch.page[p])

\* The page of the current attempt is on the branch.
Committed(p) ==
    \/ article[p].status = "published"
    \/ /\ article[p].status = "publishing"
       /\ \/ article[p].dispatched
          \/ \E w \in Writers : /\ Writing(w) /\ writer[w].step \in {"record", "dispatch"}
                                /\ writer[w].post = p /\ writer[w].attempt = article[p].attempts

PageOK(p) ==
    /\ Upto(branch.page[p], article[p].content)
    /\ Committed(p) => branch.page[p] = article[p].approved

\* While publishes run one at a time, a task knows all recorded cards.
Listing ==
    ~overlapped =>
        /\ \A v, w \in Writers : Writing(v) /\ Writing(w) => v = w
        /\ \A p \in Articles : article[p].card # Nothing => p \in branch.listed
        /\ \A w \in Writers : Writing(w) =>
             /\ writer[w].step \in {"head", "guard", "write"} =>
                  /\ writer[w].post \in writer[w].listed
                  /\ \A p \in Articles : article[p].card # Nothing => p \in writer[w].listed
             /\ writer[w].step = "guard" /\ writer[w].same => branch.listed = writer[w].listed
             /\ writer[w].step \in {"record", "dispatch"} => writer[w].post \in branch.listed

TasksOK == \A task \in publishTasks : task[2] <= article[task[1]].attempts

Sound ==
    /\ Approvals
    /\ \A w \in Writers : Writing(w) => TaskOK(w)
    /\ \A p \in Articles : PageOK(p)
    /\ Listing
    /\ TasksOK

-----------------------------------------------------------------------------
(* Types.                                                                  *)

LEMMA Bounds ==
    /\ MaxStarts \in Nat /\ MaxChanges \in Nat /\ MaxBlogFaults \in Nat
    /\ CommitAttempts \in Nat /\ CommitAttempts # 0
BY BlogAssumption

LEMMA TypedInit == BlogInit => Typed
<1>. SUFFICES ASSUME BlogInit PROVE Typed OBVIOUS
<1>. USE Bounds
<1>1. [text |-> 1, image |-> 1] \in Contents BY DEF Contents
<1>2. Nothing \in Perhaps BY DEF Perhaps
<1>3. [status |-> "draft", content |-> [text |-> 1, image |-> 1], approved |-> Nothing,
       attempts |-> 0, card |-> Nothing, dispatched |-> FALSE] \in Row
  BY <1>1, <1>2 DEF Row, ArticleStatuses
<1>4. article \in [Articles -> Row] BY <1>3 DEF BlogInit
<1>5. branch \in [page : [Articles -> Perhaps], listed : SUBSET Articles] BY <1>2 DEF BlogInit
<1>6. \A p \in Articles : article[p].content.text <= changes + 1 /\ article[p].content.image <= changes + 1
  BY DEF BlogInit
<1>7. /\ writer \in [Writers -> Task \cup {NotWriting}]
      /\ everApproved \in [Articles -> SUBSET Contents]
  BY DEF BlogInit
<1>8. changes \in 0..MaxChanges /\ blogFaults \in 0..MaxBlogFaults BY DEF BlogInit
<1>9. publishTasks = {} /\ polls = {} /\ overlapped \in BOOLEAN BY Zenon DEF BlogInit
<1>. QED BY <1>4, <1>5, <1>6, <1>7, <1>8, <1>9 DEF Typed

LEMMA TypedType == Typed => BlogTypeOK
BY DEF Typed, BlogTypeOK, Row, Task, Perhaps, WriterSteps, ArticleStatuses, NotWriting

\* One row is replaced.
LEMMA TypedRow ==
    ASSUME Typed, NEW p \in Articles, NEW row \in Row,
           row.content.text <= changes' + 1, row.content.image <= changes' + 1,
           changes' \in 0..MaxChanges, changes' >= changes,
           article' = [article EXCEPT ![p] = row]
    PROVE  /\ article' \in [Articles -> Row]
           /\ \A q \in Articles : article'[q].content.text <= changes' + 1 /\ article'[q].content.image <= changes' + 1
<1>1. article \in [Articles -> Row] BY DEF Typed
<1>2. article' \in [Articles -> Row] BY <1>1
<1>3. ASSUME NEW q \in Articles
      PROVE  article'[q].content.text <= changes' + 1 /\ article'[q].content.image <= changes' + 1
  <2>1. CASE q = p BY <2>1, <1>1
  <2>2. CASE q # p
    <3>1. article'[q] = article[q] BY <2>2, <1>1
    <3>2. article[q] \in Row BY <1>1
    <3>3. /\ article[q].content.text \in Nat /\ article[q].content.image \in Nat
          /\ changes \in Nat /\ changes' \in Nat
      BY <3>2, BlogAssumption DEF Row, Contents, Typed
    <3>4. article[q].content.text <= changes + 1 /\ article[q].content.image <= changes + 1 BY DEF Typed
    <3>. QED BY <3>1, <3>3, <3>4
  <2>. QED BY <2>1, <2>2
<1>. QED BY <1>2, <1>3

LEMMA RowType ==
    ASSUME Typed, NEW p \in Articles
    PROVE  /\ article[p] \in Row
           /\ article[p].content \in Contents /\ article[p].approved \in Perhaps
           /\ article[p].attempts \in 0..MaxStarts /\ article[p].status \in ArticleStatuses
           /\ article[p].content.text <= changes + 1 /\ article[p].content.image <= changes + 1
BY DEF Typed, Row

LEMMA TaskType ==
    ASSUME Typed, NEW w \in Writers, writer[w].step # "idle"
    PROVE  /\ writer[w] \in Task /\ writer[w].post \in Articles
           /\ writer[w].content \in Contents /\ writer[w].attempt \in 1..MaxStarts
           /\ writer[w].step \in WriterSteps /\ writer[w].listed \in SUBSET Articles
           /\ writer[w].moved \in BOOLEAN /\ writer[w].same \in BOOLEAN
           /\ writer[w] # NotWriting
BY DEF Typed, Task, NotWriting

\* What no count of changes is about: any row may be replaced by one of the
\* same content.
SameContents ==
    /\ article' \in [Articles -> Row]
    /\ \A p \in Articles : article'[p].content = article[p].content

LEMMA SettledType ==
    ASSUME Typed, NEW p \in Articles, NEW attempt, NEW status \in ArticleStatuses,
           \/ article' = SettledAs(p, attempt, status)
           \/ article' = StoppedStale(p)
           \/ article' = article
    PROVE  SameContents
<1>1. article \in [Articles -> Row] /\ article[p] \in Row BY DEF Typed
<1>2. Withdrawn(article[p]) \in Row /\ Withdrawn(article[p]).content = article[p].content
  BY <1>1 DEF Withdrawn, Row, ArticleStatuses, Perhaps
<1>3. [article[p] EXCEPT !.status = status] \in Row BY <1>1 DEF Row
<1>4. CASE article' = article BY <1>4, <1>1 DEF SameContents
<1>5. CASE article' = [article EXCEPT ![p].status = status]
  BY <1>5, <1>1, <1>3 DEF SameContents, Row
<1>6. CASE article' = [article EXCEPT ![p] = Withdrawn(@)]
  BY <1>6, <1>1, <1>2 DEF SameContents
<1>. QED BY <1>4, <1>5, <1>6 DEF SettledAs, StoppedStale

LEMMA WriterTypes ==
    ASSUME Typed, NEW w \in Writers,
           \/ \E task \in Task : WritesOn(w, task)
           \/ TaskOver(w)
           \/ writer' = writer
    PROVE  writer' \in [Writers -> Task \cup {NotWriting}]
BY DEF Typed, WritesOn, TaskOver

\* A person's action replaces one row.
Replaces(p, row) ==
    /\ row \in Row /\ row.content.text <= changes' + 1 /\ row.content.image <= changes' + 1
    /\ article' = [article EXCEPT ![p] = row]

Beside ==
    /\ changes' \in 0..MaxChanges /\ changes' >= changes
    /\ UNCHANGED <<branch, writer, polls, overlapped, blogFaults>>
    /\ everApproved' \in [Articles -> SUBSET Contents]
    /\ publishTasks' \subseteq Articles \X (1..MaxStarts)

LEMMA TypedStep ==
    ASSUME Typed, NEW p \in Articles, NEW row, Replaces(p, row), Beside
    PROVE  Typed'
<1>1. /\ article' \in [Articles -> Row]
      /\ \A q \in Articles : article'[q].content.text <= changes' + 1 /\ article'[q].content.image <= changes' + 1
  BY TypedRow DEF Replaces, Beside
<1>2. UNCHANGED <<branch, writer, polls, overlapped, blogFaults>> BY DEF Beside
<1>. QED BY <1>1, <1>2 DEF Typed, Beside

LEMMA PeopleTyped ==
    ASSUME Typed, NEW p \in Articles,
           \/ UpdateContent(p) \/ ReplaceImage(p) \/ SubmitForReview(p) \/ ApproveArticle(p)
           \/ RequestChanges(p) \/ StartPublish(p) \/ SweepStuckArticle(p)
    PROVE  Typed'
<1>. DEFINE row == article[p]
<1>. USE Bounds
<1>1. /\ row \in Row /\ row.content \in Contents /\ row.approved \in Perhaps
      /\ row.attempts \in 0..MaxStarts /\ row.content.text <= changes + 1 /\ row.content.image <= changes + 1
  BY RowType
<1>2. article \in [Articles -> Row] /\ changes \in 0..MaxChanges BY DEF Typed
<1>3. changes' = changes => changes' \in 0..MaxChanges /\ changes' >= changes BY <1>2
<1>4. everApproved \in [Articles -> SUBSET Contents] /\ publishTasks \subseteq Articles \X (1..MaxStarts)
  BY DEF Typed
<1>5. CASE UpdateContent(p)
  <2>. DEFINE edited == [row EXCEPT !.content.text = @ + 1]
  <2>1. /\ edited \in Row /\ edited.content.text <= changes' + 1 /\ edited.content.image <= changes' + 1
        /\ changes' \in 0..MaxChanges /\ changes' >= changes
    BY <1>1, <1>2, <1>5 DEF UpdateContent, Row, Contents
  <2>2. Withdrawn(edited) \in Row /\ Withdrawn(edited).content = edited.content
    BY <2>1 DEF Withdrawn, Row, Perhaps, ArticleStatuses
  <2>3. Replaces(p, edited) \/ Replaces(p, Withdrawn(edited)) BY <2>1, <2>2, <1>5 DEF UpdateContent, Replaces
  <2>4. Beside BY <2>1, <1>4, <1>5 DEF UpdateContent, OnlyArticle, Beside
  <2>. QED BY <2>3, <2>4, TypedStep
<1>6. CASE ReplaceImage(p)
  <2>. DEFINE other == [row EXCEPT !.content.image = @ + 1]
  <2>1. /\ other \in Row /\ other.content.text <= changes' + 1 /\ other.content.image <= changes' + 1
        /\ changes' \in 0..MaxChanges /\ changes' >= changes
    BY <1>1, <1>2, <1>6 DEF ReplaceImage, Row, Contents
  <2>2. Replaces(p, other) BY <2>1, <1>2, <1>6 DEF ReplaceImage, Replaces
  <2>3. Beside BY <2>1, <1>4, <1>6 DEF ReplaceImage, OnlyArticle, Beside
  <2>. QED BY <2>2, <2>3, TypedStep
<1>7. CASE SubmitForReview(p)
  <2>. DEFINE next == [row EXCEPT !.status = "pending_review"]
  <2>1. next \in Row /\ next.content = row.content BY <1>1 DEF Row, ArticleStatuses
  <2>2. Replaces(p, next) BY <2>1, <1>1, <1>2, <1>7 DEF SubmitForReview, Replaces
  <2>3. Beside BY <1>3, <1>4, <1>7 DEF SubmitForReview, OnlyArticle, Beside
  <2>. QED BY <2>2, <2>3, TypedStep
<1>8. CASE ApproveArticle(p)
  <2>. DEFINE next == [row EXCEPT !.status = "approved", !.approved = row.content]
  <2>1. next \in Row /\ next.content = row.content BY <1>1 DEF Row, ArticleStatuses, Perhaps
  <2>2. Replaces(p, next) BY <2>1, <1>1, <1>2, <1>8 DEF ApproveArticle, Replaces
  <2>3. everApproved' \in [Articles -> SUBSET Contents] BY <1>1, <1>4, <1>8 DEF ApproveArticle
  <2>4. Beside BY <2>3, <1>3, <1>4, <1>8 DEF ApproveArticle, OnlyArticle, Beside
  <2>. QED BY <2>2, <2>4, TypedStep
<1>9. CASE RequestChanges(p)
  <2>. DEFINE next == [row EXCEPT !.status = "changes_requested", !.approved = Nothing]
  <2>1. next \in Row /\ next.content = row.content BY <1>1 DEF Row, ArticleStatuses, Perhaps
  <2>2. Replaces(p, next) BY <2>1, <1>1, <1>2, <1>9 DEF RequestChanges, Replaces
  <2>3. Beside BY <1>3, <1>4, <1>9 DEF RequestChanges, OnlyArticle, Beside
  <2>. QED BY <2>2, <2>3, TypedStep
<1>10. CASE StartPublish(p)
  <2>. DEFINE back == Withdrawn(row)
              next == [row EXCEPT !.status = "publishing", !.dispatched = FALSE, !.attempts = row.attempts + 1]
  <2>1. back \in Row /\ back.content = row.content BY <1>1 DEF Withdrawn, Row, ArticleStatuses, Perhaps
  <2>2. row.attempts + 1 \in 0..MaxStarts /\ row.attempts + 1 \in 1..MaxStarts BY <1>1, <1>10 DEF StartPublish
  <2>3. next \in Row /\ next.content = row.content BY <1>1, <2>2 DEF Row, ArticleStatuses
  <2>4. UNCHANGED <<branch, writer, polls, everApproved, overlapped, changes, blogFaults>>
    BY <1>10 DEF StartPublish
  <2>5. CASE row.content # row.approved
    <3>1. article' = [article EXCEPT ![p] = back] /\ publishTasks' = publishTasks
      BY <2>5, <1>2, <1>10 DEF StartPublish, Withdrawn
    <3>2. Replaces(p, back) BY <3>1, <2>1, <2>4, <1>1 DEF Replaces
    <3>3. Beside BY <3>1, <2>4, <1>3, <1>4 DEF Beside
    <3>. QED BY <3>2, <3>3, TypedStep
  <2>6. CASE row.content = row.approved
    <3>1. article' = [article EXCEPT ![p] = next] BY <2>6, <1>2, <1>10 DEF StartPublish
    <3>5. publishTasks' = publishTasks \cup {<<p, row.attempts + 1>>} BY <2>6, <1>10, Zenon DEF StartPublish
    <3>2. Replaces(p, next) BY <3>1, <2>3, <2>4, <1>1 DEF Replaces
    <3>3. publishTasks' \subseteq Articles \X (1..MaxStarts) BY <3>5, <2>2, <1>4
    <3>4. Beside BY <3>3, <2>4, <1>3, <1>4 DEF Beside
    <3>. QED BY <3>2, <3>4, TypedStep
  <2>. QED BY <2>5, <2>6
<1>11. CASE SweepStuckArticle(p)
  <2>. DEFINE next == [row EXCEPT !.status = "failed"]
  <2>1. next \in Row /\ next.content = row.content BY <1>1 DEF Row, ArticleStatuses
  <2>2. Replaces(p, next) BY <2>1, <1>1, <1>2, <1>11 DEF SweepStuckArticle, OnlyArticle, Replaces
  <2>3. Beside BY <1>3, <1>4, <1>11 DEF SweepStuckArticle, OnlyArticle, Beside
  <2>. QED BY <2>2, <2>3, TypedStep
<1>. QED BY <1>5, <1>6, <1>7, <1>8, <1>9, <1>10, <1>11

\* The steps of tasks leave people's counters alone, and every row its content.
TypedRest ==
    /\ writer' \in [Writers -> Task \cup {NotWriting}]
    /\ branch' \in [page : [Articles -> Perhaps], listed : SUBSET Articles]
    /\ publishTasks' \subseteq Articles \X (1..MaxStarts)
    /\ polls' \subseteq Articles \X (1..MaxStarts)
    /\ overlapped' \in BOOLEAN /\ blogFaults' \in 0..MaxBlogFaults
    /\ UNCHANGED <<everApproved, changes>>

LEMMA TypedWork ==
    ASSUME Typed, SameContents, TypedRest
    PROVE  Typed'
<1>1. changes' = changes /\ everApproved' = everApproved BY DEF TypedRest
<1>2. \A p \in Articles : article'[p].content.text <= changes' + 1 /\ article'[p].content.image <= changes' + 1
  BY <1>1 DEF Typed, SameContents
<1>. QED BY <1>1, <1>2 DEF Typed, SameContents, TypedRest

LEMMA TakeTyped ==
    ASSUME Typed, NEW w \in Writers, TakePublishTask(w)
    PROVE  Typed'
<1>. PICK task \in publishTasks :
       LET p == task[1]
           attempt == task[2]
       IN /\ writer[w] = NotWriting
          /\ publishTasks' = publishTasks \ {task}
          /\ \/ /\ ~ClaimMatches(p, attempt)
                /\ article' = IF Claimed(p, attempt) THEN StoppedStale(p) ELSE article
                /\ UNCHANGED <<writer, overlapped>>
             \/ /\ Claimed(p, attempt)
                /\ article' = SettledAs(p, attempt, "approved")
                /\ UNCHANGED <<writer, overlapped>>
             \/ /\ ClaimMatches(p, attempt)
                /\ WritesOn(w, [step |-> "cards", post |-> p, attempt |-> attempt, content |-> article[p].content,
                                committed |-> article[p].card # Nothing, listed |-> {}, tries |-> 0,
                                moved |-> FALSE, same |-> FALSE])
                /\ overlapped' = (overlapped \/ \E v \in Writers : writer[v] # NotWriting)
                /\ UNCHANGED article
          /\ UNCHANGED <<branch, polls, everApproved, changes, blogFaults>>
  BY Zenon DEF TakePublishTask
<1>. DEFINE p == task[1]
            attempt == task[2]
            taken == [step |-> "cards", post |-> p, attempt |-> attempt, content |-> article[p].content,
                      committed |-> article[p].card # Nothing, listed |-> {}, tries |-> 0,
                      moved |-> FALSE, same |-> FALSE]
<1>1. p \in Articles /\ attempt \in 1..MaxStarts BY DEF Typed
<1>2. taken \in Task
  <2>1. 0 \in 0..CommitAttempts BY Bounds
  <2>2. (article[p].card # Nothing) \in BOOLEAN BY Zenon
  <2>. QED BY <2>1, <2>2, <1>1, RowType DEF Task, WriterSteps
<1>3. "approved" \in ArticleStatuses BY DEF ArticleStatuses
<1>4. \/ article' = SettledAs(p, attempt, "approved")
      \/ article' = StoppedStale(p)
      \/ article' = article
  BY Zenon
<1>5. SameContents BY <1>1, <1>3, <1>4, SettledType
<1>6. writer' \in [Writers -> Task \cup {NotWriting}] BY <1>2, WriterTypes
<1>7. overlapped' \in BOOLEAN BY Zenon DEF Typed
<1>8. UNCHANGED <<branch, polls, everApproved, changes, blogFaults>> /\ publishTasks' \subseteq publishTasks
  OBVIOUS
<1>9. TypedRest BY <1>6, <1>7, <1>8 DEF TypedRest, Typed
<1>. QED BY <1>5, <1>9, TypedWork

LEMMA WriterTyped ==
    ASSUME Typed, NEW w \in Writers, WriterMoves(w)
    PROVE  Typed'
<1>. DEFINE p == writer[w].post
            attempt == writer[w].attempt
<1>1. writer[w].step # "idle"
  BY DEF WriterMoves, ReadCards, ReadHead, Guard, UpdateRef, RefMoved, GitHubFails, RecordCommit, DispatchDeploy
<1>2. /\ writer[w] \in Task /\ p \in Articles /\ writer[w].content \in Contents /\ attempt \in 1..MaxStarts
  BY <1>1, TaskType
<1>3. "failed" \in ArticleStatuses BY DEF ArticleStatuses
<1>4. UNCHANGED <<publishTasks, everApproved, overlapped, changes, blogFaults>>
  BY DEF WriterMoves, ReadCards, ReadHead, Guard, UpdateRef, RefMoved, GitHubFails, RecordCommit, DispatchDeploy
<1>5. ASSUME UNCHANGED <<branch, polls>>,
             \/ article' = SettledAs(p, attempt, "failed")
             \/ article' = StoppedStale(p)
             \/ article' = article,
             \/ \E task \in Task : WritesOn(w, task)
             \/ TaskOver(w)
      PROVE  Typed'
  <2>1. SameContents BY <1>2, <1>3, <1>5, SettledType
  <2>2. writer' \in [Writers -> Task \cup {NotWriting}] BY <1>5, WriterTypes
  <2>3. TypedRest BY <2>2, <1>4, <1>5 DEF TypedRest, Typed
  <2>. QED BY <2>1, <2>3, TypedWork
<1>6. CASE ReadCards(w)
  <2>. DEFINE next == [writer[w] EXCEPT !.step = "head",
                                        !.listed = {q \in Articles : article[q].card # Nothing} \cup {writer[w].post}]
  <2>1. next \in Task BY <1>2 DEF Task, WriterSteps
  <2>2. WritesOn(w, next) /\ UNCHANGED <<article, branch, polls>> BY <1>6 DEF ReadCards
  <2>. QED BY <2>1, <2>2, <1>5
<1>7. CASE ReadHead(w)
  <2>. DEFINE next == [writer[w] EXCEPT !.step = "guard", !.moved = FALSE, !.same = NothingToCommit(w)]
  <2>1. NothingToCommit(w) \in BOOLEAN BY Zenon DEF NothingToCommit
  <2>2. next \in Task BY <2>1, <1>2 DEF Task, WriterSteps
  <2>3. UNCHANGED <<branch, polls>> BY <1>7 DEF ReadHead
  <2>4. \/ article' = SettledAs(p, attempt, "failed") /\ TaskOver(w)
        \/ WritesOn(w, next) /\ article' = article
    BY <1>7, Zenon DEF ReadHead
  <2>. QED BY <2>2, <2>3, <2>4, <1>5
<1>8. CASE Guard(w)
  <2>. DEFINE next == [writer[w] EXCEPT !.step = IF writer[w].same THEN "record" ELSE "write"]
  <2>1. next \in Task BY <1>2 DEF Task, WriterSteps
  <2>2. UNCHANGED <<branch, polls>> BY <1>8 DEF Guard
  <2>3. \/ article' = StoppedStale(p) /\ TaskOver(w)
        \/ WritesOn(w, next) /\ article' = article
    BY <1>8, Zenon DEF Guard
  <2>. QED BY <2>1, <2>2, <2>3, <1>5
<1>9. CASE UpdateRef(w)
  <2>. DEFINE others == [v \in Writers |->
                           IF writer[v] = NotWriting THEN NotWriting ELSE [writer[v] EXCEPT !.moved = TRUE]]
              next == [writer[w] EXCEPT !.step = "record"]
  <2>1. next \in Task BY <1>2 DEF Task, WriterSteps
  <2>2. others \in [Writers -> Task \cup {NotWriting}]
    <3>1. ASSUME NEW v \in Writers PROVE others[v] \in Task \cup {NotWriting}
      <4>1. writer[v] = NotWriting \/ writer[v] \in Task BY DEF Typed
      <4>2. writer[v] \in Task => [writer[v] EXCEPT !.moved = TRUE] \in Task BY DEF Task
      <4>. QED BY <4>1, <4>2
    <3>. QED BY <3>1
  <2>3. \/ writer' = [others EXCEPT ![w] = next] /\ article' = article
        \/ writer' = [others EXCEPT ![w] = NotWriting] /\ article' = SettledAs(p, attempt, "failed")
    BY <1>9, Zenon DEF UpdateRef
  <2>4. writer' \in [Writers -> Task \cup {NotWriting}] BY <2>1, <2>2, <2>3
  <2>5. SameContents BY <2>3, <1>2, <1>3, SettledType
  <2>6. /\ branch' = [page |-> [branch.page EXCEPT ![p] = writer[w].content], listed |-> writer[w].listed]
        /\ polls' = polls
    BY <1>9 DEF UpdateRef
  <2>7. writer[w].listed \subseteq Articles /\ branch.page \in [Articles -> Perhaps] /\ writer[w].content \in Perhaps
    BY <1>2 DEF Task, Typed, Perhaps
  <2>8. branch' \in [page : [Articles -> Perhaps], listed : SUBSET Articles] BY <2>6, <2>7
  <2>9. TypedRest BY <2>4, <2>6, <2>8, <1>4 DEF TypedRest, Typed
  <2>. QED BY <2>5, <2>9, TypedWork
<1>10. CASE RefMoved(w)
  <2>. DEFINE next == [writer[w] EXCEPT !.step = "cards", !.tries = @ + 1]
  <2>1. UNCHANGED <<branch, polls>> BY <1>10 DEF RefMoved
  <2>2. CASE writer[w].tries + 1 < CommitAttempts
    <3>3. writer[w].tries \in 0..CommitAttempts BY <1>2 DEF Task
    <3>4. writer[w].tries + 1 \in 0..CommitAttempts BY <3>3, <2>2, Bounds
    <3>1. next \in Task BY <3>4, <1>2 DEF Task, WriterSteps
    <3>2. WritesOn(w, next) /\ UNCHANGED article BY <1>10, <2>2, Zenon DEF RefMoved
    <3>. QED BY <3>1, <3>2, <2>1, <1>5
  <2>3. CASE ~(writer[w].tries + 1 < CommitAttempts)
    <3>1. article' = SettledAs(p, attempt, "failed") /\ TaskOver(w) BY <1>10, <2>3, Zenon DEF RefMoved
    <3>. QED BY <3>1, <2>1, <1>5
  <2>. QED BY <2>2, <2>3
<1>11. CASE GitHubFails(w)
  BY <1>11, <1>5 DEF GitHubFails
<1>12. CASE RecordCommit(w)
  <2>. DEFINE next == [writer[w] EXCEPT !.step = "dispatch"]
              row == [article[p] EXCEPT !.card = writer[w].content]
  <2>1. next \in Task BY <1>2 DEF Task, WriterSteps
  <2>2. WritesOn(w, next) /\ UNCHANGED <<branch, polls>> BY <1>12 DEF RecordCommit
  <2>3. article' = [article EXCEPT ![p].card = writer[w].content] \/ article' = article
    BY <1>12 DEF RecordCommit
  <2>4. article \in [Articles -> Row] /\ article[p] \in Row BY <1>2 DEF Typed
  <2>5. row \in Row /\ row.content = article[p].content BY <2>4, <1>2 DEF Row, Perhaps
  <2>6. article' = [article EXCEPT ![p] = row] \/ article' = article BY <2>3, <2>4
  <2>7. SameContents BY <2>4, <2>5, <2>6 DEF SameContents
  <2>8. writer' \in [Writers -> Task \cup {NotWriting}] BY <2>1, <2>2, WriterTypes
  <2>9. TypedRest BY <2>8, <2>2, <1>4 DEF TypedRest, Typed
  <2>. QED BY <2>7, <2>9, TypedWork
<1>13. CASE DispatchDeploy(w)
  <2>. DEFINE row == [article[p] EXCEPT !.dispatched = TRUE]
  <2>1. article \in [Articles -> Row] /\ article[p] \in Row BY <1>2 DEF Typed
  <2>2. row \in Row /\ row.content = article[p].content BY <2>1 DEF Row
  <2>3. SettledAs(p, attempt, "failed") = article' \/ article' = article \/ article' = [article EXCEPT ![p] = row]
    BY <1>13, <2>1 DEF DispatchDeploy
  <2>4. SameContents
    <3>1. CASE article' = [article EXCEPT ![p] = row] BY <3>1, <2>1, <2>2 DEF SameContents
    <3>2. CASE article' = SettledAs(p, attempt, "failed") \/ article' = article
      BY <3>2, <1>2, <1>3, SettledType
    <3>. QED BY <2>3, <3>1, <3>2
  <2>5. branch' = branch /\ TaskOver(w) BY <1>13 DEF DispatchDeploy
  <2>6. polls' = polls \/ polls' = polls \cup {<<p, attempt>>} BY <1>13 DEF DispatchDeploy
  <2>7. polls' \subseteq Articles \X (1..MaxStarts) BY <2>6, <1>2 DEF Typed
  <2>8. writer' \in [Writers -> Task \cup {NotWriting}] BY <2>5, WriterTypes
  <2>9. TypedRest BY <2>5, <2>7, <2>8, <1>4 DEF TypedRest, Typed
  <2>. QED BY <2>4, <2>9, TypedWork
<1>. QED BY <1>6, <1>7, <1>8, <1>9, <1>10, <1>11, <1>12, <1>13 DEF WriterMoves

LEMMA FaultTyped ==
    ASSUME Typed, NEW w \in Writers, WriterDies(w) \/ PublishCrashes(w)
    PROVE  Typed'
<1>1. writer[w].step # "idle" \/ writer[w] # NotWriting BY DEF WriterDies, PublishCrashes
<1>2. writer[w] = NotWriting => writer[w].step = "idle" BY DEF NotWriting
<1>3. writer[w] \in Task BY <1>1, <1>2 DEF Typed, NotWriting
<1>4. SameContents BY DEF WriterDies, PublishCrashes, SameContents, Typed
<1>5. TaskOver(w) /\ UNCHANGED <<branch, polls, everApproved, overlapped, changes>>
  BY DEF WriterDies, PublishCrashes
<1>6. writer' \in [Writers -> Task \cup {NotWriting}] BY <1>5, WriterTypes
<1>7. blogFaults' \in 0..MaxBlogFaults BY Bounds DEF WriterDies, PublishCrashes, Typed
<1>8. publishTasks' = publishTasks \/ publishTasks' = publishTasks \cup {<<writer[w].post, writer[w].attempt>>}
  BY DEF WriterDies, PublishCrashes
<1>9. publishTasks' \subseteq Articles \X (1..MaxStarts) BY <1>3, <1>8 DEF Typed, Task
<1>10. TypedRest BY <1>5, <1>6, <1>7, <1>9 DEF TypedRest, Typed
<1>. QED BY <1>4, <1>10, TypedWork

LEMMA PollTyped ==
    ASSUME Typed, PollDeploy
    PROVE  Typed'
<1>. PICK poll \in polls :
       LET p == poll[1]
           attempt == poll[2]
       IN /\ IF Claimed(p, attempt) /\ article[p].dispatched
             THEN \/ article' = SettledAs(p, attempt, "failed") /\ polls' = polls \ {poll}
                  \/ article' = SettledAs(p, attempt, "published") /\ polls' = polls \ {poll}
             ELSE UNCHANGED article /\ polls' = polls \ {poll}
          /\ UNCHANGED <<branch, writer, publishTasks, everApproved, overlapped, changes, blogFaults>>
  BY Zenon DEF PollDeploy
<1>1. poll[1] \in Articles BY DEF Typed
<1>2. \E status \in {"failed", "published"} : article' = SettledAs(poll[1], poll[2], status) \/ article' = article
  BY Zenon
<1>3. {"failed", "published"} \subseteq ArticleStatuses BY DEF ArticleStatuses
<1>4. SameContents BY <1>1, <1>2, <1>3, SettledType
<1>5. polls' \subseteq polls BY Zenon
<1>6. UNCHANGED <<branch, writer, publishTasks, everApproved, overlapped, changes, blogFaults>> OBVIOUS
<1>7. TypedRest BY <1>5, <1>6 DEF TypedRest, Typed
<1>. QED BY <1>4, <1>7, TypedWork

LEMMA TypedNext == Typed /\ [BlogNext]_blogVars => Typed'
<1>. SUFFICES ASSUME Typed, [BlogNext]_blogVars PROVE Typed' OBVIOUS
<1>1. CASE UNCHANGED blogVars BY <1>1 DEF blogVars, Typed
<1>2. CASE BlogNext BY <1>2, PeopleTyped, TakeTyped, WriterTyped, FaultTyped, PollTyped, Zenon DEF BlogNext
<1>. QED BY <1>1, <1>2

-----------------------------------------------------------------------------
(* Contents are ordered.                                                   *)

LEMMA UptoOrder ==
    ASSUME NEW x \in Perhaps, NEW y \in Perhaps, NEW z \in Perhaps
    PROVE  /\ Upto(x, x)
           /\ Upto(x, y) /\ Upto(y, z) => Upto(x, z)
           /\ Upto(x, y) /\ Upto(y, x) => x = y
           /\ Upto(Nothing, x)
<1>. DEFINE Number(c) == c.text \in Nat /\ c.image \in Nat /\ c = [text |-> c.text, image |-> c.image]
<1>1. \A c \in Contents : Number(c) BY Bounds DEF Contents
<1>2. Number(Nothing) BY DEF Nothing
<1>3. Number(x) /\ Number(y) /\ Number(z) BY <1>1, <1>2 DEF Perhaps
<1>4. Upto(x, x) /\ Upto(Nothing, x) BY <1>3 DEF Upto, Nothing
<1>5. Upto(x, y) /\ Upto(y, z) => Upto(x, z) BY <1>3 DEF Upto
<1>6. Upto(x, y) /\ Upto(y, x) => x.text = y.text /\ x.image = y.image BY <1>3 DEF Upto
<1>. QED BY <1>3, <1>4, <1>5, <1>6

LEMMA ContentsAreSome == Nothing \notin Contents /\ Contents \subseteq Perhaps
BY DEF Nothing, Contents, Perhaps

\* What Typed says of contents.
LEMMA ContentTypes ==
    ASSUME Typed
    PROVE  /\ \A p \in Articles : /\ article[p].content \in Perhaps /\ article[p].approved \in Perhaps
                                  /\ article[p].content # Nothing /\ branch.page[p] \in Perhaps
           /\ \A w \in Writers : Writing(w) =>
                /\ writer[w].content \in Perhaps /\ writer[w].content # Nothing
                /\ writer[w].post \in Articles /\ writer[w].step # "idle"
BY ContentsAreSome DEF Typed, Row, Task, Writing, WriterSteps, NotWriting

LEMMA ContentsAfter ==
    ASSUME Typed'
    PROVE  \A p \in Articles : article'[p].content \in Perhaps /\ article'[p].content # Nothing
BY ContentsAreSome DEF Typed, Row

LEMMA SoundInit == BlogInit => Sound
<1>. SUFFICES ASSUME BlogInit PROVE Sound OBVIOUS
<1>1. \A w \in Writers : ~Writing(w) BY DEF BlogInit, Writing
<1>2. \A p \in Articles : /\ article[p].status = "draft" /\ article[p].approved = Nothing
                          /\ article[p].content = [text |-> 1, image |-> 1] /\ article[p].card = Nothing
                          /\ branch.page[p] = Nothing
  BY DEF BlogInit
<1>3. [text |-> 1, image |-> 1] # Nothing BY DEF Nothing
<1>4. Approvals BY <1>1, <1>2, <1>3 DEF Approvals
<1>5. \A p \in Articles : PageOK(p) BY <1>2 DEF PageOK, Upto, Nothing, Committed
<1>6. Listing BY <1>1, <1>2 DEF Listing
<1>7. TasksOK BY DEF BlogInit, TasksOK
<1>. QED BY <1>1, <1>4, <1>5, <1>6, <1>7 DEF Sound

-----------------------------------------------------------------------------
(* WriterSteps that take something back: an edit, a withdrawal, a failure, a      *)
(* sweep, a task that ends or is lost.                                     *)

RowsSoften ==
    \A p \in Articles :
         /\ Upto(article[p].content, article'[p].content)
         /\ article'[p].approved \in {article[p].approved, Nothing}
         /\ article'[p].status \in {"publishing", "published"} =>
              article'[p].status = article[p].status /\ article'[p].approved = article[p].approved
         /\ article'[p].attempts = article[p].attempts
         /\ article'[p].card = article[p].card
         /\ article'[p].dispatched = article[p].dispatched

Softens ==
    /\ RowsSoften
    /\ \A w \in Writers : writer'[w] \in {writer[w], NotWriting}
    /\ \A task \in publishTasks' :
         \/ task \in publishTasks
         \/ \E w \in Writers : Writing(w) /\ task = <<writer[w].post, writer[w].attempt>>
    /\ UNCHANGED <<branch, everApproved, overlapped>>

LEMMA SoftenedSound ==
    ASSUME Typed, Typed', Sound, Softens
    PROVE  Sound'
<1>1. UNCHANGED <<branch, everApproved, overlapped>> BY DEF Softens, RowsSoften
<1>2. \A w \in Writers : Writing(w)' => Writing(w) /\ writer'[w] = writer[w] BY DEF Softens, Writing
<1>3. Approvals'
  <2>1. ASSUME NEW p \in Articles
        PROVE  /\ article'[p].approved # Nothing =>
                    article'[p].approved \in everApproved[p] /\ Upto(article'[p].approved, article'[p].content)
               /\ article'[p].status \in {"publishing", "published"} => article'[p].approved # Nothing
    <3>1. article'[p].approved # Nothing => article'[p].approved = article[p].approved BY DEF Softens, RowsSoften
    <3>2. article'[p].approved # Nothing =>
            article[p].approved \in everApproved[p] /\ Upto(article[p].approved, article[p].content)
      BY <3>1 DEF Sound, Approvals
    <3>3. Upto(article[p].content, article'[p].content) BY DEF Softens, RowsSoften
    <3>4. /\ article[p].content \in Perhaps /\ article[p].approved \in Perhaps
          /\ article'[p].content \in Perhaps
      BY ContentTypes, ContentsAfter
    <3>5. article'[p].approved # Nothing => Upto(article'[p].approved, article'[p].content)
      BY <3>1, <3>2, <3>3, <3>4, UptoOrder
    <3>6. article'[p].status \in {"publishing", "published"} => article'[p].approved # Nothing
      BY DEF Softens, RowsSoften, Sound, Approvals
    <3>. QED BY <3>1, <3>2, <3>5, <3>6
  <2>2. \A p \in Articles : article'[p].content # Nothing BY ContentsAfter, ContentsAfter
  <2>3. \A p \in Articles : branch'.page[p] # Nothing => branch'.page[p] \in everApproved'[p]
    BY <1>1 DEF Sound, Approvals
  <2>4. \A w \in Writers : Writing(w)' => writer'[w].content \in everApproved'[writer'[w].post]
    BY <1>1, <1>2 DEF Sound, Approvals
  <2>. QED BY <1>1, <2>1, <2>2, <2>3, <2>4 DEF Approvals
<1>4. ASSUME NEW w \in Writers, Writing(w)'
      PROVE  TaskOK(w)'
  <2>. DEFINE p == writer[w].post
  <2>1. Writing(w) /\ writer'[w] = writer[w] /\ p \in Articles BY <1>2, <1>4, ContentTypes
  <2>2. TaskOK(w) BY <2>1 DEF Sound
  <2>3. /\ Upto(article[p].content, article'[p].content)
        /\ article'[p].approved \in {article[p].approved, Nothing}
        /\ article'[p].status = "publishing" =>
              article[p].status = "publishing" /\ article'[p].approved = article[p].approved
        /\ article'[p].attempts = article[p].attempts
    BY <2>1 DEF Softens, RowsSoften
  <2>4. /\ article[p].content \in Perhaps /\ article[p].approved \in Perhaps /\ writer[w].content \in Perhaps
        /\ article'[p].content \in Perhaps
    BY <2>1, ContentTypes, ContentsAfter
  <2>5. Upto(writer[w].content, article'[p].content) BY <2>2, <2>3, <2>4, UptoOrder DEF TaskOK
  <2>6. article'[p].approved # Nothing => Upto(writer[w].content, article'[p].approved)
    BY <2>2, <2>3 DEF TaskOK
  <2>7. Claimed(p, writer[w].attempt)' => writer[w].content = article'[p].approved
    BY <2>1, <2>2, <2>3 DEF TaskOK, Claimed
  <2>. QED BY <1>1, <2>1, <2>2, <2>3, <2>5, <2>6, <2>7 DEF TaskOK, Claimed
<1>5. ASSUME NEW p \in Articles
      PROVE  PageOK(p)'
  <2>1. PageOK(p) BY DEF Sound
  <2>2. /\ Upto(article[p].content, article'[p].content)
        /\ article'[p].status \in {"publishing", "published"} =>
              article'[p].status = article[p].status /\ article'[p].approved = article[p].approved
        /\ article'[p].attempts = article[p].attempts
        /\ article'[p].dispatched = article[p].dispatched
    BY DEF Softens, RowsSoften
  <2>3. Committed(p)' => Committed(p) /\ article'[p].approved = article[p].approved
    BY <1>2, <2>2 DEF Committed
  <2>4. /\ article[p].content \in Perhaps /\ branch.page[p] \in Perhaps
        /\ article'[p].content \in Perhaps
    BY ContentTypes, ContentsAfter
  <2>5. Upto(branch.page[p], article'[p].content) BY <2>1, <2>2, <2>4, UptoOrder DEF PageOK
  <2>. QED BY <1>1, <2>1, <2>3, <2>5 DEF PageOK
<1>6. Listing'
  <2>1. \A p \in Articles : article'[p].card = article[p].card BY DEF Softens, RowsSoften
  <2>. QED BY <1>1, <1>2, <2>1 DEF Listing, Sound
<1>7. TasksOK'
  <2>1. ASSUME NEW task \in publishTasks'
        PROVE  task[2] <= article'[task[1]].attempts
    <3>1. CASE task \in publishTasks
      <4>1. task[1] \in Articles /\ task[2] <= article[task[1]].attempts BY <3>1 DEF Typed, Sound, TasksOK
      <4>. QED BY <4>1 DEF Softens, RowsSoften
    <3>2. CASE \E w \in Writers : Writing(w) /\ task = <<writer[w].post, writer[w].attempt>>
      <4>1. PICK w \in Writers : Writing(w) /\ task = <<writer[w].post, writer[w].attempt>> BY <3>2
      <4>2. TaskOK(w) /\ writer[w].post \in Articles BY <4>1, ContentTypes DEF Sound
      <4>3. writer[w].attempt <= article[writer[w].post].attempts BY <4>2 DEF TaskOK
      <4>4. article'[writer[w].post].attempts = article[writer[w].post].attempts BY <4>2 DEF Softens, RowsSoften
      <4>. QED BY <4>1, <4>3, <4>4
    <3>. QED BY <3>1, <3>2 DEF Softens, RowsSoften
  <2>. QED BY <2>1 DEF TasksOK
<1>. QED BY <1>3, <1>4, <1>5, <1>6, <1>7 DEF Sound

LEMMA UnchangedSoftens ==
    ASSUME Typed
    PROVE  article' = article => RowsSoften
BY ContentTypes, UptoOrder DEF RowsSoften

LEMMA StopsSoften ==
    ASSUME Typed, NEW p \in Articles, NEW attempt, NEW status \in {"failed", "approved"},
           \/ article' = SettledAs(p, attempt, status)
           \/ article' = StoppedStale(p)
           \/ article' = article
    PROVE  RowsSoften
<1>1. article \in [Articles -> Row] /\ article[p] \in Row BY DEF Typed
<1>2. \A q \in Articles : Upto(article[q].content, article[q].content) BY ContentTypes, UptoOrder
<1>3. CASE article' = article BY <1>3, UnchangedSoftens
<1>4. CASE article' = [article EXCEPT ![p].status = status]
  BY <1>4, <1>1, <1>2 DEF RowsSoften, Row
<1>5. CASE article' = [article EXCEPT ![p] = Withdrawn(@)]
  BY <1>5, <1>1, <1>2 DEF RowsSoften, Row, Withdrawn
<1>. QED BY <1>3, <1>4, <1>5 DEF SettledAs, StoppedStale

LEMMA EndedSoftens ==
    ASSUME Typed, NEW w \in Writers, RowsSoften, TaskOver(w) \/ writer' = writer,
           publishTasks' \subseteq publishTasks, UNCHANGED <<branch, everApproved, overlapped>>
    PROVE  Softens
BY DEF Softens, TaskOver, Typed

LEMMA PeopleSoften ==
    ASSUME Typed, NEW p \in Articles,
           \/ UpdateContent(p) \/ ReplaceImage(p) \/ SubmitForReview(p)
           \/ RequestChanges(p) \/ SweepStuckArticle(p)
    PROVE  Softens
<1>1. /\ article \in [Articles -> Row] /\ article[p] \in Row /\ article[p].content \in Contents
      /\ \A q \in Articles : Upto(article[q].content, article[q].content)
  BY ContentTypes, UptoOrder DEF Typed, Row
<1>2. RowsSoften
  <2>1. CASE UpdateContent(p)
    <3>. DEFINE edited == [article[p] EXCEPT !.content.text = @ + 1]
    <3>1. Upto(article[p].content, edited.content) BY <1>1, Bounds DEF Row, Contents, Upto
    <3>2. /\ edited.approved = article[p].approved /\ edited.attempts = article[p].attempts
          /\ edited.status = article[p].status /\ edited.card = article[p].card
          /\ edited.dispatched = article[p].dispatched
      BY <1>1 DEF Row
    <3>3. \/ /\ article' = [article EXCEPT ![p] = edited]
             /\ article[p].status \notin {"publishing", "published"}
          \/ article' = [article EXCEPT ![p] = Withdrawn(edited)]
      BY <2>1 DEF UpdateContent
    <3>4. /\ Withdrawn(edited).content = edited.content /\ Withdrawn(edited).approved = Nothing
          /\ Withdrawn(edited).status = "pending_review" /\ Withdrawn(edited).attempts = edited.attempts
          /\ Withdrawn(edited).card = edited.card /\ Withdrawn(edited).dispatched = edited.dispatched
      BY <1>1 DEF Row, Withdrawn
    <3>5. CASE article' = [article EXCEPT ![p] = edited] /\ article[p].status \notin {"publishing", "published"}
      BY <3>1, <3>2, <3>5, <1>1 DEF RowsSoften
    <3>6. CASE article' = [article EXCEPT ![p] = Withdrawn(edited)]
      <4>. HIDE DEF edited
      <4>. QED BY <3>1, <3>2, <3>4, <3>6, <1>1 DEF RowsSoften
    <3>. QED BY <3>3, <3>5, <3>6
  <2>2. CASE ReplaceImage(p)
    <3>. DEFINE other == [article[p] EXCEPT !.content.image = @ + 1]
    <3>1. Upto(article[p].content, other.content) BY <1>1, Bounds DEF Row, Contents, Upto
    <3>2. /\ other.approved = article[p].approved /\ other.attempts = article[p].attempts
          /\ other.status = article[p].status /\ other.card = article[p].card
          /\ other.dispatched = article[p].dispatched
      BY <1>1 DEF Row
    <3>3. article' = [article EXCEPT ![p] = other] BY <1>1, <2>2 DEF ReplaceImage
    <3>. QED BY <3>1, <3>2, <3>3, <1>1 DEF RowsSoften
  <2>3. CASE SubmitForReview(p) BY <2>3, <1>1 DEF SubmitForReview, RowsSoften, Row
  <2>4. CASE RequestChanges(p) BY <2>4, <1>1 DEF RequestChanges, RowsSoften, Row
  <2>5. CASE SweepStuckArticle(p) BY <2>5, <1>1 DEF SweepStuckArticle, RowsSoften, Row
  <2>. QED BY <2>1, <2>2, <2>3, <2>4, <2>5
<1>3. UNCHANGED <<branch, everApproved, overlapped, writer, publishTasks>>
  BY DEF UpdateContent, ReplaceImage, SubmitForReview, RequestChanges, SweepStuckArticle, OnlyArticle
<1>. QED BY <1>2, <1>3 DEF Softens

LEMMA FaultSoftens ==
    ASSUME Typed, NEW w \in Writers, WriterDies(w) \/ PublishCrashes(w)
    PROVE  Softens
<1>1. /\ article' = article /\ TaskOver(w) /\ UNCHANGED <<branch, everApproved, overlapped>>
      /\ Writing(w)
  BY DEF WriterDies, PublishCrashes, Writing, NotWriting
<1>2. \/ publishTasks' = publishTasks \cup {<<writer[w].post, writer[w].attempt>>}
      \/ publishTasks' = publishTasks
  BY DEF WriterDies, PublishCrashes
<1>. QED BY <1>1, <1>2, UnchangedSoftens DEF Softens, TaskOver, Typed

-----------------------------------------------------------------------------
(* WriterSteps that take something forward.                                      *)

LEMMA ApprovedSound ==
    ASSUME Typed, Typed', Sound, NEW p \in Articles, ApproveArticle(p)
    PROVE  Sound'
<1>1. /\ article' = [article EXCEPT ![p] = [@ EXCEPT !.status = "approved", !.approved = article[p].content]]
      /\ everApproved' = [everApproved EXCEPT ![p] = @ \cup {article[p].content}]
      /\ UNCHANGED <<branch, writer, publishTasks, overlapped>>
  BY DEF ApproveArticle, OnlyArticle
<1>2. article \in [Articles -> Row] /\ article[p] \in Row /\ everApproved \in [Articles -> SUBSET Contents]
  BY DEF Typed
<1>3. /\ article'[p].status = "approved" /\ article'[p].approved = article[p].content
      /\ article'[p].content = article[p].content /\ article'[p].attempts = article[p].attempts
      /\ article'[p].card = article[p].card
      /\ article[p].content \in everApproved'[p]
      /\ \A q \in Articles : q # p => article'[q] = article[q]
      /\ \A q \in Articles : everApproved[q] \subseteq everApproved'[q]
  BY <1>1, <1>2 DEF Row
<1>4. \A q \in Articles : Upto(article[q].content, article[q].content) BY ContentTypes, UptoOrder
<1>5. Approvals'
  <2>1. ASSUME NEW q \in Articles
        PROVE  /\ article'[q].approved # Nothing =>
                    article'[q].approved \in everApproved'[q] /\ Upto(article'[q].approved, article'[q].content)
               /\ branch'.page[q] # Nothing => branch'.page[q] \in everApproved'[q]
               /\ article'[q].content # Nothing
               /\ article'[q].status \in {"publishing", "published"} => article'[q].approved # Nothing
    BY <1>1, <1>3, <1>4, ContentsAfter DEF Sound, Approvals
  <2>2. \A w \in Writers : Writing(w)' => writer'[w].content \in everApproved'[writer'[w].post]
    BY <1>1, <1>3, ContentTypes DEF Sound, Approvals, Writing
  <2>. QED BY <2>1, <2>2 DEF Approvals
<1>6. ASSUME NEW w \in Writers, Writing(w)'
      PROVE  TaskOK(w)'
  <2>1. Writing(w) /\ TaskOK(w) /\ writer[w].post \in Articles /\ writer'[w] = writer[w]
    BY <1>1, <1>6, ContentTypes DEF Sound, Writing
  <2>2. CASE writer[w].post # p BY <2>1, <2>2, <1>1, <1>3 DEF TaskOK, Claimed
  <2>3. CASE writer[w].post = p BY <2>1, <2>3, <1>1, <1>3 DEF TaskOK, Claimed
  <2>. QED BY <2>2, <2>3
<1>7. ASSUME NEW q \in Articles
      PROVE  PageOK(q)'
  <2>1. PageOK(q) BY DEF Sound
  <2>2. CASE q # p BY <2>1, <2>2, <1>1, <1>3 DEF PageOK, Committed, Writing
  <2>3. CASE q = p BY <2>1, <2>3, <1>1, <1>3 DEF PageOK, Committed, Writing
  <2>. QED BY <2>2, <2>3
<1>8. Listing'
  <2>1. \A q \in Articles : article'[q].card = article[q].card BY <1>3
  <2>. QED BY <2>1, <1>1 DEF Sound, Listing, Writing
<1>9. TasksOK'
  <2>1. \A q \in Articles : article'[q].attempts = article[q].attempts BY <1>3
  <2>. QED BY <2>1, <1>1 DEF Sound, TasksOK, Typed
<1>. QED BY <1>5, <1>6, <1>7, <1>8, <1>9 DEF Sound

LEMMA StartedSound ==
    ASSUME Typed, Typed', Sound, NEW p \in Articles, StartPublish(p)
    PROVE  Sound'
<1>1. article \in [Articles -> Row] /\ article[p] \in Row /\ article[p].approved # Nothing
  BY DEF Typed, StartPublish
<1>2. UNCHANGED <<branch, writer, everApproved, overlapped>> BY DEF StartPublish
<1>3. CASE article[p].content # article[p].approved
  <2>1. article' = [article EXCEPT ![p] = Withdrawn(@)] /\ publishTasks' = publishTasks
    BY <1>3, Zenon DEF StartPublish
  <2>2. \A q \in Articles : Upto(article[q].content, article[q].content) BY ContentTypes, UptoOrder
  <2>3. RowsSoften BY <2>1, <2>2, <1>1 DEF RowsSoften, Row, Withdrawn
  <2>4. Softens BY <2>1, <2>3, <1>2 DEF Softens
  <2>. QED BY <2>4, SoftenedSound
<1>4. CASE article[p].content = article[p].approved
  <2>1. article' = [article EXCEPT ![p] = [@ EXCEPT !.status = "publishing", !.dispatched = FALSE,
                                                    !.attempts = article[p].attempts + 1]]
    BY <1>4 DEF StartPublish
  <2>2. publishTasks' = publishTasks \cup {<<p, article[p].attempts + 1>>} BY <1>4, Zenon DEF StartPublish
  <2>3. /\ article'[p].status = "publishing" /\ article'[p].approved = article[p].approved
        /\ article'[p].content = article[p].content /\ article'[p].attempts = article[p].attempts + 1
        /\ article'[p].card = article[p].card /\ article'[p].dispatched = FALSE
        /\ \A q \in Articles : q # p => article'[q] = article[q]
    BY <2>1, <1>1 DEF Row
  <2>4. \A q \in Articles : article[q].attempts \in Nat BY <1>1, Bounds DEF Row
  <2>5. Approvals' BY <2>3, <1>1, <1>2, ContentTypes DEF Sound, Approvals, Writing
  <2>6. ASSUME NEW w \in Writers, Writing(w)
        PROVE  /\ TaskOK(w)'
               /\ writer[w].post = p => writer[w].attempt # article'[p].attempts
    <3>1. /\ TaskOK(w) /\ writer[w].post \in Articles /\ writer'[w] = writer[w]
          /\ writer[w].attempt \in Nat
      BY <1>2, <2>6, ContentTypes, TaskType, Bounds DEF Sound
    <3>2. CASE writer[w].post # p BY <3>1, <3>2, <2>3, <1>2 DEF TaskOK, Claimed
    <3>3. CASE writer[w].post = p
      <4>1. writer[w].attempt <= article[p].attempts BY <3>1, <3>3 DEF TaskOK
      <4>2. writer[w].attempt # article'[p].attempts /\ writer[w].attempt <= article'[p].attempts
        BY <4>1, <3>1, <2>3, <2>4
      <4>. QED BY <4>2, <3>1, <3>3, <2>3, <1>2 DEF TaskOK, Claimed
    <3>. QED BY <3>2, <3>3
  <2>7. ASSUME NEW q \in Articles
        PROVE  PageOK(q)'
    <3>1. PageOK(q) BY DEF Sound
    <3>2. CASE q # p BY <3>1, <3>2, <1>2, <2>3 DEF PageOK, Committed, Writing
    <3>3. CASE q = p
      <4>1. ~Committed(p)' BY <2>3, <2>6, <1>2 DEF Committed, Writing
      <4>. QED BY <4>1, <3>1, <3>3, <1>2, <2>3 DEF PageOK
    <3>. QED BY <3>2, <3>3
  <2>8. Listing'
    <3>1. \A q \in Articles : article'[q].card = article[q].card BY <2>3
    <3>. QED BY <3>1, <1>2 DEF Sound, Listing, Writing
  <2>9. TasksOK'
    <3>1. ASSUME NEW task \in publishTasks' PROVE task[2] <= article'[task[1]].attempts
      <4>1. CASE task = <<p, article[p].attempts + 1>> BY <4>1, <2>3, <2>4
      <4>2. CASE task \in publishTasks
        <5>1. task[1] \in Articles /\ task[2] \in Nat /\ task[2] <= article[task[1]].attempts
          BY <4>2, Bounds DEF Typed, Sound, TasksOK
        <5>. QED BY <5>1, <2>3, <2>4
      <4>. QED BY <4>1, <4>2, <2>2
    <3>. QED BY <3>1 DEF TasksOK
  <2>10. \A w \in Writers : Writing(w)' => TaskOK(w)' BY <2>6, <1>2 DEF Writing
  <2>. QED BY <2>5, <2>7, <2>8, <2>9, <2>10 DEF Sound
<1>. QED BY <1>3, <1>4

\* The task is taken up for the content that is approved.
LEMMA TakenSound ==
    ASSUME Typed, Typed', Sound, NEW w \in Writers, TakePublishTask(w)
    PROVE  Sound'
<1>. PICK task \in publishTasks :
       LET p == task[1]
           attempt == task[2]
       IN /\ writer[w] = NotWriting
          /\ publishTasks' = publishTasks \ {task}
          /\ \/ /\ ~ClaimMatches(p, attempt)
                /\ article' = IF Claimed(p, attempt) THEN StoppedStale(p) ELSE article
                /\ UNCHANGED <<writer, overlapped>>
             \/ /\ Claimed(p, attempt)
                /\ article' = SettledAs(p, attempt, "approved")
                /\ UNCHANGED <<writer, overlapped>>
             \/ /\ ClaimMatches(p, attempt)
                /\ WritesOn(w, [step |-> "cards", post |-> p, attempt |-> attempt, content |-> article[p].content,
                                committed |-> article[p].card # Nothing, listed |-> {}, tries |-> 0,
                                moved |-> FALSE, same |-> FALSE])
                /\ overlapped' = (overlapped \/ \E v \in Writers : writer[v] # NotWriting)
                /\ UNCHANGED article
          /\ UNCHANGED <<branch, polls, everApproved, changes, blogFaults>>
  BY Zenon DEF TakePublishTask
<1>. DEFINE p == task[1]
            attempt == task[2]
            taken == [step |-> "cards", post |-> p, attempt |-> attempt, content |-> article[p].content,
                      committed |-> article[p].card # Nothing, listed |-> {}, tries |-> 0,
                      moved |-> FALSE, same |-> FALSE]
<1>1. p \in Articles BY DEF Typed
<1>2. UNCHANGED <<branch, everApproved>> /\ publishTasks' \subseteq publishTasks OBVIOUS
<1>3. CASE UNCHANGED <<writer, overlapped>>
  <2>1. \/ article' = SettledAs(p, attempt, "approved")
        \/ article' = StoppedStale(p)
        \/ article' = article
    BY Zenon
  <2>2. RowsSoften BY <1>1, <2>1, StopsSoften
  <2>. QED BY <1>2, <1>3, <2>2, EndedSoftens, SoftenedSound
<1>4. CASE /\ ClaimMatches(p, attempt) /\ WritesOn(w, taken)
           /\ overlapped' = (overlapped \/ \E v \in Writers : writer[v] # NotWriting)
           /\ UNCHANGED article
  <2>1. /\ article[p].status = "publishing" /\ article[p].attempts = attempt
        /\ article[p].content = article[p].approved
    BY <1>4 DEF ClaimMatches, Claimed
  <2>2. /\ writer'[w] = taken /\ \A v \in Writers : v # w => writer'[v] = writer[v]
        /\ ~Writing(w) /\ article' = article
    BY <1>4 DEF WritesOn, Typed, Writing
  <2>3. Approvals'
    <3>1. taken.content \in everApproved[p] BY <2>1, <1>1 DEF Sound, Approvals
    <3>. QED BY <3>1, <2>2, <1>2 DEF Sound, Approvals, Writing
  <2>4. ASSUME NEW v \in Writers, Writing(v)'
        PROVE  TaskOK(v)'
    <3>1. CASE v # w BY <3>1, <2>2, <2>4, <1>2 DEF Sound, TaskOK, Claimed, Writing
    <3>2. CASE v = w
      <4>1. /\ article[p].content # Nothing /\ Upto(article[p].content, article[p].content)
            /\ article[p].attempts \in Nat
        BY <1>1, ContentTypes, UptoOrder, RowType, Bounds
      <4>. QED BY <3>2, <4>1, <2>1, <2>2, <1>1, <1>2 DEF TaskOK, Claimed
    <3>. QED BY <3>1, <3>2
  <2>5. ASSUME NEW q \in Articles
        PROVE  PageOK(q)'
    <3>1. Committed(q)' => Committed(q) BY <2>2 DEF Committed, Writing
    <3>. QED BY <3>1, <2>2, <1>2 DEF Sound, PageOK
  <2>6. Listing'
    <3>1. SUFFICES ASSUME ~overlapped' PROVE Listing' BY DEF Listing
    <3>2. ~overlapped /\ \A v \in Writers : ~Writing(v) BY <3>1, <1>4, Zenon DEF Writing
    <3>3. \A v \in Writers : Writing(v)' => v = w BY <3>2, <2>2 DEF Writing
    <3>. QED BY <3>2, <3>3, <2>2, <1>2 DEF Sound, Listing, Writing
  <2>7. TasksOK' BY <2>2, <1>2 DEF Sound, TasksOK
  <2>. QED BY <2>3, <2>4, <2>5, <2>6, <2>7 DEF Sound
<1>. QED BY <1>3, <1>4, Zenon

\* A task goes on: it reads, compares, or starts again after another's write.
Advances(w, next) ==
    /\ WritesOn(w, next)
    /\ UNCHANGED <<article, branch, publishTasks, everApproved, overlapped>>
    /\ Writing(w) /\ next # NotWriting
    /\ next.post = writer[w].post /\ next.attempt = writer[w].attempt /\ next.content = writer[w].content
    /\ next.step = "write" /\ ~next.moved => Upto(branch.page[next.post], next.content)
    /\ next.step = "guard" /\ next.same =>
         Upto(next.content, branch.page[next.post]) /\ branch.listed = next.listed
    /\ next.step \in {"record", "dispatch"} => branch.page[next.post] = article[next.post].approved
    /\ ~overlapped =>
         /\ next.step \in {"head", "guard", "write"} =>
              /\ next.post \in next.listed
              /\ \A p \in Articles : article[p].card # Nothing => p \in next.listed
         /\ next.step \in {"record", "dispatch"} => next.post \in branch.listed

LEMMA AdvancedSound ==
    ASSUME Typed, Typed', Sound, NEW w \in Writers, NEW next, Advances(w, next)
    PROVE  Sound'
<1>1. /\ writer'[w] = next /\ \A v \in Writers : v # w => writer'[v] = writer[v]
      /\ Writing(w) /\ next # NotWriting
      /\ next.post = writer[w].post /\ next.attempt = writer[w].attempt /\ next.content = writer[w].content
  BY DEF Advances, WritesOn, Typed
<1>2. UNCHANGED <<article, branch, publishTasks, everApproved, overlapped>> BY DEF Advances
<1>3. \A v \in Writers : Writing(v)' => /\ Writing(v) /\ writer'[v].post = writer[v].post
                                       /\ writer'[v].attempt = writer[v].attempt
                                       /\ writer'[v].content = writer[v].content
  BY <1>1 DEF Writing
<1>4. Approvals' BY <1>2, <1>3 DEF Sound, Approvals
<1>5. ASSUME NEW v \in Writers, Writing(v)'
      PROVE  TaskOK(v)'
  <2>1. TaskOK(v) BY <1>3, <1>5 DEF Sound
  <2>2. CASE v # w BY <2>1, <2>2, <1>1, <1>2 DEF TaskOK, Claimed
  <2>3. CASE v = w BY <2>1, <2>3, <1>1, <1>2 DEF TaskOK, Claimed, Advances
  <2>. QED BY <2>2, <2>3
<1>6. ASSUME NEW p \in Articles
      PROVE  PageOK(p)'
  <2>1. PageOK(p) BY DEF Sound
  <2>2. CASE Committed(p)' /\ ~Committed(p)
    <3>1. PICK v \in Writers : /\ Writing(v)' /\ writer'[v].step \in {"record", "dispatch"}
                               /\ writer'[v].post = p /\ writer'[v].attempt = article'[p].attempts
      BY <2>2, <1>2 DEF Committed
    <3>2. v = w BY <3>1, <2>2, <1>1, <1>2 DEF Committed, Writing
    <3>3. branch.page[p] = article[p].approved BY <3>1, <3>2, <1>1 DEF Advances
    <3>. QED BY <3>3, <2>1, <1>2 DEF PageOK
  <2>3. CASE ~(Committed(p)' /\ ~Committed(p)) BY <2>1, <2>3, <1>2 DEF PageOK
  <2>. QED BY <2>2, <2>3
<1>7. Listing'
  <2>1. SUFFICES ASSUME ~overlapped' PROVE Listing' BY DEF Listing
  <2>2. ~overlapped BY <2>1, <1>2
  <2>3. \A v \in Writers : Writing(v)' => v = w BY <2>2, <1>1, <1>3 DEF Sound, Listing
  <2>4. \A p \in Articles : article[p].card # Nothing => p \in branch.listed BY <2>2 DEF Sound, Listing
  <2>5. ASSUME NEW v \in Writers, Writing(v)'
        PROVE  /\ writer'[v].step \in {"head", "guard", "write"} =>
                    /\ writer'[v].post \in writer'[v].listed
                    /\ \A p \in Articles : article[p].card # Nothing => p \in writer'[v].listed
               /\ writer'[v].step = "guard" /\ writer'[v].same => branch.listed = writer'[v].listed
               /\ writer'[v].step \in {"record", "dispatch"} => writer'[v].post \in branch.listed
    <3>1. writer'[v] = next BY <2>3, <2>5, <1>1
    <3>. QED BY <3>1, <2>2 DEF Advances
  <2>. QED BY <2>3, <2>4, <2>5, <1>2 DEF Listing
<1>8. TasksOK' BY <1>2 DEF Sound, TasksOK
<1>. QED BY <1>4, <1>5, <1>6, <1>7, <1>8 DEF Sound

LEMMA ReadingSound ==
    ASSUME Typed, Typed', Sound, NEW w \in Writers,
           ReadCards(w) \/ ReadHead(w) \/ Guard(w) \/ RefMoved(w) \/ GitHubFails(w)
    PROVE  Sound'
<1>. DEFINE p == writer[w].post
            attempt == writer[w].attempt
<1>1. writer[w].step # "idle" BY DEF ReadCards, ReadHead, Guard, RefMoved, GitHubFails
<1>2. /\ writer[w] \in Task /\ p \in Articles /\ Writing(w)
      /\ writer[w].content \in Perhaps /\ branch.page[p] \in Perhaps
      /\ article[p].content \in Perhaps /\ article[p].approved \in Perhaps
  BY <1>1, TaskType, ContentTypes DEF Writing
<1>3. TaskOK(w) /\ PageOK(p) /\ Approvals /\ Listing BY <1>2 DEF Sound
<1>4. UNCHANGED <<branch, publishTasks, everApproved, overlapped>>
  BY DEF ReadCards, ReadHead, Guard, RefMoved, GitHubFails
<1>5. ASSUME TaskOver(w),
             \/ article' = SettledAs(p, attempt, "failed")
             \/ article' = StoppedStale(p)
      PROVE  Sound'
  <2>1. RowsSoften BY <1>2, <1>5, StopsSoften
  <2>. QED BY <2>1, <1>4, <1>5, EndedSoftens, SoftenedSound
<1>6. CASE ReadCards(w)
  <2>. DEFINE next == [writer[w] EXCEPT !.step = "head",
                                        !.listed = {q \in Articles : article[q].card # Nothing} \cup {writer[w].post}]
  <2>1. WritesOn(w, next) /\ article' = article BY <1>6 DEF ReadCards
  <2>2. /\ next.step = "head" /\ next.post = p /\ next.attempt = attempt /\ next.content = writer[w].content
        /\ next.listed = {q \in Articles : article[q].card # Nothing} \cup {p}
    BY <1>2 DEF Task
  <2>3. next # NotWriting BY <2>2 DEF NotWriting
  <2>. HIDE DEF next
  <2>4. Advances(w, next) BY <2>1, <2>2, <2>3, <1>2, <1>4 DEF Advances
  <2>. QED BY <2>4, AdvancedSound
<1>7. CASE ReadHead(w)
  <2>. DEFINE next == [writer[w] EXCEPT !.step = "guard", !.moved = FALSE, !.same = NothingToCommit(w)]
  <2>1. CASE article' = SettledAs(p, attempt, "failed") /\ TaskOver(w) BY <2>1, <1>5
  <2>2. CASE WritesOn(w, next) /\ article' = article
    <3>1. /\ next.step = "guard" /\ next.post = p /\ next.attempt = attempt /\ next.content = writer[w].content
          /\ next.listed = writer[w].listed
      BY <1>2 DEF Task
    <3>2. next.same = NothingToCommit(w) BY <1>2, Zenon DEF Task
    <3>3. next # NotWriting BY <3>1 DEF NotWriting
    <3>4. next.same => writer[w].content = branch.page[p] /\ branch.listed = writer[w].listed
      BY <3>2, Zenon DEF NothingToCommit
    <3>5. Upto(writer[w].content, writer[w].content) BY <1>2, UptoOrder
    <3>6. ~overlapped => /\ p \in writer[w].listed
                         /\ \A q \in Articles : article[q].card # Nothing => q \in writer[w].listed
      BY <1>2, <1>3, <1>7 DEF Listing, ReadHead
    <3>. HIDE DEF next
    <3>7. Advances(w, next) BY <3>1, <3>3, <3>4, <3>5, <3>6, <2>2, <1>2, <1>4 DEF Advances
    <3>. QED BY <3>7, AdvancedSound
  <2>. QED BY <2>1, <2>2, <1>7, Zenon DEF ReadHead
<1>8. CASE Guard(w)
  <2>. DEFINE next == [writer[w] EXCEPT !.step = IF writer[w].same THEN "record" ELSE "write"]
  <2>1. CASE article' = StoppedStale(p) /\ TaskOver(w) BY <2>1, <1>5
  <2>2. CASE ClaimMatches(p, attempt) /\ WritesOn(w, next) /\ article' = article
    <3>1. /\ next.step = (IF writer[w].same THEN "record" ELSE "write")
          /\ next.post = p /\ next.attempt = attempt /\ next.content = writer[w].content
          /\ next.listed = writer[w].listed /\ next.same = writer[w].same
      BY <1>2 DEF Task
    <3>2. next # NotWriting BY <3>1 DEF NotWriting
    <3>3. /\ writer[w].content = article[p].approved /\ article[p].content = article[p].approved
      BY <1>3, <2>2 DEF TaskOK, ClaimMatches
    <3>4. Upto(branch.page[p], writer[w].content) BY <3>3, <1>3 DEF PageOK
    <3>5. writer[w].same => branch.page[p] = writer[w].content
      BY <3>4, <1>2, <1>3, <1>8, UptoOrder DEF TaskOK, Guard
    <3>6. ~overlapped =>
            /\ p \in writer[w].listed
            /\ \A q \in Articles : article[q].card # Nothing => q \in writer[w].listed
            /\ writer[w].same => branch.listed = writer[w].listed
      BY <1>2, <1>3, <1>8 DEF Listing, Guard
    <3>. HIDE DEF next
    <3>7. Advances(w, next) BY <3>1, <3>2, <3>3, <3>4, <3>5, <3>6, <2>2, <1>2, <1>4 DEF Advances
    <3>. QED BY <3>7, AdvancedSound
  <2>. QED BY <2>1, <2>2, <1>8, Zenon DEF Guard
<1>9. CASE RefMoved(w)
  <2>. DEFINE next == [writer[w] EXCEPT !.step = "cards", !.tries = @ + 1]
  <2>1. CASE article' = SettledAs(p, attempt, "failed") /\ TaskOver(w) BY <2>1, <1>5
  <2>2. CASE WritesOn(w, next) /\ article' = article
    <3>1. next.step = "cards" /\ next.post = p /\ next.attempt = attempt /\ next.content = writer[w].content
      BY <1>2 DEF Task
    <3>2. next # NotWriting BY <3>1 DEF NotWriting
    <3>. HIDE DEF next
    <3>3. Advances(w, next) BY <3>1, <3>2, <2>2, <1>2, <1>4 DEF Advances
    <3>. QED BY <3>3, AdvancedSound
  <2>. QED BY <2>1, <2>2, <1>9, Zenon DEF RefMoved
<1>10. CASE GitHubFails(w) BY <1>10, <1>5 DEF GitHubFails
<1>. QED BY <1>6, <1>7, <1>8, <1>9, <1>10

\* The write: its page is the one every other writable claim would be
\* compared with, and no other task that read an earlier head writes again.
LEMMA WrittenSound ==
    ASSUME Typed, Typed', Sound, NEW w \in Writers, UpdateRef(w)
    PROVE  Sound'
<1>. DEFINE p == writer[w].post
            attempt == writer[w].attempt
            others == [v \in Writers |->
                         IF writer[v] = NotWriting THEN NotWriting ELSE [writer[v] EXCEPT !.moved = TRUE]]
            next == [writer[w] EXCEPT !.step = "record"]
<1>1. writer[w].step = "write" /\ ~writer[w].moved BY DEF UpdateRef, FastForward
<1>2. /\ writer[w] \in Task /\ p \in Articles /\ Writing(w)
      /\ writer[w].content \in Perhaps /\ branch.page[p] \in Perhaps /\ writer[w].content # Nothing
      /\ article[p].content \in Perhaps /\ article[p].approved \in Perhaps
  BY <1>1, TaskType, ContentTypes DEF Writing, NotWriting
<1>3. TaskOK(w) /\ PageOK(p) /\ Approvals /\ Listing BY <1>2 DEF Sound
<1>4. UNCHANGED <<publishTasks, everApproved, overlapped>> BY DEF UpdateRef
<1>5. /\ branch'.page[p] = writer[w].content /\ branch'.listed = writer[w].listed
      /\ \A q \in Articles : q # p => branch'.page[q] = branch.page[q]
  BY <1>2 DEF UpdateRef, Typed
<1>6. \/ writer' = [others EXCEPT ![w] = next] /\ article' = article
      \/ writer' = [others EXCEPT ![w] = NotWriting] /\ article' = SettledAs(p, attempt, "failed")
  BY Zenon DEF UpdateRef
<1>7. \A v \in Writers : v # w /\ Writing(v)' =>
        /\ Writing(v) /\ writer'[v].post = writer[v].post /\ writer'[v].attempt = writer[v].attempt
        /\ writer'[v].content = writer[v].content /\ writer'[v].step = writer[v].step
        /\ writer'[v].same = writer[v].same /\ writer'[v].moved
  <2>1. ASSUME NEW v \in Writers, v # w, Writing(v)'
        PROVE  Writing(v) /\ writer[v] \in Task /\ writer'[v] = [writer[v] EXCEPT !.moved = TRUE]
    <3>1. writer'[v] = others[v] BY <1>6, <2>1
    <3>2. writer[v] # NotWriting BY <3>1, <2>1 DEF Writing
    <3>. QED BY <3>1, <3>2 DEF Writing, Typed
  <2>. QED BY <2>1 DEF Task
<1>8. Writing(w)' => /\ article' = article /\ writer'[w].step = "record"
                     /\ writer'[w].post = p /\ writer'[w].attempt = attempt
                     /\ writer'[w].content = writer[w].content
  BY <1>2, <1>6 DEF Writing, Task
<1>9. RowsSoften BY <1>2, <1>6, StopsSoften, UnchangedSoftens
<1>10. /\ Upto(branch.page[p], writer[w].content) /\ Upto(writer[w].content, article[p].content)
       /\ article[p].approved # Nothing => Upto(writer[w].content, article[p].approved)
       /\ Claimed(p, attempt) => writer[w].content = article[p].approved
  BY <1>1, <1>3 DEF TaskOK
<1>11. \A q \in Articles : article'[q].content = article[q].content /\ article'[q].approved = article[q].approved
  BY <1>2, <1>6 DEF SettledAs, Typed, Row
<1>12. \A q \in Articles : Upto(article[q].content, article[q].content) BY ContentTypes, UptoOrder
<1>13. Approvals'
  <2>1. \A q \in Articles : branch'.page[q] # Nothing => branch'.page[q] \in everApproved'[q]
    BY <1>2, <1>3, <1>4, <1>5 DEF Approvals
  <2>2. \A v \in Writers : Writing(v)' => writer'[v].content \in everApproved'[writer'[v].post]
    BY <1>2, <1>3, <1>4, <1>7, <1>8 DEF Approvals
  <2>3. \A q \in Articles : article'[q].status \in {"publishing", "published"} => article'[q].approved # Nothing
    BY <1>3, <1>9 DEF Approvals, RowsSoften
  <2>. QED BY <2>1, <2>2, <2>3, <1>3, <1>4, <1>11 DEF Approvals
<1>14. ASSUME NEW v \in Writers, Writing(v)'
       PROVE  TaskOK(v)'
  <2>1. /\ Writing(v) /\ writer'[v].post = writer[v].post /\ writer'[v].attempt = writer[v].attempt
        /\ writer'[v].content = writer[v].content
    BY <1>2, <1>7, <1>8, <1>14
  <2>2. TaskOK(v) /\ writer[v].post \in Articles /\ writer[v].content \in Perhaps
    BY <2>1, ContentTypes DEF Sound
  <2>3. Claimed(writer[v].post, writer[v].attempt)' => Claimed(writer[v].post, writer[v].attempt)
    BY <2>1, <2>2, <1>9 DEF Claimed, RowsSoften
  <2>4. article'[writer[v].post].attempts = article[writer[v].post].attempts BY <2>2, <1>9 DEF RowsSoften
  <2>5. ~(writer'[v].step = "write" /\ ~writer'[v].moved) BY <1>7, <1>8, <1>14
  <2>6. writer'[v].step = "guard" /\ writer'[v].same => Upto(writer[v].content, branch'.page[writer[v].post])
    <3>1. SUFFICES ASSUME writer'[v].step = "guard", writer'[v].same
                   PROVE  Upto(writer[v].content, branch'.page[writer[v].post])
      OBVIOUS
    <3>2. v # w BY <3>1, <1>8, <1>14
    <3>3. Upto(writer[v].content, branch.page[writer[v].post]) BY <3>1, <3>2, <2>2, <1>7, <1>14 DEF TaskOK
    <3>4. CASE writer[v].post = p BY <3>3, <3>4, <2>2, <1>2, <1>5, <1>10, UptoOrder
    <3>5. CASE writer[v].post # p BY <3>3, <3>5, <2>2, <1>5
    <3>. QED BY <3>4, <3>5
  <2>. QED BY <2>1, <2>2, <2>3, <2>4, <2>5, <2>6, <1>11 DEF TaskOK, Claimed
<1>15. ASSUME NEW q \in Articles
       PROVE  PageOK(q)'
  <2>1. PageOK(q) BY DEF Sound
  <2>2. CASE q # p
    <3>1. Committed(q)' => Committed(q) BY <2>2, <1>7, <1>8, <1>9 DEF Committed, RowsSoften
    <3>. QED BY <3>1, <2>1, <2>2, <1>5, <1>11 DEF PageOK
  <2>3. CASE q = p
    <3>1. Upto(branch'.page[q], article'[q].content) BY <2>3, <1>2, <1>5, <1>10, <1>11
    <3>2. Committed(q) => branch.page[q] = article[q].approved BY <2>1 DEF PageOK
    <3>3. Committed(q) => article[q].approved # Nothing BY <1>3 DEF Committed, Approvals
    <3>4. Committed(q) => writer[w].content = article[q].approved
      BY <2>3, <3>2, <3>3, <1>2, <1>10, UptoOrder
    <3>5. ASSUME Committed(q)', ~Committed(q)
          PROVE  Claimed(p, attempt)
      <4>1. /\ article'[q].status = "publishing" /\ article[q].status = "publishing"
            /\ article'[q].attempts = article[q].attempts /\ article'[q].dispatched = article[q].dispatched
        BY <3>5, <1>9 DEF Committed, RowsSoften
      <4>2. PICK v \in Writers : /\ Writing(v)' /\ writer'[v].step \in {"record", "dispatch"}
                                 /\ writer'[v].post = q /\ writer'[v].attempt = article'[q].attempts
        BY <3>5, <4>1 DEF Committed
      <4>3. v = w BY <4>1, <4>2, <3>5, <1>7 DEF Committed
      <4>. QED BY <4>1, <4>2, <4>3, <1>8, <2>3 DEF Claimed
    <3>6. Committed(q)' => branch'.page[q] = article'[q].approved
      BY <2>3, <3>4, <3>5, <1>2, <1>5, <1>10, <1>11
    <3>. QED BY <3>1, <3>6 DEF PageOK
  <2>. QED BY <2>2, <2>3
<1>16. Listing'
  <2>1. SUFFICES ASSUME ~overlapped' PROVE Listing' BY DEF Listing
  <2>2. ~overlapped BY <2>1, <1>4
  <2>3. \A v \in Writers : Writing(v)' => v = w BY <2>2, <1>2, <1>3, <1>7 DEF Listing
  <2>4. \A q \in Articles : article'[q].card # Nothing => q \in branch'.listed
    BY <2>2, <1>1, <1>2, <1>3, <1>5, <1>9 DEF Listing, RowsSoften
  <2>5. p \in branch'.listed BY <2>2, <1>1, <1>2, <1>3, <1>5 DEF Listing
  <2>6. \A v \in Writers : Writing(v)' => writer'[v].step = "record" /\ writer'[v].post = p BY <2>3, <1>8
  <2>. QED BY <2>3, <2>4, <2>5, <2>6 DEF Listing
<1>17. TasksOK' BY <1>4, <1>9 DEF Sound, TasksOK, RowsSoften, Typed
<1>. QED BY <1>13, <1>14, <1>15, <1>16, <1>17 DEF Sound

LEMMA RecordedSound ==
    ASSUME Typed, Typed', Sound, NEW w \in Writers, RecordCommit(w)
    PROVE  Sound'
<1>. DEFINE p == writer[w].post
            attempt == writer[w].attempt
            next == [writer[w] EXCEPT !.step = "dispatch"]
<1>1. writer[w].step = "record" /\ WritesOn(w, next) BY DEF RecordCommit
<1>2. writer[w] \in Task /\ p \in Articles /\ Writing(w) BY <1>1, TaskType DEF Writing, NotWriting
<1>3. UNCHANGED <<branch, publishTasks, everApproved, overlapped>> BY DEF RecordCommit
<1>4. /\ writer'[w].step = "dispatch" /\ writer'[w].post = p /\ writer'[w].attempt = attempt
      /\ writer'[w].content = writer[w].content
      /\ \A v \in Writers : v # w => writer'[v] = writer[v]
  BY <1>1, <1>2 DEF WritesOn, Typed, Task
<1>5. \A q \in Articles :
        /\ article'[q].status = article[q].status /\ article'[q].content = article[q].content
        /\ article'[q].approved = article[q].approved /\ article'[q].attempts = article[q].attempts
        /\ article'[q].dispatched = article[q].dispatched
        /\ q # p => article'[q].card = article[q].card
  BY DEF RecordCommit, Typed, Row
<1>6. \A v \in Writers : Writing(v)' =>
        /\ Writing(v) /\ writer'[v].post = writer[v].post /\ writer'[v].attempt = writer[v].attempt
        /\ writer'[v].content = writer[v].content
        /\ \/ writer'[v] = writer[v]
           \/ v = w /\ writer[v].step = "record" /\ writer'[v].step = "dispatch"
  BY <1>1, <1>2, <1>4 DEF Writing
<1>7. Approvals' BY <1>3, <1>5, <1>6, ContentTypes DEF Sound, Approvals
<1>8. ASSUME NEW v \in Writers, Writing(v)'
      PROVE  TaskOK(v)'
  <2>1. TaskOK(v) /\ writer[v].post \in Articles BY <1>6, <1>8, ContentTypes DEF Sound
  <2>. QED BY <2>1, <1>3, <1>5, <1>6, <1>8 DEF TaskOK, Claimed
<1>9. ASSUME NEW q \in Articles
      PROVE  PageOK(q)'
  <2>1. Committed(q)' => Committed(q) BY <1>5, <1>6 DEF Committed
  <2>. QED BY <2>1, <1>3, <1>5 DEF Sound, PageOK
<1>10. Listing'
  <2>1. SUFFICES ASSUME ~overlapped' PROVE Listing' BY DEF Listing
  <2>2. ~overlapped BY <2>1, <1>3
  <2>3. \A v \in Writers : Writing(v)' => v = w BY <2>2, <1>2, <1>6 DEF Sound, Listing
  <2>4. p \in branch.listed BY <2>2, <1>1, <1>2 DEF Sound, Listing
  <2>5. \A q \in Articles : article'[q].card # Nothing => q \in branch.listed
    BY <2>2, <2>4, <1>5 DEF Sound, Listing
  <2>. QED BY <2>3, <2>4, <2>5, <1>3, <1>4 DEF Listing
<1>11. TasksOK' BY <1>3, <1>5 DEF Sound, TasksOK, Typed
<1>. QED BY <1>7, <1>8, <1>9, <1>10, <1>11 DEF Sound

LEMMA DispatchedSound ==
    ASSUME Typed, Typed', Sound, NEW w \in Writers, DispatchDeploy(w)
    PROVE  Sound'
<1>. DEFINE p == writer[w].post
            attempt == writer[w].attempt
<1>1. writer[w].step = "dispatch" /\ TaskOver(w) /\ UNCHANGED <<branch, publishTasks, everApproved, overlapped>>
  BY DEF DispatchDeploy
<1>2. writer[w] \in Task /\ p \in Articles /\ Writing(w) BY <1>1, TaskType DEF Writing, NotWriting
<1>3. CASE article' = SettledAs(p, attempt, "failed")
  <2>1. RowsSoften BY <1>2, <1>3, StopsSoften
  <2>. QED BY <2>1, <1>1, EndedSoftens, SoftenedSound
<1>4. CASE article' = article
  BY <1>1, <1>4, UnchangedSoftens, EndedSoftens, SoftenedSound
<1>5. CASE Claimed(p, attempt) /\ article' = [article EXCEPT ![p].dispatched = TRUE]
  <2>1. \A q \in Articles :
          /\ article'[q].status = article[q].status /\ article'[q].content = article[q].content
          /\ article'[q].approved = article[q].approved /\ article'[q].attempts = article[q].attempts
          /\ q # p => article'[q].dispatched = article[q].dispatched
          /\ article'[q].card = article[q].card
    <3>1. article \in [Articles -> Row] /\ article[p] \in Row BY <1>2 DEF Typed
    <3>2. article'[p] = [article[p] EXCEPT !.dispatched = TRUE] /\ \A q \in Articles : q # p => article'[q] = article[q]
      BY <1>5, <1>2, <3>1
    <3>. QED BY <3>1, <3>2 DEF Row
  <2>2. \A v \in Writers : Writing(v)' => Writing(v) /\ writer'[v] = writer[v]
    BY <1>1 DEF TaskOver, Writing, Typed
  <2>3. Approvals' BY <1>1, <2>1, <2>2, ContentTypes DEF Sound, Approvals
  <2>4. ASSUME NEW v \in Writers, Writing(v)'
        PROVE  TaskOK(v)'
    <3>1. TaskOK(v) /\ writer[v].post \in Articles BY <2>2, <2>4, ContentTypes DEF Sound
    <3>. QED BY <3>1, <1>1, <2>1, <2>2, <2>4 DEF TaskOK, Claimed
  <2>5. ASSUME NEW q \in Articles
        PROVE  PageOK(q)'
    <3>1. Committed(p) BY <1>1, <1>2, <1>5 DEF Committed, Claimed
    <3>2. Committed(q)' => Committed(q) BY <3>1, <2>1, <2>2 DEF Committed
    <3>. QED BY <3>2, <1>1, <2>1 DEF Sound, PageOK
  <2>6. Listing' BY <1>1, <2>1, <2>2 DEF Sound, Listing
  <2>7. TasksOK' BY <1>1, <2>1 DEF Sound, TasksOK, Typed
  <2>. QED BY <2>3, <2>4, <2>5, <2>6, <2>7 DEF Sound
<1>. QED BY <1>3, <1>4, <1>5 DEF DispatchDeploy

LEMMA PolledSound ==
    ASSUME Typed, Typed', Sound, PollDeploy
    PROVE  Sound'
<1>. PICK poll \in polls :
       LET p == poll[1]
           attempt == poll[2]
       IN /\ IF Claimed(p, attempt) /\ article[p].dispatched
             THEN \/ article' = SettledAs(p, attempt, "failed") /\ polls' = polls \ {poll}
                  \/ article' = SettledAs(p, attempt, "published") /\ polls' = polls \ {poll}
             ELSE UNCHANGED article /\ polls' = polls \ {poll}
          /\ UNCHANGED <<branch, writer, publishTasks, everApproved, overlapped, changes, blogFaults>>
  BY Zenon DEF PollDeploy
<1>. DEFINE p == poll[1]
            attempt == poll[2]
<1>1. p \in Articles BY DEF Typed
<1>2. UNCHANGED <<branch, writer, publishTasks, everApproved, overlapped>> OBVIOUS
<1>3. CASE article' = SettledAs(p, attempt, "failed") \/ article' = article
  <2>1. RowsSoften BY <1>1, <1>3, StopsSoften
  <2>. QED BY <2>1, <1>2, SoftenedSound DEF Softens
<1>4. CASE Claimed(p, attempt) /\ article[p].dispatched /\ article' = SettledAs(p, attempt, "published")
  <2>1. /\ article' = [article EXCEPT ![p].status = "published"] /\ article[p].status = "publishing"
        /\ Committed(p)
    BY <1>4 DEF SettledAs, Claimed, Committed
  <2>2. /\ article'[p].status = "published"
        /\ \A q \in Articles :
              /\ article'[q].content = article[q].content /\ article'[q].dispatched = article[q].dispatched
              /\ article'[q].approved = article[q].approved /\ article'[q].attempts = article[q].attempts
              /\ article'[q].card = article[q].card
              /\ q # p => article'[q].status = article[q].status
    BY <2>1, <1>1 DEF Typed, Row
  <2>3. \A v \in Writers : (Writing(v)' <=> Writing(v)) /\ writer'[v] = writer[v] BY <1>2 DEF Writing
  <2>4. Approvals' BY <1>2, <2>1, <2>2, <2>3, ContentTypes DEF Sound, Approvals
  <2>5. ASSUME NEW v \in Writers, Writing(v)'
        PROVE  TaskOK(v)'
    <3>1. TaskOK(v) /\ writer[v].post \in Articles BY <2>3, <2>5, ContentTypes DEF Sound
    <3>. QED BY <3>1, <1>2, <2>2, <2>3 DEF TaskOK, Claimed
  <2>6. ASSUME NEW q \in Articles
        PROVE  PageOK(q)'
    <3>1. Committed(q)' => Committed(q) BY <2>1, <2>2, <2>3 DEF Committed
    <3>. QED BY <3>1, <1>2, <2>2 DEF Sound, PageOK
  <2>7. Listing' BY <1>2, <2>2, <2>3 DEF Sound, Listing
  <2>8. TasksOK' BY <1>2, <2>2 DEF Sound, TasksOK, Typed
  <2>. QED BY <2>4, <2>5, <2>6, <2>7, <2>8 DEF Sound
<1>. QED BY <1>3, <1>4, Zenon

-----------------------------------------------------------------------------
(* The theorems.                                                           *)

LEMMA SoundNext == Typed /\ Typed' /\ Sound /\ [BlogNext]_blogVars => Sound'
<1>. SUFFICES ASSUME Typed, Typed', Sound, [BlogNext]_blogVars PROVE Sound' OBVIOUS
<1>1. CASE UNCHANGED blogVars
  BY <1>1, UnchangedSoftens, SoftenedSound DEF blogVars, Softens
<1>2. ASSUME NEW p \in Articles,
             \/ UpdateContent(p) \/ ReplaceImage(p) \/ SubmitForReview(p) \/ ApproveArticle(p)
             \/ RequestChanges(p) \/ StartPublish(p) \/ SweepStuckArticle(p)
      PROVE  Sound'
  BY <1>2, PeopleSoften, SoftenedSound, ApprovedSound, StartedSound
<1>3. ASSUME NEW w \in Writers,
             TakePublishTask(w) \/ WriterMoves(w) \/ WriterDies(w) \/ PublishCrashes(w)
      PROVE  Sound'
  BY <1>3, TakenSound, ReadingSound, WrittenSound, RecordedSound, DispatchedSound, FaultSoftens, SoftenedSound
     DEF WriterMoves
<1>. QED BY <1>1, <1>2, <1>3, PolledSound, Zenon DEF BlogNext

LEMMA SoundAlways == BlogSpec => [](Typed /\ Sound)
<1>1. BlogInit => Typed /\ Sound BY TypedInit, SoundInit
<1>2. Typed /\ Sound /\ [BlogNext]_blogVars => Typed' /\ Sound' BY TypedNext, SoundNext
<1>. QED BY <1>1, <1>2, PTL DEF BlogSpec

\* Every reachable state has the type of BlogTypeOK: attempts, changes and the
\* retries of a commit stay within their bounds.
THEOREM BlogTypes == BlogSpec => []BlogTypeOK
BY SoundAlways, TypedType, PTL

\* "Nothing unapproved leaves the app" (blog/services.py): every page that
\* run_publish puts on the branch has content, image included, that an approver
\* approved, although images are replaced past every rule of the article.
THEOREM NothingUnapprovedLeaves == BlogSpec => []OnlyApprovedPages
<1>1. Sound => OnlyApprovedPages BY DEF Sound, Approvals, OnlyApprovedPages
<1>. QED BY SoundAlways, <1>1, PTL

\* What the articles' rows claim of the site is so: a published article's page
\* is the approved one, whichever attempts were swept, retried or still run
\* (update_ref lands only on the head its guard compared), and the sitemap
\* lists every recorded article unless publishes ran at once.
THEOREM SiteStaysTrue == BlogSpec => []SiteIsTrue
<1>1. Sound => PublishedPageIsLive BY DEF Sound, PageOK, Committed, PublishedPageIsLive
<1>2. Sound => RecordedIsListed BY DEF Sound, Listing, RecordedIsListed
<1>. QED BY SoundAlways, <1>1, <1>2, PTL DEF SiteIsTrue
===============================================================================
