---------------------------- MODULE PostingQueue ----------------------------
(***************************************************************************)
(* A channel's posting queues (calendar/services.py): posts take the       *)
(* channel's upcoming posting slots.  A queue operation locks the channel, *)
(* reads which instants are held and writes the posts it places; drags on  *)
(* the calendar and the publisher take no such lock, and come in between.  *)
(***************************************************************************)
EXTENDS Naturals, FiniteSets, FiniteSetsExt, Functions

CONSTANTS
    Posts,             \* PlatformPosts of the channel, each of another post
    Queues,            \* queues of the channel
    Clerks,            \* web requests that may be in a queue operation
    PostingSlots,      \* instants of the posting slots within the horizon
    LastInstant,       \* bound: the end of the horizon
    LastNow,           \* bound: how far the clock goes
    MaxQueueRequests,  \* bound: queue operations
    MaxDrags           \* bound: drags on the calendar

ASSUME PostingQueueAssumption ==
    /\ {LastInstant, LastNow, MaxQueueRequests, MaxDrags} \subseteq Nat
    /\ PostingSlots \subseteq 1..LastInstant /\ IsFiniteSet(Posts)

VARIABLES
    chip,      \* chip[p]: the PlatformPost's status and scheduled_at, and the queue it has an entry in
    clerk,     \* clerk[c]: the operation the request is in and the slots it is about to write
    clock,     \* now
    byHand,    \* instants given by hand so far, or given to a row already publishing
    requests,  \* queue operations so far
    drags      \* drags so far

queueVars == <<chip, clerk, clock, byHand, requests, drags>>

NoTime == 0
NoQueue == "no queue"
ProtectedStatuses == {"publishing", "published"}
QueueOps == {"add", "top", "reslot", "remove", "reorder"}

\* A plan assigns instants to the posts it places.
Plans == UNION {[S -> 0..LastInstant] : S \in SUBSET Posts}
NoRequest == [op |-> "none", queue |-> NoQueue, post |-> "no post", plan |-> << >>]

PostingQueueTypeOK ==
    /\ chip \in [Posts -> [status : {"draft", "scheduled", "failed"} \cup ProtectedStatuses,
                           at : 0..LastInstant, queue : Queues \cup {NoQueue}]]
    /\ \A c \in Clerks : /\ clerk[c].op \in QueueOps \cup {"none"}
                         /\ clerk[c].op # "none" => clerk[c].post \in Posts /\ clerk[c].plan \in Plans
    /\ clock \in 0..LastNow /\ requests \in 0..MaxQueueRequests /\ drags \in 0..MaxDrags
    /\ byHand \subseteq 1..LastInstant

PostingQueueInit ==
    /\ chip = [p \in Posts |-> [status |-> "draft", at |-> NoTime, queue |-> NoQueue]]
    /\ clerk = [c \in Clerks |-> NoRequest]
    /\ clock = 0 /\ byHand = {} /\ requests = 0 /\ drags = 0

-----------------------------------------------------------------------------
(* What an operation reads, once it holds the channel.                     *)

\* _is_protected
IsProtected(p) == chip[p].status \in ProtectedStatuses

Upcoming(p) == ~IsProtected(p) /\ chip[p].at > clock

\* _occupied_datetimes, without the post that is being placed
Occupied(p) == {chip[x].at : x \in {y \in Posts \ {p} : Upcoming(y)}}

\* _next_slot_datetimes
UpcomingSlots == {s \in PostingSlots : s > clock}
FirstSlots(n) == {s \in UpcomingSlots : Cardinality({t \in UpcomingSlots : t < s}) < n}

\* _next_available_slot: none when the queue is full.
FreeSlots(p) == UpcomingSlots \ Occupied(p)

Place(p, s) == [x \in {p} |-> s]

\* add_post_next_available, for a post that is not history
NextAvailable(p) == {Place(p, Min(FreeSlots(p))) : x \in {y \in {p} : FreeSlots(p) # {}}}

\* The posts of this queue that prioritize moves: those on one of the first slots.
Movable(p, q) == {x \in Posts \ {p} : chip[x].queue = q /\ Upcoming(x)}
Movers(p, q) == {x \in Movable(p, q) : chip[x].at \in FirstSlots(Cardinality(Movable(p, q)) + 2)}

\* Each mover, the last one first, goes to the next slot that no post which
\* stays holds and no mover has been given; {} when the horizon ends first.
Ladder(p, q) ==
    LET stays == Occupied(p) \ {chip[x].at : x \in Movers(p, q)}
        Before(plan, x) ==
            {y \in Movers(p, q) \ {x} :
               chip[y].at > chip[x].at \/ (chip[y].at = chip[x].at /\ plan[y] <= plan[x])}
        Free(plan, x) == {s \in UpcomingSlots \ stays :
                            s > chip[x].at /\ \A y \in {p} \cup Before(plan, x) : plan[y] # s}
    IN  {plan \in [{p} \cup Movers(p, q) -> UpcomingSlots] :
           /\ plan[p] = Min(UpcomingSlots)
           /\ \A x \in Movers(p, q) : plan[x] \in Free(plan, x) /\ \A s \in Free(plan, x) : plan[x] <= s}

\* prioritize.  It looks at the status of the others, not of the post itself.
Prioritize(p, q) ==
    IF UpcomingSlots = {} THEN {}
    ELSE IF Min(UpcomingSlots) \in {chip[x].at : x \in Movable(p, q)} THEN Ladder(p, q)
    ELSE IF Min(UpcomingSlots) \in FreeSlots(p) THEN {Place(p, Min(UpcomingSlots))}
    ELSE NextAvailable(p)

\* reorder_queue: the instants the named entries hold, handed out among them.
Reorder(S) == {[x \in S |-> chip[f[x]].at] : f \in Bijection(S, S)}

PlansFor(op, p, q, S) ==
    CASE op \in {"add", "reslot"} -> IF IsProtected(p) THEN {} ELSE NextAvailable(p)
      [] op = "top" -> Prioritize(p, q)
      [] op = "reorder" -> Reorder(S)
      [] op = "remove" -> {IF IsProtected(p) THEN << >> ELSE Place(p, NoTime)}

-----------------------------------------------------------------------------
(* A queue operation.                                                      *)

\* (Mutant of ChannelLocked: each request locks its own entry only.)
ChannelUnlocked == FALSE

\* _lock_channel: another operation is between its read and its commit.
ChannelLocked == \E c \in Clerks : clerk[c].op # "none"

\* The composer adds a post or puts it on top, the queue page moves entries.
BeginQueueOp(c) ==
    /\ clerk[c].op = "none" /\ ~ChannelLocked
    /\ requests < MaxQueueRequests /\ requests' = requests + 1
    /\ \E op \in QueueOps, p \in Posts, q \in Queues, S \in SUBSET Posts :
          /\ chip[p].queue = q \/ (op \in {"add", "top"} /\ chip[p].queue = NoQueue)
          /\ IF op = "reorder"
             THEN p \in S /\ \A x \in S : chip[x].queue = q /\ ~IsProtected(x) /\ chip[x].at # NoTime
             ELSE S = {p}
          /\ \E plan \in PlansFor(op, p, q, S) :
                clerk' = [clerk EXCEPT ![c] = [op |-> op, queue |-> q, post |-> p, plan |-> plan]]
    /\ UNCHANGED <<chip, clock, byHand, drags>>

\* _write_slot for each post of the plan, whatever became of it; the composer
\* then schedules the post it was about, unless that row changed.
\* remove_from_queue drops the entry and makes the row it read a draft.
WriteSlots(c) ==
    LET r == clerk[c]
        Placed(p) ==
            [status |-> IF r.op \in {"add", "top"} /\ p = r.post /\ ~IsProtected(p)
                        THEN "scheduled" ELSE chip[p].status,
             at |-> r.plan[p], queue |-> r.queue]
        Removed(p) ==
            IF p \in DOMAIN r.plan THEN [status |-> "draft", at |-> NoTime, queue |-> NoQueue]
            ELSE [chip[p] EXCEPT !.queue = NoQueue]
        Written(p) ==
            IF r.op = "remove" /\ p = r.post THEN Removed(p)
            ELSE IF p \in DOMAIN r.plan THEN Placed(p) ELSE chip[p]
    IN /\ r.op # "none"
       /\ chip' = [p \in Posts |-> Written(p)]
       /\ byHand' = byHand \cup {r.plan[p] : p \in {x \in DOMAIN r.plan : r.op # "remove" /\ IsProtected(x)}}
       /\ clerk' = [clerk EXCEPT ![c] = NoRequest]
       /\ UNCHANGED <<clock, requests, drags>>

-----------------------------------------------------------------------------
(* Beside the queue.                                                       *)

\* reschedule_post, a schedule by hand, an occurrence of a recurring post.
Drag(p) ==
    /\ drags < MaxDrags /\ drags' = drags + 1
    /\ ~IsProtected(p)
    /\ \E t \in 1..LastInstant :
          /\ chip' = [chip EXCEPT ![p].at = t, ![p].status = "scheduled"]
          /\ byHand' = byHand \cup {t}
    /\ UNCHANGED <<clerk, clock, requests>>

ClaimDue(p) ==
    /\ chip[p].status = "scheduled" /\ chip[p].at <= clock
    /\ chip' = [chip EXCEPT ![p].status = "publishing"]
    /\ UNCHANGED <<clerk, clock, byHand, requests, drags>>

PublishEnds(p) ==
    /\ chip[p].status = "publishing"
    /\ \E s \in {"published", "failed"} : chip' = [chip EXCEPT ![p].status = s]
    /\ UNCHANGED <<clerk, clock, byHand, requests, drags>>

ClockMoves ==
    /\ clock < LastNow /\ clock' = clock + 1
    /\ UNCHANGED <<chip, clerk, byHand, requests, drags>>

PostingQueueNext ==
    \/ \E c \in Clerks : BeginQueueOp(c) \/ WriteSlots(c)
    \/ \E p \in Posts : Drag(p) \/ ClaimDue(p) \/ PublishEnds(p)
    \/ ClockMoves

PostingQueueSpec == PostingQueueInit /\ [][PostingQueueNext]_queueVars

-----------------------------------------------------------------------------
\* Two posts wait for one instant only where a person put one of them by hand,
\* whatever requests, drags and publishes come between an operation's read and
\* its write.
SlotsNotShared ==
    \A x, y \in Posts : x # y /\ Upcoming(x) /\ Upcoming(y) /\ chip[x].at = chip[y].at
                            => chip[x].at \in byHand

\* No operation sets out to move a post it finds being published or published:
\* "a published/publishing post's schedule is history" (calendar/services.py).
HistoryIsLeftAlone ==
    [][\A c \in Clerks, p \in Posts :
          IsProtected(p) /\ p \in DOMAIN clerk'[c].plan => p \in DOMAIN clerk[c].plan]_queueVars
===============================================================================
