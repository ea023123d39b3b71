------------------------------ MODULE ClientBrake ------------------------------
(***************************************************************************)
(* What a client's hold stops (apps/publisher/engine.py, the sibling check *)
(* of the queries and of both claims).  The brake does not reach a thread  *)
(* that has its claim already; `spare` remembers which channels had theirs *)
(* when the hold that is on now began.                                     *)
(***************************************************************************)
EXTENDS Publishing

VARIABLE spare    \* channels claimed before the present hold and not yet sent

brakeVars == <<vars, spare>>

\* Claimed, and the request to the platform not yet made.
Underway == {c \in Channels : Waiting(c) # {}}

\* A hold placed on the first channel fixes the set; it only shrinks while
\* any channel of the post stays on hold.
Remember ==
    spare' = IF ~SiblingHeld' THEN {}
             ELSE IF SiblingHeld THEN spare \cap Underway'
             ELSE Underway'

BrakeSpec == Init /\ spare = {} /\ [][Next /\ Remember]_brakeVars

\* While any channel of a post is on hold the engine writes to the platform
\* only for a row it had claimed before the hold was placed, and once for
\* each: a hold placed between the due (or retry) query and the claim stops
\* the row, and a retry of a write that fails under the hold waits.
BrakeStopsWrites ==
    [][\A c \in Channels : SiblingHeld /\ sent'[c] # sent[c] => c \in spare]_brakeVars
===============================================================================
