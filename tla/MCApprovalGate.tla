---------------------------- MODULE MCApprovalGate ----------------------------
(***************************************************************************)
(* Instances of ApprovalGate for TLC, in one of two scenes: one request at *)
(* a time while text, attachments and times change, or two requests in     *)
(* progress at once, with one time, while only the text changes.           *)
(***************************************************************************)
EXTENDS ApprovalGate, TLC

VARIABLE scene

\* The gate only compares versions of the content.
Alike == Permutations(Texts) \cup Permutations(Media)

TheTime == CHOOSE t \in Times : TRUE

\* Bound: re-checks under way while two requests are in progress.
MaxRechecks == 2

OneTime(q) == q.time \in {TheTime, "keep"} /\ (q.stamp.time = TheTime \/ q.stamp = NoStamp)

SceneInit == Init /\ scene \in {"review", "rivals"}

SceneNext ==
    /\ Next /\ UNCHANGED scene
    /\ scene = "review" => Cardinality(requests') <= 1
    /\ scene = "rivals" => /\ UNCHANGED media
                           /\ \A q \in requests' : OneTime(q)
                           /\ Cardinality(rechecks') <= MaxRechecks

SceneSpec == SceneInit /\ [][SceneNext]_<<vars, scene>>
===============================================================================
