----------------------------- MODULE ApiRequests -----------------------------
(***************************************************************************)
(* Idempotency keys of the agent API (api/middleware.py and its callers in *)
(* api/routers).  An agent that lost an answer repeats its request under   *)
(* the same key: the record of the key is claimed by an insert, carries    *)
(* the answer once there is one, and is swept after a day.  A post or an   *)
(* upload is committed together with its answer; a reply is drafted first  *)
(* and sent to the platform before its answer is known.                    *)
(***************************************************************************)
EXTENDS Naturals, Sequences, Functions

CONSTANTS
    Callers,       \* requests with the same API key and idempotency key
    Bodies,        \* what they may ask for
    MaxCalls,      \* bound: requests
    MaxApiFaults   \* bound: processes that die, commits whose answer is lost

ASSUME ApiAssumption == {MaxCalls, MaxApiFaults} \subseteq Nat

VARIABLES
    apiRecord,   \* the IdempotencyRecord: its status, the fingerprint, and whether a day has passed
    call,        \* call[c]: where the request is, what it asks for, what it was told
    resource,    \* "post": committed with its answer; "reply": drafted, then sent
    made,        \* what the resources made under this key are of, in their order
    sends,       \* replies handed to the platform
    swept,       \* records of this key deleted by the daily sweep
    apiFaults, apiCalls

apiVars == <<apiRecord, call, resource, made, sends, swept, apiFaults, apiCalls>>

NoBody == "no body"
NoRecord == [status |-> "absent", print |-> NoBody, old |-> FALSE]
NoCall == [step |-> "idle", body |-> NoBody, told |-> "nothing"]

ApiTypeOK ==
    /\ apiRecord \in [status : {"absent", "pending", "created", "refused"},
                      print : Bodies \cup {NoBody}, old : BOOLEAN]
    /\ call \in [Callers -> [step : {"idle", "working", "releasing", "drafted", "sent", "unsent"},
                             body : Bodies \cup {NoBody},
                             told : {"nothing", "created", "refused", "busy", "mismatch", "error"}]]
    /\ resource \in {"post", "reply"}
    /\ made \in Seq(Bodies) /\ {sends, swept} \subseteq Nat
    /\ apiFaults \in 0..MaxApiFaults /\ apiCalls \in 0..MaxCalls

ApiInit ==
    /\ apiRecord = NoRecord
    /\ call = [c \in Callers |-> NoCall]
    /\ resource \in {"post", "reply"}
    /\ made = << >> /\ sends = 0 /\ swept = 0
    /\ apiFaults = 0 /\ apiCalls = 0

Ends(c, told) == call' = [call EXCEPT ![c].step = "idle", ![c].told = told]
GoesOn(c, step) == call' = [call EXCEPT ![c].step = step]
ApiFault == apiFaults < MaxApiFaults /\ apiFaults' = apiFaults + 1

-----------------------------------------------------------------------------
\* claim_idempotency_slot: the insert is the mutex; whoever loses it replays
\* the answer, is told to wait, or reused the key for something else.
ClaimSlot(c) ==
    /\ call[c].step = "idle"
    /\ apiCalls < MaxCalls /\ apiCalls' = apiCalls + 1
    /\ \E b \in Bodies :
         IF apiRecord.status = "absent"
         THEN /\ apiRecord' = [status |-> "pending", print |-> b, old |-> FALSE]
              /\ call' = [call EXCEPT ![c] = [step |-> "working", body |-> b, told |-> "nothing"]]
         ELSE /\ call' = [call EXCEPT ![c] =
                   [step |-> "idle", body |-> b,
                    told |-> IF apiRecord.print # b THEN "mismatch"
                             ELSE IF apiRecord.status = "pending" THEN "busy" ELSE apiRecord.status]]
              /\ UNCHANGED apiRecord
    /\ UNCHANGED <<resource, made, sends, swept, apiFaults>>

\* The quota, a ValueError or any other exception before the resource exists.
WorkFails(c) ==
    /\ call[c].step = "working" /\ GoesOn(c, "releasing")
    /\ UNCHANGED <<apiRecord, resource, made, sends, swept, apiFaults, apiCalls>>

\* (Mutant of Releases: whatever the record holds by now.)
ReleasesAlways == TRUE

\* release_idempotent_claim deletes a placeholder, never an answer.
Releases == apiRecord.status = "pending"

Release(c) ==
    /\ call[c].step = "releasing" /\ Ends(c, "error")
    /\ apiRecord' = IF Releases THEN NoRecord ELSE apiRecord
    /\ UNCHANGED <<resource, made, sends, swept, apiFaults, apiCalls>>

\* create_post or create_asset, and finalize_idempotent_response, in one
\* transaction.  Its commit may succeed and look like a failure.
CreatePost(c) ==
    /\ resource = "post" /\ call[c].step = "working"
    /\ made' = Append(made, call[c].body)
    /\ apiRecord' = IF apiRecord.status = "absent" THEN apiRecord ELSE [apiRecord EXCEPT !.status = "created"]
    /\ \/ Ends(c, "created") /\ UNCHANGED apiFaults
       \/ ApiFault /\ GoesOn(c, "releasing")
    /\ UNCHANGED <<resource, sends, swept, apiCalls>>

\* create_reply: create_reply_draft commits by itself ...
CreateDraft(c) ==
    /\ resource = "reply" /\ call[c].step = "working"
    /\ made' = Append(made, call[c].body)
    /\ GoesOn(c, "drafted")
    /\ UNCHANGED <<apiRecord, resource, sends, swept, apiFaults, apiCalls>>

\* ... send_reply_now hands it to the platform, which may refuse it ...
SendReply(c) ==
    /\ call[c].step = "drafted"
    /\ \/ GoesOn(c, "sent") /\ sends' = sends + 1
       \/ GoesOn(c, "unsent") /\ UNCHANGED sends
    /\ UNCHANGED <<apiRecord, resource, made, swept, apiFaults, apiCalls>>

\* ... and either answer is kept for the next request.
Finalize(c) ==
    /\ call[c].step \in {"sent", "unsent"}
    /\ LET answer == IF call[c].step = "sent" THEN "created" ELSE "refused"
       IN  /\ Ends(c, answer)
           /\ apiRecord' = IF apiRecord.status = "absent" THEN apiRecord ELSE [apiRecord EXCEPT !.status = answer]
    /\ UNCHANGED <<resource, made, sends, swept, apiFaults, apiCalls>>

\* The web process dies: an open transaction is rolled back, the claim stays.
CallerDies(c) ==
    /\ call[c].step # "idle" /\ ApiFault /\ Ends(c, "nothing")
    /\ UNCHANGED <<apiRecord, resource, made, sends, swept, apiCalls>>

\* IDEMPOTENCY_RECORD_TTL_HOURS; no request lasts that long.
RecordAges ==
    /\ apiRecord.status # "absent" /\ ~apiRecord.old /\ \A c \in Callers : call[c].step = "idle"
    /\ apiRecord' = [apiRecord EXCEPT !.old = TRUE]
    /\ UNCHANGED <<call, resource, made, sends, swept, apiFaults, apiCalls>>

\* sweep_stale_idempotency_records, whatever the status.
SweepRecord ==
    /\ apiRecord.old /\ apiRecord' = NoRecord /\ swept' = swept + 1
    /\ UNCHANGED <<call, resource, made, sends, apiFaults, apiCalls>>

CallerMoves(c) == Release(c) \/ WorkFails(c) \/ CreatePost(c) \/ CreateDraft(c) \/ SendReply(c) \/ Finalize(c)

ApiNext ==
    \/ \E c \in Callers : ClaimSlot(c) \/ CallerMoves(c) \/ CallerDies(c)
    \/ RecordAges \/ SweepRecord

-----------------------------------------------------------------------------
\* One key makes one resource and one send, however often the request comes,
\* whoever dies and whatever answer is lost, until a day has passed; and who is
\* told that it was created, first hand or in a replay, finds what they asked for.
OneResourcePerKey ==
    /\ Len(made) <= 1 + swept
    /\ sends <= 1 + swept
    /\ \A c \in Callers : call[c].told = "created" => call[c].body \in Range(made)
    /\ apiRecord.status = "created" => apiRecord.print \in Range(made)

\* A claim whose process died does not lock the key for ever.
KeySettles == <>[](apiRecord.status # "pending")
===============================================================================
