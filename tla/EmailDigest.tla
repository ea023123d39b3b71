----------------------------- MODULE EmailDigest -----------------------------
(***************************************************************************)
(* Notification email (notifications/engine.py).  A batched delivery waits *)
(* in the queue until a sweep claims it with a conditional UPDATE that     *)
(* charges the attempt, mails it and settles it; a claim that outlives     *)
(* BATCH_CLAIM_TIMEOUT is taken over.  The other deliveries are mailed by  *)
(* the process that made them and retried by a sweep of their own.         *)
(***************************************************************************)
EXTENDS Naturals, FiniteSets, FiniteSetsExt

CONSTANTS
    Deliveries,        \* NotificationDelivery rows of one user and event type
    Batched,           \* those that notify() queued (batch_queued_at is set)
    Mailers,           \* processes that sweep, or dispatch what they made
    MailAttempts,      \* MAX_RETRY_ATTEMPTS
    MaxMailerDeaths    \* bound: processes that die

ASSUME EmailDigestAssumption ==
    /\ Batched \subseteq Deliveries /\ IsFiniteSet(Mailers)
    /\ MailAttempts \in Nat \ {0} /\ MaxMailerDeaths \in Nat

VARIABLES
    delivery,      \* the rows
    mailer,        \* mailer[m]: what the process is doing
    mails,         \* mails[d]: emails that carried d
    lapses,        \* lapses[d]: claims of d that expired, or were released or reaped
    wanted,        \* _resolve_channels: the user still wants this email
    mailerDeaths

mailVars == <<delivery, mailer, mails, lapses, wanted, mailerDeaths>>

NoClaim == "none"
Waiting == [does |-> "waiting"]

\* claim: batch_claimed_at is unset, recent or stale.  retry: next_retry_at is
\* unset, ahead or past.
EmailDigestTypeOK ==
    /\ delivery \in [Deliveries -> [status : {"new", "pending", "delivered", "failed"},
                                    attempts : 0..MailAttempts + Cardinality(Mailers),
                                    claim : {NoClaim, "fresh", "stale"},
                                    retry : {"none", "ahead", "past"}]]
    /\ \A m \in Mailers :
         \/ mailer[m] = Waiting
         \/ mailer[m].does \in {"picked", "claimed", "sent", "unsent", "refused"} /\ mailer[m].rows \subseteq Batched
         \/ mailer[m].does \in {"due", "dispatching", "dispatched", "undispatched", "dropped"}
              /\ mailer[m].row \in Deliveries \ Batched /\ mailer[m].attempts \in 0..MailAttempts
    /\ mails \in [Deliveries -> Nat] /\ lapses \in [Deliveries -> Nat]
    /\ wanted \in BOOLEAN /\ mailerDeaths \in 0..MaxMailerDeaths

EmailDigestInit ==
    /\ delivery = [d \in Deliveries |-> [status |-> "new", attempts |-> 0, claim |-> NoClaim, retry |-> "none"]]
    /\ mailer = [m \in Mailers |-> Waiting]
    /\ mails = [d \in Deliveries |-> 0] /\ lapses = [d \in Deliveries |-> 0]
    /\ wanted = TRUE /\ mailerDeaths = 0

-----------------------------------------------------------------------------
(* The queue and its sweep.                                                *)

\* notify(), a batched row: queued, and nothing else.
QueueEmail(d) ==
    /\ d \in Batched /\ delivery[d].status = "new"
    /\ delivery' = [delivery EXCEPT ![d].status = "pending"]
    /\ UNCHANGED <<mailer, mails, lapses, wanted, mailerDeaths>>

\* Switched off in the preferences, or by the unsubscribe link.
TurnOffEmail ==
    /\ wanted /\ wanted' = FALSE
    /\ UNCHANGED <<delivery, mailer, mails, lapses, mailerDeaths>>

\* _batchable_deliveries and the sweep's unclaimed filter
Claimable(d) ==
    /\ d \in Batched /\ delivery[d].status = "pending"
    /\ delivery[d].claim # "fresh" /\ delivery[d].attempts < MailAttempts

\* The group is due and its rows are read.
PickRows(m) ==
    /\ mailer[m] = Waiting
    /\ LET rows == {d \in Batched : Claimable(d)}
       IN rows # {} /\ mailer' = [mailer EXCEPT ![m] = [does |-> "picked", rows |-> rows]]
    /\ UNCHANGED <<delivery, mails, lapses, wanted, mailerDeaths>>

\* (Mutant of StillUnclaimed: the UPDATE does not repeat the sweep's filter.)
StillPicked(d) == TRUE

\* The UPDATE repeats the claim's filter only (not the status).
StillUnclaimed(d) == delivery[d].claim # "fresh"

Charge(row) == [row EXCEPT !.claim = "fresh", !.attempts = @ + 1]

\* Claim; the preference is read again, and what is no longer wanted cancelled.
ClaimRows(m) ==
    /\ mailer[m].does = "picked"
    /\ LET mine == {d \in mailer[m].rows : StillUnclaimed(d)}
       IN /\ delivery' = [d \in Deliveries |->
                            IF d \notin mine THEN delivery[d]
                            ELSE IF wanted THEN Charge(delivery[d])
                            ELSE [Charge(delivery[d]) EXCEPT !.status = "failed", !.claim = NoClaim]]
          /\ mailer' = [mailer EXCEPT ![m] = IF wanted /\ mine # {}
                                             THEN [does |-> "claimed", rows |-> mine] ELSE Waiting]
    /\ UNCHANGED <<mails, lapses, wanted, mailerDeaths>>

\* _send_digest_email: accepted, refused by the outbound budget, or an error
\* after which the mail may have left all the same.
MailDigest(m) ==
    /\ mailer[m].does = "claimed"
    /\ \E outcome \in {"sent", "unsent", "refused"}, left \in BOOLEAN :
         /\ outcome = "sent" => left
         /\ outcome = "refused" => ~left
         /\ mailer' = [mailer EXCEPT ![m].does = outcome]
         /\ mails' = [d \in Deliveries |-> IF left /\ d \in mailer[m].rows THEN mails[d] + 1 ELSE mails[d]]
    /\ UNCHANGED <<delivery, lapses, wanted, mailerDeaths>>

Settled(rows, status) ==
    [d \in Deliveries |-> IF d \in rows THEN [delivery[d] EXCEPT !.status = status] ELSE delivery[d]]

\* _reap_exhausted_batches, on the rows it is given
Reaped(rows) ==
    [d \in Deliveries |->
        IF d \in Batched /\ rows[d].status = "pending" /\ rows[d].attempts >= MailAttempts
        THEN [rows[d] EXCEPT !.status = "failed", !.claim = NoClaim] ELSE rows[d]]

\* A claim no longer keeps the other sweeps off the row.
CountLapses ==
    lapses' = [d \in Deliveries |->
                 lapses[d] + IF delivery[d].claim = "fresh" /\ delivery'[d].claim # "fresh" THEN 1 ELSE 0]

\* The outcome is written over the rows by their keys, whoever holds them now.
SettleDigest(m) ==
    /\ mailer[m].does \in {"sent", "unsent", "refused"}
    /\ LET rows == mailer[m].rows
           released == [d \in Deliveries |-> IF d \in rows THEN [delivery[d] EXCEPT !.claim = NoClaim] ELSE delivery[d]]
       IN CASE mailer[m].does = "sent"    -> delivery' = Settled(rows, "delivered")
            [] mailer[m].does = "refused" -> delivery' = [d \in Deliveries |->
                    IF d \in rows THEN [released[d] EXCEPT !.status = "failed"] ELSE delivery[d]]
            [] mailer[m].does = "unsent"  -> delivery' = Reaped(released)
    /\ CountLapses
    /\ mailer' = [mailer EXCEPT ![m] = Waiting]
    /\ UNCHANGED <<mails, wanted, mailerDeaths>>

\* The sweep's first step; a row on its last attempt is reaped under its sender.
ReapExhausted(m) ==
    /\ mailer[m] = Waiting
    /\ Reaped(delivery) # delivery /\ delivery' = Reaped(delivery)
    /\ CountLapses
    /\ UNCHANGED <<mailer, mails, wanted, mailerDeaths>>

\* BATCH_CLAIM_TIMEOUT passes.
ClaimExpires(d) ==
    /\ delivery[d].claim = "fresh"
    /\ delivery' = [delivery EXCEPT ![d].claim = "stale"]
    /\ CountLapses
    /\ UNCHANGED <<mailer, mails, wanted, mailerDeaths>>

-----------------------------------------------------------------------------
(* The other deliveries.                                                   *)

\* notify(), or retry_failed_deliveries, which reads all that is due at once.
PickOne(m, d) ==
    /\ mailer[m] = Waiting /\ d \in Deliveries \ Batched
    /\ \/ delivery[d].status = "new"
       \/ delivery[d].status = "pending" /\ delivery[d].retry = "past" /\ delivery[d].attempts < MailAttempts
    /\ delivery' = [delivery EXCEPT ![d].status = "pending"]
    /\ mailer' = [mailer EXCEPT ![m] = [does |-> "due", row |-> d, attempts |-> delivery[d].attempts]]
    /\ UNCHANGED <<mails, lapses, wanted, mailerDeaths>>

\* _dispatch counts the attempt on its copy of the row.
Dispatch(m) ==
    /\ mailer[m].does = "due"
    /\ mailer' = [mailer EXCEPT ![m] = [@ EXCEPT !.does = "dispatching", !.attempts = mailer[m].attempts + 1]]
    /\ delivery' = [delivery EXCEPT ![mailer[m].row].attempts = mailer[m].attempts + 1]
    /\ UNCHANGED <<mails, lapses, wanted, mailerDeaths>>

MailOne(m) ==
    /\ mailer[m].does = "dispatching"
    /\ \E outcome \in {"dispatched", "undispatched", "dropped"}, left \in BOOLEAN :
         /\ outcome = "dispatched" => left
         /\ outcome = "dropped" => ~left
         /\ mailer' = [mailer EXCEPT ![m].does = outcome]
         /\ mails' = [mails EXCEPT ![mailer[m].row] = IF left THEN @ + 1 ELSE @]
    /\ UNCHANGED <<delivery, lapses, wanted, mailerDeaths>>

\* Delivered, dropped by the budget, out of attempts, or to be retried.
DispatchEnds(m) ==
    /\ mailer[m].does \in {"dispatched", "undispatched", "dropped"}
    /\ LET d == mailer[m].row
           spent == mailer[m].attempts >= MailAttempts
       IN delivery' = [delivery EXCEPT ![d] =
             CASE mailer[m].does = "dispatched" -> [@ EXCEPT !.status = "delivered"]
               [] mailer[m].does = "dropped"    -> [@ EXCEPT !.status = "failed"]
               [] OTHER -> IF spent THEN [@ EXCEPT !.status = "failed"]
                           ELSE [@ EXCEPT !.status = "pending", !.retry = "ahead"]]
    /\ mailer' = [mailer EXCEPT ![m] = Waiting]
    /\ UNCHANGED <<mails, lapses, wanted, mailerDeaths>>

RetryFallsDue(d) ==
    /\ delivery[d].status = "pending" /\ delivery[d].retry = "ahead"
    /\ delivery' = [delivery EXCEPT ![d].retry = "past"]
    /\ UNCHANGED <<mailer, mails, lapses, wanted, mailerDeaths>>

MailerDies(m) ==
    /\ mailer[m] # Waiting /\ mailerDeaths < MaxMailerDeaths
    /\ mailer' = [mailer EXCEPT ![m] = Waiting]
    /\ mailerDeaths' = mailerDeaths + 1
    /\ UNCHANGED <<delivery, mails, lapses, wanted>>

SweeperMoves(m) == ClaimRows(m) \/ MailDigest(m) \/ SettleDigest(m)
DispatcherMoves(m) == Dispatch(m) \/ MailOne(m) \/ DispatchEnds(m)

QueueNext ==
    \/ \E d \in Deliveries : QueueEmail(d) \/ ClaimExpires(d)
    \/ TurnOffEmail
    \/ \E m \in Mailers : SweeperMoves(m) \/ PickRows(m) \/ ReapExhausted(m) \/ MailerDies(m)

DispatchNext ==
    \/ \E d \in Deliveries : RetryFallsDue(d)
    \/ \E m \in Mailers, d \in Deliveries : PickOne(m, d)
    \/ \E m \in Mailers : DispatcherMoves(m) \/ MailerDies(m)

-----------------------------------------------------------------------------
\* "bounds that at MAX_RETRY_ATTEMPTS duplicates instead of forever"
\* (_reap_exhausted_batches): a queued email goes out only on an attempt that
\* was charged, and sweeps that run at once overrun the limit by one each.  It
\* goes out once, and at most once more for each claim that expired, was released
\* after an error or was reaped: while a claim lasts, no other sweep sends it.
MailIsBounded ==
    \A d \in Batched :
        /\ mails[d] <= delivery[d].attempts
        /\ delivery[d].attempts < MailAttempts + Cardinality(Mailers)
        /\ mails[d] <= 1 + lapses[d]

\* Every email leaves the queue in the end, although sweeps die; only one that
\* is dispatched where it was made is left behind by a death.
EmailSettles ==
    <>[](\A d \in Deliveries : delivery[d].status = "pending" => d \notin Batched /\ mailerDeaths > 0)
===============================================================================
