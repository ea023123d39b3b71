---------------------------- MODULE AccountTokens ----------------------------
(***************************************************************************)
(* The OAuth grant of a connected channel (social_accounts/models.py,      *)
(* tasks.py, views.py).  Publishing, the inbox, analytics and the health   *)
(* check refresh it under the lock of the account's row; a platform that   *)
(* rotates refresh tokens takes each only once.  The health check probes   *)
(* the platform without a lock and writes down what it found; people       *)
(* disconnect the channel and connect it again meanwhile.  A reconnect     *)
(* exchanges its code for a grant first, asks for the profile or for a     *)
(* page next, and writes the row last: callbacks overlap each other and    *)
(* the refreshes, end in any order, or fail with the grant in hand.        *)
(***************************************************************************)
EXTENDS Naturals

CONSTANTS
    Users,           \* processes that use or administer the account
    MaxGrants        \* bound: tokens the platform hands out

ASSUME AccountAssumption == MaxGrants \in Nat \ {0}

VARIABLES
    account,      \* the SocialAccount row: its tokens (0 is blank), expiry, status
    user,         \* user[u]: what the process does, the token it read, and the status it will note
    usable,       \* tokens the platform will accept
    granted,      \* tokens it has handed out
    refused,      \* a probe or a refresh of the token the row holds has failed
    lost,         \* a token the platform rotated out was never replaced here
    offers,       \* grants of callbacks that have exchanged their code and not written the row
    consent,      \* history: the grant the row was last connected with
    standing      \* history: the last grant that ended the ones before it

tokenVars == <<account, user, usable, granted, refused, lost, offers, consent, standing>>
callbackVars == <<offers, consent, standing>>

Blank == 0
Idling == [does |-> "nothing", step |-> "idle", token |-> Blank, note |-> "connected"]
Statuses == {"connected", "token_expiring", "error", "disconnected"}

TokensTypeOK ==
    /\ account \in [token : 0..MaxGrants, expires : {"never", "later", "soon", "past"}, status : Statuses]
    /\ user \in [Users -> [does : {"nothing", "use", "check", "disconnect"}, token : 0..MaxGrants,
                           step : {"idle", "stale", "loaded", "refreshing", "rotated", "probing", "probed", "revoked"},
                           note : Statuses]]
    /\ usable \subseteq 1..MaxGrants /\ granted \in 1..MaxGrants
    /\ {refused, lost} \subseteq BOOLEAN
    /\ offers \subseteq 1..MaxGrants /\ {consent, standing} \subseteq 1..MaxGrants

TokensInit ==
    /\ account = [token |-> 1, expires |-> "later", status |-> "connected"]
    /\ user = [u \in Users |-> Idling]
    /\ usable = {1} /\ granted = 1
    /\ refused = FALSE /\ lost = FALSE
    /\ offers = {} /\ consent = 1 /\ standing = 1

\* The row is locked while a refresh asks the platform.
RowUnlocked == \A u \in Users : user[u].step \notin {"refreshing", "rotated"}

UserGoes(u, step) == user' = [user EXCEPT ![u].step = step]
Refused(token) == refused' = (refused \/ token = account.token)
UserEnds(u) == user' = [user EXCEPT ![u] = Idling]

-----------------------------------------------------------------------------
(* Refreshing.                                                             *)

NearExpiry == account.expires \in {"soon", "past"}

\* A publish, an inbox poll, an analytics pass, a health check or a disconnect
\* loads the row; all but the last refresh a token near its expiry.
LoadAccount(u) ==
    /\ user[u] = Idling /\ account.status # "disconnected"
    /\ \E does \in {"use", "check", "disconnect"} :
         user' = [user EXCEPT ![u] =
             [does |-> does, token |-> account.token,
              step |-> IF NearExpiry /\ does # "disconnect" THEN "stale" ELSE "loaded",
              note |-> IF does = "check" THEN account.status ELSE "connected"]]
    /\ UNCHANGED <<account, usable, granted, refused, lost, callbackVars>>

\* What comes after the refresh: the probe, or a platform call with the token.
AfterRefresh(u, token, note) ==
    user' = [user EXCEPT ![u] = IF user[u].does = "check"
                                THEN [does |-> "check", step |-> "probing", token |-> token, note |-> note]
                                ELSE Idling]

UseAsItIs(u) ==
    /\ user[u].step = "loaded" /\ user[u].does # "disconnect"
    /\ AfterRefresh(u, user[u].token, user[u].note)
    /\ UNCHANGED <<account, usable, granted, refused, lost, callbackVars>>

\* refresh_oauth_token under the lock: somebody else's fresh rotation is
\* adopted, or the platform is asked with the token the row holds now.
LockAccount(u) ==
    /\ user[u].step = "stale" /\ RowUnlocked
    /\ IF account.token # user[u].token /\ account.expires # "past"
       THEN AfterRefresh(u, account.token, account.status)
       ELSE UserGoes(u, "refreshing")
    /\ UNCHANGED <<account, usable, granted, refused, lost, callbackVars>>

\* The platform rotates the token out, and gives a new one.
PlatformRotates(u) ==
    /\ user[u].step = "refreshing" /\ account.token \in usable /\ granted < MaxGrants
    /\ granted' = granted + 1
    /\ usable' = (usable \ {account.token}) \cup {granted + 1}
    /\ user' = [user EXCEPT ![u].step = "rotated", ![u].token = granted + 1]
    /\ UNCHANGED <<account, refused, lost, callbackVars>>

SaveRotation(u) ==
    /\ user[u].step = "rotated"
    /\ account' = [token |-> user[u].token, expires |-> "later", status |-> "connected"]
    /\ AfterRefresh(u, user[u].token, "connected")
    /\ refused' = FALSE /\ UNCHANGED <<usable, granted, lost, callbackVars>>

\* The platform refuses, or cannot be reached.  Only the health check notes it.
RefreshFails(u) ==
    /\ user[u].step = "refreshing"
    /\ Refused(account.token)
    /\ AfterRefresh(u, user[u].token, "token_expiring")
    /\ UNCHANGED <<account, usable, granted, lost, callbackVars>>

\* The rotated token never reaches the row: a lost answer, a failed save, a death.
RotationLost(u) ==
    /\ user[u].step = "rotated"
    /\ lost' = TRUE /\ UserEnds(u)
    /\ UNCHANGED <<account, usable, granted, refused, callbackVars>>

-----------------------------------------------------------------------------
(* The health check.                                                       *)

\* get_profile: answered, or refused for something that is not the grant (a
\* spent quota), which clears an ERROR too; or refused, or not reached.
Probe(u) ==
    /\ user[u].step = "probing"
    /\ \/ /\ user' = [user EXCEPT ![u].step = "probed",
                                  ![u].note = IF @ = "token_expiring" THEN @ ELSE "connected"]
          /\ UNCHANGED refused
       \/ /\ user' = [user EXCEPT ![u].step = "probed", ![u].note = "error"]
          /\ Refused(user[u].token)
    /\ UNCHANGED <<account, usable, granted, lost, callbackVars>>

\* (Mutant of Superseded: only a disconnect makes the probe's result stale.)
SupersededByDisconnect(u) == account.status = "disconnected"

Superseded(u) == account.status = "disconnected" \/ account.token # user[u].token

\* The last transaction of check_social_account_health: status, never tokens.
RecordProbe(u) ==
    /\ user[u].step = "probed" /\ RowUnlocked
    /\ account' = IF Superseded(u) THEN account ELSE [account EXCEPT !.status = user[u].note]
    /\ UserEnds(u)
    /\ UNCHANGED <<usable, granted, refused, lost, callbackVars>>

-----------------------------------------------------------------------------
(* People and the clock.                                                   *)

\* disconnect: the token the view loaded is revoked, if the platform answers ...
RevokeToken(u) ==
    /\ user[u].does = "disconnect" /\ user[u].step = "loaded"
    /\ usable' \in {usable, usable \ {user[u].token}}
    /\ UserGoes(u, "revoked")
    /\ UNCHANGED <<account, granted, refused, lost, callbackVars>>

\* ... and the row is blanked, whatever it holds by now.
BlankTokens(u) ==
    /\ user[u].step = "revoked" /\ RowUnlocked
    /\ account' = [token |-> Blank, expires |-> "never", status |-> "disconnected"]
    /\ UserEnds(u)
    /\ refused' = FALSE /\ UNCHANGED <<usable, granted, lost, callbackVars>>

\* oauth_callback exchanges the code, under no lock.  Some platforms end the
\* old grants when they give a new one.
ExchangeCode ==
    /\ granted < MaxGrants
    /\ granted' = granted + 1 /\ offers' = offers \cup {granted + 1}
    /\ \/ usable' = usable \cup {granted + 1} /\ UNCHANGED standing
       \/ usable' = {granted + 1} /\ standing' = granted + 1
    /\ UNCHANGED <<account, user, refused, lost, consent>>

\* _create_or_update_account, once the profile is there or a page is chosen: it
\* locks the row and writes its own grant, whichever callback began last.
SaveGrant ==
    /\ RowUnlocked
    /\ \E t \in offers :
         /\ account' = [token |-> t, expires |-> "later", status |-> "connected"]
         /\ offers' = offers \ {t} /\ consent' = t
    /\ lost' = FALSE /\ refused' = FALSE
    /\ UNCHANGED <<user, usable, granted, standing>>

\* The profile cannot be read, no page is ever chosen, or the process dies: the
\* row keeps what it has.
CallbackFails ==
    /\ \E t \in offers : offers' = offers \ {t}
    /\ UNCHANGED <<account, user, usable, granted, refused, lost, consent, standing>>

ExpiryNears ==
    /\ account.expires \in {"later", "soon"} /\ RowUnlocked
    /\ account' = [account EXCEPT !.expires = IF @ = "later" THEN "soon" ELSE "past"]
    /\ UNCHANGED <<user, usable, granted, refused, lost, callbackVars>>

TokensNext ==
    \/ \E u \in Users :
         \/ LoadAccount(u) \/ UseAsItIs(u) \/ LockAccount(u) \/ PlatformRotates(u) \/ SaveRotation(u)
         \/ RefreshFails(u) \/ RotationLost(u) \/ Probe(u) \/ RecordProbe(u)
         \/ RevokeToken(u) \/ BlankTokens(u)
    \/ ExchangeCode \/ SaveGrant \/ CallbackFails \/ ExpiryNears

-----------------------------------------------------------------------------
\* Refreshes that race each other, a disconnect or a reconnect never leave the
\* row with a token that was rotated out: it holds one the platform accepts
\* unless a rotation's answer was lost, somebody is disconnecting, or the row's
\* grant is older than one that ended it, whose callback is still under way, has
\* failed, or was overtaken by an older one.  A refresh that began before a
\* disconnect does not bring the channel back; and a channel reads broken only
\* if it was this grant that failed.
GrantIsKept ==
    /\ account.token # Blank /\ ~lost /\ consent >= standing
         /\ (\A u \in Users : user[u].step \notin {"rotated", "revoked"}) => account.token \in usable
    /\ account.token = Blank <=> account.status = "disconnected"
    /\ account.status \in {"error", "token_expiring"} => refused
===============================================================================
