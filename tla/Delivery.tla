-------------------------------- MODULE Delivery --------------------------------
(***************************************************************************)
(* What the publishing engine promises of each channel of a post, without  *)
(* workers, threads, leases, sweeps or clocks: at-most-once delivery with  *)
(* a human referee.                                                        *)
(*                                                                         *)
(* A channel is ready, in flight, held for a person, or live for good.     *)
(* open[c] says a copy is, or may yet appear, on the platform that nobody  *)
(* has written off.  The promise: nothing is written while a copy is open, *)
(* a channel becomes ready again only when none is, only a person takes a  *)
(* channel out of `held`, and nothing takes one out of `live`.             *)
(*                                                                         *)
(* From apps/publisher/delivery.py ("bound late delivery and reconcile     *)
(* uncertain writes through a human audit trail") and                      *)
(* PublishEngine.confirm_pending_publishes ("deliberately never            *)
(* re-publishes").                                                         *)
(***************************************************************************)
CONSTANT Channels

VARIABLES phase, open

vars == <<phase, open>>

Phases == {"ready", "inflight", "held", "live"}

DeliveryTypeOK ==
    /\ phase \in [Channels -> Phases]
    /\ open \in [Channels -> BOOLEAN]

Init ==
    /\ phase = [c \in Channels |-> "ready"]
    /\ open = [c \in Channels |-> FALSE]

\* One transaction claims some of the ready channels and withholds others.
Claim ==
    /\ \E go, held \in SUBSET Channels :
          /\ go \cap held = {}
          /\ \A c \in go : phase[c] = "ready"
          /\ \A c \in held : phase[c] \in {"ready", "held"}
          /\ phase' = [c \in Channels |-> IF c \in go THEN "inflight"
                                          ELSE IF c \in held THEN "held" ELSE phase[c]]
    /\ UNCHANGED open

Write(c) ==
    /\ phase[c] = "inflight" /\ ~open[c]
    /\ open' = [open EXCEPT ![c] = TRUE]
    /\ UNCHANGED phase

\* The platform turns the copy down, whenever it gets round to it.
Refuse(c) ==
    /\ open[c]
    /\ open' = [open EXCEPT ![c] = FALSE]
    /\ UNCHANGED phase

\* The engine settles a flight.  It goes back to `ready` with nothing open:
\* refused, or written off by the confirmation timeout in the same step.
Settle(c) ==
    /\ phase[c] = "inflight"
    /\ \/ /\ phase' = [phase EXCEPT ![c] = "ready"]
          /\ open' = [open EXCEPT ![c] = FALSE]
       \/ /\ \E p \in {"held", "live"} : phase' = [phase EXCEPT ![c] = p]
          /\ UNCHANGED open

\* A person rules on a held channel: it is there, or it is not.
Rule(c) ==
    /\ phase[c] = "held"
    /\ \/ /\ phase' = [phase EXCEPT ![c] = "live"]
          /\ UNCHANGED open
       \/ /\ phase' = [phase EXCEPT ![c] = "ready"]
          /\ open' = [open EXCEPT ![c] = FALSE]

Next ==
    \/ Claim
    \/ \E c \in Channels : Write(c) \/ Refuse(c) \/ Settle(c) \/ Rule(c)

Spec == Init /\ [][Next]_vars
===============================================================================
