----------------------------- MODULE MCClientBrake -----------------------------
(***************************************************************************)
(* Instances of ClientBrake for TLC: a post on the synchronous channels    *)
(* feed and page.                                                          *)
(***************************************************************************)
EXTENDS ClientBrake, TLC

\* Synchronous channels are alike.
Alike == Permutations(Channels \ Async)
===============================================================================
