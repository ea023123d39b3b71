----------------------------- MODULE MCPublishing -----------------------------
(***************************************************************************)
(* Instances of Publishing for TLC.  The configurations name the channels  *)
(* feed and page (synchronous providers) and video (an asynchronous one,   *)
(* as TikTok), and the worker processes.                                   *)
(***************************************************************************)
EXTENDS Publishing, TLC

\* Synchronous channels are alike, and so are workers without a lease.
Alike == Permutations(Channels \ Async) \cup Permutations(Workers \ Leased)
===============================================================================
