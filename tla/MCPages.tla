------------------------------ MODULE MCPages ------------------------------
(***************************************************************************)
(* What surrounds every page, in one instance: the cache of what the pages *)
(* show and the dialog of a sign-in.  The two share no state here: a       *)
(* behaviour moves one of them, chosen at the start, and the other stays   *)
(* in one of its initial states.                                           *)
(***************************************************************************)
EXTENDS PageCache, AuthDialog

CONSTANTS a1, a2

VARIABLE moves

PagesInit ==
  /\ moves \in {"cache", "dialog"}
  /\ CacheInit /\ Init
  /\ moves # "cache" => watched = "bootstrap"
  /\ moves # "dialog" => shown.path = "money"

PagesNext ==
  \/ moves = "cache" /\ CacheNext /\ UNCHANGED <<moves, vars>>
  \/ moves = "dialog" /\ Next /\ UNCHANGED <<moves, cacheVars>>

PagesSpec == PagesInit /\ [][PagesNext]_<<moves, vars, cacheVars>>
=============================================================================
