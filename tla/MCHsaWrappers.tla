--------------------------- MODULE MCHsaWrappers ---------------------------
(***************************************************************************)
(* What the tool puts between the application and the HSA runtime, one     *)
(* concern at a time: the wrappers and snapshots of the API tables, as     *)
(* HSATool uses them (the cache and the loader both wrap                   *)
(* hsa_executable_destroy, the packet monitor wraps hsa_queue_create), and *)
(* the cache that one of the wrappers feeds, with two threads and two      *)
(* executables that share three handles, one of which at least is used     *)
(* again by the fourth load.  The variables of the other concern stay as   *)
(* they are initially.                                                     *)
(***************************************************************************)
EXTENDS ApiTables, LcoCache, TLC

CONSTANTS cache, loader, monitor, destroy, queue

MCWraps == cache :> {destroy} @@ loader :> {destroy} @@ monitor :> {queue}

VARIABLE part   \* "tables" or "cache"

PartsInit == part \in {"tables", "cache"} /\ Init /\ CacheInit

PartsNext ==
  \/ part = "tables" /\ Next /\ UNCHANGED <<part, cacheVars>>
  \/ part = "cache" /\ CacheNext /\ UNCHANGED <<part, vars>>

PartsSpec == PartsInit /\ [][PartsNext]_<<part, vars, cacheVars>>
=============================================================================
