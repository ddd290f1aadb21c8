----------------------------- MODULE MCLifting -----------------------------
(***************************************************************************)
(* What happens to code objects before they are instrumented, one concern  *)
(* at a time: MockLoader loads and links them, CodeDiscovery lifts the     *)
(* functions in them.  The loader's variables keep their initial values    *)
(* while functions are discovered; while code objects are loaded the       *)
(* others are "idle" and nothing is visited.                               *)
(***************************************************************************)
EXTENDS MCCodeDiscovery, MockLoader

VARIABLE part   \* "loader" or "discovery"

-----------------------------------------------------------------------------
(* user and maker depend on one another in one direction, left and right on *)
(* each other, twin redefines maker's symbol, listing is not stripped, rel  *)
(* has REL sections, bad is no ELF.                                         *)

CodeObjectDefines ==
  [user |-> {}, maker |-> {"x"}, twin |-> {"x"}, left |-> {"y"}, right |-> {"z"},
   listing |-> {}, rel |-> {}, bad |-> {}]

CodeObjectUses ==
  [user |-> {"x", "z"}, maker |-> {"x"}, twin |-> {}, left |-> {"y", "z"}, right |-> {"y"},
   listing |-> {"z"}, rel |-> {"x"}, bad |-> {}]

CodeObjectNames == DOMAIN CodeObjectUses
Names == {"x", "y", "z"}

-----------------------------------------------------------------------------
Idle == "idle"
ofDiscovery == <<code, entry, traceVars, stage, current, initial, unvisited, visited, lifted>>
IdleDiscovery ==
  /\ code = Idle /\ entry = Idle /\ unvisitedTraceAddresses = Idle /\ traces = Idle
  /\ directBranchTargets = Idle /\ sweepFailed = Idle
  /\ stage = Idle /\ current = Idle /\ initial = Idle /\ unvisited = Idle /\ visited = {} /\ lifted = Idle

PartsInit ==
  /\ LoaderInit
  /\ \/ part = "loader" /\ IdleDiscovery
     \/ part = "discovery" /\ Init

PartsNext ==
  \/ part = "loader" /\ LoaderNext /\ UNCHANGED <<part, ofDiscovery>>
  \/ part = "discovery" /\ Next /\ UNCHANGED <<part, loaderVars>>

partVars == <<part, loaderVars, ofDiscovery>>

\* The loop goes on with the worklists.
OnWorklists ==
  /\ part = "discovery" /\ UNCHANGED <<part, loaderVars>>
  /\ PickEntryPoint \/ DropVisited \/ TraceStep \/ TracesUnavailable \/ RewriteCalls

\* It is done with the function whose traces are found: AbortOnAssertion,
\* BranchUnresolved or LiftFunction, of which always one can happen.
PastFunction ==
  /\ part = "discovery" /\ stage = "traces" /\ TracesDone
  /\ stage' \in {"aborted", "failed", "pick"}

\* Discovery is one loop on one thread; nothing is assumed of the loader's callers.
\* The two together are the fairness of Spec: no state has steps of both, and
\* whether PastFunction can happen is seen without populating the function.
Fairness == WF_partVars(OnWorklists) /\ WF_stage(PastFunction)

PartsSpec == PartsInit /\ [][PartsNext]_partVars /\ Fairness

-----------------------------------------------------------------------------
(* The invariants are those of CodeDiscovery, which hold of what is idle,   *)
(* and of MockLoader.                                                       *)

\* Discovery ends although entry points are enqueued again after every visit and
\* functions call one another.
DiscoveryEnds == part = "discovery" => Terminates
=============================================================================
