------------------------------ MODULE ApiTables ------------------------------
(***************************************************************************)
(* The providers of HSA API tables (include/luthier/Rocprofiler/): each    *)
(* asks rocprofiler-sdk to be called back whenever the HSA runtime         *)
(* registers its table.  A snapshot copies the table, for Luthier's own    *)
(* calls; an installer puts wrappers into it.  rocprofiler-sdk keeps the   *)
(* address of every provider in an append-only list, walks the list at     *)
(* each registration - the application may shut HSA down and start it      *)
(* again - and ignores registrations once it is finalizing.                *)
(*                                                                         *)
(* rocprofiler-sdk and the HSA runtime are not part of the repository:     *)
(* StartHsa, NextProvider and Finalize are what the providers' comments    *)
(* rely on.                                                                *)
(***************************************************************************)
EXTENDS Integers, Sequences, FiniteSets

CONSTANTS
  Snapshots,
  Installers,
  Functions,   \* entries of the table
  Wraps,       \* Wraps[p]: the entries installer p wraps
  Runtime,     \* the runtime's own implementation of an entry
  MaxStarts,   \* bound on how often HSA is started
  None

Providers == Snapshots \cup Installers

ASSUME KindsDiffer == Snapshots \cap Installers = {}
ASSUME WrapsType == Wraps \in [Installers -> SUBSET Functions]
ASSUME NamesDiffer == {Runtime, None} \cap Providers = {} /\ Runtime # None
ASSUME MaxStartsNat == MaxStarts \in Nat

VARIABLES
  stage,       \* of rocprofiler-sdk
  registered,  \* its list of providers
  alive,       \* providers that exist
  invoked,     \* WasRegistrationInvoked
  table,       \* table[f]: what an application's call of f runs first
  underlying,  \* underlying[p][f]: what p's wrapper of f calls
  copy,        \* copy[p]: ApiTable or ExtensionTable of snapshot p
  walk,        \* the provider called back, and whether its Callback has run
  starts,      \* registrations so far
  hostAborted, \* HostAbortedDuringExecution
  fatal        \* the provider whose fatal error ended the process, or None

vars == <<stage, registered, alive, invoked, table, underlying, copy, walk,
          starts, hostAborted, fatal>>

\* No registration is in progress.
Resting == [at |-> 0, called |-> FALSE]

SuccessfullyRegistered(p) == \E i \in 1..Len(registered) : registered[i] = p
Pristine == [f \in Functions |-> Runtime]
Running == fatal = None /\ ~hostAborted

Init ==
  /\ stage = "configuring"
  /\ registered = <<>>
  /\ alive = {}
  /\ invoked = {}
  /\ table = Pristine
  /\ underlying = [p \in Installers |-> [f \in Functions |-> None]]
  /\ copy = [p \in Snapshots |-> None]
  /\ walk = Resting
  /\ starts = 0
  /\ hostAborted = FALSE
  /\ fatal = None

-----------------------------------------------------------------------------
\* The constructor, inside rocprofiler_configure.  A tool stops at the first
\* error, and an installer's owner takes the snapshots by reference.
Construct(p) ==
  /\ Running
  /\ stage = "configuring"
  /\ p \notin alive
  /\ alive = {registered[i] : i \in 1..Len(registered)}
  /\ p \in Installers => Snapshots \subseteq alive
  /\ alive' = alive \cup {p}
  /\ registered' = Append(registered, p)
  /\ UNCHANGED <<stage, invoked, table, underlying, copy, walk, starts,
                 hostAborted, fatal>>

\* rocprofiler_at_intercept_table_registration failed.
ConstructFails(p) ==
  /\ Running
  /\ stage = "configuring"
  /\ p \notin alive
  /\ alive = {registered[i] : i \in 1..Len(registered)}
  /\ p \in Installers => Snapshots \subseteq alive
  /\ alive' = alive \cup {p}
  /\ UNCHANGED <<stage, registered, invoked, table, underlying, copy, walk,
                 starts, hostAborted, fatal>>

Configured ==
  /\ Running
  /\ stage = "configuring"
  /\ stage' = "running"
  /\ UNCHANGED <<registered, alive, invoked, table, underlying, copy, walk,
                 starts, hostAborted, fatal>>

\* hsa_init registers a fresh table.
StartHsa ==
  /\ Running
  /\ stage = "running"
  /\ walk = Resting
  /\ starts < MaxStarts
  /\ registered # <<>>
  /\ starts' = starts + 1
  /\ table' = Pristine
  /\ walk' = [at |-> 1, called |-> FALSE]
  /\ UNCHANGED <<stage, registered, alive, invoked, underlying, copy,
                 hostAborted, fatal>>

-----------------------------------------------------------------------------
CalledBack(p) ==
  /\ Running
  /\ walk.at # 0
  /\ registered[walk.at] = p

\* A table with the wrong count, type or version, or a null one.
TablesRejected(p) ==
  /\ CalledBack(p)
  /\ ~walk.called
  /\ fatal' = p
  /\ UNCHANGED <<stage, registered, alive, invoked, table, underlying, copy,
                 walk, starts, hostAborted>>

\* A snapshot's Callback: only the first table is copied.
Capture(p) ==
  /\ CalledBack(p)
  /\ p \in Snapshots
  /\ ~walk.called
  /\ copy' = IF p \in invoked THEN copy ELSE [copy EXCEPT ![p] = table]
  /\ walk' = [walk EXCEPT !.called = TRUE]
  /\ UNCHANGED <<stage, registered, alive, invoked, table, underlying, starts,
                 hostAborted, fatal>>

\* Faulty: as in a snapshot, a second registration is ignored.
InstallOnce(p) ==
  /\ CalledBack(p)
  /\ p \in Installers
  /\ ~walk.called
  /\ underlying' = [underlying EXCEPT ![p] =
       [f \in Functions |-> IF f \in Wraps[p] THEN table[f] ELSE @[f]]]
  /\ table' = [f \in Functions |->
       IF f \in Wraps[p] /\ p \notin invoked THEN p ELSE table[f]]
  /\ walk' = [walk EXCEPT !.called = TRUE]
  /\ UNCHANGED <<stage, registered, alive, invoked, copy, starts, hostAborted,
                 fatal>>

\* An installer's Callback: installWrapperEntry for each of its entries.
Install(p) ==
  /\ CalledBack(p)
  /\ p \in Installers
  /\ ~walk.called
  /\ underlying' = [underlying EXCEPT ![p] =
       [f \in Functions |-> IF f \in Wraps[p] THEN table[f] ELSE @[f]]]
  /\ table' = [f \in Functions |-> IF f \in Wraps[p] THEN p ELSE table[f]]
  /\ walk' = [walk EXCEPT !.called = TRUE]
  /\ UNCHANGED <<stage, registered, alive, invoked, copy, starts, hostAborted,
                 fatal>>

\* WasRegistrationInvoked.store(true), and the next provider's turn.
StoreInvoked(p) ==
  /\ CalledBack(p)
  /\ walk.called
  /\ invoked' = invoked \cup {p}
  /\ walk' = IF walk.at = Len(registered) THEN Resting
             ELSE [at |-> walk.at + 1, called |-> FALSE]
  /\ UNCHANGED <<stage, registered, alive, table, underlying, copy, starts,
                 hostAborted, fatal>>

-----------------------------------------------------------------------------
Finalize ==
  /\ Running
  /\ stage = "running"
  /\ walk = Resting
  /\ stage' = "finalizing"
  /\ UNCHANGED <<registered, alive, invoked, table, underlying, copy, walk,
                 starts, hostAborted, fatal>>

\* std::terminate in the host: hostAbortedTerminateHandler.
HostAborts ==
  /\ Running
  /\ hostAborted' = TRUE
  /\ UNCHANGED <<stage, registered, alive, invoked, table, underlying, copy,
                 walk, starts, fatal>>

\* Faulty: a provider that has been called back may go.
DestroyOnceInvoked(p) ==
  /\ fatal = None
  /\ p \in alive
  /\ alive' = alive \ {p}
  /\ fatal' = IF \/ ~SuccessfullyRegistered(p) \/ stage = "finalizing"
                 \/ hostAborted \/ p \in invoked
              THEN None ELSE p
  /\ UNCHANGED <<stage, registered, invoked, table, underlying, copy, walk,
                 starts, hostAborted>>

\* ~ApiTableRegistrationCallbackProvider, called at any time.
Destroy(p) ==
  /\ fatal = None
  /\ p \in alive
  /\ alive' = alive \ {p}
  /\ fatal' = IF \/ ~SuccessfullyRegistered(p) \/ stage = "finalizing"
                 \/ hostAborted
              THEN None ELSE p
  /\ UNCHANGED <<stage, registered, invoked, table, underlying, copy, walk,
                 starts, hostAborted>>

\* The process has ended, or there is nothing left to end.
Over ==
  /\ fatal # None \/ alive = {}
  /\ UNCHANGED vars

Next ==
  \/ \E p \in Providers :
       \/ Construct(p) \/ ConstructFails(p)
       \/ Capture(p) \/ Install(p) \/ StoreInvoked(p) \/ TablesRejected(p)
       \/ Destroy(p)
  \/ Configured \/ StartHsa \/ Finalize \/ HostAborts
  \/ Over

Spec == Init /\ [][Next]_vars

-----------------------------------------------------------------------------
(***************************************************************************)
(* Once a snapshot's flag is set, getTable() returns the whole table, and  *)
(* no call made through it comes back to a wrapper, however often HSA is   *)
(* started again.                                                          *)
(***************************************************************************)
SnapshotPristine ==
  \A p \in Snapshots : p \in invoked => copy[p] = Pristine

\* The wrappers of f that rocprofiler-sdk has installed so far, outermost last.
Position(p) == CHOOSE i \in 1..Len(registered) : registered[i] = p
InstalledOn(f) ==
  {p \in Installers :
     /\ f \in Wraps[p]
     /\ SuccessfullyRegistered(p)
     /\ \/ walk.at = 0 /\ starts > 0
        \/ Position(p) < walk.at
        \/ Position(p) = walk.at /\ walk.called}

(***************************************************************************)
(* After each registration an application's call passes through every      *)
(* wrapper of its entry exactly once, the last one registered first, and   *)
(* then reaches the runtime: no wrapper is lost when HSA is started again  *)
(* and none calls itself.                                                  *)
(***************************************************************************)
IsOutermost(x, ps) ==
  IF ps = {} THEN x = Runtime
  ELSE x \in ps /\ \A q \in ps : Position(q) <= Position(x)

WrappersChained ==
  \A f \in Functions :
    /\ IsOutermost(table[f], InstalledOn(f))
    /\ \A p \in InstalledOn(f) :
         IsOutermost(underlying[p][f],
                     {q \in InstalledOn(f) : Position(q) < Position(p)})

\* What the application and Luthier itself see of the table.
TablesChained == SnapshotPristine /\ WrappersChained

(***************************************************************************)
(* rocprofiler-sdk never calls back a provider that has been destroyed:    *)
(* it would run a std::function through a dangling pointer.                *)
(***************************************************************************)
NoDanglingCallback ==
  walk.at # 0 /\ Running => registered[walk.at] \in alive

=============================================================================
