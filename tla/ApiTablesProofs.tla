--------------------------- MODULE ApiTablesProofs ---------------------------
(***************************************************************************)
(* Proofs about ApiTables for any snapshots, installers, wrapped entries   *)
(* and number of starts of HSA.                                            *)
(***************************************************************************)
EXTENDS ApiTables, SequenceTheorems, TLAPS

Places == 1 .. Len(registered)
RegisteredOnes == {registered[i] : i \in Places}

TypeOK ==
  /\ stage \in {"configuring", "running", "finalizing"}
  /\ registered \in Seq(Providers)
  /\ alive \subseteq Providers
  /\ invoked \subseteq Providers
  /\ table \in [Functions -> Installers \cup {Runtime}]
  /\ underlying \in [Installers -> [Functions -> Installers \cup {Runtime, None}]]
  /\ copy \in [Snapshots -> [Functions -> Installers \cup {Runtime}] \cup {None}]
  /\ walk \in [at : {0} \cup Places, called : BOOLEAN]
  /\ starts \in Nat
  /\ hostAborted \in BOOLEAN
  /\ fatal \in Providers \cup {None}

\* A provider has one place in the list.
OnePlace == \A i, j \in Places : registered[i] = registered[j] => i = j

\* Every snapshot precedes every installer.
SnapshotsFirst ==
  \A i \in Places : registered[i] \in Installers =>
    \A s \in Snapshots : \E j \in Places : j < i /\ registered[j] = s

\* The list is complete before HSA is first started.
StartsLater ==
  /\ stage = "configuring" => starts = 0 /\ table = Pristine
  /\ stage # "running" => walk = Resting
  /\ starts = 0 => walk = Resting
  /\ walk.at = 0 => ~walk.called

\* As long as nothing has gone wrong, what is registered exists.
RegisteredLive == Running /\ stage # "finalizing" => RegisteredOnes \subseteq alive

\* A snapshot that has been called back, or is just being, has its copy.
CapturedPristine ==
  \A p \in Snapshots :
    p \in invoked \/ (walk.at # 0 /\ walk.called /\ registered[walk.at] = p)
      => copy[p] = Pristine

IInv ==
  /\ TypeOK
  /\ OnePlace
  /\ SnapshotsFirst
  /\ StartsLater
  /\ RegisteredLive
  /\ CapturedPristine
  /\ WrappersChained

-----------------------------------------------------------------------------
(***************************************************************************)
(* Places in the list, and the wrappers installed so far.                  *)
(***************************************************************************)

\* In a list without repetitions the place of an element is unique.
LEMMA PlaceIn ==
  ASSUME NEW s, NEW i \in 1 .. Len(s), \A j, k \in 1 .. Len(s) : s[j] = s[k] => j = k
  PROVE  (CHOOSE j \in 1 .. Len(s) : s[j] = s[i]) = i
<1> DEFINE here(j) == s[j] = s[i]
<1>1. \A j \in 1 .. Len(s) : here(j) <=> j = i
  OBVIOUS
<1>2. (CHOOSE j \in 1 .. Len(s) : here(j)) = i
  BY <1>1
<1>3. QED
  BY <1>2

LEMMA PositionOfPlace ==
  ASSUME OnePlace, NEW i \in Places
  PROVE  Position(registered[i]) = i
  BY PlaceIn DEF OnePlace, Position, Places

\* A registered provider, and where it is.
LEMMA RegisteredAtPosition ==
  ASSUME OnePlace, NEW p, SuccessfullyRegistered(p)
  PROVE  Position(p) \in Places /\ registered[Position(p)] = p
<1>1. PICK i \in Places : registered[i] = p
  BY DEF SuccessfullyRegistered, Places
<1>2. QED
  BY <1>1, PositionOfPlace

\* Before HSA is first started no wrapper is installed.
LEMMA NoneBeforeStart ==
  ASSUME TypeOK, OnePlace, walk.at = 0, starts = 0, NEW f \in Functions
  PROVE  InstalledOn(f) = {}
<1> SUFFICES ASSUME NEW p \in InstalledOn(f) PROVE FALSE
  OBVIOUS
<1>1. Position(p) \in Nat \ {0}
  BY RegisteredAtPosition DEF InstalledOn, Places
<1>2. QED
  BY <1>1 DEF InstalledOn

\* Steps that neither register, install nor move on keep the chains.
LEMMA SameChains ==
  ASSUME WrappersChained, UNCHANGED <<registered, table, underlying>>,
         \A f \in Functions : InstalledOn(f)' = InstalledOn(f)
  PROVE  WrappersChained'
<1>1. \A p : Position(p)' = Position(p)
  BY DEF Position
<1>2. \A x, ps : IsOutermost(x, ps)' <=> IsOutermost(x, ps)
  BY <1>1 DEF IsOutermost
<1>3. QED
  BY <1>1, <1>2 DEF WrappersChained

-----------------------------------------------------------------------------
LEMMA InitIInv == ASSUME Init PROVE IInv
<1>1. registered = <<>> /\ Places = {}
  BY DEF Init, Places
<1>2. TypeOK
  <2>1. table \in [Functions -> Installers \cup {Runtime}]
    BY DEF Init, Pristine
  <2>2. /\ underlying \in [Installers -> [Functions -> Installers \cup {Runtime, None}]]
        /\ copy \in [Snapshots -> [Functions -> Installers \cup {Runtime}] \cup {None}]
    BY DEF Init
  <2>3. walk \in [at : {0} \cup Places, called : BOOLEAN]
    BY DEF Init, Resting
  <2>4. registered \in Seq(Providers)
    BY <1>1
  <2>5. QED
    BY <2>1, <2>2, <2>3, <2>4 DEF Init, TypeOK
<1>3. OnePlace /\ SnapshotsFirst /\ RegisteredLive
  BY <1>1 DEF OnePlace, SnapshotsFirst, RegisteredLive, RegisteredOnes
<1>4. StartsLater /\ CapturedPristine
  BY DEF Init, StartsLater, CapturedPristine, Resting
<1>5. \A f \in Functions : InstalledOn(f) = {}
  BY <1>2, <1>3, NoneBeforeStart DEF Init, Resting
<1>6. WrappersChained
  BY <1>5 DEF Init, WrappersChained, IsOutermost, Pristine
<1>7. QED
  BY <1>2, <1>3, <1>4, <1>6 DEF IInv

\* A constructor, which may fail to register: the list grows at its end, and HSA
\* has not been started.
LEMMA ConstructKeepsIInv ==
  ASSUME IInv, NEW p \in Providers, Construct(p)
  PROVE  IInv'
<1> DEFINE n == Len(registered)
<1>1. /\ TypeOK /\ stage = "configuring" /\ starts = 0 /\ walk = Resting /\ table = Pristine
      /\ Running /\ p \notin alive /\ alive = RegisteredOnes
      /\ p \in Installers => Snapshots \subseteq alive
      /\ alive' = alive \cup {p} /\ registered' = Append(registered, p)
      /\ UNCHANGED <<stage, invoked, table, underlying, copy, walk, starts, hostAborted, fatal>>
  BY DEF IInv, StartsLater, Construct, RegisteredOnes, Places
<1>2. n \in Nat /\ registered \in Seq(Providers)
  BY <1>1 DEF TypeOK
<1>3. /\ registered' \in Seq(Providers) /\ Len(registered') = n + 1
      /\ registered'[n + 1] = p
      /\ \A i \in 1 .. n : registered'[i] = registered[i]
  BY <1>1, <1>2, AppendProperties
<1>4. /\ Places = 1 .. n /\ Places' = 1 .. n + 1
      /\ \A i \in Places' : i \in Places \/ i = n + 1
      /\ \A i \in Places : registered[i] # p /\ registered[i] \in alive
  BY <1>1, <1>2, <1>3 DEF Places, RegisteredOnes
<1>5. TypeOK'
  BY <1>1, <1>2, <1>3, <1>4 DEF TypeOK, Resting
<1>6. OnePlace'
  BY <1>2, <1>3, <1>4 DEF IInv, OnePlace
<1>7. SnapshotsFirst'
  <2> SUFFICES ASSUME NEW i \in Places', registered'[i] \in Installers, NEW s \in Snapshots
               PROVE  \E j \in Places' : j < i /\ registered'[j] = s
    BY DEF SnapshotsFirst
  <2>1. CASE i \in Places
    <3>1. PICK j \in Places : j < i /\ registered[j] = s
      BY <1>2, <1>3, <1>4, <2>1 DEF IInv, SnapshotsFirst
    <3>2. QED
      BY <1>2, <1>3, <1>4, <3>1
  <2>2. CASE i = n + 1
    <3>1. PICK j \in Places : registered[j] = s
      BY <1>1, <1>3, <2>2 DEF RegisteredOnes
    <3>2. QED
      BY <1>2, <1>3, <1>4, <2>2, <3>1
  <2>3. QED
    BY <1>4, <2>1, <2>2
<1>8. StartsLater'
  BY <1>1 DEF IInv, StartsLater, Pristine, Resting
<1>9. RegisteredLive'
  BY <1>1, <1>2, <1>3, <1>4 DEF RegisteredLive, RegisteredOnes
<1>10. CapturedPristine'
  BY <1>1 DEF IInv, CapturedPristine, Resting, Pristine
<1>11. \A f \in Functions : InstalledOn(f)' = {}
  <2> SUFFICES ASSUME NEW f \in Functions, NEW q \in InstalledOn(f)' PROVE FALSE
    OBVIOUS
  <2>1. PICK i \in Places' : registered'[i] = q
    BY DEF InstalledOn, SuccessfullyRegistered, Places
  <2>2. Position(q)' = i
    BY <1>6, <2>1, PlaceIn DEF OnePlace, Position, Places
  <2>3. i \in Nat \ {0}
    BY <1>2, <1>4, <2>1
  <2>4. QED
    BY <1>1, <2>2, <2>3 DEF InstalledOn, Resting
<1>12. WrappersChained'
  BY <1>1, <1>11 DEF WrappersChained, IsOutermost, Pristine
<1>13. QED
  BY <1>5, <1>6, <1>7, <1>8, <1>9, <1>10, <1>12 DEF IInv

\* The list is as it was.
LEMMA ListKept ==
  ASSUME IInv, UNCHANGED registered
  PROVE  /\ Places' = Places /\ RegisteredOnes' = RegisteredOnes
         /\ OnePlace' /\ SnapshotsFirst'
         /\ \A p : Position(p)' = Position(p)
         /\ \A p : SuccessfullyRegistered(p)' <=> SuccessfullyRegistered(p)
  BY DEF IInv, Places, RegisteredOnes, OnePlace, SnapshotsFirst, Position,
         SuccessfullyRegistered

\* Steps that change nothing of the tables.
LEMMA TablesKept ==
  ASSUME IInv, UNCHANGED <<registered, table, underlying, copy, invoked, walk, starts>>
  PROVE  OnePlace' /\ SnapshotsFirst' /\ CapturedPristine' /\ WrappersChained'
<1>1. OnePlace' /\ SnapshotsFirst'
  BY ListKept
<1>2. CapturedPristine'
  BY DEF IInv, CapturedPristine, Pristine
<1>3. \A f \in Functions : InstalledOn(f)' = InstalledOn(f)
  BY ListKept DEF InstalledOn
<1>4. QED
  BY <1>1, <1>2, <1>3, SameChains DEF IInv

LEMMA ConstructFailsKeepsIInv ==
  ASSUME IInv, NEW p \in Providers, ConstructFails(p)
  PROVE  IInv'
<1>1. /\ TypeOK' /\ StartsLater' /\ RegisteredLive'
      /\ UNCHANGED <<registered, table, underlying, copy, invoked, walk, starts>>
  BY DEF IInv, ConstructFails, TypeOK, StartsLater, RegisteredLive, Running, Places,
         RegisteredOnes, Pristine, Resting
<1>2. QED
  BY <1>1, TablesKept DEF IInv

LEMMA LifeOfToolKeepsIInv ==
  ASSUME IInv, Configured \/ Finalize \/ HostAborts
  PROVE  IInv'
<1>1. UNCHANGED <<registered, table, underlying, copy, invoked, walk, starts, alive, fatal>>
  BY DEF Configured, Finalize, HostAborts
<1>2. TypeOK'
  BY <1>1 DEF IInv, TypeOK, Places, Configured, Finalize, HostAborts
<1>3. StartsLater' /\ RegisteredLive'
  BY <1>1 DEF IInv, Configured, Finalize, HostAborts, StartsLater, RegisteredLive,
              Running, Places, RegisteredOnes, Pristine, Resting
<1>4. QED
  BY <1>1, <1>2, <1>3, TablesKept DEF IInv

\* A fatal error ends the process.
LEMMA TablesRejectedKeepsIInv ==
  ASSUME IInv, NEW p \in Providers, TablesRejected(p)
  PROVE  IInv'
<1>1. UNCHANGED <<stage, registered, table, underlying, copy, invoked, walk, starts>>
  BY DEF TablesRejected
<1>2. fatal' # None
  BY NamesDiffer DEF TablesRejected
<1>3. TypeOK' /\ StartsLater' /\ RegisteredLive'
  BY <1>1, <1>2 DEF IInv, TablesRejected, TypeOK, StartsLater, RegisteredLive, Running,
                    Places, Pristine, Resting
<1>4. QED
  BY <1>1, <1>3, TablesKept DEF IInv

\* Whatever is on the list may go only when rocprofiler-sdk calls it no more; else
\* its going ends the process.
LEMMA DestroyKeepsIInv ==
  ASSUME IInv, NEW p \in Providers, Destroy(p)
  PROVE  IInv'
<1>1. UNCHANGED <<stage, registered, table, underlying, copy, invoked, walk, starts,
                  hostAborted>>
  BY DEF Destroy
<1>2. TypeOK' /\ StartsLater'
  BY <1>1 DEF IInv, Destroy, TypeOK, StartsLater, Places, Pristine, Resting
<1>3. RegisteredLive'
  <2> SUFFICES ASSUME Running', stage # "finalizing", NEW i \in Places
               PROVE  registered[i] \in alive'
    BY <1>1, ListKept DEF RegisteredLive, RegisteredOnes
  <2>1. ~SuccessfullyRegistered(p)
    BY NamesDiffer DEF Destroy, Running
  <2>2. registered[i] # p
    BY <2>1 DEF SuccessfullyRegistered, Places
  <2>3. registered[i] \in alive
    BY <1>1 DEF IInv, RegisteredLive, RegisteredOnes, Running, Destroy
  <2>4. QED
    BY <2>2, <2>3 DEF Destroy
<1>4. QED
  BY <1>1, <1>2, <1>3, TablesKept DEF IInv

\* A fresh table has no wrapper, and no provider has been called for it.
LEMMA StartHsaKeepsIInv ==
  ASSUME IInv, StartHsa
  PROVE  IInv'
<1>1. /\ TypeOK /\ stage = "running" /\ registered # <<>> /\ walk = Resting
      /\ starts' = starts + 1 /\ table' = Pristine /\ walk' = [at |-> 1, called |-> FALSE]
      /\ UNCHANGED <<stage, registered, alive, invoked, underlying, copy, hostAborted, fatal>>
  BY DEF IInv, StartHsa
<1>2. 1 \in Places
  BY <1>1 DEF TypeOK, Places
<1>3. TypeOK'
  <2>1. table' \in [Functions -> Installers \cup {Runtime}]
    BY <1>1 DEF Pristine
  <2>2. QED
    BY <1>1, <1>2, <2>1 DEF TypeOK, Places
<1>4. OnePlace' /\ SnapshotsFirst'
  BY <1>1, ListKept
<1>5. StartsLater' /\ RegisteredLive' /\ CapturedPristine'
  BY <1>1 DEF IInv, TypeOK, StartsLater, RegisteredLive, RegisteredOnes, Places, Running,
              CapturedPristine, Pristine
<1>6. \A f \in Functions : InstalledOn(f)' = {}
  <2> SUFFICES ASSUME NEW f \in Functions, NEW q \in InstalledOn(f)' PROVE FALSE
    OBVIOUS
  <2>1. SuccessfullyRegistered(q) /\ Position(q)' = Position(q)
    BY <1>1, ListKept DEF InstalledOn
  <2>2. Position(q) \in Places
    BY <2>1, RegisteredAtPosition DEF IInv
  <2>3. Position(q) \in Nat \ {0}
    BY <2>2, <1>1 DEF Places, TypeOK
  <2>4. QED
    BY <1>1, <2>1, <2>3 DEF InstalledOn
<1>7. WrappersChained'
  BY <1>1, <1>6 DEF WrappersChained, IsOutermost, Pristine
<1>8. QED
  BY <1>3, <1>4, <1>5, <1>7 DEF IInv

-----------------------------------------------------------------------------
(***************************************************************************)
(* The providers' callbacks.                                               *)
(***************************************************************************)

\* The provider whose turn it is stands at walk.at.
LEMMA TurnOf ==
  ASSUME IInv, NEW p \in Providers, CalledBack(p)
  PROVE  /\ walk.at \in Places /\ registered[walk.at] = p /\ Position(p) = walk.at
         /\ walk.at \in Nat \ {0} /\ Len(registered) \in Nat
         /\ stage = "running" /\ starts > 0
<1>1. walk.at \in Places /\ registered[walk.at] = p /\ Len(registered) \in Nat
  BY DEF IInv, TypeOK, CalledBack
<1>2. Position(p) = walk.at
  BY <1>1, PositionOfPlace DEF IInv
<1>3. walk # Resting
  BY DEF CalledBack, Resting
<1>4. QED
  BY <1>1, <1>2, <1>3 DEF IInv, TypeOK, StartsLater, Places

\* A registered provider's position is a number.
LEMMA PositionNat ==
  ASSUME IInv, NEW p, SuccessfullyRegistered(p)
  PROVE  Position(p) \in Nat \ {0} /\ Position(p) <= Len(registered)
         /\ registered[Position(p)] = p
<1>1. Position(p) \in Places /\ registered[Position(p)] = p
  BY RegisteredAtPosition DEF IInv
<1>2. QED
  BY <1>1 DEF IInv, TypeOK, Places

LEMMA CaptureKeepsIInv ==
  ASSUME IInv, NEW p \in Providers, Capture(p)
  PROVE  IInv'
<1>1. /\ CalledBack(p) /\ p \in Snapshots /\ ~walk.called
      /\ copy' = IF p \in invoked THEN copy ELSE [copy EXCEPT ![p] = table]
      /\ walk' = [walk EXCEPT !.called = TRUE]
      /\ UNCHANGED <<stage, registered, alive, invoked, table, underlying, starts,
                     hostAborted, fatal>>
  BY DEF Capture
<1>2. /\ walk.at \in Places /\ registered[walk.at] = p /\ Position(p) = walk.at
      /\ walk.at \in Nat \ {0} /\ stage = "running" /\ starts > 0
  BY <1>1, TurnOf
<1>3. TypeOK
  BY DEF IInv
<1>4. walk'.at = walk.at /\ walk'.called /\ walk' \in [at : {0} \cup Places, called : BOOLEAN]
  BY <1>1, <1>3 DEF TypeOK
\* No installer precedes a snapshot.
<1>5. \A f \in Functions : InstalledOn(f) = {}
  <2> SUFFICES ASSUME NEW f \in Functions, NEW q \in InstalledOn(f) PROVE FALSE
    OBVIOUS
  <2>1. q \in Installers /\ SuccessfullyRegistered(q) /\ Position(q) < walk.at
    BY <1>1, <1>2 DEF InstalledOn
  <2>2. Position(q) \in Places /\ registered[Position(q)] = q /\ Position(q) \in Nat
    BY <2>1, RegisteredAtPosition, PositionNat DEF IInv
  <2>3. PICK k \in Places : k < Position(q) /\ registered[k] = p
    BY <1>1, <2>1, <2>2 DEF IInv, SnapshotsFirst
  <2>4. k = walk.at
    BY <1>2, <2>3 DEF IInv, OnePlace
  <2>5. QED
    BY <1>2, <2>1, <2>2, <2>3, <2>4
<1>6. table = Pristine
  <2>1. \A f \in Functions : table[f] = Runtime
    BY <1>5 DEF IInv, WrappersChained, IsOutermost
  <2>2. QED
    BY <1>3, <2>1 DEF TypeOK, Pristine
<1>7. TypeOK'
  <2>1. copy' \in [Snapshots -> [Functions -> Installers \cup {Runtime}] \cup {None}]
    BY <1>1, <1>3 DEF TypeOK
  <2>2. walk' \in [at : {0} \cup Places', called : BOOLEAN]
    BY <1>1, <1>4 DEF Places
  <2>3. QED
    BY <1>1, <1>3, <2>1, <2>2 DEF TypeOK
<1>8. OnePlace' /\ SnapshotsFirst'
  BY <1>1, ListKept
<1>9. StartsLater' /\ RegisteredLive'
  BY <1>1, <1>2, <1>4 DEF IInv, StartsLater, RegisteredLive, RegisteredOnes, Places, Running
<1>10. CapturedPristine'
  <2> SUFFICES ASSUME NEW s \in Snapshots, s \in invoked \/ registered[walk.at] = s
               PROVE  copy'[s] = Pristine
    BY <1>1, <1>4 DEF CapturedPristine, Pristine
  <2>1. CASE s = p /\ p \notin invoked
    BY <1>1, <1>3, <1>6, <2>1 DEF TypeOK
  <2>2. CASE s # p \/ p \in invoked
    <3>1. s \in invoked /\ copy[s] = Pristine
      BY <1>2, <2>2 DEF IInv, CapturedPristine
    <3>2. QED
      BY <1>1, <1>3, <2>2, <3>1 DEF TypeOK
  <2>3. QED
    BY <2>1, <2>2
<1>11. \A f \in Functions : InstalledOn(f)' = {}
  <2> SUFFICES ASSUME NEW f \in Functions, NEW q \in InstalledOn(f)' PROVE FALSE
    OBVIOUS
  <2>1. /\ q \in Installers /\ f \in Wraps[q] /\ SuccessfullyRegistered(q)
        /\ Position(q) <= walk.at /\ Position(q) \in Nat /\ registered[Position(q)] = q
    BY <1>1, <1>2, <1>4, ListKept, PositionNat DEF InstalledOn
  <2>2. q # p
    BY <1>1, <2>1, KindsDiffer
  <2>3. Position(q) < walk.at
    BY <1>2, <2>1, <2>2
  <2>4. q \in InstalledOn(f)
    BY <2>1, <2>3 DEF InstalledOn
  <2>5. QED
    BY <1>5, <2>4
<1>12. WrappersChained'
  BY <1>1, <1>6, <1>11 DEF WrappersChained, IsOutermost, Pristine
<1>13. QED
  BY <1>7, <1>8, <1>9, <1>10, <1>12 DEF IInv

\* The installer whose turn it is wraps outside all that were installed before it.
LEMMA InstallKeepsIInv ==
  ASSUME IInv, NEW p \in Providers, Install(p)
  PROVE  IInv'
<1>1. /\ CalledBack(p) /\ p \in Installers /\ ~walk.called
      /\ underlying' = [underlying EXCEPT ![p] =
           [f \in Functions |-> IF f \in Wraps[p] THEN table[f] ELSE underlying[p][f]]]
      /\ table' = [f \in Functions |-> IF f \in Wraps[p] THEN p ELSE table[f]]
      /\ walk' = [walk EXCEPT !.called = TRUE]
      /\ UNCHANGED <<stage, registered, alive, invoked, copy, starts, hostAborted, fatal>>
  BY DEF Install
<1>2. /\ walk.at \in Places /\ registered[walk.at] = p /\ Position(p) = walk.at
      /\ walk.at \in Nat \ {0} /\ stage = "running" /\ starts > 0
  BY <1>1, TurnOf
<1>3. TypeOK
  BY DEF IInv
<1>4. walk'.at = walk.at /\ walk'.called /\ walk' \in [at : {0} \cup Places, called : BOOLEAN]
  BY <1>1, <1>3 DEF TypeOK
<1>5. TypeOK'
  <2>1. table' \in [Functions -> Installers \cup {Runtime}]
    BY <1>1, <1>3 DEF TypeOK
  <2>2. underlying' \in [Installers -> [Functions -> Installers \cup {Runtime, None}]]
    BY <1>1, <1>3 DEF TypeOK
  <2>3. walk' \in [at : {0} \cup Places', called : BOOLEAN]
    BY <1>1, <1>4 DEF Places
  <2>4. QED
    BY <1>1, <1>3, <2>1, <2>2, <2>3 DEF TypeOK
<1>6. OnePlace' /\ SnapshotsFirst'
  BY <1>1, ListKept
<1>7. StartsLater' /\ RegisteredLive'
  BY <1>1, <1>2, <1>4 DEF IInv, StartsLater, RegisteredLive, RegisteredOnes, Places, Running
<1>8. CapturedPristine'
  <2>1. \A s \in Snapshots : registered[walk.at] # s
    BY <1>1, <1>2, KindsDiffer
  <2>2. QED
    BY <1>1, <1>4, <2>1 DEF IInv, CapturedPristine, Pristine
<1>9. WrappersChained'
  <2>1. /\ \A q : Position(q)' = Position(q)
        /\ \A q : SuccessfullyRegistered(q)' <=> SuccessfullyRegistered(q)
    BY <1>1, ListKept
  <2>2. \A x, ps : IsOutermost(x, ps)' <=> IsOutermost(x, ps)
    BY <2>1 DEF IsOutermost
  <2> SUFFICES ASSUME NEW f \in Functions
               PROVE  /\ IsOutermost(table'[f], InstalledOn(f)')
                      /\ \A q \in InstalledOn(f)' :
                           IsOutermost(underlying'[q][f],
                             {r \in InstalledOn(f)' : Position(r) < Position(q)})
    BY <2>1, <2>2 DEF WrappersChained
  <2> DEFINE old == InstalledOn(f)
  <2>3. /\ IsOutermost(table[f], old)
        /\ \A q \in old : IsOutermost(underlying[q][f], {r \in old : Position(r) < Position(q)})
    BY DEF IInv, WrappersChained
  <2>4. \A q \in old : /\ q \in Installers /\ Position(q) \in Nat /\ Position(q) < walk.at
                       /\ f \in Wraps[q] /\ q # p
    BY <1>1, <1>2, PositionNat DEF InstalledOn
  <2>5. \A q : q \in InstalledOn(f)' <=> q \in old \/ (q = p /\ f \in Wraps[p])
    <3> SUFFICES ASSUME NEW q \in Installers, f \in Wraps[q], SuccessfullyRegistered(q)
                 PROVE  q \in InstalledOn(f)' <=> q \in old \/ q = p
      BY <1>1, <1>2, <2>1 DEF InstalledOn, SuccessfullyRegistered, Places
    <3>1. Position(q) \in Nat /\ registered[Position(q)] = q
      BY PositionNat
    <3>2. q \in InstalledOn(f)' <=> Position(q) <= walk.at
      BY <1>1, <1>2, <1>4, <2>1, <3>1 DEF InstalledOn
    <3>3. q \in old <=> Position(q) < walk.at
      BY <1>1, <1>2, <3>1 DEF InstalledOn
    <3>4. Position(q) = walk.at <=> q = p
      BY <1>2, <3>1
    <3>5. QED
      BY <1>2, <3>1, <3>2, <3>3, <3>4
  <2>6. CASE f \in Wraps[p]
    <3>1. table'[f] = p /\ underlying'[p][f] = table[f]
      BY <1>1, <1>3, <2>6 DEF TypeOK
    <3>2. IsOutermost(table'[f], InstalledOn(f)')
      BY <1>2, <2>4, <2>5, <2>6, <3>1 DEF IsOutermost
    <3>3. {r \in InstalledOn(f)' : Position(r) < Position(p)} = old
      BY <1>2, <2>4, <2>5
    <3>4. ASSUME NEW q \in old
          PROVE  /\ {r \in InstalledOn(f)' : Position(r) < Position(q)}
                      = {r \in old : Position(r) < Position(q)}
                 /\ underlying'[q][f] = underlying[q][f]
      <4>1. \A r : r \in InstalledOn(f)' /\ Position(r) < Position(q)
                     <=> r \in old /\ Position(r) < Position(q)
        BY <1>2, <2>4, <2>5
      <4>2. underlying'[q][f] = underlying[q][f]
        BY <1>1, <1>3, <2>4 DEF TypeOK
      <4>3. QED
        BY <4>1, <4>2
    <3>5. QED
      BY <2>3, <2>5, <3>1, <3>2, <3>3, <3>4
  <2>7. CASE f \notin Wraps[p]
    <3>1. InstalledOn(f)' = old
      BY <2>5, <2>7
    <3>2. table'[f] = table[f] /\ \A q \in old : underlying'[q][f] = underlying[q][f]
      BY <1>1, <1>3, <2>4, <2>7 DEF TypeOK
    <3>3. QED
      BY <2>3, <3>1, <3>2
  <2>8. QED
    BY <2>6, <2>7
<1>10. QED
  BY <1>5, <1>6, <1>7, <1>8, <1>9 DEF IInv

\* The walk moves on, or rests behind the last provider: the same wrappers are in.
LEMMA StoreInvokedKeepsIInv ==
  ASSUME IInv, NEW p \in Providers, StoreInvoked(p)
  PROVE  IInv'
<1>1. /\ CalledBack(p) /\ walk.called /\ invoked' = invoked \cup {p}
      /\ walk' = IF walk.at = Len(registered) THEN Resting
                 ELSE [at |-> walk.at + 1, called |-> FALSE]
      /\ UNCHANGED <<stage, registered, alive, table, underlying, copy, starts,
                     hostAborted, fatal>>
  BY DEF StoreInvoked
<1>2. /\ walk.at \in Places /\ registered[walk.at] = p /\ Position(p) = walk.at
      /\ walk.at \in Nat \ {0} /\ Len(registered) \in Nat
      /\ stage = "running" /\ starts > 0
  BY <1>1, TurnOf
<1>3. TypeOK
  BY DEF IInv
<1>4. /\ ~walk'.called
      /\ walk' \in [at : {0} \cup Places, called : BOOLEAN]
      /\ IF walk.at = Len(registered) THEN walk'.at = 0 ELSE walk'.at = walk.at + 1
  BY <1>1, <1>2 DEF Places, Resting
<1>5. TypeOK'
  <2>1. walk' \in [at : {0} \cup Places', called : BOOLEAN]
    BY <1>1, <1>4 DEF Places
  <2>2. QED
    BY <1>1, <1>3, <2>1 DEF TypeOK
<1>6. OnePlace' /\ SnapshotsFirst'
  BY <1>1, ListKept
<1>7. StartsLater' /\ RegisteredLive'
  BY <1>1, <1>2, <1>4 DEF IInv, StartsLater, RegisteredLive, RegisteredOnes, Places, Running
<1>8. CapturedPristine'
  <2> SUFFICES ASSUME NEW s \in Snapshots, s \in invoked \/ s = p PROVE copy[s] = Pristine
    BY <1>1, <1>4 DEF CapturedPristine, Pristine
  <2>1. QED
    BY <1>1, <1>2 DEF IInv, CapturedPristine
<1>9. \A f \in Functions : InstalledOn(f)' = InstalledOn(f)
  <2> SUFFICES ASSUME NEW f \in Functions, NEW q \in Installers, f \in Wraps[q],
                      SuccessfullyRegistered(q)
               PROVE  q \in InstalledOn(f)' <=> q \in InstalledOn(f)
    BY <1>1, ListKept DEF InstalledOn
  <2>1. /\ Position(q)' = Position(q) /\ SuccessfullyRegistered(q)'
        /\ Position(q) \in Nat \ {0} /\ Position(q) <= Len(registered)
    BY <1>1, ListKept, PositionNat
  <2>2. q \in InstalledOn(f) <=> Position(q) <= walk.at
    BY <1>1, <1>2, <2>1 DEF InstalledOn
  <2>3. q \in InstalledOn(f)' <=> walk'.at = 0 \/ Position(q) < walk'.at
    BY <1>1, <1>2, <1>4, <2>1 DEF InstalledOn
  <2>4. QED
    BY <1>2, <1>4, <2>1, <2>2, <2>3
<1>10. WrappersChained'
  BY <1>1, <1>9, SameChains DEF IInv
<1>11. QED
  BY <1>5, <1>6, <1>7, <1>8, <1>10 DEF IInv

-----------------------------------------------------------------------------
LEMMA StepKeepsIInv == IInv /\ [Next]_vars => IInv'
<1> SUFFICES ASSUME IInv, [Next]_vars PROVE IInv'
  OBVIOUS
<1>1. CASE UNCHANGED vars
  <2>1. UNCHANGED <<registered, table, underlying, copy, invoked, walk, starts>>
    BY <1>1 DEF vars
  <2>2. TypeOK' /\ StartsLater' /\ RegisteredLive'
    BY <1>1 DEF vars, IInv, TypeOK, Places, StartsLater, RegisteredLive, RegisteredOnes,
                Running, Pristine, Resting
  <2>3. QED
    BY <2>1, <2>2, TablesKept DEF IInv
<1>2. ASSUME NEW p \in Providers,
             \/ Construct(p) \/ ConstructFails(p)
             \/ Capture(p) \/ Install(p) \/ StoreInvoked(p) \/ TablesRejected(p)
             \/ Destroy(p)
      PROVE  IInv'
  BY <1>2, ConstructKeepsIInv, ConstructFailsKeepsIInv, CaptureKeepsIInv, InstallKeepsIInv,
     StoreInvokedKeepsIInv, TablesRejectedKeepsIInv, DestroyKeepsIInv
<1>3. CASE Configured \/ StartHsa \/ Finalize \/ HostAborts
  BY <1>3, LifeOfToolKeepsIInv, StartHsaKeepsIInv
<1>4. CASE Over
  BY <1>1, <1>4 DEF Over
<1>5. QED
  BY <1>1, <1>2, <1>3, <1>4 DEF Next

(***************************************************************************)
(* In every run of the tool the list of providers, the tables and the      *)
(* copies keep to the invariant above.                                     *)
(***************************************************************************)
THEOREM ApiTablesInvariant == Spec => []IInv
<1>1. Init => IInv
  BY InitIInv
<1>2. QED
  BY <1>1, StepKeepsIInv, PTL DEF Spec

(***************************************************************************)
(* A snapshot hands out the runtime's own entries, and a call of any entry *)
(* passes every installed wrapper once, the outermost first, however often *)
(* HSA is started (ApiTableSnapshot and ApiTableWrapperInstaller).         *)
(***************************************************************************)
THEOREM CallsPassEveryWrapperOnce == Spec => []TablesChained
<1>1. IInv => TablesChained
  BY DEF IInv, CapturedPristine, TablesChained, SnapshotPristine
<1>2. QED
  BY <1>1, ApiTablesInvariant, PTL

(***************************************************************************)
(* rocprofiler-sdk calls back only providers that exist: the destructor    *)
(* ends the process whenever it could still call back the one destroyed.   *)
(***************************************************************************)
THEOREM OnlyLiveProvidersAreCalled == Spec => []NoDanglingCallback
<1>1. IInv => NoDanglingCallback
  <2> SUFFICES ASSUME IInv, walk.at # 0, Running PROVE registered[walk.at] \in alive
    BY DEF NoDanglingCallback
  <2>1. walk # Resting /\ walk.at \in Places
    BY DEF Resting, IInv, TypeOK
  <2>2. QED
    BY <2>1 DEF IInv, StartsLater, RegisteredLive, RegisteredOnes
<1>2. QED
  BY <1>1, ApiTablesInvariant, PTL

=============================================================================
