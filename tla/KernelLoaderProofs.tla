------------------------- MODULE KernelLoaderProofs -------------------------
(***************************************************************************)
(* Proofs about KernelLoader for any number of threads, executables,       *)
(* kernels, presets and managed variables: the records are sound, and what *)
(* a packet runs is loaded.                                                *)
(***************************************************************************)
EXTENDS KernelLoader, TLAPS

Parts == {"exec", "reader"} \cup ManagedVars
Building == {"reader", "stage", "managed"}
Erasing == {"next", "execGone", "readerGone"}
Gone == {"execGone", "readerGone"}
Inside == {"link"} \cup Building \cup Erasing
Outside == {"idle", "load", "invalidate", "underlying"}

Jobs == [at : Inside \cup Outside, key : Keys \cup {None}, variant : 0..MaxVariants,
         exec : Execs \cup {None}, todo : SUBSET Keys]

TypeOK ==
  /\ app \in [Execs -> {"unloaded", "loaded", "dying", "destroyed"}]
  /\ byOriginal \in [Keys -> 0..MaxVariants]
  /\ madeFor \in [Variants -> Execs \cup {None}]
  /\ allocs \in [Variants -> SUBSET [var : ManagedVars, viaSvm : BOOLEAN]]
  /\ created \in 0..MaxVariants
  /\ live \subseteq Handles
  /\ refused \subseteq Handles
  /\ missed \subseteq Execs
  /\ writer \in Threads \cup {None}
  /\ job \in [Threads -> Jobs]
  /\ packet \in [Threads -> [kd : KDs \cup {None}, ko : 0..MaxVariants]]

\* Mutex is held by the thread inside a critical section.
Locked == \A t \in Threads : writer = t <=> job[t].at \in Inside

\* Executables in memory do not overlap, and the kernel of a packet in flight is
\* in one that is loaded.
Apart ==
  \A e, f \in Execs :
    /\ app[e] \in {"loaded", "dying"} /\ app[f] \in {"loaded", "dying"}
    /\ CodeOf[e] \cap CodeOf[f] # {}
    => e = f
InFlight == \A t \in Threads : packet[t].kd # None => Loaded(packet[t].kd)

\* A variant that does not exist yet has left no trace.
Fresh(v) == /\ \A part \in Parts : <<part, v>> \notin refused
            /\ allocs[v] = {}
Unmade == \A v \in Variants : v > created => Fresh(v)

\* Every variant has one key at most, and was lifted from its executable.
CacheOK ==
  /\ \A k \in Keys : byOriginal[k] <= created
  /\ \A j, k \in Keys : Cached(k) /\ byOriginal[j] = byOriginal[k] => j = k
  /\ \A k \in Keys : Cached(k) => /\ madeFor[byOriginal[k]] \in Execs
                                  /\ k[1] \in CodeOf[madeFor[byOriginal[k]]]

\* The load of a kernel: its packet keeps its executable loaded, and what it
\* builds is its own.
Loading(t) ==
  /\ job[t].at = "idle" => job[t] = Idle
  /\ job[t].at \notin Building => job[t].variant = Absent
  /\ job[t].at \in {"load", "link"} \cup Building =>
       /\ job[t].key \in Keys
       /\ job[t].key[1] = packet[t].kd
       /\ job[t].exec \in Execs
       /\ packet[t].kd \in CodeOf[job[t].exec]
       /\ app[job[t].exec] = "loaded"
  /\ job[t].at \in {"link"} \cup Building => ~Cached(job[t].key)
  /\ job[t].at \in Building =>
       /\ job[t].variant \in 1..created
       /\ \A k \in Keys : byOriginal[k] # job[t].variant
       /\ \A part \in Parts : <<part, job[t].variant>> \notin refused
       /\ At(t, "reader") => allocs[job[t].variant] = {}

\* The destruction of an executable, or the unloading of variants: what is still
\* to be erased is cached.
Destroys(t) == \/ job[t].at \in {"invalidate", "underlying"}
               \/ job[t].at \in Erasing /\ job[t].exec # None
Doomed(t, k) == \/ job[t].at \in Erasing /\ k \in job[t].todo
                \/ job[t].at \in Gone /\ k = job[t].key
Unloading(t) ==
  /\ \A k \in Keys : Doomed(t, k) => Cached(k)
  /\ job[t].at \in Gone => job[t].key \in Keys /\ job[t].key \notin job[t].todo
  /\ Destroys(t) => job[t].exec \in Execs /\ app[job[t].exec] = "dying"
  /\ Destroys(t) /\ job[t].at # "invalidate" =>
       \/ job[t].exec \in missed
       \/ \A k \in Keys : Cached(k) /\ madeFor[byOriginal[k]] = job[t].exec => Doomed(t, k)
DestroyedOnce ==
  \A t, u \in Threads : Destroys(t) /\ Destroys(u) /\ job[t].exec = job[u].exec => t = u

\* What the runtime keeps alive of a variant is owed or refused, and never both.
Owning ==
  \A v \in Variants : \A part \in Parts :
    /\ <<part, v>> \in live <=> <<part, v>> \in refused \/ part \in Owed(v)
    /\ part \in Owed(v) => <<part, v>> \notin refused

\* A redirected packet runs a variant of its kernel that nobody is erasing.
Redirected ==
  \A t \in Threads : packet[t].ko # Absent =>
    /\ packet[t].kd # None
    /\ \E k \in Keys : /\ k[1] = packet[t].kd /\ byOriginal[k] = packet[t].ko
                       /\ \A u \in Threads : ~Doomed(u, k)

IInv ==
  /\ TypeOK
  /\ Locked
  /\ Apart
  /\ InFlight
  /\ Unmade
  /\ CacheOK
  /\ \A t \in Threads : Loading(t) /\ Unloading(t)
  /\ DestroyedOnce
  /\ Owning
  /\ NoStaleRecord
  /\ Redirected
-----------------------------------------------------------------------------
\* The thread inside the critical section, as Owed sees it.
Current == IF writer = None THEN Idle ELSE job[writer]

LEMMA IdleJob == /\ Idle \in Jobs /\ Idle.at = "idle" /\ Idle.key = None
                 /\ Idle.variant = Absent /\ Idle.exec = None /\ Idle.todo = {}
BY BoundsNat DEF Idle, Jobs, Inside, Outside, Building, Erasing, Absent

LEMMA KeyFacts == /\ \A k \in Keys : k[1] \in KDs
                  /\ \A kd \in KDs, p \in Presets : <<kd, p>> \in Keys /\ <<kd, p>>[1] = kd
BY DEF Keys

LEMMA PartFacts ==
  /\ "exec" \in Parts /\ "reader" \in Parts /\ ManagedVars \subseteq Parts
  /\ "exec" \notin ManagedVars /\ "reader" \notin ManagedVars
  /\ Handles = Parts \X Variants
BY PartsDiffer DEF Parts, Handles

LEMMA StorageFacts ==
  ASSUME TypeOK, NEW v \in Variants
  PROVE  Storage(v) \subseteq ManagedVars /\ Owed(v) \subseteq Parts
BY DEF TypeOK, Storage, Owed, Parts

\* One thread's job changes.
LEMMA OneJob ==
  ASSUME TypeOK, NEW t \in Threads, NEW j \in Jobs, job' = [job EXCEPT ![t] = j]
  PROVE  /\ job' \in [Threads -> Jobs]
         /\ job'[t] = j
         /\ \A u \in Threads : u # t => job'[u] = job[u]
BY DEF TypeOK

\* A handle is made.
LEMMA OwningGrows ==
  ASSUME Owning, NEW v \in Variants, NEW new \in Parts,
         live' = live \cup HandlesOf(v, {new}), refused' = refused,
         <<new, v>> \notin refused,
         \A u \in Variants : \A part \in Parts :
           part \in Owed(u)' <=> part \in Owed(u) \/ (u = v /\ part = new)
  PROVE  Owning'
BY DEF Owning, HandlesOf

\* Nothing is made or destroyed.
LEMMA OwningStays ==
  ASSUME Owning, UNCHANGED hsa,
         \A u \in Variants : \A part \in Parts : part \in Owed(u)' <=> part \in Owed(u)
  PROVE  Owning'
BY DEF Owning, hsa

\* Handles that were owed are destroyed, or refused.
LEMMA OwningShrinks ==
  ASSUME Owning, TypeOK, NEW v \in Variants, NEW parts \in SUBSET Parts, Destroy(v, parts),
         parts \subseteq Owed(v),
         \A u \in Variants : \A part \in Parts :
           part \in Owed(u)' <=> part \in Owed(u) /\ ~(u = v /\ part \in parts)
  PROVE  Owning'
<1>1. PICK no \in SUBSET parts : /\ live' = live \ HandlesOf(v, parts \ no)
                                 /\ refused' = refused \cup HandlesOf(v, no)
  BY DEF Destroy
<1>2. ASSUME NEW u \in Variants, NEW part \in Parts
      PROVE  /\ <<part, u>> \in live' <=> <<part, u>> \in live /\ ~(u = v /\ part \in parts \ no)
             /\ <<part, u>> \in refused' <=> <<part, u>> \in refused \/ (u = v /\ part \in no)
  BY <1>1 DEF HandlesOf
<1>3. ASSUME NEW u \in Variants, NEW part \in Parts
      PROVE  /\ <<part, u>> \in live' <=> <<part, u>> \in refused' \/ part \in Owed(u)'
             /\ part \in Owed(u)' => <<part, u>> \notin refused'
  BY <1>2, <1>1 DEF Owning
<1>4. QED
  BY <1>3 DEF Owning

LEMMA DestroyTypes ==
  ASSUME TypeOK, NEW v \in Variants, NEW parts \in SUBSET Parts, Destroy(v, parts)
  PROVE  /\ live' \subseteq Handles /\ refused' \subseteq Handles
         /\ \A u \in Variants : \A part \in Parts :
              u # v => (<<part, u>> \in refused' <=> <<part, u>> \in refused)
<1>1. PICK no \in SUBSET parts : /\ live' = live \ HandlesOf(v, parts \ no)
                                 /\ refused' = refused \cup HandlesOf(v, no)
  BY DEF Destroy
<1>2. HandlesOf(v, no) \subseteq Handles
  BY PartFacts DEF HandlesOf
<1>3. QED
  BY <1>1, <1>2 DEF TypeOK, HandlesOf

-----------------------------------------------------------------------------
(***************************************************************************)
(* What a step leaves to the others.                                       *)
(***************************************************************************)

\* The thread u does not move, and no one takes its executable away; where the
\* cache changes, u is not inside.
LEMMA LoadingFrame ==
  ASSUME NEW u \in Threads, Loading(u), job'[u] = job[u], packet'[u] = packet[u],
         \A e \in Execs : app[e] = "loaded" /\ packet[u].kd \in CodeOf[e] => app'[e] = "loaded",
         UNCHANGED <<cache, created, hsa>> \/ job[u].at \notin Inside
  PROVE  Loading(u)'
<1>1. CASE UNCHANGED <<cache, created, hsa>>
  BY <1>1 DEF Loading, Cached, At, cache, hsa
<1>2. CASE job[u].at \notin Inside
  BY <1>2 DEF Loading, Inside
<1>3. QED
  BY <1>1, <1>2

LEMMA UnloadingFrame ==
  ASSUME NEW u \in Threads, Unloading(u), job'[u] = job[u],
         Destroys(u) => (app[job[u].exec] = "dying" => app'[job[u].exec] = "dying"),
         missed \subseteq missed',
         \/ UNCHANGED cache
         \/ /\ job[u].at \notin Inside
            /\ \A k \in Keys : Cached(k)' =>
                 \/ Cached(k) /\ madeFor'[byOriginal'[k]] = madeFor[byOriginal[k]]
                 \/ Destroys(u) => madeFor'[byOriginal'[k]] # job[u].exec
  PROVE  Unloading(u)'
<1>1. /\ Destroys(u)' <=> Destroys(u)
      /\ \A k \in Keys : Doomed(u, k)' <=> Doomed(u, k)
  BY DEF Destroys, Doomed
<1>2. CASE UNCHANGED cache
  BY <1>1, <1>2 DEF Unloading, Cached, cache
<1>3. CASE /\ job[u].at \notin Inside
           /\ \A k \in Keys : Cached(k)' =>
                 \/ Cached(k) /\ madeFor'[byOriginal'[k]] = madeFor[byOriginal[k]]
                 \/ Destroys(u) => madeFor'[byOriginal'[k]] # job[u].exec
  <2>1. job[u].at \notin Erasing /\ job[u].at \notin Gone
    BY <1>3 DEF Inside, Erasing, Gone
  <2>2. \A k \in Keys : ~Doomed(u, k)
    BY <2>1 DEF Doomed
  <2>3. Destroys(u) /\ job[u].at # "invalidate" =>
          \/ job[u].exec \in missed'
          \/ \A k \in Keys : ~(Cached(k)' /\ madeFor'[byOriginal'[k]] = job[u].exec)
    BY <1>3, <2>2 DEF Unloading
  <2>4. QED
    BY <1>1, <2>1, <2>2, <2>3 DEF Unloading
<1>4. QED
  BY <1>2, <1>3

\* A step outside the critical sections, which leaves the cache alone.
LEMMA OutsideStep ==
  ASSUME IInv, NEW t \in Threads, NEW j \in Jobs, job' = [job EXCEPT ![t] = j],
         job[t].at \notin Inside, j.at \notin Inside,
         UNCHANGED <<cache, created, hsa, missed, writer>>
  PROVE  Locked' /\ Unmade' /\ CacheOK' /\ Owning'
<1>1. /\ TypeOK /\ Locked /\ Unmade /\ CacheOK /\ Owning
      /\ job'[t] = j /\ \A u \in Threads : u # t => job'[u] = job[u]
  BY OneJob DEF IInv
<1>2. Locked'
  BY <1>1 DEF Locked
<1>3. Unmade' /\ CacheOK'
  BY <1>1 DEF Unmade, Fresh, CacheOK, Cached, cache, hsa
<1>4. writer # t /\ writer \in Threads \cup {None}
  BY <1>1 DEF Locked, TypeOK
<1>5. Current' = Current
  BY <1>1, <1>4 DEF Current
<1>6. \A u \in Variants : Owed(u)' = Owed(u)
  BY <1>5 DEF Owed, Current, Storage, cache
<1>7. QED
  BY <1>1, <1>2, <1>3, <1>6, OwningStays

\* A step into, inside or out of the critical section, which leaves the
\* application alone.  The parts it may disturb come as assumptions.
LEMMA InsideStep ==
  ASSUME IInv, NEW t \in Threads, NEW j \in Jobs, job' = [job EXCEPT ![t] = j],
         UNCHANGED <<app, packet>>,
         writer \in {t, None}, writer' = IF j.at \in Inside THEN t ELSE None,
         TypeOK', Owning', Loading(t)', Unloading(t)',
         missed \subseteq missed',
         Destroys(t)' => Destroys(t) /\ j.exec = job[t].exec,
         \A k \in Keys : Cached(k)' =>
           \/ Cached(k) /\ madeFor'[byOriginal'[k]] = madeFor[byOriginal[k]]
           \/ app[madeFor'[byOriginal'[k]]] = "loaded"
  PROVE  /\ Locked' /\ Apart' /\ InFlight' /\ DestroyedOnce' /\ NoStaleRecord'
         /\ \A u \in Threads : Loading(u)' /\ Unloading(u)'
<1>1. /\ TypeOK /\ Locked /\ Apart /\ InFlight /\ DestroyedOnce /\ NoStaleRecord
      /\ job'[t] = j /\ \A u \in Threads : u # t => job'[u] = job[u]
      /\ \A u \in Threads : Loading(u) /\ Unloading(u)
  BY OneJob DEF IInv
<1>2. \A u \in Threads : u # t => job[u].at \notin Inside /\ u # None
  BY <1>1, NoneIsNothing DEF Locked
<1>3. Locked'
  BY <1>1, <1>2, NoneIsNothing DEF Locked
<1>4. Apart' /\ InFlight'
  BY <1>1 DEF Apart, InFlight, Loaded
<1>5. DestroyedOnce'
  <2>1. \A u \in Threads : Destroys(u)' => Destroys(u) /\ job'[u].exec = job[u].exec
    BY <1>1 DEF Destroys
  <2>2. QED
    BY <1>1, <2>1 DEF DestroyedOnce
<1>6. NoStaleRecord'
  BY <1>1 DEF NoStaleRecord
<1>7. ASSUME NEW u \in Threads PROVE Loading(u)' /\ Unloading(u)'
  <2>1. CASE u = t
    BY <2>1
  <2>2. CASE u # t
    <3>1. Loading(u)'
      BY <1>1, <1>2, <2>2, LoadingFrame
    <3>2. \A k \in Keys : Cached(k)' =>
            \/ Cached(k) /\ madeFor'[byOriginal'[k]] = madeFor[byOriginal[k]]
            \/ Destroys(u) => madeFor'[byOriginal'[k]] # job[u].exec
      BY <1>1 DEF Unloading
    <3>3. Unloading(u)'
      BY <1>1, <1>2, <2>2, <3>2, UnloadingFrame
    <3>4. QED
      BY <3>1, <3>3
  <2>3. QED
    BY <2>1, <2>2
<1>8. QED
  BY <1>1, <1>3, <1>4, <1>5, <1>6, <1>7

-----------------------------------------------------------------------------
\* The initial states satisfy the invariant.
LEMMA InitIInv == ASSUME Init PROVE IInv
<1>1. TypeOK
  <2>1. job \in [Threads -> Jobs]
    BY IdleJob DEF Init
  <2>2. QED
    BY <2>1, BoundsNat DEF Init, TypeOK, Absent, NoPacket
<1>2. /\ \A t \in Threads : job[t] = Idle /\ job[t].at = "idle" /\ t # None
      /\ \A t \in Threads : packet[t].kd = None /\ packet[t].ko = Absent
      /\ \A k \in Keys : ~Cached(k)
  BY IdleJob, NoneIsNothing DEF Init, NoPacket, Cached
<1>3. Locked /\ DestroyedOnce /\ InFlight /\ Redirected
  BY <1>2 DEF Init, Locked, Inside, Building, Erasing, DestroyedOnce, Destroys, InFlight,
              Redirected
<1>4. Apart /\ Unmade /\ CacheOK /\ NoStaleRecord
  BY <1>2 DEF Init, Apart, Unmade, Fresh, CacheOK, NoStaleRecord, Cached, Absent
<1>5. Owning
  <2>1. ASSUME NEW v \in Variants PROVE Owed(v) = {}
    BY <1>2, IdleJob, <2>1 DEF Init, Owed, Storage, Cached, Absent, Variants
  <2>2. QED
    BY <2>1 DEF Owning, Init
<1>6. ASSUME NEW t \in Threads PROVE Loading(t) /\ Unloading(t)
  BY <1>2, IdleJob DEF Loading, Unloading, Doomed, Destroys, Building, Erasing, Gone
<1>7. QED
  BY <1>1, <1>3, <1>4, <1>5, <1>6 DEF IInv

-----------------------------------------------------------------------------
(***************************************************************************)
(* The application's steps, and those of the library outside the lock.     *)
(***************************************************************************)
LEMMA NoJobMoves ==
  ASSUME IInv, UNCHANGED <<cache, created, hsa, missed, writer, job>>
  PROVE  Locked' /\ Unmade' /\ CacheOK' /\ Owning' /\ DestroyedOnce'
<1>1. \A u \in Variants : Owed(u)' = Owed(u)
  BY DEF Owed, Storage, cache
<1>2. Owning'
  BY <1>1, OwningStays DEF IInv
<1>3. Locked' /\ Unmade' /\ CacheOK' /\ DestroyedOnce'
  BY DEF IInv, Locked, Unmade, Fresh, CacheOK, Cached, cache, hsa, DestroyedOnce, Destroys
<1>4. QED
  BY <1>2, <1>3

LEMMA AppLoadsKeeps == ASSUME IInv, NEW e \in Execs, AppLoads(e) PROVE IInv'
<1>1. /\ TypeOK /\ app[e] = "unloaded" /\ app' = [app EXCEPT ![e] = "loaded"]
      /\ \A other \in Execs :
           app[other] \in {"loaded", "dying"} => CodeOf[other] \cap CodeOf[e] = {}
      /\ UNCHANGED <<cache, created, hsa, missed, writer, job, packet>>
  BY DEF AppLoads, IInv
<1>2. TypeOK'
  BY <1>1 DEF TypeOK, cache, hsa
<1>3. Locked' /\ Unmade' /\ CacheOK' /\ Owning' /\ DestroyedOnce'
  BY <1>1, NoJobMoves
<1>4. /\ app'[e] = "loaded" /\ \A f \in Execs : f # e => app'[f] = app[f]
  BY <1>1 DEF TypeOK
<1>5. Apart'
  BY <1>1, <1>4 DEF Apart, IInv
<1>6. InFlight'
  BY <1>1, <1>4 DEF InFlight, Loaded, IInv
<1>7. NoStaleRecord'
  BY <1>1, <1>4 DEF IInv, NoStaleRecord, CacheOK, Cached, cache
<1>8. ASSUME NEW u \in Threads PROVE Loading(u)' /\ Unloading(u)'
  <2>1. Loading(u) /\ Unloading(u)
    BY DEF IInv
  <2>2. Loading(u)'
    BY <1>1, <1>4, <2>1, LoadingFrame
  <2>3. Unloading(u)'
    BY <1>1, <1>4, <2>1, UnloadingFrame DEF Unloading
  <2>4. QED
    BY <2>2, <2>3
<1>9. Redirected'
  BY <1>1 DEF IInv, Redirected, Doomed, cache
<1>10. QED
  BY <1>2, <1>3, <1>5, <1>6, <1>7, <1>8, <1>9 DEF IInv

\* The packet of an idle thread is handed in, redirected or completed.
LEMMA PacketStep ==
  ASSUME IInv, NEW t \in Threads, NEW p \in [kd : KDs \cup {None}, ko : 0..MaxVariants],
         job[t].at = "idle", packet' = [packet EXCEPT ![t] = p],
         UNCHANGED <<app, cache, created, hsa, missed, writer, job>>,
         p.kd # None => Loaded(p.kd),
         p.ko # Absent =>
           /\ p.kd # None
           /\ \E k \in Keys : /\ k[1] = p.kd /\ byOriginal[k] = p.ko
                              /\ \A u \in Threads : ~Doomed(u, k)
  PROVE  IInv'
<1>1. /\ TypeOK
      /\ packet'[t] = p /\ \A u \in Threads : u # t => packet'[u] = packet[u]
  BY DEF IInv, TypeOK
<1>2. TypeOK'
  BY <1>1 DEF TypeOK, cache, hsa
<1>3. Locked' /\ Unmade' /\ CacheOK' /\ Owning' /\ DestroyedOnce'
  BY NoJobMoves
<1>4. Apart' /\ InFlight' /\ NoStaleRecord'
  BY <1>1 DEF IInv, Apart, InFlight, Loaded, NoStaleRecord, Cached, cache
<1>5. ASSUME NEW u \in Threads PROVE Loading(u)' /\ Unloading(u)'
  <2>1. Loading(u) /\ Unloading(u)
    BY DEF IInv
  <2>2. CASE u = t
    BY <2>1, <2>2 DEF Loading, Unloading, Building, Erasing, Gone, Destroys, Doomed, Cached,
                      cache
  <2>3. CASE u # t
    <3>1. Loading(u)'
      BY <1>1, <2>1, <2>3, LoadingFrame
    <3>2. Unloading(u)'
      BY <2>1, UnloadingFrame
    <3>3. QED
      BY <3>1, <3>2
  <2>4. QED
    BY <2>2, <2>3
<1>6. Redirected'
  <2>1. \A u \in Threads : \A k \in Keys : Doomed(u, k)' <=> Doomed(u, k)
    BY DEF Doomed
  <2>2. QED
    BY <1>1, <2>1 DEF IInv, Redirected, cache
<1>7. QED
  BY <1>2, <1>3, <1>4, <1>5, <1>6 DEF IInv

LEMMA DispatchKeeps ==
  ASSUME IInv, NEW t \in Threads, NEW kd \in KDs, Dispatch(t, kd) PROVE IInv'
<1> DEFINE p == [packet[t] EXCEPT !.kd = kd]
<1>1. /\ packet[t] = NoPacket /\ job[t].at = "idle" /\ Loaded(kd)
      /\ packet' = [packet EXCEPT ![t] = p]
      /\ UNCHANGED <<app, cache, created, hsa, missed, writer, job>>
  BY DEF Dispatch, At
<1>2. p \in [kd : KDs \cup {None}, ko : 0..MaxVariants] /\ p.kd = kd /\ p.ko = Absent
  BY <1>1, BoundsNat DEF NoPacket, Absent
<1> HIDE DEF p
<1>3. QED
  BY <1>1, <1>2, PacketStep

LEMMA CompleteKeeps == ASSUME IInv, NEW t \in Threads, Complete(t) PROVE IInv'
<1>1. /\ job[t].at = "idle" /\ packet' = [packet EXCEPT ![t] = NoPacket]
      /\ UNCHANGED <<app, cache, created, hsa, missed, writer, job>>
  BY DEF Complete, At
<1>2. /\ NoPacket \in [kd : KDs \cup {None}, ko : 0..MaxVariants]
      /\ NoPacket.kd = None /\ NoPacket.ko = Absent
  BY BoundsNat DEF NoPacket, Absent
<1>3. QED
  BY <1>1, <1>2, PacketStep

LEMMA OverrideKeeps ==
  ASSUME IInv, NEW t \in Threads, NEW pr \in Presets, Override(t, pr) PROVE IInv'
<1> DEFINE k == <<packet[t].kd, pr>>
           p == [packet[t] EXCEPT !.ko = byOriginal[k]]
<1>1. /\ TypeOK /\ InFlight /\ Locked
      /\ job[t].at = "idle" /\ packet[t].kd # None /\ writer = None
      /\ packet' = [packet EXCEPT ![t] = p]
      /\ UNCHANGED <<app, cache, created, hsa, missed, writer, job>>
  BY DEF Override, At, IInv
<1>2. packet[t] \in [kd : KDs \cup {None}, ko : 0..MaxVariants] /\ packet[t].kd \in KDs
  BY <1>1 DEF TypeOK
<1>3. k \in Keys /\ k[1] = packet[t].kd
  BY <1>2, KeyFacts
<1>4. byOriginal[k] \in 0..MaxVariants
  BY <1>1, <1>3 DEF TypeOK
<1>5. /\ p \in [kd : KDs \cup {None}, ko : 0..MaxVariants]
      /\ p.kd = packet[t].kd /\ p.ko = byOriginal[k]
  BY <1>2, <1>4
<1>6. \A u \in Threads : ~Doomed(u, k)
  BY <1>1, NoneIsNothing DEF Locked, Doomed, Inside, Erasing, Gone
<1>7. Loaded(p.kd)
  BY <1>1, <1>5 DEF InFlight
<1>8. \E q \in Keys : /\ q[1] = p.kd /\ byOriginal[q] = p.ko
                      /\ \A u \in Threads : ~Doomed(u, q)
  BY <1>3, <1>5, <1>6
<1> HIDE DEF p, k
<1>9. QED
  BY <1>1, <1>5, <1>7, <1>8, PacketStep

LEMMA QueryOwnerKeeps ==
  ASSUME IInv, NEW t \in Threads, NEW e \in Execs, NEW p \in Presets, QueryOwner(t, e, p)
  PROVE  IInv'
<1> DEFINE k == <<packet[t].kd, p>>
           j == [Idle EXCEPT !.at = "load", !.exec = e, !.key = k]
<1>1. /\ TypeOK /\ job[t].at = "idle" /\ packet[t].kd \in CodeOf[e] /\ app[e] = "loaded"
      /\ job' = [job EXCEPT ![t] = j]
      /\ UNCHANGED <<app, cache, created, hsa, missed, writer, packet>>
  BY DEF QueryOwner, At, IInv
<1>2. k \in Keys /\ k[1] = packet[t].kd
  BY <1>1, KeyFacts, CodeOfType
<1>3. /\ j \in Jobs /\ j.at = "load" /\ j.exec = e /\ j.key = k /\ j.variant = Absent
      /\ j.todo = {}
  BY <1>2, IdleJob DEF Jobs, Outside
<1> HIDE DEF k, j
<1>4. /\ job[t].at \notin Inside /\ j.at \notin Inside
      /\ j.at \notin Building /\ j.at \notin Erasing /\ j.at \notin Gone
  BY <1>1, <1>3 DEF Inside, Building, Erasing, Gone
<1>5. Locked' /\ Unmade' /\ CacheOK' /\ Owning'
  BY <1>1, <1>3, <1>4, OutsideStep
<1>6. /\ job' \in [Threads -> Jobs] /\ job'[t] = j
      /\ \A u \in Threads : u # t => job'[u] = job[u]
  BY <1>1, <1>3, OneJob
<1>7. TypeOK'
  BY <1>1, <1>6 DEF TypeOK, cache, hsa
<1>8. Apart' /\ InFlight' /\ NoStaleRecord'
  BY <1>1 DEF IInv, Apart, InFlight, Loaded, NoStaleRecord, Cached, cache
<1>9. ~Destroys(t)' /\ \A q \in Keys : ~Doomed(t, q)'
  BY <1>3, <1>4, <1>6 DEF Destroys, Doomed
<1>10. ASSUME NEW u \in Threads PROVE Loading(u)' /\ Unloading(u)'
  <2>1. Loading(u) /\ Unloading(u)
    BY DEF IInv
  <2>2. CASE u = t
    BY <1>1, <1>2, <1>3, <1>4, <1>6, <1>9, <2>2 DEF Loading, Unloading
  <2>3. CASE u # t
    BY <1>1, <1>6, <2>1, <2>3, LoadingFrame, UnloadingFrame
  <2>4. QED
    BY <2>2, <2>3
<1>11. DestroyedOnce'
  <2>1. \A u \in Threads : Destroys(u)' => Destroys(u) /\ job'[u] = job[u]
    BY <1>6, <1>9 DEF Destroys
  <2>2. QED
    BY <2>1 DEF DestroyedOnce, IInv
<1>12. Redirected'
  <2>1. \A u \in Threads : \A q \in Keys : Doomed(u, q)' => Doomed(u, q)
    BY <1>6, <1>9 DEF Doomed
  <2>2. QED
    BY <1>1, <2>1 DEF Redirected, IInv, cache
<1>13. QED
  BY <1>5, <1>7, <1>8, <1>10, <1>11, <1>12 DEF IInv

\* A thread stops what it was doing outside the lock, or takes up the destruction
\* of e.
LEMMA AlreadyLoadedKeeps == ASSUME IInv, NEW t \in Threads, AlreadyLoaded(t) PROVE IInv'
<1>1. /\ TypeOK /\ job[t].at = "load" /\ job' = [job EXCEPT ![t] = Idle]
      /\ UNCHANGED <<app, cache, created, hsa, missed, writer, packet>>
  BY DEF AlreadyLoaded, At, IInv
<1>2. job[t].at \notin Inside /\ Idle.at \notin Inside
  BY <1>1, IdleJob DEF Inside, Building, Erasing
<1>3. Locked' /\ Unmade' /\ CacheOK' /\ Owning'
  BY <1>1, <1>2, IdleJob, OutsideStep
<1>4. /\ job' \in [Threads -> Jobs] /\ job'[t] = Idle
      /\ \A u \in Threads : u # t => job'[u] = job[u]
  BY <1>1, IdleJob, OneJob
<1>5. TypeOK'
  BY <1>1, <1>4 DEF TypeOK, cache, hsa
<1>6. Apart' /\ InFlight' /\ NoStaleRecord'
  BY <1>1 DEF IInv, Apart, InFlight, Loaded, NoStaleRecord, Cached, cache
<1>7. ~Destroys(t)' /\ \A q \in Keys : ~Doomed(t, q)'
  BY <1>4, IdleJob DEF Destroys, Doomed, Erasing, Gone
<1>8. ASSUME NEW u \in Threads PROVE Loading(u)' /\ Unloading(u)'
  <2>1. Loading(u) /\ Unloading(u)
    BY DEF IInv
  <2>2. CASE u = t
    BY <1>4, <1>7, IdleJob, <2>2 DEF Loading, Unloading, Building, Gone
  <2>3. CASE u # t
    BY <1>1, <1>4, <2>1, <2>3, LoadingFrame, UnloadingFrame
  <2>4. QED
    BY <2>2, <2>3
<1>9. DestroyedOnce'
  <2>1. \A u \in Threads : Destroys(u)' => Destroys(u) /\ job'[u] = job[u]
    BY <1>4, <1>7 DEF Destroys
  <2>2. QED
    BY <2>1 DEF DestroyedOnce, IInv
<1>10. Redirected'
  <2>1. \A u \in Threads : \A q \in Keys : Doomed(u, q)' => Doomed(u, q)
    BY <1>4, <1>7 DEF Doomed
  <2>2. QED
    BY <1>1, <2>1 DEF Redirected, IInv, cache
<1>11. QED
  BY <1>3, <1>5, <1>6, <1>8, <1>9, <1>10 DEF IInv

LEMMA AppDestroysKeeps ==
  ASSUME IInv, NEW t \in Threads, NEW e \in Execs, AppDestroys(t, e) PROVE IInv'
<1> DEFINE j == [job[t] EXCEPT !.at = "invalidate", !.exec = e]
<1>1. /\ TypeOK /\ job[t].at = "idle" /\ app[e] = "loaded"
      /\ \A u \in Threads : packet[u].kd \notin CodeOf[e]
      /\ app' = [app EXCEPT ![e] = "dying"] /\ job' = [job EXCEPT ![t] = j]
      /\ UNCHANGED <<cache, created, hsa, missed, writer, packet>>
  BY DEF AppDestroys, At, IInv
<1>2. job[t] = Idle /\ Loading(t)
  BY <1>1 DEF IInv, Loading
<1>3. j \in Jobs /\ j.at = "invalidate" /\ j.exec = e /\ j.variant = Absent /\ j.todo = {}
  BY <1>2, IdleJob DEF Jobs, Outside
<1> HIDE DEF j
<1>4. /\ job[t].at \notin Inside /\ j.at \notin Inside
      /\ j.at \notin Building /\ j.at \notin Erasing /\ j.at \notin Gone
  BY <1>1, <1>3 DEF Inside, Building, Erasing, Gone
<1>5. Locked' /\ Unmade' /\ CacheOK' /\ Owning'
  BY <1>1, <1>3, <1>4, OutsideStep
<1>6. /\ job' \in [Threads -> Jobs] /\ job'[t] = j
      /\ \A u \in Threads : u # t => job'[u] = job[u]
      /\ app'[e] = "dying" /\ \A f \in Execs : f # e => app'[f] = app[f]
  BY <1>1, <1>3, OneJob DEF TypeOK
<1>7. TypeOK'
  BY <1>1, <1>6 DEF TypeOK, cache, hsa
<1>8. Apart'
  BY <1>1, <1>6 DEF IInv, Apart
<1>9. InFlight'
  BY <1>1, <1>6 DEF IInv, InFlight, Loaded
<1>10. NoStaleRecord'
  BY <1>1, <1>6 DEF IInv, NoStaleRecord, CacheOK, Cached, cache
<1>11. \A u \in Threads : Destroys(u) => job[u].exec # e
  BY <1>1 DEF IInv, Unloading
<1>12. Destroys(t)' /\ \A q \in Keys : ~Doomed(t, q)'
  BY <1>3, <1>4, <1>6 DEF Destroys, Doomed
<1>13. ASSUME NEW u \in Threads PROVE Loading(u)' /\ Unloading(u)'
  <2>1. Loading(u) /\ Unloading(u)
    BY DEF IInv
  <2>2. CASE u = t
    BY <1>3, <1>4, <1>6, <1>12, <2>2 DEF Loading, Unloading
  <2>3. CASE u # t
    <3>1. Loading(u)'
      BY <1>1, <1>6, <2>1, <2>3, LoadingFrame
    <3>2. Unloading(u)'
      BY <1>1, <1>6, <1>11, <2>1, <2>3, UnloadingFrame DEF Unloading
    <3>3. QED
      BY <3>1, <3>2
  <2>4. QED
    BY <2>2, <2>3
<1>14. DestroyedOnce'
  <2>1. \A u \in Threads : u # t => (Destroys(u)' <=> Destroys(u)) /\ job'[u] = job[u]
    BY <1>6 DEF Destroys
  <2>2. QED
    BY <1>3, <1>6, <1>11, <2>1 DEF DestroyedOnce, IInv
<1>15. Redirected'
  <2>1. \A u \in Threads : \A q \in Keys : Doomed(u, q)' => Doomed(u, q)
    BY <1>6, <1>12 DEF Doomed
  <2>2. QED
    BY <1>1, <2>1 DEF Redirected, IInv, cache
<1>16. QED
  BY <1>5, <1>7, <1>8, <1>9, <1>10, <1>13, <1>14, <1>15 DEF IInv

LEMMA UnderlyingKeeps ==
  ASSUME IInv, NEW t \in Threads, NEW outcome \in {"loaded", "destroyed"},
         Underlying(t, outcome)
  PROVE  IInv'
<1> DEFINE e == job[t].exec
<1>1. /\ TypeOK /\ job[t].at = "underlying" /\ Unloading(t)
      /\ app' = [app EXCEPT ![e] = outcome] /\ job' = [job EXCEPT ![t] = Idle]
      /\ UNCHANGED <<cache, created, hsa, missed, writer, packet>>
  BY DEF Underlying, At, IInv
<1>2. Destroys(t) /\ e \in Execs /\ app[e] = "dying"
  BY <1>1 DEF Unloading, Destroys
<1>3. e \in missed \/ \A k \in Keys : Cached(k) => madeFor[byOriginal[k]] # e
  BY <1>1, <1>2 DEF Unloading, Doomed, Erasing, Gone
<1>4. job[t].at \notin Inside /\ Idle.at \notin Inside
  BY <1>1, IdleJob DEF Inside, Building, Erasing
<1>5. Locked' /\ Unmade' /\ CacheOK' /\ Owning'
  BY <1>1, <1>4, IdleJob, OutsideStep
<1>6. /\ job' \in [Threads -> Jobs] /\ job'[t] = Idle
      /\ \A u \in Threads : u # t => job'[u] = job[u]
      /\ app'[e] = outcome /\ \A f \in Execs : f # e => app'[f] = app[f]
  BY <1>1, <1>2, IdleJob, OneJob DEF TypeOK
<1>7. \A u \in Threads : u # t /\ Destroys(u) => job[u].exec # e
  BY <1>2 DEF IInv, DestroyedOnce
<1> HIDE DEF e
<1>8. TypeOK'
  BY <1>1, <1>2, <1>6 DEF TypeOK, cache, hsa
<1>9. Apart'
  BY <1>1, <1>2, <1>6 DEF IInv, Apart
<1>10. InFlight'
  BY <1>1, <1>2, <1>6 DEF IInv, InFlight, Loaded
<1>11. NoStaleRecord'
  BY <1>1, <1>3, <1>6 DEF IInv, NoStaleRecord, CacheOK, Cached, cache
<1>12. ~Destroys(t)' /\ \A q \in Keys : ~Doomed(t, q)'
  BY <1>6, IdleJob DEF Destroys, Doomed, Erasing, Gone
<1>13. ASSUME NEW u \in Threads PROVE Loading(u)' /\ Unloading(u)'
  <2>1. Loading(u) /\ Unloading(u)
    BY DEF IInv
  <2>2. CASE u = t
    BY <1>6, <1>12, IdleJob, <2>2 DEF Loading, Unloading, Building, Gone
  <2>3. CASE u # t
    <3>1. Loading(u)'
      BY <1>1, <1>2, <1>6, <2>1, <2>3, LoadingFrame
    <3>2. Unloading(u)'
      BY <1>1, <1>6, <1>7, <2>1, <2>3, UnloadingFrame DEF Unloading
    <3>3. QED
      BY <3>1, <3>2
  <2>4. QED
    BY <2>2, <2>3
<1>14. DestroyedOnce'
  <2>1. \A u \in Threads : Destroys(u)' => Destroys(u) /\ job'[u] = job[u]
    BY <1>6, <1>12 DEF Destroys
  <2>2. QED
    BY <2>1 DEF DestroyedOnce, IInv
<1>15. Redirected'
  <2>1. \A u \in Threads : \A q \in Keys : Doomed(u, q)' => Doomed(u, q)
    BY <1>6, <1>12 DEF Doomed
  <2>2. QED
    BY <1>1, <2>1 DEF Redirected, IInv, cache
<1>16. QED
  BY <1>5, <1>8, <1>9, <1>10, <1>11, <1>13, <1>14, <1>15 DEF IInv

-----------------------------------------------------------------------------
(***************************************************************************)
(* The critical section of loadInstrumented.                               *)
(***************************************************************************)

\* What the thread that holds Mutex knows.
LEMMA Holder ==
  ASSUME IInv, NEW t \in Threads, job[t].at \in Inside
  PROVE  /\ TypeOK /\ job[t] \in Jobs /\ Loading(t) /\ Unloading(t)
         /\ writer = t /\ Current = job[t]
         /\ \A u \in Threads : u # t => job[u].at \notin Inside
         /\ \A u \in Threads : u # t => \A k \in Keys : ~Doomed(u, k)
<1>1. /\ TypeOK /\ Locked /\ Loading(t) /\ Unloading(t)
  BY DEF IInv
<1>2. writer = t /\ t # None /\ \A u \in Threads : u # t => job[u].at \notin Inside
  BY <1>1, NoneIsNothing DEF Locked
<1>3. QED
  BY <1>1, <1>2 DEF TypeOK, Current, Doomed, Inside, Erasing, Gone

\* Nobody is erasing while the lock is free.
LEMMA LockIsFree ==
  ASSUME IInv, writer = None
  PROVE  /\ Current = Idle
         /\ \A u \in Threads : job[u].at \notin Inside
         /\ \A u \in Threads : \A k \in Keys : ~Doomed(u, k)
<1>1. Locked
  BY DEF IInv
<1>2. \A u \in Threads : job[u].at \notin Inside
  BY <1>1, NoneIsNothing DEF Locked
<1>3. QED
  BY <1>2 DEF Current, Doomed, Inside, Erasing, Gone

\* Where the cache stays, so do what is said of it, and of packets redirected to
\* what is not doomed.
LEMMA CacheStays ==
  ASSUME IInv, UNCHANGED <<byOriginal, madeFor, packet>>, created' \in Nat, created <= created',
         TypeOK,
         \A u \in Threads : \A k \in Keys : Doomed(u, k)' => Doomed(u, k)
  PROVE  CacheOK' /\ Redirected'
<1>1. \A k \in Keys : byOriginal[k] \in Nat /\ created \in Nat
  BY BoundsNat DEF TypeOK
<1>2. CacheOK'
  BY <1>1 DEF IInv, CacheOK, Cached
<1>3. Redirected'
  BY DEF IInv, Redirected
<1>4. QED
  BY <1>2, <1>3

LEMMA BeginLoadKeeps == ASSUME IInv, NEW t \in Threads, BeginLoad(t) PROVE IInv'
<1> DEFINE j == [job[t] EXCEPT !.at = "link"]
<1>1. /\ TypeOK /\ job[t].at = "load" /\ Loading(t) /\ Unloading(t) /\ job[t] \in Jobs
      /\ writer = None /\ writer' = t /\ ~Cached(job[t].key)
      /\ job' = [job EXCEPT ![t] = j]
      /\ UNCHANGED <<app, cache, created, hsa, missed, packet>>
  BY DEF BeginLoad, Acquire, Go, At, IInv, TypeOK
<1>2. /\ j \in Jobs /\ j.at = "link" /\ j.key = job[t].key /\ j.variant = job[t].variant
      /\ j.exec = job[t].exec
  BY <1>1 DEF Jobs, Inside
<1> HIDE DEF j
<1>3. /\ j.at \in Inside /\ j.at \notin Building /\ j.at \notin Erasing /\ j.at \notin Gone
  BY <1>2 DEF Inside, Building, Erasing, Gone
<1>4. /\ job' \in [Threads -> Jobs] /\ job'[t] = j
      /\ \A u \in Threads : u # t => job'[u] = job[u]
  BY <1>1, <1>2, OneJob
<1>5. TypeOK'
  BY <1>1, <1>4 DEF TypeOK, cache, hsa
<1>6. Current = Idle /\ Current' = j /\ j.variant = Absent
  BY <1>1, <1>2, <1>4, LockIsFree, NoneIsNothing DEF Current, Loading, Building
<1>7. \A v \in Variants : Owed(v)' = Owed(v)
  BY <1>1, <1>2, <1>6, IdleJob DEF Owed, Current, Storage, cache, Variants, Absent
<1>8. Owning' /\ Unmade'
  BY <1>1, <1>7, OwningStays DEF IInv, Unmade, Fresh, cache, hsa
<1>9. \A u \in Threads : \A k \in Keys : ~Doomed(u, k)'
  BY <1>1, <1>3, <1>4, LockIsFree DEF Doomed
<1>10. Loading(t)'
  <2>1. /\ j.key \in Keys /\ j.key[1] = packet[t].kd /\ j.exec \in Execs
        /\ packet[t].kd \in CodeOf[j.exec] /\ app[j.exec] = "loaded" /\ ~Cached(j.key)
    BY <1>1, <1>2 DEF Loading
  <2>2. job'[t] = j /\ j.at = "link" /\ j.variant = Absent /\ j.at \notin Building
        /\ UNCHANGED <<packet, app, byOriginal>>
    BY <1>1, <1>2, <1>3, <1>4, <1>6 DEF cache
  <2>3. QED
    BY <2>1, <2>2 DEF Loading, Cached
<1>11. Unloading(t)' /\ ~Destroys(t)'
  BY <1>2, <1>3, <1>4, <1>9 DEF Unloading, Destroys
<1>12. CacheOK' /\ Redirected'
  BY <1>1, <1>9, CacheStays, BoundsNat DEF cache, TypeOK
<1>13. /\ Locked' /\ Apart' /\ InFlight' /\ DestroyedOnce' /\ NoStaleRecord'
       /\ \A u \in Threads : Loading(u)' /\ Unloading(u)'
  BY <1>1, <1>2, <1>3, <1>4, <1>5, <1>8, <1>10, <1>11, InsideStep DEF Cached, cache
<1>14. QED
  BY <1>5, <1>8, <1>12, <1>13 DEF IInv

\* The thread that builds v leaves the critical section with nothing.
LEMMA GivesUp ==
  ASSUME IInv, NEW t \in Threads, job[t].at \in {"link"} \cup Building,
         Unlock(t), UNCHANGED <<app, byOriginal, madeFor, created, missed, packet>>,
         Owning', live' \subseteq Handles, refused' \subseteq Handles,
         allocs' \in [Variants -> SUBSET [var : ManagedVars, viaSvm : BOOLEAN]],
         \A v \in Variants : v > created => Fresh(v)'
  PROVE  IInv'
<1>1. /\ job[t].at \in Inside /\ job[t].at \notin Erasing /\ job[t].at \notin Gone
      /\ job[t].at \notin {"invalidate", "underlying"}
  BY DEF Inside, Building, Erasing, Gone
<1>2. /\ TypeOK /\ writer = t
      /\ \A u \in Threads : u # t => \A k \in Keys : ~Doomed(u, k)
  BY <1>1, Holder
<1>3. writer' = None /\ job' = [job EXCEPT ![t] = Idle]
  BY DEF Unlock
<1>4. /\ job' \in [Threads -> Jobs] /\ job'[t] = Idle
      /\ \A u \in Threads : u # t => job'[u] = job[u]
  BY <1>2, <1>3, IdleJob, OneJob
<1>5. TypeOK'
  BY <1>2, <1>3, <1>4 DEF TypeOK
<1>6. Unmade'
  BY DEF Unmade
<1>7. /\ Idle.at \notin Inside /\ Idle.at \notin Building /\ Idle.at \notin Erasing
      /\ Idle.at \notin Gone
  BY IdleJob DEF Inside, Building, Erasing, Gone
<1>8. \A u \in Threads : \A k \in Keys : ~Doomed(u, k)'
  BY <1>2, <1>4, <1>7 DEF Doomed
<1>9. Loading(t)' /\ Unloading(t)' /\ ~Destroys(t)'
  BY <1>4, <1>7, <1>8, IdleJob DEF Loading, Unloading, Destroys
<1>10. CacheOK' /\ Redirected'
  BY <1>2, <1>8, CacheStays, BoundsNat DEF TypeOK
<1>11. /\ Locked' /\ Apart' /\ InFlight' /\ DestroyedOnce' /\ NoStaleRecord'
       /\ \A u \in Threads : Loading(u)' /\ Unloading(u)'
  BY <1>2, <1>3, <1>4, <1>5, <1>7, <1>9, IdleJob, InsideStep DEF Cached
<1>12. QED
  BY <1>5, <1>6, <1>10, <1>11 DEF IInv

LEMMA LinkFailsKeeps == ASSUME IInv, NEW t \in Threads, LinkFails(t) PROVE IInv'
<1>1. /\ job[t].at = "link" /\ Unlock(t) /\ UNCHANGED <<app, cache, created, hsa, missed, packet>>
  BY DEF LinkFails, At
<1>2. /\ job[t].at \in Inside /\ job[t].at \notin Building
      /\ job[t].at # "reader" /\ job[t].at \notin {"execGone", "readerGone"}
  BY <1>1 DEF Inside, Building
<1>3. /\ TypeOK /\ Current = job[t] /\ Loading(t)
  BY <1>2, Holder
<1>4. Current' = Idle /\ job[t].variant = Absent
  BY <1>1, <1>2, <1>3 DEF Unlock, Current, Loading
<1>5. \A v \in Variants : Owed(v)' = Owed(v)
  BY <1>1, <1>2, <1>3, <1>4, IdleJob DEF Owed, Current, Storage, cache, Variants, Absent
<1>6. Owning' /\ \A v \in Variants : v > created => Fresh(v)'
  BY <1>1, <1>5, OwningStays DEF IInv, Unmade, Fresh, cache, hsa
<1>7. QED
  BY <1>1, <1>3, <1>6, GivesUp DEF TypeOK, cache, hsa

\* The thread goes on building a variant that is its own.
LEMMA BuildsOn ==
  ASSUME IInv, NEW t \in Threads, job[t].at \in {"link"} \cup Building,
         NEW j \in Jobs, job' = [job EXCEPT ![t] = j],
         j.at \in Building, j.key = job[t].key, j.exec = job[t].exec,
         UNCHANGED <<app, byOriginal, madeFor, missed, writer, packet>>,
         created' \in 0..MaxVariants, created <= created',
         live' \subseteq Handles, refused' \subseteq Handles,
         allocs' \in [Variants -> SUBSET [var : ManagedVars, viaSvm : BOOLEAN]],
         Owning',
         \A v \in Variants : v > created' => Fresh(v)',
         j.variant \in 1..created',
         \A k \in Keys : byOriginal[k] # j.variant,
         \A part \in Parts : <<part, j.variant>> \notin refused',
         j.at = "reader" => allocs'[j.variant] = {}
  PROVE  IInv'
<1>1. /\ job[t].at \in Inside /\ job[t].at \notin Erasing /\ job[t].at \notin Gone
      /\ job[t].at \notin {"invalidate", "underlying"}
      /\ j.at \in Inside /\ j.at \notin Erasing /\ j.at \notin Gone
      /\ j.at \notin {"invalidate", "underlying", "idle"}
  BY DEF Inside, Building, Erasing, Gone
<1>2. /\ TypeOK /\ writer = t /\ Loading(t)
      /\ \A u \in Threads : u # t => \A k \in Keys : ~Doomed(u, k)
  BY <1>1, Holder
<1>3. /\ job' \in [Threads -> Jobs] /\ job'[t] = j
      /\ \A u \in Threads : u # t => job'[u] = job[u]
  BY <1>2, OneJob
<1>4. TypeOK'
  BY <1>2, <1>3 DEF TypeOK
<1>5. Unmade'
  BY DEF Unmade
<1>6. \A u \in Threads : \A k \in Keys : ~Doomed(u, k)'
  BY <1>1, <1>2, <1>3 DEF Doomed
<1>7. Loading(t)'
  <2>1. /\ j.key \in Keys /\ j.key[1] = packet[t].kd /\ j.exec \in Execs
        /\ packet[t].kd \in CodeOf[j.exec] /\ app[j.exec] = "loaded" /\ ~Cached(j.key)
    BY <1>2 DEF Loading
  <2>2. job'[t] = j /\ UNCHANGED <<packet, app, byOriginal>>
    BY <1>3
  <2>3. QED
    BY <1>1, <2>1, <2>2 DEF Loading, Cached, At
<1>8. Unloading(t)' /\ ~Destroys(t)'
  BY <1>1, <1>3, <1>6 DEF Unloading, Destroys
<1>9. created \in Nat /\ created' \in Nat
  BY <1>2, BoundsNat DEF TypeOK
<1>10. CacheOK' /\ Redirected'
  BY <1>2, <1>6, <1>9, CacheStays
<1>11. /\ Locked' /\ Apart' /\ InFlight' /\ DestroyedOnce' /\ NoStaleRecord'
       /\ \A u \in Threads : Loading(u)' /\ Unloading(u)'
  BY <1>1, <1>2, <1>4, <1>7, <1>8, InsideStep DEF Cached
<1>12. QED
  BY <1>4, <1>5, <1>10, <1>11 DEF IInv

LEMMA CreateExecKeeps == ASSUME IInv, NEW t \in Threads, CreateExec(t) PROVE IInv'
<1> DEFINE new == created + 1
           j == [job[t] EXCEPT !.at = "reader", !.variant = new]
<1>1. /\ job[t].at = "link" /\ created < MaxVariants /\ created' = new
      /\ live' = live \cup HandlesOf(new, {"exec"})
      /\ job' = [job EXCEPT ![t] = j]
      /\ UNCHANGED <<app, cache, refused, missed, writer, packet>>
  BY DEF CreateExec, At
<1>2. job[t].at \in Inside /\ job[t].at \notin Building /\ job[t].at \notin Gone
  BY <1>1 DEF Inside, Building, Gone
<1>3. TypeOK /\ job[t] \in Jobs /\ Loading(t) /\ writer = t /\ Current = job[t]
  BY <1>2, Holder
<1>4. created \in Nat /\ MaxVariants \in Nat /\ new \in Variants /\ new \in 1..new /\ new > created
  BY <1>1, <1>3, BoundsNat DEF TypeOK, Variants
<1>5. /\ j \in Jobs /\ j.at = "reader" /\ j.variant = new /\ j.key = job[t].key
      /\ j.exec = job[t].exec
  <2>1. new \in 0..MaxVariants /\ "reader" \in Inside
    BY <1>4 DEF Variants, Inside, Building
  <2>2. QED
    BY <1>3, <2>1 DEF Jobs
<1> HIDE DEF j
<1>6. job'[t] = j /\ Current' = j /\ job[t].variant = Absent
  BY <1>1, <1>2, <1>3, <1>5, NoneIsNothing DEF TypeOK, Current, Loading
<1>7. Fresh(new) /\ \A k \in Keys : byOriginal[k] \in Nat /\ byOriginal[k] <= created
  BY <1>4, <1>3, BoundsNat DEF IInv, Unmade, CacheOK, TypeOK
<1>8. \A k \in Keys : byOriginal[k] # new
  BY <1>4, <1>7
<1>9. ASSUME NEW u \in Variants, NEW part \in Parts
      PROVE  part \in Owed(u)' <=> part \in Owed(u) \/ (u = new /\ part = "exec")
  <2>1. u # Absent /\ Storage(u)' = Storage(u) /\ Storage(new) = {}
    BY <1>1, <1>7 DEF Variants, Absent, Storage, cache, Fresh
  <2>2. CASE u = new
    BY <1>1, <1>5, <1>6, <1>8, <2>1, <2>2 DEF Owed, Current, cache
  <2>3. CASE u # new
    BY <1>1, <1>2, <1>5, <1>6, <1>3, <2>1, <2>3 DEF Owed, Current, cache, Gone
  <2>4. QED
    BY <2>2, <2>3
<1>10. /\ Owning'
       /\ live' \subseteq Handles
  BY <1>1, <1>3, <1>4, <1>7, <1>9, PartFacts, OwningGrows DEF IInv, Fresh, HandlesOf, TypeOK
<1>11. \A v \in Variants : v > created' => Fresh(v)'
  BY <1>1, <1>4 DEF IInv, Unmade, Fresh, cache, Variants
<1>12. /\ \A part \in Parts : <<part, j.variant>> \notin refused'
       /\ allocs'[j.variant] = {} /\ created <= created' /\ created' \in 0..MaxVariants
       /\ j.at \in Building /\ refused' \subseteq Handles
       /\ allocs' \in [Variants -> SUBSET [var : ManagedVars, viaSvm : BOOLEAN]]
  BY <1>1, <1>3, <1>4, <1>5, <1>7 DEF Fresh, cache, Building, TypeOK, Variants
<1> HIDE DEF new
<1>13. QED
  BY <1>1, <1>4, <1>5, <1>8, <1>10, <1>11, <1>12, BuildsOn DEF cache

\* What the thread builds, seen from the invariant.
LEMMA Builder ==
  ASSUME IInv, NEW t \in Threads, job[t].at \in Building
  PROVE  /\ TypeOK /\ job[t] \in Jobs /\ writer = t /\ Current = job[t]
         /\ job[t].variant \in Variants /\ job[t].variant \in 1..created
         /\ job[t].at \notin Gone
         /\ \A k \in Keys : byOriginal[k] # job[t].variant
         /\ \A part \in Parts : <<part, job[t].variant>> \notin refused
         /\ At(t, "reader") => allocs[job[t].variant] = {}
         /\ \A part \in Parts : part \in Owed(job[t].variant) <=>
              /\ part \in {"exec", "reader"} \cup Storage(job[t].variant)
              /\ part = "reader" => job[t].at # "reader"
<1>1. job[t].at \in Inside /\ job[t].at \notin Gone
  BY DEF Inside, Building, Gone
<1>2. TypeOK /\ job[t] \in Jobs /\ Loading(t) /\ writer = t /\ Current = job[t]
  BY <1>1, Holder
<1>3. /\ job[t].variant \in Variants /\ job[t].variant \in 1..created
      /\ \A k \in Keys : byOriginal[k] # job[t].variant
      /\ \A part \in Parts : <<part, job[t].variant>> \notin refused
      /\ At(t, "reader") => allocs[job[t].variant] = {}
  BY <1>2, BoundsNat DEF Loading, TypeOK, Variants
<1>4. \A part \in Parts : part \in Owed(job[t].variant) <=>
        /\ part \in {"exec", "reader"} \cup Storage(job[t].variant)
        /\ part = "reader" => job[t].at # "reader"
  BY <1>2, <1>3 DEF Owed, Current
<1>5. QED
  BY <1>1, <1>2, <1>3, <1>4

\* Apart from the variant it builds, what is owed depends on the cache alone.
LEMMA OwedWhileBuilding ==
  ASSUME IInv, NEW t \in Threads, job[t].at \in Building,
         NEW j \in Jobs, j.at \notin Gone, Current' = j, UNCHANGED byOriginal,
         NEW v \in Variants, v # job[t].variant, v # j.variant, allocs'[v] = allocs[v]
  PROVE  Owed(v)' = Owed(v)
<1>1. Current = job[t] /\ job[t].at \notin Gone
  BY Builder
<1>2. Storage(v)' = Storage(v)
  BY DEF Storage
<1>3. QED
  BY <1>1, <1>2 DEF Owed, Current, Gone

LEMMA CreateReaderKeeps == ASSUME IInv, NEW t \in Threads, CreateReader(t) PROVE IInv'
<1> DEFINE v == job[t].variant
           j == [job[t] EXCEPT !.at = "stage"]
<1>1. /\ job[t].at = "reader" /\ live' = live \cup HandlesOf(v, {"reader"})
      /\ job' = [job EXCEPT ![t] = j]
      /\ UNCHANGED <<app, cache, created, refused, missed, writer, packet>>
  BY DEF CreateReader, At, Go
<1>2. job[t].at \in Building
  BY <1>1 DEF Building
<1>3. /\ TypeOK /\ job[t] \in Jobs /\ writer = t
      /\ v \in Variants /\ v \in 1..created
      /\ \A k \in Keys : byOriginal[k] # v
      /\ \A part \in Parts : <<part, v>> \notin refused
      /\ \A part \in Parts : part \in Owed(v) <=>
           part \in {"exec", "reader"} \cup Storage(v) /\ part # "reader"
  BY <1>1, <1>2, Builder
<1>4. /\ j \in Jobs /\ j.at = "stage" /\ j.variant = v /\ j.key = job[t].key
      /\ j.exec = job[t].exec
  BY <1>3 DEF Jobs, Inside, Building
<1> HIDE DEF j
<1>5. Current' = j /\ job'[t] = j
  BY <1>1, <1>3, <1>4, NoneIsNothing DEF TypeOK, Current
<1>6. j.at \in Building /\ j.at \notin Gone
  BY <1>4 DEF Building, Gone
<1>7. \A part \in Parts : part \in Owed(v)' <=> part \in Owed(v) \/ part = "reader"
  BY <1>1, <1>3, <1>4, <1>5, PartFacts DEF Owed, Current, Storage, cache
<1>8. \A u \in Variants : u # v => Owed(u)' = Owed(u)
  BY <1>1, <1>2, <1>4, <1>5, <1>6, OwedWhileBuilding DEF cache
<1>9. Owning' /\ live' \subseteq Handles
  <2>1. \A u \in Variants : \A part \in Parts :
          part \in Owed(u)' <=> part \in Owed(u) \/ (u = v /\ part = "reader")
    BY <1>4, <1>5, <1>7, <1>8
  <2>2. "reader" \in Parts /\ Owning /\ refused' = refused /\ <<"reader", v>> \notin refused
    BY <1>1, <1>3, PartFacts DEF IInv
  <2>3. Owning'
    BY <1>1, <1>3, <2>1, <2>2, OwningGrows
  <2>4. live' \subseteq Handles
    BY <1>1, <1>3, <2>2, PartFacts DEF HandlesOf, TypeOK
  <2>5. QED
    BY <2>3, <2>4
<1>10. \A u \in Variants : u > created' => Fresh(u)'
  BY <1>1 DEF IInv, Unmade, Fresh, cache
<1>11. /\ created' \in 0..MaxVariants /\ created <= created' /\ refused' \subseteq Handles
       /\ allocs' \in [Variants -> SUBSET [var : ManagedVars, viaSvm : BOOLEAN]]
  BY <1>1, <1>3, BoundsNat DEF TypeOK, cache
<1> HIDE DEF v
<1>12. QED
  BY <1>1, <1>2, <1>3, <1>4, <1>6, <1>9, <1>10, <1>11, BuildsOn DEF cache

LEMMA StageKeeps == ASSUME IInv, NEW t \in Threads, Stage(t) PROVE IInv'
<1> DEFINE v == job[t].variant
           j == [job[t] EXCEPT !.at = "managed"]
<1>1. /\ job[t].at = "stage" /\ job' = [job EXCEPT ![t] = j]
      /\ UNCHANGED <<app, cache, created, hsa, missed, writer, packet>>
  BY DEF Stage, At, Go
<1>2. job[t].at \in Building
  BY <1>1 DEF Building
<1>3. /\ TypeOK /\ job[t] \in Jobs /\ writer = t /\ Current = job[t]
      /\ v \in Variants /\ v \in 1..created
      /\ \A k \in Keys : byOriginal[k] # v
      /\ \A part \in Parts : <<part, v>> \notin refused
  BY <1>2, Builder
<1>4. /\ j \in Jobs /\ j.at = "managed" /\ j.variant = v /\ j.key = job[t].key
      /\ j.exec = job[t].exec
  BY <1>3 DEF Jobs, Inside, Building
<1> HIDE DEF j
<1>5. Current' = j
  BY <1>1, <1>3, <1>4, NoneIsNothing DEF TypeOK, Current
<1>6. j.at \in Building /\ j.at \notin Gone
  BY <1>4 DEF Building, Gone
<1>7. \A u \in Variants : Owed(u)' = Owed(u)
  BY <1>1, <1>3, <1>4, <1>5 DEF Owed, Current, Storage, cache
<1>8. Owning'
  BY <1>1, <1>7, OwningStays DEF IInv
<1>9. \A u \in Variants : u > created' => Fresh(u)'
  BY <1>1 DEF IInv, Unmade, Fresh, cache, hsa
<1>10. /\ created' \in 0..MaxVariants /\ created <= created' /\ live' \subseteq Handles
       /\ refused' \subseteq Handles
       /\ allocs' \in [Variants -> SUBSET [var : ManagedVars, viaSvm : BOOLEAN]]
       /\ \A part \in Parts : <<part, v>> \notin refused'
  BY <1>1, <1>3, BoundsNat DEF TypeOK, cache, hsa
<1> HIDE DEF v
<1>11. QED
  BY <1>1, <1>2, <1>3, <1>4, <1>6, <1>8, <1>9, <1>10, BuildsOn DEF cache

LEMMA AllocateManagedKeeps ==
  ASSUME IInv, NEW t \in Threads, NEW m \in ManagedVars, AllocateManaged(t, m) PROVE IInv'
<1> DEFINE j == job[t]
<1>1. job[t].at \in Building /\ job[t].at = "managed"
  BY DEF AllocateManaged, At, Building
<1>2. /\ TypeOK /\ j \in Jobs /\ writer = t /\ job[t].at \notin Gone
      /\ job[t].variant \in Variants
  BY <1>1, Builder
<1>3. PICK v \in Variants : v = job[t].variant
  BY <1>2
<1>4. /\ m \notin Storage(v) /\ live' = live \cup HandlesOf(v, {m})
      /\ allocs' = [allocs EXCEPT ![v] = @ \cup {[var |-> m, viaSvm |-> FALSE]}]
      /\ UNCHANGED <<app, byOriginal, madeFor, created, refused, missed, writer, job, packet>>
  BY <1>3 DEF AllocateManaged
<1>5. /\ v \in 1..created
      /\ \A k \in Keys : byOriginal[k] # v
      /\ \A part \in Parts : <<part, v>> \notin refused
      /\ \A part \in Parts : part \in Owed(v) <=> part \in {"exec", "reader"} \cup Storage(v)
  BY <1>1, <1>3, Builder
<1>6. job' = [job EXCEPT ![t] = j] /\ job'[t] = job[t] /\ Current' = Current /\ Current = job[t]
  BY <1>1, <1>2, <1>4, Builder DEF TypeOK, Current
<1>7. /\ allocs' \in [Variants -> SUBSET [var : ManagedVars, viaSvm : BOOLEAN]]
      /\ allocs'[v] = allocs[v] \cup {[var |-> m, viaSvm |-> FALSE]}
      /\ \A u \in Variants : u # v => allocs'[u] = allocs[u]
  <2>1. allocs \in [Variants -> SUBSET [var : ManagedVars, viaSvm : BOOLEAN]]
    BY <1>2 DEF TypeOK
  <2>2. [var |-> m, viaSvm |-> FALSE] \in [var : ManagedVars, viaSvm : BOOLEAN]
    OBVIOUS
  <2> DEFINE a == [var |-> m, viaSvm |-> FALSE]
             A == [var : ManagedVars, viaSvm : BOOLEAN]
  <2> HIDE DEF a, A
  <2>3. allocs' = [allocs EXCEPT ![v] = allocs[v] \cup {a}]
    BY <1>4 DEF a
  <2>4. a \in A /\ allocs \in [Variants -> SUBSET A]
    BY <2>1, <2>2 DEF a, A
  <2>5. /\ allocs' \in [Variants -> SUBSET A] /\ allocs'[v] = allocs[v] \cup {a}
        /\ \A u \in Variants : u # v => allocs'[u] = allocs[u]
    BY <2>3, <2>4
  <2>6. QED
    BY <2>5 DEF a, A
<1>8. Storage(v)' = Storage(v) \cup {m}
  <2> DEFINE a == [var |-> m, viaSvm |-> FALSE]
  <2>1. a.var = m
    OBVIOUS
  <2>2. allocs'[v] = allocs[v] \cup {a}
    BY <1>7
  <2> HIDE DEF a
  <2>3. QED
    BY <2>1, <2>2 DEF Storage
<1>9. \A part \in Parts : part \in Owed(v)' <=> part \in Owed(v) \/ part = m
  BY <1>1, <1>3, <1>4, <1>5, <1>6, <1>8 DEF Owed, Current
<1>10. \A u \in Variants : u # v => Owed(u)' = Owed(u)
  BY <1>1, <1>2, <1>3, <1>4, <1>6, <1>7, OwedWhileBuilding
<1>11. Owning' /\ live' \subseteq Handles
  <2>1. \A u \in Variants : \A part \in Parts :
          part \in Owed(u)' <=> part \in Owed(u) \/ (u = v /\ part = m)
    BY <1>9, <1>10
  <2>2. m \in Parts /\ Owning /\ refused' = refused /\ <<m, v>> \notin refused
    BY <1>4, <1>5, PartFacts DEF IInv
  <2>3. Owning'
    BY <1>4, <2>1, <2>2, OwningGrows
  <2>4. live' \subseteq Handles
    BY <1>2, <1>4, <2>2, PartFacts DEF HandlesOf, TypeOK
  <2>5. QED
    BY <2>3, <2>4
<1>12. \A u \in Variants : u > created' => Fresh(u)'
  <2>1. ASSUME NEW u \in Variants, u > created PROVE u # v
    BY <1>2, <1>5, <2>1, BoundsNat DEF TypeOK
  <2>2. QED
    BY <1>4, <1>7, <2>1 DEF IInv, Unmade, Fresh
<1>13. /\ created' \in 0..MaxVariants /\ created <= created' /\ refused' \subseteq Handles
  BY <1>2, <1>4, BoundsNat DEF TypeOK
<1> HIDE DEF j
<1>14. j.at = "managed" /\ j.variant = v /\ j.key = job[t].key /\ j.exec = job[t].exec
  BY <1>1, <1>3 DEF j
<1>15. /\ \A part \in Parts : <<part, j.variant>> \notin refused'
       /\ j.at \in Building /\ job[t].at \in {"link"} \cup Building
       /\ j.variant \in 1..created' /\ \A k \in Keys : byOriginal[k] # j.variant
       /\ j.at # "reader"
  BY <1>1, <1>4, <1>5, <1>14
<1>16. QED
  BY <1>2, <1>4, <1>6, <1>7, <1>11, <1>12, <1>13, <1>14, <1>15, BuildsOn

\* A load that fails destroys all that it made.
LEMMA DestroysAll ==
  ASSUME IInv, NEW t \in Threads, job[t].at \in Building,
         NEW v \in Variants, v = job[t].variant, Destroy(v, Owed(v)),
         allocs' = [allocs EXCEPT ![v] = {}], Unlock(t),
         UNCHANGED <<app, byOriginal, madeFor, created, missed, packet>>
  PROVE  IInv'
<1>1. /\ TypeOK /\ job[t] \in Jobs /\ writer = t /\ Current = job[t] /\ v \in 1..created
      /\ \A k \in Keys : byOriginal[k] # v
  BY Builder
<1>2. writer' = None /\ Current' = Idle
  BY DEF Unlock, Current
<1>3. /\ allocs' \in [Variants -> SUBSET [var : ManagedVars, viaSvm : BOOLEAN]]
      /\ \A u \in Variants : u # v => allocs'[u] = allocs[u]
  BY <1>1 DEF TypeOK
<1>4. Owed(v)' = {}
  BY <1>1, <1>2, IdleJob DEF Owed, Current, Variants, Absent
<1>5. /\ Idle \in Jobs /\ Idle.at \notin Gone /\ \A u \in Variants : u # Idle.variant
  BY IdleJob DEF Gone, Variants, Absent
<1>6. \A u \in Variants : u # v => Owed(u)' = Owed(u)
  BY <1>2, <1>3, <1>5, OwedWhileBuilding
<1>7. Owed(v) \subseteq Parts
  BY <1>1, StorageFacts
<1>8. Owning'
  <2>1. \A u \in Variants : \A part \in Parts :
          part \in Owed(u)' <=> part \in Owed(u) /\ ~(u = v /\ part \in Owed(v))
    BY <1>4, <1>6
  <2>2. QED
    BY <1>1, <1>7, <2>1, OwningShrinks DEF IInv
<1>9. /\ live' \subseteq Handles /\ refused' \subseteq Handles
      /\ \A u \in Variants : \A part \in Parts :
           u # v => (<<part, u>> \in refused' <=> <<part, u>> \in refused)
  BY <1>1, <1>7, DestroyTypes
<1>10. \A u \in Variants : u > created => Fresh(u)'
  <2>1. ASSUME NEW u \in Variants, u > created PROVE u # v
    BY <1>1, <2>1, BoundsNat DEF TypeOK
  <2>2. QED
    BY <1>3, <1>9, <2>1 DEF IInv, Unmade, Fresh
<1>11. QED
  BY <1>3, <1>8, <1>9, <1>10, GivesUp

LEMMA ReaderFailsKeeps == ASSUME IInv, NEW t \in Threads, ReaderFails(t) PROVE IInv'
<1>1. job[t].at = "reader" /\ job[t].at \in Building
  BY DEF ReaderFails, At, Building
<1>2. PICK v \in Variants : v = job[t].variant
  BY <1>1, Builder
<1>3. /\ Destroy(v, {"exec"}) /\ Unlock(t)
      /\ UNCHANGED <<app, cache, created, missed, packet>>
  BY <1>2 DEF ReaderFails
<1>4. /\ TypeOK /\ allocs[v] = {}
      /\ \A part \in Parts : part \in Owed(v) <=>
           part \in {"exec", "reader"} \cup Storage(v) /\ part # "reader"
  BY <1>1, <1>2, Builder DEF At
<1>5. Storage(v) = {} /\ Owed(v) \subseteq Parts
  BY <1>4, StorageFacts DEF Storage
<1>6. Owed(v) = {"exec"}
  BY <1>4, <1>5, PartFacts
<1>7. allocs' = [allocs EXCEPT ![v] = {}]
  BY <1>3, <1>4 DEF cache, TypeOK
<1>8. QED
  BY <1>1, <1>2, <1>3, <1>6, <1>7, DestroysAll DEF cache

LEMMA LoadFailsKeeps == ASSUME IInv, NEW t \in Threads, LoadFails(t) PROVE IInv'
<1>1. job[t].at \in Building /\ job[t].at # "reader"
  BY DEF LoadFails, Building
<1>2. PICK v \in Variants : v = job[t].variant
  BY <1>1, Builder
<1>3. /\ Destroy(v, Storage(v) \cup {"exec", "reader"}) /\ Unlock(t)
      /\ allocs' = [allocs EXCEPT ![v] = {}]
      /\ UNCHANGED <<app, byOriginal, madeFor, created, missed, packet>>
  BY <1>2 DEF LoadFails
<1>4. /\ TypeOK
      /\ \A part \in Parts : part \in Owed(v) <=> part \in {"exec", "reader"} \cup Storage(v)
  BY <1>1, <1>2, Builder
<1>5. Storage(v) \subseteq ManagedVars /\ Owed(v) \subseteq Parts
  BY <1>4, StorageFacts
<1>6. Owed(v) = Storage(v) \cup {"exec", "reader"}
  BY <1>4, <1>5, PartFacts
<1>7. QED
  BY <1>1, <1>2, <1>3, <1>6, DestroysAll

LEMMA InsertKeeps == ASSUME IInv, NEW t \in Threads, Insert(t) PROVE IInv'
<1>1. /\ job[t].at = "managed" /\ job[t].at \in Building /\ job[t].at \in Inside
      /\ job[t].at \notin Erasing /\ job[t].at \notin Gone
      /\ job[t].at \notin {"invalidate", "underlying"}
  BY DEF Insert, At, Building, Inside, Erasing, Gone
<1>2. PICK v \in Variants : v = job[t].variant
  BY <1>1, Builder
<1>3. /\ TypeOK /\ writer = t /\ Loading(t) /\ Current = job[t]
      /\ \A u \in Threads : u # t => \A k \in Keys : ~Doomed(u, k)
      /\ \A k \in Keys : ~Doomed(t, k)
  BY <1>1, Holder DEF Doomed
<1>4. /\ v \in 1..created /\ v # Absent
      /\ \A k \in Keys : byOriginal[k] # v
      /\ \A part \in Parts : <<part, v>> \notin refused
      /\ \A part \in Parts : part \in Owed(v) <=> part \in {"exec", "reader"} \cup Storage(v)
  BY <1>1, <1>2, Builder DEF Variants, Absent
<1>5. PICK key \in Keys, e \in Execs :
        /\ key = job[t].key /\ e = job[t].exec /\ ~Cached(key)
        /\ key[1] \in CodeOf[e] /\ app[e] = "loaded"
  BY <1>1, <1>3 DEF Loading
<1>6. /\ byOriginal' = [byOriginal EXCEPT ![key] = v]
      /\ madeFor' = [madeFor EXCEPT ![v] = e]
      /\ writer' = None /\ job' = [job EXCEPT ![t] = Idle]
      /\ UNCHANGED <<app, allocs, created, hsa, missed, packet>>
  BY <1>2, <1>5 DEF Insert, Unlock
<1>7. /\ byOriginal' \in [Keys -> 0..MaxVariants] /\ byOriginal'[key] = v
      /\ \A k \in Keys : k # key => byOriginal'[k] = byOriginal[k]
      /\ madeFor' \in [Variants -> Execs \cup {None}] /\ madeFor'[v] = e
      /\ \A u \in Variants : u # v => madeFor'[u] = madeFor[u]
  BY <1>3, <1>6 DEF TypeOK, Variants
<1>8. /\ job' \in [Threads -> Jobs] /\ job'[t] = Idle /\ Current' = Idle
      /\ \A u \in Threads : u # t => job'[u] = job[u]
  BY <1>3, <1>6, IdleJob, OneJob DEF Current
<1>9. TypeOK'
  BY <1>3, <1>6, <1>7, <1>8 DEF TypeOK, hsa
<1>10. /\ Idle.at \notin Inside /\ Idle.at \notin Building /\ Idle.at \notin Erasing
       /\ Idle.at \notin Gone
  BY IdleJob DEF Inside, Building, Erasing, Gone
<1>11. \A u \in Threads : \A k \in Keys : ~Doomed(u, k)'
  BY <1>3, <1>8, <1>10 DEF Doomed
<1>12. Loading(t)' /\ Unloading(t)' /\ ~Destroys(t)'
  BY <1>8, <1>10, <1>11, IdleJob DEF Loading, Unloading, Destroys
<1>13. ASSUME NEW u \in Variants, NEW part \in Parts
       PROVE  part \in Owed(u)' <=> part \in Owed(u)
  <2>1. Storage(u)' = Storage(u) /\ u # Absent
    BY <1>6 DEF Storage, Variants, Absent
  <2>2. CASE u = v
    BY <1>4, <1>7, <1>8, <1>10, <2>1, <2>2, IdleJob DEF Owed, Current, Gone
  <2>3. CASE u # v
    <3>1. (\E k \in Keys : byOriginal'[k] = u) <=> (\E k \in Keys : byOriginal[k] = u)
      BY <1>5, <1>7, <2>1, <2>3 DEF Cached
    <3>2. QED
      BY <1>1, <1>2, <1>3, <1>8, <1>10, <2>1, <2>3, <3>1, IdleJob DEF Owed, Current, Gone
  <2>4. QED
    BY <2>2, <2>3
<1>14. Owning' /\ Unmade'
  BY <1>6, <1>13, OwningStays DEF IInv, Unmade, Fresh, hsa
<1>15. CacheOK'
  <2>1. CacheOK /\ created \in Nat /\ v <= created
    BY <1>3, <1>4, BoundsNat DEF IInv, TypeOK
  <2>2. \A k \in Keys : byOriginal'[k] <= created'
    BY <1>6, <1>7, <2>1 DEF CacheOK
  <2>3. \A k, q \in Keys : Cached(k)' /\ byOriginal'[q] = byOriginal'[k] => q = k
    BY <1>4, <1>7, <2>1 DEF CacheOK, Cached
  <2>4. ASSUME NEW k \in Keys, Cached(k)'
        PROVE  madeFor'[byOriginal'[k]] \in Execs /\ k[1] \in CodeOf[madeFor'[byOriginal'[k]]]
    <3>1. CASE k = key
      BY <1>5, <1>7, <3>1
    <3>2. CASE k # key
      <4>1. Cached(k) /\ byOriginal'[k] = byOriginal[k] /\ byOriginal[k] # v
        BY <1>4, <1>7, <2>4, <3>2 DEF Cached
      <4>2. byOriginal[k] \in Variants
        BY <1>3, <4>1, BoundsNat DEF TypeOK, Cached, Variants, Absent
      <4>3. QED
        BY <1>7, <2>1, <4>1, <4>2 DEF CacheOK
    <3>3. QED
      BY <3>1, <3>2
  <2>5. QED
    BY <2>2, <2>3, <2>4 DEF CacheOK
<1>16. ASSUME NEW k \in Keys, Cached(k)'
       PROVE  \/ Cached(k) /\ madeFor'[byOriginal'[k]] = madeFor[byOriginal[k]]
              \/ app[madeFor'[byOriginal'[k]]] = "loaded"
  <2>1. CASE k = key
    BY <1>5, <1>7, <2>1
  <2>2. CASE k # key
    <3>1. Cached(k) /\ byOriginal'[k] = byOriginal[k] /\ byOriginal[k] # v
      BY <1>4, <1>7, <1>16, <2>2 DEF Cached
    <3>2. byOriginal[k] \in Variants
      BY <1>3, <3>1, BoundsNat DEF TypeOK, Cached, Variants, Absent
    <3>3. QED
      BY <1>7, <3>1, <3>2
  <2>3. QED
    BY <2>1, <2>2
<1>17. Redirected'
  <2>1. ASSUME NEW u \in Threads, packet[u].ko # Absent
        PROVE  \E k \in Keys : k[1] = packet[u].kd /\ byOriginal'[k] = packet[u].ko
    <3>1. PICK k \in Keys : k[1] = packet[u].kd /\ byOriginal[k] = packet[u].ko
      BY <2>1 DEF IInv, Redirected
    <3>2. k # key
      BY <1>5, <2>1, <3>1 DEF Cached
    <3>3. QED
      BY <1>7, <3>1, <3>2
  <2>2. QED
    BY <1>6, <1>11, <2>1 DEF IInv, Redirected
<1>18. /\ Locked' /\ Apart' /\ InFlight' /\ DestroyedOnce' /\ NoStaleRecord'
       /\ \A u \in Threads : Loading(u)' /\ Unloading(u)'
  BY <1>3, <1>6, <1>9, <1>10, <1>12, <1>14, <1>16, IdleJob, InsideStep
<1>19. QED
  BY <1>9, <1>14, <1>15, <1>17, <1>18 DEF IInv

-----------------------------------------------------------------------------
(***************************************************************************)
(* The critical sections that erase records.                               *)
(***************************************************************************)

\* A thread takes the lock and picks its victims, none of which is in use.
LEMMA PicksVictims ==
  ASSUME IInv, NEW t \in Threads, job[t].at \in {"idle", "invalidate"}, Acquire(t),
         NEW todo \in SUBSET Keys, \A k \in todo : Cached(k),
         job' = [job EXCEPT ![t] = [job[t] EXCEPT !.at = "next", !.todo = todo]],
         UNCHANGED <<app, cache, created, hsa, packet>>,
         missed \subseteq missed', missed' \subseteq Execs,
         \A u \in Threads : \A k \in todo :
           packet[u].ko # Absent => ~(k[1] = packet[u].kd /\ byOriginal[k] = packet[u].ko),
         job[t].at = "invalidate" =>
           \/ job[t].exec \in missed'
           \/ \A k \in Keys : Cached(k) /\ madeFor[byOriginal[k]] = job[t].exec => k \in todo
  PROVE  IInv'
<1> DEFINE j == [job[t] EXCEPT !.at = "next", !.todo = todo]
<1>1. /\ TypeOK /\ Loading(t) /\ Unloading(t) /\ job[t] \in Jobs
      /\ writer = None /\ writer' = t /\ job' = [job EXCEPT ![t] = j]
  BY DEF Acquire, IInv, TypeOK
<1>2. /\ j \in Jobs /\ j.at = "next" /\ j.exec = job[t].exec /\ j.todo = todo
      /\ j.variant = job[t].variant
  <2>1. "next" \in Inside \cup Outside
    BY DEF Inside, Erasing
  <2>2. QED
    BY <1>1, <2>1 DEF Jobs
<1> HIDE DEF j
<1>3. /\ j.at \in Inside /\ j.at \in Erasing /\ j.at \notin Building /\ j.at \notin Gone
      /\ job[t].at \notin Building /\ job[t].at \notin Erasing
  BY <1>2 DEF Inside, Erasing, Building, Gone
<1>4. /\ job' \in [Threads -> Jobs] /\ job'[t] = j
      /\ \A u \in Threads : u # t => job'[u] = job[u]
  BY <1>1, <1>2, OneJob
<1>5. TypeOK'
  BY <1>1, <1>4 DEF TypeOK, cache, hsa
<1>6. Current = Idle /\ Current' = j /\ j.variant = Absent
  BY <1>1, <1>2, <1>3, <1>4, LockIsFree, NoneIsNothing DEF Current, Loading
<1>7. \A v \in Variants : Owed(v)' = Owed(v)
  BY <1>2, <1>6, IdleJob DEF Owed, Current, Storage, cache, Variants, Absent
<1>8. Owning' /\ Unmade'
  BY <1>7, OwningStays DEF IInv, Unmade, Fresh, cache, hsa
<1>9. /\ \A k \in Keys : Doomed(t, k)' <=> k \in todo
      /\ \A u \in Threads : u # t => \A k \in Keys : ~Doomed(u, k)'
      /\ \A u \in Threads : \A k \in Keys : ~Doomed(u, k)
  BY <1>1, <1>2, <1>3, <1>4, LockIsFree DEF Doomed
<1>10. Loading(t)'
  BY <1>2, <1>3, <1>4, <1>6 DEF Loading, Building
<1>11. Destroys(t)' => Destroys(t) /\ job[t].at = "invalidate"
  <2>1. job[t].at = "idle" => job[t].exec = None
    BY <1>1, IdleJob DEF Loading
  <2>2. QED
    BY <1>2, <1>4, <2>1 DEF Destroys
<1>12. Unloading(t)'
  <2>1. Destroys(t)' => job[t].exec \in Execs /\ app[job[t].exec] = "dying"
    BY <1>1, <1>11 DEF Unloading
  <2>2. \A k \in Keys : Doomed(t, k)' => Cached(k)'
    BY <1>9 DEF Cached, cache
  <2>3. Destroys(t)' =>
          \/ job[t].exec \in missed'
          \/ \A k \in Keys :
               Cached(k)' /\ madeFor'[byOriginal'[k]] = job[t].exec => Doomed(t, k)'
    BY <1>9, <1>11 DEF Cached, cache
  <2>4. QED
    BY <1>2, <1>3, <1>4, <2>1, <2>2, <2>3 DEF Unloading
<1>13. CacheOK'
  BY DEF IInv, CacheOK, Cached, cache
<1>14. Redirected'
  <2>1. ASSUME NEW u \in Threads, packet[u].ko # Absent
        PROVE  \E k \in Keys : /\ k[1] = packet[u].kd /\ byOriginal[k] = packet[u].ko
                               /\ \A w \in Threads : ~Doomed(w, k)'
    <3>1. PICK k \in Keys : k[1] = packet[u].kd /\ byOriginal[k] = packet[u].ko
      BY <2>1 DEF IInv, Redirected
    <3>2. k \notin todo
      BY <2>1, <3>1
    <3>3. QED
      BY <1>9, <3>1, <3>2
  <2>2. QED
    BY <2>1 DEF IInv, Redirected, cache
<1>15. /\ Locked' /\ Apart' /\ InFlight' /\ DestroyedOnce' /\ NoStaleRecord'
       /\ \A u \in Threads : Loading(u)' /\ Unloading(u)'
  BY <1>1, <1>2, <1>3, <1>5, <1>8, <1>10, <1>11, <1>12, InsideStep DEF Cached, cache
<1>16. QED
  BY <1>5, <1>8, <1>13, <1>14, <1>15 DEF IInv

LEMMA EraseKeeps ==
  ASSUME IInv, NEW t \in Threads, NEW keys \in SUBSET Keys, Erase(t, keys) PROVE IInv'
<1> DEFINE todo == {k \in keys : Cached(k)}
<1>1. /\ job[t].at = "idle" /\ Acquire(t)
      /\ \A k \in keys : Cached(k) => ~InUse(byOriginal[k])
      /\ job' = [job EXCEPT ![t] = [job[t] EXCEPT !.at = "next", !.todo = todo]]
      /\ UNCHANGED <<app, cache, created, hsa, missed, packet>>
  BY DEF Erase, At, IInv, TypeOK
<1>2. todo \in SUBSET Keys /\ \A k \in todo : Cached(k) /\ ~InUse(byOriginal[k])
  BY <1>1
<1> HIDE DEF todo
<1>3. \A u \in Threads : \A k \in todo :
        packet[u].ko # Absent => ~(k[1] = packet[u].kd /\ byOriginal[k] = packet[u].ko)
  BY <1>2 DEF InUse
<1>4. missed' \subseteq Execs /\ missed \subseteq missed'
  BY <1>1 DEF IInv, TypeOK
<1>5. /\ job[t].at \in {"idle", "invalidate"} /\ \A k \in todo : Cached(k)
      /\ job[t].at # "invalidate" /\ UNCHANGED <<app, cache, created, hsa, packet>>
  BY <1>1, <1>2
<1>6. QED
  BY <1>1, <1>2, <1>3, <1>4, <1>5, PicksVictims

LEMMA InvalidateKeeps ==
  ASSUME IInv, NEW t \in Threads, NEW known \in SUBSET KDs, Invalidate(t, known) PROVE IInv'
<1> DEFINE todo == {k \in Keys : Cached(k) /\ k[1] \in known}
<1>1. /\ TypeOK /\ Unloading(t) /\ job[t].at = "invalidate" /\ Acquire(t)
      /\ known \subseteq CodeOf[job[t].exec]
      /\ job' = [job EXCEPT ![t] = [job[t] EXCEPT !.at = "next", !.todo = todo]]
      /\ missed' = IF known = CodeOf[job[t].exec] THEN missed ELSE missed \cup {job[t].exec}
      /\ UNCHANGED <<app, cache, created, hsa, packet>>
  BY DEF Invalidate, At, IInv, TypeOK
<1>2. PICK e \in Execs : e = job[t].exec /\ app[e] = "dying"
  BY <1>1 DEF Unloading, Destroys
<1>3. /\ todo \in SUBSET Keys
      /\ \A k \in Keys : k \in todo <=> Cached(k) /\ k[1] \in known
  OBVIOUS
<1> HIDE DEF todo
<1>4. missed \subseteq missed' /\ missed' \subseteq Execs
  BY <1>1, <1>2 DEF TypeOK
<1>5. e \in missed' \/ \A k \in Keys : Cached(k) /\ madeFor[byOriginal[k]] = e => k \in todo
  BY <1>1, <1>2, <1>3 DEF IInv, CacheOK
<1>6. ASSUME NEW u \in Threads, NEW k \in todo, packet[u].ko # Absent
      PROVE  ~(k[1] = packet[u].kd /\ byOriginal[k] = packet[u].ko)
  <2>1. PICK f \in Execs : app[f] = "loaded" /\ packet[u].kd \in CodeOf[f]
    BY <1>6 DEF IInv, Redirected, InFlight, Loaded
  <2>2. CodeOf[e] \cap CodeOf[f] = {}
    BY <1>2, <2>1 DEF IInv, Apart
  <2>3. k[1] \in CodeOf[e]
    BY <1>1, <1>2, <1>3
  <2>4. QED
    BY <2>1, <2>2, <2>3
<1>7. /\ job[t].at \in {"idle", "invalidate"} /\ \A k \in todo : Cached(k)
      /\ \/ job[t].exec \in missed'
         \/ \A k \in Keys : Cached(k) /\ madeFor[byOriginal[k]] = job[t].exec => k \in todo
  BY <1>1, <1>2, <1>3, <1>5
<1>8. QED
  BY <1>1, <1>3, <1>4, <1>6, <1>7, PicksVictims

\* The thread destroys the next handle of its record.
LEMMA Erases ==
  ASSUME IInv, NEW t \in Threads, job[t].at \in Erasing,
         NEW j \in Jobs, job' = [job EXCEPT ![t] = j],
         j.at \in Erasing, j.exec = job[t].exec, j.variant = job[t].variant,
         UNCHANGED <<app, cache, created, missed, writer, packet>>,
         Owning', live' \subseteq Handles, refused' \subseteq Handles,
         \A v \in Variants : v > created => Fresh(v)',
         \A k \in Keys : Doomed(t, k)' <=> Doomed(t, k),
         j.at \in Gone => j.key \in Keys /\ j.key \notin j.todo
  PROVE  IInv'
<1>1. /\ job[t].at \in Inside /\ j.at \in Inside
      /\ job[t].at \notin Building /\ j.at \notin Building
      /\ j.at \notin {"invalidate", "underlying", "idle", "load", "link"}
      /\ job[t].at \notin {"invalidate", "underlying"}
  BY DEF Inside, Building, Erasing
<1>2. /\ TypeOK /\ writer = t /\ Loading(t) /\ Unloading(t)
      /\ \A u \in Threads : u # t => \A k \in Keys : ~Doomed(u, k)
  BY <1>1, Holder
<1>3. /\ job' \in [Threads -> Jobs] /\ job'[t] = j
      /\ \A u \in Threads : u # t => job'[u] = job[u]
  BY <1>2, OneJob
<1>4. TypeOK'
  BY <1>2, <1>3 DEF TypeOK, cache
<1>5. Unmade'
  BY DEF Unmade
<1>6. \A u \in Threads : \A k \in Keys : Doomed(u, k)' => Doomed(u, k)
  BY <1>2, <1>3 DEF Doomed
<1>7. Loading(t)'
  BY <1>1, <1>2, <1>3 DEF Loading
<1>8. Destroys(t)' <=> Destroys(t)
  BY <1>1, <1>3 DEF Destroys
<1>9. Unloading(t)'
  <2>1. /\ \A k \in Keys : Doomed(t, k)' => Cached(k)'
        /\ Destroys(t)' => j.exec \in Execs /\ app'[j.exec] = "dying"
    BY <1>2, <1>8 DEF Unloading, Cached, cache
  <2>2. Destroys(t)' =>
          \/ j.exec \in missed'
          \/ \A k \in Keys : Cached(k)' /\ madeFor'[byOriginal'[k]] = j.exec => Doomed(t, k)'
    BY <1>1, <1>2, <1>8 DEF Unloading, Cached, cache
  <2>3. QED
    BY <1>3, <2>1, <2>2 DEF Unloading
<1>10. CacheOK' /\ Redirected'
  BY <1>2, <1>6, CacheStays, BoundsNat DEF TypeOK, cache
<1>11. /\ Locked' /\ Apart' /\ InFlight' /\ DestroyedOnce' /\ NoStaleRecord'
       /\ \A u \in Threads : Loading(u)' /\ Unloading(u)'
  BY <1>1, <1>2, <1>4, <1>7, <1>8, <1>9, InsideStep DEF Cached, cache
<1>12. QED
  BY <1>4, <1>5, <1>10, <1>11 DEF IInv

\* What is owed while a record is being erased.
LEMMA Eraser ==
  ASSUME IInv, NEW t \in Threads, job[t].at \in Erasing
  PROVE  /\ TypeOK /\ job[t] \in Jobs /\ writer = t /\ Current = job[t] /\ Unloading(t)
         /\ job[t].variant = Absent
         /\ \A k \in Keys : Doomed(t, k) => byOriginal[k] \in Variants
         /\ \A j, k \in Keys : byOriginal[k] \in Variants /\ byOriginal[j] = byOriginal[k] => j = k
         /\ \A u \in Threads : u # t => \A k \in Keys : ~Doomed(u, k)
<1>1. job[t].at \in Inside /\ job[t].at \notin Building
  BY DEF Inside, Building, Erasing
<1>2. /\ TypeOK /\ job[t] \in Jobs /\ writer = t /\ Current = job[t]
      /\ Unloading(t) /\ Loading(t)
      /\ \A u \in Threads : u # t => \A k \in Keys : ~Doomed(u, k)
  BY <1>1, Holder
<1>3. /\ \A k \in Keys : Cached(k) <=> byOriginal[k] \in Variants
  BY <1>2, BoundsNat DEF TypeOK, Cached, Variants, Absent
<1>4. QED
  BY <1>1, <1>2, <1>3 DEF Loading, Unloading, IInv, CacheOK

\* The parts of a record of which some may be gone.
LEMMA OwedWhileErasing ==
  ASSUME IInv, NEW t \in Threads, job[t].at \in Erasing, NEW v \in Variants, NEW part \in Parts
  PROVE  part \in Owed(v) <=>
           /\ part \in {"exec", "reader"} \cup Storage(v)
           /\ \E k \in Keys : byOriginal[k] = v
           /\ part = "exec" => ~(job[t].at \in Gone /\ byOriginal[job[t].key] = v)
           /\ part = "reader" => ~(job[t].at = "readerGone" /\ byOriginal[job[t].key] = v)
<1>1. Current = job[t] /\ job[t].variant # v
  BY Eraser DEF Variants, Absent
<1>2. QED
  BY <1>1 DEF Owed, Current, Gone

LEMMA EraseExecKeeps ==
  ASSUME IInv, NEW t \in Threads, NEW k \in Keys, EraseExec(t, k) PROVE IInv'
<1> DEFINE j == [job[t] EXCEPT !.at = "execGone", !.key = k, !.todo = @ \ {k}]
<1>1. /\ job[t].at = "next" /\ k \in job[t].todo /\ Destroy(byOriginal[k], {"exec"})
      /\ job' = [job EXCEPT ![t] = j]
      /\ UNCHANGED <<app, cache, created, missed, writer, packet>>
  BY DEF EraseExec, At
<1>2. job[t].at \in Erasing /\ job[t].at \notin Gone
  BY <1>1 DEF Erasing, Gone
<1>3. /\ TypeOK /\ job[t] \in Jobs /\ writer = t /\ Doomed(t, k)
      /\ job[t].variant = Absent
  BY <1>1, <1>2, Eraser DEF Doomed
<1>4. PICK v \in Variants : v = byOriginal[k]
  BY <1>2, <1>3, Eraser
<1>5. /\ j \in Jobs /\ j.at = "execGone" /\ j.key = k /\ j.exec = job[t].exec
      /\ j.variant = job[t].variant /\ j.todo = job[t].todo \ {k}
  <2>1. "execGone" \in Inside \cup Outside
    BY DEF Inside, Erasing
  <2>2. QED
    BY <1>3, <2>1 DEF Jobs
<1> HIDE DEF j
<1>6. j.at \in Erasing /\ j.at \in Gone /\ j.at # "readerGone"
  BY <1>5 DEF Erasing, Gone
<1>7. job'[t] = j /\ Current' = j
  BY <1>1, <1>3, <1>5, NoneIsNothing DEF TypeOK, Current
<1>8. \A q \in Keys : Doomed(t, q)' <=> Doomed(t, q)
  BY <1>1, <1>2, <1>5, <1>6, <1>7 DEF Doomed
<1>9. ASSUME NEW u \in Variants, NEW part \in Parts
      PROVE  part \in Owed(u)' <=> part \in Owed(u) /\ ~(u = v /\ part \in {"exec"})
  <2>1. Storage(u)' = Storage(u) /\ byOriginal' = byOriginal /\ u # Absent
    BY <1>1 DEF Storage, cache, Variants, Absent
  <2>2. part \in Owed(u) <=>
          /\ part \in {"exec", "reader"} \cup Storage(u)
          /\ \E q \in Keys : byOriginal[q] = u
    BY <1>1, <1>2, OwedWhileErasing
  <2>3. part \in Owed(u)' <=>
          /\ part \in {"exec", "reader"} \cup Storage(u)
          /\ \E q \in Keys : byOriginal[q] = u
          /\ part = "exec" => byOriginal[k] # u
    BY <1>3, <1>5, <1>6, <1>7, <2>1 DEF Owed, Current
  <2>4. QED
    BY <1>4, <2>2, <2>3
<1>10. {"exec"} \subseteq Owed(v) /\ {"exec"} \in SUBSET Parts
  BY <1>1, <1>2, <1>4, PartFacts, OwedWhileErasing
<1>11. Owning'
  BY <1>1, <1>3, <1>4, <1>9, <1>10, OwningShrinks DEF IInv
<1>12. /\ live' \subseteq Handles /\ refused' \subseteq Handles
       /\ \A u \in Variants : \A part \in Parts :
            u # v => (<<part, u>> \in refused' <=> <<part, u>> \in refused)
  BY <1>1, <1>3, <1>4, <1>10, DestroyTypes
<1>13. \A u \in Variants : u > created => Fresh(u)'
  <2>1. v <= created /\ created \in Nat
    BY <1>3, <1>4, BoundsNat DEF IInv, CacheOK, TypeOK
  <2>2. QED
    BY <1>1, <1>12, <2>1 DEF IInv, Unmade, Fresh, cache, Variants
<1>14. j.key \in Keys /\ j.key \notin j.todo
  BY <1>5
<1>15. QED
  BY <1>1, <1>2, <1>5, <1>6, <1>8, <1>11, <1>12, <1>13, <1>14, Erases

LEMMA EraseReaderKeeps == ASSUME IInv, NEW t \in Threads, EraseReader(t) PROVE IInv'
<1> DEFINE j == [job[t] EXCEPT !.at = "readerGone"]
<1>1. /\ job[t].at = "execGone" /\ Destroy(byOriginal[job[t].key], {"reader"})
      /\ job' = [job EXCEPT ![t] = j]
      /\ UNCHANGED <<app, cache, created, missed, writer, packet>>
  BY DEF EraseReader, At, Go
<1>2. job[t].at \in Erasing /\ job[t].at \in Gone /\ job[t].at # "readerGone"
  BY <1>1 DEF Erasing, Gone
<1>3. /\ TypeOK /\ job[t] \in Jobs /\ writer = t /\ Unloading(t)
      /\ job[t].variant = Absent
  BY <1>2, Eraser
<1>4. PICK k \in Keys : k = job[t].key /\ k \notin job[t].todo
  BY <1>2, <1>3 DEF Unloading
<1>5. PICK v \in Variants : v = byOriginal[k]
  BY <1>2, <1>4, Eraser DEF Doomed
<1>6. /\ j \in Jobs /\ j.at = "readerGone" /\ j.key = k /\ j.exec = job[t].exec
      /\ j.variant = job[t].variant /\ j.todo = job[t].todo
  <2>1. "readerGone" \in Inside \cup Outside
    BY DEF Inside, Erasing
  <2>2. QED
    BY <1>3, <1>4, <2>1 DEF Jobs
<1> HIDE DEF j
<1>7. j.at \in Erasing /\ j.at \in Gone
  BY <1>6 DEF Erasing, Gone
<1>8. job'[t] = j /\ Current' = j
  BY <1>1, <1>3, <1>6, NoneIsNothing DEF TypeOK, Current
<1>9. \A q \in Keys : Doomed(t, q)' <=> Doomed(t, q)
  BY <1>2, <1>4, <1>6, <1>7, <1>8 DEF Doomed
<1>10. ASSUME NEW u \in Variants, NEW part \in Parts
       PROVE  part \in Owed(u)' <=> part \in Owed(u) /\ ~(u = v /\ part \in {"reader"})
  <2>1. Storage(u)' = Storage(u) /\ byOriginal' = byOriginal /\ u # Absent
    BY <1>1 DEF Storage, cache, Variants, Absent
  <2>2. part \in Owed(u) <=>
          /\ part \in {"exec", "reader"} \cup Storage(u)
          /\ \E q \in Keys : byOriginal[q] = u
          /\ part = "exec" => byOriginal[k] # u
    BY <1>2, <1>4, OwedWhileErasing
  <2>3. part \in Owed(u)' <=>
          /\ part \in {"exec", "reader"} \cup Storage(u)
          /\ \E q \in Keys : byOriginal[q] = u
          /\ part = "exec" => byOriginal[k] # u
          /\ part = "reader" => byOriginal[k] # u
    BY <1>3, <1>6, <1>7, <1>8, <2>1 DEF Owed, Current
  <2>4. QED
    BY <1>5, <2>2, <2>3
<1>11. {"reader"} \subseteq Owed(v) /\ {"reader"} \in SUBSET Parts
  BY <1>2, <1>5, PartFacts, OwedWhileErasing
<1>12. Owning'
  BY <1>1, <1>3, <1>4, <1>5, <1>10, <1>11, OwningShrinks DEF IInv
<1>13. /\ live' \subseteq Handles /\ refused' \subseteq Handles
       /\ \A u \in Variants : \A part \in Parts :
            u # v => (<<part, u>> \in refused' <=> <<part, u>> \in refused)
  BY <1>1, <1>3, <1>4, <1>5, <1>11, DestroyTypes
<1>14. \A u \in Variants : u > created => Fresh(u)'
  <2>1. v <= created /\ created \in Nat
    BY <1>3, <1>5, BoundsNat DEF IInv, CacheOK, TypeOK
  <2>2. QED
    BY <1>1, <1>13, <2>1 DEF IInv, Unmade, Fresh, cache, Variants
<1>15. j.key \in Keys /\ j.key \notin j.todo
  BY <1>4, <1>6
<1>16. QED
  BY <1>1, <1>2, <1>6, <1>7, <1>9, <1>12, <1>13, <1>14, <1>15, Erases

LEMMA EraseEntryKeeps == ASSUME IInv, NEW t \in Threads, EraseEntry(t) PROVE IInv'
<1> DEFINE j == [job[t] EXCEPT !.at = "next", !.key = None]
<1>1. job[t].at = "readerGone" /\ job' = [job EXCEPT ![t] = j]
  BY DEF EraseEntry, At
<1>2. job[t].at \in Erasing /\ job[t].at \in Gone
  BY <1>1 DEF Erasing, Gone
<1>3. /\ TypeOK /\ job[t] \in Jobs /\ writer = t /\ Unloading(t)
      /\ job[t].variant = Absent
      /\ \A q, r \in Keys : byOriginal[r] \in Variants /\ byOriginal[q] = byOriginal[r] => q = r
      /\ \A u \in Threads : u # t => \A q \in Keys : ~Doomed(u, q)
  BY <1>2, Eraser
<1>4. PICK k \in Keys : k = job[t].key /\ k \notin job[t].todo
  BY <1>2, <1>3 DEF Unloading
<1>5. PICK v \in Variants : v = byOriginal[k]
  BY <1>2, <1>4, Eraser DEF Doomed
<1>6. /\ Destroy(v, Storage(v))
      /\ allocs' = [allocs EXCEPT ![v] = {}] /\ madeFor' = [madeFor EXCEPT ![v] = None]
      /\ byOriginal' = [byOriginal EXCEPT ![k] = Absent]
      /\ UNCHANGED <<app, created, missed, writer, packet>>
  BY <1>4, <1>5 DEF EraseEntry
<1>7. /\ j \in Jobs /\ j.at = "next" /\ j.exec = job[t].exec
      /\ j.variant = Absent /\ j.todo = job[t].todo
  <2>1. "next" \in Inside \cup Outside
    BY DEF Inside, Erasing
  <2>2. QED
    BY <1>3, <2>1 DEF Jobs
<1> HIDE DEF j
<1>8. /\ j.at \in Erasing /\ j.at \in Inside /\ j.at \notin Gone /\ j.at \notin Building
      /\ j.at \notin {"idle", "load", "link", "invalidate", "underlying"}
      /\ job[t].at \notin {"invalidate", "underlying"}
  BY <1>1, <1>7 DEF Erasing, Gone, Inside, Building
<1>9. /\ job' \in [Threads -> Jobs] /\ job'[t] = j /\ Current' = j
      /\ \A u \in Threads : u # t => job'[u] = job[u]
  BY <1>1, <1>3, <1>6, <1>7, OneJob, NoneIsNothing DEF Current
<1>10. /\ byOriginal' \in [Keys -> 0..MaxVariants] /\ byOriginal'[k] = Absent
       /\ \A q \in Keys : q # k => byOriginal'[q] = byOriginal[q]
       /\ madeFor' \in [Variants -> Execs \cup {None}]
       /\ \A u \in Variants : u # v => madeFor'[u] = madeFor[u] /\ allocs'[u] = allocs[u]
       /\ allocs'[v] = {}
       /\ allocs' \in [Variants -> SUBSET [var : ManagedVars, viaSvm : BOOLEAN]]
  BY <1>3, <1>6, BoundsNat DEF TypeOK, Absent
<1>11. \A q \in Keys : Doomed(t, q)' <=> Doomed(t, q) /\ q # k
  BY <1>2, <1>4, <1>7, <1>8, <1>9 DEF Doomed
<1>12. /\ \A q \in Keys : Cached(q)' <=> Cached(q) /\ q # k
       /\ \A q \in Keys : Cached(q) /\ q # k => byOriginal[q] \in Variants /\ byOriginal[q] # v
  <2>1. \A q \in Keys : Cached(q) => byOriginal[q] \in Variants
    BY <1>3, BoundsNat DEF TypeOK, Cached, Variants, Absent
  <2>2. QED
    BY <1>3, <1>5, <1>10, <2>1 DEF Cached
<1>13. \A q \in Keys : Cached(q)' => /\ Cached(q) /\ byOriginal'[q] = byOriginal[q]
                                     /\ madeFor'[byOriginal'[q]] = madeFor[byOriginal[q]]
  BY <1>10, <1>12
<1>14. ASSUME NEW u \in Variants, NEW part \in Parts
       PROVE  part \in Owed(u)' <=> part \in Owed(u) /\ ~(u = v /\ part \in Storage(v))
  <2>1. u # Absent /\ v # Absent
    BY DEF Variants, Absent
  <2>2. part \in Owed(u) <=>
          /\ part \in {"exec", "reader"} \cup Storage(u)
          /\ \E q \in Keys : byOriginal[q] = u
          /\ part = "exec" => byOriginal[k] # u
          /\ part = "reader" => byOriginal[k] # u
    BY <1>1, <1>2, <1>4, OwedWhileErasing
  <2>3. part \in Owed(u)' <=>
          /\ part \in {"exec", "reader"} \cup Storage(u)'
          /\ \E q \in Keys : byOriginal'[q] = u
    BY <1>3, <1>6, <1>7, <1>8, <1>9, <2>1 DEF Owed, Current, Gone
  <2>4. CASE u = v
    <3>1. ~ \E q \in Keys : byOriginal'[q] = v
      BY <1>3, <1>5, <1>10, <2>1
    <3>2. QED
      BY <1>5, <2>2, <2>3, <2>4, <3>1
  <2>5. CASE u # v
    <3>1. Storage(u)' = Storage(u)
      BY <1>10, <2>5 DEF Storage
    <3>2. (\E q \in Keys : byOriginal'[q] = u) <=> (\E q \in Keys : byOriginal[q] = u)
      BY <1>5, <1>10, <2>1, <2>5
    <3>3. QED
      BY <1>5, <2>2, <2>3, <2>5, <3>1, <3>2
  <2>6. QED
    BY <2>4, <2>5
<1>15. Storage(v) \subseteq Owed(v) /\ Storage(v) \in SUBSET Parts
  <2>1. Storage(v) \subseteq ManagedVars
    BY <1>3, StorageFacts
  <2>2. ASSUME NEW part \in Storage(v) PROVE part \in Owed(v)
    BY <1>2, <1>5, <2>1, PartFacts, OwedWhileErasing
  <2>3. QED
    BY <2>1, <2>2, PartFacts
<1>16. Owning'
  BY <1>3, <1>6, <1>14, <1>15, OwningShrinks DEF IInv
<1>17. /\ live' \subseteq Handles /\ refused' \subseteq Handles
       /\ \A u \in Variants : \A part \in Parts :
            u # v => (<<part, u>> \in refused' <=> <<part, u>> \in refused)
  BY <1>3, <1>6, <1>15, DestroyTypes
<1>18. TypeOK'
  BY <1>3, <1>6, <1>9, <1>10, <1>17 DEF TypeOK
<1>19. Unmade' /\ v <= created
  <2>1. v <= created /\ created \in Nat
    BY <1>3, <1>5, BoundsNat DEF IInv, CacheOK, TypeOK
  <2>2. QED
    BY <1>6, <1>10, <1>17, <2>1 DEF IInv, Unmade, Fresh, Variants
<1>20. CacheOK'
  <2>1. CacheOK /\ created' = created /\ created \in Nat
    BY <1>3, <1>6, BoundsNat DEF IInv, TypeOK
  <2>2. \A q \in Keys : byOriginal'[q] <= created'
    BY <1>10, <2>1 DEF CacheOK, Absent
  <2>3. \A q, r \in Keys : Cached(r)' /\ byOriginal'[q] = byOriginal'[r] => q = r
    BY <1>10, <1>13, <2>1 DEF CacheOK, Cached
  <2>4. QED
    BY <1>13, <2>1, <2>2, <2>3 DEF CacheOK
<1>21. Loading(t)'
  BY <1>7, <1>8, <1>9 DEF Loading
<1>22. Destroys(t)' <=> Destroys(t)
  BY <1>2, <1>7, <1>8, <1>9 DEF Destroys
<1>23. Unloading(t)'
  <2>1. /\ \A q \in Keys : Doomed(t, q)' => Cached(q)'
        /\ Destroys(t)' => j.exec \in Execs /\ app'[j.exec] = "dying"
    BY <1>3, <1>6, <1>7, <1>11, <1>12, <1>22 DEF Unloading
  <2>2. Destroys(t)' =>
          \/ j.exec \in missed'
          \/ \A q \in Keys : Cached(q)' /\ madeFor'[byOriginal'[q]] = j.exec => Doomed(t, q)'
    BY <1>3, <1>6, <1>7, <1>8, <1>11, <1>12, <1>13, <1>22 DEF Unloading
  <2>3. QED
    BY <1>8, <1>9, <2>1, <2>2 DEF Unloading
<1>24. Redirected'
  <2>1. ASSUME NEW u \in Threads, packet[u].ko # Absent
        PROVE  \E q \in Keys : /\ q[1] = packet[u].kd /\ byOriginal'[q] = packet[u].ko
                               /\ \A w \in Threads : ~Doomed(w, q)'
    <3>1. PICK q \in Keys : /\ q[1] = packet[u].kd /\ byOriginal[q] = packet[u].ko
                            /\ \A w \in Threads : ~Doomed(w, q)
      BY <2>1 DEF IInv, Redirected
    <3>2. q # k
      BY <1>2, <1>4, <3>1 DEF Doomed
    <3>3. \A w \in Threads : ~Doomed(w, q)'
      BY <1>9, <1>11, <3>1 DEF Doomed
    <3>4. QED
      BY <1>10, <3>1, <3>2, <3>3
  <2>2. QED
    BY <1>6, <2>1 DEF IInv, Redirected
<1>25. /\ Locked' /\ Apart' /\ InFlight' /\ DestroyedOnce' /\ NoStaleRecord'
       /\ \A u \in Threads : Loading(u)' /\ Unloading(u)'
  BY <1>1, <1>3, <1>6, <1>7, <1>8, <1>13, <1>16, <1>18, <1>21, <1>22, <1>23, InsideStep
<1>26. QED
  BY <1>16, <1>18, <1>19, <1>20, <1>24, <1>25 DEF IInv

LEMMA EraseDoneKeeps == ASSUME IInv, NEW t \in Threads, EraseDone(t) PROVE IInv'
<1> DEFINE j == IF job[t].exec = None THEN Idle
                ELSE [Idle EXCEPT !.at = "underlying", !.exec = job[t].exec]
<1>1. /\ job[t].at = "next" /\ job[t].todo = {} /\ writer' = None
      /\ job' = [job EXCEPT ![t] = j]
      /\ UNCHANGED <<app, cache, created, hsa, missed, packet>>
  BY DEF EraseDone, At
<1>2. job[t].at \in Erasing /\ job[t].at \notin Gone
  BY <1>1 DEF Erasing, Gone
<1>3. /\ TypeOK /\ job[t] \in Jobs /\ writer = t /\ Current = job[t] /\ Unloading(t)
      /\ job[t].variant = Absent
      /\ \A u \in Threads : u # t => \A q \in Keys : ~Doomed(u, q)
  BY <1>2, Eraser
<1>4. /\ j \in Jobs /\ j.variant = Absent /\ j.exec = job[t].exec
      /\ \/ j = Idle /\ job[t].exec = None
         \/ j.at = "underlying" /\ job[t].exec # None
  <2>1. CASE job[t].exec = None
    BY <2>1, IdleJob
  <2>2. CASE job[t].exec # None
    <3>1. "underlying" \in Inside \cup Outside /\ job[t].exec \in Execs \cup {None}
      BY <1>3 DEF Outside, Jobs
    <3>2. QED
      BY <2>2, <3>1, IdleJob DEF Jobs
  <2>3. QED
    BY <2>1, <2>2
<1> HIDE DEF j
<1>5. /\ j.at \notin Inside /\ j.at \notin Erasing /\ j.at \notin Gone /\ j.at \notin Building
      /\ j.at \notin {"load", "link", "invalidate"}
  BY <1>4, IdleJob DEF Inside, Erasing, Gone, Building
<1>6. /\ job' \in [Threads -> Jobs] /\ job'[t] = j /\ Current' = Idle
      /\ \A u \in Threads : u # t => job'[u] = job[u]
  BY <1>1, <1>3, <1>4, OneJob DEF Current
<1>7. TypeOK'
  BY <1>1, <1>3, <1>6 DEF TypeOK, cache, hsa
<1>8. \A v \in Variants : Owed(v)' = Owed(v)
  BY <1>1, <1>3, <1>6, IdleJob DEF Owed, Current, Storage, cache, Variants, Absent
<1>9. Owning' /\ Unmade'
  BY <1>1, <1>8, OwningStays DEF IInv, Unmade, Fresh, cache, hsa
<1>10. \A u \in Threads : \A q \in Keys : ~Doomed(u, q)'
  BY <1>3, <1>5, <1>6 DEF Doomed
<1>11. Loading(t)'
  BY <1>4, <1>5, <1>6 DEF Loading
<1>12. Destroys(t)' => Destroys(t)
  BY <1>2, <1>4, <1>5, <1>6, IdleJob DEF Destroys
<1>13. Unloading(t)'
  <2>1. Destroys(t)' => j.exec \in Execs /\ app'[j.exec] = "dying"
    BY <1>1, <1>3, <1>4, <1>12 DEF Unloading
  <2>2. \A q \in Keys : ~Doomed(t, q)
    BY <1>1, <1>2 DEF Doomed
  <2>3. Destroys(t)' =>
          \/ j.exec \in missed'
          \/ \A q \in Keys : ~(Cached(q)' /\ madeFor'[byOriginal'[q]] = j.exec)
    BY <1>1, <1>3, <1>4, <1>12, <2>2 DEF Unloading, Cached, cache
  <2>4. QED
    BY <1>5, <1>6, <1>10, <2>1, <2>3 DEF Unloading
<1>14. CacheOK' /\ Redirected'
  BY <1>1, <1>3, <1>10, CacheStays, BoundsNat DEF TypeOK, cache
<1>15. /\ Locked' /\ Apart' /\ InFlight' /\ DestroyedOnce' /\ NoStaleRecord'
       /\ \A u \in Threads : Loading(u)' /\ Unloading(u)'
  BY <1>1, <1>3, <1>4, <1>5, <1>7, <1>9, <1>11, <1>12, <1>13, InsideStep DEF Cached, cache
<1>16. QED
  BY <1>7, <1>9, <1>14, <1>15 DEF IInv

-----------------------------------------------------------------------------
LEMMA StepKeepsIInv == ASSUME IInv, [Next]_vars PROVE IInv'
<1>1. CASE UNCHANGED vars
  <2>1. /\ UNCHANGED <<cache, created, hsa, missed, writer, job>> /\ UNCHANGED <<app, packet>>
    BY <1>1 DEF vars, cache, hsa
  <2>2. Locked' /\ Unmade' /\ CacheOK' /\ Owning' /\ DestroyedOnce'
    BY <2>1, NoJobMoves
  <2>3. TypeOK' /\ Apart' /\ InFlight' /\ NoStaleRecord' /\ Redirected'
    BY <2>1 DEF IInv, TypeOK, Apart, InFlight, Loaded, NoStaleRecord, Cached, Redirected, Doomed,
                cache, hsa
  <2>4. \A u \in Threads : Loading(u)' /\ Unloading(u)'
    BY <2>1, LoadingFrame, UnloadingFrame DEF IInv
  <2>5. QED
    BY <2>2, <2>3, <2>4 DEF IInv
<1>2. ASSUME NEW e \in Execs, AppLoads(e) PROVE IInv'
  BY <1>2, AppLoadsKeeps
<1>3. ASSUME NEW t \in Threads, NEW kd \in KDs, Dispatch(t, kd) PROVE IInv'
  BY <1>3, DispatchKeeps
<1>4. ASSUME NEW t \in Threads, Complete(t) PROVE IInv'
  BY <1>4, CompleteKeeps
<1>5. ASSUME NEW t \in Threads, NEW p \in Presets, Override(t, p) PROVE IInv'
  BY <1>5, OverrideKeeps
<1>6. ASSUME NEW t \in Threads, NEW e \in Execs, NEW p \in Presets, QueryOwner(t, e, p)
      PROVE  IInv'
  BY <1>6, QueryOwnerKeeps
<1>7. ASSUME NEW t \in Threads, AlreadyLoaded(t) \/ BeginLoad(t) PROVE IInv'
  BY <1>7, AlreadyLoadedKeeps, BeginLoadKeeps
<1>8. ASSUME NEW t \in Threads, NEW k \in Keys, UnloadInstrumentedIfExists(t, k) PROVE IInv'
  BY <1>8, EraseKeeps DEF UnloadInstrumentedIfExists
<1>9. ASSUME NEW t \in Threads, UnloadAll(t) PROVE IInv'
  BY <1>9, EraseKeeps DEF UnloadAll
<1>10. ASSUME NEW t \in Threads, NEW e \in Execs, AppDestroys(t, e) PROVE IInv'
  BY <1>10, AppDestroysKeeps
<1>11. ASSUME NEW t \in Threads, NEW known \in SUBSET KDs, Invalidate(t, known) PROVE IInv'
  BY <1>11, InvalidateKeeps
<1>12. ASSUME NEW t \in Threads, Critical(t) PROVE IInv'
  <2>1. CASE LinkFails(t) \/ CreateExec(t) \/ CreateReader(t) \/ Stage(t) \/ Insert(t)
    BY <2>1, LinkFailsKeeps, CreateExecKeeps, CreateReaderKeeps, StageKeeps, InsertKeeps
  <2>2. CASE \E m \in ManagedVars : AllocateManaged(t, m)
    BY <2>2, AllocateManagedKeeps
  <2>3. CASE ReaderFails(t) \/ LoadFails(t)
    BY <2>3, ReaderFailsKeeps, LoadFailsKeeps
  <2>4. CASE \E k \in Keys : EraseExec(t, k)
    BY <2>4, EraseExecKeeps
  <2>5. CASE EraseReader(t) \/ EraseEntry(t) \/ EraseDone(t)
    BY <2>5, EraseReaderKeeps, EraseEntryKeeps, EraseDoneKeeps
  <2>6. QED
    BY <1>12, <2>1, <2>2, <2>3, <2>4, <2>5 DEF Critical
<1>13. ASSUME NEW t \in Threads, NEW outcome \in {"loaded", "destroyed"}, Underlying(t, outcome)
       PROVE  IInv'
  BY <1>13, UnderlyingKeeps
<1>14. QED
  BY <1>1, <1>2, <1>3, <1>4, <1>5, <1>6, <1>7, <1>8, <1>9, <1>10, <1>11, <1>12, <1>13 DEF Next

(***************************************************************************)
(* The inductive invariant: the lock is held by whoever is inside; what is *)
(* in memory does not overlap; records and the load in progress own what   *)
(* HSA keeps alive; and no packet runs what is being erased.               *)
(***************************************************************************)
THEOREM KernelLoaderInvariant == Spec => []IInv
<1>1. Init => IInv
  BY InitIInv
<1>2. IInv /\ [Next]_vars => IInv'
  BY StepKeepsIInv
<1>3. QED
  BY <1>1, <1>2, PTL DEF Spec

-----------------------------------------------------------------------------
\* What is owed, as a set, is what the runtime keeps alive and has not refused.
LEMMA OwningIsAccounted == ASSUME TypeOK, Owning PROVE HandlesAccounted
<1>1. \A v \in Variants : Owed(v) \subseteq Parts
  BY StorageFacts
<1>2. ASSUME NEW h
      PROVE  h \in live <=> h \in refused \cup UNION {HandlesOf(v, Owed(v)) : v \in Variants}
  <2>1. h \in UNION {HandlesOf(v, Owed(v)) : v \in Variants} <=>
          \E v \in Variants : \E part \in Owed(v) : h = <<part, v>>
    BY DEF HandlesOf
  <2>2. h \in live \/ h \in refused => \E v \in Variants, part \in Parts : h = <<part, v>>
    BY PartFacts DEF TypeOK
  <2>3. CASE \E v \in Variants, part \in Parts : h = <<part, v>>
    <3>1. PICK v \in Variants, part \in Parts : h = <<part, v>>
      BY <2>3
    <3>2. (\E u \in Variants : \E q \in Owed(u) : h = <<q, u>>) <=> part \in Owed(v)
      BY <3>1
    <3>3. QED
      BY <2>1, <3>1, <3>2 DEF Owning
  <2>4. CASE ~ \E v \in Variants, part \in Parts : h = <<part, v>>
    BY <1>1, <2>1, <2>2, <2>4
  <2>5. QED
    BY <2>3, <2>4
<1>3. QED
  BY <1>2 DEF HandlesAccounted

\* Owed is all of a cached variant, once its executable is.
LEMMA CachedIsOwed ==
  ASSUME IInv, NEW v \in Variants, \E k \in Keys : byOriginal[k] = v,
         \A t \in Threads : job[t].at \in Gone => byOriginal[job[t].key] # v
  PROVE  Owed(v) = {"exec", "reader"} \cup Storage(v)
<1>1. TypeOK /\ Locked
  BY DEF IInv
<1>2. ~(Current.at \in {"execGone", "readerGone"} /\ byOriginal[Current.key] = v)
  BY <1>1, IdleJob DEF Current, Gone, TypeOK
<1>3. QED
  BY <1>2 DEF Owed, Current

LEMMA RecordsAreSound == ASSUME IInv PROVE RecordsSound
<1>1. TypeOK /\ Owning /\ Locked /\ NoStaleRecord
  BY DEF IInv
<1>2. RecordBacked
  <2>1. ASSUME NEW k \in Keys, Cached(k), <<"exec", byOriginal[k]>> \in live \ refused
        PROVE  HandlesOf(byOriginal[k], {"reader"} \cup Storage(byOriginal[k])) \subseteq live
    <3>1. PICK v \in Variants : v = byOriginal[k] /\ v # Absent
      BY <1>1, <2>1, BoundsNat DEF TypeOK, Cached, Variants, Absent
    <3>2. "exec" \in Owed(v)
      BY <1>1, <2>1, <3>1, PartFacts DEF Owning
    <3>3. ASSUME NEW t \in Threads, job[t].at \in Gone PROVE byOriginal[job[t].key] # v
      <4>1. job[t].at \in Erasing
        BY <3>3 DEF Gone, Erasing
      <4>2. QED
        BY <3>2, <3>3, <4>1, PartFacts, OwedWhileErasing
    <3>4. Owed(v) = {"exec", "reader"} \cup Storage(v)
      BY <3>1, <3>3, CachedIsOwed
    <3>5. Owed(v) \subseteq Parts
      BY <1>1, StorageFacts
    <3>6. \A part \in Owed(v) : <<part, v>> \in live
      BY <1>1, <3>5 DEF Owning
    <3>7. QED
      BY <3>1, <3>4, <3>6 DEF HandlesOf
  <2>2. QED
    BY <2>1 DEF RecordBacked
<1>3. QED
  BY <1>1, <1>2, OwningIsAccounted DEF RecordsSound

LEMMA RunningIsLoaded == ASSUME IInv PROVE RunningCodeIsLoaded
<1>1. TypeOK /\ Owning /\ CacheOK /\ NoStaleRecord
  BY DEF IInv
<1>2. ASSUME NEW t \in Threads, packet[t].ko # Absent
      PROVE  LET v == packet[t].ko
             IN /\ HandlesOf(v, {"exec", "reader"} \cup Storage(v)) \subseteq live
                /\ \/ app[madeFor[v]] = "loaded" /\ packet[t].kd \in CodeOf[madeFor[v]]
                   \/ madeFor[v] \in missed
  <2>1. PICK k \in Keys : /\ k[1] = packet[t].kd /\ byOriginal[k] = packet[t].ko
                          /\ \A u \in Threads : ~Doomed(u, k)
    BY <1>2 DEF IInv, Redirected
  <2>2. PICK v \in Variants : v = packet[t].ko /\ v = byOriginal[k]
    BY <1>1, <1>2, <2>1, BoundsNat DEF TypeOK, Variants, Absent
  <2>3. Cached(k)
    BY <1>2, <2>1 DEF Cached
  <2>4. ASSUME NEW u \in Threads, job[u].at \in Gone PROVE byOriginal[job[u].key] # v
    <3>1. job[u].key \in Keys /\ Doomed(u, job[u].key)
      BY <2>4 DEF IInv, Unloading, Doomed
    <3>2. job[u].key # k
      BY <2>1, <3>1
    <3>3. QED
      BY <1>1, <2>2, <2>3, <3>1, <3>2 DEF CacheOK
  <2>5. Owed(v) = {"exec", "reader"} \cup Storage(v)
    BY <2>2, <2>4, CachedIsOwed
  <2>6. HandlesOf(v, {"exec", "reader"} \cup Storage(v)) \subseteq live
    <3>1. Owed(v) \subseteq Parts
      BY <1>1, StorageFacts
    <3>2. \A part \in Owed(v) : <<part, v>> \in live
      BY <1>1, <3>1 DEF Owning
    <3>3. QED
      BY <2>5, <3>2 DEF HandlesOf
  <2>7. /\ madeFor[v] \in Execs /\ packet[t].kd \in CodeOf[madeFor[v]]
        /\ app[madeFor[v]] \in {"loaded", "dying"} \/ madeFor[v] \in missed
    BY <1>1, <2>1, <2>2, <2>3 DEF CacheOK, NoStaleRecord
  <2>8. PICK f \in Execs : app[f] = "loaded" /\ packet[t].kd \in CodeOf[f]
    BY <1>2 DEF IInv, Redirected, InFlight, Loaded
  <2>9. app[madeFor[v]] \in {"loaded", "dying"} => madeFor[v] = f
    BY <2>7, <2>8 DEF IInv, Apart
  <2>10. QED
    BY <2>2, <2>6, <2>7, <2>8, <2>9
<1>3. QED
  BY <1>2 DEF RunningCodeIsLoaded

(***************************************************************************)
(* loadInstrumented, its roll-backs, unloadInstrumentedIfExists, unloadAll *)
(* and the hsa_executable_destroy wrapper neither leak nor destroy twice,  *)
(* keep what a record's executable needs, and leave no record of an        *)
(* executable that is gone, unless HSA could not tell where it was.        *)
(***************************************************************************)
THEOREM CachedRecordsAreSound == Spec => []RecordsSound
<1>1. IInv => RecordsSound
  BY RecordsAreSound
<1>2. QED
  BY <1>1, KernelLoaderInvariant, PTL

(***************************************************************************)
(* What overrideWithInstrumented redirected a packet to stays loaded, with *)
(* all it needs, until the packet completes.                               *)
(***************************************************************************)
THEOREM PacketsRunLoadedCode == Spec => []RunningCodeIsLoaded
<1>1. IInv => RunningCodeIsLoaded
  BY RunningIsLoaded
<1>2. QED
  BY <1>1, KernelLoaderInvariant, PTL
=============================================================================
