--------------------------- MODULE LcoCacheProofs ---------------------------
(***************************************************************************)
(* Proofs about LcoCache for any number of threads, executables, handles   *)
(* and loads: nothing stale is cached, and copies last.                    *)
(***************************************************************************)
EXTENDS LcoCache, TLAPS

Jobs == [at : {"idle", "copy", "insert", "deref", "erase", "underlying"},
         lco : Handles \cup {Nothing}, copy : Nat, exec : Execs \cup {Nothing},
         stable : BOOLEAN]

TypeOK ==
  /\ owner \in [Handles -> Execs \cup {Nothing}]
  /\ content \in [Handles -> Nat]
  /\ mapped \subseteq Handles
  /\ loads \in Nat
  /\ LCOCache \in [Handles -> Nat]
  /\ dying \subseteq Execs
  /\ survived \subseteq Execs
  /\ job \in [Threads -> Jobs]

\* A handle stands for a code object exactly while an executable has loaded it.
OwnedIsLoaded == \A h \in Handles : owner[h] = Nothing <=> content[h] = Absent

\* A code object that a thread works on is not being destroyed, and the copy it
\* has taken is of what is loaded.
Using(t) ==
  job[t].at \in {"copy", "insert", "deref"} =>
    /\ job[t].lco \in Handles
    /\ owner[job[t].lco] # Nothing
    /\ owner[job[t].lco] \notin dying
    /\ At(t, "insert") => job[t].copy = content[job[t].lco]

\* From the erase until the runtime has destroyed it, an executable has no entry.
Destroys(t) == job[t].at \in {"erase", "underlying"}
Destroying(t) ==
  Destroys(t) =>
    /\ job[t].exec \in dying
    /\ At(t, "underlying") => \A h \in LCOsOf(job[t].exec) : LCOCache[h] = Absent

\* An executable is destroyed by one thread.
DestroyedOnce ==
  \A t, u \in Threads : Destroys(t) /\ Destroys(u) /\ job[t].exec = job[u].exec => t = u

IInv ==
  /\ TypeOK
  /\ OwnedIsLoaded
  /\ NoStaleEntry
  /\ \A t \in Threads : Using(t) /\ Destroying(t)
  /\ DestroyedOnce

-----------------------------------------------------------------------------
\* The fields of job[u] that the invariant is about stay as they are.
Keeps(u) == /\ job'[u].at = job[u].at /\ job'[u].lco = job[u].lco
            /\ job'[u].copy = job[u].copy /\ job'[u].exec = job[u].exec

\* A thread goes on to its next step, and the table of entries may move.
LEMMA OneThreadSteps ==
  ASSUME TypeOK, NEW t \in Threads, NEW j \in Jobs, NEW grows \in BOOLEAN,
         \/ job' = [job EXCEPT ![t] = j]
         \/ job' = Moved([job EXCEPT ![t] = j], grows) /\ j.at # "deref"
         \/ job' = [Moved(job, grows) EXCEPT ![t] = j]
  PROVE  /\ job' \in [Threads -> Jobs]
         /\ job'[t] = j
         /\ \A u \in Threads \ {t} : Keeps(u)
<1> DEFINE shaken(f, u) == IF f[u].at = "deref" /\ grows
                           THEN [f[u] EXCEPT !.stable = FALSE] ELSE f[u]
<1>1. ASSUME NEW k \in Jobs
      PROVE  /\ [k EXCEPT !.stable = FALSE] \in Jobs
             /\ [k EXCEPT !.stable = FALSE].at = k.at
             /\ [k EXCEPT !.stable = FALSE].lco = k.lco
             /\ [k EXCEPT !.stable = FALSE].copy = k.copy
             /\ [k EXCEPT !.stable = FALSE].exec = k.exec
  BY DEF Jobs
<1>2. CASE job' = [job EXCEPT ![t] = j]
  BY <1>2 DEF TypeOK, Keeps
<1>3. CASE job' = Moved([job EXCEPT ![t] = j], grows) /\ j.at # "deref"
  BY <1>1, <1>3 DEF TypeOK, Keeps, Moved
<1>4. CASE job' = [Moved(job, grows) EXCEPT ![t] = j]
  BY <1>1, <1>4 DEF TypeOK, Keeps, Moved
<1>5. QED
  BY <1>2, <1>3, <1>4

\* The initial states satisfy the invariant.
LEMMA InitIInv == ASSUME CacheInit PROVE IInv
<1>1. TypeOK
  BY DEF CacheInit, TypeOK, Jobs, Idle, Absent
<1>2. \A t \in Threads : job[t].at = "idle"
  BY DEF CacheInit, Idle
<1>3. OwnedIsLoaded /\ NoStaleEntry
  BY DEF CacheInit, OwnedIsLoaded, NoStaleEntry
<1>4. QED
  BY <1>1, <1>2, <1>3 DEF IInv, Using, Destroying, Destroys, DestroyedOnce

-----------------------------------------------------------------------------
(***************************************************************************)
(* Every step preserves the invariant.  A step is described by the new job *)
(* of its thread; those of the others keep their fields.                   *)
(***************************************************************************)

\* Steps that change neither what the runtime has loaded nor the cache, and start
\* no destruction.
LEMMA JobsSuffice ==
  ASSUME IInv, NEW t \in Threads, UNCHANGED <<owner, content, LCOCache, dying>>,
         TypeOK', Using(t)', Destroying(t)',
         Destroys(t)' => Destroys(t) /\ job'[t].exec = job[t].exec,
         \A u \in Threads \ {t} : Keeps(u)
  PROVE  IInv'
<1>1. OwnedIsLoaded' /\ NoStaleEntry'
  BY DEF IInv, OwnedIsLoaded, NoStaleEntry
<1>2. ASSUME NEW u \in Threads PROVE Using(u)' /\ Destroying(u)'
  <2>1. CASE u = t
    BY <2>1
  <2>2. CASE u # t
    <3>1. Keeps(u) /\ Using(u) /\ Destroying(u)
      BY <2>2 DEF IInv
    <3>2. QED
      BY <3>1 DEF Keeps, Using, Destroying, Destroys, At, LCOsOf
  <2>3. QED
    BY <2>1, <2>2
<1>3. DestroyedOnce'
  <2>1. \A u \in Threads : Destroys(u)' => Destroys(u) /\ job'[u].exec = job[u].exec
    BY DEF Keeps, Destroys
  <2>2. QED
    BY <2>1 DEF IInv, DestroyedOnce
<1>4. QED
  BY <1>1, <1>2, <1>3 DEF IInv

\* A handle that stands for nothing has no entry, so a new code object has none.
LEMMA UnderlyingLoadsKeepsIInv ==
  ASSUME IInv, NEW t \in Threads, NEW e \in Execs, NEW h \in Handles,
         UnderlyingLoads(t, e, h)
  PROVE  IInv'
<1> DEFINE j == [Idle EXCEPT !.at = "copy", !.lco = h]
<1>1. /\ TypeOK /\ e \notin dying /\ owner[h] = Nothing /\ content[h] = Absent
      /\ job' = [job EXCEPT ![t] = j]
      /\ Nothing \notin Execs \cup Handles
  BY LcoCacheAssumption DEF IInv, OwnedIsLoaded, UnderlyingLoads
<1>2. j \in Jobs /\ j.at = "copy" /\ j.lco = h
  BY DEF Jobs, Idle, Absent
<1>3. /\ job' \in [Threads -> Jobs] /\ job'[t] = j
      /\ \A u \in Threads \ {t} : Keeps(u)
  BY <1>1, <1>2, OneThreadSteps
<1>4. /\ owner' = [owner EXCEPT ![h] = e] /\ content' = [content EXCEPT ![h] = loads + 1]
      /\ loads' = loads + 1 /\ mapped' = mapped \cup {h}
      /\ UNCHANGED <<LCOCache, dying, survived>>
  BY DEF UnderlyingLoads
<1>5. TypeOK'
  BY <1>1, <1>3, <1>4 DEF TypeOK
<1>6. OwnedIsLoaded'
  BY <1>1, <1>4 DEF IInv, OwnedIsLoaded, TypeOK, Absent
<1>7. NoStaleEntry'
  BY <1>1, <1>4 DEF IInv, NoStaleEntry, TypeOK
<1>8. ASSUME NEW u \in Threads PROVE Using(u)' /\ Destroying(u)'
  <2>1. CASE u = t
    BY <1>1, <1>2, <1>3, <1>4, <2>1 DEF Using, Destroying, Destroys, At, TypeOK
  <2>2. CASE u # t
    <3>1. Keeps(u) /\ Using(u) /\ Destroying(u)
      BY <1>3, <2>2 DEF IInv
    <3>2. Using(u)'
      BY <1>1, <1>4, <3>1 DEF Keeps, Using, At, TypeOK
    <3>3. Destroying(u)'
      BY <1>1, <1>4, <3>1 DEF Keeps, Destroying, Destroys, At, LCOsOf, TypeOK
    <3>4. QED
      BY <3>2, <3>3
  <2>3. QED
    BY <2>1, <2>2
<1>9. DestroyedOnce'
  BY <1>2, <1>3 DEF IInv, DestroyedOnce, Destroys, Keeps
<1>10. QED
  BY <1>5, <1>6, <1>7, <1>8, <1>9 DEF IInv

\* The entry put in is that of the code object the thread holds a copy of; nobody
\* is destroying its executable.
LEMMA InsertKeepsIInv ==
  ASSUME IInv, NEW t \in Threads, NEW h \in Handles, NEW j \in Jobs,
         owner[h] # Nothing, owner[h] \notin dying,
         LCOCache' = Inserted(h, content[h]),
         job' \in [Threads -> Jobs], job'[t] = j,
         \A u \in Threads \ {t} : Keeps(u),
         j.at \in {"idle", "deref"}, j.at = "deref" => j.lco = h,
         UNCHANGED <<hsa, dying, survived>>
  PROVE  IInv'
<1>1. TypeOK /\ TypeOK'
  BY DEF IInv, TypeOK, Inserted, hsa
<1>2. OwnedIsLoaded'
  BY DEF IInv, OwnedIsLoaded, hsa
<1>3. NoStaleEntry'
  BY <1>1 DEF IInv, NoStaleEntry, Inserted, hsa, TypeOK
<1>4. ASSUME NEW u \in Threads PROVE Using(u)' /\ Destroying(u)'
  <2>1. CASE u = t
    BY <2>1 DEF Using, Destroying, Destroys, At, hsa
  <2>2. CASE u # t
    <3>1. Keeps(u) /\ Using(u) /\ Destroying(u)
      BY <2>2 DEF IInv
    <3>2. Using(u)'
      BY <3>1 DEF Keeps, Using, At, hsa
    <3>3. Destroying(u)'
      BY <1>1, <3>1 DEF Keeps, Destroying, Destroys, At, LCOsOf, hsa, Inserted, TypeOK
    <3>4. QED
      BY <3>2, <3>3
  <2>3. QED
    BY <2>1, <2>2
<1>5. DestroyedOnce'
  BY DEF IInv, DestroyedOnce, Destroys, Keeps
<1>6. QED
  BY <1>1, <1>2, <1>3, <1>4, <1>5 DEF IInv

\* Whoever works on a code object keeps its executable from being destroyed.
LEMMA AppDestroysKeepsIInv ==
  ASSUME IInv, NEW t \in Threads, NEW e \in Execs, AppDestroys(t, e)
  PROVE  IInv'
<1> DEFINE j == [Idle EXCEPT !.at = "erase", !.exec = e]
<1>1. /\ TypeOK /\ e \notin dying /\ Nothing \notin Handles
      /\ job' = [job EXCEPT ![t] = j] /\ dying' = dying \cup {e}
      /\ UNCHANGED <<owner, content, mapped, loads, LCOCache, survived>>
  BY LcoCacheAssumption DEF IInv, AppDestroys, hsa
<1>2. j \in Jobs /\ j.at = "erase" /\ j.exec = e
  BY DEF Jobs, Idle, Absent
<1>3. /\ job' \in [Threads -> Jobs] /\ job'[t] = j
      /\ \A u \in Threads \ {t} : Keeps(u)
  BY <1>1, <1>2, OneThreadSteps
<1>4. TypeOK'
  BY <1>1, <1>3 DEF TypeOK
<1>5. OwnedIsLoaded' /\ NoStaleEntry'
  BY <1>1 DEF IInv, OwnedIsLoaded, NoStaleEntry
<1>6. ASSUME NEW u \in Threads PROVE Using(u)' /\ Destroying(u)'
  <2>1. CASE u = t
    BY <1>1, <1>2, <1>3, <2>1 DEF Using, Destroying, Destroys, At
  <2>2. CASE u # t
    <3>1. Keeps(u) /\ Using(u) /\ Destroying(u)
      BY <1>3, <2>2 DEF IInv
    <3>2. job[u].lco # Nothing => owner[job[u].lco] # e
      BY DEF AppDestroys, BusyWith
    <3>3. Using(u)'
      BY <1>1, <3>1, <3>2 DEF Keeps, Using, At
    <3>4. Destroying(u)'
      BY <1>1, <3>1 DEF Keeps, Destroying, Destroys, At, LCOsOf
    <3>5. QED
      BY <3>3, <3>4
  <2>3. QED
    BY <2>1, <2>2
<1>7. DestroyedOnce'
  <2>1. \A u \in Threads \ {t} : Destroys(u)' => job'[u].exec # e
    BY <1>1, <1>3 DEF IInv, Destroying, Destroys, Keeps
  <2>2. job'[t].exec = e
    BY <1>2, <1>3
  <2>3. \A u \in Threads \ {t} : Destroys(u)' => Destroys(u) /\ job'[u].exec = job[u].exec
    BY <1>3 DEF Keeps, Destroys
  <2>4. QED
    BY <2>1, <2>2, <2>3 DEF IInv, DestroyedOnce
<1>8. QED
  BY <1>4, <1>5, <1>6, <1>7 DEF IInv

LEMMA EraseKeepsIInv ==
  ASSUME IInv, NEW t \in Threads, Erase(t)
  PROVE  IInv'
<1> DEFINE j == [job[t] EXCEPT !.at = "underlying"]
<1>1. /\ TypeOK /\ At(t, "erase") /\ job' = [job EXCEPT ![t] = j]
      /\ LCOCache' = [h \in Handles |-> IF h \in LCOsOf(job[t].exec) THEN Absent
                                        ELSE LCOCache[h]]
      /\ UNCHANGED <<owner, content, mapped, loads, dying, survived>>
  BY DEF IInv, TypeOK, Erase, hsa
<1>2. j \in Jobs /\ j.at = "underlying" /\ j.exec = job[t].exec
  BY <1>1 DEF TypeOK, Jobs
<1>3. /\ job' \in [Threads -> Jobs] /\ job'[t] = j
      /\ \A u \in Threads \ {t} : Keeps(u)
  BY <1>1, <1>2, OneThreadSteps
<1>4. TypeOK'
  BY <1>1, <1>3 DEF TypeOK, Absent
<1>5. OwnedIsLoaded' /\ NoStaleEntry'
  BY <1>1 DEF IInv, OwnedIsLoaded, NoStaleEntry
<1>6. ASSUME NEW u \in Threads PROVE Using(u)' /\ Destroying(u)'
  <2>1. CASE u = t
    BY <1>1, <1>2, <1>3, <2>1 DEF IInv, Using, Destroying, Destroys, At, LCOsOf
  <2>2. CASE u # t
    <3>1. Keeps(u) /\ Using(u) /\ Destroying(u)
      BY <1>3, <2>2 DEF IInv
    <3>2. QED
      BY <1>1, <3>1 DEF Keeps, Using, Destroying, Destroys, At, LCOsOf
  <2>3. QED
    BY <2>1, <2>2
<1>7. DestroyedOnce'
  BY <1>1, <1>2, <1>3 DEF IInv, DestroyedOnce, Destroys, Keeps, At
<1>8. QED
  BY <1>4, <1>5, <1>6, <1>7 DEF IInv

\* The handles that are free for use again have no entry.
LEMMA UnderlyingDestroysKeepsIInv ==
  ASSUME IInv, NEW t \in Threads, UnderlyingDestroys(t)
  PROVE  IInv'
<1> DEFINE e == job[t].exec
           gone == LCOsOf(e)
<1>1. /\ TypeOK /\ At(t, "underlying") /\ job' = [job EXCEPT ![t] = Idle]
      /\ owner' = [h \in Handles |-> IF h \in gone THEN Nothing ELSE owner[h]]
      /\ content' = [h \in Handles |-> IF h \in gone THEN Absent ELSE content[h]]
      /\ mapped' = mapped \ gone /\ dying' = dying \ {e} /\ survived' = survived \ {e}
      /\ UNCHANGED <<loads, LCOCache>>
  BY DEF IInv, UnderlyingDestroys
<1>2. e \in dying /\ \A h \in gone : LCOCache[h] = Absent
  BY <1>1 DEF IInv, Destroying, Destroys, At
<1>3. Idle \in Jobs /\ Idle.at = "idle"
  BY DEF Jobs, Idle, Absent
<1>4. /\ job' \in [Threads -> Jobs] /\ job'[t] = Idle
      /\ \A u \in Threads \ {t} : Keeps(u)
  BY <1>1, <1>3, OneThreadSteps
<1>5. TypeOK'
  BY <1>1, <1>4 DEF TypeOK, Absent
<1>6. OwnedIsLoaded' /\ NoStaleEntry'
  BY <1>1, <1>2 DEF IInv, OwnedIsLoaded, NoStaleEntry
<1>7. ASSUME NEW u \in Threads PROVE Using(u)' /\ Destroying(u)'
  <2>1. CASE u = t
    BY <1>3, <1>4, <2>1 DEF Using, Destroying, Destroys, At
  <2>2. CASE u # t
    <3>1. Keeps(u) /\ Using(u) /\ Destroying(u)
      BY <1>4, <2>2 DEF IInv
    <3>2. Using(u)'
      BY <1>1, <1>2, <3>1 DEF Keeps, Using, At, LCOsOf
    <3>3. Destroys(u) => job[u].exec # e
      BY <1>1, <2>2 DEF IInv, DestroyedOnce, Destroys, At
    <3>4. job[u].exec # Nothing /\ Destroys(u) => LCOsOf(job[u].exec)' = LCOsOf(job[u].exec)
      BY <1>1, <3>3 DEF LCOsOf
    <3>5. Destroys(u) => job[u].exec # Nothing
      BY <1>1, <3>1, LcoCacheAssumption DEF Destroying, Destroys, TypeOK
    <3>6. Destroying(u)'
      BY <1>1, <3>1, <3>3, <3>4, <3>5 DEF Keeps, Destroying, Destroys, At, LCOsOf
    <3>7. QED
      BY <3>2, <3>6
  <2>3. QED
    BY <2>1, <2>2
<1>8. DestroyedOnce'
  BY <1>3, <1>4 DEF IInv, DestroyedOnce, Destroys, Keeps
<1>9. QED
  BY <1>5, <1>6, <1>7, <1>8 DEF IInv

\* The runtime refuses: what is loaded stays loaded, and the entries are gone.
LEMMA UnderlyingFailsKeepsIInv ==
  ASSUME IInv, NEW t \in Threads, UnderlyingFails(t)
  PROVE  IInv'
<1> DEFINE e == job[t].exec
<1>1. /\ TypeOK /\ At(t, "underlying") /\ job' = [job EXCEPT ![t] = Idle]
      /\ dying' = dying \ {e} /\ survived' = survived \cup {e}
      /\ UNCHANGED <<owner, content, mapped, loads, LCOCache>>
  BY DEF IInv, UnderlyingFails, hsa
<1>2. e \in dying
  BY <1>1 DEF IInv, Destroying, Destroys, At
<1>3. Idle \in Jobs /\ Idle.at = "idle"
  BY DEF Jobs, Idle, Absent
<1>4. /\ job' \in [Threads -> Jobs] /\ job'[t] = Idle
      /\ \A u \in Threads \ {t} : Keeps(u)
  BY <1>1, <1>3, OneThreadSteps
<1>5. TypeOK'
  BY <1>1, <1>2, <1>4 DEF TypeOK
<1>6. OwnedIsLoaded' /\ NoStaleEntry'
  BY <1>1 DEF IInv, OwnedIsLoaded, NoStaleEntry
<1>7. ASSUME NEW u \in Threads PROVE Using(u)' /\ Destroying(u)'
  <2>1. CASE u = t
    BY <1>3, <1>4, <2>1 DEF Using, Destroying, Destroys, At
  <2>2. CASE u # t
    <3>1. Keeps(u) /\ Using(u) /\ Destroying(u)
      BY <1>4, <2>2 DEF IInv
    <3>2. Destroys(u) => job[u].exec # e
      BY <1>1, <2>2 DEF IInv, DestroyedOnce, Destroys, At
    <3>3. QED
      BY <1>1, <3>1, <3>2 DEF Keeps, Using, Destroying, Destroys, At, LCOsOf
  <2>3. QED
    BY <2>1, <2>2
<1>8. DestroyedOnce'
  BY <1>3, <1>4 DEF IInv, DestroyedOnce, Destroys, Keeps
<1>9. QED
  BY <1>5, <1>6, <1>7, <1>8 DEF IInv

\* A call that ends leaves nothing behind.
LEMMA CallEndsKeepsIInv ==
  ASSUME IInv, NEW t \in Threads, job' = [job EXCEPT ![t] = Idle],
         UNCHANGED <<hsa, LCOCache, dying, survived>>
  PROVE  IInv'
<1>1. Idle \in Jobs /\ Idle.at = "idle"
  BY DEF Jobs, Idle, Absent
<1>2. /\ job' \in [Threads -> Jobs] /\ job'[t] = Idle
      /\ \A u \in Threads \ {t} : Keeps(u)
  BY <1>1, OneThreadSteps DEF IInv
<1>3. TypeOK' /\ Using(t)' /\ Destroying(t)' /\ ~Destroys(t)'
  BY <1>1, <1>2 DEF IInv, TypeOK, Using, Destroying, Destroys, hsa
<1>4. QED
  BY <1>2, <1>3, JobsSuffice DEF hsa

LEMMA CopyAndParseKeepsIInv ==
  ASSUME IInv, NEW t \in Threads, CopyAndParse(t)
  PROVE  IInv'
<1> DEFINE h == job[t].lco
           j == [job[t] EXCEPT !.at = "insert", !.copy = content[h]]
<1>1. /\ TypeOK /\ At(t, "copy") /\ Using(t) /\ job' = [job EXCEPT ![t] = j]
      /\ UNCHANGED <<owner, content, mapped, loads, LCOCache, dying, survived>>
  BY DEF IInv, TypeOK, CopyAndParse, hsa
<1>2. h \in Handles /\ owner[h] # Nothing /\ owner[h] \notin dying /\ content[h] \in Nat
  BY <1>1 DEF Using, At, TypeOK
<1>3. j \in Jobs /\ j.at = "insert" /\ j.lco = h /\ j.copy = content[h]
  BY <1>1, <1>2 DEF TypeOK, Jobs
<1>4. /\ job' \in [Threads -> Jobs] /\ job'[t] = j
      /\ \A u \in Threads \ {t} : Keeps(u)
  BY <1>1, <1>3, OneThreadSteps
<1>5. job'[t].at = "insert" /\ job'[t].lco = h /\ job'[t].copy = content[h]
  BY <1>3, <1>4
<1>6. TypeOK'
  BY <1>1, <1>4 DEF TypeOK
<1>7. Using(t)'
  <2> HIDE DEF h
  <2> QED
    BY <1>1, <1>2, <1>5 DEF Using, At
<1>8. Destroying(t)' /\ ~Destroys(t)'
  BY <1>5 DEF Destroying, Destroys
<1>9. QED
  BY <1>1, <1>4, <1>6, <1>7, <1>8, JobsSuffice

\* A reference into the table is of a code object nobody destroys.
LEMMA GetCachedKeepsIInv ==
  ASSUME IInv, NEW t \in Threads, NEW h \in Handles, GetCached(t, h)
  PROVE  IInv'
<1> DEFINE j == [Idle EXCEPT !.at = "deref", !.lco = h]
<1>1. /\ TypeOK /\ owner[h] # Nothing /\ owner[h] \notin dying /\ job' = [job EXCEPT ![t] = j]
      /\ UNCHANGED <<owner, content, mapped, loads, LCOCache, dying, survived>>
  BY DEF IInv, GetCached, MayLookUp, hsa
<1>2. j \in Jobs /\ j.at = "deref" /\ j.lco = h
  BY DEF Jobs, Idle, Absent
<1>3. /\ job' \in [Threads -> Jobs] /\ job'[t] = j
      /\ \A u \in Threads \ {t} : Keeps(u)
  BY <1>1, <1>2, OneThreadSteps
<1>4. job'[t].at = "deref" /\ job'[t].lco = h
  BY <1>2, <1>3
<1>5. TypeOK'
  BY <1>1, <1>3 DEF TypeOK
<1>6. Using(t)' /\ Destroying(t)' /\ ~Destroys(t)'
  BY <1>1, <1>4 DEF Using, Destroying, Destroys, At
<1>7. QED
  BY <1>1, <1>3, <1>5, <1>6, JobsSuffice

LEMMA InsertsKeepIInv ==
  ASSUME IInv, NEW t \in Threads, NEW grows \in BOOLEAN,
         \/ Insert(t, grows)
         \/ \E h \in Handles : Create(t, h, grows)
  PROVE  IInv'
<1>1. CASE Insert(t, grows)
  <2> DEFINE h == job[t].lco
  <2>1. /\ TypeOK /\ h \in Handles /\ owner[h] # Nothing /\ owner[h] \notin dying
        /\ job[t].copy = content[h]
    BY <1>1 DEF IInv, Using, Insert, At
  <2>2. Idle \in Jobs /\ Idle.at = "idle"
    BY DEF Jobs, Idle, Absent
  <2>3. job' = Moved([job EXCEPT ![t] = Idle], grows) /\ LCOCache' = Inserted(h, content[h])
        /\ UNCHANGED <<hsa, dying, survived>>
    BY <1>1, <2>1 DEF Insert
  <2>4. /\ job' \in [Threads -> Jobs] /\ job'[t] = Idle
        /\ \A u \in Threads \ {t} : Keeps(u)
    BY <2>1, <2>2, <2>3, OneThreadSteps
  <2> HIDE DEF h
  <2>5. QED
    BY <2>1, <2>2, <2>3, <2>4, InsertKeepsIInv
<1>2. ASSUME NEW h \in Handles, Create(t, h, grows) PROVE IInv'
  <2> DEFINE j == [Idle EXCEPT !.at = "deref", !.lco = h]
  <2>1. /\ TypeOK /\ owner[h] # Nothing /\ owner[h] \notin dying
        /\ job' = [Moved(job, grows) EXCEPT ![t] = j] /\ LCOCache' = Inserted(h, content[h])
        /\ UNCHANGED <<hsa, dying, survived>>
    BY <1>2 DEF IInv, Create, MayLookUp
  <2>2. j \in Jobs /\ j.at = "deref" /\ j.lco = h
    BY DEF Jobs, Idle, Absent
  <2>3. /\ job' \in [Threads -> Jobs] /\ job'[t] = j
        /\ \A u \in Threads \ {t} : Keeps(u)
    BY <2>1, <2>2, OneThreadSteps
  <2> HIDE DEF j
  <2>4. QED
    BY <2>1, <2>2, <2>3, InsertKeepsIInv
<1>3. QED
  BY <1>1, <1>2

-----------------------------------------------------------------------------
LEMMA StepKeepsIInv ==
  ASSUME IInv, [CacheNext]_cacheVars
  PROVE  IInv'
<1>1. ASSUME NEW h \in Handles, Unmap(h) PROVE IInv'
  BY <1>1 DEF IInv, Unmap, TypeOK, OwnedIsLoaded, NoStaleEntry, Using, Destroying,
              Destroys, DestroyedOnce, At, LCOsOf
<1>2. ASSUME NEW t \in Threads, NEW e \in Execs, NEW h \in Handles, UnderlyingLoads(t, e, h)
      PROVE  IInv'
  BY <1>2, UnderlyingLoadsKeepsIInv
<1>3. ASSUME NEW t \in Threads, CopyAndParse(t) PROVE IInv'
  BY <1>3, CopyAndParseKeepsIInv
<1>4. ASSUME NEW t \in Threads, SkipInsert(t) \/ Dereference(t) PROVE IInv'
  BY <1>4, CallEndsKeepsIInv DEF SkipInsert, Dereference
<1>5. ASSUME NEW t \in Threads, NEW grows \in BOOLEAN,
             Insert(t, grows) \/ \E h \in Handles : Create(t, h, grows)
      PROVE  IInv'
  BY <1>5, InsertsKeepIInv
<1>6. ASSUME NEW t \in Threads, NEW e \in Execs, AppDestroys(t, e) PROVE IInv'
  BY <1>6, AppDestroysKeepsIInv
<1>7. ASSUME NEW t \in Threads, Erase(t) PROVE IInv'
  BY <1>7, EraseKeepsIInv
<1>8. ASSUME NEW t \in Threads, UnderlyingDestroys(t) PROVE IInv'
  BY <1>8, UnderlyingDestroysKeepsIInv
<1>9. ASSUME NEW t \in Threads, UnderlyingFails(t) PROVE IInv'
  BY <1>9, UnderlyingFailsKeepsIInv
<1>10. ASSUME NEW t \in Threads, NEW h \in Handles, GetCached(t, h) PROVE IInv'
  BY <1>10, GetCachedKeepsIInv
<1>11. CASE UNCHANGED cacheVars
  BY <1>11 DEF cacheVars, IInv, TypeOK, OwnedIsLoaded, NoStaleEntry, Using, Destroying,
               Destroys, DestroyedOnce, At, LCOsOf
<1>12. QED
  BY <1>1, <1>2, <1>3, <1>4, <1>5, <1>6, <1>7, <1>8, <1>9, <1>10, <1>11
     DEF CacheNext, CreateFails, AllDestroyed

\* The invariant holds in every reachable state.
THEOREM LcoCacheInvariant == CacheSpec => []IInv
<1>1. CacheInit => IInv
  BY InitIInv
<1>2. IInv /\ [CacheNext]_cacheVars => IInv'
  BY StepKeepsIInv
<1>3. QED
  BY <1>1, <1>2, PTL DEF CacheSpec

\* Whatever the application loads, destroys and unmaps, and however handles are
\* used again, an entry of LCOCache is a copy of what its handle stands for.
THEOREM EntriesAreCurrent == CacheSpec => []NoStaleEntry
<1>1. IInv => NoStaleEntry
  BY DEF IInv
<1>2. QED
  BY <1>1, LcoCacheInvariant, PTL

-----------------------------------------------------------------------------
\* The entry made for a code object that is loaded is not Absent, and no other is lost.
LEMMA InsertedIsPresent ==
  ASSUME IInv, NEW h \in Handles, owner[h] # Nothing, LCOCache' = Inserted(h, content[h])
  PROVE  /\ LCOCache'[h] # Absent
         /\ \A g \in Handles : LCOCache[g] # Absent => LCOCache'[g] # Absent
  BY DEF IInv, OwnedIsLoaded, Inserted, TypeOK

\* No step takes away the copy of a code object that lasts.
LEMMA StepKeepsCopies ==
  ASSUME IInv, [CacheNext]_cacheVars
  PROVE  KeepsCopies
<1> SUFFICES ASSUME NEW h \in Handles, Copied(h), Lasts(h)'
             PROVE  Copied(h)'
  BY DEF KeepsCopies
<1> DEFINE Holder(t) == At(t, "insert") /\ job[t].lco = h
<1>1. ASSUME UNCHANGED LCOCache, \A t \in Threads : Holder(t) => Holder(t)'
      PROVE  Copied(h)'
  BY <1>1 DEF Copied
<1>2. CASE UNCHANGED cacheVars
  BY <1>2 DEF cacheVars, Copied, At
<1>3. ASSUME NEW g \in Handles, Unmap(g) PROVE Copied(h)'
  BY <1>3 DEF Unmap, Copied, At
<1>4. ASSUME NEW t \in Threads, ~At(t, "insert"), NEW j \in Jobs,
             job' = [job EXCEPT ![t] = j], UNCHANGED LCOCache
      PROVE  Copied(h)'
  <2>1. \A u \in Threads \ {t} : Keeps(u)
    BY <1>4, OneThreadSteps DEF IInv
  <2>2. QED
    BY <1>1, <1>4, <2>1 DEF Keeps, At
<1>5. Idle \in Jobs
  BY DEF Jobs, Idle, Absent
<1>6. ASSUME NEW t \in Threads,
             \/ \E e \in Execs, g \in Handles : UnderlyingLoads(t, e, g)
             \/ \E e \in Execs : AppDestroys(t, e)
             \/ \E g \in Handles : GetCached(t, g)
      PROVE  Copied(h)'
  <2>1. /\ \A g \in Handles : /\ [Idle EXCEPT !.at = "copy", !.lco = g] \in Jobs
                              /\ [Idle EXCEPT !.at = "deref", !.lco = g] \in Jobs
        /\ \A e \in Execs : [Idle EXCEPT !.at = "erase", !.exec = e] \in Jobs
    BY DEF Jobs, Idle, Absent
  <2>2. CASE \E e \in Execs, g \in Handles : UnderlyingLoads(t, e, g)
    BY <1>4, <2>1, <2>2 DEF UnderlyingLoads, At
  <2>3. CASE \E e \in Execs : AppDestroys(t, e)
    BY <1>4, <2>1, <2>3 DEF AppDestroys, At
  <2>4. CASE \E g \in Handles : GetCached(t, g)
    BY <1>4, <2>1, <2>4 DEF GetCached, MayLookUp, At
  <2>5. QED
    BY <1>6, <2>2, <2>3, <2>4
<1>7. ASSUME NEW t \in Threads, SkipInsert(t) \/ Dereference(t) \/ UnderlyingDestroys(t)
                                \/ UnderlyingFails(t)
      PROVE  Copied(h)'
  BY <1>4, <1>5, <1>7 DEF SkipInsert, Dereference, UnderlyingDestroys, UnderlyingFails, At
<1>8. ASSUME NEW t \in Threads, CopyAndParse(t) PROVE Copied(h)'
  <2>1. job[t].lco \in Handles /\ job[t] \in Jobs /\ content[job[t].lco] \in Nat
    BY <1>8 DEF IInv, TypeOK, Using, CopyAndParse, At
  <2>2. [job[t] EXCEPT !.at = "insert", !.copy = content[job[t].lco]] \in Jobs
    BY <2>1 DEF Jobs
  <2>3. QED
    BY <1>4, <1>8, <2>2 DEF CopyAndParse, At
<1>9. ASSUME NEW t \in Threads, Erase(t) PROVE Copied(h)'
  <2> DEFINE j == [job[t] EXCEPT !.at = "underlying"]
  <2>1. j \in Jobs /\ TypeOK /\ job' = [job EXCEPT ![t] = j] /\ At(t, "erase")
    BY <1>9 DEF IInv, TypeOK, Jobs, Erase
  <2>2. job[t].exec \in dying
    BY <2>1 DEF IInv, Destroying, Destroys, At
  <2>3. LCOCache'[h] = LCOCache[h]
    BY <1>9, <2>2 DEF Erase, Lasts, LCOsOf, hsa
  <2>4. \A u \in Threads \ {t} : Keeps(u)
    BY <2>1, OneThreadSteps
  <2>5. QED
    BY <2>1, <2>3, <2>4 DEF Copied, Keeps, At
<1>10. ASSUME NEW t \in Threads, NEW grows \in BOOLEAN, Insert(t, grows)
       PROVE  Copied(h)'
  <2>1. /\ job[t].lco \in Handles /\ owner[job[t].lco] # Nothing
        /\ LCOCache' = Inserted(job[t].lco, content[job[t].lco])
    BY <1>10 DEF IInv, Using, Insert, At
  <2>2. \A u \in Threads \ {t} : Keeps(u)
    BY <1>5, <1>10, OneThreadSteps DEF IInv, Insert, Idle
  <2>3. /\ LCOCache'[job[t].lco] # Absent
        /\ LCOCache[h] # Absent => LCOCache'[h] # Absent
    BY <2>1, InsertedIsPresent
  <2>4. QED
    BY <2>2, <2>3 DEF Copied, Keeps, At
<1>11. ASSUME NEW t \in Threads, NEW grows \in BOOLEAN, NEW g \in Handles, Create(t, g, grows)
       PROVE  Copied(h)'
  <2>1. [Idle EXCEPT !.at = "deref", !.lco = g] \in Jobs
    BY DEF Jobs, Idle, Absent
  <2>2. \A u \in Threads \ {t} : Keeps(u)
    BY <1>11, <2>1, OneThreadSteps DEF IInv, Create
  <2>3. LCOCache[h] # Absent => LCOCache'[h] # Absent
    BY <1>11, InsertedIsPresent DEF Create, MayLookUp
  <2>4. ~At(t, "insert")
    BY <1>11 DEF Create, MayLookUp, At
  <2>5. QED
    BY <2>2, <2>3, <2>4 DEF Copied, Keeps, At
<1>12. QED
  BY <1>2, <1>3, <1>6, <1>7, <1>8, <1>9, <1>10, <1>11 DEF CacheNext, CreateFails, AllDestroyed

\* What the load wrapper has copied stays available as long as the executable
\* exists and the runtime has not refused to destroy it.
THEOREM CopiesLast == CacheSpec => LoadedThenCached
<1>1. IInv /\ [CacheNext]_cacheVars => [KeepsCopies]_cacheVars
  BY StepKeepsCopies
<1>2. QED
  BY <1>1, LcoCacheInvariant, PTL DEF CacheSpec, LoadedThenCached
=============================================================================
