------------------------------- MODULE LcoCache -------------------------------
(***************************************************************************)
(* luthier::LoadedCodeObjectCache and its trait (LoadedCodeObjectCache.h,  *)
(* .cpp): copies of the code objects that the application loads, taken     *)
(* while it still has to keep them, and given up when it destroys their    *)
(* executable.  Handles of loaded code objects are used again by HSA.      *)
(*                                                                         *)
(* The storage a code object is loaded from belongs to the application,    *)
(* which may unmap it at any time after loading; reading it is guarded, so *)
(* that a copy may fail.  The application loads into an executable, looks  *)
(* up its code objects (from its own dispatches) and destroys it in turn,  *)
(* as HSA demands; different executables are independent of one another.   *)
(***************************************************************************)
EXTENDS Naturals

CONSTANTS
  Threads,
  Execs,      \* the application's executables
  Handles,    \* handles of loaded code objects
  MaxLoads,   \* bound on the code objects loaded
  Nothing     \* no executable, no code object

ASSUME LcoCacheAssumption == MaxLoads \in Nat /\ Nothing \notin Threads \cup Execs \cup Handles

Contents == 1..MaxLoads   \* code objects, as they are loaded
Absent == 0

VARIABLES
  owner,     \* owner[h]: the executable that loaded code object h, or Nothing
  content,   \* content[h]: what h was loaded from, or Absent
  mapped,    \* handles whose storage can still be read
  loads,     \* how many code objects have been loaded
  LCOCache,  \* LCOCache[h]: the copy cached for h, or Absent
  dying,     \* executables that are being destroyed
  survived,  \* executables the runtime failed to destroy
  job        \* job[t]: the call in progress on thread t

cacheVars == <<owner, content, mapped, loads, LCOCache, dying, survived, job>>
hsa == <<owner, content, mapped, loads>>

Idle == [at |-> "idle", lco |-> Nothing, copy |-> Absent, exec |-> Nothing,
         stable |-> TRUE]
At(t, label) == job[t].at = label
LCOsOf(e) == {h \in Handles : owner[h] = e}

\* Threads that work on e, other than to destroy it.
BusyWith(e) ==
  {t \in Threads : job[t].lco # Nothing /\ owner[job[t].lco] = e}

CacheInit ==
  /\ owner = [h \in Handles |-> Nothing]
  /\ content = [h \in Handles |-> Absent]
  /\ mapped = {}
  /\ loads = 0
  /\ LCOCache = [h \in Handles |-> Absent]
  /\ dying = {}
  /\ survived = {}
  /\ job = [t \in Threads |-> Idle]

-----------------------------------------------------------------------------
\* The underlying hsa_executable_load_agent_code_object succeeded.
UnderlyingLoads(t, e, h) ==
  /\ At(t, "idle")
  /\ e \notin dying
  /\ owner[h] = Nothing
  /\ loads < MaxLoads
  /\ loads' = loads + 1
  /\ owner' = [owner EXCEPT ![h] = e]
  /\ content' = [content EXCEPT ![h] = loads + 1]
  /\ mapped' = mapped \cup {h}
  /\ job' = [job EXCEPT ![t] = [Idle EXCEPT !.at = "copy", !.lco = h]]
  /\ UNCHANGED <<LCOCache, dying, survived>>

\* The application unmaps or frees the storage.
Unmap(h) ==
  /\ h \in mapped
  /\ mapped' = mapped \ {h}
  /\ UNCHANGED <<owner, content, loads, LCOCache, dying, survived, job>>

\* The rest of the load wrapper, up to the lock.
CopyAndParse(t) ==
  /\ At(t, "copy")
  /\ job[t].lco \in mapped
  /\ job' = [job EXCEPT ![t].at = "insert", ![t].copy = content[job[t].lco]]
  /\ UNCHANGED <<hsa, LCOCache, dying, survived>>

\* RunSafely fails: the insert is skipped.
SkipInsert(t) ==
  /\ At(t, "copy")
  /\ job[t].lco \notin mapped
  /\ job' = [job EXCEPT ![t] = Idle]
  /\ UNCHANGED <<hsa, LCOCache, dying, survived>>

\* DenseMap::insert keeps an entry that is there already.  A table that grows
\* moves its entries, and so do those that others still refer to.
Inserted(h, copy) ==
  IF LCOCache[h] = Absent THEN [LCOCache EXCEPT ![h] = copy] ELSE LCOCache

Moved(jobs, grows) ==
  [t \in Threads |-> IF jobs[t].at = "deref" /\ grows
                     THEN [jobs[t] EXCEPT !.stable = FALSE] ELSE jobs[t]]

\* Under the lock.
Insert(t, grows) ==
  /\ At(t, "insert")
  /\ LCOCache' = Inserted(job[t].lco, job[t].copy)
  /\ grows => LCOCache' # LCOCache
  /\ job' = Moved([job EXCEPT ![t] = Idle], grows)
  /\ UNCHANGED <<hsa, dying, survived>>

-----------------------------------------------------------------------------
\* The application calls hsa_executable_destroy.
AppDestroys(t, e) ==
  /\ At(t, "idle")
  /\ e \notin dying
  /\ LCOsOf(e) # {}
  /\ BusyWith(e) = {}
  /\ dying' = dying \cup {e}
  /\ job' = [job EXCEPT ![t] = [Idle EXCEPT !.at = "erase", !.exec = e]]
  /\ UNCHANGED <<hsa, LCOCache, survived>>

\* Faulty: the executable's first code object is taken for its only one.
EraseOne(t) ==
  /\ At(t, "erase")
  /\ \E first \in LCOsOf(job[t].exec) :
       LCOCache' = [LCOCache EXCEPT ![first] = Absent]
  /\ job' = [job EXCEPT ![t].at = "underlying"]
  /\ UNCHANGED <<hsa, dying, survived>>

\* Faulty: LCOCache.clear().
EraseEverything(t) ==
  /\ At(t, "erase")
  /\ LCOCache' = [h \in Handles |-> Absent]
  /\ job' = [job EXCEPT ![t].at = "underlying"]
  /\ UNCHANGED <<hsa, dying, survived>>

\* Under the lock: every code object of the executable.
Erase(t) ==
  /\ At(t, "erase")
  /\ LCOCache' = [h \in Handles |-> IF h \in LCOsOf(job[t].exec) THEN Absent
                                    ELSE LCOCache[h]]
  /\ job' = [job EXCEPT ![t].at = "underlying"]
  /\ UNCHANGED <<hsa, dying, survived>>

\* The underlying hsa_executable_destroy.
UnderlyingDestroys(t) ==
  /\ At(t, "underlying")
  /\ LET gone == LCOsOf(job[t].exec)
     IN /\ owner' = [h \in Handles |-> IF h \in gone THEN Nothing ELSE owner[h]]
        /\ content' = [h \in Handles |-> IF h \in gone THEN Absent ELSE content[h]]
        /\ mapped' = mapped \ gone
  /\ dying' = dying \ {job[t].exec}
  /\ survived' = survived \ {job[t].exec}
  /\ job' = [job EXCEPT ![t] = Idle]
  /\ UNCHANGED <<loads, LCOCache>>

\* It fails, after the entries have gone.
UnderlyingFails(t) ==
  /\ At(t, "underlying")
  /\ dying' = dying \ {job[t].exec}
  /\ survived' = survived \cup {job[t].exec}
  /\ job' = [job EXCEPT ![t] = Idle]
  /\ UNCHANGED <<hsa, LCOCache>>

-----------------------------------------------------------------------------
\* getOrCreateLoadedCodeObjectEntry, under the lock: the reference it returns
\* points into the table.
MayLookUp(t, h) ==
  /\ At(t, "idle")
  /\ owner[h] # Nothing
  /\ owner[h] \notin dying

GetCached(t, h) ==
  /\ MayLookUp(t, h)
  /\ LCOCache[h] # Absent
  /\ job' = [job EXCEPT ![t] = [Idle EXCEPT !.at = "deref", !.lco = h]]
  /\ UNCHANGED <<hsa, LCOCache, dying, survived>>

Create(t, h, grows) ==
  /\ MayLookUp(t, h)
  /\ LCOCache[h] = Absent
  /\ h \in mapped
  /\ LCOCache' = Inserted(h, content[h])
  /\ job' = [Moved(job, grows) EXCEPT ![t] = [Idle EXCEPT !.at = "deref", !.lco = h]]
  /\ UNCHANGED <<hsa, dying, survived>>

\* "Storage memory for loaded code object is no longer accessible".
CreateFails(t, h) ==
  /\ MayLookUp(t, h)
  /\ LCOCache[h] = Absent
  /\ h \notin mapped
  /\ UNCHANGED cacheVars

\* getAssociatedCodeObject, getAssociatedObjectFile: the lock has been
\* released.
Dereference(t) ==
  /\ At(t, "deref")
  /\ job' = [job EXCEPT ![t] = Idle]
  /\ UNCHANGED <<hsa, LCOCache, dying, survived>>

\* Every code object has been loaded and destroyed.
AllDestroyed ==
  /\ loads = MaxLoads
  /\ \A h \in Handles : owner[h] = Nothing
  /\ \A t \in Threads : At(t, "idle")
  /\ UNCHANGED cacheVars

-----------------------------------------------------------------------------
CacheNext ==
  \/ \E h \in Handles : Unmap(h)
  \/ \E t \in Threads :
       \/ \E e \in Execs, h \in Handles : UnderlyingLoads(t, e, h)
       \/ CopyAndParse(t) \/ SkipInsert(t)
       \/ \E grows \in BOOLEAN : Insert(t, grows)
       \/ \E e \in Execs : AppDestroys(t, e)
       \/ Erase(t) \/ UnderlyingDestroys(t) \/ UnderlyingFails(t)
       \/ \E h \in Handles :
            \/ GetCached(t, h) \/ CreateFails(t, h)
            \/ \E grows \in BOOLEAN : Create(t, h, grows)
       \/ Dereference(t)
  \/ AllDestroyed

CacheSpec == CacheInit /\ [][CacheNext]_cacheVars

-----------------------------------------------------------------------------
(***************************************************************************)
(* A handle that HSA uses again is never given the copy of the code object *)
(* it stood for before: what is cached is what is loaded.                  *)
(***************************************************************************)
NoStaleEntry ==
  \A h \in Handles : LCOCache[h] # Absent => LCOCache[h] = content[h]

(***************************************************************************)
(* Once the load wrapper has taken its copy of a code object, the copy is  *)
(* in the cache when the wrapper returns and stays there as long as the    *)
(* executable exists, whatever the application does with the storage -     *)
(* unless the runtime refused to destroy the executable, after the wrapper *)
(* had dropped the copy.                                                   *)
(***************************************************************************)
Copied(h) ==
  LCOCache[h] # Absent \/ \E t \in Threads : At(t, "insert") /\ job[t].lco = h

Lasts(h) == owner[h] # Nothing /\ owner[h] \notin dying \cup survived

KeepsCopies == \A h \in Handles : Copied(h) /\ Lasts(h)' => Copied(h)'
LoadedThenCached == [][KeepsCopies]_cacheVars

(***************************************************************************)
(* "Mutex protecting the cache entries", refuted by TLC: the reference a   *)
(* lookup returns is read after the lock has been released, when another   *)
(* thread's insertion may have moved the entries.                          *)
(***************************************************************************)
EntryProtected ==
  \A t \in Threads : At(t, "deref") => job[t].stable

=============================================================================
