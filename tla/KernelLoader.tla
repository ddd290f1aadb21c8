----------------------------- MODULE KernelLoader -----------------------------
(***************************************************************************)
(* luthier::InstrumentedKernelLoaderAndLauncher and its trait              *)
(* (InstrumentedKernelLoaderAndLauncher.{h,cpp}): the cache of loaded      *)
(* instrumented kernels, keyed by the address of the original kernel       *)
(* descriptor and a preset, and the hsa_executable_destroy wrapper that    *)
(* keeps the cache coherent with the application's executables.            *)
(*                                                                         *)
(* The cache is guarded by one lock, but the HSA runtime is not: every     *)
(* call into it may fail, the application loads and destroys executables   *)
(* meanwhile, and a kernel descriptor's address is used again by a later   *)
(* executable.                                                             *)
(***************************************************************************)
EXTENDS Integers, FiniteSets

CONSTANTS
  Threads,
  Execs,        \* the application's executables, each loaded at most once
  KDs,          \* addresses of kernel descriptors
  CodeOf,       \* CodeOf[e]: the descriptors in e's loaded memory
  Presets,
  ManagedVars,  \* managed variables a relocatable may carry
  HmmSupported, \* whether managed storage comes from the SVM interface, or
                \* else from a memory pool (HSA_AMD_SYSTEM_INFO_SVM_SUPPORTED)
  MaxVariants,  \* bound on the instrumented executables created
  MaxRefusals,  \* bound on the handles the runtime fails to destroy
  None

ASSUME CodeOfType == CodeOf \in [Execs -> SUBSET KDs]
ASSUME BoundsNat == MaxVariants \in Nat /\ MaxRefusals \in Nat
ASSUME HmmSupportedBoolean == HmmSupported \in BOOLEAN
ASSUME FiniteManagedVars == IsFiniteSet(ManagedVars)
ASSUME NoneIsNothing == None \notin Threads \cup Execs \cup KDs
ASSUME PartsDiffer == {"exec", "reader"} \cap ManagedVars = {}

Keys == KDs \X Presets
Variants == 1..MaxVariants      \* instrumented executables, as created
Absent == 0

\* What HSA keeps alive for a variant: its executable, its code object reader
\* and the storage of its managed variables.
Handles == ({"exec", "reader"} \cup ManagedVars) \X Variants
HandlesOf(v, parts) == parts \X {v}

VARIABLES
  app,         \* app[e]: what became of the application's executable e
  byOriginal,  \* ByOriginal: the variant cached for each key, or Absent
  madeFor,     \* madeFor[v]: the executable v's kernel was lifted from
  allocs,      \* allocs[v]: the ManagedAllocs of v's record (var, viaSvm)
  created,     \* how many variants exist so far
  live,        \* handles the HSA runtime keeps alive
  refused,     \* handles the runtime failed to destroy
  missed,      \* executables whose invalidation could not query HSA
  writer,      \* the thread that holds Mutex for writing, or None
  job,         \* job[t]: the library call in progress on thread t
  packet       \* packet[t]: the dispatch packet t handed to the GPU

vars == <<app, byOriginal, madeFor, allocs, created, live, refused, missed,
          writer, job, packet>>
cache == <<byOriginal, madeFor, allocs>>
hsa == <<live, refused>>

-----------------------------------------------------------------------------
(***************************************************************************)
(* A job's "at": waiting for the lock ("load", "invalidate"); inside       *)
(* loadInstrumented ("link", "reader", "stage", "managed"); inside a loop  *)
(* over eraseRecordLocked ("next", "execGone", "readerGone"); or about to  *)
(* call the runtime's hsa_executable_destroy ("underlying").               *)
(***************************************************************************)
Idle == [at |-> "idle", key |-> None, variant |-> Absent, exec |-> None,
         todo |-> {}]
NoPacket == [kd |-> None, ko |-> Absent]

At(t, label) == job[t].at = label
Go(t, label) == job' = [job EXCEPT ![t].at = label]

Acquire(t) == writer = None /\ writer' = t
Unlock(t) == writer' = None /\ job' = [job EXCEPT ![t] = Idle]

Loaded(kd) == \E e \in Execs : app[e] = "loaded" /\ kd \in CodeOf[e]
Cached(k) == byOriginal[k] # Absent
InUse(v) == \E t \in Threads : packet[t].ko = v

Storage(v) == {a.var : a \in allocs[v]}

\* freeManagedStorage asks the interface that ViaSvm names, which fails on what
\* is not its own.
Misfreed(v) == {a.var : a \in {b \in allocs[v] : b.viaSvm # HmmSupported}}

\* The runtime is asked to release some handles of v, and fails on those in no.
Destroy(v, parts) ==
  \E no \in SUBSET parts :
    /\ Misfreed(v) \cap parts \subseteq no
    /\ live' = live \ HandlesOf(v, parts \ no)
    /\ refused' = refused \cup HandlesOf(v, no)
    /\ Cardinality({h \in refused' : HmmSupported => h[1] \notin ManagedVars})
         <= MaxRefusals

Init ==
  /\ app = [e \in Execs |-> "unloaded"]
  /\ byOriginal = [k \in Keys |-> Absent]
  /\ madeFor = [v \in Variants |-> None]
  /\ allocs = [v \in Variants |-> {}]
  /\ created = 0
  /\ live = {}
  /\ refused = {}
  /\ missed = {}
  /\ writer = None
  /\ job = [t \in Threads |-> Idle]
  /\ packet = [t \in Threads |-> NoPacket]

-----------------------------------------------------------------------------
\* hsa_executable_load_agent_code_object and hsa_executable_freeze, called by
\* the application: two loaded executables never overlap.
AppLoads(e) ==
  /\ app[e] = "unloaded"
  /\ \A other \in Execs :
       app[other] \in {"loaded", "dying"} => CodeOf[other] \cap CodeOf[e] = {}
  /\ app' = [app EXCEPT ![e] = "loaded"]
  /\ UNCHANGED <<cache, created, hsa, missed, writer, job, packet>>

\* A packet reaches onPackets; until it completes the application keeps the
\* executable of its kernel.
Dispatch(t, kd) ==
  /\ At(t, "idle")
  /\ packet[t] = NoPacket
  /\ Loaded(kd)
  /\ packet' = [packet EXCEPT ![t].kd = kd]
  /\ UNCHANGED <<app, cache, created, hsa, missed, writer, job>>

Complete(t) ==
  /\ At(t, "idle")
  /\ packet[t] # NoPacket
  /\ packet' = [packet EXCEPT ![t] = NoPacket]
  /\ UNCHANGED <<app, cache, created, hsa, missed, writer, job>>

\* overrideWithInstrumented: without a record the packet stays as it is.
Override(t, p) ==
  /\ At(t, "idle")
  /\ packet[t].kd # None
  /\ packet[t].ko = Absent
  /\ writer = None
  /\ packet' = [packet EXCEPT ![t].ko = byOriginal[<<packet[t].kd, p>>]]
  /\ UNCHANGED <<app, cache, created, hsa, missed, writer, job>>

-----------------------------------------------------------------------------
\* loadInstrumented: the descriptor's owner is queried before the lock.
QueryOwner(t, e, p) ==
  /\ At(t, "idle")
  /\ packet[t].kd \in CodeOf[e]
  /\ packet[t].ko = Absent
  /\ app[e] = "loaded"
  /\ job' = [job EXCEPT ![t] =
       [Idle EXCEPT !.at = "load", !.exec = e, !.key = <<packet[t].kd, p>>]]
  /\ UNCHANGED <<app, cache, created, hsa, missed, writer, packet>>

AlreadyLoaded(t) ==
  /\ At(t, "load")
  /\ writer = None
  /\ Cached(job[t].key)
  /\ job' = [job EXCEPT ![t] = Idle]
  /\ UNCHANGED <<app, cache, created, hsa, missed, writer, packet>>

BeginLoad(t) ==
  /\ At(t, "load")
  /\ Acquire(t)
  /\ ~Cached(job[t].key)
  /\ Go(t, "link")
  /\ UNCHANGED <<app, cache, created, hsa, missed, packet>>

\* Linking, parsing, findSingleKernel or hsa_executable_create failed.
LinkFails(t) ==
  /\ At(t, "link")
  /\ Unlock(t)
  /\ UNCHANGED <<app, cache, created, hsa, missed, packet>>

CreateExec(t) ==
  /\ At(t, "link")
  /\ created < MaxVariants
  /\ created' = created + 1
  /\ live' = live \cup HandlesOf(created + 1, {"exec"})
  /\ job' = [job EXCEPT ![t].at = "reader", ![t].variant = created + 1]
  /\ UNCHANGED <<app, cache, refused, missed, writer, packet>>

CreateReader(t) ==
  /\ At(t, "reader")
  /\ live' = live \cup HandlesOf(job[t].variant, {"reader"})
  /\ Go(t, "stage")
  /\ UNCHANGED <<app, cache, created, refused, missed, writer, packet>>

ReaderFails(t) ==
  /\ At(t, "reader")
  /\ Destroy(job[t].variant, {"exec"})
  /\ Unlock(t)
  /\ UNCHANGED <<app, cache, created, missed, packet>>

\* Loading, freezing, the queries on the kernel symbol and the harvest of the
\* variables all succeeded.
Stage(t) ==
  /\ At(t, "stage")
  /\ Go(t, "managed")
  /\ UNCHANGED <<app, cache, created, hsa, missed, writer, packet>>

\* One turn of loadManagedVarsForRecord.  On either path three values are given
\* to the four members of ManagedAlloc: the last one, meant for ViaSvm, goes to
\* Size, and ViaSvm keeps its default.
AllocateManaged(t, m) ==
  /\ At(t, "managed")
  /\ m \notin Storage(job[t].variant)
  /\ live' = live \cup HandlesOf(job[t].variant, {m})
  /\ allocs' = [allocs EXCEPT ![job[t].variant] =
                  @ \cup {[var |-> m, viaSvm |-> FALSE]}]
  /\ UNCHANGED <<app, byOriginal, madeFor, created, refused, missed, writer,
                 job, packet>>

\* Faulty: a failed load forgets the managed variables allocated so far.
LoadFailsLeaking(t) ==
  /\ job[t].at \in {"stage", "managed"}
  /\ LET v == job[t].variant
     IN /\ Destroy(v, {"exec", "reader"})
        /\ allocs' = [allocs EXCEPT ![v] = {}]
  /\ Unlock(t)
  /\ UNCHANGED <<app, byOriginal, madeFor, created, missed, packet>>

\* The roll-back of loadManagedVarsForRecord, and Fail.
LoadFails(t) ==
  /\ job[t].at \in {"stage", "managed"}
  /\ LET v == job[t].variant
     IN /\ Destroy(v, Storage(v) \cup {"exec", "reader"})
        /\ allocs' = [allocs EXCEPT ![v] = {}]
  /\ Unlock(t)
  /\ UNCHANGED <<app, byOriginal, madeFor, created, missed, packet>>

\* try_emplace.
Insert(t) ==
  /\ At(t, "managed")
  /\ byOriginal' = [byOriginal EXCEPT ![job[t].key] = job[t].variant]
  /\ madeFor' = [madeFor EXCEPT ![job[t].variant] = job[t].exec]
  /\ Unlock(t)
  /\ UNCHANGED <<app, allocs, created, hsa, missed, packet>>

-----------------------------------------------------------------------------
\* unloadInstrumentedIfExists, unloadAll: called for variants no packet uses.
Erase(t, keys) ==
  /\ At(t, "idle")
  /\ Acquire(t)
  /\ \A k \in keys : Cached(k) => ~InUse(byOriginal[k])
  /\ job' = [job EXCEPT ![t].at = "next", ![t].todo = {k \in keys : Cached(k)}]
  /\ UNCHANGED <<app, cache, created, hsa, missed, packet>>

UnloadInstrumentedIfExists(t, k) == Erase(t, {k})

UnloadAll(t) == Erase(t, Keys)

\* The application calls hsa_executable_destroy and enters the wrapper.
AppDestroys(t, e) ==
  /\ At(t, "idle")
  /\ app[e] = "loaded"
  /\ \A u \in Threads : packet[u].kd \notin CodeOf[e]
  /\ app' = [app EXCEPT ![e] = "dying"]
  /\ job' = [job EXCEPT ![t].at = "invalidate", ![t].exec = e]
  /\ UNCHANGED <<cache, created, hsa, missed, writer, packet>>

\* Faulty: the loaded ranges are ignored.
InvalidateAll(t, known) ==
  /\ At(t, "invalidate")
  /\ known = CodeOf[job[t].exec]
  /\ Acquire(t)
  /\ job' = [job EXCEPT ![t].at = "next", ![t].todo = {k \in Keys : Cached(k)}]
  /\ UNCHANGED <<app, cache, created, hsa, missed, packet>>

\* invalidateOriginalExec collects its victims; known are the descriptors in
\* the ranges it could query (none when the first query fails).
Invalidate(t, known) ==
  /\ At(t, "invalidate")
  /\ known \subseteq CodeOf[job[t].exec]
  /\ Acquire(t)
  /\ job' = [job EXCEPT ![t].at = "next",
                        ![t].todo = {k \in Keys : Cached(k) /\ k[1] \in known}]
  /\ missed' = IF known = CodeOf[job[t].exec] THEN missed
                                             ELSE missed \cup {job[t].exec}
  /\ UNCHANGED <<app, cache, created, hsa, packet>>

\* Faulty: the executable is destroyed through the application's API table,
\* whose wrapper waits for Mutex.
EraseExecIntercepted(t, k) ==
  /\ At(t, "next")
  /\ k \in job[t].todo
  /\ writer = None
  /\ Destroy(byOriginal[k], {"exec"})
  /\ job' = [job EXCEPT ![t].at = "execGone", ![t].key = k,
                        ![t].todo = @ \ {k}]
  /\ UNCHANGED <<app, cache, created, missed, writer, packet>>

\* eraseRecordLocked: executable first, then reader, then managed storage;
\* errors are joined and the entry goes in any case.
EraseExec(t, k) ==
  /\ At(t, "next")
  /\ k \in job[t].todo
  /\ Destroy(byOriginal[k], {"exec"})
  /\ job' = [job EXCEPT ![t].at = "execGone", ![t].key = k,
                        ![t].todo = @ \ {k}]
  /\ UNCHANGED <<app, cache, created, missed, writer, packet>>

EraseReader(t) ==
  /\ At(t, "execGone")
  /\ Destroy(byOriginal[job[t].key], {"reader"})
  /\ Go(t, "readerGone")
  /\ UNCHANGED <<app, cache, created, missed, writer, packet>>

EraseEntry(t) ==
  /\ At(t, "readerGone")
  /\ LET v == byOriginal[job[t].key]
     IN /\ Destroy(v, Storage(v))
        /\ allocs' = [allocs EXCEPT ![v] = {}]
        /\ madeFor' = [madeFor EXCEPT ![v] = None]
  /\ byOriginal' = [byOriginal EXCEPT ![job[t].key] = Absent]
  /\ job' = [job EXCEPT ![t].at = "next", ![t].key = None]
  /\ UNCHANGED <<app, created, missed, writer, packet>>

EraseDone(t) ==
  /\ At(t, "next")
  /\ job[t].todo = {}
  /\ writer' = None
  /\ job' = [job EXCEPT ![t] = IF @.exec = None THEN Idle
                               ELSE [Idle EXCEPT !.at = "underlying", !.exec = job[t].exec]]
  /\ UNCHANGED <<app, cache, created, hsa, missed, packet>>

\* UnderlyingHsaExecutableDestroyFn, after the lock has been released.
Underlying(t, outcome) ==
  /\ At(t, "underlying")
  /\ app' = [app EXCEPT ![job[t].exec] = outcome]
  /\ job' = [job EXCEPT ![t] = Idle]
  /\ UNCHANGED <<cache, created, hsa, missed, writer, packet>>

-----------------------------------------------------------------------------
\* The steps a thread takes while it holds Mutex.
Critical(t) ==
  \/ LinkFails(t) \/ CreateExec(t) \/ CreateReader(t) \/ Stage(t) \/ Insert(t)
  \/ \E m \in ManagedVars : AllocateManaged(t, m)
  \/ ReaderFails(t) \/ LoadFails(t)
  \/ \E k \in Keys : EraseExec(t, k)
  \/ EraseReader(t) \/ EraseEntry(t) \/ EraseDone(t)

Next ==
  \/ \E e \in Execs : AppLoads(e)
  \/ \E t \in Threads :
       \/ \E kd \in KDs : Dispatch(t, kd)
       \/ Complete(t)
       \/ \E p \in Presets : Override(t, p)
       \/ \E e \in Execs, p \in Presets : QueryOwner(t, e, p)
       \/ AlreadyLoaded(t) \/ BeginLoad(t)
       \/ \E k \in Keys : UnloadInstrumentedIfExists(t, k)
       \/ UnloadAll(t)
       \/ \E e \in Execs : AppDestroys(t, e)
       \/ \E known \in SUBSET KDs : Invalidate(t, known)
       \/ Critical(t)
       \/ \E outcome \in {"loaded", "destroyed"} : Underlying(t, outcome)

Spec == Init /\ [][Next]_vars

(***************************************************************************)
(* HSA calls return and threads are scheduled, so the thread that holds    *)
(* the lock goes on.  Nothing is assumed about who gets the lock next:     *)
(* llvm::sys::RWMutex is not fair.                                         *)
(***************************************************************************)
FairSpec == Spec /\ WF_vars(\E t \in Threads : Critical(t))

-----------------------------------------------------------------------------
\* The handles of v that the thread inside the critical section, or else the
\* record that caches v, still has to release.
Owed(v) ==
  LET current == IF writer = None THEN Idle ELSE job[writer]
      building == current.variant = v
      cached == \E k \in Keys : byOriginal[k] = v
      erasing == /\ current.at \in {"execGone", "readerGone"}
                 /\ byOriginal[current.key] = v
  IN {part \in {"exec", "reader"} \cup Storage(v) :
        \/ building /\ (part = "reader" => current.at # "reader")
        \/ /\ cached
           /\ part = "exec" => ~erasing
           /\ part = "reader" => ~(erasing /\ current.at = "readerGone")}

(***************************************************************************)
(* Nothing leaks and nothing is destroyed twice, on whichever error path:  *)
(* what the HSA runtime keeps alive is what records, and the load in       *)
(* progress, still own, and what the runtime itself refused to destroy.    *)
(***************************************************************************)
HandlesAccounted ==
  live = refused \cup UNION {HandlesOf(v, Owed(v)) : v \in Variants}

(***************************************************************************)
(* As long as a record's executable is loaded, the code object reader it   *)
(* was loaded from and the managed variables its code points to exist.     *)
(***************************************************************************)
RecordBacked ==
  \A k \in Keys :
    LET v == byOriginal[k]
    IN Cached(k) /\ <<"exec", v>> \in live \ refused =>
         HandlesOf(v, {"reader"} \cup Storage(v)) \subseteq live

(***************************************************************************)
(* A destroyed executable leaves no record behind that a later executable, *)
(* loaded at the same address, would be given - unless HSA could not tell  *)
(* where the executable was, which the wrapper swallows.                   *)
(***************************************************************************)
NoStaleRecord ==
  \A k \in Keys :
    Cached(k) => \/ app[madeFor[byOriginal[k]]] \in {"loaded", "dying"}
                 \/ madeFor[byOriginal[k]] \in missed

\* What the runtime keeps alive is what the records own, each record has all that
\* its executable needs, and none outlives the application's executable that it
\* was made for.
RecordsSound == HandlesAccounted /\ RecordBacked /\ NoStaleRecord

(***************************************************************************)
(* A packet redirected by overrideWithInstrumented runs an instrumented    *)
(* copy of the kernel it named, and the copy stays loaded, with everything *)
(* it needs, until the packet completes, whatever is loaded, unloaded and  *)
(* destroyed on other threads.                                             *)
(***************************************************************************)
RunningCodeIsLoaded ==
  \A t \in Threads :
    packet[t].ko # Absent =>
      LET v == packet[t].ko
      IN /\ HandlesOf(v, {"exec", "reader"} \cup Storage(v)) \subseteq live
         /\ \/ app[madeFor[v]] = "loaded" /\ packet[t].kd \in CodeOf[madeFor[v]]
            \/ madeFor[v] \in missed

(***************************************************************************)
(* Every critical section ends: no HSA call made under the lock comes back *)
(* to it through the hsa_executable_destroy wrapper.                       *)
(***************************************************************************)
LockReleased == []<>(writer = None)

(***************************************************************************)
(* "True iff this allocation took the SVM/HMM path", which a ManagedAlloc  *)
(* remembers so that the free path does not have to decide it again.  TLC  *)
(* refutes it on a system with HMM: the storage is handed to the memory    *)
(* pool, which never allocated it.                                         *)
(***************************************************************************)
ViaSvmTells ==
  \A v \in Variants : \A a \in allocs[v] : a.viaSvm <=> HmmSupported

=============================================================================
