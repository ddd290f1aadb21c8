# A TLA+ model of Luthier

Luthier instruments AMD GPU code at run time. A *tool* is a shared library that
rocprofiler-sdk loads into the application. It wraps functions of the HSA API,
sees the code objects the application loads and the packets it dispatches,
lifts a kernel from its machine code, inserts calls to the tool's device
functions (*payloads*), and launches the instrumented kernel in the place of the
original.

This directory holds TLA+ modules translated from the source, configurations
with which TLC checks them on small instances, and proofs that the TLA+ proof
system (TLAPS) checks for every instance. Paths below are relative to the root
of the repository; where only a file name is given it is the one under
`src/lib` or `include/luthier`.

## 1. Inventory

### 1.1 The run-time side: shared state, threads, callbacks

| Component | State it keeps | Operations | Interacts with |
|---|---|---|---|
| Singleton (`Common/Singleton.h`) | one atomic pointer per class, the reference count in the instance, a thread-local depth | `createInstance`, `destroyInstance`, `withInstance` | every API wrapper enters the tool through `withInstance` |
| API table traits (`Rocprofiler`) | per provider: the flag that the callback was invoked; per snapshot: a copy of the table; per installer: the saved entries, in statics | constructor (registers with rocprofiler-sdk), callback, destructor | rocprofiler-sdk calls the callbacks each time HSA starts; the wrappers they install call each other |
| Loaded code object cache (`HSATooling/LoadedCodeObjectCache`) | a hash table from loaded code object to its bytes and parsed ELF, under a mutex | wrappers of load and destroy, `getAssociatedCodeObject`, `getAssociatedObjectFile` | the HSA loader (handles are reused), the application's storage |
| Instrumented kernel loader (`HSATooling/InstrumentedKernelLoaderAndLauncher`) | a map from (kernel descriptor, preset) to a record with the executable, its reader and managed storage, under a read-write lock | `loadInstrumented`, `overrideWithInstrumented`, `unloadInstrumentedIfExists`, `unloadAll`, `invalidateOriginalExec`, lookups, wrapper of executable destroy | HSA executables and memory; packets in the application's queues |
| Packet monitor (`HSATooling/PacketMonitorTrait.h`) | none of its own | wrapper of queue creation, packet handler | the application's queues; the tool's `onPackets` |
| Tool and pipeline traits (`HSATool.h`, `InstrumentationPipelineTrait.h`, `LLVMUserTrait.h`, `HSADispatcher.h`) | the analysis managers of one run of the pipeline | `instrument`, device dispatch | everything above; the passes below |
| Memory allocation accessor (`HsaMemoryAllocationAccessor`) | host copies of device allocations | `getAllocationDescriptor` | the cache above; device memory |

### 1.2 The code generator: passes on one thread

A *prototype* is a pair of modules: the target module, which holds the lifted
kernel and its functions, and the instrumentation module, which holds the tool's
device functions and the payloads. Each module has its own analysis managers,
and the machine code itself is a cached result of one of them.

| Component | What it computes | Its difficulty |
|---|---|---|
| Mock loader (`MockAMDGPULoader`, `MockLoadAMDGPUCodeObjects`) | loaded images, external symbols, relocations, without a GPU | order of loading; what a name resolves to; errors half-way |
| Code discovery (`CodeDiscoveryPass`, `InstructionTracesAnalysis`) | functions and instruction traces reachable from the entry points; the kernel's descriptor as attributes and `SIMachineFunctionInfo`, and back | a worklist that must reach everything once; registers counted from descriptor bits |
| Prototypes, pass builder (`Prototype`, `InstrumentationPassBuilder`) | the passes and what they invalidate | machine code is an analysis result; raw pointers as keys |
| Call graph (`PrototypeCallGraph`) | who may call whom | indirect calls, recursion, payloads that rewrite a callee |
| Trace function translator (`TraceFunctionTranslator`, `TraceFunctionTranslationAnalysis`) | LLVM IR of a lifted function, repaired when the function is edited | registers under several names and widths; vector blocks; staleness |
| Predicated CFG and liveness (`IPPredicatedCFG`, `IPPredicatedLivenessPass`) | the flow between blocks over calls and checks; live registers of lanes on and off | a fixpoint over calls, with lanes switched off |
| State value array (`StateValueArrayStorage`, `StateValueArraySpecs`, `SVStorageAndLoadLocations`, `SVAPhysVGPRPinPass`) | where the tool's state lives at each instruction and how it moves | no free register at a point; switching without losing a lane |
| Injected payloads (`IntrinsicMIRLoweringPass`, `InjectedPayloadPEIPass`, `InjectedPayloadPreserveLiveRegsPass`, `ProcessIntrinsicsAtIRLevelPass`) | machine code of the payloads | whatever a payload clobbers and the kernel still needs must be restored |
| Patcher, scavenger, branch relaxation (`TargetModulePatcherPass`, `TargetModuleScavenger`, `TargetModuleBranchRelaxation`) | the instrumented kernel | prologue, calls and spills in code that is still changing; branches out of range |
| Luthier file, metadata (`LuthierFile`, `Metadata`, `RegValueMetadata`, `TargetMachineInstrMDNode`) | file formats | data |

### 1.3 Compile time and support

Tool device code parsing (`ToolDeviceCodeParser`, `ToolDeviceCodeOffloadParserPass`),
the clang and LLVM plugins (`ToolCXXCompilation`, `ToolIRCompilation`), the
intrinsics (`Intrinsic`), the HSA and HIP wrappers (`HSA`, `HIP`), object files
(`Object`), errors (`Common`), the instruction semantics (`InstSemantics`), and
the executables `luthier-llc` and `luthier-tblgen`. `PROJECT.json` gives every
component its status and, where it is left out, the reason.

### 1.4 What makes each component correct, and what is hard about it

`PROJECT.json` lists the hazards line by line, with the properties that cover
them. In short:

* **Singleton.** A callback never runs against a destroyed instance, and an
  unpublished instance is destroyed once its callbacks have returned. Hard: any
  number of threads enter, nest, create and destroy; the test of the count and
  the publication of the pointer are separate atomic accesses.
* **API tables.** A snapshot never shows a wrapper; wrappers of one function
  form a chain that ends in the runtime; no destroyed provider is called back.
* **Code object cache.** What is cached is what is loaded. Hard: handles are
  reused, storage disappears, and two wrappers and the lookups interleave.
* **Kernel loader.** A redirected packet keeps the code it runs; nothing leaks
  or is freed twice on any error path; no record outlives its kernel.
* **Loading and lifting.** A name means one thing and every relocation is bound
  to it once; every reachable instruction is lifted once, with its control flow.
* **Translation.** What the translator takes for the value of a register is what
  the instructions on every path have left in it, under every name of the
  register, and stays so when blocks are edited.
* **Analyses.** Call targets and control flow are those of the machine code;
  a register the program may still read is live.
* **State value array.** Intact at every hook, at the place every reader looks
  for it, at no cost to the application's registers, masks and scratch.
* **Patcher.** The application starts with its arguments in place, every payload
  returns to where it was called from, and every branch reaches its target.
* **Pipeline.** What a pass reads from a cache is what recomputing would give.

## 2. Modules

The runs at the right are those of section 3. Components that do not interact
share a run: a module such as `MCSva` extends one component, instantiates the
others, has a variable `part` that `Init` chooses and that says which of them the
behaviour is about, and keeps the variables of the others `"idle"`.
(`MCHsaWrappers` and `MCLifting` extend both of their components and `MCPatcher`
extends `Outlining`, so that the properties they check are the definitions the
proofs are about; the variables of the one a behaviour is not about keep their
initial values, or are `"idle"` and the property says nothing of them. `Singleton`
and `Pipeline` are run as they stand.) Its properties are the components' own, each guarded by
its part, so a behaviour of the composite is a behaviour of one component and
nothing is lost or added.

| Module | Models | Run |
|---|---|---|
| `InstanceLifetime` | the documented lifetime of a singleton, the abstract specification | `singleton` (as a property) |
| `Singleton` | `Singleton.h` | `singleton` |
| `SingletonProofs` | theorems about `Singleton` | - |
| `KernelLoader` | the kernel loader, its destroy wrapper, and the application | `kernel_loader`, `kernel_loader_svm` |
| `KernelLoaderProofs` | theorems about `KernelLoader` | - |
| `ApiTables` | snapshots, wrapper installers, and rocprofiler-sdk | `hsa_wrappers` |
| `ApiTablesProofs` | theorems about `ApiTables` | - |
| `LcoCache` | the cache, its wrappers, and the HSA loader | `hsa_wrappers`, `lco_reference` |
| `LcoCacheProofs` | theorems about `LcoCache` | - |
| `MockLoader` | the mock loader and the pass that drives it | `lifting` |
| `MockLoaderProofs` | theorems about `MockLoader` | - |
| `InstructionTraces`, `CodeDiscovery` | trace discovery of one function; the worklist over functions, which extends it | `lifting`, `code_call` |
| `CodeDiscoveryProofs` | theorems about `CodeDiscovery` and `InstructionTraces` | - |
| `KernelEntry` | the kernel descriptor, from the original to the lifted function and to the printed one | extended by the next two |
| `RegisterFile` | registers, keys and entry values of the translator | `translation` |
| `KernelPrologue` | the patcher's prologue, run on a wave | `patcher` |
| `Translator` | the translator's maps, PHIs and EXEC scaffold | `translation`, `translation_poison` |
| `Retranslation` | marks and incremental repair of the lifted IR | `translation` |
| `CallGraph`, `PredicatedCFG`, `Liveness` | the three analyses, each extending the one before | `state_value_array` |
| `SvaSchemes`, `SvaSpecs` | the storage schemes; the layout of the lanes | used by the next four |
| `SvaStorage` | the emitted loads, stores, switches and hand-offs | `state_value_array` |
| `SvaLocations`, `SvaHandoff` | the storage at each instruction; the wave that runs over it | `state_value_array` |
| `Payload` | the passes over a payload, and the payload run | `state_value_array` |
| `Outlining` | payloads behind calls, and the merge of the modules | `patcher` |
| `OutliningProofs` | theorems about `Outlining` | - |
| `BranchRelaxation` | the relaxer and the patcher's range check | `patcher` |
| `Pipeline` | passes, analysis managers and invalidation | `pipeline` |
| `PipelineProofs` | theorems about `Pipeline` | - |
| `MC*` | the instances and the composites | |

Definitions that model code are listed, with their lines, in the `map` of
`PROJECT.json`. Modules also define faulty variants of some definitions: what a
plausible bug would make of them. The `mutants` of `PROJECT.json` put each in the
place of the definition and name the property that then fails.

The code departs in places from what its comments, or the properties one would
like, say. The inputs on which it does so are in the runs. A property then names
its exceptions, each an operator of its own with a comment that says which step of
the code it comes from, as narrow as TLC lets it be: a single register, lane, value or
edge, never a whole program. Each is needed: without it TLC violates the property.
Section 4.2 lists them with the lines. Only `SvaStorage` and `Pipeline` have a
constant `Shown` instead, a set of names of inputs and of uses by a tool that are
left out unless named.

### 2.1 Singleton

State: `slot` (the published pointer), `refCount` and `life` of each instance,
and `stack`, the activations of `withInstance`, `createInstance` and
`destroyInstance` on each thread, innermost last, which is also what the
debug-only depth counter counts. `aborted` says that the process died in a fatal
error or an assertion. An action is one atomic access together with the
thread-local code around it:

| Action | Code |
|---|---|
| `Construct`, `PublishWins`, `PublishLoses`, `PublishReturns`, `CreatedTwice` | `createInstance` and `publish` |
| `Enter`, `EnterNone`, `Leave` | `withInstance`, whose load and retain are one access in the code (`std::atomic<std::shared_ptr>` or a lock around both) |
| `Unpublish`, `DestroyAsserts`, `SeeDrained`, `Reset` | `destroyInstance`; the spin loop is the guard of `SeeDrained` |
| `UserCodeReturns` | the callback given to `withInstance` ends; before that it may call anything, which is what `stack` is for |

`NDEBUG` chooses whether the assertions are compiled in. In a release build a
thread that destroys the instance it is using waits for itself; the run uses
the debug build, and the mutant of `DrainTerminates` shows what the assertion
prevents.

Fairness: weak fairness of each thread's steps inside `withInstance`'s return
path and `destroyInstance`; callbacks return. It is what the scheduler of the
operating system gives a thread that can run. Nothing forces threads to call.

### 2.2 KernelLoader

State: `byOriginal` and `allocs` (the records), `writer` (the lock), `job` (the
call each thread is in, and how far), `live` (what the HSA runtime keeps alive:
executables, readers, managed storage), `app` and `packet` (the application's
executables and packets), and three history variables used by properties:
`refused` (handles the runtime would not destroy), `missed` (executables whose
invalidation failed) and `madeFor`. Each HSA call that loadInstrumented or an
erase makes is an action that may succeed or fail; code between two such calls
under the lock is merged into them. `LoadFails` merges the roll-back of
`loadManagedVarsForRecord` with that of `loadInstrumented`, since both run
under the lock with nothing in between.

The application's obligations, which the code relies on: an executable is not
destroyed while a packet runs its kernels, and a tool unloads a variant only
when no packet uses it (`examples/InstrCount/InstrCount.hip:341-360` serialises
this with a mutex). A thread does not instrument a kernel of an executable that
is being destroyed.

Left out: the increase of `private_segment_size` in the packet (cpp:185-190),
the choice of memory pool, page rounding, the one-time query of HMM support
(`HmmSupported` is a constant), and lookups, which change nothing.

Fairness: a thread inside a critical section goes on. `LockReleased` then says
that no HSA call made under the lock comes back to the lock; the call of
`hsa_executable_destroy` under the lock is safe only because it goes through
the unwrapped table.

### 2.3 MockLoader

State: the list of loaded code objects (a refused one stays in it, as in the
code, where the emplacement precedes the check), the external symbols, the
stage of the loader, the cursor of finalization and the relocations pending in
the current code object, and `image`, what each relocation has been bound to so
far. A code object is a model value; constants say what it defines, what it
uses, whether it lists undefined names in its symbol table, and whether its
relocations keep the addend in place.

### 2.4 ApiTables

State: the live providers, the flags `registered` and `invoked`, the runtime's
table, the saved (underlying) entries and the snapshot copies, and `walk`, the
position of rocprofiler-sdk in its list of callbacks while it starts HSA. The
model takes rocprofiler-sdk as serialising registration and finalization, and
each start as beginning from a pristine table: with the table of the previous
start, `installWrapperEntry` would save the wrapper as its own underlying
function.

### 2.5 LcoCache

State: `LCOCache`, the call each thread is in, the loader's handles (`owner`,
`content`; handles are reused), whether the storage a code object was loaded
from is still `mapped`, and the executables being destroyed (`dying`) or whose
destroy failed (`survived`).

### 2.6 InstructionTraces and CodeDiscovery

`InstructionTraces` is `discoverTraces`: the worklist of trace addresses, the
traces found and the branch targets. Memory is one allocation of `Limit` words;
what a word decodes to is a constant function `code`, so a word inside a
two-word instruction has a decoding of its own, as in
`test/lit/code_discovery/overlapping-instructions.s`. `Sweep` is
`disassembleTrace`. `Successors` and `Reachable` say what the program does; they
are the reference, not code.

`CodeDiscovery` is `run()`: the sets of unvisited and visited entry points, the
functions lifted so far, and the function being worked on. The next entry point
is any unvisited one, because the code takes the first of a hash set.
`LiftFunction` is `populateMF` and the enqueueing behind it, in one step: one
thread runs it and nothing observes it half done.

| Operator | Part of `populateMF` |
|---|---|
| `Layout`, `StartsBlock`, `BlocksOf`, `FallThroughEdges` | the loop over the instructions (1343-1489). The code opens blocks as it goes; the model says where a block starts, since a split, a branch target and a terminator open one under conditions on two neighbouring instructions only |
| `CallsEndTheirBlocks`, `IsolateCalls` | the synthetic `S_ENDPGM` blocks (1494-1523) |
| `BranchesResolve`, `ResolveBranches` | the branch operands (1528-1548) |
| `AddEntryBlocks` | the jump to an entry in the middle and the preheader (1553-1593) |

Blocks are named by number rather than by place, since only edges matter after
the loop. An entry of the call graph is the constant target of a call or jump,
if it has one; how the graph evaluates it is not modelled. The build keeps
`assert()`: a function in which a call does not end its block stops the process
(`aborted`), and the other properties speak of the functions lifted before.
`FlowPreserved` joins `LiftedFlowPreserved`, which excludes
functions in which one reachable instruction starts inside another, and
`TracesPartitionReachableCode`, which does not; `DiscoveryEnds` of `MCLifting`
is `Terminates`.
Two places of the code turn out never to act: the error of the last loop of
`run()`, a direct call whose target has no function, since every such target has
been visited by then (`RewriteKeeps` in `CodeDiscoveryProofs`), and the
preheader in front of a first block that is itself the jump to the entry, which
is why `LiftedFlowPreserved` speaks of one such block. A sweep that runs off the end of the
allocation, from elsewhere than its base, reads what lies behind it
(`InstructionTracesAnalysis.cpp:108`); the model lets it fail.

Fairness: weak fairness of the whole next-state relation, since the pass is one
loop on one thread. `MCLifting` states it in two parts that are never possible
together: `OnWorklists`, the steps that work off the two worklists, and
`PastFunction`, the step past a function whose traces are complete. The latter names
what `AbortOnAssertion`, `BranchUnresolved` and `LiftFunction` make of `stage`: their
guards beyond `TracesDone` exclude one another and leave no case out, so that one of
them is possible exactly when `PastFunction` is, and TLC need not populate a
function to find out. Every step is still one of `Next`.

### 2.7 KernelEntry and KernelPrologue

`KernelEntry` follows a kernel descriptor: what the hardware loads for it
(`Loaded`, `PreloadedAt`, the reference), the attributes and the argument
information that `CodeDiscoveryPass` makes of it, and the descriptor that
`initKernelDescriptor` and the assembly printer make of those. Registers are
counted, not named.

`KernelPrologue` adds the patcher's `run()` up to and including
`emitInitialEntryKernelSetup`: what the payloads ask for (`Requested`), what is
forced on for that (`ForceOn`), the instructions of the stack set-up, of the
expansion of the kernel arguments, of each argument's store into its lane and of
the moves that put shifted arguments back. Each emitter is an operator that
returns instructions; a wave launched by the printed descriptor then runs them.
Where two values are printed for the same registers, the wave starts with neither.

The kernels of the run are all those the hardware can launch (`Possible`), with any
user and system values on and any of them asked for. `ArgInfoIsHardware` and
`DescriptorRoundTrip` say exactly what is believed and printed. `Displaced`,
`PreloadLost`, `Misread` and `Unfilled` say which value is lost, in terms of what was
forced on (`Forced`) and of the order of the registers (`InFront`); all the others
have to arrive.

### 2.8 Translator, RegisterFile, Retranslation

`Translator` has the map `VM` from keys to values per IR block, with one value
per type (*view*), the PHIs, and the three phases of `translate()`: blocks in
layout order (`RaiseRead`, `RaiseWrite`, `CloseBody`), the scaffold of checks and
bypasses around vector blocks (`Scaffold`, with what the check tests: `EntryMask`
where it has no predecessors), the completion of PHIs (`FixPhi`, which may place
more) and the folding of checks (`FoldChecks`). A value is the sequence of what its
half-words are, so overlap and concatenation are exact and the arithmetic in between
is not modelled.

The reference is `held`: what each half-word held in each block, from its entry to
the last write. A write to a key that has an entry replaces the entry under the type
it writes and leaves the views of other types, as `setRegOperandValue` does; `left`
remembers the halves for which that happened. `Readable` then says what a read may
give: the last value; where views were left, an earlier one of the same half in the
same block; and in a block all of whose predecessors are laid out behind it, poison
for the value on entry. What was written under a name is read under that name
exactly.

`RegisterFile` has what `Translator` takes for granted: the key of a register
(files, offsets, aliases before GFX10, the pairs reserved at the top of the
scalar file, the special registers), the entry values of a kernel, moves by an
index in M0 and vector moves under `S_SET_GPR_IDX`, the calls of `s_setreg` that
are folded at the end, and the arguments of a device function.  The reference is
`regs`, what the hardware holds in each double-word; a double-word is a set of
bit fields. Every name of a register is in the run. `Odd` are those that have no key
of their own (the high half of an alias, an aperture of 64 bits, M0 on GFX10), and
`KeysAreRegisters` says that each of them really clashes or has no file; `mixed` is a
history of the double-words whose value goes back to one of these, or to MODE behind
an `S_SETREG` or in a device function.

`Retranslation` has the marks (`DirtyMBBs`, `ErasedBodyBBs`, and the metadata that
carries them over a save) and the two ways to bring the IR up to date: from
scratch and block by block, chosen as `canFlushIncrementally` chooses. Edits are
those that the rules of `TraceFunctionTranslationAnalysis.h` cover, each with the
marks the rules demand, and the insertion of a PATCHPOINT, which marks nothing;
nothing in the repository calls `markDirty` or `markErased` yet, so the editor is
the documented client and the two flushes (`CodeDiscoveryPass.cpp:1802`,
`IPPredicatedCFG.cpp:101`) are the code's. `CleanIsCurrent` compares with a
translation of what was announced; an unmarked edit is not. `astray` is raised by an
incremental flush of a block that such a repair does not get right (`Repairable`
says why), by a flush that fails and by a save that loses a mark, and is lowered by
the next full translation. The three histories change nothing of what the code does.

### 2.9 CallGraph, PredicatedCFG, Liveness

`CallGraph` is `PrototypeCallGraphAnalysis`: the evaluation of a callee to
constants through casts, PHIs, additions and the arguments of known callers, the
sweeps that repeat while something changed, the payloads that are asked for the
sites left over, and the report. `PredicatedCFG` adds the graph of predicated
blocks, `Liveness` the backward fixpoint over it, with the registers assumed live
where control leaves the graph. The references are written against the machine
code alone: the values a callee may really have (`RealCallees`), the blocks that
may really follow (`Onward`, `RealSuccessors`), and the registers some path reads
before it overwrites them, lane by lane (`ReallyLive`).

### 2.10 SvaSchemes, SvaStorage, SvaSpecs, SvaLocations, SvaHandoff

`SvaSchemes` names the five schemes in their order of preference and the
registers each takes. In `SvaStorage` every emitter of
`StateValueArrayStorage.cpp` and `MIRConvenience.cpp` is an operator that returns
the instructions it emits, and a wave with EXEC, SCC, scalar and vector registers
and scratch memory runs them. `SvaSpecs` is the layout of the lanes.

`SvaLocations` is the analysis: one storage for the whole module if there is one,
else per function, where a walk over the instructions moves the array when its
register comes alive; the segments, and the load plan of each hook.
`SvaHandoff` runs a wave over the program with the switches at the boundaries of
segments and blocks and the hand-off at calls; what one of them emits is
`SvaStorage`'s subject, and here each is the transfer it makes. Calls are followed
into their callees and back, repeatedly, and programs have instructions before which
the array must move, in the kernel and in the callee. On the way back nothing is
handed over: a lifted return is no indirect branch. `astray` remembers that a callee
with a storage of its own came back having written where the caller left its copy,
and `covered` the registers that were live through a callee which put the array on
them; hooks and the application's reads are checked for everything else.

### 2.11 Payload

The three passes over a payload are operators (`Preserved`, `Restored`,
`FrameOwned`, `Routed`, `SavedLanes`, ...); the actions run the payload they
leave: the entry copies, the values the SSA updater joins at block starts, the
frame set-up, each operation and the return. Between two operations the register
allocator may overwrite any register the payload owns. Operations are reads and
writes of application registers of one or two channels, of halves of them, of the
frame registers and of scalar arguments, in any block.

What the passes do not carry out is named channel by channel: `Unsaved`, `LaneUnread`,
`LaneRestored`, `PartPreserved` and `MetLate` for what comes back to the application,
`ChannelMissed`, `LaneMissed` and `ArgumentMissed` for what a read gives, and `merged`,
a history of the channels whose write was joined with a value of another path.

### 2.12 Outlining, BranchRelaxation

`Outlining` patches a program: a block of application code, its payloads, and the
functions and variables of the two modules. `moveIModuleIntoTarget` moves globals
and functions of the instrumentation module over, or redirects references to ones
that are there already. `Scavenge` finds, for one payload at a time, a pair of
scalar registers that is dead at its patch point, by the walk back from the end of
the block, and in which the array is not kept; and a register for SCC if that is
live. Only when all are found does `Outline` put the calls in place, move each
payload and rewrite its return. `Launch` then runs the block (`Straight`, `Call`,
`Return`) next to an uninstrumented copy.

| Operator | Code |
|---|---|
| `LiveAtSite`, `SVAReserved`, `scavengeSGPRsAtSite` | the function of that name, 1087-1167 |
| `emitSICallAtPatchpoint` | what its getpc, additions and swap do to pair and SCC |
| `Defined`, `ScavClobbered`, `TrampolineSaves`, `rewritePayloadReturn` | whether the payload defines the pair, and the return that computes the address again |
| `AtReturn` | what a payload leaves behind: it restores what is live at its patch point |
| `Taken` | what a call overwrites, and a payload that reads it does not find: the walk back stops before the patch point's own operands (1117-1120), so that a register or SCC read there and dead behind it may be taken (1146, 1186-1285) |

A return goes on behind the call only if both halves of the pair have that address;
otherwise `pc` becomes 0. What a program is: each payload has one patch point
(`PatchPointsMatch`), the array is moved by instructions and not by patch points
(`KeptInPlace`: the switches of `SvaStorage` are instructions of the block), and
an object refers to its own module only (`ModulesMatch`). TLC checks that all
programs of the run are of this kind.

`BranchRelaxation` goes over the blocks in rounds; offsets are exact only between
rounds. A conditional branch is inverted, retargeted or split off, an
unconditional one becomes a long branch with a pair that is dead or spilled. The
patcher's check of all displacements ends it, with a limit of its own (`OverLimit`),
which decides for the branches that the relaxer is told to keep, and for all
of them where it gives up after `kRelaxIterLimit` rounds. `Unguarded` is what
a long branch may cost: SCC, and the array's registers around a block the locations
do not know. The array is in a VGPR. For the other schemes the relaxer carries the
pair through a VGPR that it loads and stores with `emitCodeToLoadSVA` and
`emitCodeToStoreSVA` (`TargetModuleBranchRelaxation.cpp:318-332`, `388-395`); these
split the block they emit into (`MIRConvenience.cpp:168-228`), after which the
relaxer goes on to emit into the first part at an iterator of the second, and what
comes of that the code does not define.

### 2.13 Pipeline

A state is the set of held results per manager with those that are stale, the
cached inner proxies, the passes still to run, and the machine code. One pass is
one action: it reads (`reads` remembers what, whether it was in the cache and
whether it was fresh), runs, and invalidates as it reports. `Needs` says what
each analysis asks its manager for, `Tells` which facts of the prototype a result
tells of: a pass that changes such a fact makes the result stale. The order of
the passes is that of the builder (`buildInstrumentationPipeline`), with up to
`MaxAdded` passes of the tool at each of its five callbacks (`Plans`); these come
from the examples (`examples/OpcodeHistogram`) and from the mock injection passes.
`GotAll` follows what a request needs four steps down, which is as deep as the
analyses go, and `Cleared` follows the proxies three levels down, from the
prototype to the machine functions, so that neither needs recursion and both can
be reasoned about.

### 2.14 Fairness

| Where | Fairness | Why |
|---|---|---|
| `Singleton` | weak, of each thread inside `withInstance`'s return path and `destroyInstance` | the operating system runs a thread that can run; callbacks return |
| `KernelLoader` | weak, of a thread inside a critical section | the same; HSA calls return |
| `MCLifting`, discovery | weak, of the whole next-state relation, in two parts (2.6) | one loop on one thread |

Every other run checks safety only and states no fairness.

## 3. Runs, bounds, and what they show

| Run | Instance | Shows |
|---|---|---|
| `singleton` | 3 threads, 2 instances, nesting 2, assertions on | no use after destruction, exact counts, destruction ends, refinement of the documented lifetime |
| `kernel_loader` | 2 threads, 3 executables, 2 kernel descriptors (one address shared by two executables), 1 preset, 1 managed variable, 2 variants, 1 refusal of the runtime | records, handles and running packets stay sound; no HSA call made under the lock comes back to it |
| `kernel_loader_svm` | the same with HMM | `ViaSvmTells` fails: see 4.1 |
| `hsa_wrappers` | 2 snapshots, 3 installers on 2 functions, 2 starts of HSA; 2 threads, 2 executables, 3 handles, 4 loads | chains of wrappers, no dangling provider, no stale cache entry, copies stay cached |
| `lco_reference` | the cache as above | `EntryProtected` fails: see 4.1 |
| `lifting` | 8 code objects, 3 symbols, 3 loads; 3150 programs of 4 words, 2 kernel entries | binding whatever the order; lifted flow is the program's flow; all is lifted; the pass ends |
| `code_call` | a kernel of 4 words with a call in a loop | `CallIsLastInItsBlock` fails: see 4.1 |
| `translation` | 12 shapes of control flow, 3 accesses to 4 keys; kernels of 5 sub-targets, 2 instructions; 3 functions of 3 blocks, 3 edits | values of registers under every key and on every path; keys and entry values; repaired IR is translated IR |
| `translation_poison` | the same | `PoisonOnlyAtEntry` fails: see 4.1 |
| `state_value_array` | prototypes of 3 functions and 5 blocks with 2 indirect sites; 5 sub-targets, 2 storages per scheme, 3 EXEC masks; targets of a kernel and a function, which returns or not; payloads of at most 4 blocks on 3 kinds of sub-target | real targets, closed resolution, flow of the machine code, sound and (complete graph) exact liveness; the array and the application survive storage, location and use |
| `patcher` | 4.8 thousand kernels of 5 generations; blocks with 2 payloads and 7 scalar registers; functions of 5 blocks with branches of 5 bits | arguments in place, array filled, calls undisturbing, branches in range and to where they led |
| `pipeline` | 2 functions, 2 payloads, every order of the tool's passes | reads are cached and fresh, machine code survives, nothing dangles |

Why the bounds suffice: two instances are what a retired and a new one need;
three threads let two race while a third uses; nesting 2 makes one re-entry.
Two executables at one address are what a stale record needs, two variants what
an erase that stops at the first victim needs, and one refusal puts the runtime's
failure on each of the three destroys in turn. Three loads are a user, a
definition and something between or around them. Two starts of HSA are what a
repeated installation needs. Three handles and four loads reuse a handle while
the two other objects are cached.

The programs of `lifting` take each word from an instruction set with one member
per class that the code tells apart: scalar, vector of two words, EXEC write,
branches forward and back, calls and jumps with and without a constant target,
end of program, data. Four words hold a loop with a call in it and code behind
it, a branch into the middle of an instruction, two functions that call one
another, and an entry with lower code before it.

In `translation`, three accesses are a write of a part, a write of the whole and a
read in between or behind, in each of three blocks; with two halves per scalar and
a pair on top, every relation of keys occurs (equal, part, overlap, disjoint).
Three edits are one that makes a block stale, one beside it, and a save or flush
between. Two of the shapes have a block that is only entered from behind, three a
vector block at the entry. In the prototypes the third function is reachable only through the second, so
that it is resolved in a later sweep; the blocks include a loop over a vector
block and one that ends the program. `state_value_array` has two storages of each
scheme from disjoint registers so that every switch is between different ones,
and masks that are full, empty and proper. Payload blocks form a line, a loop, a
fork and a diamond, the smallest graphs on which an SSA updater joins values and
on which a block is on one of two paths. `patcher` has functions whose branches
just reach before relaxation and do not after it, in both directions; 5 bits
instead of 16 make a block of 14 words far. 4 rounds instead of 64 are too few for
some of these functions, which take up to six, and enough for the others: the
relaxer both converges and gives up.

`MaxDepth`, `MaxVariants`, `MaxRefusals`, `MaxLoads`, `MaxStarts`, `TranslatorOps`,
`MaxOps`, `MaxEdits` and `MaxAdded` are bounds: they appear in guards, or in what
`Init` chooses from, and have no counterpart in the code. `pipeline` has
`MaxAdded = 1`; the theorems about `Pipeline` hold for any number. `BranchBits` and `kRelaxIterLimit` do have one (16 and
64); the run scales both down.

Deadlock is checked except in `lifting`, `code_call`, the two of `translation` and `pipeline`,
whose passes end: where another system comes to its end an explicit step
stutters.

## 4. Findings

### 4.1 What a run with `violation` shows

* `ManagedAlloc{*VAOrErr, RoundedSize, /*ViaSvm=*/true}`
  (`InstrumentedKernelLoaderAndLauncher.cpp:323`) sets `Size`, not `ViaSvm`:
  storage reserved through SVM is freed through the memory pool.
* A lookup of the cache uses a reference into a hash table after releasing its
  mutex (`LoadedCodeObjectCache.cpp:56`, `:65`, `:113`).
* A call in a loop trips `populateMF`'s assertion that a call ends its block
  (`CodeDiscoveryPass.cpp:1500-1501`): the address behind the call is an entry
  point, and an entry starts no block when the trace before it ends in a call.
  For the same reason the jump synthesised for an entry in the middle goes to
  the start of the block that holds the entry, which may be earlier code
  (`:1568-1570`).

* The body of a loop that is laid out before its test takes itself for the entry
  block and makes up what it reads as poison (`TraceFunctionTranslator.cpp:669-685`,
  `:745-748`): its only predecessor has no IR terminator yet (`:2478-2479`).

### 4.2 Where the code departs from what it says

What the exceptions of the properties are about. Each is in the run, unless it says
otherwise; the property of the second column fails without the exception, or, where
an invariant is named that no run checks, is violated by the run's own behaviours.

| Run, exception | Property | What goes wrong |
|---|---|---|
| `state_value_array`, `EverythingKnown` | `LivenessSound` | a site with a target for one caller and none for another is not reported as incomplete (`PrototypeCallGraph.cpp:553-556` against `:566` and the header, 127-131; `CompleteUnlessReported` is violated); payload writes are not filtered by the register of the callee (584-586 against 700-735) |
| `translation`, `left` in `Readable` | `MapSound`, `PhisSound` | a write of exactly the key leaves the values recorded for other types (`TraceFunctionTranslator.cpp:1992-1993`, `:456-459`), against `TraceFunctionTranslator.h:178-189` |
| `translation`, `EnteredFromBehind` | `MapSound`, `PhisSound` | poison in a block that is not the entry: see 4.1 |
| `translation`, `MaskNotFound` | `FoldSound`; `Maps!EntryCheckTestsEntryMask` | the check of an entry block looks for EXEC by exact key and type and takes all ones where it finds none (`:2647-2668`): in a device function with a 64-bit mask, whose arguments are recorded by double-words. A mask read later in the same check is poison |
| `translation`, `Odd`, `mixed` | `RaisedRegisters`; `AliasesShareSlots` | before GFX10 the high half of VCC, XNACK_MASK and FLAT_SCR gets the key of the low half (`:1374-1393`, whose comment says the slots are shared); a 64-bit aperture shares the key of its low half; on GFX10 M0 (124) lies just below NULL (125), where the EXEC file starts, so it is in no file; user values that reach VCC are seeded twice; MODE is not handed to device functions, and `s_setreg` is folded after the PHIs are complete (`:670`) |
| `translation`, "rounding to the nearest" | `RaisedRegisters` | rounding bits are missing from the entry value of MODE |
| `translation`, `announced` | `CleanIsCurrent` | `createInjectedPayload` inserts PATCHPOINTs and marks nothing (`Prototype.cpp:53-104` against `TraceFunctionTranslationAnalysis.h:60-66`) |
| `translation`, `astray`, `moved` | `CleanIsCurrent`; `Edits!FlushedIsCurrent` | `canFlushIncrementally` (109-125) looks at edges only: a new write, a change of the EXEC mask or of being a vector block, or a check behind the block makes clean blocks stale (`TraceFunctionTranslator.cpp:1885-1890`, `:2282-2286`), against the promise of `flush` (`TraceFunctionTranslationAnalysis.h:49-51`); a failed flush has cleared the marks; a save loses the mark of an emptied block |
| `state_value_array`, `"unset_bases"` (left out) | `SvaNeverLost`, `AppStatePreserved` | schemes that keep the instrumentation's stack in scalars are entered without these being set (`StateValueArrayStorage.cpp:199-217`, `:367-414`, `:797-858`, `TargetModulePatcherPass.cpp:2244-2259`) |
| `state_value_array`, `"app_scratch"`, `"temporary"`, `"unreachable_pair"` (left out) | `AppStatePreserved`, `SvaNeverLost` | a VGPR storage has no base of its own to address scratch with; a hand-off borrows a register in use; a pair of schemes falls into `llvm_unreachable` |
| `state_value_array`, `astray` of `SvaHandoff` | `HooksFindTheArray` | a lifted return is no indirect branch, so nothing is handed back behind a call (`TargetModulePatcherPass.cpp:1022` on); a callee that uses the registers of the caller's storage leaves it astray |
| `state_value_array`, `covered` | `AppReadsItsOwn`, `HooksFindTheArray`; `Handed!RelocatedOffLive` | a function's storage is chosen by what it and its instructions name: a register that is live through it from the caller is taken, against `SVStorageAndLoadLocations.cpp:129-131` |
| `state_value_array`, `Unsaved`, `LaneUnread`, `LaneRestored`, `PartPreserved`, `MetLate`, `merged` | `LiveRegistersAfter` | a register the prologue loads for the tool and does not save; a write through a lane no epilogue reads, or past one it reads; a part written of a register that is restored whole; a channel that the walk over the blocks meets behind the return block |
| `state_value_array`, `ChannelMissed`, `LaneMissed`, `ArgumentMissed` | `PayloadReadsApp`; `ReadsSeeLastWrite` | a read after a write in one block sees the value at the block's start (`IntrinsicMIRLoweringPass.cpp:425-432`, against 435-438); the lane of a frame register is loaded once, at the end of the entry block; a frame register read as part of a wider one goes past its lane; the lanes of arguments are counted from the frame lanes the payload names, against 754-757 and 804-806 |
| `patcher`, `flat_scratch` in `ArgInfoIsHardware` | `LiftedAsLoaded` | the flat scratch registers are looked for under the inverted condition (`CodeDiscoveryPass.cpp:690-697`, and the buffer at `:664`, against the comments at 598-602 and 612-622); what is behind them is believed two registers too low |
| `patcher`, `Displaced`, `PreloadLost` | `ArgumentsInPlace` | the comment at `TargetModulePatcherPass.cpp:1809-1817` has each force-enable shift the arguments behind it; the code records the forced value behind all others and moves none, while the printed descriptor has the hardware load the values in the order of their classes, the system values behind all user values: what is loaded elsewhere for that reason is not moved back. The segment buffer is printed by sub-target, not by what the kernel has |
| `patcher`, `Misread`, `Unfilled` | `ArrayIsFilled` | flags of forced system values are not set (573-588); a forced value is read where it is loaded only if no other is forced on and none is loaded behind it; lanes are computed with the wave byte offset or FLAT_SCRATCH_INIT where these are misread or not known; an array spilled to scratch that no instruction sets up is lost |
| `patcher`, `Taken` | `OutliningSound` | see 2.12 |
| `patcher`, `Regular` (left out) | `OutliningSound` | a payload that uses the storage registers itself; a helper's clobbers of the pair, which are no definitions (1389-1411); the array's storage as the place where SCC is kept on the return (1462-1487); references through a redirected declaration; TLC violates the property when a conjunct is dropped |
| `patcher`, `keep` and `rounds = kRelaxIterLimit` | `BranchesReach` | where the relaxer leaves a branch alone, or "bails safely" (`TargetModuleBranchRelaxation.cpp:930-933`), the patcher's check alone decides: its limit of `1 << 18` bytes less four (`TargetModulePatcherPass.cpp:2548`) is twice the range that the comment above (2520-2521) and the instruction have |
| `patcher`, `Unguarded` | `EdgesKept` | SCC live over a long branch is not saved, against the comment at `TargetModuleBranchRelaxation.cpp:279-286`; a block that was split off is in no segment, so nothing of the array is reserved in it (217-225) |
| `pipeline`, `"asked_early"`, `"forgot"`, `"late_inline"` (left out) | `ReadsAreFresh`, and `CachedReadsHit` for the first | a tool that asks for an analysis before the payloads exist and keeps it, reports nothing abandoned, or has payloads inlined after their analysis |
| `pipeline`, `"carries_on"` (left out) | `MachineCodeSurvives`, `CachedReadsHit` | discovery fails late and returns `none()` without the proxies; the diagnostic handler of `luthier-llc` does not stop |

### 4.3 Read off the source

These need no run:

* `docs/MockLoader.md:40-43` says circularly dependent code objects can be
  loaded; the check at `MockAMDGPULoader.cpp:81-93` refuses the second.
* External symbols do not resolve a symbol that a code object lists as
  undefined (`MockAMDGPULoader.cpp:200-214`), against `MockAMDGPULoader.h:108-110`.
* Destroying a snapshot after the table was provided is fatal
  (`ApiTableRegistrationCallbackProvider.h:262`), against
  `HsaApiTableSnapshot.h:42-45`.
* `PrototypeCallGraph.h` says direct calls are not in `CallTargets`;
  `PrototypeCallGraph.cpp:446` adds them.
* `IPPredicatedLivenessPass.h:59-60` and `:66-67` describe a traversal order for
  incomplete prototypes that `IPPredicatedLivenessPass.cpp:220-225` does not take.
* `InstrumentationPassBuilder.cpp:631-633`: "every Prototype pass above reports
  PreservedAnalyses::none(), which drops any Prototype-level result computed before
  it". Results that answer with `preservedWhenStateless()`
  (`IPPredicatedLivenessPass.cpp:137` and four others) survive `none()` and go only
  when a pass abandons them.
* `InstrumentationPipelineTrait.h:204-214` declares the function manager before
  the machine function manager, so it is destroyed after it; safe only because
  the prototype's manager is destroyed first.
* The `amdgpu.kd.*` fields captured from the descriptor are never restored (the
  TODO at `TargetModulePatcherPass.cpp:2581`).


## 5. Proofs

Eight components are proved, each in a module of its own: five of the run-time side
and of loading, whose instances in the tool are unbounded (threads, code objects,
kernels, providers) and whose interleavings are what a small instance might miss;
the pipeline, to which a tool adds any number of passes; code discovery, whose
input is any program at all; and outlining, whose input is any block with any
payloads. What each theorem
states is the definition its run checks; each rests on an inductive invariant
`IInv`, with `Init => IInv` and `IInv /\ [Next]_vars => IInv'` proved action by
action. The theorems are about `Spec`; a specification with fairness implies it.

**`SingletonProofs`**, for any finite number of threads and instances and any
depth, with or without assertions: all safety properties of the run `singleton`
and the refinement. (`SingletonTypeOK`, `RetiredHasOneDrainer` and
`OnlyTheDestroyerDestroys` are proved but not in the run.) The assumptions are
those of `Singleton`: threads and instances are finite sets, `None` is neither.
`RefCountExact` alone is not inductive, because a constructor might publish an
object that somebody holds, and `NoUseAfterDestroy` needs that between the last
test of the spin loop and the reset nobody enters. The invariant `IInv` therefore
adds `ConstructingOnce` (each unpublished object has exactly one constructor) and
`DrainedIsAlone` (after the test the count is one). Reference counts are
cardinalities of sets of stack positions; the lemmas say how a push, a pop or a
change of the top of one stack changes these sets, and each action then has one
step per conjunct. The refinement maps `life` and `slot` to the abstract phase and
the `withInstance` activations to the abstract users.

**`LcoCacheProofs`**, for any threads, executables, handles and number of loads:
`NoStaleEntry` and `LoadedThenCached`, from `LcoCacheAssumption`. A thread between
copying a code object and inserting the copy would break `NoStaleEntry` if the
runtime reused the handle in between. `Using` says that it does not - the
object is loaded, not being destroyed, and the copy is its content - and
`Destroying` with `DestroyedOnce` that an executable is taken apart by one thread,
which has dropped its entries before the runtime lets go of the handles;
`OwnedIsLoaded` ties handles to what is loaded. `LoadedThenCached` is an action
property: each step is shown to keep `Copied` as long as `Lasts` holds after it.

**`ApiTablesProofs`**, for any providers, entries, sets of wrapped entries and
number of starts of HSA: `TablesChained` and `NoDanglingCallback`, from the four
assumptions of `ApiTables`. `WrappersChained` says what is installed so far, while
rocprofiler-sdk is anywhere in its walk over the list, and is inductive once
`OnePlace` is known (no provider is in the list twice, so the one whose turn it is
stands behind all that were installed). A snapshot copies a table without
wrappers because of `SnapshotsFirst` (every snapshot stands before every
installer: rocprofiler-sdk was told of the snapshots first) and keeps it by
`CapturedPristine`. `RegisteredLive` (while nothing has gone wrong all that is
registered exists) needs `StartsLater` (no walk is in progress unless the tool is
running, and none before its list is complete).

**`KernelLoaderProofs`**, for any threads, executables (whose code may share
addresses when they are not in memory at once), kernels, presets and managed
variables: `RecordsSound` and `RunningCodeIsLoaded`, from the assumptions of
`KernelLoader`. `RecordsSound` says that the runtime keeps alive exactly what the
records own and what it has refused to destroy, at every point of a load or an
erase, after any failure. For that the invariant follows each critical section:
`Locked` (the mutex is held by the one thread inside), `Owning` (what
the runtime keeps alive of a variant is owed by the call at work on it or by its
record, or was refused, and never both), `Unmade` (a variant that does not exist yet has left no trace) and
`CacheOK` (no two keys share a variant). `RunningCodeIsLoaded` needs `Apart`,
`InFlight` and `Redirected`: executables in memory are disjoint, and a packet in
flight keeps its own loaded, so that the keys an invalidation collects are never
those of a packet. `NoStaleRecord` needs that a destroy reaches the runtime
(`Unloading`) only when nothing is cached for its executable, unless the
invalidation failed (`missed`).

**`MockLoaderProofs`**, for any code objects, symbols and order of loading:
`BoundToDefinition`. `KnownOnce` is what makes the binding of a name well defined:
a code object that knows a name which is known already is refused, so that the
definition finalization finds, walking the code objects in order, is the only one.
`AppliedIsBound` says that a relocation once applied has what it should have,
across both walks over the code objects and whatever is still pending (`AtWork`).

**`PipelineProofs`**, for any functions, payloads, and passes of a tool, and for
every set of irregularities except those a theorem excludes:

| Theorem | Excluded |
|---|---|
| `NothingEverDangles` | nothing |
| `LiftedCodeSurvives` | `"carries_on"` |
| `ReadsStayFresh` | `"asked_early"`, `"forgot"`, `"late_inline"` |
| `MachinePassesFindResults` | `"carries_on"`, `"asked_early"` |

So the theorems also say which irregularity is to blame for what: `pipeline` is run
with none, and TLC violates each property as soon as one that is excluded here is
let in (4.2). What results may be cached depends on which passes are still to
come. `Schedule` therefore keeps the order: each pass has its place or places in
the plan (`PlacesOf`), and `PlansArePlanned` shows, by joining the stretches that
`buildInstrumentationPipeline` concatenates, that every plan is in order. From it
follow `Early` (while code is still lifted or payloads created, the locations,
liveness and the predicated CFG have not been asked for; while reads of the array
may still be rewritten, the specs have not), `Fresh` (nothing is stale before the
patcher) and `Hit` (the pass before the machine passes has computed what they
read, and the points of the locations are still cached). `Hung` says that a proxy
is cached only under a manager that a proxy leads to. It is what makes `Cleared`
reach every manager: `Buried` (nothing is linked once the prototype's manager is
gone) gives `NoDeadManagerCleared`, and a failed discovery leaves no proxy behind.
Each pass is first shown to be a `PassStep`, which says what it may do to each of
these, and `PassStepKeeps` does the rest.

**`CodeDiscoveryProofs`**, for any program in an allocation of any size, any set
of kernel entries and any order in which the hash set gives the entry points:
`TracesPartitionReachableCode`, `LiftedFlowPreserved`, `FlowPreserved` and
`EverythingLifted`, from the three assumptions of the two modules (the allocation
is not empty, a program gives each word a decoding, a kernel begins in it). The
invariant `DiscoveryInv` has two levels. `TracesSoFar` says of the traces of one
function, while some are still to be found, that what a traced instruction leads
to is traced or waits, that nothing unreachable is in either set, and that each
trace is a run of instructions without a gap that only its last one ends
(`TraceIsRun`); without the last part the two tests for overlap would not keep the
traces disjoint. `VisitedSoFar` and `OnlyReachableKnown` say the same of the
worklist of entry points; `FailsForAReason` keeps the reason of a failure, which is
some reachable address that does not decode.

| Part of the proof | Lemmas |
|---|---|
| a recursive function satisfies its own equation; `Limit` rounds reach everything, because a round that adds something takes one of `Limit` addresses | `PrimitiveRecursion`, `DownwardRecursion`, `Saturates` |
| `Reachable` and `Closure` are the least sets closed under what the program does | `ReachableLeast`, `ReachableClosed`, `ClosureLeast`, `ClosureClosed` |
| what one sweep covers, and where it stops | `SweepHolds`, `SweepStays`, `SweepAdds` |
| the layout lists the traced instructions once each, trace after trace, and blocks cut it | `ListedByRank`, `LayoutLists`, `BlocksCut`, `BlocksAre` |
| each step of `populateMF` keeps every instruction in one block, in its place | `Formed` and the lemmas `...Formed` |
| control flow: to the next instruction, and along a branch | `NextFlows`, `BranchFlows`, `AddEntryBlocksFormed` |
| the actions | `PickKeeps` to `StutterKeeps` |

`LiftedFlowPreserved` is proved with its guard: where instructions overlap, a
fall-through need not be next in the layout, and the lemma `FallThroughIsNext`
is where that is used.

**`OutliningProofs`**, for any set of scalar registers, any block, any number of
payloads and any functions and variables: `OutliningSound` and its three parts,
which say that payloads return to where they were called from, that nobody reads a
register the calls have disturbed, and that the target module is complete. The
assumptions are `SGPRsAssumption` (registers are numbers), `ProgramsAssumption`
(`Programs` holds programs, see 2.12) and `AllRegular`, a hypothesis of each
theorem; all programs of the run satisfy it. It says of each program that no payload
uses the registers of the array itself, that a payload whose helpers clobber the pair
also defines it, that SCC is not kept on the return in the array's registers, and
that the machine code of payloads refers to no redirected declaration. A register or
SCC that a payload reads and that is dead behind its patch point is not excluded:
`AppUndisturbed` has every instruction find what it reads, and every payload too, but
for what the payload's own call took (`Taken`).

`AppUndisturbed` alone is not inductive: a register that nobody reads at the next
instruction may differ from the application's, and be read later. The invariant
`NeededAgrees` says that the two register files agree on `Needed(prog, pc)`: what
the walk back over the block has as live there, and where the array is kept from
there on until an instruction moves it (`Kept`). `NeededIs` shows
that this set does to each instruction what liveness must (needed behind and not
defined, or used, or storage: needed before), by a recursion over the block that is
unfolded once (`WalkIs`). Inside a payload the agreement shrinks to what the walk
has at its patch point and what the payload and the array use, and the pair holds
the address behind the call. `CallIs` and `ReturnIs` say what the emitted code does
to the register file for a free pair: the first touches only pair, save and SCC, and
gives SCC back if it is live; the second touches only what is dead there, and ends
with the address in both halves whatever the payload did to them.

Which pair that is comes from the patcher's phases: `RegistersFound` (what was
scavenged for a payload suits its patch point, which is still true when the calls
are put in place, because nothing of the block is changed until all are found),
`OutlinedInOrder` (a payload that runs was moved and its return could be
rewritten) and `ModulesMerged` (what each object refers to, where it and its
machine code are, in every phase).

The proof shaped the model in three places. A payload's writes to the
application count as definitions of the pair (1389-1411 scans the lowered payload,
`Defined`). A return needs both halves of the address. And a payload may read a
register or SCC that its own call has overwritten: the proof of `CallKeeps` has no
reason for these to agree, TLC gives the behaviour, and `Taken` says when.

What is outside the repository enters only through the actions that model it:
rocprofiler-sdk serialises its walk with finalization; the HSA loader reuses a
handle only when it has destroyed the code object, and loads no executable over
another; LLVM's analysis managers compute, invalidate and clear as in
`Pipeline`.

Only model-checked: the properties of all other modules; the liveness properties
`DrainTerminates`, `LockReleased` and `DiscoveryEnds`, which rest on fairness and
are outside what TLAPS proves; and what the RECURSIVE operators of the modules
that have one compute, which tlapm cannot reason about. Induction over data is
in reach only where it can be put as a statement about a set: the installed
provers cannot instantiate a theorem with an operator parameter, so
`CodeDiscoveryProofs` and `OutliningProofs` derive what they need of recursive
functions from the well-foundedness of the natural numbers. Folds are operators defined by
recursion with such a parameter; what they compute (the emitters of
`SvaStorage`, the fixpoints of the analyses) stays with TLC. No
module that a theorem is stated about declares a RECURSIVE operator.

## 6. Not modelled

| What | Why |
|---|---|
| `PacketMonitorTrait`, `HSATool`, `HSADispatcher`, `LLVMUserTrait` | three fatal-checked calls and forwarding; what they guard is the singleton's and the kernel loader's state |
| `HsaMemoryAllocationAccessor` | one cache that is only added to; a copy outlives its allocation unless, as in `InstrumentationPipelineTrait.h`, the accessor lives for one run of the pipeline |
| `LuthierFile`, `Metadata`, `RegValueMetadata`, `TargetMachineInstrMDNode` | file and metadata formats: data without control. What they carry over a save is part of `Retranslation` and `Pipeline` |
| Tool device code parsing, the clang and LLVM plugins | single transformations at compile time over IR that the model keeps abstract |
| Intrinsics (`Intrinsic/*`), `InstSemantics` | the effect of each instruction; `Payload` has what the lowering does with reads, writes and lanes, `Translator` the reads and writes of registers without the arithmetic |
| `HSA/*`, `HIP/*`, `Object/*` | wrappers of C functions and accessors of ELF |
| `Common/*` except `Singleton.h`, debugging support | error values and logging |
| `luthier-llc`, `luthier-tblgen` | drivers; the diagnostic handler of the first is the irregular input `"carries_on"` of `Pipeline` |

Parts left out of modelled components, as in the notes of `PROJECT.json`: the
increase of `private_segment_size` in a packet (`KernelLoader`); the order of the
functions in the lifted module and the debugging information (`CodeDiscovery`);
GFX8 and per-operand enables of indexed vector moves (`RegisterFile`); the
erasure of values that are still referred to (`Retranslation`); kernels whose
payloads are placed in device functions (`KernelPrologue`, whose code ignores
them, `TargetModulePatcherPass.cpp:1695`); storages that occupy `v1` or `v2`
while the work-item id is there.

## 7. Where the development stands

Done: the run-time side (`Singleton`, `ApiTables`, `LcoCache`, `KernelLoader`) and
`MockLoader`, all with proofs, lifting (`InstructionTraces` and `CodeDiscovery`
with proofs, `KernelEntry`), translation (`Translator`, `RegisterFile`, `Retranslation`), the
analyses (`CallGraph`, `PredicatedCFG`, `Liveness`), the state value array
(`SvaSchemes`, `SvaStorage`, `SvaSpecs`, `SvaLocations`, `SvaHandoff`,
`Payload`), the patcher (`KernelPrologue`, `Outlining` with proofs, `BranchRelaxation`) and
the pipeline that joins them (`Pipeline`, with proofs).

Next, in this order:

1. Proofs about the other passes over code that follow discovery: that the hand-off
   keeps the array (`SvaHandoff`), and that live sets cover every later read
   (`Liveness`), for any function.
2. `HsaMemoryAllocationAccessor` and the packet monitor, as one module with the
   wrappers that would have to tell it of a free.
3. Payloads in device functions, when the patcher handles them.
