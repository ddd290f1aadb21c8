------------------------------- MODULE MCSva -------------------------------
(***************************************************************************)
(* What the state value array (SVA) needs, one concern at a time: the      *)
(* registers that are live (Liveness, through MCAnalyses), the code of the *)
(* storage schemes (SvaStorage), the array's places along a program and    *)
(* across calls (SvaHandoff, through MCSvaHandoff), and the payloads that  *)
(* run with it (Payload, extended through MCPayload).  Variables that a    *)
(* part does not have stay "idle".                                         *)
(***************************************************************************)
EXTENDS MCPayload

CONSTANTS Prototypes, Bank, Reserved, ExceedNumRegs, Targets,
          Shown   \* the faulty uses of the storage schemes that are let in

VARIABLES
  part,                             \* "analyses", "storage", "handoff" or "payload"
  ip, errors, sweep, Changed, CallTargets, KnownCallers, DiscoveredCallTargetAddresses,
  IncompleteCallSites, succs, unresolved, ExitSeed, ActiveLiveIns, InactiveLiveIns,
  todo, AnyChange,                  \* of Liveness
  subTarget, wave, svs, phase, dest, sva,  \* of SvaStorage; phase also of Liveness
  T, loc, returns, slot, spills, covered, astray  \* of SvaHandoff

Analyses == INSTANCE MCAnalyses
PrototypesOf == INSTANCE MCAnalyses WITH Prototypes <- {}
SmallPrototypes == PrototypesOf!MCPrototypes

-----------------------------------------------------------------------------
(* One sub-target of each kind, and two storages of each scheme, made from  *)
(* disjoint registers.                                                      *)

SmallLanes == {"fp_spill", "sp_store", "fs_lo", "fs_hi"}

\* All the lanes, none of them, and a proper part that splits the array.
SmallMasks == {SmallLanes, {}, {"sp_store", "fs_lo"}}

SmallSubTargets ==
  {[mai |-> FALSE, gfx90a |-> FALSE, archfs |-> FALSE],   \* GFX900
   [mai |-> TRUE,  gfx90a |-> FALSE, archfs |-> FALSE],   \* GFX908
   [mai |-> TRUE,  gfx90a |-> TRUE,  archfs |-> FALSE],   \* GFX90A
   [mai |-> TRUE,  gfx90a |-> TRUE,  archfs |-> TRUE],    \* GFX940
   [mai |-> FALSE, gfx90a |-> FALSE, archfs |-> TRUE]}    \* GFX11

\* Named apart from the fields of a payload.
Handed == INSTANCE MCSvaHandoff WITH spilled <- spills

\* The values of Bank and of Targets come from instances that do not use them.
BankOf == INSTANCE MCSvaHandoff WITH spilled <- spills, Bank <- {}, Targets <- {}
TargetsOf == INSTANCE MCSvaHandoff WITH spilled <- spills, Targets <- {}
HandedBank == BankOf!MCBank
HandedTargets == TargetsOf!MCTargets
ASSUME Handed!BankAssumption

SmallStorages ==
  {Handed!createSVAStorage(<<"va">>, <<"aa0", "aa1">>, <<"a_hi", "a_lo", "a_sp">>, k) :
     k \in Handed!StorageKind}
  \union
  {Handed!createSVAStorage(<<"vb">>, <<"ab0", "ab1">>, <<"b_hi", "b_lo", "b_sp">>, k) :
     k \in Handed!StorageKind}

Stored == INSTANCE SvaStorage
            WITH Lanes <- SmallLanes, ExecMasks <- SmallMasks,
                 SubTargets <- SmallSubTargets, Storages <- SmallStorages, st <- subTarget
ASSUME Stored!LanesAssumption
-----------------------------------------------------------------------------
Idle == "idle"
ofAnalyses == <<ip, errors, sweep, Changed, CallTargets, KnownCallers,
                DiscoveredCallTargetAddresses, IncompleteCallSites, succs, unresolved,
                ExitSeed, ActiveLiveIns, InactiveLiveIns, todo, AnyChange>>
ofStorage == <<subTarget, wave, svs, dest, sva>>
ofHandoff == <<T, loc, returns, slot, spills, covered, astray>>
ofPayload == <<payload, lanes, copied, joined, written, loaded, seen, merged>>
IdleAnalyses == /\ ip = Idle /\ errors = Idle /\ sweep = Idle /\ Changed = Idle
                /\ CallTargets = Idle /\ KnownCallers = Idle
                /\ DiscoveredCallTargetAddresses = Idle /\ IncompleteCallSites = Idle
                /\ succs = Idle /\ unresolved = Idle /\ ExitSeed = Idle
                /\ ActiveLiveIns = Idle /\ InactiveLiveIns = Idle
                /\ todo = Idle /\ AnyChange = Idle
IdleStorage == /\ subTarget = Idle /\ wave = Idle /\ svs = Idle
               /\ dest = Idle /\ sva = Idle
IdleHandoff == /\ T = Idle /\ loc = Idle /\ returns = Idle /\ slot = Idle
               /\ spills = Idle /\ covered = Idle /\ astray = Idle
IdlePayload == /\ payload = Idle /\ lanes = Idle /\ copied = Idle /\ joined = Idle
               /\ written = Idle /\ loaded = Idle /\ seen = Idle /\ merged = Idle

\* The application's state is a variable of the last three, the registers of two.
PartsInit ==
  \/ /\ part = "analyses" /\ Analyses!Init
     /\ IdleStorage /\ IdleHandoff /\ IdlePayload /\ pc = Idle /\ regs = Idle /\ app = Idle
  \/ part = "storage" /\ Stored!Init /\ IdleAnalyses /\ IdleHandoff /\ IdlePayload
                      /\ pc = Idle /\ regs = Idle
  \/ part = "handoff" /\ Handed!Init /\ IdleAnalyses /\ IdleStorage /\ IdlePayload
                      /\ phase = Idle
  \/ part = "payload" /\ Init /\ IdleAnalyses /\ IdleStorage /\ IdleHandoff
                      /\ phase = Idle

PartsNext ==
  \/ /\ part = "analyses" /\ Analyses!Next
     /\ UNCHANGED <<part, ofStorage, ofHandoff, ofPayload, pc, regs, app>>
  \/ part = "storage" /\ Stored!Next
                      /\ UNCHANGED <<part, ofAnalyses, ofHandoff, ofPayload, pc, regs>>
  \/ part = "handoff" /\ Handed!Next
                      /\ UNCHANGED <<part, ofAnalyses, ofStorage, phase, ofPayload>>
  \/ part = "payload" /\ Next /\ UNCHANGED <<part, ofAnalyses, ofStorage, phase, ofHandoff>>

PartsSpec ==
  PartsInit /\ [][PartsNext]_<<part, ofAnalyses, ofStorage, phase, ofHandoff, ofPayload,
                              pc, regs, app>>

-----------------------------------------------------------------------------
(* The properties of the parts; each is stated in full in its own module.   *)

\* The call graph and the predicated flow are those of the machine code: no target
\* is lost or made up when callers are found late, and checks and bypasses lead
\* where the machine code leads.
GraphsOfMachineCode == part = "analyses" => Analyses!GraphsOfMachineCode

\* No register that the code still needs is missing from the live set of a block
\* the entry leads to, in lanes that are on or off, across calls and loops.
LivenessSound == part = "analyses" => Analyses!LivenessSound

\* With the whole call graph known, nothing else is live, so that payloads spill
\* what is needed and no more.
LivenessExact == part = "analyses" => Analyses!LivenessExact

\* Whatever loads, stores, switches and hand-offs come one after the other, the
\* place the array is said to be in holds every lane of it, and the scalars of
\* the scheme hold the instrumentation's stack.
SvaNeverLost ==
  part = "storage" => Stored!SvaNeverLost /\ Stored!ScalarsHoldInstrumentationStack

\* The code emitted around payloads, at boundaries and at calls leaves the
\* application its masks, registers and scratch.
AppStatePreserved == part = "storage" => Stored!AppStatePreserved

\* Whatever the storage of the array does, the application reads from each
\* register what it last wrote there.
AppReadsItsOwn == part = "handoff" => Handed!AppReadsItsOwn

\* Each instruction has one storage, and a hook's load plan fetches the array from
\* there over registers that are free.  The array sits on no value still needed,
\* except one that it went over at the entry of a callee that does not name it.
HooksFindTheArray ==
  part = "handoff" => /\ Handed!SegmentsTile
                      /\ Handed!HooksFindTheArray
                      /\ Handed!LoadsOverFreeRegisters
                      /\ Handed!ArrayOffAppValues

\* A register that is live after the patch point comes back from the payload as
\* the payload last wrote it, or else as it was.
LiveRegistersAfter == part = "payload" => AppStateAfter

\* A readReg or readSVA gives what the application, or the payload itself, last
\* put there.
PayloadReadsApp == part = "payload" => ReadsSeeApp

\* A payload that needs scratch runs on the tool's stack, never the
\* application's, and the array survives it.
ToolStateKept == part = "payload" => OnToolStack /\ SvaKept
=============================================================================
