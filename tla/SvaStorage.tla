----------------------------- MODULE SvaStorage -----------------------------
(***************************************************************************)
(* The code Luthier emits to keep the state value array alive in a wave of *)
(* the instrumented application: the load of the array before an injected  *)
(* payload and the store after it, the switch from one storage scheme to   *)
(* another, and the hand-off of the array across a call.                   *)
(*                                                                         *)
(* Every emitter of StateValueArrayStorage.cpp is an operator that returns *)
(* the sequence of instructions it emits; the wave is a machine that runs  *)
(* such a sequence.  The machine has EXEC as a set of lanes, SCC, scalar   *)
(* and vector registers (one bank for VGPRs and AGPRs) and scratch memory  *)
(* addressed by the flat scratch base, a stack pointer, a slot and a lane. *)
(* Contents are symbolic: they only have to be told apart.                 *)
(***************************************************************************)
EXTENDS SvaSchemes, SequencesExt

CONSTANTS Lanes,        \* the lanes of the wave; lane names below are among them
          ExecMasks,    \* the values of EXEC the application may set
          SubTargets,   \* the sub-targets explored
          Storages,     \* the storages the wave may use
          Shown         \* the faulty uses of the schemes the instance includes

\* Lanes of the array with a role of their own, in the wave as in the array.
FramePointerRegSpillLane == "fp_spill"
StackPointerStoreLane    == "sp_store"
FlatScratchLoLane        == "fs_lo"
FlatScratchHiLane        == "fs_hi"

\* What the constants must satisfy.
LanesAssumption ==
  /\ {FramePointerRegSpillLane, StackPointerStoreLane,
      FlatScratchLoLane, FlatScratchHiLane} \subseteq Lanes
  /\ ExecMasks \subseteq SUBSET Lanes
  /\ SubTargets \subseteq SubTarget

\* Registers the application owns; storages use other ones.
AppSgprs == {"flat_scr_lo", "flat_scr_hi", "s0"}
AppVecs  == {"v0", "v1"}
Sgprs    == AppSgprs \union {"a_hi", "a_lo", "a_sp", "b_hi", "b_lo", "b_sp"}
Vecs     == AppVecs \union {"v3", "va", "vb", "aa0", "aa1", "ab0", "ab1"}

VARIABLES st,     \* the sub-target
          wave,   \* the machine
          svs,    \* the storage that holds the array
          phase,  \* "entry" (array built in v3), "app", "payload" (array loaded)
                  \* or "courier" (array in v0)
          dest,   \* the VGPR the array is loaded into during a payload
          app,    \* what the application's own state must be
          sva     \* what the array must hold

vars == <<st, wave, svs, phase, dest, app, sva>>

-----------------------------------------------------------------------------
(* Instructions.                                                           *)

emitMoveFromVGPRToVGPR(src, dst) == [op |-> "mov", src |-> src, dst |-> dst]
emitMoveFromVGPRToAGPR(src, dst) == [op |-> "mov", src |-> src, dst |-> dst]
emitMoveFromAGPRToVGPR(src, dst) == [op |-> "mov", src |-> src, dst |-> dst]
MoveAGPRToAGPR(src, dst)         == [op |-> "mov", src |-> src, dst |-> dst]
emitMoveFromSGPRToSGPR(src, dst) == [op |-> "smov", src |-> src, dst |-> dst]
emitMoveFromSGPRToVGPRLane(src, dst, lane) ==
  [op |-> "writelane", src |-> src, dst |-> dst, lane |-> lane]
emitMoveFromVGPRLaneToSGPR(src, dst, lane) ==
  [op |-> "readlane", src |-> src, dst |-> dst, lane |-> lane]
\* Three exclusive ors: an exchange that clobbers SCC, nothing for a self-swap.
emitSGPRSwap(a, b) == [op |-> "swap", src |-> a, dst |-> b]
emitExecMaskFlip   == [op |-> "flip"]
emitStoreToEmergencyVGPRScratchSpillLocation(sp, src) ==
  [op |-> "store", base |-> sp, slot |-> 8, src |-> src]
emitLoadFromEmergencyVGPRScratchSpillLocation(sp, dst) ==
  [op |-> "load", base |-> sp, slot |-> 8, dst |-> dst]
emitStoreToEmergencySVSScratchSpillLocation(sp, src) ==
  [op |-> "store", base |-> sp, slot |-> 4, src |-> src]
emitLoadFromEmergencySVSScratchSpillLocation(sp, dst) ==
  [op |-> "load", base |-> sp, slot |-> 4, dst |-> dst]

\* As createSCCSafeSequenceOfMIs, were the exclusive ors thought not to write SCC.
createSCCSafeSequenceOfMIs_straight(code) == code

\* The code is emitted twice, under a branch on SCC; each copy ends with a
\* comparison that sets SCC to the value it had on that branch.
createSCCSafeSequenceOfMIs(code) ==
  <<[op |-> "scc_branch"]>> \o code \o <<[op |-> "scc_join"]>>

\* As OnAllLanes, were the lanes EXEC masks off forgotten.
OnAllLanes_active(code) == code

\* The idiom of every emitter: on the active lanes, then on the inactive ones.
OnAllLanes(code) == code \o <<emitExecMaskFlip>> \o code \o <<emitExecMaskFlip>>

\* FLAT_SCR is exchanged with the shadow copies of the storage around code.
OnInstrumentationStack(s, code) ==
  <<emitSGPRSwap("flat_scr_hi", s.hi), emitSGPRSwap("flat_scr_lo", s.lo)>>
    \o code
    \o <<emitSGPRSwap(s.hi, "flat_scr_hi"), emitSGPRSwap(s.lo, "flat_scr_lo")>>

-----------------------------------------------------------------------------
(* The machine.                                                            *)

Address(w, base, slot, lane) ==
  IF st.archfs THEN <<"architected", w.sgpr[base], slot, lane>>
  ELSE <<w.sgpr["flat_scr_hi"], w.sgpr["flat_scr_lo"], w.sgpr[base], slot, lane>>

\* Scratch memory nobody wrote holds something of the application's.
Contents(w, address) ==
  IF address \in DOMAIN w.mem THEN w.mem[address] ELSE <<"memory", address>>

Moved(w, i) ==
  [w EXCEPT !.vec[i.dst] =
     [l \in Lanes |-> IF l \in w.exec THEN w.vec[i.src][l] ELSE @[l]]]

Swapped(w, i) ==
  IF i.src = i.dst THEN w
  ELSE [w EXCEPT !.sgpr[i.src] = w.sgpr[i.dst], !.sgpr[i.dst] = w.sgpr[i.src],
                 !.scc = "clobbered"]

Stored(w, i) ==
  [w EXCEPT !.mem =
     [a \in {Address(w, i.base, i.slot, l) : l \in w.exec} |->
        w.vec[i.src][a[Len(a)]]] @@ @]

Loaded(w, i) ==
  [w EXCEPT !.vec[i.dst] =
     [l \in Lanes |-> IF l \in w.exec
                      THEN Contents(w, Address(w, i.base, i.slot, l)) ELSE @[l]]]

Execute(w, i) ==
  CASE i.op = "mov"        -> Moved(w, i)
    [] i.op = "smov"       -> [w EXCEPT !.sgpr[i.dst] = w.sgpr[i.src]]
    [] i.op = "writelane"  -> [w EXCEPT !.vec[i.dst][i.lane] = w.sgpr[i.src]]
    [] i.op = "readlane"   -> [w EXCEPT !.sgpr[i.dst] = w.vec[i.src][i.lane]]
    [] i.op = "swap"       -> Swapped(w, i)
    [] i.op = "flip"       -> [w EXCEPT !.exec = Lanes \ @, !.scc = "clobbered"]
    [] i.op = "store"      -> Stored(w, i)
    [] i.op = "load"       -> Loaded(w, i)
    [] i.op = "scc_branch" -> [w EXCEPT !.path = w.scc]
    [] i.op = "scc_join"   -> [w EXCEPT !.scc = w.path, !.path = "none"]
    [] i.op = "unreachable" -> w

Run(w, code) == FoldLeft(Execute, w, code)

-----------------------------------------------------------------------------
(* Reads of the array's lanes that give a scheme its scalar registers.     *)

loadStackPointerFromSVALanes(v, sp) ==
  <<emitMoveFromVGPRLaneToSGPR(v, sp, StackPointerStoreLane)>>

loadFlatScratchFromSVALanes(v, lo, hi) ==
  <<emitMoveFromVGPRLaneToSGPR(v, lo, FlatScratchLoLane),
    emitMoveFromVGPRLaneToSGPR(v, hi, FlatScratchHiLane)>>

-----------------------------------------------------------------------------
(* The switches: one emitter for each pair of schemes that has one.        *)

SwitchVgprToVgpr(s, t) ==
  createSCCSafeSequenceOfMIs(OnAllLanes(<<emitMoveFromVGPRToVGPR(s.vgpr, t.vgpr)>>))

SwitchVgprToTwoAgprs(s, t) ==
  createSCCSafeSequenceOfMIs(OnAllLanes(<<emitMoveFromVGPRToAGPR(s.vgpr, t.agpr)>>))

\* The scalar registers of the target are not written.
SwitchVgprToOneAgpr(s, t) ==
  createSCCSafeSequenceOfMIs(OnAllLanes(<<emitMoveFromVGPRToAGPR(s.vgpr, t.agpr)>>))

SwitchVgprToSpilled3(s, t) ==
  loadFlatScratchFromSVALanes(s.vgpr, t.lo, t.hi)
    \o loadStackPointerFromSVALanes(s.vgpr, t.sp)
    \o createSCCSafeSequenceOfMIs(OnInstrumentationStack(t, OnAllLanes(
         <<emitStoreToEmergencySVSScratchSpillLocation(t.sp, s.vgpr)>>)))

SwitchVgprToSpilled1(s, t) ==
  <<emitMoveFromVGPRLaneToSGPR(s.vgpr, t.sp, StackPointerStoreLane)>>
    \o createSCCSafeSequenceOfMIs(OnAllLanes(
         <<emitStoreToEmergencySVSScratchSpillLocation(t.sp, s.vgpr)>>))

SwitchTwoAgprsToVgpr(s, t) ==
  createSCCSafeSequenceOfMIs(OnAllLanes(<<emitMoveFromAGPRToVGPR(s.agpr, t.vgpr)>>))

\* Before gfx90a an AGPR only moves through a VGPR: V0, kept in the temporary.
AgprThroughV0(from, to, temp) ==
  <<emitMoveFromVGPRToAGPR("v0", temp), emitMoveFromAGPRToVGPR(from, "v0"),
    emitMoveFromVGPRToAGPR("v0", to),   emitMoveFromAGPRToVGPR(temp, "v0")>>

SwitchTwoAgprsToTwoAgprs(s, t) ==
  createSCCSafeSequenceOfMIs(OnAllLanes(
    IF st.gfx90a THEN <<MoveAGPRToAGPR(s.agpr, t.agpr)>>
    ELSE AgprThroughV0(s.agpr, t.agpr, s.temp)))

\* The scalar registers of the target are not written.
SwitchTwoAgprsToOneAgpr(s, t) ==
  createSCCSafeSequenceOfMIs(OnAllLanes(
    IF st.gfx90a THEN <<MoveAGPRToAGPR(s.agpr, t.agpr)>>
    ELSE AgprThroughV0(s.agpr, t.agpr, s.temp)))

SwitchTwoAgprsToSpilled3(s, t) ==
  createSCCSafeSequenceOfMIs(OnAllLanes(
    <<emitMoveFromVGPRToAGPR("v0", s.temp), emitMoveFromAGPRToVGPR(s.agpr, "v0")>>))
    \o loadFlatScratchFromSVALanes("v0", t.lo, t.hi)
    \o loadStackPointerFromSVALanes("v0", t.sp)
    \o createSCCSafeSequenceOfMIs(OnInstrumentationStack(t, OnAllLanes(
         <<emitStoreToEmergencySVSScratchSpillLocation(t.sp, "v0")>>)))
    \o createSCCSafeSequenceOfMIs(OnAllLanes(
         <<emitMoveFromAGPRToVGPR(s.temp, "v0")>>))

SwitchOneAgprToVgpr(s, t) ==
  createSCCSafeSequenceOfMIs(OnAllLanes(<<emitMoveFromAGPRToVGPR(s.agpr, t.vgpr)>>))

SwitchOneAgprToTwoAgprs(s, t) ==
  createSCCSafeSequenceOfMIs(OnAllLanes(AgprThroughV0(s.agpr, t.agpr, t.temp)))

MoveScalars(s, t) ==
  <<emitMoveFromSGPRToSGPR(s.hi, t.hi), emitMoveFromSGPRToSGPR(s.lo, t.lo),
    emitMoveFromSGPRToSGPR(s.sp, t.sp)>>

SwitchOneAgprToOneAgpr(s, t) ==
  MoveScalars(s, t)
    \o createSCCSafeSequenceOfMIs(OnInstrumentationStack(t, OnAllLanes(
         <<emitStoreToEmergencyVGPRScratchSpillLocation(t.sp, "v0"),
           emitMoveFromAGPRToVGPR(s.agpr, "v0"),
           emitMoveFromVGPRToAGPR("v0", t.agpr),
           emitLoadFromEmergencyVGPRScratchSpillLocation(t.sp, "v0")>>)))

SwitchOneAgprToSpilled3(s, t) ==
  MoveScalars(s, t)
    \o createSCCSafeSequenceOfMIs(OnInstrumentationStack(t, OnAllLanes(
         <<emitStoreToEmergencyVGPRScratchSpillLocation(t.sp, "v0"),
           emitMoveFromAGPRToVGPR(s.agpr, "v0"),
           emitStoreToEmergencySVSScratchSpillLocation(t.sp, "v0"),
           emitLoadFromEmergencyVGPRScratchSpillLocation(t.sp, "v0")>>)))

SwitchSpilled3ToVgpr(s, t) ==
  createSCCSafeSequenceOfMIs(OnInstrumentationStack(s, OnAllLanes(
    <<emitLoadFromEmergencySVSScratchSpillLocation(s.sp, t.vgpr)>>)))

SwitchSpilled3ToTwoAgprs(s, t) ==
  createSCCSafeSequenceOfMIs(OnInstrumentationStack(s, OnAllLanes(
    <<emitMoveFromVGPRToAGPR("v0", t.temp),
      emitLoadFromEmergencySVSScratchSpillLocation(s.sp, "v0"),
      emitMoveFromVGPRToAGPR("v0", t.agpr),
      emitMoveFromAGPRToVGPR(t.temp, "v0")>>)))

\* The scalar registers of the target are not written.
SwitchSpilled3ToOneAgpr(s, t) ==
  createSCCSafeSequenceOfMIs(OnInstrumentationStack(s, OnAllLanes(
    <<emitStoreToEmergencyVGPRScratchSpillLocation(s.sp, "v0"),
      emitLoadFromEmergencySVSScratchSpillLocation(s.sp, "v0"),
      emitMoveFromVGPRToAGPR("v0", t.agpr),
      emitLoadFromEmergencyVGPRScratchSpillLocation(s.sp, "v0")>>)))

SwitchSpilled3ToSpilled3(s, t) == MoveScalars(s, t)

SwitchSpilled1ToVgpr(s, t) ==
  createSCCSafeSequenceOfMIs(OnAllLanes(
    <<emitLoadFromEmergencySVSScratchSpillLocation(s.sp, t.vgpr)>>))

SwitchSpilled1ToSpilled1(s, t) == <<emitMoveFromSGPRToSGPR(s.sp, t.sp)>>

\* The dispatchers.  A pair none of them knows is unreachable by assertion; a
\* build without assertions is taken to emit nothing.
Unreachable == <<[op |-> "unreachable"]>>

SwitchFromVgpr(s, t) ==
  CASE InVGPR(t)     -> SwitchVgprToVgpr(s, t)
    [] InTwoAGPRs(t) -> SwitchVgprToTwoAgprs(s, t)
    [] InOneAGPR(t)  -> SwitchVgprToOneAgpr(s, t)
    [] SpilledBy3(t) -> SwitchVgprToSpilled3(s, t)
    [] SpilledBy1(t) -> SwitchVgprToSpilled1(s, t)

SwitchFromTwoAgprs(s, t) ==
  CASE InVGPR(t)     -> SwitchTwoAgprsToVgpr(s, t)
    [] InTwoAGPRs(t) -> SwitchTwoAgprsToTwoAgprs(s, t)
    [] InOneAGPR(t)  -> SwitchTwoAgprsToOneAgpr(s, t)
    [] SpilledBy3(t) -> SwitchTwoAgprsToSpilled3(s, t)
    [] OTHER         -> Unreachable

SwitchFromOneAgpr(s, t) ==
  CASE InVGPR(t)     -> SwitchOneAgprToVgpr(s, t)
    [] InTwoAGPRs(t) -> SwitchOneAgprToTwoAgprs(s, t)
    [] InOneAGPR(t)  -> SwitchOneAgprToOneAgpr(s, t)
    [] SpilledBy3(t) -> SwitchOneAgprToSpilled3(s, t)
    [] OTHER         -> Unreachable

SwitchFromSpilled3(s, t) ==
  CASE InVGPR(t)     -> SwitchSpilled3ToVgpr(s, t)
    [] InTwoAGPRs(t) -> SwitchSpilled3ToTwoAgprs(s, t)
    [] InOneAGPR(t)  -> SwitchSpilled3ToOneAgpr(s, t)
    [] SpilledBy3(t) -> SwitchSpilled3ToSpilled3(s, t)
    [] OTHER         -> Unreachable

SwitchFromSpilled1(s, t) ==
  CASE InVGPR(t)     -> SwitchSpilled1ToVgpr(s, t)
    [] SpilledBy1(t) -> SwitchSpilled1ToSpilled1(s, t)
    [] OTHER         -> Unreachable

emitCodeToSwitchSVS(s, t) ==
  CASE InVGPR(s)     -> SwitchFromVgpr(s, t)
    [] InTwoAGPRs(s) -> SwitchFromTwoAgprs(s, t)
    [] InOneAGPR(s)  -> SwitchFromOneAgpr(s, t)
    [] SpilledBy3(s) -> SwitchFromSpilled3(s, t)
    [] SpilledBy1(s) -> SwitchFromSpilled1(s, t)

-----------------------------------------------------------------------------
(* The load before a payload and the store after it.                       *)

LoadFromTwoAgprs(s, v) ==
  createSCCSafeSequenceOfMIs(OnAllLanes(
    <<emitMoveFromVGPRToAGPR(v, s.temp), emitMoveFromAGPRToVGPR(s.agpr, v)>>))

StoreToTwoAgprs(s, v) ==
  createSCCSafeSequenceOfMIs(OnAllLanes(
    <<emitMoveFromVGPRToAGPR(v, s.agpr), emitMoveFromAGPRToVGPR(s.temp, v)>>))

LoadFromOneAgpr(s, v) ==
  createSCCSafeSequenceOfMIs(OnInstrumentationStack(s, OnAllLanes(
    <<emitStoreToEmergencyVGPRScratchSpillLocation(s.sp, v),
      emitMoveFromAGPRToVGPR(s.agpr, v)>>)))

StoreToOneAgpr(s, v) ==
  createSCCSafeSequenceOfMIs(OnInstrumentationStack(s, OnAllLanes(
    <<emitMoveFromVGPRToAGPR(v, s.agpr),
      emitLoadFromEmergencyVGPRScratchSpillLocation(s.sp, v)>>)))

LoadFromSpilled3(s, v) ==
  createSCCSafeSequenceOfMIs(OnInstrumentationStack(s, OnAllLanes(
    <<emitStoreToEmergencyVGPRScratchSpillLocation(s.sp, v),
      emitLoadFromEmergencySVSScratchSpillLocation(s.sp, v)>>)))

StoreToSpilled3(s, v) ==
  createSCCSafeSequenceOfMIs(OnInstrumentationStack(s, OnAllLanes(
    <<emitStoreToEmergencySVSScratchSpillLocation(s.sp, v),
      emitLoadFromEmergencyVGPRScratchSpillLocation(s.sp, v)>>)))

LoadFromSpilled1(s, v) ==
  createSCCSafeSequenceOfMIs(OnAllLanes(
    <<emitStoreToEmergencyVGPRScratchSpillLocation(s.sp, v),
      emitLoadFromEmergencySVSScratchSpillLocation(s.sp, v)>>))

StoreToSpilled1(s, v) ==
  createSCCSafeSequenceOfMIs(OnAllLanes(
    <<emitStoreToEmergencySVSScratchSpillLocation(s.sp, v),
      emitLoadFromEmergencyVGPRScratchSpillLocation(s.sp, v)>>))

emitCodeToLoadSVA(s, v) ==
  CASE InVGPR(s)     -> <<>>
    [] InTwoAGPRs(s) -> LoadFromTwoAgprs(s, v)
    [] InOneAGPR(s)  -> LoadFromOneAgpr(s, v)
    [] SpilledBy3(s) -> LoadFromSpilled3(s, v)
    [] SpilledBy1(s) -> LoadFromSpilled1(s, v)

emitCodeToStoreSVA(s, v) ==
  CASE InVGPR(s)     -> <<>>
    [] InTwoAGPRs(s) -> StoreToTwoAgprs(s, v)
    [] InOneAGPR(s)  -> StoreToOneAgpr(s, v)
    [] SpilledBy3(s) -> StoreToSpilled3(s, v)
    [] SpilledBy1(s) -> StoreToSpilled1(s, v)

-----------------------------------------------------------------------------
(* The hand-off of the array across a call, in v0.                         *)

HandOffFromVgpr(s) ==
  <<emitMoveFromSGPRToVGPRLane("s0", s.vgpr, FramePointerRegSpillLane),
    emitMoveFromVGPRLaneToSGPR(s.vgpr, "s0", StackPointerStoreLane)>>
    \o createSCCSafeSequenceOfMIs(OnAllLanes(
         <<emitStoreToEmergencyVGPRScratchSpillLocation("s0", "v0"),
           emitMoveFromVGPRToVGPR(s.vgpr, "v0")>>))
    \o <<emitMoveFromVGPRLaneToSGPR(s.vgpr, "s0", FramePointerRegSpillLane)>>

PickOffToVgpr(s) ==
  createSCCSafeSequenceOfMIs(OnAllLanes(<<emitMoveFromVGPRToVGPR("v0", s.vgpr)>>))
    \o <<emitMoveFromSGPRToVGPRLane("s0", s.vgpr, FramePointerRegSpillLane),
         emitMoveFromVGPRLaneToSGPR(s.vgpr, "s0", StackPointerStoreLane)>>
    \o createSCCSafeSequenceOfMIs(OnAllLanes(
         <<emitLoadFromEmergencyVGPRScratchSpillLocation("s0", "v0")>>))
    \o <<emitMoveFromVGPRLaneToSGPR(s.vgpr, "s0", FramePointerRegSpillLane)>>

\* The schemes other than a VGPR hand off by loading the array into v0.
handOffSVA(s) == IF InVGPR(s) THEN HandOffFromVgpr(s) ELSE emitCodeToLoadSVA(s, "v0")

pickOffSVA(s) ==
  CASE InVGPR(s)     -> PickOffToVgpr(s)
    [] InTwoAGPRs(s) -> emitCodeToStoreSVA(s, "v0")
    [] SpilledBy1(s) -> loadStackPointerFromSVALanes("v0", s.sp)
                          \o emitCodeToStoreSVA(s, "v0")
    [] OTHER         -> loadStackPointerFromSVALanes("v0", s.sp)
                          \o loadFlatScratchFromSVALanes("v0", s.lo, s.hi)
                          \o emitCodeToStoreSVA(s, "v0")

-----------------------------------------------------------------------------
(* The wave's life.                                                        *)

\* What the kernel's prologue puts in the array: the stack of the
\* instrumentation, the flat scratch base of the wave, other arguments.
InitialSva ==
  [l \in Lanes |-> CASE l = StackPointerStoreLane -> <<"instrumentation", "sp">>
                     [] l = FlatScratchLoLane     -> <<"wave", "flat_scr_lo">>
                     [] l = FlatScratchHiLane     -> <<"wave", "flat_scr_hi">>
                     [] OTHER                     -> <<"array", l>>]

Supported(s) == isSupportedOnSubTarget(s.kind, st)

\* The scalar registers of a storage that hold the wave's scratch base and SP.
HasScalars(s) == {"hi", "lo", "sp"} \cap DOMAIN s # {}

\* What nobody may rely on once the array is at rest in s: the registers that
\* are neither the application's nor the storage's, and the emergency slots.
\* The application and later payloads overwrite them freely.
AtRest(w, s) ==
  LET live == AppSgprs \union AppVecs \union getAllStorageRegisters(s)
      spilled == SpilledBy3(s) \/ SpilledBy1(s)
  IN [w EXCEPT
        !.sgpr = [r \in Sgprs |-> IF r \in live THEN @[r] ELSE <<"dead", r>>],
        !.vec  = [v \in Vecs |-> IF v \in live THEN @[v]
                                 ELSE [l \in Lanes |-> <<"dead", v>>]],
        !.mem  = [a \in DOMAIN @ |->
                    IF spilled /\ a[Len(a) - 1] = 4 THEN @[a] ELSE <<"dead", a>>]]

AppUsesWaveScratch == app.sgpr["flat_scr_lo"] = <<"wave", "flat_scr_lo">>

Init ==
  /\ st \in SubTargets
  /\ svs \in {s \in Storages : Supported(s) /\ (HasScalars(s) => "unset_bases" \in Shown)}
  /\ phase = IF InVGPR(svs) THEN "app" ELSE "entry"
  /\ dest = "v3"
  /\ sva = InitialSva
  /\ \E exec \in ExecMasks, scc \in {"clear", "set"}, owner \in {"app", "wave"} :
       app = [exec |-> exec, scc |-> scc,
              sgpr |-> [r \in AppSgprs |->
                          IF r = "s0" THEN <<"app", r>> ELSE <<owner, r>>],
              vec  |-> [v \in AppVecs |-> [l \in Lanes |-> <<"app", v, l>>]]]
  /\ wave = [exec |-> app.exec, scc |-> app.scc, path |-> "none",
             sgpr |-> [r \in Sgprs |-> IF r \in AppSgprs THEN app.sgpr[r]
                                       ELSE <<"dead", r>>],
             vec  |-> [v \in Vecs |->
                         CASE v \in AppVecs -> app.vec[v]
                           [] v \in getStateValueStorageReg(svs) /\ InVGPR(svs) -> sva
                           [] v = "v3" /\ ~InVGPR(svs) -> sva
                           [] OTHER -> [l \in Lanes |-> <<"dead", v>>]],
             mem  |-> <<>>]

\* The kernel's prologue moves the array from v3 to the storage at the entry.
EnterKernel ==
  /\ phase = "entry"
  /\ wave' = AtRest(Run(wave, emitCodeToStoreSVA(svs, "v3")), svs)
  /\ phase' = "app"
  /\ UNCHANGED <<st, svs, dest, app, sva>>

\* The application executes: it sets EXEC and SCC as it likes.
AppStep ==
  /\ phase = "app"
  /\ \E exec \in ExecMasks, scc \in {"clear", "set"} :
       /\ app'  = [app EXCEPT !.exec = exec, !.scc = scc]
       /\ wave' = [wave EXCEPT !.exec = exec, !.scc = scc]
  /\ UNCHANGED <<st, svs, phase, dest, sva>>

\* An injected payload starts: the array comes to the VGPR of the load plan.
LoadSVA ==
  /\ phase = "app"
  /\ \E v \in (IF InVGPR(svs) THEN {svs.vgpr} ELSE AppVecs) :
       /\ wave' = Run(wave, emitCodeToLoadSVA(svs, v))
       /\ dest' = v
  /\ phase' = "payload"
  /\ UNCHANGED <<st, svs, app, sva>>

\* The payload keeps something in a lane of the array it may write.
PayloadWritesLane ==
  /\ phase = "payload"
  /\ LET lane == FramePointerRegSpillLane IN
       /\ sva' = [sva EXCEPT ![lane] = <<"payload", lane>>]
       /\ wave' = [wave EXCEPT !.vec[dest][lane] = <<"payload", lane>>]
  /\ UNCHANGED <<st, svs, phase, dest, app>>

\* The payload ends: the array goes back to its storage.
StoreSVA ==
  /\ phase = "payload"
  /\ wave' = AtRest(Run(wave, emitCodeToStoreSVA(svs, dest)), svs)
  /\ phase' = "app" /\ dest' = "v3"
  /\ UNCHANGED <<st, svs, app, sva>>

\* A switch the code has an emitter for, and that sets the target's scalars.
SwitchShown(s, t) ==
  /\ emitCodeToSwitchSVS(s, t) = Unreachable => "unreachable_pair" \in Shown
  /\ InOneAGPR(t) /\ ~InOneAGPR(s) => "unset_bases" \in Shown

\* The boundary of two segments with different storages.
SwitchSVS ==
  /\ phase = "app"
  /\ \E t \in {s \in Storages : Supported(s) /\ s # svs} :
       /\ SwitchShown(svs, t)
       /\ wave' = AtRest(Run(wave, emitCodeToSwitchSVS(svs, t)), t)
       /\ svs' = t
  /\ UNCHANGED <<st, phase, dest, app, sva>>

\* Before a call the caller puts the array in v0.
HandOff ==
  /\ phase = "app"
  /\ InVGPR(svs) /\ ~AppUsesWaveScratch => "app_scratch" \in Shown
  /\ wave' = Run(wave, handOffSVA(svs))
  /\ sva' = IF InVGPR(svs)
            THEN [sva EXCEPT ![FramePointerRegSpillLane] = app.sgpr["s0"]] ELSE sva
  /\ phase' = "courier"
  /\ UNCHANGED <<st, svs, dest, app>>

\* At its entry the callee takes the array from v0 to a storage of its own.
PickOff ==
  /\ phase = "courier"
  /\ \E t \in {s \in Storages : Supported(s)} :
       /\ (InTwoAGPRs(svs) \/ InTwoAGPRs(t)) /\ t # svs => "temporary" \in Shown
       /\ InVGPR(t) /\ ~AppUsesWaveScratch => "app_scratch" \in Shown
       /\ wave' = AtRest(Run(wave, pickOffSVA(t)), t)
       /\ svs' = t
       /\ sva' = IF InVGPR(t)
                 THEN [sva EXCEPT ![FramePointerRegSpillLane] = app.sgpr["s0"]] ELSE sva
  /\ phase' = "app"
  /\ UNCHANGED <<st, dest, app>>

Next == EnterKernel \/ AppStep \/ LoadSVA \/ PayloadWritesLane \/ StoreSVA
          \/ SwitchSVS \/ HandOff \/ PickOff

Spec == Init /\ [][Next]_vars

-----------------------------------------------------------------------------
(* Properties.                                                             *)

\* Scratch slot of the storage s as the array's own SGPRs address it.
SlotOf(s, l) ==
  IF st.archfs THEN <<"architected", wave.sgpr[s.sp], 4, l>>
  ELSE <<wave.sgpr[s.hi], wave.sgpr[s.lo], wave.sgpr[s.sp], 4, l>>

\* Where the array is, lane by lane.
Held ==
  CASE phase = "payload" -> wave.vec[dest]
    [] phase = "courier" -> wave.vec["v0"]
    [] phase = "entry"   -> wave.vec["v3"]
    [] InVGPR(svs)       -> wave.vec[svs.vgpr]
    [] InTwoAGPRs(svs) \/ InOneAGPR(svs) -> wave.vec[svs.agpr]
    [] OTHER             -> [l \in Lanes |-> Contents(wave, SlotOf(svs, l))]

\* The array is never lost: whatever the sequence of loads, stores, switches
\* and hand-offs, the place it is said to be in holds every lane of it, those
\* EXEC masks off included.
SvaNeverLost == Held = sva

\* Scratch accesses of the emitted code stay in the wave's own instrumentation
\* segment: no address of the application's scratch is ever written.
OnlyOwnScratch ==
  \A a \in DOMAIN wave.mem :
    /\ a[Len(a) - 2] = <<"instrumentation", "sp">>
    /\ ~st.archfs => a[1] = <<"wave", "flat_scr_hi">> /\ a[2] = <<"wave", "flat_scr_lo">>

\* The code emitted around payloads, at boundaries and at calls leaves the
\* application what it owns: EXEC, SCC, its SGPRs and FLAT_SCR, every lane of
\* its VGPRs but the one register on loan to the payload or the call, and its
\* scratch.
AppStatePreserved ==
  /\ wave.exec = app.exec /\ wave.scc = app.scc
  /\ \A r \in AppSgprs : wave.sgpr[r] = app.sgpr[r]
  /\ \A v \in AppVecs \ (CASE phase = "payload" -> {dest}
                           [] phase = "courier" -> {"v0"}
                           [] OTHER -> {}) : wave.vec[v] = app.vec[v]
  /\ OnlyOwnScratch

\* The scalar registers of a scheme that has some hold the base of the wave's
\* scratch and the instrumentation's stack pointer whenever the scheme is the
\* one in force, as the description of the scheme says.
ScalarsHoldInstrumentationStack ==
  phase \in {"app", "payload"} =>
    /\ "sp" \in DOMAIN svs => wave.sgpr[svs.sp] = <<"instrumentation", "sp">>
    /\ "lo" \in DOMAIN svs => wave.sgpr[svs.lo] = <<"wave", "flat_scr_lo">>
    /\ "hi" \in DOMAIN svs => wave.sgpr[svs.hi] = <<"wave", "flat_scr_hi">>
=============================================================================
