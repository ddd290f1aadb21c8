----------------------------- MODULE SvaSchemes -----------------------------
(***************************************************************************)
(* The five schemes in which the state value array (SVA) of an             *)
(* instrumented wave can be kept, the registers each of them takes, and    *)
(* the sub-targets each of them works on.                                  *)
(*                                                                         *)
(* A sub-target is abstracted to the three features the code asks for, a   *)
(* storage to its kind and its registers.                                  *)
(***************************************************************************)
EXTENDS Naturals, Sequences, FiniteSets

StorageKind == {"SVS_SINGLE_VGPR", "SVS_TWO_AGPRs",
                "SVS_SINGLE_AGPR_WITH_THREE_SGPRS_pre_gfx908",
                "SVS_SPILLED_WITH_THREE_SGPRS_absolute_fs",
                "SVS_SPILLED_WITH_ONE_SGPR_architected_fs"}

\* The kinds in order of preference, as the list of supported kinds has them.
KindsByPreference ==
  <<"SVS_SINGLE_VGPR", "SVS_TWO_AGPRs",
    "SVS_SINGLE_AGPR_WITH_THREE_SGPRS_pre_gfx908",
    "SVS_SPILLED_WITH_THREE_SGPRS_absolute_fs",
    "SVS_SPILLED_WITH_ONE_SGPR_architected_fs">>

NumAGPRsUsedBySVS(kind) ==
  CASE kind = "SVS_TWO_AGPRs"                               -> 2
    [] kind = "SVS_SINGLE_AGPR_WITH_THREE_SGPRS_pre_gfx908" -> 1
    [] OTHER                                                -> 0

NumSGPRsUsedBySVS(kind) ==
  CASE kind = "SVS_SINGLE_AGPR_WITH_THREE_SGPRS_pre_gfx908" -> 3
    [] kind = "SVS_SPILLED_WITH_THREE_SGPRS_absolute_fs"    -> 3
    [] kind = "SVS_SPILLED_WITH_ONE_SGPR_architected_fs"    -> 1
    [] OTHER                                                -> 0

\* A sub-target: has MAI instructions (AGPRs), has the gfx90a additions (AGPRs
\* move to AGPRs), has an architected flat scratch (no FLAT_SCR to set up).
SubTarget == [mai : BOOLEAN, gfx90a : BOOLEAN, archfs : BOOLEAN]

isSupportedOnSubTarget(kind, st) ==
  CASE kind = "SVS_SINGLE_VGPR"                             -> TRUE
    [] kind = "SVS_TWO_AGPRs"                               -> st.mai
    [] kind = "SVS_SINGLE_AGPR_WITH_THREE_SGPRS_pre_gfx908" -> st.mai /\ ~st.gfx90a
    [] kind = "SVS_SPILLED_WITH_THREE_SGPRS_absolute_fs"    -> ~st.archfs
    [] kind = "SVS_SPILLED_WITH_ONE_SGPR_architected_fs"    -> st.archfs

getSupportedSVAStorageList(st) ==
  SelectSeq(KindsByPreference, LAMBDA kind : isSupportedOnSubTarget(kind, st))

\* No storage: what createSVAStorage returns when the registers do not suffice.
NoStorage == [kind |-> "none"]

createSVAStorage(VGPRs, AGPRs, SGPRs, kind) ==
  CASE kind = "SVS_SINGLE_VGPR" /\ Len(VGPRs) >= 1 ->
         [kind |-> kind, vgpr |-> VGPRs[1]]
    [] kind = "SVS_TWO_AGPRs" /\ Len(AGPRs) >= 2 ->
         [kind |-> kind, agpr |-> AGPRs[1], temp |-> AGPRs[2]]
    [] kind = "SVS_SINGLE_AGPR_WITH_THREE_SGPRS_pre_gfx908"
         /\ Len(AGPRs) >= 1 /\ Len(SGPRs) >= 3 ->
         [kind |-> kind, agpr |-> AGPRs[1],
          hi |-> SGPRs[1], lo |-> SGPRs[2], sp |-> SGPRs[3]]
    [] kind = "SVS_SPILLED_WITH_THREE_SGPRS_absolute_fs" /\ Len(SGPRs) >= 3 ->
         [kind |-> kind, hi |-> SGPRs[1], lo |-> SGPRs[2], sp |-> SGPRs[3]]
    [] kind = "SVS_SPILLED_WITH_ONE_SGPR_architected_fs" /\ Len(SGPRs) >= 1 ->
         [kind |-> kind, sp |-> SGPRs[1]]
    [] OTHER -> NoStorage

InVGPR(svs)      == svs.kind = "SVS_SINGLE_VGPR"
InTwoAGPRs(svs)  == svs.kind = "SVS_TWO_AGPRs"
InOneAGPR(svs)   == svs.kind = "SVS_SINGLE_AGPR_WITH_THREE_SGPRS_pre_gfx908"
SpilledBy3(svs)  == svs.kind = "SVS_SPILLED_WITH_THREE_SGPRS_absolute_fs"
SpilledBy1(svs)  == svs.kind = "SVS_SPILLED_WITH_ONE_SGPR_architected_fs"

\* The vector register that holds the array, as a set of at most one register.
getStateValueStorageReg(svs) ==
  CASE InVGPR(svs)                        -> {svs.vgpr}
    [] InTwoAGPRs(svs) \/ InOneAGPR(svs)  -> {svs.agpr}
    [] OTHER                              -> {}

requiresLoadAndStoreBeforeUse(svs) == ~InVGPR(svs)

getAllStorageRegisters(svs) == {svs[f] : f \in DOMAIN svs \ {"kind"}}
=============================================================================
