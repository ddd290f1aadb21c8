---------------------------- MODULE SvaLocations ----------------------------
(***************************************************************************)
(* SVStorageAndLoadLocationsAnalysis: which registers of the target module *)
(* hold the state value array (SVA), interval by interval, and which VGPR  *)
(* each injected payload loads it into.                                    *)
(*                                                                         *)
(* A target module is a record                                             *)
(*   st  : the sub-target                                                  *)
(*   fns : Seq of [kernel : BOOLEAN, cap : [v, a, s : Nat], blocks]        *)
(* a block [vector : BOOLEAN, succ : set of blocks, code], and an          *)
(* instruction [op, use, def, callee, hook]; a hook is a patchpoint that   *)
(* carries a payload.  Registers are named; a bank lists them in hardware  *)
(* order.                                                                  *)
(***************************************************************************)
EXTENDS SvaSchemes, SequencesExt, FiniteSetsExt

CONSTANTS Bank,          \* [v, a, s]: the registers of the three 32-bit classes
          Reserved,      \* registers MachineRegisterInfo does not allocate
          ExceedNumRegs  \* the option luthier-exceed-num-regs

\* What the constants must satisfy.
BankAssumption ==
  /\ DOMAIN Bank = {"v", "a", "s"} /\ ExceedNumRegs \in BOOLEAN
  /\ \A k, l \in DOMAIN Bank :
       k # l => ToSet(Bank[k]) \cap ToSet(Bank[l]) = {}

Fns(T) == DOMAIN T.fns
Code(T, f, b) == T.fns[f].blocks[b].code
Blocks(T) == {fb \in Fns(T) \X (1 .. 9) : fb[2] \in DOMAIN T.fns[fb[1]].blocks}
MIs(T) == {fbi \in Fns(T) \X (1 .. 9) \X (1 .. 9) :
             <<fbi[1], fbi[2]>> \in Blocks(T) /\ fbi[3] \in DOMAIN Code(T, fbi[1], fbi[2])}
MI(T, at) == Code(T, at[1], at[2])[at[3]]
Hooks(T) == {at \in MIs(T) : MI(T, at).hook}

-----------------------------------------------------------------------------
(* Scavenging.                                                             *)

isPhysRegUsed(T, f, r) ==
  \E at \in MIs(T) : at[1] = f /\ r \in MI(T, at).use \cup MI(T, at).def

\* The n-th register of a class has hardware index n - 1.
isWithinDeclaredCap(T, f, k, n) == ExceedNumRegs \/ n - 1 < T.fns[f].cap[k]

\* As FreeInAll, were the first function taken to speak for all of them.
FreeInAll_first(T, F, k, n) ==
  LET f == CHOOSE g \in F : \A h \in F : g <= h
  IN /\ Bank[k][n] \notin Reserved /\ ~isPhysRegUsed(T, f, Bank[k][n])
     /\ isWithinDeclaredCap(T, f, k, n)

\* Register n of class k may hold the array in every function of F.
FreeInAll(T, F, k, n) ==
  \A f \in F : /\ Bank[k][n] \notin Reserved /\ ~isPhysRegUsed(T, f, Bank[k][n])
               /\ isWithinDeclaredCap(T, f, k, n)

FreeRegisters(T, F, k) ==
  LET free == SelectSeq([n \in DOMAIN Bank[k] |-> n], LAMBDA n : FreeInAll(T, F, k, n))
  IN [n \in DOMAIN free |-> Bank[k][free[n]]]

AtMost(s, n) == SubSeq(s, 1, IF Len(s) < n THEN Len(s) ELSE n)

\* Across functions the class is searched upwards, within one downwards.
scavengeAcross(T, k, n) == AtMost(FreeRegisters(T, Fns(T), k), n)
scavengeIn(T, f, k, n)  == AtMost(Reverse(FreeRegisters(T, {f}, k)), n)

MaxNumUsedByAllStorage(T, NumUsed(_)) ==
  Max({NumUsed(k) : k \in ToSet(getSupportedSVAStorageList(T.st))})

\* A VGPR if there is one, else the first supported scheme the other registers
\* suffice for.
StorageFrom(T, VGPRs, AGPRs, SGPRs) ==
  LET fits(k) == k # "SVS_SINGLE_VGPR" /\ NumSGPRsUsedBySVS(k) <= Len(SGPRs)
                   /\ NumAGPRsUsedBySVS(k) <= Len(AGPRs)
      schemes == SelectSeq(getSupportedSVAStorageList(T.st), fits)
  IN CASE VGPRs # <<>>   -> createSVAStorage(VGPRs, <<>>, <<>>, "SVS_SINGLE_VGPR")
       [] VGPRs = <<>> /\ schemes # <<>> -> createSVAStorage(<<>>, AGPRs, SGPRs, schemes[1])
       [] OTHER          -> NoStorage

findFixedStateValueArrayStorage(T) ==
  StorageFrom(T, scavengeAcross(T, "v", 1),
    scavengeAcross(T, "a", MaxNumUsedByAllStorage(T, NumAGPRsUsedBySVS)),
    scavengeAcross(T, "s", MaxNumUsedByAllStorage(T, NumSGPRsUsedBySVS)))

\* The storage at an instruction depends on its function only.
findStateValueArrayStorageAtMI(T, f) ==
  StorageFrom(T, scavengeIn(T, f, "v", 1),
    scavengeIn(T, f, "a", MaxNumUsedByAllStorage(T, NumAGPRsUsedBySVS)),
    scavengeIn(T, f, "s", MaxNumUsedByAllStorage(T, NumSGPRsUsedBySVS)))

-----------------------------------------------------------------------------
(* The load plan of a hook.                                                *)

Plan(v, clobbers, svs) == [vgpr |-> v, clobbers |-> clobbers, storage |-> svs]

\* The first register of a class the function uses.
FirstUsedVGPR(T, f) == SelectSeq(Bank.v, LAMBDA r : isPhysRegUsed(T, f, r))

\* A dead VGPR, else a dead AGPR, else the first VGPR the function uses.
ScavengedPlan(T, f, svs) ==
  LET free == scavengeIn(T, f, "v", 1) \o scavengeIn(T, f, "a", 1)
  IN CASE free # <<>>          -> Plan(free[1], FALSE, svs)
       [] free = <<>> /\ FirstUsedVGPR(T, f) # <<>>
                               -> Plan(FirstUsedVGPR(T, f)[1], TRUE, svs)
       [] OTHER                -> Plan(Bank.v[1], TRUE, svs)

selectVGPRLoadLocationForInjectedPayload(T, f, svs, ScavengeDeadAVGPRs) ==
  CASE ~requiresLoadAndStoreBeforeUse(svs) -> Plan(svs.vgpr, FALSE, svs)
    [] requiresLoadAndStoreBeforeUse(svs) /\ ScavengeDeadAVGPRs -> ScavengedPlan(T, f, svs)
    [] OTHER                               -> Plan(Bank.v[1], TRUE, svs)

-----------------------------------------------------------------------------
(* The intervals.  Position 0 is a block's start, i its instruction i, and  *)
(* the length of its code plus one its end.                                 *)

Segment(from, to, svs) == [from |-> from, to |-> to, svs |-> svs]
End(T, f, b) == Len(Code(T, f, b)) + 1

\* Live in some lane before instruction i of a block whose code leaves Out live:
\* vector instructions do not kill what a masked lane holds.
LiveBefore(block, Out, i) ==
  FoldRight(LAMBDA mi, l : (IF block.vector THEN l ELSE l \ mi.def) \cup mi.use,
            SubSeq(block.code, i, Len(block.code)), Out)

\* A block starts a segment of its own.
Begins(acc, i) == IF i = 1 THEN 0 ELSE acc.begin

\* One instruction of the walk over a function, acc being what it has built.
StepMI(T, LiveOut, acc, at) ==
  LET f == at[1]  b == at[2]  i == at[3]
      last == i = Len(Code(T, f, b))
      start == Begins(acc, i)
      hooks == acc.hooks \cup (IF MI(T, at).hook THEN {at} ELSE {})
      tryRelocating == getStateValueStorageReg(acc.svs) = {} /\ MI(T, at).hook
      mustRelocate ==
        getAllStorageRegisters(acc.svs)
          \cap LiveBefore(T.fns[f].blocks[b], LiveOut[<<f, b>>], i) # {}
      next == IF last THEN End(T, f, b) ELSE i
      plan == selectVGPRLoadLocationForInjectedPayload(T, f, acc.svs, FALSE)
      cut == [acc EXCEPT
                !.segs = [@ EXCEPT ![<<f, b>>] = Append(@, Segment(start, next, acc.svs))],
                !.plans = [h \in DOMAIN @ |-> IF h \in hooks /\ @[h] = <<>>
                                              THEN <<plan>> ELSE @[h]],
                !.hooks = {}, !.begin = next]
      moved == IF tryRelocating \/ mustRelocate
               THEN findStateValueArrayStorageAtMI(T, f) ELSE acc.svs
  IN IF last \/ tryRelocating \/ mustRelocate THEN [cut EXCEPT !.svs = moved]
     ELSE [acc EXCEPT !.hooks = hooks, !.begin = start]

\* The instructions of function f in layout order.
Layout(T, f) ==
  FlattenSeq([b \in DOMAIN T.fns[f].blocks |->
                [i \in DOMAIN Code(T, f, b) |-> <<f, b, i>>]])

Result(failed, segs, plans) == [failed |-> failed, segs |-> segs, plans |-> plans]
NoSegments(T) == [fb \in Blocks(T) |-> <<>>]
NoPlans(T) == [h \in Hooks(T) |-> <<>>]

\* One storage for all of the target module.
FixedLocations(T, svs) ==
  Result(FALSE, [fb \in Blocks(T) |-> <<Segment(0, End(T, fb[1], fb[2]), svs)>>],
         [h \in Hooks(T) |->
            <<selectVGPRLoadLocationForInjectedPayload(T, h[1], svs, TRUE)>>])

\* Function f is walked on top of what its predecessors in the module left; a
\* function with no VGPR to spare at its entry ends the calculation.
WalkFunction(T, LiveOut, res, f) ==
  LET svs == findStateValueArrayStorageAtMI(T, f)
      walked == FoldLeft(LAMBDA acc, at : StepMI(T, LiveOut, acc, at),
                         [svs |-> svs, begin |-> 0, hooks |-> {},
                          segs |-> res.segs, plans |-> res.plans], Layout(T, f))
  IN CASE res.failed -> res
       [] ~res.failed /\ svs.kind # "SVS_SINGLE_VGPR" -> [res EXCEPT !.failed = TRUE]
       [] OTHER -> Result(FALSE, walked.segs, walked.plans)

calculate(T, LiveOut) ==
  LET svs == findFixedStateValueArrayStorage(T)
  IN IF svs # NoStorage THEN FixedLocations(T, svs)
     ELSE FoldLeft(LAMBDA res, f : WalkFunction(T, LiveOut, res, f),
                   Result(FALSE, NoSegments(T), NoPlans(T)), [f \in Fns(T) |-> f])

getStorageIntervals(loc, fb) == loc.segs[fb]

\* The storage objects are compared, not what they name: functions that were
\* walked one by one never share one.
hasFixedStorageAcrossAllFunctions(T) == findFixedStateValueArrayStorage(T) # NoStorage
=============================================================================
