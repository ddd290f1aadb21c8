----------------------------- MODULE SvaHandoff -----------------------------
(***************************************************************************)
(* A wave of the instrumented target module, and the code that keeps the   *)
(* state value array (SVA) where SvaLocations says it is: the switches at  *)
(* the boundaries of segments and blocks, and the hand-off in the first    *)
(* VGPR at calls.  What one switch or hand-off emits is SvaStorage's       *)
(* subject; here each is the transfer it makes.                            *)
(***************************************************************************)
EXTENDS SvaLocations

CONSTANT Targets   \* the target modules instrumented

VARIABLES
  T,        \* the target module
  loc,      \* the result of the analysis
  pc,       \* the next instruction, <<function, block, index>>, or <<>> at the end
  returns,  \* the instructions to return to
  regs,     \* what the registers hold
  app,      \* what they would hold in the application alone
  slot,     \* the emergency slot of the first VGPR
  spilled,  \* the scratch slot of the array
  covered,  \* history: registers the array went over while they were live
  astray    \* history: a function came back that wrote where the array is kept

vars == <<T, loc, pc, returns, regs, app, slot, spilled, covered, astray>>

Registers == UNION {ToSet(Bank[k]) : k \in DOMAIN Bank}
V0 == Bank.v[1]
SVA == <<"sva">>

-----------------------------------------------------------------------------
(* Liveness across calls, as the analysis of the predicated CFG has it.     *)

LastMI(t, fb) == MI(t, <<fb[1], fb[2], Len(Code(t, fb[1], fb[2]))>>)
Successors(t, fb) ==
  LET last == LastMI(t, fb)
  IN CASE last.op = "call" -> {<<last.callee, 1>>}
       [] last.op = "ret"  -> {<<c[1], b>> : c \in {c \in Blocks(t) :
                                 LastMI(t, c).op = "call" /\ LastMI(t, c).callee = fb[1]},
                               b \in 1 .. 9} \cap Blocks(t)
       [] OTHER            -> {<<fb[1], b>> : b \in t.fns[fb[1]].blocks[fb[2]].succ}

LiveOutOf(t, live, fb) == UNION {live[c] : c \in Successors(t, fb)}

\* The fixpoint of LiveBefore over the blocks, in as many passes as there are
\* blocks.
LiveIns(t) ==
  FoldLeft(LAMBDA live, n :
             [fb \in Blocks(t) |->
                LiveBefore(t.fns[fb[1]].blocks[fb[2]], LiveOutOf(t, live, fb), 1)],
           [fb \in Blocks(t) |-> {}], [n \in 1 .. Cardinality(Blocks(t)) |-> n])
LiveOuts(t) == [fb \in Blocks(t) |-> LiveOutOf(t, LiveIns(t), fb)]

-----------------------------------------------------------------------------
(* Transfers of the array.                                                 *)

\* The array as the holder s has it.
Fetch(s) == LET r == getStateValueStorageReg(s)
            IN IF r = {} THEN spilled ELSE regs[CHOOSE v \in r : TRUE]

\* Registers after the array x went to s; an argument of the scratch schemes
\* comes with it.
Put(s, x, file) ==
  [r \in Registers |->
     CASE r \in getStateValueStorageReg(s)                        -> x
       [] r \in getAllStorageRegisters(s) \ getStateValueStorageReg(s) -> <<"storage">>
       [] OTHER                                                   -> file[r]]
PutSlot(s, x) == IF getStateValueStorageReg(s) = {} THEN x ELSE spilled

\* As HandedOff, were the first VGPR not saved before the array goes there.
HandedOff_unsaved(s) == [regs |-> [regs EXCEPT ![V0] = Fetch(s)], slot |-> slot]

\* Before a call the first VGPR goes to the emergency slot, the array to it.
HandedOff(s) == [regs |-> [regs EXCEPT ![V0] = Fetch(s)], slot |-> regs[V0]]

\* At a callee's entry the array goes to its storage and the first VGPR gets
\* its value back.
PickedOff(s, h) == [Put(s, h.regs[V0], h.regs) EXCEPT ![V0] = h.slot]

-----------------------------------------------------------------------------
(* The wave.                                                               *)

Init ==
  /\ T \in Targets /\ loc = <<>> /\ pc = <<>> /\ returns = <<>>
  /\ app = [r \in Registers |-> <<"entry", r>>] /\ regs = app
  /\ slot = <<>> /\ spilled = <<>> /\ covered = {} /\ astray = FALSE

Instrumented == loc # <<>> /\ loc[1].failed = FALSE
Intervals(fb) == getStorageIntervals(loc[1], fb)
SegmentAt(at) == CHOOSE s \in ToSet(Intervals(<<at[1], at[2]>>)) :
                   s.from <= at[3] /\ at[3] < s.to
HeadOf(fb) == Head(Intervals(fb)).svs
TailOf(fb) == Last(Intervals(fb)).svs

\* The analysis, then the prologue of the kernel puts the array in its storage.
Launch ==
  /\ T # <<>> /\ loc = <<>>
  /\ \E l \in {calculate(T, LiveOuts(T))} :
       /\ loc' = <<l>>
       /\ IF l.failed THEN UNCHANGED <<pc, regs, spilled>>
          ELSE \E s \in {Head(l.segs[<<1, 1>>]).svs} :
                 /\ pc' = <<1, 1, 1>>
                 /\ regs' = Put(s, SVA, regs) /\ spilled' = PutSlot(s, SVA)
  /\ UNCHANGED <<T, returns, app, slot, covered, astray>>

Fixed == hasFixedStorageAcrossAllFunctions(T)
At == MI(T, pc)
Here == <<pc[1], pc[2]>>
Running == Instrumented /\ pc # <<>>

\* Where the array is between the segment of the last instruction and the next
\* one: a switch is emitted when the two differ.
emitSVSSwitchesForMF(file, from, to) ==
  IF from = to THEN file
  ELSE Put(to, LET r == getStateValueStorageReg(from)
               IN IF r = {} THEN spilled ELSE file[CHOOSE v \in r : TRUE], file)

\* An instruction that is not a call: both machines write the same new value.
Written(file) == [r \in Registers |-> IF r \in At.def THEN <<"written", pc, r>> ELSE file[r]]
Step == /\ app' = Written(app) /\ covered' = covered \ At.def
        /\ UNCHANGED <<T, loc, returns, slot, spilled, astray>>

Straight ==
  /\ Running /\ At.op = "plain" /\ pc[3] < Len(Code(T, pc[1], pc[2]))
  /\ pc' = <<pc[1], pc[2], pc[3] + 1>>
  /\ regs' = emitSVSSwitchesForMF(Written(regs), SegmentAt(pc).svs,
                                  SegmentAt(<<pc[1], pc[2], pc[3] + 1>>).svs)
  /\ Step

\* The end of a block: the switch is on the edge, wherever it is anchored.
Jump ==
  /\ Running /\ At.op = "plain" /\ pc[3] = Len(Code(T, pc[1], pc[2]))
  /\ \E b \in T.fns[pc[1]].blocks[pc[2]].succ :
       /\ pc' = <<pc[1], b, 1>>
       /\ regs' = emitSVSSwitchesForMF(Written(regs), TailOf(Here), HeadOf(<<pc[1], b>>))
  /\ Step

LastCall(fb) ==
  LET calls == {i \in DOMAIN Code(T, fb[1], fb[2]) : Code(T, fb[1], fb[2])[i].op = "call"}
  IN IF calls = {} THEN 0 ELSE Max(calls)

\* Only the last call of a block is wrapped, and none if the storage is fixed.
HandsOff == ~Fixed /\ LastCall(Here) = pc[3]

\* After a call the wave goes on where the block that made it leads, if anywhere.
Continuations ==
  CASE pc[3] < Len(Code(T, pc[1], pc[2])) -> {<<pc[1], pc[2], pc[3] + 1>>}
    [] T.fns[pc[1]].blocks[pc[2]].succ = {} -> {<<>>}
    [] OTHER -> {<<pc[1], b, 1>> : b \in T.fns[pc[1]].blocks[pc[2]].succ}

\* The hand-off, the call and the callee's entry.
Call ==
  /\ Running /\ At.op = "call"
  /\ \E h \in {IF HandsOff THEN HandedOff(TailOf(Here)) ELSE [regs |-> regs, slot |-> slot]} :
       /\ slot' = h.slot
       /\ regs' = IF Fixed THEN h.regs ELSE PickedOff(HeadOf(<<At.callee, 1>>), h)
  /\ pc' = <<At.callee, 1, 1>>
  /\ \E next \in Continuations : returns' = <<next>> \o returns
  /\ covered' = IF Fixed THEN covered
                 ELSE covered \cup (getAllStorageRegisters(HeadOf(<<At.callee, 1>>))
                                      \cap LiveIns(T)[<<At.callee, 1>>])
  /\ UNCHANGED <<T, loc, app, spilled, astray>>

\* What function f and those it calls write.
Callees(F) == F \cup {MI(T, at).callee : at \in {at \in MIs(T) : at[1] \in F /\ MI(T, at).op = "call"}}
Below(f) == FoldLeft(LAMBDA F, n : Callees(F), {f}, [n \in Fns(T) |-> n])
WrittenBy(f) == UNION {MI(T, at).def : at \in {at \in MIs(T) : at[1] \in Below(f)}}

\* A return is not an indirect branch: nothing is handed back.  The array stays
\* with the callee, and what the caller's code takes for it is the copy it left.
Return ==
  /\ Running /\ At.op = "ret" /\ returns # <<>>
  /\ pc' = Head(returns) /\ returns' = Tail(returns)
  /\ astray' = \/ astray
                \/ /\ ~Fixed /\ Head(returns) # <<>>
                   /\ getAllStorageRegisters(SegmentAt(Head(returns)).svs)
                        \cap WrittenBy(pc[1]) # {}
  /\ UNCHANGED <<T, loc, regs, app, slot, spilled, covered>>

Finish ==
  /\ Running /\ At.op = "end"
  /\ pc' = <<>>
  /\ UNCHANGED <<T, loc, returns, regs, app, slot, spilled, covered, astray>>

Done == (loc # <<>> /\ pc = <<>>) /\ UNCHANGED vars

Next == Launch \/ Straight \/ Jump \/ Call \/ Return \/ Finish \/ Done
Spec == Init /\ [][Next]_vars

-----------------------------------------------------------------------------
(* Properties.                                                             *)

\* Whatever the storage of the array does, and before, in and after every call,
\* the application reads from each register what it last wrote there; but for a
\* register that was live through a function whose storage was put on it.
AppReadsItsOwn == Running => \A r \in At.use \ covered : regs[r] = app[r]

\* When the wave comes to a hook, the place the hook's load plan fetches the
\* array from is the one the segment around it names, and holds the array;
\* unless a callee with a storage of its own came back having written there.
HooksFindTheArray ==
  Running /\ At.hook =>
    /\ loc[1].plans[pc] # <<>>
    /\ loc[1].plans[pc][1].storage = SegmentAt(pc).svs
    /\ ~astray => Fetch(SegmentAt(pc).svs) = SVA

\* The intervals of every block are a partition of it in order, so that each
\* instruction has one storage.
SegmentsTile ==
  Instrumented => \A fb \in Blocks(T) :
    /\ Head(Intervals(fb)).from = 0 /\ Last(Intervals(fb)).to = End(T, fb[1], fb[2])
    /\ \A i \in 1 .. Len(Intervals(fb)) - 1 : Intervals(fb)[i].to = Intervals(fb)[i + 1].from

\* A payload never loads the array over a register of the application that its
\* plan does not say is clobbered, nor over the registers of the storage.
LoadsOverFreeRegisters ==
  Instrumented => \A h \in Hooks(T) : \E p \in ToSet(loc[1].plans[h]) :
    /\ ~p.clobbers => ~isPhysRegUsed(T, h[1], p.vgpr)
    /\ requiresLoadAndStoreBeforeUse(p.storage) => p.vgpr \notin getAllStorageRegisters(p.storage)

\* The registers of the storage whose values the code from an instruction on
\* still needs, in this function or in one of its callers.
LiveUnderArray(at) ==
  getAllStorageRegisters(SegmentAt(at).svs)
    \cap LiveBefore(T.fns[at[1]].blocks[at[2]], LiveOuts(T)[<<at[1], at[2]>>], at[3])

\* The comment on computePerMILiveBefore: if a register of the storage is live
\* before some instruction, the array must be relocated before it executes.
RelocatedOffLive == Running => LiveUnderArray(pc) = {}

\* The array sits on no value still needed, except one that it went over at the
\* entry of a callee that does not name the register.
ArrayOffAppValues == Running => LiveUnderArray(pc) \subseteq covered
=============================================================================
