--------------------------- MODULE KernelPrologue ---------------------------
(***************************************************************************)
(* The code TargetModulePatcherPass puts at the start of the kernel to     *)
(* fill the state value array: what is forced on in the descriptor for it, *)
(* the instructions that are emitted, and what a wave that is launched by  *)
(* the printed descriptor holds once it has run them.                      *)
(*                                                                         *)
(* The payload of a kernel says which arguments and hidden arguments the   *)
(* injected functions ask for, whether the call graph is complete, and     *)
(* whether one of them has a frame; its storage is that of the array in    *)
(* the first block.                                                        *)
(***************************************************************************)
EXTENDS KernelEntry, SvaSpecs, SvaSchemes

VARIABLES
  snapshot, \* the SIMachineFunctionInfo before the prologue
  todo,     \* the arguments that still have to be stored
  code,     \* the instructions emitted so far
  wave      \* the registers of the wave after the prologue, once it ran

prologueVars == <<snapshot, todo, code, wave>>

Junk == <<"junk", 0>>
None == -1     \* the register a value has that is in none

-----------------------------------------------------------------------------
(* What the payloads need.                                                  *)

\* Where the call graph is incomplete every hidden argument is asked for.
Requested(k) == k.payload.args \cup (IF k.payload.complete THEN {} ELSE {"IMPLICIT_ARG_BUFFER"})
QueueHidden(k) == ~k.payload.complete \/ k.payload.queue
usesSVA(k) == k.payload.frame \/ Requested(k) # {}
Expanded(k) == "IMPLICIT_ARG_BUFFER" \in Requested(k)

Layout(k) == SvaLayout(SAsUsed(k.payload.args, TRUE), k.st)
LaneOf(sa) == Layout(K).args[sa]

\* The register the array is built in.
SetupVGPR(k) == IF InVGPR(k.storage) THEN k.storage.vgpr ELSE 3

preloadedValueForSVA ==
  (PSB :> "psb") @@ ("KERNEL_ARG_PTR" :> "kernarg") @@ ("DISPATCH_ID" :> "dispatch_id")
  @@ ("FLAT_SCRATCH" :> "flat_scratch") @@ ("DISPATCH_PTR" :> "dispatch_ptr")
  @@ ("QUEUE_PTR" :> "queue_ptr") @@ ("WORK_ITEM_PRIVATE_SEGMENT_SIZE" :> "pss")
  @@ ("WORKGROUP_ID_X" :> "wgx") @@ ("WORKGROUP_ID_Y" :> "wgy") @@ ("WORKGROUP_ID_Z" :> "wgz")

Dimension == ("WORKITEM_ID_X" :> 0) @@ ("WORKITEM_ID_Y" :> 1) @@ ("WORKITEM_ID_Z" :> 2)

-----------------------------------------------------------------------------
(* Forcing a value on.  The flag in the usage information is what is        *)
(* printed; a new user value gets the register after the last one, whatever *)
(* system value is there.                                                   *)

Flagged == {"psb", "flat_scratch", "kernarg", "queue_ptr", "pss"}

Force(i, c) ==
  IF c \in ToSet(SystemClasses) THEN addSystem(i, c)
  ELSE [addUser(i, c) EXCEPT !.enabled = IF c \in Flagged THEN @ \cup {c} ELSE @]

Ensure(i, c) == IF c \in DOMAIN i.at THEN i ELSE Force(i, c)
At(i, c)     == IF c \in DOMAIN i.at THEN i.at[c] ELSE None

getNumUsedUserSGPRs(i) == Count(i.enabled) + i.preload

-----------------------------------------------------------------------------
(* Instructions.                                                            *)

Write(lane, s) == <<<<"write", lane, s>>>>
Read(s, lane)  == <<<<"read", s, lane>>>>
StoreChannels(lane, s, n) == [ch \in 1 .. n |-> <<"write", lane + ch - 1, s + ch - 1>>]
Move(new, old, n) == [ch \in 1 .. n |-> <<"move", old + ch - 1, new + ch - 1>>]

\* The base of the wave's scratch, computed in the registers of the kernel's.
EmitScratchPSBInit(lo, lane, offset) ==
  Write(StackPointerRegSpillLane, lo) \o Write(FramePointerRegSpillLane, lo + 1)
  \o <<<<"wave", lo, offset>>>> \o StoreChannels(lane, lo, 2)
  \o Read(lo, StackPointerRegSpillLane) \o Read(lo + 1, FramePointerRegSpillLane)

\* As StackPointerCode, were SGPR0 not given back.
StackPointerCode_kept(value) ==
  Write(FramePointerRegSpillLane, 0) \o <<<<"set", 0, value>>>>
  \o Write(StackPointerStoreLane, 0)

StackPointerCode(value) ==
  Write(FramePointerRegSpillLane, 0) \o <<<<"set", 0, value>>>>
  \o Write(StackPointerStoreLane, 0) \o Read(0, FramePointerRegSpillLane)

\* As ExpansionCode, were the pointer stored before 8 is added to it.
ExpansionCode_early(ptr, lane) ==
  Write(StackPointerRegSpillLane, ptr) \o Write(FramePointerRegSpillLane, ptr + 1)
  \o StoreChannels(lane, ptr, 2) \o <<<<"skip", ptr>>>>
  \o Read(ptr, StackPointerRegSpillLane) \o Read(ptr + 1, FramePointerRegSpillLane)
  \o <<<<"load", ptr>>>>

\* The hidden arguments are 8 bytes after the pointer to the application's.
ExpansionCode(ptr, lane) ==
  Write(StackPointerRegSpillLane, ptr) \o Write(FramePointerRegSpillLane, ptr + 1)
  \o <<<<"skip", ptr>>>> \o StoreChannels(lane, ptr, 2)
  \o Read(ptr, StackPointerRegSpillLane) \o Read(ptr + 1, FramePointerRegSpillLane)
  \o <<<<"load", ptr>>>>

WorkItemCode(lane, dim) ==
  Write(StackPointerRegSpillLane, 0)
  \o <<<<"first", 0, IF K.st.packed THEN 0 ELSE dim, dim>>>>
  \o Write(lane, 0) \o Read(0, StackPointerRegSpillLane)

-----------------------------------------------------------------------------
(* The prologue.                                                            *)

PrologueInit ==
  EntryInit /\ snapshot = NoInfo /\ todo = {} /\ code = <<>> /\ wave = <<>>

Emit(next, newInfo, instructions) ==
  /\ stage' = next /\ info' = newInfo /\ code' = code \o instructions
  /\ UNCHANGED <<K, attrs, printed, wave>>

emitInitialEntryKernelSetup ==
  /\ stage = "lifted"
  /\ snapshot' = info /\ todo' = Requested(K)
  /\ Emit(IF usesSVA(K) THEN "scratch" ELSE "patched", info, <<>>)

emitCodeToSetupScratch ==
  /\ stage = "scratch"
  /\ \E i \in {IF K.payload.frame /\ K.dynamic THEN Ensure(info, "pss") ELSE info} :
       Emit("expansion", i,
         IF ~K.payload.frame THEN <<>>
         ELSE (IF K.st.archfs THEN <<>>
               ELSE (IF K.st.flat THEN <<>>
                     ELSE EmitScratchPSBInit(At(i, "psb"), LaneOf(PSB), At(i, "pswo"))
                          \o StoreChannels(LaneOf(PSB) + 2, At(i, "psb") + 2, 2))
                    \o EmitScratchPSBInit(At(i, "flat_scratch"), LaneOf("FLAT_SCRATCH"),
                                          At(i, "pswo")))
              \o StackPointerCode(IF K.dynamic THEN <<"below", At(i, "pss")>> ELSE <<"above", 0>>))
  /\ UNCHANGED <<snapshot, todo>>

\* The queue pointer is added once more where it is preloaded already.
emitKernargBufferExpansion ==
  /\ stage = "expansion"
  /\ IF ~Expanded(K) THEN Emit("args", info, <<>>)
     ELSE \E i \in {Ensure(IF QueueHidden(K) THEN Force(info, "queue_ptr") ELSE info, "kernarg")} :
            IF "IMPLICIT_ARG_BUFFER" \notin DOMAIN Layout(K).args THEN Emit("failed", i, <<>>)
            ELSE Emit("args", i,
                   IF K.kernarg THEN ExpansionCode(i.at["kernarg"], LaneOf("IMPLICIT_ARG_BUFFER"))
                   ELSE StoreChannels(LaneOf("IMPLICIT_ARG_BUFFER"), i.at["kernarg"], 2))
  /\ UNCHANGED <<snapshot, todo>>

\* The arguments come in the order of a hash table.
StoreArgument(sa) ==
  /\ stage = "args" /\ sa \in todo
  /\ todo' = todo \ {sa}
  /\ CASE sa \notin DOMAIN Layout(K).args -> Emit("failed", info, <<>>)
       [] sa = "IMPLICIT_ARG_BUFFER" -> Emit(stage, info, <<>>)
       [] sa \in DOMAIN Dimension -> Emit(stage, info, WorkItemCode(LaneOf(sa), Dimension[sa]))
       [] OTHER ->
            \E c \in {preloadedValueForSVA[sa]} : \E i \in {Ensure(info, c)} :
              Emit(stage, i, StoreChannels(LaneOf(sa), i.at[c], getArgumentLaneSize(sa)))
  /\ UNCHANGED snapshot

\* Values whose register has changed go back to the one the kernel reads.
RestoreShifted ==
  /\ stage = "args" /\ todo = {}
  /\ Emit("preloaded", info,
       FlattenSeq([n \in 1 .. 12 |->
         LET c == (UserClasses \o SystemClasses)[n]
         IN IF c \in DOMAIN snapshot.at /\ snapshot.at[c] # info.at[c]
            THEN Move(info.at[c], snapshot.at[c], Registers(c)) ELSE <<>>]))
  /\ UNCHANGED <<snapshot, todo>>

getMaxNumUserSGPRs == 16

\* The last instruction moves the array into a storage that is no vector register.
StoreArray == IF InVGPR(K.storage) THEN <<>> ELSE <<<<"store">>>>

\* Preloaded arguments are loaded by hand if the user registers do not suffice,
\* and moved if the number of user registers has changed.  That number counts
\* the preloaded arguments.
disableKernargPreload(i) == [i EXCEPT !.preload = 0, !.user = @ - K.preload]
RestorePreloaded ==
  /\ stage = "preloaded"
  /\ \E old \in {getNumUsedUserSGPRs(snapshot)}, new \in {getNumUsedUserSGPRs(info)} :
       IF K.preload = 0 THEN Emit("patched", info, StoreArray)
       ELSE IF new + K.preload > getMaxNumUserSGPRs
       THEN \E i \in {Ensure(info, "kernarg")} :
              Emit("patched", disableKernargPreload(i),
                [n \in 1 .. K.preload |-> <<"load arg", old + n - 1, i.at["kernarg"], n - 1>>]
                \o StoreArray)
       ELSE Emit("patched", info,
              (IF new = old THEN <<>> ELSE Move(new, old, K.preload)) \o StoreArray)
  /\ UNCHANGED <<snapshot, todo>>

-----------------------------------------------------------------------------
(* The wave.                                                                *)

\* The kernel argument pointer that the loader passes.
PointerPassed(k) ==
  IF ~Expanded(k) THEN "kernarg" ELSE IF k.kernarg THEN "extended" ELSE "implicit"

Content(c) == IF c = "kernarg" THEN PointerPassed(K) ELSE c

\* The registers that a descriptor has the hardware fill.  A user count that is too
\* low for the values has it load two values into one.
LoadedInto(at, n) == {c \in DOMAIN at : n \in at[c] .. at[c] + Registers(c) - 1}
InRegister(at, d, n) ==
  CASE Cardinality(LoadedInto(at, n)) > 1 -> Junk
    [] LoadedInto(at, n) # {} ->
         LET c == CHOOSE c \in LoadedInto(at, n) : TRUE IN <<Content(c), n - at[c]>>
    [] OTHER ->
         LET i == n - PreloadedAt(d)
         IN IF i \in 0 .. d.preload - 1
            THEN <<IF PointerPassed(K) = "kernarg" THEN "arg" ELSE "junk", i>> ELSE Junk
AtLaunch(d) ==
  LET at == Loaded(d)
  IN [s |-> [n \in 0 .. 23 |-> InRegister(at, d, n)],
      v |-> [n \in 0 .. 3 |->
               IF K.st.packed THEN (IF n = 0 THEN 0 .. d.workitem ELSE {})
               ELSE (IF n <= d.workitem THEN {n} ELSE {})],
      lanes |-> [n \in 0 .. 31 |-> Junk], kept |-> TRUE]

Known(m, s) == IF s \in DOMAIN m.s THEN m.s[s] ELSE Junk
Put(m, s, value) == IF s \in DOMAIN m.s THEN [m EXCEPT !.s[s] = value] ELSE m
PutPair(m, s, from, to) ==
  [m EXCEPT !.s[s]     = IF m.s[s] = <<from, 0>> /\ m.s[s + 1] = <<from, 1>> THEN <<to, 0>> ELSE Junk,
            !.s[s + 1] = IF m.s[s] = <<from, 0>> /\ m.s[s + 1] = <<from, 1>> THEN <<to, 1>> ELSE Junk]

\* The storages with scalar registers use them before anyone has set them.
Execute(m, i) ==
  CASE i[1] = "write" -> [m EXCEPT !.lanes[i[2]] = Known(m, i[3]),
                                   !.v = [n \in 0 .. 3 |-> IF n = SetupVGPR(K) THEN {} ELSE @[n]]]
    [] i[1] = "read"  -> Put(m, i[2], m.lanes[i[3]])
    [] i[1] = "move"  -> Put(m, i[2], Known(m, i[3]))
    [] i[1] = "wave"  ->
         IF i[2] = None THEN m
         ELSE IF Known(m, i[3]) # <<"pswo", 0>> THEN Put(Put(m, i[2], Junk), i[2] + 1, Junk)
         ELSE Put(Put(m, i[2], <<"wave", m.s[i[2]]>>), i[2] + 1, <<"wave", m.s[i[2] + 1]>>)
    [] i[1] = "set"   ->
         Put(m, 0, IF i[3][1] = "below" /\ Known(m, i[3][2]) # <<"pss", 0>> THEN Junk
                   ELSE <<"stack", 0>>)
    [] i[1] = "skip"  -> PutPair(m, i[2], "extended", "implicit")
    [] i[1] = "load"  -> PutPair(m, i[2], "extended", "kernarg")
    [] i[1] = "load arg" ->
         Put(m, i[2], IF Known(m, i[3]) = <<"kernarg", 0>> /\ Known(m, i[3] + 1) = <<"kernarg", 1>>
                      THEN <<"arg", i[4]>> ELSE Junk)
    [] i[1] = "first" -> Put(m, 0, IF i[4] \in m.v[i[3]] THEN <<"workitem", i[4]>> ELSE Junk)
    [] OTHER          -> [m EXCEPT !.kept = InTwoAGPRs(K.storage)]

Launch ==
  /\ stage = "printed"
  /\ wave' = <<FoldLeft(Execute, AtLaunch(printed[1]), code)>>
  /\ stage' = "launched"
  /\ UNCHANGED <<K, attrs, info, printed, snapshot, todo, code>>

\* The hardware has run the prologue, or there is an error.
Finished == stage \in {"launched", "failed"} /\ UNCHANGED <<entryVars, prologueVars>>

Next == \/ Lift /\ UNCHANGED prologueVars
        \/ emitInitialEntryKernelSetup \/ emitCodeToSetupScratch \/ emitKernargBufferExpansion
        \/ (\E sa \in ToSet(ScalarValueArgument) : StoreArgument(sa))
        \/ RestoreShifted \/ RestorePreloaded
        \/ EmitDescriptor /\ UNCHANGED prologueVars
        \/ Launch \/ Finished

Spec == PrologueInit /\ [][Next]_<<entryVars, prologueVars>>

-----------------------------------------------------------------------------
(* Properties.                                                              *)

Reads(k) == DOMAIN Loaded(Original(k)) \ (IF k.kernarg THEN {} ELSE {"kernarg"})

\* What was forced on, and whether the queue pointer was added once more.
Forced     == DOMAIN info.at \ DOMAIN snapshot.at
QueueAgain == Expanded(K) /\ QueueHidden(K) /\ "queue_ptr" \in K.user

\* The buffer is loaded or not by the sub-target, whatever the descriptor says.
OtherBuffer == ("psb" \in K.user) # (~K.st.archfs /\ ~K.st.flat)

\* The code takes a user value that it forces on to be behind all others, and what
\* is there already not to move for it.  The hardware places the user values in the
\* order of their classes and the system values behind the user count.  So a value
\* is elsewhere, and is not moved back, if
\*   - it is a user value behind one that is forced on and printed,
\*   - it is a system value and the count changed, by a value that was forced on
\*     or added again, or by the arguments that are no longer preloaded,
\*   - the printed descriptor loads the buffer, the private segment size or the
\*     workgroup info otherwise than the original, or the lifted function did not
\*     know of FLAT_SCRATCH_INIT;
\* and the queue pointer that was added again is moved back from where it is not.
Displaced(c) ==
  \/ OtherBuffer
  \/ /\ c \in ToSet(UserClasses)
     /\ \/ c \in {"pss", "flat_scratch"} \/ (c = "queue_ptr" /\ QueueAgain)
        \/ \E b \in Forced \cap Flagged : InFront(b, c)
  \/ /\ c \in ToSet(SystemClasses)
     /\ \/ Forced \cap ToSet(UserClasses) # {} \/ QueueAgain \/ "flat_scratch" \in K.user
        \/ info.preload # K.preload
        \/ "wginfo" \in K.system /\ c \in {"wginfo", "pswo"}

\* The preloaded arguments are not loaded where the pointer is to the extended
\* segment, and are moved from where they are not where the user registers change.
PreloadLost ==
  \/ Expanded(K) \/ "pss" \in K.user
  \/ Forced \cap Flagged # {} \/ info.preload # K.preload

\* Each register the original descriptor has a value loaded into holds that value
\* when the first instruction of the application runs: the values and the arguments
\* it reads, at the registers it was compiled for, and its work-item ids.  Only
\* what is displaced, as said above, does not.
AppArgumentsInPlace ==
  wave # <<>> =>
    /\ \A c \in Reads(K) : ~Displaced(c) =>
         \A ch \in 0 .. Registers(c) - 1 :
           wave[1].s[Loaded(Original(K))[c] + ch] = <<c, ch>>
    /\ ~PreloadLost =>
         \A n \in 0 .. K.preload - 1 :
           wave[1].s[PreloadedAt(Original(K)) + n] = <<"arg", n>>
    /\ \A dim \in 0 .. K.workitem : dim \in wave[1].v[IF K.st.packed THEN 0 ELSE dim]

Expected(sa, ch) ==
  CASE sa = "IMPLICIT_ARG_BUFFER" -> <<"implicit", ch>>
    [] sa \in DOMAIN Dimension -> <<"workitem", Dimension[sa]>>
    [] K.payload.frame /\ sa \in {PSB, "FLAT_SCRATCH"} /\ ch < 2 ->
         <<"wave", <<preloadedValueForSVA[sa], ch>>>>
    [] OTHER -> <<preloadedValueForSVA[sa], ch>>

\* The arguments that the frames of the payloads need.
ForFrames(k) == IF k.payload.frame THEN DOMAIN ScratchLanes(k.st).args ELSE {}

\* A value is not where the code reads it if it is displaced; and one that is forced
\* on, if its flag is not set, or if it is not the only one and behind all others.
Misread(c) ==
  IF c \notin Forced THEN Displaced(c)
  ELSE \/ c \notin Flagged \/ K.preload > 0 \/ OtherBuffer \/ QueueAgain
       \/ "flat_scratch" \in K.user
       \/ (Forced \cap ToSet(UserClasses)) \ {c} # {}
       \/ \E d \in K.user : InFront(c, d)

\* An argument has not been stored if the value it comes from is misread, if it is
\* a work-item id the kernel is not launched with, or if it is computed with the
\* wave byte offset or FLAT_SCRATCH_INIT where these are misread or not known.
Unfilled(sa) ==
  IF sa \in DOMAIN Dimension THEN Dimension[sa] > K.workitem
  ELSE \/ Misread(IF sa = "IMPLICIT_ARG_BUFFER" THEN "kernarg" ELSE preloadedValueForSVA[sa])
       \/ K.payload.frame /\ (sa = "FLAT_SCRATCH" \/ (sa = PSB /\ Misread("pswo")))

\* Whatever a payload asks for is in its lanes of the array when the application
\* starts, and so is a stack pointer if one of them has a frame, but for what is
\* unfilled as said above.  The array itself is lost where it is spilled to the
\* scratch that none of the instructions set up.
ArrayFilled ==
  wave # <<>> /\ usesSVA(K) =>
    /\ InVGPR(K.storage) \/ InTwoAGPRs(K.storage) => wave[1].kept
    /\ \A sa \in Requested(K) \cup ForFrames(K) :
         ~Unfilled(sa) /\ (sa = "KERNEL_ARG_PTR" => K.kernarg) =>
           \A ch \in 0 .. getArgumentLaneSize(sa) - 1 :
             wave[1].lanes[LaneOf(sa) + ch] = Expected(sa, ch)
    /\ K.payload.frame /\ ~(K.dynamic /\ Misread("pss")) =>
         wave[1].lanes[StackPointerStoreLane] = <<"stack", 0>>
=============================================================================
