------------------------------ MODULE Payload -------------------------------
(***************************************************************************)
(* An injected payload: the function of the tool that runs in place of a   *)
(* PATCHPOINT of the application's code, in the application's wave.        *)
(*                                                                         *)
(* Three passes make it transparent.  The lowering of the intrinsics turns *)
(* a readReg or writeReg into virtual registers that an SSA updater joins  *)
(* across blocks, or, for the registers the payload's own frame needs,     *)
(* into a lane of the state value array (SVA).  The preservation pass      *)
(* copies every register that is live at the patch point and that the      *)
(* payload does not access.  The prologue and epilogue pass saves the      *)
(* frame registers in the SVA and sets up the tool's stack.                *)
(*                                                                         *)
(* The passes are operators on a payload; the actions run the payload they *)
(* leave, with a register allocator that may use every register it owns.   *)
(***************************************************************************)
EXTENDS SvaSpecs

CONSTANT
  Payloads   \* the payloads, with the state of the application they run in

VARIABLES
  payload,  \* the payload that runs
  pc,       \* <<"enter">>, then <<block, operation>>, then <<block, 0>> behind the return
  regs,     \* the physical registers, by 32-bit channel
  lanes,    \* the lanes of the SVA
  copied,   \* the values of the copies of registers in the entry block
  joined,   \* per channel, the value the SSA form has at the block's start
  written,  \* per channel, the value last defined in the block
  loaded,   \* the SVA lanes as they are read at the end of the entry block
  app,      \* what the application should find in each channel
  seen,     \* the last read: where it is, what it should give, what it gives
  merged    \* history: channels whose half was put into what was no longer their value

vars == <<payload, pc, regs, lanes, copied, joined, written, loaded, app, seen, merged>>

-----------------------------------------------------------------------------
(* Registers.  A register of several 32-bit channels stands for a pair, for *)
(* the private segment buffer (PSB) and for FLAT_SCR.                       *)

Wide == [ab |-> <<"a", "b">>, psb |-> <<"psb0", "psb1">>, fs |-> <<"fs_lo", "fs_hi">>]

Channels(r)  == IF r \in DOMAIN Wide THEN ToSet(Wide[r]) ELSE {r}
AllChannels == {"a", "b", "sp", "fp", "psb0", "psb1", "fs_lo", "fs_hi"}
ChannelsOf(rs) == UNION {Channels(r) : r \in rs}
SuperRegs(r) == {w \in DOMAIN Wide : w # r /\ r \in Channels(w)}

\* The lane of channel number i of a wide register that starts at a lane.
WideLane(wide, base) ==
  [c \in Channels(wide) |-> base + (IF c = Wide[wide][1] THEN 0 ELSE 1)]

-----------------------------------------------------------------------------
(* A payload.                                                               *)

Blocks(p)   == DOMAIN p.blocks
IsReturn(p, b) == p.blocks[b].succ = {}
Ops(p, b)   == ToSet(p.blocks[b].ops)
AllOps(p)  == UNION {Ops(p, b) : b \in Blocks(p)}

Reads(p)  == {o.r : o \in {q \in AllOps(p) : q.k = "read"}}
Writes(p) == {o.r : o \in {q \in AllOps(p) : q.k = "write"}}
SVAs(p)   == {o.r : o \in {q \in AllOps(p) : q.k = "sva"}}

Demand(p)  == <<SAsUsed(SVAs(p), p.kernel), p.st>>
Layouts   == [d \in {Demand(p) : p \in Payloads} |-> SvaLayout(d[1], d[2])]
Layout(p) == Layouts[Demand(p)]

PSBAvailable(p) == ~p.st.archfs /\ ~p.st.flat
FSAvailable(p)  == ~p.st.archfs

-----------------------------------------------------------------------------
(* Lowering of the intrinsics.                                              *)

\* The SVA lane through which a register is read and written, if it is one of
\* the payload's frame registers: a channel of PSB or of FLAT_SCR, not the whole.
FrameSVALane(p, r) ==
  CASE r = "sp" -> {StackPointerRegSpillLane}
    [] r = "fp" -> {FramePointerRegSpillLane}
    [] r \in Channels("psb") -> {WideLane("psb", l)[r] : l \in Layout(p).psbSpill}
    [] r \in Channels("fs")  -> {WideLane("fs", l)[r] : l \in Layout(p).fsSpill}
    [] OTHER -> {}

Routed(p, o)  == o.k \in {"read", "write"} /\ FrameSVALane(p, o.r) # {}
ByChannel(p, o) == o.k \in {"read", "write", "half"} /\ ~Routed(p, o)
Touched(p, b) == ChannelsOf({o.r : o \in {q \in Ops(p, b) : ByChannel(p, q)}})
Defines(p, o, c) == o.k \in {"write", "half"} /\ ByChannel(p, o) /\ c \in Channels(o.r)

\* As Initialized, were the updater not told of the entry block's copy.
Initialized_untold(p, c) == {}

\* The blocks for which the updater of a channel has a value: the entry block,
\* for the copy of the register, and the blocks that write the channel.
Initialized(p, c) == IF \E b \in Blocks(p) : c \in Touched(p, b) THEN {1} ELSE {}

AvailableValues(p, c) ==
  Initialized(p, c) \cup {b \in Blocks(p) : \E o \in Ops(p, b) : Defines(p, o, c)}

\* The channels that a return block restores: those that were accessed by the
\* time the walk over the blocks reaches it.
Restored(p, b) ==
  IF IsReturn(p, b) THEN UNION {Touched(p, e) : e \in 1 .. b} ELSE {}

\* Frame lanes are allocated from lane 0 up to the highest that is asked for,
\* the lanes of the scalar arguments after them, in the order of their lanes.
FrameLanes(p) ==
  LET used == UNION {FrameSVALane(p, o.r) : o \in {q \in AllOps(p) : Routed(p, q)}}
  IN IF used = {} THEN 0 ELSE Max(used) + 1

MaterializedLane(p, sa) ==
  LET before == {x \in SVAs(p) : Layout(p).args[x] < Layout(p).args[sa]}
  IN FrameLanes(p) + MapThenSumSet(getArgumentLaneSize, before)

-----------------------------------------------------------------------------
(* Preservation of the live registers.                                      *)

\* As FrameOwned, were the buffer resource frame-owned on every target.
FrameOwned_always(p) ==
  {"psb", "psb0", "psb1"} \cup (IF FSAvailable(p) THEN {"fs", "fs_lo", "fs_hi"} ELSE {})
  \cup (IF p.agree THEN {"sp", "fp"} ELSE {})

FrameOwned(p) ==
  (IF PSBAvailable(p) THEN {"psb", "psb0", "psb1"} ELSE {})
  \cup (IF FSAvailable(p) THEN {"fs", "fs_lo", "fs_hi"} ELSE {})
  \cup (IF p.agree THEN {"sp", "fp"} ELSE {})

UnpreservableArchReg(r) == r = "fs" \/ "fs" \in SuperRegs(r)

Preserved(p) ==
  {r \in p.live : /\ r \notin Reads(p) \cup Writes(p)
                  /\ r \notin FrameOwned(p)
                  /\ SuperRegs(r) \cap p.live = {}
                  /\ ~UnpreservableArchReg(r)}

-----------------------------------------------------------------------------
(* Prologue and epilogue.                                                   *)

\* The registers saved: the target's frame registers that are live, PSB and
\* FLAT_SCR as a whole.  The target function names its stack and frame pointers
\* as the payload does only when they agree.
PayloadUsed(p) ==
  {r \in p.live : \/ r \in {"sp", "fp"} /\ p.agree
                  \/ r = "psb" /\ PSBAvailable(p)
                  \/ r = "fs" /\ FSAvailable(p)}

HasStackObjects(p) == p.frame # "none" \/ FrameLanes(p) > 0 \/ SVAs(p) # {}
NeedsFPSetup(p) == p.frame = "calls"
UsesSVA(p) == HasStackObjects(p) \/ PayloadUsed(p) \cap {"sp", "fp"} # {}
RequiresAccessToStack(p) == UsesSVA(p) /\ (p.spilled \/ HasStackObjects(p))

\* The lanes a saved register goes to, and the lanes with the tool's values.
SpillLanes(p, r) ==
  CASE r = "sp"  -> "sp" :> StackPointerRegSpillLane
    [] r = "fp"  -> "fp" :> FramePointerRegSpillLane
    [] r = "psb" -> WideLane("psb", CHOOSE l \in Layout(p).psbSpill : TRUE)
    [] r = "fs"  -> WideLane("fs", CHOOSE l \in Layout(p).fsSpill : TRUE)

ToolLanes(p) ==
  ("sp" :> StackPointerStoreLane)
  @@ (IF PSBAvailable(p) THEN WideLane("psb", Layout(p).args[PSB]) ELSE <<>>)
  @@ (IF FSAvailable(p) THEN WideLane("fs", Layout(p).args["FLAT_SCRATCH"]) ELSE <<>>)

SavedLanes(p) ==
  LET used == IF UsesSVA(p) THEN PayloadUsed(p) ELSE {}
  IN [c \in ChannelsOf(used) |->
        LET r == CHOOSE r \in used : c \in Channels(r) IN SpillLanes(p, r)[c]]

\* The saved registers go to their lanes; then, if the payload needs scratch,
\* the tool's values come out of theirs.
SavedRegs(p) ==
  [l \in Range(SavedLanes(p)) |->
     regs[CHOOSE c \in DOMAIN SavedLanes(p) : SavedLanes(p)[c] = l]]

\* As ToolRegs, were the tool's descriptors loaded only where the application's
\* had to be saved.
ToolRegs_whenSaved(p) ==
  IF ~RequiresAccessToStack(p) THEN <<>>
  ELSE [c \in {"sp"} \cup (DOMAIN ToolLanes(p) \cap DOMAIN SavedLanes(p)) |->
          lanes[ToolLanes(p)[c]]]

ToolRegs(p) ==
  IF ~RequiresAccessToStack(p) THEN <<>>
  ELSE [c \in DOMAIN ToolLanes(p) |-> lanes[ToolLanes(p)[c]]]
       @@ (IF NeedsFPSetup(p) THEN "fp" :> lanes[StackPointerStoreLane] ELSE <<>>)

\* What the passes put before the terminator of a return block: the restores of
\* the lowering, those of the preservation pass, the epilogue.  The last one to
\* restore a register decides.
EpilogueRestores(p) == [c \in DOMAIN SavedLanes(p) |-> lanes[SavedLanes(p)[c]]]
PreservedRestores(p) == [c \in ChannelsOf(Preserved(p)) |-> copied[c]]

-----------------------------------------------------------------------------
(* The run of the payload.                                                  *)

App(c)  == <<"app", c>>
Lane(l) == <<"lane", l>>
Put(b, i) == <<"put", b, i>>
Half(v, old) == <<"half", v, IF old[1] = "half" THEN old[3] ELSE old>>
Junk      == <<"junk">>

WaveLanes == 0 .. 31
Untouched == [l \in WaveLanes |-> Lane(l)]

Init ==
  /\ payload \in Payloads
  /\ pc = <<"enter">>
  /\ regs = [c \in AllChannels |-> App(c)]
  /\ lanes = Untouched
  /\ copied = [c \in AllChannels |-> Junk] /\ joined = copied /\ written = copied
  /\ loaded = Untouched
  /\ app = regs
  /\ seen = [at |-> <<>>, app |-> Junk, got |-> Junk]
  /\ merged = {}

\* The registers that the allocator uses as it likes: all but the stack and
\* frame pointers and the scratch descriptors the payload has set up.
Allocatable(p) ==
  {"a", "b"} \cup (IF PSBAvailable(p) THEN {} ELSE Channels("psb"))

\* The prologue, the copies of the entry block, and what the allocator leaves.
Enter ==
  /\ pc = <<"enter">>
  /\ lanes' = SavedRegs(payload) @@ lanes
  /\ copied' = ToolRegs(payload) @@ regs
  /\ joined' = [c \in AllChannels |-> Junk]
  /\ written' = [c \in AllChannels |-> IF 1 \in Initialized(payload, c) THEN copied'[c] ELSE Junk]
  /\ regs' = [c \in AllChannels |-> IF c \in Allocatable(payload) THEN Junk ELSE copied'[c]]
  /\ pc' = <<1, 1>>
  /\ UNCHANGED <<payload, loaded, app, seen, merged>>

Running == Len(pc) = 2 /\ pc[2] > 0
Returned == Len(pc) = 2 /\ pc[2] = 0
Block   == pc[1]
AtOp    == Running /\ pc[2] <= Len(payload.blocks[Block].ops)
Op      == payload.blocks[Block].ops[pc[2]]
NextOp  == pc' = <<Block, pc[2] + 1>>

\* What the lowered code has in place of a channel: in the entry block the copy
\* made at its start, elsewhere the value the blocks before it leave.
ChannelValue(c) == IF Block = 1 THEN copied[c] ELSE joined[c]

\* The loads of SVA lanes sit at the end of the entry block.
LoadedLane(l) == IF Block = 1 THEN Junk ELSE loaded[l]

\* A read of a wide register gives the values of its channels.
ReadReg ==
  /\ AtOp /\ Op.k = "read"
  /\ \E l \in {FrameSVALane(payload, Op.r)} :
       seen' = IF l # {}
               THEN [at |-> pc, app |-> [c \in {Op.r} |-> app[c]],
                     got |-> [c \in {Op.r} |-> LoadedLane(Max(l))]]
               ELSE [at |-> pc, app |-> [c \in Channels(Op.r) |-> app[c]],
                     got |-> [c \in Channels(Op.r) |-> ChannelValue(c)]]
  /\ NextOp
  /\ UNCHANGED <<payload, regs, lanes, copied, joined, written, loaded, app, merged>>

WriteReg ==
  /\ AtOp /\ Op.k = "write"
  /\ app' = [c \in AllChannels |-> IF c \in Channels(Op.r) THEN Put(Block, pc[2]) ELSE app[c]]
  /\ IF Routed(payload, Op)
     THEN /\ lanes' = [lanes EXCEPT ![Max(FrameSVALane(payload, Op.r))] = Put(Block, pc[2])]
          /\ UNCHANGED written
     ELSE /\ written' = [c \in AllChannels |-> IF c \in Channels(Op.r) THEN Put(Block, pc[2])
                                               ELSE written[c]]
          /\ UNCHANGED lanes
  /\ merged' = merged \ Channels(Op.r)
  /\ NextOp
  /\ UNCHANGED <<payload, regs, copied, joined, loaded, seen>>

\* The channel was defined earlier in the block of the operation at at.
DefinedBefore(at, c) ==
  \E i \in 1 .. at[2] - 1 : Defines(payload, payload.blocks[at[1]].ops[i], c)

\* A write of the low half of a channel is inserted into the channel's value.
WriteHalf ==
  /\ AtOp /\ Op.k = "half"
  /\ app' = [app EXCEPT ![Op.r] = Half(Put(Block, pc[2]), @)]
  /\ written' = [written EXCEPT ![Op.r] = Half(Put(Block, pc[2]), ChannelValue(Op.r))]
  /\ merged' = IF DefinedBefore(pc, Op.r) THEN merged \cup {Op.r} ELSE merged
  /\ NextOp
  /\ UNCHANGED <<payload, regs, lanes, copied, joined, loaded, seen>>

ReadSVA ==
  /\ AtOp /\ Op.k = "sva"
  /\ seen' = [at |-> pc, app |-> Lane(Layout(payload).args[Op.r]),
               got |-> LoadedLane(MaterializedLane(payload, Op.r))]
  /\ NextOp
  /\ UNCHANGED <<payload, regs, lanes, copied, joined, written, loaded, app, merged>>

\* The value of a channel at the end of the block.
AtEnd(c) == IF Block \in AvailableValues(payload, c) THEN written[c] ELSE joined[c]

Branch(b) ==
  /\ Running /\ ~AtOp
  /\ b \in payload.blocks[Block].succ
  /\ joined' = [c \in AllChannels |-> AtEnd(c)]
  /\ written' = [c \in AllChannels |-> Junk]
  /\ loaded' = IF Block = 1 THEN lanes ELSE loaded
  /\ pc' = <<b, 1>>
  /\ UNCHANGED <<payload, regs, lanes, copied, app, seen, merged>>

LoweringRestores(p, b) == [c \in Restored(p, b) |-> AtEnd(c)]

Return ==
  /\ Running /\ ~AtOp
  /\ IsReturn(payload, Block)
  /\ regs' = EpilogueRestores(payload) @@ PreservedRestores(payload)
             @@ LoweringRestores(payload, Block) @@ regs
  /\ pc' = <<Block, 0>>
  /\ UNCHANGED <<payload, lanes, copied, joined, written, loaded, app, seen, merged>>

Over == Returned /\ UNCHANGED vars

Next == Enter \/ ReadReg \/ WriteReg \/ WriteHalf \/ ReadSVA
        \/ (\E b \in 1 .. Len(payload.blocks) : Branch(b)) \/ Return \/ Over

Spec == Init /\ [][Next]_vars

-----------------------------------------------------------------------------
(* What the passes do not carry out.                                        *)

\* What a channel held before the half of it that was written last.
Base(v) == IF v[1] = "half" THEN v[3] ELSE v
ByApp(c) == app[c] = App(c)

\* A value put by an access of a frame register as part of a wider one, which goes
\* past its lane; or, the other way round, one put through the lane.
PastLane(v)  == v[1] = "put" /\ ~Routed(payload, payload.blocks[v[2]].ops[v[3]])
InLane(v) == v[1] = "put" /\ Routed(payload, payload.blocks[v[2]].ops[v[3]])

\* The operations are behind the prologue, so the copy of a register that the
\* prologue has loaded for the tool is the tool's value.
OfTool(c) == c \in DOMAIN ToolRegs(payload)

\* A register that the prologue loads for the tool and does not save.
Unsaved(c) == OfTool(c) /\ c \notin DOMAIN SavedLanes(payload)

\* A write that goes to the lane of a frame register no epilogue takes it from.
LaneUnread(c) == FrameSVALane(payload, c) # {} /\ c \notin DOMAIN SavedLanes(payload) /\ ~ByApp(c)

\* A write past the lane that the epilogue takes the register from.
LaneRestored(c) == c \in DOMAIN SavedLanes(payload) /\ PastLane(app[c])

\* A part was written of a register that the preservation pass restores whole.
PartPreserved(c) == c \in ChannelsOf(Preserved(payload)) /\ ~ByApp(c)

\* A channel that the walk over the blocks first meets behind the return block.
MetLate(c) == /\ \E b \in Blocks(payload) : c \in Touched(payload, b)
              /\ c \notin Restored(payload, pc[1])

\* A read of a channel: the updater knows no value of the block itself.
ChannelMissed(at, c) ==
  DefinedBefore(at, c) \/ c \in merged \/ (OfTool(c) /\ Base(seen.app[c]) = App(c))
  \/ InLane(seen.app[c])

\* A read of a frame register: its lane is loaded once, at the end of the entry
\* block, and holds the application's value only if the prologue saved it.
LaneMissed(at, c) ==
  \/ at[1] = 1
  \/ c \notin DOMAIN SavedLanes(payload) /\ seen.app[c] = App(c)
  \/ seen.app[c][1] = "put" /\ seen.app[c][2] # 1
  \/ PastLane(seen.app[c])

\* A read of a scalar argument: its lanes are counted from the last frame lane the
\* payload names, which need not be where the layout has the argument.
ArgumentMissed(at, sa) ==
  at[1] = 1 \/ MaterializedLane(payload, sa) # Layout(payload).args[sa]

-----------------------------------------------------------------------------
(* Properties.                                                              *)

\* A register that is live after the patch point holds, when the payload
\* returns, what the payload last wrote to it, or else what it held before:
\* lowering, preservation and epilogue between them restore every one, whatever
\* the register allocator did, with the exceptions above.
AppStateAfter ==
  Returned => \A c \in ChannelsOf(payload.live) :
    \/ regs[c] = app[c]
    \/ Unsaved(c) \/ LaneUnread(c) \/ LaneRestored(c)
    \/ PartPreserved(c) \/ MetLate(c) \/ c \in merged

\* The last read of a channel, a frame register or an argument.
SeenOp == payload.blocks[seen.at[1]].ops[seen.at[2]]

\* A readReg or readSVA gives the value that the application, or the payload
\* itself on the path taken, last put there, with the exceptions above.
ReadsSeeApp ==
  seen.at # <<>> =>
    CASE SeenOp.k = "sva"         -> \/ seen.got = seen.app
                                     \/ ArgumentMissed(seen.at, SeenOp.r)
      [] Routed(payload, SeenOp)  -> \/ seen.got = seen.app
                                     \/ LaneMissed(seen.at, SeenOp.r)
      [] OTHER -> \A c \in Channels(SeenOp.r) :
                    seen.got[c] = seen.app[c] \/ ChannelMissed(seen.at, c)

\* As the comments on the lowering have it: reads that come after a write see it,
\* and the arguments land on the lanes of the layout.
ReadsSeeLastWrite == seen.got = seen.app

\* While a payload that needs scratch runs, the stack pointer and the scratch
\* descriptors are the tool's, never the application's.
OnToolStack ==
  Running /\ RequiresAccessToStack(payload)
    => \A c \in DOMAIN ToolLanes(payload) : regs[c] = Lane(ToolLanes(payload)[c])

\* The lanes of the SVA that do not hold the application's registers survive
\* the payload, and no two roles of the layout share a lane.
SvaKept ==
  LET layout == Layout(payload)
      roles  == DOMAIN RoleLanes(layout)
  IN /\ \A l \in WaveLanes : lanes[l] = Lane(l)
          \/ l \in UNION {RoleLanes(layout)[r] : r \in {"sp", "fp", "psb", "fs"}}
     /\ \A r, s \in roles : r # s => RoleLanes(layout)[r] \cap RoleLanes(layout)[s] = {}
     /\ findLowestFreeLanes(layout, 2, 64) \cap OccupiedLanes(layout) = {}
=============================================================================
