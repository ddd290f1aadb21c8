------------------------------ MODULE SvaSpecs ------------------------------
(***************************************************************************)
(* The layout of the state value array (SVA): which lane of the VGPR that  *)
(* the instrumentation of a wave keeps for itself holds which value.       *)
(*                                                                         *)
(* Lanes 0 and 1 take the application's stack and frame pointers while a   *)
(* payload runs, lane 2 holds the tool's stack pointer.  The lanes after   *)
(* them depend on the sub-target and on the scalar arguments that the      *)
(* payloads ask for with luthier::readSVA.                                 *)
(***************************************************************************)
EXTENDS Naturals, FiniteSets, SequencesExt

PSB == "WAVEFRONT_PRIVATE_SEGMENT_BUFFER"

\* The scalar arguments, in the order of the enumeration.
ScalarValueArgument ==
  <<PSB, "KERNEL_ARG_PTR", "DISPATCH_ID", "FLAT_SCRATCH", "DISPATCH_PTR",
    "QUEUE_PTR", "WORK_ITEM_PRIVATE_SEGMENT_SIZE", "IMPLICIT_ARG_BUFFER",
    "WORKGROUP_ID_X", "WORKGROUP_ID_Y", "WORKGROUP_ID_Z",
    "WORKITEM_ID_X", "WORKITEM_ID_Y", "WORKITEM_ID_Z">>

TwoLanes == {"KERNEL_ARG_PTR", "DISPATCH_ID", "FLAT_SCRATCH", "DISPATCH_PTR",
             "QUEUE_PTR", "IMPLICIT_ARG_BUFFER"}

getArgumentLaneSize(sa) ==
  CASE sa = PSB -> 4 [] sa \in TwoLanes -> 2 [] OTHER -> 1

StackPointerRegSpillLane  == 0
FramePointerRegSpillLane == 1
StackPointerStoreLane     == 2

\* The arguments that need a lane: those the calls name, and every one when
\* the prototype does not start at a kernel, for then the wave already runs
\* with an SVA that holds them all.
SAsUsed(called, kernelEntry) ==
  IF kernelEntry THEN called ELSE ToSet(ScalarValueArgument)

\* Insertion into the map from arguments to lanes keeps an entry that is there.
Insert(args, sa, lane) == IF sa \in DOMAIN args THEN args ELSE (sa :> lane) @@ args

\* A sub-target: archfs has an architected flat scratch, flat has it enabled.
\* The buffer resource and FLAT_SCRATCH get lanes for the tool's values and
\* for the application's, whether a payload reads them or not.
ScratchLanes(st) ==
  LET psb == ~st.flat /\ ~st.archfs
      fs0 == StackPointerStoreLane + 1 + (IF psb THEN 8 ELSE 0)
  IN [args |-> (IF psb THEN PSB :> StackPointerStoreLane + 1 ELSE <<>>)
               @@ (IF st.archfs THEN <<>> ELSE "FLAT_SCRATCH" :> fs0),
      psbSpill |-> IF psb THEN {StackPointerStoreLane + 5} ELSE {},
      fsSpill  |-> IF st.archfs THEN {} ELSE {fs0 + 2},
      next     |-> IF st.archfs THEN fs0 ELSE fs0 + 4]

\* One argument after the other, in the order of the enumeration: the lane
\* counter advances for an argument that has lanes already, too.
AssignIfUsed(layout, sa, used, st) ==
  IF sa \notin used \/ (st.archfs /\ sa \in {PSB, "FLAT_SCRATCH"}) THEN layout
  ELSE [layout EXCEPT !.args = Insert(@, sa, layout.next),
                      !.next = @ + getArgumentLaneSize(sa)]

SvaLayout(used, st) ==
  FoldLeft(LAMBDA layout, sa : AssignIfUsed(layout, sa, used, st),
           ScratchLanes(st), ScalarValueArgument)

LaneRange(base, count) == base .. base + count - 1

\* The lanes of each role, by the name of the role.
RoleLanes(layout) ==
  ("sp" :> {StackPointerRegSpillLane}) @@ ("fp" :> {FramePointerRegSpillLane})
  @@ ("store" :> {StackPointerStoreLane})
  @@ ("psb" :> UNION {LaneRange(l, 4) : l \in layout.psbSpill})
  @@ ("fs" :> UNION {LaneRange(l, 2) : l \in layout.fsSpill})
  @@ [sa \in DOMAIN layout.args |->
        LaneRange(layout.args[sa], getArgumentLaneSize(sa))]

OccupiedLanes(layout) ==
  UNION {RoleLanes(layout)[role] : role \in DOMAIN RoleLanes(layout)}

\* The lowest free lanes, at most n of them, for the branch relaxation to park
\* two registers of the application in.
findLowestFreeLanes(layout, n, waveSize) ==
  LET free == (0 .. waveSize - 1) \ OccupiedLanes(layout)
  IN {l \in free : Cardinality({m \in free : m < l}) < n}
=============================================================================
