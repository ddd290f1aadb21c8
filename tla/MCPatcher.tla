----------------------------- MODULE MCPatcher -----------------------------
(***************************************************************************)
(* Three concerns of the target module patcher, one at a time: the kernel  *)
(* descriptor and the prologue (KernelPrologue), the outlined payloads     *)
(* (Outlining, which is extended) and the relaxation of branches over what *)
(* they added (BranchRelaxation).  Variables that a part does not have     *)
(* stay "idle".                                                            *)
(***************************************************************************)
EXTENDS Outlining, SequencesExt

CONSTANTS Kernels, Fns, BranchBits, kRelaxIterLimit

VARIABLES
  part,   \* "prologue", "outlining" or "relaxation"
  K, stage, attrs, info, printed, snapshot, todo, code, wave,  \* of KernelPrologue
  fn, layout, cur, conds, changed, rounds   \* of BranchRelaxation; phase is of both others

Entry == INSTANCE MCKernelPrologue
KernelsOf == INSTANCE MCKernelPrologue WITH Kernels <- {}
SmallKernels == KernelsOf!SmallKernels

Relaxed == INSTANCE MCBranchRelaxation WITH SGPRs <- 0 .. 3
FnsOf == INSTANCE MCBranchRelaxation WITH SGPRs <- 0 .. 3, Fns <- {}
SmallFns == FnsOf!MCFns

-----------------------------------------------------------------------------
(* Outlining: a block with two patch points, where each register is live or *)
(* dead at each of them, storage or not, used by a payload or not.          *)

MCSGPRs == 0 .. 6

Ins(use, def) == [use |-> use, def |-> def, payload |-> 0, storage |-> {}]
Site(k, reads, writes, storage) ==
  [use |-> reads, def |-> writes, payload |-> k, storage |-> storage]
Body(def, calls) == [def |-> def, calls |-> calls, setpc |-> TRUE]

Object(home, kind, name, refs) ==
  [home |-> home, kind |-> kind, name |-> name, type |-> "void()", llvm |-> FALSE,
   refs |-> refs, mirRefs |-> {}, payload |-> 0, mf |-> kind # "decl" /\ kind # "var"]

\* A kernel that calls an intrinsic; a hook that calls it too and reads a
\* counter; the payloads, which call the hook; and what the compiler keeps.
TwoModules ==
  [kernel  |-> Object("T", "fn", "kernel", {"intrT"}),
   intrT   |-> Object("T", "decl", "llvm.amdgcn.x", {}),
   intrI   |-> Object("I", "decl", "llvm.amdgcn.x", {}),
   extern  |-> Object("I", "decl", "extern", {}),
   counter |-> [Object("I", "var", "counter", {"intrI"}) EXCEPT !.mf = FALSE],
   hook    |-> Object("I", "fn", "hook", {"intrI", "counter", "extern"}),
   used    |-> [Object("I", "var", "llvm.used", {"hook", "p1"}) EXCEPT !.llvm = TRUE],
   p1      |-> [Object("I", "payload", "p1", {"hook", "intrI"}) EXCEPT !.payload = 1,
                                                            !.mirRefs = {"hook"}],
   p2      |-> [Object("I", "payload", "p2", {"counter"}) EXCEPT !.payload = 2,
                                                            !.mirRefs = {"counter"}]]

Program(instructions, liveout, p1, p2) ==
  [code |-> instructions, liveout |-> liveout, payloads |-> <<p1, p2>>, objects |-> TwoModules]

\* The second instruction sets the condition code between the patch points.
TwoPatchPoints ==
  {Program(<<Ins({}, a \cup scc), Site(1, reads, {}, storage), Ins(a \cup scc, b),
             Site(2, {}, writes, storage), Ins(b, {})>>,
           out, Body(d1, c), Body(d2, {})) :
     a \in {{0}, {0, 2}, {1, 2, 4}}, b \in {{2}, {0, 4}}, scc \in {{}, {SCC}},
     reads \in {{}, {5}, {SCC}}, writes \in {{}, {3}}, storage \in {{1}, {3}, {6}},
     out \in {{}, {SCC}}, d1 \in {{}, {3, 4}, {0, 2, 5}}, d2 \in {{}, {2}}, c \in {{}, {4}}}

\* A payload without machine code, with a return of another kind, or with machine
\* code that refers to what both modules declare.
Broken ==
  LET p == Program(<<Site(1, {}, {}, {}), Site(2, {}, {}, {})>>, {}, Body({}, {}), Body({}, {}))
  IN {[p EXCEPT !.objects.p2.mf = FALSE], [p EXCEPT !.payloads[2].setpc = FALSE],
      [p EXCEPT !.objects.p1.mirRefs = {"hook", "intrI"}]}

\* The array is never kept in a register the application uses.
AppUses(p) == p.liveout \cup UNION {i.use \cup i.def : i \in ToSet(p.code)}
KeptIn(p)  == UNION {i.storage : i \in ToSet(p.code)}

SmallPrograms ==
  {p \in TwoPatchPoints \cup Broken : AppUses(p) \cap KeptIn(p) = {} /\ IsRegular(p)}

-----------------------------------------------------------------------------
Idle == "idle"
ofOutlining == <<prog, nth, scavenged, owner, mir, refers, outlined, pc, file, app, inside>>
ofRelaxation == <<fn, layout, cur, conds, changed, rounds>>
ofPrologue == <<K, stage, attrs, info, printed, snapshot, todo, code, wave>>
IdleOutlining == /\ prog = Idle /\ nth = Idle /\ scavenged = Idle /\ owner = Idle
                 /\ mir = Idle /\ refers = Idle /\ outlined = Idle /\ pc = Idle
                 /\ file = Idle /\ app = Idle /\ inside = Idle
IdleRelaxation == /\ fn = Idle /\ layout = Idle /\ cur = Idle
                  /\ conds = Idle /\ changed = Idle /\ rounds = Idle
IdlePrologue == /\ K = Idle /\ stage = Idle /\ attrs = Idle /\ info = Idle /\ printed = Idle
                /\ snapshot = Idle /\ todo = Idle /\ code = Idle /\ wave = Idle

PartsInit ==
  \/ part = "prologue" /\ Entry!PrologueInit /\ phase = Idle /\ IdleOutlining /\ IdleRelaxation
  \/ part = "outlining" /\ Init /\ IdlePrologue /\ IdleRelaxation
  \/ part = "relaxation" /\ Relaxed!Init /\ IdlePrologue /\ IdleOutlining

PartsNext ==
  \/ part = "prologue" /\ Entry!Next /\ UNCHANGED <<part, phase, ofOutlining, ofRelaxation>>
  \/ part = "outlining" /\ Next /\ UNCHANGED <<part, ofPrologue, ofRelaxation>>
  \/ part = "relaxation" /\ Relaxed!Next /\ UNCHANGED <<part, ofPrologue, ofOutlining>>

PartsSpec == PartsInit /\ [][PartsNext]_<<part, phase, ofPrologue, ofOutlining, ofRelaxation>>

-----------------------------------------------------------------------------
(* The properties of the parts; each is stated in full in its own module,   *)
(* and OutliningSound, which holds while nothing is outlined, as it stands. *)

\* The lifted function believes each value to be where the hardware loads it, and
\* the descriptor printed for an unpatched kernel is the one it came with.
LiftedAsLoaded == part = "prologue" => Entry!ArgInfoIsHardware /\ Entry!DescriptorRoundTrip

\* The application finds each value at the register it was compiled for when the
\* prologue, which shifts and clobbers them, is over.
ArgumentsInPlace == part = "prologue" => Entry!AppArgumentsInPlace

\* Whatever a payload asks for is in its lanes of the array by then.
ArrayIsFilled == part = "prologue" => Entry!ArrayFilled

\* When the patcher accepts a function, each direct branch reaches its target
\* with a displacement of the width the instruction has, or, where the relaxer
\* left it alone or gave up, within the patcher's limit.
BranchesReach == part = "relaxation" => Relaxed!BranchesReach

\* Each way out of a block leads where it led before, whatever was put between,
\* and finds the live registers as the block left them.
EdgesKept == part = "relaxation" => Relaxed!EdgesKept
=============================================================================
