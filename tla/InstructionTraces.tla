------------------------- MODULE InstructionTraces -------------------------
(***************************************************************************)
(* Discovery of the instruction traces of one function: the worklist of    *)
(* InstructionTraces::discoverTraces, which disassembles forward from the  *)
(* entry point and from every direct branch target it meets, and the       *)
(* linear sweep of disassembleTrace it calls                               *)
(* (lib/ToolCodeGen/InstructionTracesAnalysis.cpp).                        *)
(*                                                                         *)
(* Memory is one allocation of Limit four-byte words, addressed 0..Limit-1.*)
(* What a word decodes to is a record: the class of the instruction as far *)
(* as discovery tells classes apart, its size in words, and the target of  *)
(* a branch, or of a call or jump whose target the call graph evaluates to *)
(* a constant. A word inside a two-word instruction has its own decoding.  *)
(***************************************************************************)
EXTENDS Integers, FiniteSets

CONSTANTS
    Limit,      \* words in the allocation
    Programs    \* the programs the allocation may hold

Addresses == 0 .. Limit - 1

\* The target of an indirect call or jump that no constant evaluates to.
Unknown == -1

Ops == {"salu", "valu", "exec",        \* scalar, vector, writes EXEC
        "cond", "branch",              \* direct branches
        "call", "setpc", "endpgm",
        "data"}                        \* does not decode

Instruction == [op : Ops, size : {1, 2}, target : Addresses \cup {Unknown, Limit}]

ASSUME LimitAssumption == Limit \in Nat \ {0}
ASSUME ProgramsAssumption == Programs \subseteq [Addresses -> Instruction]

VARIABLES
    code,                     \* the program in the allocation
    entry,                    \* the function's entry address
    unvisitedTraceAddresses,  \* UnvisitedTraceAddresses
    traces,                   \* Out->Traces
    directBranchTargets,      \* Out->DirectBranchTargets
    sweepFailed               \* disassembleTrace returned an error

traceVars == <<unvisitedTraceAddresses, traces, directBranchTargets, sweepFailed>>

-----------------------------------------------------------------------------

After(a) == a + code[a].size

IsDirectBranch(a) == code[a].op \in {"cond", "branch"}

EndsTrace(a) == code[a].op \in {"branch", "call", "setpc", "endpgm"}

Decodes(a) == code[a].op # "data" /\ After(a) <= Limit

\* An address is covered when it starts an instruction of a known trace.
Covered(a) == \E t \in traces : a \in t.addrs

(***************************************************************************)
(* The sweep from start: it stops behind a trace terminator, before an     *)
(* address an existing trace covers, and where no allocation holds the     *)
(* address. The end of the allocation is computed as start + size, so only *)
(* a sweep from the base of the allocation stops at the real end; any      *)
(* other one reads on behind it, which is modelled by its failure.         *)
(***************************************************************************)
Sweep(start) ==
    LET from[a \in 0 .. Limit + 1] ==
            CASE Covered(a)  -> [addrs |-> {}, ok |-> TRUE]
              [] a >= Limit  -> [addrs |-> {}, ok |-> start = 0]
              [] OTHER       ->
                    IF ~Decodes(a) THEN [addrs |-> {}, ok |-> FALSE]
                    ELSE IF EndsTrace(a) THEN [addrs |-> {a}, ok |-> TRUE]
                    ELSE LET rest == from[After(a)]
                         IN  [rest EXCEPT !.addrs = @ \cup {a}]
    IN  IF start \in Addresses THEN from[start] ELSE [addrs |-> {}, ok |-> TRUE]

Lowest(S) == CHOOSE a \in S : \A b \in S : a <= b
Highest(S) == CHOOSE a \in S : \A b \in S : b <= a

BranchTargetsOf(addrs) == {code[a].target : a \in {b \in addrs : IsDirectBranch(b)}}

\* discoverTraces starts with the entry point alone.
StartTraces(e) ==
    /\ unvisitedTraceAddresses' = {e}
    /\ traces' = {}
    /\ directBranchTargets' = {}
    /\ sweepFailed' = FALSE

\* The lowest unvisited address was swept over by an earlier trace.
SkipCoveredAddress ==
    /\ unvisitedTraceAddresses # {}
    /\ ~sweepFailed
    /\ LET a == Lowest(unvisitedTraceAddresses) IN
        /\ Covered(a)
        /\ unvisitedTraceAddresses' = unvisitedTraceAddresses \ {a}
    /\ UNCHANGED <<traces, directBranchTargets, sweepFailed>>

\* The lowest unvisited address starts a trace of its own; a sweep that
\* fails ends the analysis without a result.
DisassembleTrace ==
    /\ unvisitedTraceAddresses # {}
    /\ ~sweepFailed
    /\ LET a       == Lowest(unvisitedTraceAddresses)
           sweep   == Sweep(a)
           targets == BranchTargetsOf(sweep.addrs)
           unseen  == {t \in targets : t \notin sweep.addrs /\ ~Covered(t)}
       IN
        /\ ~Covered(a)
        /\ sweepFailed' = ~sweep.ok
        /\ IF sweep.ok
           THEN /\ directBranchTargets' = directBranchTargets \cup targets
                /\ unvisitedTraceAddresses' =
                       (unvisitedTraceAddresses \cup unseen) \ {a}
                /\ traces' = IF sweep.addrs = {} THEN traces
                             ELSE traces \cup {[first |-> a,
                                                last  |-> Highest(sweep.addrs),
                                                addrs |-> sweep.addrs]}
           ELSE UNCHANGED <<unvisitedTraceAddresses, traces, directBranchTargets>>

TracesDone == unvisitedTraceAddresses = {} /\ ~sweepFailed

-----------------------------------------------------------------------------
(***************************************************************************)
(* What the program does, independently of how it is discovered.           *)
(***************************************************************************)

\* Where control goes from a without leaving the function.
Successors(a) ==
    CASE code[a].op = "branch"               -> {code[a].target}
      [] code[a].op = "cond"                 -> {After(a), code[a].target}
      [] code[a].op \in {"salu", "valu", "exec"} -> {After(a)}
      [] OTHER                               -> {}

\* The addresses control can reach from e without leaving the function.
Reachable(e) ==
    LET within[n \in Nat] ==
            IF n = 0 THEN {e}
            ELSE LET before == within[n - 1]
                 IN  before \cup UNION {Successors(a) : a \in before \cap Addresses}
    IN  within[Limit]

\* No reachable instruction starts inside another one.
NoOverlap(e) ==
    \A a \in Reachable(e) \cap Addresses :
        code[a].size = 2 => a + 1 \notin Reachable(e)
=============================================================================
