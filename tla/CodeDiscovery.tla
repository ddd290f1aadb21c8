--------------------------- MODULE CodeDiscovery ---------------------------
(***************************************************************************)
(* CodeDiscoveryPass: lifting a kernel and everything it calls from device *)
(* memory. run() keeps a worklist of entry points; each is given a         *)
(* function, its instruction traces are discovered, populateMF cuts them   *)
(* into basic blocks, and the call graph's targets and the addresses after *)
(* calls join the worklist (lib/ToolCodeGen/CodeDiscoveryPass.cpp). The     *)
(* build is one that keeps assert().                                       *)
(***************************************************************************)
EXTENDS InstructionTraces, Sequences, SequencesExt

CONSTANT KernelEntries   \* where the launched kernel may begin

ASSUME KernelEntriesAssumption == KernelEntries \subseteq Addresses

VARIABLES
    stage,       \* where run() is
    current,     \* CurrentEntryPoint
    initial,     \* InitialEntryPoint
    unvisited,   \* UnvisitedPointsOfEntry
    visited,     \* VisitedPointsOfEntry
    lifted       \* the machine function of every visited entry point

vars == <<code, entry, traceVars, stage, current, initial, unvisited, visited, lifted>>

DeviceEntry(a) == [kernel |-> FALSE, addr |-> a]

Init ==
    /\ code \in Programs
    /\ initial \in [kernel : {TRUE}, addr : KernelEntries]
    /\ current = initial
    /\ entry = initial.addr
    /\ unvisitedTraceAddresses = {}
    /\ traces = {}
    /\ directBranchTargets = {}
    /\ sweepFailed = FALSE
    /\ stage = "pick"
    /\ unvisited = {initial}
    /\ visited = {}
    /\ lifted = << >>

-----------------------------------------------------------------------------
(***************************************************************************)
(* populateMF. A block is the sequence of the addresses it holds and is    *)
(* named by its number; synthetic blocks hold no address.                  *)
(***************************************************************************)

IsTerminator(a) == code[a].op \in {"cond", "branch", "setpc", "endpgm"}

SplitsBetween(a, b) ==
    \/ "exec" \in {code[a].op, code[b].op}
    \/ (code[a].op = "valu") # (code[b].op = "valu")

TracedAddresses == UNION {t.addrs : t \in traces}
TracedCalls == {a \in TracedAddresses : code[a].op = "call"}
TracedBranches == {a \in TracedAddresses : IsDirectBranch(a)}

FirstTraceStart == Lowest({t.first : t \in traces})

\* The members of S in the order that precedes gives them.
InOrder(S, precedes(_, _)) ==
    [i \in 1 .. Cardinality(S) |->
        CHOOSE x \in S : Cardinality({y \in S : precedes(y, x)}) = i - 1]

\* Every instruction, trace after trace and each trace in address order.
Layout ==
    LET startOf(a) == (CHOOSE t \in traces : a \in t.addrs).first
        precedes(a, b) == \/ startOf(a) < startOf(b)
                          \/ startOf(a) = startOf(b) /\ a < b
    IN  InOrder(TracedAddresses, precedes)

\* Variant: branch targets split no block.
StartsBlockNoTarget(layout, i) ==
    \/ i = 1
    \/ SplitsBetween(layout[i - 1], layout[i])
    \/ IsTerminator(layout[i - 1])

\* A block starts at a branch target, at a change between scalar and vector
\* code or around a write of EXEC, and after a terminator. A trace that follows
\* another one starts no block of its own.
StartsBlock(layout, i) ==
    \/ i = 1
    \/ layout[i] \in directBranchTargets
    \/ SplitsBetween(layout[i - 1], layout[i])
    \/ IsTerminator(layout[i - 1])

\* The blocks of a layout, in order.
BlocksOf(layout) ==
    LET starts == InOrder({i \in DOMAIN layout : StartsBlock(layout, i)}, <)
    IN  [k \in DOMAIN starts |->
            SubSeq(layout, starts[k],
                   IF k = Len(starts) THEN Len(layout) ELSE starts[k + 1] - 1)]

\* Each block but the last gets an edge to the next one, unless an
\* unconditional branch ends it.
FallThroughEdges(blocks) ==
    {<<k, k + 1>> : k \in {b \in 1 .. Len(blocks) - 1 :
                              code[Last(blocks[b])].op # "branch"}}

Body == LET blocks == BlocksOf(Layout)
        IN  [blocks |-> blocks, edges |-> FallThroughEdges(blocks)]

BlockOf(blocks, a) == CHOOSE b \in DOMAIN blocks : a \in ToSet(blocks[b])

\* The assertion that lets a call's block be given a single successor.
CallsEndTheirBlocks(mf) ==
    \A c \in TracedCalls : Last(mf.blocks[BlockOf(mf.blocks, c)]) = c

\* Each call's block gets a synthetic S_ENDPGM block as its only successor.
IsolateCalls(mf) ==
    LET calls     == InOrder(TracedCalls, <)
        n         == Len(mf.blocks)
        callBlock == [i \in DOMAIN calls |-> BlockOf(mf.blocks, calls[i])]
    IN  [blocks |-> mf.blocks \o [i \in DOMAIN calls |-> << >>],
         edges  |-> {e \in mf.edges : e[1] \notin ToSet(callBlock)} \cup
                    {<<callBlock[i], n + i>> : i \in DOMAIN calls}]

\* A branch finds its target's block if the target is in some trace.
BranchesResolve == \A a \in TracedBranches : code[a].target \in TracedAddresses

ResolveBranches(mf) ==
    [mf EXCEPT !.edges = @ \cup
        {<<BlockOf(mf.blocks, a), BlockOf(mf.blocks, code[a].target)>> :
            a \in TracedBranches}]

\* An entry that is not the lowest address is reached by a jump from a new
\* first block, and so is a first block that has predecessors.
AddEntryBlocks(mf) ==
    LET jumpTo(f, b) == [blocks |-> Append(f.blocks, << >>),
                         edges  |-> f.edges \cup {<<Len(f.blocks) + 1, b>>},
                         front  |-> Len(f.blocks) + 1]
        entered == IF entry # FirstTraceStart
                   THEN jumpTo(mf, BlockOf(mf.blocks, entry))
                   ELSE [blocks |-> mf.blocks, edges |-> mf.edges, front |-> 1]
    IN  IF \E e \in entered.edges : e[2] = entered.front
        THEN jumpTo(entered, entered.front)
        ELSE entered

-----------------------------------------------------------------------------
(***************************************************************************)
(* The worklist of run().                                                  *)
(***************************************************************************)

\* The constants the call graph evaluates among a function's calls and jumps.
CallTargetsIn(addrs) ==
    {code[a].target : a \in {b \in addrs : code[b].op \in {"call", "setpc"}}} \ {Unknown}

ContinuationsIn(addrs) == {After(a) : a \in {b \in addrs : code[b].op = "call"}}

AddressesOf(mf) == UNION {ToSet(mf.blocks[b]) : b \in DOMAIN mf.blocks}

\* Addresses the call graph of the whole target module knows, after the
\* current function joins it.
DiscoveredAddrs ==
    CallTargetsIn(TracedAddresses \cup UNION {AddressesOf(lifted[ep]) : ep \in visited})

\* Variant: the address behind a call is left to its caller.
NewEntryPointsNoContinuation == {DeviceEntry(a) : a \in DiscoveredAddrs} \ visited

\* What joins the worklist: targets not visited yet, and the addresses after
\* the function's calls, visited or not.
NewEntryPoints ==
    ({DeviceEntry(a) : a \in DiscoveredAddrs} \ visited)
    \cup {DeviceEntry(a) : a \in ContinuationsIn(TracedAddresses)}

\* The set is iterated in hash order: any unvisited entry point may be next.
\* A device function's address must lie in an allocation.
PickEntryPoint ==
    /\ stage = "pick"
    /\ \E ep \in unvisited \ visited :
        /\ current' = ep
        /\ entry' = ep.addr
        /\ StartTraces(ep.addr)
        /\ stage' = IF ep.kernel \/ ep.addr \in Addresses THEN "traces" ELSE "failed"
    /\ UNCHANGED <<code, initial, unvisited, visited, lifted>>

\* Variant: the early exit of the loop is missing.
DropVisitedNever == FALSE

\* An entry point that joined the worklist twice is dropped.
DropVisited ==
    /\ stage = "pick"
    /\ \E ep \in unvisited \cap visited : unvisited' = unvisited \ {ep}
    /\ UNCHANGED <<code, entry, traceVars, stage, current, initial, visited, lifted>>

TraceStep ==
    /\ stage = "traces"
    /\ \/ SkipCoveredAddress
       \/ DisassembleTrace
    /\ UNCHANGED <<code, entry, stage, current, initial, unvisited, visited, lifted>>

TracesUnavailable ==
    /\ stage = "traces"
    /\ sweepFailed
    /\ stage' = "failed"
    /\ UNCHANGED <<code, entry, traceVars, current, initial, unvisited, visited, lifted>>

AbortOnAssertion ==
    /\ stage = "traces"
    /\ TracesDone
    /\ \E body \in {Body} : ~CallsEndTheirBlocks(body)
    /\ stage' = "aborted"
    /\ UNCHANGED <<code, entry, traceVars, current, initial, unvisited, visited, lifted>>

BranchUnresolved ==
    /\ stage = "traces"
    /\ TracesDone
    /\ ~BranchesResolve
    /\ \E body \in {Body} : CallsEndTheirBlocks(body)
    /\ stage' = "failed"
    /\ UNCHANGED <<code, entry, traceVars, current, initial, unvisited, visited, lifted>>

\* The current function is populated and what it leads to is enqueued.
LiftFunction ==
    /\ stage = "traces"
    /\ TracesDone
    /\ BranchesResolve
    /\ \E body \in {Body} :
        /\ CallsEndTheirBlocks(body)
        /\ \E isolated \in {IsolateCalls(body)} :
            \E resolved \in {ResolveBranches(isolated)} :
                lifted' = [ep \in visited \cup {current} |->
                    IF ep = current THEN AddEntryBlocks(resolved) ELSE lifted[ep]]
    /\ unvisited' = (unvisited \cup NewEntryPoints) \ {current}
    /\ visited' = visited \cup {current}
    /\ stage' = "pick"
    /\ UNCHANGED <<code, entry, traceVars, current, initial>>

\* Each direct call's target becomes the function of its entry point; a
\* target without one is an error.
RewriteCalls ==
    /\ stage = "pick"
    /\ unvisited = {}
    /\ LET direct == {code[a].target :
                        a \in {b \in UNION {AddressesOf(lifted[ep]) : ep \in visited} :
                                 code[b].op = "call"}} \ {Unknown}
       IN  stage' = IF direct \subseteq {ep.addr : ep \in visited}
                    THEN "done" ELSE "failed"
    /\ UNCHANGED <<code, entry, traceVars, current, initial, unvisited, visited, lifted>>

Next ==
    \/ PickEntryPoint
    \/ DropVisited
    \/ TraceStep
    \/ TracesUnavailable
    \/ AbortOnAssertion
    \/ BranchUnresolved
    \/ LiftFunction
    \/ RewriteCalls

\* run() is one loop on one thread: it takes its next step while it has one.
Spec == Init /\ [][Next]_vars /\ WF_vars(Next)
-----------------------------------------------------------------------------
(***************************************************************************)
(* Properties.                                                             *)
(***************************************************************************)

\* When the worklist of trace addresses is empty, the traces hold exactly the
\* instructions the program can reach from the entry without leaving the
\* function, each in one trace only: the order in which the lowest address is
\* taken and the two overlap checks neither lose nor duplicate code
\* (discoverTraces, disassembleTrace).
TracesPartitionReachableCode ==
    stage = "traces" /\ TracesDone =>
        /\ TracedAddresses = Reachable(entry) \cap Addresses
        /\ \A t, u \in traces : t # u => t.addrs \cap u.addrs = {}

\* Control flows in a lifted function as in the program: from each reachable
\* instruction to each of its successors there is either the next place of the
\* same block or an edge from the end of one block to the start of the other.
\* The first block has no predecessor and is the block of the entry, or holds
\* nothing and leads there alone (populateMF).
LiftedFlowPreserved ==
    \A ep \in visited :
        LET mf     == lifted[ep]
            blocks == mf.blocks
            flows(a, b) ==
                LET from == BlockOf(blocks, a)
                    to   == BlockOf(blocks, b)
                IN  \/ \E i \in 1 .. Len(blocks[from]) - 1 :
                          blocks[from][i] = a /\ blocks[from][i + 1] = b
                    \/ /\ <<from, to>> \in mf.edges
                       /\ Last(blocks[from]) = a
                       /\ Head(blocks[to]) = b
            home == BlockOf(blocks, ep.addr)
            step(b) == {e[2] : e \in {x \in mf.edges : x[1] = b /\ blocks[b] = << >>}}
        IN  NoOverlap(ep.addr) =>
            /\ \A a \in Reachable(ep.addr) \cap Addresses :
                  \A b \in Successors(a) \cap Addresses : flows(a, b)
            /\ \A e \in mf.edges : e[2] # mf.front
            /\ home = mf.front \/ step(mf.front) = {home}

\* The traces partition the code that a function's entry reaches, and control
\* flows in the lifted function as in the program (populateMF).
FlowPreserved == TracesPartitionReachableCode /\ LiftedFlowPreserved

\* The entry points a complete discovery visits: the closure of the initial one
\* under constant call and jump targets and the addresses after calls.
LeadsTo(a) == LET body == Reachable(a) \cap Addresses
              IN  CallTargetsIn(body) \cup ContinuationsIn(body)

Closure ==
    LET within[n \in Nat] ==
            IF n = 0 THEN {DeviceEntry(a) : a \in LeadsTo(initial.addr)}
            ELSE LET before == within[n - 1]
                 IN  before \cup {DeviceEntry(b) : b \in UNION {LeadsTo(ep.addr) :
                         ep \in {e \in before : e.addr \in Addresses}}}
    IN  {initial} \cup within[Limit + 1]

\* Whatever order the hash set gives: when the pass succeeds it has lifted
\* every function the kernel can lead to and nothing else, and when it reports
\* an error some such function runs into what is not code (run).
EverythingLifted ==
    /\ stage = "done" => visited = Closure
    /\ stage = "failed" =>
        \E ep \in Closure : \E a \in Reachable(ep.addr) :
            a \notin Addresses \/ ~Decodes(a)

\* The assertion of populateMF, "call MI is expected to be the last MI in its
\* trace-lifted MBB", holds in every function that is populated.
CallIsLastInItsBlock == stage # "aborted"

\* Discovery ends although entry points are enqueued again after every visit
\* and functions call one another (run).
Terminates == <>(stage \in {"done", "failed", "aborted"})
=============================================================================
