---------------------------- MODULE PredicatedCFG ----------------------------
(***************************************************************************)
(* IPPredicatedCFG: the control flow of the whole target module over its   *)
(* machine blocks.  The edges inside a function are read off the           *)
(* translated IR, where a vector block has an EXEC check in front of its   *)
(* body and, unless the check was folded, a bypass around it; the edges    *)
(* between functions come from the call graph.                             *)
(***************************************************************************)
EXTENDS CallGraph

VARIABLES
  succs,     \* successors of each machine block
  unresolved \* blocks that end in a call whose targets are not known

cfgVars == <<succs, unresolved>>

Blocks == DOMAIN ip.blocks
EntryOf(f) == CHOOSE b \in Blocks : ip.blocks[b].fn = f /\ ip.blocks[b].first
EntryFunctions == {f \in Functions : f \in ip.initial}

\* The translated IR: the successors of a body, a check and a bypass.
Entrance(b) == IF ip.blocks[b].vector THEN <<"check", b>> ELSE <<"body", b>>
IRSuccessors(n) ==
  LET block == ip.blocks[n[2]]
      next == {Entrance(c) : c \in block.succ}
  IN CASE n[1] = "body" -> next
       [] n[1] = "check" -> {<<"body", n[2]>>} \cup
                            (IF block.skip THEN {<<"skip", n[2]>>} ELSE {})
       [] n[1] = "skip" -> IF Cardinality(next) = 1 THEN next ELSE {<<"body", n[2]>>}

\* The bodies reached from a set of IR blocks without passing through another.
RECURSIVE BodiesFrom(_, _)
BodiesFrom(Worklist, Seen) ==
  IF Worklist = {} THEN {}
  ELSE LET bodies == {n \in Worklist : n[1] = "body"}
           seen == Seen \cup Worklist
       IN {n[2] : n \in bodies} \cup
          BodiesFrom(UNION {IRSuccessors(n) : n \in Worklist \ bodies} \ seen, seen)

CfgInit == succs = [b \in Blocks |-> {}] /\ unresolved = {}

\* Phases 1 and 2; a module without a single initial entry point is refused.
IREdges ==
  /\ phase = "cfg"
  /\ IF Cardinality(EntryFunctions) = 1
     THEN /\ succs' = [b \in Blocks |-> BodiesFrom(IRSuccessors(<<"body", b>>), {})]
          /\ phase' = "calls" /\ UNCHANGED errors
     ELSE /\ errors' = errors \cup {<<"entry", Cardinality(EntryFunctions)>>}
          /\ phase' = "failed" /\ UNCHANGED succs
  /\ UNCHANGED <<ip, graphVars, unresolved>>

SitesIn(b) == {s \in Sites : ip.sites[s].block = b}

\* Phase 3: an edge to the entry of every target, and a mark on the blocks
\* whose call is incomplete.
CallEdges ==
  /\ phase = "calls"
  /\ succs' = [b \in Blocks |-> succs[b] \cup
                 {EntryOf(f) : f \in UNION {CallTargets[s] : s \in SitesIn(b)}}]
  /\ unresolved' = {ip.sites[s].block : s \in IncompleteCallSites}
  /\ phase' = "live"
  /\ UNCHANGED <<ip, graphVars, errors>>

CfgNext == IREdges \/ CallEdges

-----------------------------------------------------------------------------
\* Where control may go from a block when the lanes are not told apart: on to
\* its successors, and past a vector block with a bypass and one way out.
RECURSIVE Onward(_, _)
Onward(B, Seen) ==
  IF B = {} THEN {}
  ELSE B \cup Onward(UNION {ip.blocks[b].succ :
                       b \in {x \in B : /\ ip.blocks[x].vector /\ ip.blocks[x].skip
                                        /\ Cardinality(ip.blocks[x].succ) = 1}} \ (Seen \cup B),
                     Seen \cup B)

\* The scaffolding of the predicates leaves the control flow of the machine
\* code as it was, but for the ways around vector blocks.
FlowOfMachineCode ==
  phase \in {"live", "done"} =>
    \A b \in Blocks :
      succs[b] = Onward(ip.blocks[b].succ, {}) \cup
                 {EntryOf(f) : f \in UNION {CallTargets[s] : s \in SitesIn(b)}}
=============================================================================
