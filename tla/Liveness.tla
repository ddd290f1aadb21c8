------------------------------ MODULE Liveness ------------------------------
(***************************************************************************)
(* IPPredicatedLivenessAnalysis: the registers that are live on entry to   *)
(* each machine block of the target module, in the lanes EXEC switches on  *)
(* (Active) and in those it switches off (Inactive).  A backward fixpoint  *)
(* over the predicated CFG, in post-order from the entry.                  *)
(***************************************************************************)
EXTENDS PredicatedCFG, SequencesExt

VARIABLES
  ExitSeed,          \* registers assumed live where control leaves the CFG
  ActiveLiveIns,
  InactiveLiveIns,
  todo,              \* blocks left in this pass over POOrder
  AnyChange

liveVars == <<ExitSeed, ActiveLiveIns, InactiveLiveIns, todo, AnyChange>>
vars == <<ip, phase, errors, graphVars, cfgVars, liveVars>>

IsFullyDiscovered == unresolved = {}
EntryBlock == EntryOf(CHOOSE f \in EntryFunctions : TRUE)

\* The blocks the pass visits.
RECURSIVE ReachedFrom(_, _)
ReachedFrom(B, Seen) ==
  IF B \subseteq Seen THEN Seen
  ELSE ReachedFrom(UNION {succs[b] : b \in B}, Seen \cup B)
POOrder == ReachedFrom({EntryBlock}, {})

\* The general purpose registers a function may allocate and the reserved ones.
buildAllocatableSet(f) == ip.allocatable[f]

\* One instruction, backwards: what it defines is dead before it, then what
\* it uses is live.
stepBackward(live, mi) == (live \ mi.def) \cup mi.use
Backwards(b, live) == FoldRight(LAMBDA mi, l : stepBackward(l, mi), ip.blocks[b].code, live)

LiveInit ==
  /\ ExitSeed = [b \in Blocks |-> {}]
  /\ ActiveLiveIns = [b \in Blocks |-> {}] /\ InactiveLiveIns = [b \in Blocks |-> {}]
  /\ todo = {} /\ AnyChange = FALSE

\* Exits are seeded although the call graph is complete.
SeedExits_always ==
  /\ phase = "live"
  /\ ExitSeed' = [b \in Blocks |->
                   IF succs[b] # {} THEN {} ELSE buildAllocatableSet(ip.blocks[b].fn)]
  /\ AnyChange' = TRUE /\ phase' = "flow"
  /\ UNCHANGED <<ip, errors, graphVars, cfgVars, ActiveLiveIns, InactiveLiveIns, todo>>

\* Without the whole call graph everything is taken to be live where a block
\* has no successor.
SeedExits ==
  /\ phase = "live"
  /\ ExitSeed' = [b \in Blocks |->
       IF IsFullyDiscovered \/ succs[b] # {} THEN {}
       ELSE buildAllocatableSet(ip.blocks[b].fn)]
  /\ AnyChange' = TRUE /\ phase' = "flow"
  /\ UNCHANGED <<ip, errors, graphVars, cfgVars, ActiveLiveIns, InactiveLiveIns, todo>>

StartPass ==
  /\ phase = "flow" /\ todo = {} /\ AnyChange
  /\ todo' = POOrder /\ AnyChange' = FALSE
  /\ UNCHANGED <<ip, phase, errors, graphVars, cfgVars, ExitSeed, ActiveLiveIns,
                 InactiveLiveIns>>

\* Lanes may be switched at any instruction: both sets flow into both.
computeLiveOut(b) ==
  ExitSeed[b] \cup UNION {ActiveLiveIns[c] \cup InactiveLiveIns[c] : c \in succs[b]}

\* A vector block steps inactive lanes as it does active ones.
InactiveIn_stepped(b) == Backwards(b, computeLiveOut(b))

ActiveIn(b) == Backwards(b, computeLiveOut(b))
InactiveIn(b) == IF ip.blocks[b].vector THEN computeLiveOut(b)
                 ELSE Backwards(b, computeLiveOut(b))

\* The pass visits its blocks in some fixed order; every order is considered.
VisitBlock ==
  /\ phase = "flow"
  /\ \E b \in todo : \E a \in {ActiveIn(b)}, i \in {InactiveIn(b)} :
       /\ todo' = todo \ {b}
       /\ ActiveLiveIns' = [ActiveLiveIns EXCEPT ![b] = a]
       /\ InactiveLiveIns' = [InactiveLiveIns EXCEPT ![b] = i]
       /\ AnyChange' = (AnyChange \/ a # ActiveLiveIns[b] \/ i # InactiveLiveIns[b])
  /\ UNCHANGED <<ip, phase, errors, graphVars, cfgVars, ExitSeed>>

\* The fixpoint is left only when a whole pass changed nothing.
FlowDone ==
  /\ phase = "flow" /\ todo = {} /\ ~AnyChange
  /\ phase' = "done"
  /\ UNCHANGED <<ip, errors, graphVars, cfgVars, liveVars>>

Over == phase \in {"done", "failed"} /\ UNCHANGED vars

Init == GraphInit /\ CfgInit /\ LiveInit
Next ==
  \/ GraphNext /\ UNCHANGED <<cfgVars, liveVars>>
  \/ CfgNext /\ UNCHANGED liveVars
  \/ SeedExits \/ StartPass \/ VisitBlock \/ FlowDone \/ Over

Spec == Init /\ [][Next]_vars

-----------------------------------------------------------------------------
(***************************************************************************)
(* What is really live, by following the program.  A lane is on or off in  *)
(* each block; vector instructions are not seen by a lane that is off.     *)
(***************************************************************************)
Lanes == {"on", "off"}
Sees(b, lane) == lane = "on" \/ ~ip.blocks[b].vector
Registers == UNION {mi.use \cup mi.def : mi \in UNION {Range(ip.blocks[b].code) : b \in Blocks}}
                \cup UNION {ip.allocatable[f] : f \in Functions}

Touches(b, r, what) ==
  \E i \in DOMAIN ip.blocks[b].code :
    /\ r \in ip.blocks[b].code[i][what]
    /\ \A j \in 1 .. i - 1 : r \notin ip.blocks[b].code[j].def
ReadsFirst(b, r) == Touches(b, r, "use")
Overwrites(b, r) == \E i \in DOMAIN ip.blocks[b].code : r \in ip.blocks[b].code[i].def

\* Where control really goes; 0 stands for code that is not in the module.
RealSuccessors(args, b) ==
  ip.blocks[b].succ \cup
  UNION {{EntryOf(f) : f \in RealTargets(s, args)} \cup
         (IF Untold \in RealCallees(s, args) THEN {0} ELSE {}) : s \in SitesIn(b)}

\* The points <<block, lane>> that the value of r on entry reaches unchanged.
RECURSIVE Carries(_, _, _, _)
Carries(flow, r, P, Seen) ==
  IF P \subseteq Seen THEN Seen
  ELSE Carries(flow, r,
               UNION {flow[p[1]] \X Lanes :
                        p \in {q \in P : q[1] # 0 /\ ~(Sees(q[1], q[2]) /\ Overwrites(q[1], r))}},
               Seen \cup P)

ReallyLive(flow, b, lane) ==
  {r \in Registers : \E p \in Carries(flow, r, {<<b, lane>>}, {}) :
                        p[1] = 0 \/ (Sees(p[1], p[2]) /\ ReadsFirst(p[1], r))}

\* The analysis is right when every site it resolved has all its targets.
EverythingKnown(args) ==
  \A s \in Sites \ IncompleteCallSites :
    Untold \notin RealCallees(s, args) /\ RealTargets(s, args) \subseteq CallTargets[s]

\* No register that the code still needs is missing from the live set of a
\* block the entry leads to: neither in lanes that are on nor in those that
\* are off, across calls, loops and returns.
LivenessSound ==
  phase = "done" => \A args \in {RealArgs} : EverythingKnown(args) =>
    \A flow \in {[b \in Blocks |-> RealSuccessors(args, b)]} : \A b \in POOrder :
      /\ ReallyLive(flow, b, "on") \subseteq ActiveLiveIns[b]
      /\ ReallyLive(flow, b, "off") \subseteq InactiveLiveIns[b]

\* With the whole call graph known and no lane switched in between, nothing
\* else is live: payloads spill what is needed and no more.
LivenessExact ==
  phase = "done" /\ IsFullyDiscovered => \A b \in POOrder :
    \A flow \in {[c \in Blocks |-> succs[c]]} :
      /\ ActiveLiveIns[b] = ReallyLive(flow, b, "on")
      /\ InactiveLiveIns[b] = ReallyLive(flow, b, "off")

=============================================================================
