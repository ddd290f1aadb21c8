------------------------------ MODULE CallGraph ------------------------------
(***************************************************************************)
(* PrototypeCallGraphAnalysis: which functions each indirect call of the   *)
(* translated target module may reach.                                     *)
(*                                                                         *)
(* The translated IR passes the register file from function to function    *)
(* in tail calls; a return is an indirect call too.  The callee operand of *)
(* a call is evaluated by following the IR values it is computed from,     *)
(* once as it is and once per known caller with the constants that caller  *)
(* passes.  A resolved call makes its own function a known caller of the   *)
(* target, so the sweeps over the call sites repeat until nothing changes; *)
(* only then are the injected payloads consulted for the sites left over.  *)
(*                                                                         *)
(* A value is a record [op, of, c] of ip.values: its operation, the values *)
(* it is computed from and its constant.  A constant is <<"fn", f>>, a     *)
(* handle of a function, or <<"addr", a>>; function f starts at address f. *)
(***************************************************************************)
EXTENDS Naturals, Sequences, FiniteSets

CONSTANT Prototypes  \* what Init may analyse: records described in MCAnalyses

VARIABLES
  ip,          \* the prototype: target module and injected payloads
  phase,       \* the step of the analyses that comes next
  sweep,       \* call sites left in this pass of the resolution loop
  Changed,
  CallTargets, \* per call site, the functions it was resolved to
  KnownCallers,\* per function, the call sites that may reach it
  DiscoveredCallTargetAddresses,
  IncompleteCallSites,
  errors       \* what was emitted to the LLVM context

graphVars == <<sweep, Changed, CallTargets, KnownCallers,
               DiscoveredCallTargetAddresses, IncompleteCallSites>>

Functions == 1 .. ip.functions
Sites == DOMAIN ip.sites
Direct(s) == ip.sites[s].direct # 0
IndirectSites == SelectSeq([s \in Sites |-> s], LAMBDA s : ~Direct(s))

-----------------------------------------------------------------------------
(***************************************************************************)
(* The value of an operand, for a given constant argument of its function. *)
(***************************************************************************)

\* The single constant a value folds to, if it does, as a set.  PHIs and
\* selects do not fold; a load does when one store reaches it.
RECURSIVE tryEvalConst(_, _)
tryEvalConst(v, subst) ==
  LET x == ip.values[v]
      inner == UNION {tryEvalConst(u, subst) : u \in x.of}
  IN CASE x.op = "const" -> {x.c}
       [] x.op = "arg" -> subst
       [] x.op \in {"ssa_copy", "cast"} -> inner
       [] x.op = "add" -> {<<k[1], k[2] + x.c>> : k \in inner}
       [] x.op = "load" /\ Cardinality(x.of) = 1 -> inner
       [] OTHER -> {}

\* All the constants a value may be: PHIs, selects and loads that several
\* stores reach give one per input, casts pass them on.  A value that is being
\* evaluated contributes nothing to itself.
RECURSIVE evalConstTargets(_, _, _)
evalConstTargets(v, subst, Active) ==
  LET one == tryEvalConst(v, subst)
      x == ip.values[v]
  IN IF one # {} THEN one
     ELSE IF v \in Active \/ x.op \notin {"phi", "select", "cast", "load"} THEN {}
     ELSE UNION {evalConstTargets(u, subst, Active \cup {v}) : u \in x.of}

\* The functions of the target module a constant stands for.  Kernels have no
\* entry in the map from addresses.
Callable(k) ==
  {f \in Functions : k[2] = f /\ (k[1] = "addr" => f \notin ip.kernels)}
Addresses(K) == {k[2] : k \in {x \in K : x[1] = "addr" /\ x[2] # 0}}

\* The constant a call site passes, evaluated without knowing its own caller.
ArgumentOf(s) == tryEvalConst(ip.sites[s].arg, {})

Evaluated(s, callers) ==
  LET callee == ip.sites[s].callee
  IN evalConstTargets(callee, {}, {}) \cup
     UNION {evalConstTargets(callee, ArgumentOf(c), {}) :
              c \in {x \in callers : ArgumentOf(x) # {}}}

-----------------------------------------------------------------------------
GraphInit ==
  /\ ip \in Prototypes
  /\ phase = "resolve" /\ sweep = <<>> /\ Changed = TRUE
  /\ CallTargets = [s \in Sites |-> IF Direct(s) THEN {ip.sites[s].direct} ELSE {}]
  /\ KnownCallers = [f \in Functions |-> {s \in Sites : ip.sites[s].direct = f}]
  /\ DiscoveredCallTargetAddresses = {ip.sites[s].direct : s \in {x \in Sites : Direct(x)}}
  /\ IncompleteCallSites = {} /\ errors = {}

\* What both ways of resolving do with the new targets of some sites.
AddTargets(new) ==
  /\ CallTargets' = [s \in Sites |-> CallTargets[s] \cup new[s]]
  /\ KnownCallers' = [f \in Functions |-> KnownCallers[f] \cup {s \in Sites : f \in new[s]}]
  /\ Changed' = (Changed \/ \E s \in Sites : ~(new[s] \subseteq CallTargets[s]))

NextSweep ==
  /\ phase = "resolve" /\ sweep = <<>> /\ Changed
  /\ sweep' = IndirectSites /\ Changed' = FALSE
  /\ UNCHANGED <<ip, phase, CallTargets, KnownCallers, DiscoveredCallTargetAddresses,
                 IncompleteCallSites, errors>>

\* Both phases for one call site: as it is, then with each known caller.
ResolveSite ==
  /\ phase = "resolve" /\ sweep # <<>>
  /\ \E found \in {Evaluated(Head(sweep), KnownCallers[ip.sites[Head(sweep)].fn])} :
       /\ AddTargets([s \in Sites |-> IF s = Head(sweep) THEN UNION {Callable(k) : k \in found}
                                      ELSE {}])
       /\ DiscoveredCallTargetAddresses' = DiscoveredCallTargetAddresses \cup Addresses(found)
  /\ sweep' = Tail(sweep)
  /\ UNCHANGED <<ip, phase, IncompleteCallSites, errors>>

\* The constants that payloads attached to a call write to registers.
collectPayloadWrites(s) ==
  UNION {evalConstTargets(v, {}, {}) : v \in ip.sites[s].writes}

\* The payloads' targets are taken without another pass over the sites.
resolveViaPayloads_last ==
  /\ phase = "resolve" /\ sweep = <<>> /\ ~Changed
  /\ AddTargets([s \in Sites |-> IF Direct(s) \/ CallTargets[s] # {} THEN {}
                                 ELSE UNION {Callable(k) : k \in collectPayloadWrites(s)}])
  /\ phase' = "report"
  /\ UNCHANGED <<ip, sweep, DiscoveredCallTargetAddresses, IncompleteCallSites, errors>>

\* A further pass follows when the payloads resolved a site; otherwise the
\* sites still without a target are reported.
resolveViaPayloads ==
  /\ phase = "resolve" /\ sweep = <<>> /\ ~Changed
  /\ \E written \in {[s \in Sites |-> IF Direct(s) \/ CallTargets[s] # {} THEN {}
                                      ELSE collectPayloadWrites(s)]} :
       /\ AddTargets([s \in Sites |-> UNION {Callable(k) : k \in written[s]}])
       /\ DiscoveredCallTargetAddresses' =
            DiscoveredCallTargetAddresses \cup UNION {Addresses(written[s]) : s \in Sites}
       /\ errors' = errors \cup
            {<<"foreign", s>> : s \in {x \in Sites : \E k \in written[x] :
                                         k[1] = "fn" /\ k[2] \notin Functions}}
  /\ phase' = IF Changed' THEN "resolve" ELSE "report"
  /\ UNCHANGED <<ip, sweep, IncompleteCallSites>>

ReportIncomplete ==
  /\ phase = "report"
  /\ IncompleteCallSites' = {s \in Sites : ~Direct(s) /\ CallTargets[s] = {}}
  /\ phase' = "cfg"
  /\ UNCHANGED <<ip, sweep, Changed, CallTargets, KnownCallers,
                 DiscoveredCallTargetAddresses, errors>>

GraphNext == NextSweep \/ ResolveSite \/ resolveViaPayloads \/ ReportIncomplete

-----------------------------------------------------------------------------
(***************************************************************************)
(* What the program really does: a value is one of a set of constants, or  *)
(* something the IR does not tell.                                         *)
(***************************************************************************)
Untold == <<"untold", 0>>

RECURSIVE Real(_, _, _)
Real(v, args, Active) ==
  LET x == ip.values[v]
      inner == UNION {Real(u, args, Active \cup {v}) : u \in x.of \ Active}
  IN CASE x.op = "const" -> {x.c}
       [] x.op = "arg" -> args
       [] x.op = "unknown" -> {Untold}
       [] x.op = "add" -> {IF k = Untold THEN k ELSE <<k[1], k[2] + x.c>> : k \in inner}
       [] OTHER -> inner

\* What the program leaves open, the payload attached to the call supplies.
RealCallees(s, args) ==
  IF Direct(s) THEN {<<"fn", ip.sites[s].direct>>}
  ELSE LET own == Real(ip.sites[s].callee, args[ip.sites[s].fn], {})
       IN IF ip.sites[s].writes = {} THEN own
          ELSE (own \ {Untold}) \cup collectPayloadWrites(s)

RealTargets(s, args) == UNION {Callable(k) : k \in RealCallees(s, args)}

\* The constants each function's argument may be; a call to something untold
\* may be a call of any function, with any argument.
RECURSIVE ArgsFrom(_)
ArgsFrom(args) ==
  LET more(f) == UNION {IF f \in RealTargets(s, args)
                        THEN Real(ip.sites[s].arg, args[ip.sites[s].fn], {})
                        ELSE IF Untold \in RealCallees(s, args) THEN {Untold} ELSE {} :
                          s \in Sites}
  IN UNION {IF next = args THEN {args} ELSE ArgsFrom(next) :
              next \in {[f \in Functions |-> args[f] \cup more(f)]}}

RealArgs == CHOOSE a \in ArgsFrom([f \in Functions |->
                                     IF f \in ip.kernels THEN {Untold} ELSE {}]) : TRUE

\* A target that the analysis reports is one the call can have.
NoSpuriousTargets ==
  \A args \in {RealArgs} : \A s \in Sites : CallTargets[s] \subseteq RealTargets(s, args)

\* The resolution loop stops only when another pass over the sites, with all
\* the callers known by then, would find nothing: no target is lost because
\* the caller that supplies it was found late, from a payload for instance.
ResolutionClosed ==
  phase \notin {"resolve", "report"} =>
    \A s \in {x \in Sites : ~Direct(x)} :
      \A k \in Evaluated(s, KnownCallers[ip.sites[s].fn]) : Callable(k) \subseteq CallTargets[s]

\* A call site that is not reported as incomplete has all its targets.
CompleteUnlessReported ==
  phase \notin {"resolve", "report"} =>
    \A args \in {RealArgs} : \A s \in Sites \ IncompleteCallSites :
      Untold \notin RealCallees(s, args) /\ RealTargets(s, args) \subseteq CallTargets[s]
=============================================================================
