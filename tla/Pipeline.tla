------------------------------ MODULE Pipeline -------------------------------
(* One run of the instrumentation pipeline over a prototype: its passes in   *)
(* the order the builder gives them, and the analysis managers that carry    *)
(* results, and the machine code itself, from one pass to the next. A        *)
(* manager is a pair of the module it serves ("P" for the prototype, "T" for *)
(* the target, "I" for the instrumentation module) and a level; what it      *)
(* holds are keys, pairs of a manager and a name. The lifted machine code of *)
(* function f is the key f of T's function manager, the payloads' machine    *)
(* code the key "code" of I's, and the side effects of payload p its key p.  *)
EXTENDS Naturals, Sequences

CONSTANTS Functions,   \* functions of the target that discovery finds
          Payloads,    \* payloads the tool may create
          MaxAdded,    \* passes a callback of the tool adds at one place
          Shown        \* irregularities that are let in

\* What else keys of the same managers, and facts, are named.
ASSUME PipelineAssumption ==
  /\ Functions # {} /\ Payloads # {} /\ Functions \cap Payloads = {}
  /\ (Functions \cup Payloads) \cap {"operands", "code", "intrinsics", "parent", "lifted", "sites",
                                    "array_reads", "inlined_accesses"} = {}
  /\ MaxAdded \in Nat
  /\ Shown \subseteq {"asked_early", "forgot", "late_inline", "carries_on"}

VARIABLES
  todo,      \* passes still to run, in order
  am,        \* held keys, stale ones, cached inner proxies, destroyed managers
  built,     \* keys of the machine code made so far
  made,      \* payloads created
  deleted,   \* whether the intrinsics' functions were deleted
  reads      \* what the last pass read: key, hit, fresh

vars == <<todo, am, built, made, deleted, reads>>

\* As ManagerOf, were the managers shared by both modules.
ManagerOf_shared(side, level) == <<"T", level>>

\* Each module has its own set of managers.
ManagerOf(side, level) == <<side, level>>

PAM == <<"P", "prototype">>
MAM(side) == ManagerOf(side, "module")
FAM(side) == ManagerOf(side, "function")
MFAM(side) == ManagerOf(side, "machine")
\* The managers with a proxy of their own at the prototype's level.
Proxied == {ManagerOf(s, l) : s \in {"T", "I"}, l \in {"module", "function", "machine"}}

IR(p) == <<FAM("I"), p>>
Lifted(f) == <<FAM("T"), f>>
\* The registers named by the PATCHPOINTs in the lifted code: made once, from
\* the side effects of each payload when it is created.
Operands == <<FAM("T"), "operands">>
PayloadCode == <<FAM("I"), "code">>
IntrinsicResults == <<FAM("I"), "intrinsics">>
Parent(side) == <<MAM(side), "parent">>
CallGraph == <<PAM, "call_graph">>
CFG == <<PAM, "predicated CFG">>
Liveness == <<PAM, "liveness">>
IPIP == <<PAM, "payloads_and_their_points">>
SVLoc == <<PAM, "storage_and_load_locations">>
Specs == <<PAM, "array_specs">>

(* Managers. *)

\* The analyses an analysis asks its manager for.
Needs(key) ==
  CASE key = CallGraph -> {IPIP}
    [] key = CFG -> {CallGraph}
    [] key = Liveness -> {CFG, Operands}
    [] key = SVLoc -> {IPIP, CFG, Liveness}
    [] OTHER -> {}

\* The inner proxies its run asks for.
Proxies(key) ==
  CASE key = CallGraph -> {<<PAM, FAM("T")>>, <<PAM, FAM("I")>>}
    [] key = CFG -> {<<PAM, MAM("T")>>, <<PAM, MFAM("T")>>}
    [] key = IPIP -> {<<PAM, FAM("T")>>}
    [] key = SVLoc -> {<<PAM, m>> : m \in {MAM("T"), FAM("T"), MFAM("T")}}
    [] key = Specs -> {<<PAM, MAM("T")>>, <<PAM, MAM("I")>>}
    [] OTHER -> {}

\* The facts of the prototype a result tells: the lifted code, the sites of
\* the payloads, the registers each payload accesses, by its name, and the
\* lanes of the array payloads read.
Tells(key) ==
  CASE key = IPIP -> {"sites"}
    [] key \in {CallGraph, CFG, Liveness, SVLoc} -> {"lifted", "sites"} \cup Payloads
    [] key = Specs -> {"array_reads"}
    [] key \in {IR(p) : p \in Payloads} -> {key[2], "array_reads"}
    [] key = Operands -> {"inlined_accesses"}
    [] OTHER -> {}

\* getResult: cached, or computed from what it needs. Four steps lead from the
\* locations to the payloads and their points.
NeededBy(a, keys) == keys \cup ((UNION {Needs(k) : k \in keys}) \ a.held)
Missing(a, keys) == NeededBy(a, NeededBy(a, NeededBy(a, NeededBy(a, keys \ a.held))))
GotAll(a, keys) ==
  [a EXCEPT !.held = @ \cup Missing(a, keys),
            !.stale = @ \cup {k \in Missing(a, keys) :
                              \E n \in Missing(a, {k}) : Needs(n) \cap a.stale # {}},
            !.linked = @ \cup UNION {Proxies(k) : k \in Missing(a, keys)}]
Got(a, key) == GotAll(a, {key})
Linked(a, links) == [a EXCEPT !.linked = @ \cup links]

\* What a pass changes makes the results that tell of it stale.
Changed(a, facts) == [a EXCEPT !.stale = @ \cup {k \in a.held : Tells(k) \cap facts # {}}]

Dropped(a, keys) == [a EXCEPT !.held = @ \ keys, !.stale = @ \ keys]

\* clear() of a manager destroys the proxy results it holds, and each of those
\* clears the manager behind it: the prototype, a module, its functions, their
\* machine functions.
Behind(a, managers) == managers \cup {l[2] : l \in {l \in a.linked : l[1] \in managers}}
Cleared(a, managers) ==
  LET gone == Behind(a, Behind(a, Behind(a, managers)))
  IN [Dropped(a, {k \in a.held : k[1] \in gone}) EXCEPT
        !.linked = {l \in @ : l[1] \notin gone},
        !.touched = @ \cup (gone \cap a.dead)]

\* Preserved analyses: everything or not; the keys and the managers (that is,
\* their proxies) kept; the keys abandoned.
All == [all |-> TRUE, kept |-> {}, managers |-> {}, abandoned |-> {}]
None == [All EXCEPT !.all = FALSE]
\* What every pass of the prototype reports that changed something.
NoneButProxies == [None EXCEPT !.managers = Proxied]

\* Results that the machine passes read through the outer proxy are modelled
\* as stateless: only abandoning them drops them.
Stateless == {CFG, Liveness, IPIP, SVLoc, Specs}
Invalid(key, pa) ==
  \/ key \in pa.abandoned
  \/ ~pa.all /\ key \notin Stateless \cup pa.kept

\* The proxies not preserved clear the managers behind them.
Unlink(a, links) ==
  Cleared([a EXCEPT !.linked = @ \ links], {l[2] : l \in links \cap a.linked})

InvalidatePrototype(a, pa) ==
  Unlink(Dropped(a, {k \in a.held : k[1] = PAM /\ Invalid(k, pa)}),
         {<<PAM, m>> : m \in IF pa.all THEN {} ELSE Proxied \ pa.managers})

\* A module's manager: inner managers whose proxy is kept are walked function
\* by function, if the proxy is cached at all. Machine code survives the walk,
\* side effects do not.
InvalidateModule(a, side, pa) ==
  LET walked == IF <<MAM(side), FAM(side)>> \in a.linked /\ FAM(side) \in pa.managers /\ ~pa.all
                THEN {k \in a.held : k \in {IR(p) : p \in Payloads} /\ k[1] = FAM(side)}
                ELSE {}
  IN Unlink(Dropped(a, walked),
            {<<MAM(side), m>> : m \in IF pa.all THEN {} ELSE {FAM(side), MFAM(side)} \ pa.managers})

Read(a, keys) == {[key |-> k, hit |-> k \in a.held, fresh |-> k \notin a.stale] : k \in keys}

(* The order of the passes. *)

\* As RequiredForMachinePasses, were the locations not required.
RequiredForMachinePasses_noLocations == {CFG, Liveness, Specs}

\* What the machine passes read, required before their half of the pipeline.
RequiredForMachinePasses == {CFG, Liveness, SVLoc, Specs}

buildPipeline == <<"isel", "lower_intrinsics", "preserve_live_registers",
                   "require_for_machine_passes", "machine_passes">>

\* The callbacks of a tool add passes at five places.
Slots == {"discovery", "instrumentation", "optimization", "isel", "codegen"}
buildInstrumentationPipeline(before) ==
  before["discovery"] \o <<"discovery">> \o before["instrumentation"] \o <<"inject">>
  \o before["optimization"] \o <<"optimize">> \o before["isel"]
  \o <<"require_side_effects", "process_intrinsics">> \o before["codegen"]
  \o buildPipeline \o <<"patch", "print">>

\* What a callback may add: a pass that asks for the call graph or for the
\* locations, one that creates payloads, one over the instrumentation module.
\* Code is only there to be asked for, or instrumented, after discovery, and
\* payloads go through the IR pipeline.
MayAdd(slot) ==
  CASE slot = "discovery" -> {"ask_call_graph"}
    [] slot \in {"instrumentation", "optimization"} ->
         {"ask_call_graph", "ask_locations", "inject", "rewrite"}
    [] OTHER -> {"ask_call_graph", "ask_locations", "rewrite"}

AddedAt(slot) == UNION {[1..n -> MayAdd(slot)] : n \in 0..MaxAdded}
Plans == {buildInstrumentationPipeline(b) :
            b \in {f \in [Slots -> UNION {AddedAt(s) : s \in Slots}] :
                    \A s \in Slots : f[s] \in AddedAt(s)}}

\* CFG, liveness and locations outlive a change of the payloads: a tool that
\* asks for them and creates payloads afterwards is an irregularity.
AsksEarly(plan) == \E i, j \in DOMAIN plan :
                     i < j /\ plan[i] = "ask_locations" /\ plan[j] = "inject"

BothModules(level) == <<ManagerOf("T", level), ManagerOf("I", level)>>
InnerManagers == BothModules("loop") \o BothModules("function") \o BothModules("cgscc")
                 \o BothModules("machine") \o BothModules("module")

\* As DeclarationOrder, were the prototype's manager declared first.
DeclarationOrder_outerFirst == <<PAM>> \o InnerManagers

\* Destroyed in reverse.
DeclarationOrder == InnerManagers \o <<PAM>>

Init ==
  /\ todo \in {plan \in Plans : "asked_early" \in Shown \/ ~AsksEarly(plan)}
  /\ am = [held |-> {Parent("T"), Parent("I")}, stale |-> {}, linked |-> {},
           dead |-> {}, touched |-> {}]
  /\ built = {} /\ made = {} /\ deleted = FALSE /\ reads = {}

Turn(pass) == todo # <<>> /\ Head(todo) = pass
Finish(after) == /\ todo' = Tail(todo)
                 /\ am' = after

(* Passes over the whole prototype. *)

\* As AfterLift, were the prototype's results kept in the discovery loop.
AfterLift_kept(a, f) ==
  InvalidateModule(Changed([a EXCEPT !.held = @ \cup {Lifted(f)}], {"lifted"}), "T", NoneButProxies)

\* One more function's code: the results of the target module and of the
\* prototype are dropped, the managers behind the proxies are kept.
AfterLift(a, f) ==
  InvalidatePrototype(
    InvalidateModule(Changed([a EXCEPT !.held = @ \cup {Lifted(f)}], {"lifted"}), "T",
                     NoneButProxies),
    NoneButProxies)

Discovering == Linked(am, {<<PAM, MAM("T")>>, <<MAM("T"), FAM("T")>>, <<MAM("T"), MFAM("T")>>})

\* One round of the loop: lift, then ask the call graph what else to lift.
Discover ==
  /\ Turn("discovery")
  /\ \E f \in Functions \ {g \in Functions : Lifted(g) \in built} :
       \E a \in {Got(AfterLift(Discovering, f), CallGraph)} :
         /\ am' = a
         /\ built' = built \cup {Lifted(f)}
         /\ reads' = Read(a, {CallGraph})
  /\ UNCHANGED <<todo, made, deleted>>

\* The first function is the kernel's; the others may not be reached.
DiscoveryEnds ==
  /\ Turn("discovery") /\ built # {}
  /\ Finish(InvalidatePrototype(am, NoneButProxies))
  /\ reads' = {}
  /\ UNCHANGED <<built, made, deleted>>

\* An error preserves nothing. The default handler of diagnostics ends the
\* program; luthier-llc's own does not.
DiscoveryFails ==
  /\ Turn("discovery")
  /\ am' = InvalidatePrototype(Discovering, None)
  /\ IF "carries_on" \in Shown THEN todo' = Tail(todo) /\ UNCHANGED built
     ELSE todo' = <<"exited">> /\ built' = {}
  /\ reads' = {}
  /\ UNCHANGED <<made, deleted>>

\* The body is built, the hook inlined into it, before the side effects are
\* taken for the operands of the PATCHPOINT.
createInjectedPayload(a, ps) ==
  GotAll(Changed(a, {"sites"} \cup ps), {Operands} \cup {IR(p) : p \in ps})

\* What a tool's pass reports, in the mocks and in the example tool.
payloadsCreatedPA ==
  [NoneButProxies EXCEPT !.abandoned = IF "forgot" \in Shown THEN {} ELSE {IPIP, CallGraph}]

\* A tool walks the lifted code and creates payloads at some instructions.
Inject ==
  /\ Turn("inject")
  /\ \E ps \in SUBSET (Payloads \ made) :
       \E a \in {createInjectedPayload(Linked(am, {<<PAM, FAM("T")>>, <<PAM, FAM("I")>>}), ps)} :
         /\ Finish(InvalidatePrototype(a, payloadsCreatedPA))
         /\ made' = made \cup ps
  /\ reads' = {}
  /\ UNCHANGED <<built, deleted>>

\* A pass of the prototype that asks for results and changes nothing.
Ask(pass, keys) ==
  /\ Turn(pass)
  /\ \E a \in {GotAll(am, keys)} : Finish(a) /\ reads' = Read(a, keys)
  /\ UNCHANGED <<built, made, deleted>>

AskCallGraph == Ask("ask_call_graph", {CallGraph})
AskLocations == Ask("ask_locations", {SVLoc})
RequireForMachinePasses == Ask("require_for_machine_passes", RequiredForMachinePasses)

\* Lowers the inline assembly ISel left for the intrinsics; the specs rest on
\* the calls in the IR.
IntrinsicMIRLoweringPass ==
  /\ Turn("lower_intrinsics")
  /\ \E a \in {Got(am, Specs)} : \E changed \in {made # {}} :
       /\ Finish(InvalidatePrototype(a,
            IF changed THEN [NoneButProxies EXCEPT !.kept = @ \cup {Specs}] ELSE All))
       /\ reads' = Read(a, {Specs})
  /\ UNCHANGED <<built, made, deleted>>

\* Adds copies to the payloads' machine code, around what the target has live.
InjectedPayloadPreserveLiveRegsPass ==
  /\ Turn("preserve_live_registers")
  /\ \E keys \in {{Liveness, CFG} \cup {IR(p) : p \in made}} :
       \E a \in {GotAll(Linked(am, {<<PAM, MAM("I")>>, <<MAM("I"), FAM("I")>>, <<PAM, FAM("T")>>}), keys)} :
         \E changed \in {FALSE, made # {}} :
           /\ Finish(InvalidatePrototype(a, IF changed THEN NoneButProxies ELSE All))
           /\ reads' = Read(a, keys)
  /\ UNCHANGED <<built, made, deleted>>

(* Passes over one module, wrapped. *)

\* After a pass over a module that reported pa and deleted functions with the
\* results dead: the functions' manager is kept and walked, the results of
\* deleted functions are evicted, and no manager is cleared.
RunModulePass(a, side, pa, dead) ==
  InvalidatePrototype(
    InvalidateModule(Dropped(Linked(a, {<<PAM, MAM(side)>>, <<MAM(side), FAM(side)>>}), dead),
                     side, [pa EXCEPT !.managers = @ \cup {FAM(side)}]),
    [pa EXCEPT !.managers = @ \cup Proxied])

\* Passes inside a wrapped pipeline of LLVM: function passes ask for results,
\* and a module pass that reports none clears the module's functions' manager.
InnerPasses(a, clears) ==
  LET b == Linked(a, {<<PAM, MAM("I")>>, <<MAM("I"), FAM("I")>>})
  IN IF clears THEN InvalidateModule(b, "I", None) ELSE b

\* The IR pipeline. It may inline into a payload what its hook calls.
Optimize ==
  /\ Turn("optimize")
  /\ \E clears, asked \in BOOLEAN, inlined \in {FALSE, "late_inline" \in Shown} :
       \E a \in {InnerPasses(IF inlined THEN Changed(am, {"inlined_accesses"} \cup made) ELSE am, clears)} :
         Finish(RunModulePass([a EXCEPT !.held = @ \cup {k \in {IntrinsicResults} : asked}],
                              "I", None, {}))
  /\ reads' = {}
  /\ UNCHANGED <<built, made, deleted>>

\* A tool's pass over the instrumentation module that makes payloads read
\* another lane of the array.
Rewrite ==
  /\ Turn("rewrite")
  /\ Finish(RunModulePass(Changed(am, {"array_reads"}), "I", None, {}))
  /\ reads' = {}
  /\ UNCHANGED <<built, made, deleted>>

RequireSideEffects ==
  /\ Turn("require_side_effects")
  /\ \E a \in {GotAll(Linked(am, {<<MAM("I"), FAM("I")>>}), {IR(p) : p \in made})} :
       /\ Finish(RunModulePass(a, "I", All, {}))
       /\ reads' = Read(a, {IR(p) : p \in made})
  /\ UNCHANGED <<built, made, deleted>>

\* The calls of intrinsics become inline assembly that the side effects are
\* read from just the same, and the intrinsics' functions are deleted.
ProcessIntrinsicsAtIRLevelPass ==
  /\ Turn("process_intrinsics")
  /\ Finish(RunModulePass(am, "I", All, {IntrinsicResults}))
  /\ deleted' = TRUE
  /\ reads' = {}
  /\ UNCHANGED <<built, made>>

\* IR passes of the code generator, then instruction selection.
ISel ==
  /\ Turn("isel")
  /\ \E clears \in BOOLEAN : \E a \in {InnerPasses(am, clears)} :
       Finish(RunModulePass([a EXCEPT !.held = @ \cup {PayloadCode},
                                      !.linked = @ \cup {<<FAM("I"), MFAM("I")>>}], "I", None, {}))
  /\ built' = built \cup {PayloadCode}
  /\ reads' = {}
  /\ UNCHANGED <<made, deleted>>

\* Pinning the array's register and the frame of a payload: read from the
\* caches of the managers above, nothing is computed.
MachinePasses ==
  /\ Turn("machine_passes")
  /\ reads' = IF made = {} THEN {}
              ELSE Read(am, {Parent("I"), IPIP, SVLoc, Specs, Liveness, CFG})
  /\ Finish(RunModulePass(Linked(InnerPasses(am, FALSE), {<<FAM("I"), MFAM("I")>>}), "I", None, {}))
  /\ UNCHANGED <<built, made, deleted>>

\* Payloads' code moves into the target's functions.
TargetModulePatcherPass ==
  /\ Turn("patch")
  /\ \E keys \in {{SVLoc, Specs, IPIP, CFG, Liveness} \cup {IR(p) : p \in made}} :
       \E a \in {GotAll(Linked(am, {<<PAM, m>> : m \in {FAM("T"), FAM("I"), MFAM("T")}}), keys)} :
         /\ Finish(InvalidatePrototype(Changed(a, {"lifted"}), NoneButProxies))
         /\ reads' = Read(a, keys)
  /\ built' = built \ {PayloadCode}
  /\ UNCHANGED <<made, deleted>>

\* The asm printer walks the target's cached code.
NewPMAsmPrinter ==
  /\ Turn("print")
  /\ reads' = Read(am, {Lifted(f) : f \in {g \in Functions : Lifted(g) \in built}})
  /\ Finish(RunModulePass(Linked(am, {<<PAM, MAM("T")>>}), "T", All, {}))
  /\ built' = {}
  /\ UNCHANGED <<made, deleted>>

\* The managers leave scope: the last declared, and not destroyed, goes next.
Destroy ==
  /\ todo = <<>>
  /\ \E m \in {DeclarationOrder[n] : n \in {n \in DOMAIN DeclarationOrder :
                /\ DeclarationOrder[n] \notin am.dead
                /\ \A k \in DOMAIN DeclarationOrder :
                      k > n => DeclarationOrder[k] \in am.dead}} :
       LET a == Cleared(am, {m}) IN am' = [a EXCEPT !.dead = @ \cup {m}]
  /\ reads' = {}
  /\ UNCHANGED <<todo, built, made, deleted>>

Next == \/ Discover \/ DiscoveryEnds \/ DiscoveryFails \/ Inject \/ AskCallGraph \/ AskLocations
        \/ Optimize \/ Rewrite \/ RequireSideEffects \/ ProcessIntrinsicsAtIRLevelPass
        \/ ISel \/ IntrinsicMIRLoweringPass \/ InjectedPayloadPreserveLiveRegsPass
        \/ RequireForMachinePasses \/ MachinePasses \/ TargetModulePatcherPass
        \/ NewPMAsmPrinter \/ Destroy

Spec == Init /\ [][Next]_vars

(* Properties. *)

\* The machine code lives only in the caches. The code that discovery lifted
\* is there until it is printed, and the payloads' code from instruction
\* selection until the patcher moves it, whatever passes ran in between over
\* either module and whatever they reported.
MachineCodeSurvives == built \subseteq am.held

\* No pass acts on a result that tells of an earlier prototype: the results
\* that only abandoning drops have not outlived a change, and a result is not
\* computed from one that has.
ReadsAreFresh == \A r \in reads : r.fresh

\* The machine passes, which can compute nothing above their own level, find
\* every result of the prototype they ask for.
CachedReadsHit == \A r \in reads : r.hit

\* No result is left under the address of a deleted function, where a new
\* function at that address would find it.
NothingStranded == deleted => IntrinsicResults \notin am.held

\* When the managers go out of scope no proxy clears one that is gone.
NoDeadManagerCleared == am.touched = {}

\* The managers hold nothing of a deleted function, where a new one at its address
\* would find it, and none is cleared once it is gone.
NothingDangles == NothingStranded /\ NoDeadManagerCleared
==============================================================================
