---------------------------- MODULE PipelineProofs -----------------------------
(* What one run of the pipeline keeps, proved for any functions and payloads, *)
(* any number of passes that a tool adds, and any irregularities let in. The  *)
(* invariant says where a pass stands in the builder's order (what is still   *)
(* ahead decides which results may be cached yet), how the proxies of the     *)
(* managers hang under each other, and which results are held and stale; each *)
(* theorem names the irregularities it excludes.                              *)
EXTENDS Pipeline, SequenceTheorems, TLAPS

(* The order of the passes: a pass belongs to one place of the plan, or, added *)
(* by a tool, to several.                                                      *)

PlacesOf(pass) ==
  CASE pass = "ask_call_graph" -> {1, 3, 5, 7, 10}
    [] pass \in {"ask_locations", "rewrite"} -> {3, 5, 7, 10}
    [] pass = "inject" -> {3, 4, 5}
    [] pass = "discovery" -> {2}
    [] pass = "optimize" -> {6}
    [] pass = "require_side_effects" -> {8}
    [] pass = "process_intrinsics" -> {9}
    [] pass = "isel" -> {11}
    [] pass = "lower_intrinsics" -> {12}
    [] pass = "preserve_live_registers" -> {13}
    [] pass = "require_for_machine_passes" -> {14}
    [] pass = "machine_passes" -> {15}
    [] pass = "patch" -> {16}
    [] pass = "print" -> {17}
    [] OTHER -> {}

Passes == {"ask_call_graph", "ask_locations", "rewrite", "inject", "discovery", "optimize",
           "require_side_effects", "process_intrinsics", "isel", "lower_intrinsics",
           "preserve_live_registers", "require_for_machine_passes", "machine_passes", "patch", "print"}

\* The passes of one callback come in any order.
MayFollow(x, y) == \E k \in PlacesOf(x), l \in PlacesOf(y) : k < l \/ (k = l /\ k \in {1, 3, 5, 7, 10})
InOrder(s) == \A i, j \in DOMAIN s : i < j => MayFollow(s[i], s[j])
\* The patcher and the printer come last, whatever was added.
Ending(s) == /\ s # <<>> => s[Len(s)] = "print"
             /\ Len(s) > 1 => s[Len(s) - 1] = "patch"
\* Nothing comes between the machine passes and the pass that requires for them.
RequiredBefore(s) == \A i \in 2..Len(s) : s[i] = "machine_passes" => s[i - 1] = "require_for_machine_passes"

Planned(s) == /\ s \in Seq(Passes) /\ InOrder(s) /\ Ending(s) /\ RequiredBefore(s)
              /\ "asked_early" \notin Shown => ~AsksEarly(s)
\* A failed discovery that ends the program leaves no pass to run.
Exited == todo = <<"exited">>
Schedule == Exited \/ Planned(todo)
AheadIn(s, x) == \E i \in DOMAIN s : s[i] = x
Ahead(x) == AheadIn(todo, x)

(* The managers. *)

\* Where a proxy to a manager may be cached: the prototype has one to each, a
\* module to its functions, and its functions to their machine functions.
Links == {<<PAM, m>> : m \in Proxied}
         \cup {<<MAM("T"), FAM("T")>>, <<MAM("T"), MFAM("T")>>, <<MAM("I"), FAM("I")>>, <<FAM("I"), MFAM("I")>>}
IsAm(a) == /\ a = [held |-> a.held, stale |-> a.stale, linked |-> a.linked, dead |-> a.dead, touched |-> a.touched]
           /\ a.stale \subseteq a.held
\* A proxy is held only under a manager that a proxy leads to.
Hung(links) ==
  /\ links \subseteq Links
  /\ \A s \in {"T", "I"} :
       /\ (\E m \in Proxied : <<MAM(s), m>> \in links) => <<PAM, MAM(s)>> \in links
       /\ <<FAM(s), MFAM(s)>> \in links => <<MAM(s), FAM(s)>> \in links
\* Once the prototype's manager is destroyed no proxy is left to clear another.
Buried == /\ am.touched = {}
          /\ am.dead # {} => am.linked = {} /\ todo = <<>>

\* Only the IR pipeline asks for the results of the intrinsics' functions.
Forgotten == deleted => IntrinsicResults \notin am.held /\ ~Ahead("optimize")

(* The machine code. *)

Built == /\ built \subseteq {Lifted(f) : f \in Functions} \cup {PayloadCode}
         /\ PayloadCode \in built => ~Ahead("optimize")
         /\ Exited \/ todo = <<>> => built = {}
\* Without its managers, cleared by a failed discovery, no code is held.
CodeHeld == "carries_on" \notin Shown => built \subseteq am.held

(* Freshness. *)

\* Nothing that changed under a result is kept from it.
Sound == {"asked_early", "forgot", "late_inline"} \cap Shown = {}
\* What the patcher and the lowering ask for is not cached while code is still
\* lifted, payloads created or their reads rewritten.
Early == "asked_early" \notin Shown =>
           /\ Ahead("discovery") \/ Ahead("inject") => {CFG, Liveness, SVLoc} \cap am.held = {}
           /\ Ahead("rewrite") \/ Ahead("discovery") => Specs \notin am.held
\* Side effects are those of payloads created.
MadeOnly == \A p \in Payloads : IR(p) \in am.held => p \in made
\* Only the patcher, whose results no later pass reads, leaves some stale.
Fresh == Sound => 
           /\ Len(todo) > 1 => am.stale = {}
           /\ \A f \in Functions : Lifted(f) \notin am.stale
           /\ ReadsAreFresh

(* Hits. *)

\* The locations are computed after the last payload, from points still cached.
Surviving == {"carries_on", "asked_early"} \cap Shown = {}
Hit == Surviving =>
         /\ Ahead("machine_passes") => /\ Parent("I") \in am.held
                                       /\ SVLoc \in am.held => IPIP \in am.held
         /\ todo # <<>> /\ todo[1] = "machine_passes" => RequiredForMachinePasses \subseteq am.held
         /\ CachedReadsHit

IInv == /\ Schedule /\ IsAm(am) /\ made \subseteq Payloads /\ Hung(am.linked) /\ Buried /\ Forgotten
        /\ Built /\ CodeHeld /\ Early /\ MadeOnly /\ Fresh /\ Hit

-----------------------------------------------------------------------------
(* Keys and what the managers know of them. *)

PrototypeKeys == {CallGraph, CFG, Liveness, IPIP, SVLoc, Specs}
IRs == {IR(p) : p \in Payloads}
Code == {Lifted(f) : f \in Functions} \cup {PayloadCode}
Others == {Operands, IntrinsicResults, Parent("T"), Parent("I")}

LEMMA ManagersDiffer ==
  /\ PAM # MAM("T") /\ PAM # MAM("I") /\ PAM # FAM("T") /\ PAM # FAM("I")
  /\ PAM # MFAM("T") /\ PAM # MFAM("I") /\ MAM("T") # MAM("I") /\ FAM("T") # FAM("I") /\ MFAM("T") # MFAM("I")
  /\ \A s, t \in {"T", "I"} : MAM(s) # FAM(t) /\ MAM(s) # MFAM(t) /\ FAM(s) # MFAM(t)
  /\ Proxied = {MAM("T"), MAM("I"), FAM("T"), FAM("I"), MFAM("T"), MFAM("I")}
BY DEF PAM, MAM, FAM, MFAM, ManagerOf, Proxied

LEMMA KeysDiffer ==
  /\ \A k \in PrototypeKeys : k[1] = PAM
  /\ \A k \in IRs : k[1] = FAM("I")
  /\ \A f \in Functions : Lifted(f)[1] = FAM("T")
  /\ PayloadCode[1] = FAM("I") /\ IntrinsicResults[1] = FAM("I") /\ Operands[1] = FAM("T")
  /\ \A s \in {"T", "I"} : Parent(s)[1] = MAM(s)
  /\ PayloadCode # IntrinsicResults /\ PayloadCode \notin IRs /\ IntrinsicResults \notin IRs
  /\ \A f \in Functions : Lifted(f) # Operands
  /\ \A p, q \in Payloads : IR(p) = IR(q) => p = q
  /\ \A p \in Payloads : IR(p)[2] = p
<1>1. \A k \in PrototypeKeys : k[1] = PAM
  <2>1. /\ CallGraph[1] = PAM /\ CFG[1] = PAM /\ Liveness[1] = PAM
        /\ IPIP[1] = PAM /\ SVLoc[1] = PAM /\ Specs[1] = PAM
    BY DEF CallGraph, CFG, Liveness, IPIP, SVLoc, Specs
  <2>2. QED
    BY <2>1 DEF PrototypeKeys
<1>2. \A k \in IRs : k[1] = FAM("I")
  <2>1. \A p \in Payloads : IR(p)[1] = FAM("I")
    BY DEF IR
  <2>2. QED
    BY <2>1 DEF IRs
<1>3. /\ \A f \in Functions : Lifted(f)[1] = FAM("T")
      /\ PayloadCode[1] = FAM("I") /\ IntrinsicResults[1] = FAM("I") /\ Operands[1] = FAM("T")
  BY DEF Lifted, PayloadCode, IntrinsicResults, Operands
<1>4. \A s \in {"T", "I"} : Parent(s)[1] = MAM(s)
  BY DEF Parent
<1>5. PayloadCode # IntrinsicResults
  BY DEF PayloadCode, IntrinsicResults
<1>6. \A p \in Payloads : IR(p)[2] = p
  BY DEF IR
<1>7. PayloadCode[2] = "code" /\ IntrinsicResults[2] = "intrinsics" /\ Operands[2] = "operands"
  BY DEF PayloadCode, IntrinsicResults, Operands
<1>8. PayloadCode \notin IRs /\ IntrinsicResults \notin IRs
  BY <1>6, <1>7, PipelineAssumption DEF IRs
<1>9. \A f \in Functions : Lifted(f) # Operands
  <2>1. \A f \in Functions : Lifted(f)[2] = f
    BY DEF Lifted
  <2>2. QED
    BY <2>1, <1>7, PipelineAssumption
<1>10. QED
  BY <1>1, <1>2, <1>3, <1>4, <1>5, <1>6, <1>8, <1>9

LEMMA PrototypeKeysDiffer ==
  /\ CallGraph \notin {CFG, Liveness, IPIP, SVLoc, Specs}
  /\ CFG \notin {Liveness, IPIP, SVLoc, Specs}
  /\ Liveness \notin {IPIP, SVLoc, Specs}
  /\ IPIP \notin {SVLoc, Specs}
  /\ SVLoc # Specs
BY DEF CallGraph, CFG, Liveness, IPIP, SVLoc, Specs

LEMMA Classes ==
  /\ PrototypeKeys \cap (IRs \cup Code \cup Others) = {}
  /\ IRs \cap (Code \cup Others) = {}
  /\ Code \cap Others = {}
BY KeysDiffer, ManagersDiffer DEF Code, Others

LEMMA NeedsOf ==
  /\ Needs(CallGraph) = {IPIP} /\ Needs(CFG) = {CallGraph} /\ Needs(Liveness) = {CFG, Operands}
  /\ Needs(SVLoc) = {IPIP, CFG, Liveness}
  /\ \A k : k \notin {CallGraph, CFG, Liveness, SVLoc} => Needs(k) = {}
BY PrototypeKeysDiffer DEF Needs

LEMMA ProxiesOf ==
  /\ Proxies(CallGraph) = {<<PAM, FAM("T")>>, <<PAM, FAM("I")>>}
  /\ Proxies(CFG) = {<<PAM, MAM("T")>>, <<PAM, MFAM("T")>>}
  /\ Proxies(IPIP) = {<<PAM, FAM("T")>>}
  /\ Proxies(SVLoc) = {<<PAM, m>> : m \in {MAM("T"), FAM("T"), MFAM("T")}}
  /\ Proxies(Specs) = {<<PAM, MAM("T")>>, <<PAM, MAM("I")>>}
  /\ \A k : k \notin {CallGraph, CFG, IPIP, SVLoc, Specs} => Proxies(k) = {}
BY PrototypeKeysDiffer DEF Proxies

\* A result is the prototype's, except the side effects of a payload and the
\* registers named in the code.
LEMMA TellsOf ==
  ASSUME NEW k
  PROVE  /\ "lifted" \in Tells(k) => k \in {CallGraph, CFG, Liveness, SVLoc}
         /\ "sites" \in Tells(k) => k \in {IPIP, CallGraph, CFG, Liveness, SVLoc}
         /\ "array_reads" \in Tells(k) => k = Specs \/ k \in IRs
         /\ \A p \in Payloads : p \in Tells(k) => k \in {CallGraph, CFG, Liveness, SVLoc} \/ k = IR(p)
<1> DEFINE E == {"operands", "code", "intrinsics", "parent", "lifted", "sites", "array_reads", "inlined_accesses"}
<1>0. Payloads \cap E = {}
  BY PipelineAssumption
<1>1. CASE k = IPIP
  <2>1. k \notin IRs /\ k \notin {CallGraph, CFG, Liveness, SVLoc, Specs} /\ k # Operands
    BY <1>1, PrototypeKeysDiffer, Classes DEF PrototypeKeys, Others
  <2>2. Tells(k) = {"sites"}
    BY <1>1, <2>1 DEF Tells, IRs
  <2>3. QED
    BY <2>2, <1>0, <1>1
<1>2. CASE k \in {CallGraph, CFG, Liveness, SVLoc}
  <2>1. k \notin IRs /\ k \notin {IPIP, Specs} /\ k # Operands
    BY <1>2, PrototypeKeysDiffer, Classes DEF PrototypeKeys, Others
  <2>2. Tells(k) = {"lifted", "sites"} \cup Payloads
    BY <1>2, <2>1 DEF Tells, IRs
  <2>3. QED
    BY <2>2, <1>0, <1>2
<1>3. CASE k = Specs
  <2>1. k \notin IRs /\ k \notin {IPIP, CallGraph, CFG, Liveness, SVLoc} /\ k # Operands
    BY <1>3, PrototypeKeysDiffer, Classes DEF PrototypeKeys, Others
  <2>2. Tells(k) = {"array_reads"}
    BY <1>3, <2>1 DEF Tells, IRs
  <2>3. QED
    BY <2>2, <1>0, <1>3
<1>4. CASE k \in IRs
  <2>1. k \notin PrototypeKeys /\ k # Operands
    BY <1>4, Classes DEF Others
  <2>2. Tells(k) = {k[2], "array_reads"}
    BY <1>4, <2>1 DEF Tells, IRs, PrototypeKeys
  <2>3. PICK p \in Payloads : k = IR(p) /\ k[2] = p
    BY <1>4, KeysDiffer DEF IRs
  <2>4. QED
    BY <2>2, <2>3, <1>0, <1>4
<1>5. CASE k \notin PrototypeKeys \cup IRs
  <2>1. Tells(k) = IF k = Operands THEN {"inlined_accesses"} ELSE {}
    BY <1>5 DEF Tells, IRs, PrototypeKeys
  <2>2. "inlined_accesses" \notin Payloads \cup {"lifted", "sites", "array_reads"}
    BY <1>0
  <2>3. QED
    BY <2>1, <2>2
<1>6. QED
  BY <1>1, <1>2, <1>3, <1>4, <1>5 DEF PrototypeKeys

(* What is computed for a request. *)

LEMMA NeededByFacts ==
  ASSUME NEW a, NEW keys
  PROVE  /\ keys \subseteq NeededBy(a, keys)
         /\ NeededBy(a, keys) \subseteq keys \cup ({IPIP, CallGraph, CFG, Liveness, Operands} \ a.held)
         /\ SVLoc \in keys => IPIP \in NeededBy(a, keys) \cup a.held
         /\ keys \subseteq {CallGraph, IPIP} => NeededBy(a, keys) \subseteq {CallGraph, IPIP}
         /\ keys \cap {CallGraph, CFG, Liveness, SVLoc} = {} => NeededBy(a, keys) = keys
<1>1. \A k : Needs(k) \subseteq {IPIP, CallGraph, CFG, Liveness, Operands}
  BY NeedsOf
<1>2. \A x : x \in NeededBy(a, keys) <=> x \in keys \/ (x \notin a.held /\ \E k \in keys : x \in Needs(k))
  <2> DEFINE N == UNION {Needs(k) : k \in keys}
  <2>1. \A x : x \in N <=> \E k \in keys : x \in Needs(k)
    BY Zenon
  <2>2. NeededBy(a, keys) = keys \cup (N \ a.held)
    BY DEF NeededBy
  <2>3. QED
    BY <2>1, <2>2
<1>3. NeededBy(a, keys) \subseteq keys \cup ({IPIP, CallGraph, CFG, Liveness, Operands} \ a.held)
  BY <1>1, <1>2
<1>4. SVLoc \in keys => IPIP \in NeededBy(a, keys) \cup a.held
  BY <1>2, NeedsOf
<1>5. keys \subseteq {CallGraph, IPIP} => NeededBy(a, keys) \subseteq {CallGraph, IPIP}
  <2>1. Needs(CallGraph) = {IPIP} /\ Needs(IPIP) = {}
    BY NeedsOf, PrototypeKeysDiffer
  <2>2. QED
    BY <1>2, <2>1
<1>6. keys \cap {CallGraph, CFG, Liveness, SVLoc} = {} => NeededBy(a, keys) = keys
  BY <1>2, NeedsOf
<1>7. QED
  BY <1>2, <1>3, <1>4, <1>5, <1>6

LEMMA MissingFacts ==
  ASSUME NEW a, NEW keys
  PROVE  /\ keys \subseteq a.held \cup Missing(a, keys)
         /\ Missing(a, keys) \subseteq (keys \cup {IPIP, CallGraph, CFG, Liveness, Operands}) \ a.held
         /\ SVLoc \in Missing(a, keys) => IPIP \in Missing(a, keys) \cup a.held
         /\ keys \subseteq {CallGraph, IPIP} => Missing(a, keys) \subseteq {CallGraph, IPIP}
         /\ keys \cap {CallGraph, CFG, Liveness, SVLoc} = {} => Missing(a, keys) = keys \ a.held
<1> DEFINE s0 == keys \ a.held
           s1 == NeededBy(a, s0)
           s2 == NeededBy(a, s1)
           s3 == NeededBy(a, s2)
<1>1. Missing(a, keys) = NeededBy(a, s3)
  BY DEF Missing
<1> HIDE DEF s1, s2, s3
<1>2. /\ s0 \subseteq s1 /\ s1 \subseteq s0 \cup ({IPIP, CallGraph, CFG, Liveness, Operands} \ a.held)
      /\ SVLoc \in s0 => IPIP \in s1 \cup a.held
      /\ s0 \subseteq {CallGraph, IPIP} => s1 \subseteq {CallGraph, IPIP}
      /\ s0 \cap {CallGraph, CFG, Liveness, SVLoc} = {} => s1 = s0
  BY NeededByFacts DEF s1
<1>3. /\ s1 \subseteq s2 /\ s2 \subseteq s1 \cup ({IPIP, CallGraph, CFG, Liveness, Operands} \ a.held)
      /\ s1 \subseteq {CallGraph, IPIP} => s2 \subseteq {CallGraph, IPIP}
      /\ s1 \cap {CallGraph, CFG, Liveness, SVLoc} = {} => s2 = s1
  BY NeededByFacts DEF s2
<1>4. /\ s2 \subseteq s3 /\ s3 \subseteq s2 \cup ({IPIP, CallGraph, CFG, Liveness, Operands} \ a.held)
      /\ s2 \subseteq {CallGraph, IPIP} => s3 \subseteq {CallGraph, IPIP}
      /\ s2 \cap {CallGraph, CFG, Liveness, SVLoc} = {} => s3 = s2
  BY NeededByFacts DEF s3
<1>5. /\ s3 \subseteq NeededBy(a, s3)
      /\ NeededBy(a, s3) \subseteq s3 \cup ({IPIP, CallGraph, CFG, Liveness, Operands} \ a.held)
      /\ s3 \subseteq {CallGraph, IPIP} => NeededBy(a, s3) \subseteq {CallGraph, IPIP}
      /\ s3 \cap {CallGraph, CFG, Liveness, SVLoc} = {} => NeededBy(a, s3) = s3
  BY NeededByFacts
<1>6. s0 \subseteq Missing(a, keys) /\ s1 \subseteq Missing(a, keys)
  BY <1>1, <1>2, <1>3, <1>4, <1>5
<1>7. Missing(a, keys) \subseteq s0 \cup ({IPIP, CallGraph, CFG, Liveness, Operands} \ a.held)
  BY <1>1, <1>2, <1>3, <1>4, <1>5
<1>8. SVLoc \in Missing(a, keys) => SVLoc \in s0
  BY <1>7, PrototypeKeysDiffer, Classes DEF Others, PrototypeKeys
<1>9. s0 \subseteq {CallGraph, IPIP} => Missing(a, keys) \subseteq {CallGraph, IPIP}
  BY <1>1, <1>2, <1>3, <1>4, <1>5
<1>10. s0 \cap {CallGraph, CFG, Liveness, SVLoc} = {} => Missing(a, keys) = s0
  BY <1>1, <1>2, <1>3, <1>4, <1>5
<1>11. QED
  BY <1>6, <1>7, <1>8, <1>9, <1>10, <1>2

(* What each operation on the managers does to them, field by field. *)

Same(a, b) == b.dead = a.dead /\ b.touched = a.touched

LEMMA LinkedFacts ==
  ASSUME NEW a, IsAm(a), NEW links
  PROVE  LET b == Linked(a, links)
         IN  /\ IsAm(b) /\ Same(a, b)
             /\ b.held = a.held /\ b.stale = a.stale /\ b.linked = a.linked \cup links
BY DEF Linked, IsAm, Same

LEMMA DroppedFacts ==
  ASSUME NEW a, IsAm(a), NEW keys
  PROVE  LET b == Dropped(a, keys)
         IN  /\ IsAm(b) /\ Same(a, b)
             /\ b.held = a.held \ keys /\ b.stale = a.stale \ keys /\ b.linked = a.linked
<1> DEFINE b == Dropped(a, keys)
<1>0. b = [a EXCEPT !.held = a.held \ keys, !.stale = a.stale \ keys]
  BY DEF Dropped
<1>1. b = [held |-> a.held \ keys, stale |-> a.stale \ keys, linked |-> a.linked,
           dead |-> a.dead, touched |-> a.touched]
  BY <1>0 DEF IsAm
<1> HIDE DEF b
<1>2. IsAm(b)
  BY <1>1 DEF IsAm
<1>3. QED
  BY <1>1, <1>2 DEF Same, b

LEMMA HeldFacts ==
  ASSUME NEW a, IsAm(a), NEW keys
  PROVE  LET b == [a EXCEPT !.held = @ \cup keys]
         IN  /\ IsAm(b) /\ Same(a, b)
             /\ b.held = a.held \cup keys /\ b.stale = a.stale /\ b.linked = a.linked
BY DEF IsAm, Same

LEMMA ChangedFacts ==
  ASSUME NEW a, IsAm(a), NEW facts
  PROVE  LET b == Changed(a, facts)
         IN  /\ IsAm(b) /\ Same(a, b)
             /\ b.held = a.held /\ b.linked = a.linked
             /\ b.stale = a.stale \cup {k \in a.held : Tells(k) \cap facts # {}}
<1> DEFINE b == Changed(a, facts)
           late == {k \in a.held : Tells(k) \cap facts # {}}
<1>0. late \subseteq a.held
  OBVIOUS
<1>1. b = [a EXCEPT !.stale = @ \cup late]
  BY DEF Changed
<1> HIDE DEF late
<1>2. b = [held |-> a.held, stale |-> a.stale \cup late, linked |-> a.linked,
           dead |-> a.dead, touched |-> a.touched]
  BY <1>1 DEF IsAm
<1> HIDE DEF b
<1>3. IsAm(b)
  BY <1>0, <1>2 DEF IsAm
<1>4. QED
  BY <1>2, <1>3 DEF Same, b, late

LEMMA GotAllFacts ==
  ASSUME NEW a, IsAm(a), NEW keys
  PROVE  LET b == GotAll(a, keys)
         IN  /\ IsAm(b) /\ Same(a, b)
             /\ b.held = a.held \cup Missing(a, keys)
             /\ b.linked = a.linked \cup UNION {Proxies(k) : k \in Missing(a, keys)}
             /\ a.stale \subseteq b.stale
             /\ b.stale \subseteq a.stale \cup Missing(a, keys)
             /\ a.stale = {} => b.stale = {}
             /\ keys \cap {CallGraph, CFG, Liveness, SVLoc} = {} => b.stale = a.stale
<1> DEFINE M == Missing(a, keys)
           late == {k \in M : \E n \in Missing(a, {k}) : Needs(n) \cap a.stale # {}}
           b == GotAll(a, keys)
<1>1. b = [a EXCEPT !.held = @ \cup M, !.stale = @ \cup late,
                    !.linked = @ \cup UNION {Proxies(k) : k \in M}]
  BY DEF GotAll
<1>2. late \subseteq M /\ (a.stale = {} => late = {})
  OBVIOUS
<1>3. keys \cap {CallGraph, CFG, Liveness, SVLoc} = {} => late = {}
  <2>1. SUFFICES ASSUME keys \cap {CallGraph, CFG, Liveness, SVLoc} = {}, NEW k \in M,
                        NEW n \in Missing(a, {k})
                 PROVE  Needs(n) = {}
    OBVIOUS
  <2>2. k \in keys
    BY <2>1, MissingFacts
  <2>3. n = k
    <3>1. {k} \cap {CallGraph, CFG, Liveness, SVLoc} = {}
      BY <2>1, <2>2
    <3>2. Missing(a, {k}) = {k} \ a.held
      BY <3>1, MissingFacts
    <3>3. QED
      BY <3>2
  <2>4. QED
    BY <2>1, <2>2, <2>3, NeedsOf
<1> HIDE DEF late, M
<1>4. /\ b = [held |-> a.held \cup M, stale |-> a.stale \cup late,
              linked |-> a.linked \cup UNION {Proxies(k) : k \in M},
              dead |-> a.dead, touched |-> a.touched]
  BY <1>1 DEF IsAm
<1> HIDE DEF b
<1>5. IsAm(b) /\ Same(a, b) /\ b.held = a.held \cup M /\ b.stale = a.stale \cup late
      /\ b.linked = a.linked \cup UNION {Proxies(k) : k \in M}
  BY <1>4, <1>2 DEF IsAm, Same
<1>6. QED
  BY <1>5, <1>2, <1>3 DEF M, b

LEMMA BehindFacts ==
  ASSUME NEW a, NEW ms
  PROVE  /\ ms \subseteq Behind(a, ms)
         /\ \A l \in a.linked : l[1] \in ms => l[2] \in Behind(a, ms)
         /\ \A m \in Behind(a, ms) : m \in ms \/ \E l \in a.linked : l[1] \in ms /\ l[2] = m
BY DEF Behind

Gone(a, ms) == Behind(a, Behind(a, Behind(a, ms)))

LEMMA ClearedFacts ==
  ASSUME NEW a, IsAm(a), NEW ms
  PROVE  LET b == Cleared(a, ms)
         IN  /\ IsAm(b) /\ b.dead = a.dead
             /\ b.touched = a.touched \cup (Gone(a, ms) \cap a.dead)
             /\ b.held = {k \in a.held : k[1] \notin Gone(a, ms)}
             /\ b.stale = {k \in a.stale : k[1] \notin Gone(a, ms)}
             /\ b.linked = {l \in a.linked : l[1] \notin Gone(a, ms)}
<1> DEFINE gone == Gone(a, ms)
           lost == {k \in a.held : k[1] \in gone}
           c == Dropped(a, lost)
           b == Cleared(a, ms)
<1>1. b = [c EXCEPT !.linked = {l \in @ : l[1] \notin gone}, !.touched = @ \cup (gone \cap a.dead)]
  BY DEF Cleared, Gone
<1>2. /\ IsAm(c) /\ Same(a, c) /\ c.held = a.held \ lost /\ c.stale = a.stale \ lost /\ c.linked = a.linked
  BY DroppedFacts
<1>3. /\ a.held \ lost = {k \in a.held : k[1] \notin gone}
      /\ a.stale \ lost = {k \in a.stale : k[1] \notin gone}
  BY DEF IsAm
<1> DEFINE kept == {l \in a.linked : l[1] \notin gone}
<1> HIDE DEF c, lost
<1>4. b = [held |-> c.held, stale |-> c.stale, linked |-> {l \in c.linked : l[1] \notin gone},
           dead |-> c.dead, touched |-> c.touched \cup (gone \cap a.dead)]
  BY <1>1, <1>2 DEF IsAm
<1>5. {l \in c.linked : l[1] \notin gone} = kept
  BY <1>2
<1> HIDE DEF b, kept, gone
<1>6. b = [held |-> c.held, stale |-> c.stale, linked |-> kept,
           dead |-> a.dead, touched |-> a.touched \cup (gone \cap a.dead)]
  BY <1>4, <1>5, <1>2 DEF Same
<1>7. IsAm(b)
  BY <1>6, <1>2 DEF IsAm
<1>8. QED
  BY <1>6, <1>7, <1>2, <1>3 DEF kept, b, gone

LEMMA NothingBehind ==
  ASSUME NEW a
  PROVE  Gone(a, {}) = {}
BY BehindFacts DEF Gone

(* Invalidation. *)

\* Nothing but results is lost.
Kept(a, b) == IsAm(b) /\ Same(a, b) /\ b.held \subseteq a.held /\ b.stale = a.stale \cap b.held

LEMMA KeptTwice ==
  ASSUME NEW a, NEW b, NEW c, Kept(a, b), Kept(b, c)
  PROVE  Kept(a, c)
BY DEF Kept, Same

LEMMA UnlinkNothing ==
  ASSUME NEW a, IsAm(a), NEW links, links \cap a.linked = {}
  PROVE  LET b == Unlink(a, links)
         IN  Kept(a, b) /\ b.held = a.held /\ b.linked = a.linked
<1> DEFINE c == [a EXCEPT !.linked = a.linked]
           b == Unlink(a, links)
<1>1. a.linked \ links = a.linked /\ {l[2] : l \in links \cap a.linked} = {}
  OBVIOUS
<1>2. b = Cleared(c, {})
  BY <1>1 DEF Unlink
<1>3. c = [held |-> a.held, stale |-> a.stale, linked |-> a.linked, dead |-> a.dead, touched |-> a.touched]
  BY DEF IsAm
<1> HIDE DEF c
<1>4. IsAm(c) /\ c.held = a.held /\ c.stale = a.stale /\ c.linked = a.linked /\ Same(a, c)
  BY <1>3 DEF IsAm, Same
<1> DEFINE d == Cleared(c, {})
<1>5. Gone(c, {}) = {}
  BY NothingBehind
<1>6. /\ IsAm(d) /\ d.dead = c.dead /\ d.touched = c.touched \cup (Gone(c, {}) \cap c.dead)
      /\ d.held = {k \in c.held : k[1] \notin Gone(c, {})}
      /\ d.stale = {k \in c.stale : k[1] \notin Gone(c, {})}
      /\ d.linked = {l \in c.linked : l[1] \notin Gone(c, {})}
  BY <1>4, ClearedFacts
<1> HIDE DEF d
<1>7. IsAm(d) /\ Same(a, d) /\ d.held = a.held /\ d.stale = a.stale /\ d.linked = a.linked
  BY <1>4, <1>5, <1>6 DEF Same
<1>8. QED
  BY <1>2, <1>7 DEF Kept, IsAm, d

LEMMA InvalidatePrototypeFacts ==
  ASSUME NEW a, IsAm(a), NEW pa, pa.all \/ Proxied \subseteq pa.managers
  PROVE  LET b == InvalidatePrototype(a, pa)
         IN  /\ Kept(a, b) /\ b.linked = a.linked
             /\ \A k \in a.held : k \in b.held <=> ~(k[1] = PAM /\ Invalid(k, pa))
<1> DEFINE lost == {k \in a.held : k[1] = PAM /\ Invalid(k, pa)}
           c == Dropped(a, lost)
           links == {<<PAM, m>> : m \in IF pa.all THEN {} ELSE Proxied \ pa.managers}
           b == InvalidatePrototype(a, pa)
<1>1. b = Unlink(c, links)
  BY DEF InvalidatePrototype
<1>2. links = {}
  OBVIOUS
<1>3. /\ IsAm(c) /\ Same(a, c)
      /\ c.held = a.held \ lost /\ c.stale = a.stale \ lost /\ c.linked = a.linked
  BY DroppedFacts
<1>4. Kept(a, c)
  BY <1>3 DEF Kept, IsAm
<1> HIDE DEF c, links
<1>5. Kept(c, b) /\ b.held = c.held /\ b.linked = c.linked
  BY <1>1, <1>2, <1>3, UnlinkNothing
<1> HIDE DEF b
<1>6. Kept(a, b)
  BY <1>4, <1>5, KeptTwice
<1>7. QED
  BY <1>3, <1>5, <1>6 DEF b

LEMMA InvalidateTargetFacts ==
  ASSUME NEW a, IsAm(a), NEW pa, pa.all \/ {FAM("T"), MFAM("T")} \subseteq pa.managers
  PROVE  LET b == InvalidateModule(a, "T", pa)
         IN  Kept(a, b) /\ b.held = a.held /\ b.linked = a.linked
<1> DEFINE walked == IF <<MAM("T"), FAM("T")>> \in a.linked /\ FAM("T") \in pa.managers /\ ~pa.all
                     THEN {k \in a.held : k \in {IR(p) : p \in Payloads} /\ k[1] = FAM("T")}
                     ELSE {}
           c == Dropped(a, walked)
           links == {<<MAM("T"), m>> : m \in IF pa.all THEN {} ELSE {FAM("T"), MFAM("T")} \ pa.managers}
           b == InvalidateModule(a, "T", pa)
<1>1. b = Unlink(c, links)
  BY DEF InvalidateModule
<1>2. links = {}
  OBVIOUS
<1>3. walked = {}
  BY KeysDiffer, ManagersDiffer DEF IRs
<1>4. /\ IsAm(c) /\ Same(a, c)
      /\ c.held = a.held \ walked /\ c.stale = a.stale \ walked /\ c.linked = a.linked
  BY DroppedFacts
<1> HIDE DEF c, links, walked
<1>5. Kept(a, c) /\ c.held = a.held
  BY <1>3, <1>4 DEF Kept, IsAm
<1>6. Kept(c, b) /\ b.held = c.held /\ b.linked = c.linked
  BY <1>1, <1>2, <1>4, UnlinkNothing
<1> HIDE DEF b
<1>7. QED
  BY <1>4, <1>5, <1>6, KeptTwice DEF b

\* The instrumentation module's functions, their manager kept.
LEMMA InvalidateInstrumentationFacts ==
  ASSUME NEW a, IsAm(a), a.linked \subseteq Links, NEW pa, FAM("I") \in pa.managers
  PROVE  LET b == InvalidateModule(a, "I", pa)
         IN  /\ Kept(a, b) /\ b.linked = a.linked
             /\ \A k \in a.held : k \in b.held <=> ~(/\ k \in IRs /\ ~pa.all
                                                     /\ <<MAM("I"), FAM("I")>> \in a.linked)
<1> DEFINE walked == IF <<MAM("I"), FAM("I")>> \in a.linked /\ FAM("I") \in pa.managers /\ ~pa.all
                     THEN {k \in a.held : k \in {IR(p) : p \in Payloads} /\ k[1] = FAM("I")}
                     ELSE {}
           c == Dropped(a, walked)
           links == {<<MAM("I"), m>> : m \in IF pa.all THEN {} ELSE {FAM("I"), MFAM("I")} \ pa.managers}
           b == InvalidateModule(a, "I", pa)
<1>1. b = Unlink(c, links)
  BY DEF InvalidateModule
<1>2. links \cap a.linked = {}
  <2>1. links \subseteq {<<MAM("I"), MFAM("I")>>}
    OBVIOUS
  <2>2. <<MAM("I"), MFAM("I")>> \notin Links
    BY ManagersDiffer DEF Links
  <2>3. QED
    BY <2>1, <2>2
<1>3. walked = IF <<MAM("I"), FAM("I")>> \in a.linked /\ ~pa.all THEN a.held \cap IRs ELSE {}
  BY KeysDiffer DEF IRs
<1>4. /\ IsAm(c) /\ Same(a, c)
      /\ c.held = a.held \ walked /\ c.stale = a.stale \ walked /\ c.linked = a.linked
  BY DroppedFacts
<1> HIDE DEF c, links, walked
<1>5. Kept(a, c)
  BY <1>4 DEF Kept, IsAm
<1>6. Kept(c, b) /\ b.held = c.held /\ b.linked = c.linked
  BY <1>1, <1>2, <1>4, UnlinkNothing
<1> HIDE DEF b
<1>7. Kept(a, b)
  BY <1>5, <1>6, KeptTwice
<1>8. QED
  BY <1>3, <1>4, <1>6, <1>7 DEF b

LEMMA Preserving ==
  ASSUME NEW managers
  PROVE  /\ LET pa == [All EXCEPT !.managers = @ \cup managers]
            IN  pa.all /\ pa.managers = managers /\ \A k : ~Invalid(k, pa)
         /\ LET pa == [None EXCEPT !.managers = @ \cup managers]
            IN  ~pa.all /\ pa.managers = managers /\ \A k : Invalid(k, pa) <=> k \notin Stateless
BY DEF All, None, Invalid

LEMMA Reports ==
  /\ All # None /\ All.all /\ ~None.all /\ None.managers = {}
  /\ ~NoneButProxies.all /\ NoneButProxies.managers = Proxied
  /\ \A k : Invalid(k, NoneButProxies) <=> k \notin Stateless
  /\ \A k : ~Invalid(k, All)
BY DEF All, None, NoneButProxies, Invalid

Reaching == {<<PAM, MAM("I")>>, <<MAM("I"), FAM("I")>>}

LEMMA RunModulePassFacts ==
  ASSUME NEW a, IsAm(a), NEW pa \in {All, None}, NEW dead, a.linked \cup Reaching \subseteq Links
  PROVE  LET b == RunModulePass(a, "I", pa, dead)
         IN  /\ Kept(a, b)
             /\ b.linked = a.linked \cup Reaching
             /\ \A k \in a.held : k \in b.held <=> ~(\/ k \in dead
                                                     \/ pa = None /\ (k \in IRs \/ (k[1] = PAM /\ k \notin Stateless)))
<1> DEFINE c == Linked(a, Reaching)
           d == Dropped(c, dead)
           pm == [pa EXCEPT !.managers = @ \cup {FAM("I")}]
           pp == [pa EXCEPT !.managers = @ \cup Proxied]
           e == InvalidateModule(d, "I", pm)
           b == RunModulePass(a, "I", pa, dead)
<1>1. b = InvalidatePrototype(e, pp)
  BY DEF RunModulePass, Reaching
<1>2. /\ FAM("I") \in pm.managers /\ Proxied \subseteq pp.managers
      /\ (pm.all <=> pa = All) /\ (pp.all <=> pa = All)
      /\ \A k : Invalid(k, pp) <=> pa = None /\ k \notin Stateless
  <2>1. CASE pa = All
    <3>1. pm.all /\ pm.managers = {FAM("I")} /\ pp.all /\ pp.managers = Proxied /\ \A k : ~Invalid(k, pp)
      BY <2>1, Preserving
    <3>2. QED
      BY <2>1, <3>1, Reports
  <2>2. CASE pa = None
    <3>1. /\ ~pm.all /\ pm.managers = {FAM("I")} /\ ~pp.all /\ pp.managers = Proxied
          /\ \A k : Invalid(k, pp) <=> k \notin Stateless
      BY <2>2, Preserving
    <3>2. QED
      BY <2>2, <3>1, Reports
  <2>3. QED
    BY <2>1, <2>2
<1>3. IsAm(c) /\ Same(a, c) /\ c.held = a.held /\ c.stale = a.stale /\ c.linked = a.linked \cup Reaching
  BY LinkedFacts
<1> HIDE DEF c, pm, pp
<1>4. IsAm(d) /\ Same(c, d) /\ d.held = c.held \ dead /\ d.stale = c.stale \ dead /\ d.linked = c.linked
  BY <1>3, DroppedFacts
<1>5. Kept(a, d) /\ d.held = a.held \ dead /\ d.linked = a.linked \cup Reaching
  BY <1>3, <1>4 DEF Kept, IsAm, Same
<1> HIDE DEF d
<1>6. /\ Kept(d, e) /\ e.linked = d.linked
      /\ \A k \in d.held : k \in e.held <=> ~(/\ k \in IRs /\ ~pm.all /\ <<MAM("I"), FAM("I")>> \in d.linked)
  BY <1>2, <1>4, <1>5, InvalidateInstrumentationFacts
<1>7. IsAm(e)
  BY <1>6 DEF Kept
<1> HIDE DEF e
<1>8. /\ Kept(e, b) /\ b.linked = e.linked
      /\ \A k \in e.held : k \in b.held <=> ~(k[1] = PAM /\ Invalid(k, pp))
  BY <1>1, <1>2, <1>7, InvalidatePrototypeFacts
<1> HIDE DEF b
<1>9. Kept(a, b)
  BY <1>5, <1>6, <1>8, KeptTwice
<1>10. <<MAM("I"), FAM("I")>> \in d.linked
  BY <1>5 DEF Reaching
<1>11. pa = None <=> ~pm.all
  BY <1>2, Reports
<1>12. ASSUME NEW k \in a.held
       PROVE  k \in b.held <=> ~(\/ k \in dead
                                 \/ pa = None /\ (k \in IRs \/ (k[1] = PAM /\ k \notin Stateless)))
  <2>1. b.held \subseteq e.held /\ e.held \subseteq d.held
    BY <1>6, <1>8 DEF Kept
  <2>2. QED
    BY <2>1, <1>2, <1>5, <1>6, <1>8, <1>10, <1>11, <1>12
<1>13. QED
  BY <1>5, <1>6, <1>8, <1>9, <1>12 DEF b

LEMMA PrintingFacts ==
  ASSUME NEW a, IsAm(a)
  PROVE  LET b == RunModulePass(Linked(a, {<<PAM, MAM("T")>>}), "T", All, {})
         IN  /\ Kept(a, b) /\ b.held = a.held
             /\ b.linked = a.linked \cup {<<PAM, MAM("T")>>, <<MAM("T"), FAM("T")>>}
<1> DEFINE z == Linked(a, {<<PAM, MAM("T")>>})
           c == Linked(z, {<<PAM, MAM("T")>>, <<MAM("T"), FAM("T")>>})
           d == Dropped(c, {})
           pm == [All EXCEPT !.managers = @ \cup {FAM("T")}]
           pp == [All EXCEPT !.managers = @ \cup Proxied]
           e == InvalidateModule(d, "T", pm)
           b == RunModulePass(z, "T", All, {})
<1>1. b = InvalidatePrototype(e, pp)
  BY DEF RunModulePass
<1>2. pm.all /\ pp.all /\ \A k : ~Invalid(k, pp)
  BY Preserving
<1>3. IsAm(z) /\ Same(a, z) /\ z.held = a.held /\ z.stale = a.stale /\ z.linked = a.linked \cup {<<PAM, MAM("T")>>}
  BY LinkedFacts
<1> HIDE DEF z, pm, pp
<1>4. IsAm(c) /\ Same(z, c) /\ c.held = z.held /\ c.stale = z.stale
      /\ c.linked = z.linked \cup {<<PAM, MAM("T")>>, <<MAM("T"), FAM("T")>>}
  BY <1>3, LinkedFacts
<1> HIDE DEF c
<1>5. IsAm(d) /\ Same(c, d) /\ d.held = c.held \ {} /\ d.stale = c.stale \ {} /\ d.linked = c.linked
  BY <1>4, DroppedFacts
<1> HIDE DEF d
<1>6. Kept(d, e) /\ e.held = d.held /\ e.linked = d.linked
  BY <1>2, <1>5, InvalidateTargetFacts
<1>7. IsAm(e)
  BY <1>6 DEF Kept
<1> HIDE DEF e
<1>8. /\ Kept(e, b) /\ b.linked = e.linked
      /\ \A k \in e.held : k \in b.held <=> ~(k[1] = PAM /\ Invalid(k, pp))
  BY <1>1, <1>2, <1>7, InvalidatePrototypeFacts
<1> HIDE DEF b
<1>9. Kept(a, d) /\ d.held = a.held /\ d.linked = a.linked \cup {<<PAM, MAM("T")>>, <<MAM("T"), FAM("T")>>}
  BY <1>3, <1>4, <1>5 DEF Kept, IsAm, Same
<1>10. Kept(a, b)
  BY <1>6, <1>8, <1>9, KeptTwice
<1>11. b.held = a.held
  BY <1>2, <1>6, <1>8, <1>9 DEF Kept
<1>12. QED
  BY <1>6, <1>8, <1>9, <1>10, <1>11 DEF b, z

\* A pass may clear the manager of the instrumentation module's functions.
LEMMA InnerPassesFacts ==
  ASSUME NEW a, IsAm(a), a.dead = {}, Hung(a.linked), NEW clears \in BOOLEAN
  PROVE  LET b == InnerPasses(a, clears)
         IN  /\ Kept(a, b)
             /\ \A k \in a.held : k[1] \notin {FAM("I"), MFAM("I")} => k \in b.held
             /\ ~clears => b.held = a.held
             /\ b.linked \subseteq a.linked \cup Reaching
             /\ Hung(b.linked)
<1> DEFINE c == Linked(a, Reaching)
           b == InnerPasses(a, clears)
<1>1. b = IF clears THEN InvalidateModule(c, "I", None) ELSE c
  BY DEF InnerPasses, Reaching
<1>2. IsAm(c) /\ Same(a, c) /\ c.held = a.held /\ c.stale = a.stale /\ c.linked = a.linked \cup Reaching
  BY LinkedFacts
<1>3. Hung(c.linked)
  <2>1. Reaching \subseteq Links
    BY ManagersDiffer DEF Reaching, Links
  <2>2. QED
    BY <1>2, <2>1, ManagersDiffer DEF Hung, Reaching
<1> HIDE DEF c
<1>4. CASE ~clears
  BY <1>1, <1>2, <1>3, <1>4 DEF Kept, IsAm
<1>5. CASE clears
  <2> DEFINE d == Dropped(c, {})
             links == {<<MAM("I"), m>> : m \in {FAM("I"), MFAM("I")}}
             e == [d EXCEPT !.linked = @ \ links]
             ms == {l[2] : l \in links \cap d.linked}
  <2>1. b = Unlink(d, links)
    BY <1>1, <1>5, Reports DEF InvalidateModule
  <2>2. b = Cleared(e, ms)
    BY <2>1 DEF Unlink
  <2>3. IsAm(d) /\ Same(c, d) /\ d.held = c.held \ {} /\ d.stale = c.stale \ {} /\ d.linked = c.linked
    BY <1>2, DroppedFacts
  <2> HIDE DEF d
  <2>4. ms = {FAM("I")}
    <3>1. <<MAM("I"), FAM("I")>> \in d.linked
      BY <1>2, <2>3 DEF Reaching
    <3>2. <<MAM("I"), MFAM("I")>> \notin d.linked
      BY <1>3, <2>3, ManagersDiffer DEF Hung, Links
    <3>3. links \cap d.linked = {<<MAM("I"), FAM("I")>>}
      BY <3>1, <3>2
    <3>4. QED
      <4>1. ms = {l[2] : l \in {<<MAM("I"), FAM("I")>>}}
        BY <3>3
      <4>2. <<MAM("I"), FAM("I")>>[2] = FAM("I")
        OBVIOUS
      <4>3. QED
        BY <4>1, <4>2
  <2>5. e = [held |-> d.held, stale |-> d.stale, linked |-> d.linked \ links, dead |-> d.dead, touched |-> d.touched]
    BY <2>3 DEF IsAm
  <2> HIDE DEF e
  <2>6. IsAm(e) /\ Same(d, e) /\ e.held = d.held /\ e.stale = d.stale /\ e.linked = d.linked \ links
    BY <2>3, <2>5 DEF IsAm, Same
  <2> DEFINE gone == Gone(e, ms)
  <2>7. gone \subseteq {FAM("I"), MFAM("I")} /\ FAM("I") \in gone
    <3>1. \A l \in e.linked : /\ l[1] = FAM("I") => l[2] = MFAM("I")
                              /\ l[1] # MFAM("I")
      BY <1>3, <2>3, <2>6, ManagersDiffer DEF Hung, Links
    <3>2. \A s : s \subseteq {FAM("I"), MFAM("I")} => Behind(e, s) \subseteq {FAM("I"), MFAM("I")}
      BY <3>1, BehindFacts
    <3>3. QED
      BY <2>4, <3>2, BehindFacts DEF Gone
  <2>8. /\ IsAm(b) /\ b.dead = e.dead /\ b.touched = e.touched \cup (Gone(e, ms) \cap e.dead)
        /\ b.held = {k \in e.held : k[1] \notin Gone(e, ms)}
        /\ b.stale = {k \in e.stale : k[1] \notin Gone(e, ms)}
        /\ b.linked = {l \in e.linked : l[1] \notin Gone(e, ms)}
    BY <2>2, <2>6, ClearedFacts
  <2> HIDE DEF b, gone
  <2>9. Kept(a, b)
    BY <1>2, <2>3, <2>6, <2>8 DEF Kept, Same, IsAm
  <2>10. \A k \in a.held : k[1] \notin {FAM("I"), MFAM("I")} => k \in b.held
    BY <1>2, <2>3, <2>6, <2>7, <2>8 DEF gone
  <2>11. b.linked \subseteq c.linked
    BY <2>3, <2>6, <2>8
  <2>12. Hung(b.linked)
    <3>1. \A l \in c.linked : l[1] # FAM("I") /\ l \notin links => l \in b.linked
      BY <1>3, <2>3, <2>6, <2>7, <2>8, ManagersDiffer DEF gone, Hung, Links
    <3>2. <<FAM("I"), MFAM("I")>> \notin b.linked
      BY <2>7, <2>8 DEF gone
    <3>3. \A m \in Proxied : <<MAM("I"), m>> \notin b.linked
      <4>1. \A m : <<MAM("I"), m>> \in c.linked => m = FAM("I")
        BY <1>3, ManagersDiffer DEF Hung, Links
      <4>2. QED
        BY <4>1, <2>3, <2>6, <2>8
    <3>4. (\E m \in Proxied : <<MAM("T"), m>> \in b.linked) => <<PAM, MAM("T")>> \in b.linked
      BY <1>3, <2>11, <3>1, ManagersDiffer DEF Hung
    <3>5. <<FAM("T"), MFAM("T")>> \notin b.linked
      BY <1>3, <2>11, ManagersDiffer DEF Hung, Links
    <3>6. QED
      BY <1>3, <2>11, <3>2, <3>3, <3>4, <3>5 DEF Hung
  <2>13. QED
    BY <1>5, <1>2, <2>9, <2>10, <2>11, <2>12 DEF b
<1>6. QED
  BY <1>4, <1>5 DEF b

-----------------------------------------------------------------------------
(* The order of the passes. *)

\* Where the passes are that the proofs tell apart: between lo and hi.
Within(pass, lo, hi) == \A k \in PlacesOf(pass) : k \in Nat /\ lo <= k /\ k <= hi

LEMMA Positions ==
  /\ Within("discovery", 0, 2)
  /\ Within("inject", 3, 5)
  /\ Within("optimize", 6, 6)
  /\ Within("ask_locations", 3, 10)
  /\ Within("rewrite", 3, 10)
  /\ Within("process_intrinsics", 9, 9)
  /\ Within("isel", 11, 11)
  /\ Within("lower_intrinsics", 12, 12)
  /\ Within("preserve_live_registers", 13, 13)
  /\ Within("require_for_machine_passes", 14, 14)
  /\ Within("patch", 16, 16)
  /\ Within("machine_passes", 15, 15)
  /\ Within("print", 17, 17)
<1>1. Within("discovery", 0, 2)
  <2>1. PlacesOf("discovery") = {2}
    BY DEF PlacesOf
  <2>2. QED
    BY <2>1 DEF Within
<1>2. Within("inject", 3, 5)
  <2>1. PlacesOf("inject") = {3, 4, 5}
    BY DEF PlacesOf
  <2>2. QED
    BY <2>1 DEF Within
<1>3. Within("optimize", 6, 6)
  <2>1. PlacesOf("optimize") = {6}
    BY DEF PlacesOf
  <2>2. QED
    BY <2>1 DEF Within
<1>4. Within("ask_locations", 3, 10)
  <2>1. PlacesOf("ask_locations") = {3, 5, 7, 10}
    BY DEF PlacesOf
  <2>2. QED
    BY <2>1 DEF Within
<1>5. Within("rewrite", 3, 10)
  <2>1. PlacesOf("rewrite") = {3, 5, 7, 10}
    BY DEF PlacesOf
  <2>2. QED
    BY <2>1 DEF Within
<1>6. Within("process_intrinsics", 9, 9)
  <2>1. PlacesOf("process_intrinsics") = {9}
    BY DEF PlacesOf
  <2>2. QED
    BY <2>1 DEF Within
<1>7. Within("isel", 11, 11)
  <2>1. PlacesOf("isel") = {11}
    BY DEF PlacesOf
  <2>2. QED
    BY <2>1 DEF Within
<1>8. Within("lower_intrinsics", 12, 12)
  <2>1. PlacesOf("lower_intrinsics") = {12}
    BY DEF PlacesOf
  <2>2. QED
    BY <2>1 DEF Within
<1>9. Within("preserve_live_registers", 13, 13)
  <2>1. PlacesOf("preserve_live_registers") = {13}
    BY DEF PlacesOf
  <2>2. QED
    BY <2>1 DEF Within
<1>10. Within("require_for_machine_passes", 14, 14)
  <2>1. PlacesOf("require_for_machine_passes") = {14}
    BY DEF PlacesOf
  <2>2. QED
    BY <2>1 DEF Within
<1>11. Within("patch", 16, 16)
  <2>1. PlacesOf("patch") = {16}
    BY DEF PlacesOf
  <2>2. QED
    BY <2>1 DEF Within
<1>12. Within("machine_passes", 15, 15)
  <2>1. PlacesOf("machine_passes") = {15}
    BY DEF PlacesOf
  <2>2. QED
    BY <2>1 DEF Within
<1>13. Within("print", 17, 17)
  <2>1. PlacesOf("print") = {17}
    BY DEF PlacesOf
  <2>2. QED
    BY <2>1 DEF Within
<1>14. QED
  BY <1>1, <1>2, <1>3, <1>4, <1>5, <1>6, <1>7, <1>8, <1>9, <1>10, <1>11, <1>12, <1>13

LEMMA TooLate ==
  ASSUME NEW x, NEW y, NEW m \in Nat, NEW n \in Nat, NEW lo \in Nat, NEW hi \in Nat,
         Within(x, lo, hi), Within(y, m, n), n < lo
  PROVE  ~MayFollow(x, y)
<1>1. SUFFICES ASSUME NEW k \in PlacesOf(x), NEW l \in PlacesOf(y), k < l \/ k = l
               PROVE  FALSE
  BY DEF MayFollow
<1>2. k \in Nat /\ lo <= k /\ l \in Nat /\ l <= n
  BY DEF Within
<1>3. QED
  BY <1>1, <1>2

LEMMA Following ==
  /\ \A x \in {"process_intrinsics", "isel"} : ~MayFollow(x, "optimize")
  /\ \A x \in {"ask_locations", "lower_intrinsics", "preserve_live_registers", "require_for_machine_passes", "patch"} :
       ~MayFollow(x, "discovery")
  /\ \A x \in {"lower_intrinsics", "preserve_live_registers", "require_for_machine_passes", "patch"} :
       ~MayFollow(x, "inject") /\ ~MayFollow(x, "rewrite")
  /\ ~MayFollow("patch", "patch")
  /\ \A x \in {"machine_passes", "patch", "print"} : ~MayFollow(x, "machine_passes")
<1>1. ~MayFollow("process_intrinsics", "optimize") /\ ~MayFollow("isel", "optimize")
  BY Positions, TooLate
<1>2. /\ ~MayFollow("ask_locations", "discovery") /\ ~MayFollow("lower_intrinsics", "discovery")
      /\ ~MayFollow("preserve_live_registers", "discovery")
      /\ ~MayFollow("require_for_machine_passes", "discovery") /\ ~MayFollow("patch", "discovery")
  BY Positions, TooLate
<1>3. /\ ~MayFollow("lower_intrinsics", "inject") /\ ~MayFollow("preserve_live_registers", "inject")
      /\ ~MayFollow("require_for_machine_passes", "inject") /\ ~MayFollow("patch", "inject")
  BY Positions, TooLate
<1>4. /\ ~MayFollow("lower_intrinsics", "rewrite") /\ ~MayFollow("preserve_live_registers", "rewrite")
      /\ ~MayFollow("require_for_machine_passes", "rewrite") /\ ~MayFollow("patch", "rewrite")
  BY Positions, TooLate
<1>5. ~MayFollow("patch", "patch")
  <2>1. SUFFICES ASSUME NEW k \in PlacesOf("patch"), NEW l \in PlacesOf("patch"),
                        k < l \/ (k = l /\ k \in {1, 3, 5, 7, 10})
                 PROVE  FALSE
    BY DEF MayFollow
  <2>2. k \in Nat /\ 16 <= k /\ l \in Nat /\ l <= 16
    BY Positions DEF Within
  <2>3. QED
    BY <2>1, <2>2
<1>6. ~MayFollow("patch", "machine_passes") /\ ~MayFollow("print", "machine_passes")
  BY Positions, TooLate
<1>7. ~MayFollow("machine_passes", "machine_passes")
  <2>1. SUFFICES ASSUME NEW k \in PlacesOf("machine_passes"), NEW l \in PlacesOf("machine_passes"),
                        k < l \/ (k = l /\ k \in {1, 3, 5, 7, 10})
                 PROVE  FALSE
    BY DEF MayFollow
  <2>2. k \in Nat /\ 15 <= k /\ l \in Nat /\ l <= 15
    BY Positions DEF Within
  <2>3. QED
    BY <2>1, <2>2
<1>8. QED
  BY <1>1, <1>2, <1>3, <1>4, <1>5, <1>6, <1>7

LEMMA Rest ==
  ASSUME NEW s, Planned(s), s # <<>>
  PROVE  /\ Head(s) = s[1] /\ 1 \in DOMAIN s
         /\ Planned(Tail(s))
         /\ \A x : AheadIn(Tail(s), x) => AheadIn(s, x) /\ MayFollow(Head(s), x)
         /\ Len(s) \in Nat \ {0} /\ Len(Tail(s)) = Len(s) - 1
         /\ Tail(s) = <<>> => Head(s) = "print"
         /\ Head(s) = "patch" => Len(Tail(s)) < 2
         /\ Tail(s) # <<>> /\ Tail(s)[1] = "machine_passes" => Head(s) = "require_for_machine_passes"
         /\ "asked_early" \notin Shown /\ Head(s) = "ask_locations" => ~AheadIn(Tail(s), "inject")
<1> DEFINE t == Tail(s)
<1>1. s \in Seq(Passes)
  BY DEF Planned
<1>2. /\ t \in Seq(Passes) /\ Len(t) = Len(s) - 1 /\ Len(s) \in Nat \ {0} /\ DOMAIN s = 1..Len(s)
      /\ DOMAIN t = 1..(Len(s) - 1) /\ Head(s) = s[1]
      /\ \A i \in 1..(Len(s) - 1) : t[i] = s[i + 1]
  BY <1>1, HeadTailProperties, LenProperties
<1> HIDE DEF t
<1>3. InOrder(t)
  <2>1. SUFFICES ASSUME NEW i \in DOMAIN t, NEW j \in DOMAIN t, i < j
                 PROVE  MayFollow(t[i], t[j])
    BY DEF InOrder
  <2>2. i + 1 \in DOMAIN s /\ j + 1 \in DOMAIN s /\ i + 1 < j + 1
    BY <1>2, <2>1
  <2>3. MayFollow(s[i + 1], s[j + 1])
    BY <2>2 DEF Planned, InOrder
  <2>4. QED
    BY <1>2, <2>3
<1>4. Ending(t)
  <2>1. ASSUME t # <<>>
        PROVE  t[Len(t)] = "print"
    <3>1. Len(t) # 0
      BY <1>2, <2>1, EmptySeq
    <3>2. Len(t) \in 1..(Len(s) - 1) /\ Len(t) + 1 = Len(s) /\ s # <<>>
      BY <1>2, <3>1
    <3>3. t[Len(t)] = s[Len(s)]
      BY <1>2, <3>2
    <3>4. QED
      BY <3>2, <3>3 DEF Planned, Ending
  <2>2. ASSUME Len(t) > 1
        PROVE  t[Len(t) - 1] = "patch"
    <3>1. Len(t) - 1 \in 1..(Len(s) - 1) /\ (Len(t) - 1) + 1 = Len(s) - 1 /\ Len(s) > 1
      BY <1>2, <2>2
    <3>2. t[Len(t) - 1] = s[Len(s) - 1]
      BY <1>2, <3>1
    <3>3. QED
      BY <3>1, <3>2 DEF Planned, Ending
  <2>3. QED
    BY <2>1, <2>2 DEF Ending
<1>5. RequiredBefore(t)
  <2>1. SUFFICES ASSUME NEW i \in 2..Len(t), t[i] = "machine_passes"
                 PROVE  t[i - 1] = "require_for_machine_passes"
    BY DEF RequiredBefore
  <2>2. i + 1 \in 2..Len(s) /\ (i + 1) - 1 = (i - 1) + 1 /\ i - 1 \in 1..(Len(s) - 1) /\ i \in 1..(Len(s) - 1)
    BY <1>2
  <2>3. s[(i + 1) - 1] = "require_for_machine_passes"
    BY <1>2, <2>1, <2>2 DEF Planned, RequiredBefore
  <2>4. QED
    BY <1>2, <2>2, <2>3
<1>6. "asked_early" \notin Shown => ~AsksEarly(t)
  <2>1. SUFFICES ASSUME NEW i \in DOMAIN t, NEW j \in DOMAIN t, i < j, t[i] = "ask_locations", t[j] = "inject"
                 PROVE  AsksEarly(s)
    BY DEF AsksEarly, Planned
  <2>2. i + 1 \in DOMAIN s /\ j + 1 \in DOMAIN s /\ i + 1 < j + 1
    <3>1. i \in 1..(Len(s) - 1) /\ j \in 1..(Len(s) - 1)
      BY <1>2
    <3>2. i < j
      BY <2>1
    <3>3. QED
      BY <1>2, <3>1, <3>2
  <2>3. t[i] = s[i + 1] /\ t[j] = s[j + 1]
    BY <1>2, <2>1
  <2>4. s[i + 1] = "ask_locations" /\ s[j + 1] = "inject"
    BY <2>1, <2>3
  <2>5. QED
    BY <2>2, <2>4 DEF AsksEarly
<1>7. ASSUME NEW x, AheadIn(t, x)
      PROVE  AheadIn(s, x) /\ MayFollow(Head(s), x)
  <2>1. PICK i \in DOMAIN t : t[i] = x
    BY <1>7 DEF AheadIn
  <2>2. i + 1 \in DOMAIN s /\ 1 \in DOMAIN s /\ 1 < i + 1 /\ s[i + 1] = x
    BY <1>2, <2>1
  <2>3. QED
    BY <1>2, <2>2 DEF AheadIn, Planned, InOrder
<1>8. t = <<>> => Head(s) = "print"
  <2>1. t = <<>> => Len(s) = 1
    BY <1>2
  <2>2. s[Len(s)] = "print"
    BY DEF Planned, Ending
  <2>3. QED
    BY <1>2, <2>1, <2>2
<1>9. Head(s) = "patch" => Len(t) < 2
  <2>1. SUFFICES ASSUME Head(s) = "patch", Len(t) > 1
                 PROVE  FALSE
    BY <1>2
  <2>2. t[Len(t) - 1] = "patch" /\ Len(t) - 1 \in DOMAIN t
    BY <1>2, <1>4, <2>1 DEF Ending
  <2>3. AheadIn(t, "patch")
    BY <2>2 DEF AheadIn
  <2>4. QED
    BY <1>7, <2>1, <2>3, Following
<1>10. ASSUME t # <<>>, t[1] = "machine_passes"
       PROVE  Head(s) = "require_for_machine_passes"
  <2>1. Len(t) # 0
    BY <1>2, <1>10, EmptySeq
  <2>2. 2 \in 2..Len(s) /\ 1 \in 1..(Len(s) - 1) /\ 1 + 1 = 2
    BY <1>2, <2>1
  <2>3. s[2] = "machine_passes"
    <3>1. t[1] = s[1 + 1]
      BY <1>2, <2>2
    <3>2. QED
      BY <3>1, <2>2, <1>10
  <2>4. s[2 - 1] = "require_for_machine_passes"
    BY <2>2, <2>3 DEF Planned, RequiredBefore
  <2>5. s[2 - 1] = s[1]
    OBVIOUS
  <2>6. QED
    BY <1>2, <2>4, <2>5
<1>11. ASSUME "asked_early" \notin Shown, Head(s) = "ask_locations", AheadIn(t, "inject")
       PROVE  FALSE
  <2>1. PICK i \in DOMAIN t : t[i] = "inject"
    BY <1>11 DEF AheadIn
  <2>2. i + 1 \in DOMAIN s /\ 1 \in DOMAIN s /\ 1 < i + 1 /\ t[i] = s[i + 1]
    BY <1>2, <2>1
  <2>3. s[i + 1] = "inject" /\ s[1] = "ask_locations"
    BY <1>2, <1>11, <2>1, <2>2
  <2>4. AsksEarly(s)
    BY <2>2, <2>3 DEF AsksEarly
  <2>5. QED
    BY <1>11, <2>4 DEF Planned
<1>12. Planned(t)
  BY <1>2, <1>3, <1>4, <1>5, <1>6 DEF Planned
<1>13. 1 \in DOMAIN s
  BY <1>2
<1>14. QED
  BY <1>2, <1>7, <1>8, <1>9, <1>10, <1>11, <1>12, <1>13 DEF t

LEMMA AtWork ==
  ASSUME Schedule, NEW x, x # "exited", Turn(x)
  PROVE  /\ Planned(todo) /\ todo # <<>> /\ Head(todo) = x /\ todo[1] = x /\ Ahead(x) /\ ~Exited
<1>1. todo # <<"exited">>
  <2>1. Head(<<"exited">>) = "exited"
    OBVIOUS
  <2>2. QED
    BY <2>1 DEF Turn
<1>2. Planned(todo) /\ todo # <<>> /\ Head(todo) = x
  BY <1>1 DEF Schedule, Exited, Turn
<1>3. QED
  BY <1>1, <1>2, Rest DEF Ahead, AheadIn, Exited

\* A stretch of a plan: its passes, in order, have places between lo and hi.
Stretch(s, lo, hi) ==
  /\ s \in Seq(Passes)
  /\ InOrder(s)
  /\ \A i \in DOMAIN s : \E k \in PlacesOf(s[i]) : k \in Nat /\ lo <= k /\ k <= hi

LEMMA StretchesJoin ==
  ASSUME NEW s, NEW t, NEW lo \in Nat, NEW m \in Nat, NEW n \in Nat, NEW hi \in Nat,
         Stretch(s, lo, m), Stretch(t, n, hi), lo <= m, m < n, n <= hi
  PROVE  Stretch(s \o t, lo, hi)
<1> DEFINE u == s \o t
<1>1. s \in Seq(Passes) /\ t \in Seq(Passes) /\ InOrder(s) /\ InOrder(t)
  BY DEF Stretch
<1>2. /\ u \in Seq(Passes) /\ Len(u) = Len(s) + Len(t)
      /\ \A i \in 1..(Len(s) + Len(t)) : u[i] = IF i <= Len(s) THEN s[i] ELSE t[i - Len(s)]
  BY <1>1, ConcatProperties
<1>3. Len(s) \in Nat /\ Len(t) \in Nat /\ DOMAIN s = 1..Len(s) /\ DOMAIN t = 1..Len(t) /\ DOMAIN u = 1..Len(u)
  BY <1>1, <1>2, LenProperties
<1> HIDE DEF u
<1>4. ASSUME NEW i \in DOMAIN u
      PROVE  \/ i \in DOMAIN s /\ u[i] = s[i]
             \/ i - Len(s) \in DOMAIN t /\ u[i] = t[i - Len(s)] /\ i \notin DOMAIN s
  <2>1. i \in 1..(Len(s) + Len(t))
    BY <1>2, <1>3
  <2>2. CASE i <= Len(s)
    BY <1>2, <1>3, <2>1, <2>2
  <2>3. CASE ~(i <= Len(s))
    <3>1. i - Len(s) \in DOMAIN t /\ i \notin DOMAIN s
      BY <1>3, <2>1, <2>3
    <3>2. QED
      BY <1>2, <2>1, <2>3, <3>1
  <2>4. QED
    BY <2>2, <2>3
<1>5. ASSUME NEW i \in DOMAIN u
      PROVE  \E k \in PlacesOf(u[i]) : k \in Nat /\ lo <= k /\ k <= hi
  <2>1. CASE i \in DOMAIN s /\ u[i] = s[i]
    <3>1. PICK k \in PlacesOf(s[i]) : k \in Nat /\ lo <= k /\ k <= m
      BY <2>1 DEF Stretch
    <3>2. QED
      BY <2>1, <3>1
  <2>2. CASE i - Len(s) \in DOMAIN t /\ u[i] = t[i - Len(s)]
    <3>1. PICK k \in PlacesOf(t[i - Len(s)]) : k \in Nat /\ n <= k /\ k <= hi
      BY <2>2 DEF Stretch
    <3>2. QED
      BY <2>2, <3>1
  <2>3. QED
    BY <1>4, <2>1, <2>2
<1>6. ASSUME NEW i \in DOMAIN u, NEW j \in DOMAIN u, i < j
      PROVE  MayFollow(u[i], u[j])
  <2>0. i \in Int /\ j \in Int
    BY <1>3
  <2>1. CASE j \in DOMAIN s /\ u[j] = s[j]
    <3>1. i \in DOMAIN s
      BY <1>3, <1>6, <2>0, <2>1
    <3>2. u[i] = s[i]
      BY <1>4, <3>1
    <3>3. QED
      BY <1>1, <1>6, <2>1, <3>1, <3>2 DEF InOrder
  <2>2. CASE /\ i \in DOMAIN s /\ u[i] = s[i]
             /\ j - Len(s) \in DOMAIN t /\ u[j] = t[j - Len(s)]
    <3>1. PICK k \in PlacesOf(s[i]) : k \in Nat /\ lo <= k /\ k <= m
      BY <2>2 DEF Stretch
    <3>2. PICK l \in PlacesOf(t[j - Len(s)]) : l \in Nat /\ n <= l /\ l <= hi
      BY <2>2 DEF Stretch
    <3>3. k < l
      BY <3>1, <3>2
    <3>4. MayFollow(s[i], t[j - Len(s)])
      BY <3>1, <3>2, <3>3 DEF MayFollow
    <3>5. QED
      BY <2>2, <3>4
  <2>3. CASE /\ i - Len(s) \in DOMAIN t /\ u[i] = t[i - Len(s)]
             /\ j - Len(s) \in DOMAIN t /\ u[j] = t[j - Len(s)]
    <3>1. i - Len(s) < j - Len(s)
      BY <1>3, <1>6, <2>0
    <3>2. QED
      BY <1>1, <2>3, <3>1 DEF InOrder
  <2>4. QED
    BY <1>4, <2>1, <2>2, <2>3
<1>7. QED
  BY <1>2, <1>5, <1>6 DEF Stretch, InOrder, u

LEMMA OnePass ==
  ASSUME NEW x \in Passes, NEW k \in Nat, k \in PlacesOf(x)
  PROVE  Stretch(<<x>>, k, k)
<1>1. <<x>> \in Seq(Passes) /\ DOMAIN <<x>> = 1..1 /\ <<x>>[1] = x
  OBVIOUS
<1>2. InOrder(<<x>>)
  BY <1>1 DEF InOrder
<1>3. \A i \in DOMAIN <<x>> : <<x>>[i] = x
  BY <1>1
<1>4. QED
  BY <1>1, <1>2, <1>3 DEF Stretch

\* A callback's passes may all be at its place.
LEMMA Callback ==
  ASSUME NEW slot, MayAdd(slot) \subseteq Passes, NEW k \in {1, 3, 5, 7, 10},
         \A x \in MayAdd(slot) : k \in PlacesOf(x),
         NEW s \in AddedAt(slot)
  PROVE  Stretch(s, k, k)
<1>1. PICK n \in 0..MaxAdded : s \in [1..n -> MayAdd(slot)]
  BY DEF AddedAt
<1>2. n \in Nat
  BY PipelineAssumption
<1>3. s \in Seq(MayAdd(slot)) /\ DOMAIN s = 1..n
  BY <1>1, <1>2
<1>4. s \in Seq(Passes)
  BY <1>3, SeqMonotonic
<1>5. \A i \in DOMAIN s : s[i] \in MayAdd(slot)
  BY <1>1, <1>3
<1>6. \A i, j \in DOMAIN s : MayFollow(s[i], s[j])
  BY <1>5 DEF MayFollow
<1>7. k \in Nat
  OBVIOUS
<1>8. QED
  BY <1>4, <1>5, <1>6, <1>7 DEF Stretch, InOrder

LEMMA Callbacks ==
  ASSUME NEW before, \A slot \in Slots : before[slot] \in AddedAt(slot)
  PROVE  /\ Stretch(before["discovery"], 1, 1)
         /\ Stretch(before["instrumentation"], 3, 3)
         /\ Stretch(before["optimization"], 5, 5)
         /\ Stretch(before["isel"], 7, 7)
         /\ Stretch(before["codegen"], 10, 10)
<1>1. /\ PlacesOf("ask_call_graph") = {1, 3, 5, 7, 10} /\ PlacesOf("ask_locations") = {3, 5, 7, 10}
      /\ PlacesOf("rewrite") = {3, 5, 7, 10} /\ PlacesOf("inject") = {3, 4, 5}
  BY DEF PlacesOf
<1>2. /\ MayAdd("discovery") = {"ask_call_graph"}
      /\ MayAdd("instrumentation") = {"ask_call_graph", "ask_locations", "inject", "rewrite"}
      /\ MayAdd("optimization") = {"ask_call_graph", "ask_locations", "inject", "rewrite"}
      /\ MayAdd("isel") = {"ask_call_graph", "ask_locations", "rewrite"}
      /\ MayAdd("codegen") = {"ask_call_graph", "ask_locations", "rewrite"}
  BY DEF MayAdd
<1>3. \A slot \in Slots : MayAdd(slot) \subseteq Passes
  BY <1>2 DEF Slots, Passes
<1>4. /\ \A x \in MayAdd("discovery") : 1 \in PlacesOf(x)
      /\ \A x \in MayAdd("instrumentation") : 3 \in PlacesOf(x)
      /\ \A x \in MayAdd("optimization") : 5 \in PlacesOf(x)
      /\ \A x \in MayAdd("isel") : 7 \in PlacesOf(x)
      /\ \A x \in MayAdd("codegen") : 10 \in PlacesOf(x)
  BY <1>1, <1>2
<1>5. /\ before["discovery"] \in AddedAt("discovery") /\ before["instrumentation"] \in AddedAt("instrumentation")
      /\ before["optimization"] \in AddedAt("optimization") /\ before["isel"] \in AddedAt("isel")
      /\ before["codegen"] \in AddedAt("codegen")
  BY DEF Slots
<1>6. {"discovery", "instrumentation", "optimization", "isel", "codegen"} = Slots
  BY DEF Slots
<1>7. QED
  BY <1>3, <1>4, <1>5, <1>6, Callback

LEMMA FixedPasses ==
  /\ Stretch(<<"discovery">>, 2, 2) /\ Stretch(<<"inject">>, 4, 4) /\ Stretch(<<"optimize">>, 6, 6)
  /\ Stretch(<<"require_side_effects", "process_intrinsics">>, 8, 9)
  /\ Stretch(buildPipeline, 11, 15)
  /\ Stretch(<<"patch", "print">>, 16, 17)
<1>1. Stretch(<<"discovery">>, 2, 2) /\ Stretch(<<"inject">>, 4, 4) /\ Stretch(<<"optimize">>, 6, 6)
  <2>1. 2 \in PlacesOf("discovery") /\ 4 \in PlacesOf("inject") /\ 6 \in PlacesOf("optimize")
    BY DEF PlacesOf
  <2>2. QED
    BY <2>1, OnePass DEF Passes
<1>2. /\ Stretch(<<"require_side_effects">>, 8, 8) /\ Stretch(<<"process_intrinsics">>, 9, 9)
      /\ Stretch(<<"isel">>, 11, 11) /\ Stretch(<<"lower_intrinsics">>, 12, 12)
      /\ Stretch(<<"preserve_live_registers">>, 13, 13) /\ Stretch(<<"require_for_machine_passes">>, 14, 14)
      /\ Stretch(<<"machine_passes">>, 15, 15) /\ Stretch(<<"patch">>, 16, 16) /\ Stretch(<<"print">>, 17, 17)
  <2>1. /\ 8 \in PlacesOf("require_side_effects") /\ 9 \in PlacesOf("process_intrinsics")
        /\ 11 \in PlacesOf("isel") /\ 12 \in PlacesOf("lower_intrinsics")
        /\ 13 \in PlacesOf("preserve_live_registers")
    BY DEF PlacesOf
  <2>2. /\ 14 \in PlacesOf("require_for_machine_passes") /\ 15 \in PlacesOf("machine_passes")
        /\ 16 \in PlacesOf("patch") /\ 17 \in PlacesOf("print")
    BY DEF PlacesOf
  <2>3. QED
    BY <2>1, <2>2, OnePass DEF Passes
<1>3. /\ <<"require_side_effects", "process_intrinsics">> = <<"require_side_effects">> \o <<"process_intrinsics">>
      /\ <<"patch", "print">> = <<"patch">> \o <<"print">>
  OBVIOUS
<1>4. buildPipeline = <<"isel">> \o <<"lower_intrinsics">> \o <<"preserve_live_registers">>
                      \o <<"require_for_machine_passes">> \o <<"machine_passes">>
  BY DEF buildPipeline
<1>5. /\ Stretch(<<"require_side_effects">> \o <<"process_intrinsics">>, 8, 9)
      /\ Stretch(<<"patch">> \o <<"print">>, 16, 17)
      /\ Stretch(<<"isel">> \o <<"lower_intrinsics">>, 11, 12)
  BY <1>2, StretchesJoin
<1>6. Stretch(<<"isel">> \o <<"lower_intrinsics">> \o <<"preserve_live_registers">>, 11, 13)
  BY <1>2, <1>5, StretchesJoin
<1>7. Stretch(<<"isel">> \o <<"lower_intrinsics">> \o <<"preserve_live_registers">>
              \o <<"require_for_machine_passes">>, 11, 14)
  BY <1>2, <1>6, StretchesJoin
<1>8. Stretch(buildPipeline, 11, 15)
  BY <1>2, <1>4, <1>7, StretchesJoin
<1>9. QED
  BY <1>1, <1>3, <1>5, <1>8

LEMMA PlansArePlanned ==
  ASSUME NEW plan \in Plans, "asked_early" \in Shown \/ ~AsksEarly(plan)
  PROVE  Planned(plan) /\ plan[1] # "machine_passes"
<1>1. PICK b : plan = buildInstrumentationPipeline(b) /\ \A slot \in Slots : b[slot] \in AddedAt(slot)
  BY DEF Plans
<1> DEFINE s1 == b["discovery"] \o <<"discovery">>
           s2 == s1 \o b["instrumentation"]
           s3 == s2 \o <<"inject">>
           s4 == s3 \o b["optimization"]
           s5 == s4 \o <<"optimize">>
           s6 == s5 \o b["isel"]
           s7 == s6 \o <<"require_side_effects", "process_intrinsics">>
           s8 == s7 \o b["codegen"]
           s9 == s8 \o buildPipeline
           end == <<"patch", "print">>
<1>2. plan = s9 \o end
  BY <1>1 DEF buildInstrumentationPipeline
<1>3. /\ Stretch(b["discovery"], 1, 1) /\ Stretch(b["instrumentation"], 3, 3) /\ Stretch(b["optimization"], 5, 5)
      /\ Stretch(b["isel"], 7, 7) /\ Stretch(b["codegen"], 10, 10)
  BY <1>1, Callbacks
<1>4. Stretch(s8, 1, 10)
  <2> HIDE DEF s1, s2, s3, s4, s5, s6, s7, s8
  <2>1. Stretch(s1, 1, 2)
    BY <1>3, FixedPasses, StretchesJoin DEF s1
  <2>2. Stretch(s2, 1, 3)
    BY <2>1, <1>3, StretchesJoin DEF s2
  <2>3. Stretch(s3, 1, 4)
    BY <2>2, FixedPasses, StretchesJoin DEF s3
  <2>4. Stretch(s4, 1, 5)
    BY <2>3, <1>3, StretchesJoin DEF s4
  <2>5. Stretch(s5, 1, 6)
    BY <2>4, FixedPasses, StretchesJoin DEF s5
  <2>6. Stretch(s6, 1, 7)
    BY <2>5, <1>3, StretchesJoin DEF s6
  <2>7. Stretch(s7, 1, 9)
    BY <2>6, FixedPasses, StretchesJoin DEF s7
  <2>8. QED
    BY <2>7, <1>3, StretchesJoin DEF s8
<1> HIDE DEF s8
<1>5. Stretch(s9, 1, 15) /\ Stretch(end, 16, 17)
  BY <1>4, FixedPasses, StretchesJoin
<1>6. Stretch(plan, 1, 17)
  <2> HIDE DEF s9, end
  <2>1. QED
    BY <1>2, <1>5, StretchesJoin
<1>7. /\ s8 \in Seq(Passes) /\ buildPipeline \in Seq(Passes) /\ s9 \in Seq(Passes) /\ end \in Seq(Passes)
      /\ plan \in Seq(Passes) /\ InOrder(plan)
  BY <1>4, <1>5, <1>6, FixedPasses DEF Stretch
<1>8. /\ Len(buildPipeline) = 5 /\ buildPipeline[4] = "require_for_machine_passes"
      /\ \A j \in 1..5 : buildPipeline[j] = "machine_passes" => j = 5
  <2>1. /\ Len(buildPipeline) = 5 /\ buildPipeline[1] = "isel" /\ buildPipeline[2] = "lower_intrinsics"
        /\ buildPipeline[3] = "preserve_live_registers" /\ buildPipeline[4] = "require_for_machine_passes"
    BY DEF buildPipeline
  <2>2. \A j \in 1..5 : j \in {1, 2, 3, 4, 5}
    OBVIOUS
  <2>3. QED
    BY <2>1, <2>2
<1>9. Len(end) = 2 /\ end[1] = "patch" /\ end[2] = "print"
  OBVIOUS
<1>10. /\ Len(s9) = Len(s8) + 5
       /\ \A i \in 1..(Len(s8) + 5) : s9[i] = IF i <= Len(s8) THEN s8[i] ELSE buildPipeline[i - Len(s8)]
  <2>1. /\ Len(s8 \o buildPipeline) = Len(s8) + Len(buildPipeline)
        /\ \A i \in 1..(Len(s8) + Len(buildPipeline)) :
             (s8 \o buildPipeline)[i] = IF i <= Len(s8) THEN s8[i] ELSE buildPipeline[i - Len(s8)]
    BY <1>7, ConcatProperties
  <2>2. QED
    BY <2>1, <1>8
<1> HIDE DEF s9, end
<1>11. /\ Len(plan) = Len(s9) + 2
       /\ \A i \in 1..(Len(s9) + 2) : plan[i] = IF i <= Len(s9) THEN s9[i] ELSE end[i - Len(s9)]
  <2>1. /\ Len(s9 \o end) = Len(s9) + Len(end)
        /\ \A i \in 1..(Len(s9) + Len(end)) : (s9 \o end)[i] = IF i <= Len(s9) THEN s9[i] ELSE end[i - Len(s9)]
    BY <1>7, ConcatProperties
  <2>2. QED
    BY <2>1, <1>2, <1>9
<1>12. Len(s8) \in Nat /\ Len(s9) \in Nat /\ Len(plan) \in Nat /\ DOMAIN s8 = 1..Len(s8)
  BY <1>7, LenProperties
<1>13. Ending(plan)
  <2>1. plan[Len(plan)] = end[2]
    BY <1>11, <1>12
  <2>2. plan[Len(plan) - 1] = end[1]
    BY <1>11, <1>12
  <2>3. QED
    BY <2>1, <2>2, <1>9 DEF Ending
<1>14. RequiredBefore(plan)
  <2>1. SUFFICES ASSUME NEW i \in 2..Len(plan), plan[i] = "machine_passes"
                 PROVE  plan[i - 1] = "require_for_machine_passes"
    BY DEF RequiredBefore
  <2>2. i \in Nat /\ 2 <= i /\ i <= Len(s9) + 2
    BY <1>11, <1>12
  <2>3. CASE i <= Len(s8)
    <3>1. i \in DOMAIN s8 /\ i \in 1..(Len(s8) + 5) /\ i \in 1..(Len(s9) + 2) /\ i <= Len(s9)
      BY <1>10, <1>12, <2>2, <2>3
    <3>2. plan[i] = s9[i] /\ s9[i] = s8[i]
      BY <1>10, <1>11, <2>3, <3>1
    <3>3. s8[i] = "machine_passes"
      BY <2>1, <3>2
    <3>4. PICK k \in PlacesOf("machine_passes") : k \in Nat /\ k <= 10
      BY <1>4, <3>1, <3>3 DEF Stretch
    <3>5. PlacesOf("machine_passes") = {15}
      BY DEF PlacesOf
    <3>6. k = 15
      BY <3>5
    <3>7. QED
      BY <3>4, <3>6
  <2>4. CASE Len(s8) < i /\ i <= Len(s9)
    <3>1. i - Len(s8) \in 1..5 /\ i \in 1..(Len(s8) + 5) /\ i \in 1..(Len(s9) + 2) /\ ~(i <= Len(s8))
      BY <1>10, <1>12, <2>2, <2>4
    <3>2. plan[i] = s9[i] /\ s9[i] = buildPipeline[i - Len(s8)]
      BY <1>10, <1>11, <2>4, <3>1
    <3>3. buildPipeline[i - Len(s8)] = "machine_passes"
      BY <2>1, <3>2
    <3>4. i - Len(s8) = 5
      BY <1>8, <3>1, <3>3
    <3>5. /\ (i - 1) - Len(s8) = 4 /\ i - 1 \in 1..(Len(s8) + 5) /\ i - 1 \in 1..(Len(s9) + 2)
          /\ ~(i - 1 <= Len(s8)) /\ i - 1 <= Len(s9)
      BY <1>10, <1>12, <2>2, <2>4, <3>4
    <3>6. plan[i - 1] = s9[i - 1] /\ s9[i - 1] = buildPipeline[4]
      BY <1>10, <1>11, <3>5
    <3>7. QED
      BY <1>8, <3>6
  <2>5. CASE Len(s9) < i
    <3>1. i - Len(s9) \in {1, 2} /\ i \in 1..(Len(s9) + 2) /\ ~(i <= Len(s9))
      BY <1>12, <2>2, <2>5
    <3>2. plan[i] = end[i - Len(s9)]
      BY <1>11, <3>1
    <3>3. plan[i] \in {"patch", "print"}
      BY <1>9, <3>1, <3>2
    <3>4. QED
      BY <2>1, <3>3
  <2>6. QED
    BY <1>12, <2>2, <2>3, <2>4, <2>5
<1>15. plan[1] # "machine_passes"
  <2>1. plan[1] = s9[1] /\ 1 \in 1..(Len(s8) + 5) /\ 1 - Len(s8) < 5
    BY <1>10, <1>11, <1>12
  <2>2. CASE 1 <= Len(s8)
    <3>1. 1 \in DOMAIN s8 /\ plan[1] = s8[1]
      BY <1>10, <1>12, <2>1, <2>2
    <3>2. PICK k \in PlacesOf(plan[1]) : k \in Nat /\ k <= 10
      BY <1>4, <3>1 DEF Stretch
    <3>3. PlacesOf("machine_passes") = {15}
      BY DEF PlacesOf
    <3>4. QED
      BY <3>2, <3>3
  <2>3. CASE ~(1 <= Len(s8))
    <3>1. Len(s8) = 0 /\ plan[1] = buildPipeline[1]
      BY <1>10, <1>12, <2>1, <2>3
    <3>2. QED
      BY <1>8, <3>1
  <2>4. QED
    BY <2>2, <2>3
<1>16. QED
  BY <1>7, <1>13, <1>14, <1>15 DEF Planned

-----------------------------------------------------------------------------
(* Steps. *)

LEMMA HungTogether ==
  ASSUME NEW l1, NEW l2, Hung(l1), Hung(l2)
  PROVE  Hung(l1 \cup l2)
BY DEF Hung

LEMMA HungLinks ==
  /\ \A links : links \subseteq {<<PAM, m>> : m \in Proxied} => Hung(links)
  /\ Hung(Reaching)
  /\ Hung({<<PAM, MAM("T")>>, <<MAM("T"), FAM("T")>>, <<MAM("T"), MFAM("T")>>})
  /\ Hung({<<PAM, MAM("T")>>, <<MAM("T"), FAM("T")>>})
<1>1. ASSUME NEW links, links \subseteq {<<PAM, m>> : m \in Proxied}
      PROVE  Hung(links)
  <2>1. \A s \in {"T", "I"} : \A m : <<MAM(s), m>> \notin links /\ <<FAM(s), m>> \notin links
    BY <1>1, ManagersDiffer
  <2>2. QED
    BY <1>1, <2>1 DEF Hung, Links
<1>2. Hung(Reaching)
  <2>1. <<PAM, MAM("I")>> \in Links /\ <<MAM("I"), FAM("I")>> \in Links
    BY ManagersDiffer DEF Links
  <2>2. /\ \A m : <<MAM("T"), m>> \notin Reaching
        /\ \A s \in {"T", "I"} : \A m : <<FAM(s), m>> \notin Reaching
    BY ManagersDiffer DEF Reaching
  <2>3. QED
    BY <2>1, <2>2 DEF Hung, Reaching
<1> DEFINE target == {<<PAM, MAM("T")>>, <<MAM("T"), FAM("T")>>, <<MAM("T"), MFAM("T")>>}
           less == {<<PAM, MAM("T")>>, <<MAM("T"), FAM("T")>>}
<1>3. target \subseteq Links
  BY ManagersDiffer DEF Links
<1>4. /\ \A m : <<MAM("I"), m>> \notin target
      /\ \A s \in {"T", "I"} : \A m : <<FAM(s), m>> \notin target
  BY ManagersDiffer
<1>5. less \subseteq target /\ <<PAM, MAM("T")>> \in less
  OBVIOUS
<1>6. Hung(target)
  BY <1>3, <1>4 DEF Hung
<1>7. Hung(less)
  <2> HIDE DEF target, less
  <2>1. QED
    BY <1>3, <1>4, <1>5 DEF Hung
<1>8. QED
  BY <1>1, <1>2, <1>6, <1>7

LEMMA Asked ==
  ASSUME NEW a, IsAm(a), NEW keys
  PROVE  LET b == GotAll(a, keys)
         IN  /\ IsAm(b) /\ Same(a, b)
             /\ a.held \subseteq b.held /\ keys \subseteq b.held
             /\ b.held \subseteq a.held \cup keys \cup {IPIP, CallGraph, CFG, Liveness, Operands}
             /\ (SVLoc \in a.held => IPIP \in a.held) => (SVLoc \in b.held => IPIP \in b.held)
             /\ keys \cap {CallGraph, CFG, Liveness, SVLoc} = {} =>
                  b.held = a.held \cup keys /\ b.stale = a.stale
             /\ keys \subseteq {CallGraph, IPIP} => b.held \subseteq a.held \cup {CallGraph, IPIP}
             /\ a.stale = {} => b.stale = {}
             /\ b.stale \subseteq a.stale \cup (b.held \ a.held)
             /\ Hung(a.linked) => Hung(b.linked)
             /\ \A links : Hung(a.linked \cup links) => Hung(b.linked \cup links)
<1> DEFINE b == GotAll(a, keys)
           M == Missing(a, keys)
           new == UNION {Proxies(k) : k \in M}
<1>1. /\ IsAm(b) /\ Same(a, b)
      /\ b.held = a.held \cup M
      /\ b.linked = a.linked \cup new
      /\ b.stale \subseteq a.stale \cup M
      /\ a.stale = {} => b.stale = {}
      /\ keys \cap {CallGraph, CFG, Liveness, SVLoc} = {} => b.stale = a.stale
  BY GotAllFacts
<1>2. /\ keys \subseteq a.held \cup M
      /\ M \subseteq (keys \cup {IPIP, CallGraph, CFG, Liveness, Operands}) \ a.held
      /\ SVLoc \in M => IPIP \in M \cup a.held
      /\ keys \subseteq {CallGraph, IPIP} => M \subseteq {CallGraph, IPIP}
      /\ keys \cap {CallGraph, CFG, Liveness, SVLoc} = {} => M = keys \ a.held
  BY MissingFacts
<1>3. Hung(new)
  <2>1. \A k : Proxies(k) \subseteq {<<PAM, m>> : m \in Proxied}
    <3>1. /\ Proxies(CallGraph) \subseteq {<<PAM, m>> : m \in Proxied}
          /\ Proxies(CFG) \subseteq {<<PAM, m>> : m \in Proxied}
          /\ Proxies(IPIP) \subseteq {<<PAM, m>> : m \in Proxied}
          /\ Proxies(SVLoc) \subseteq {<<PAM, m>> : m \in Proxied}
          /\ Proxies(Specs) \subseteq {<<PAM, m>> : m \in Proxied}
      BY ProxiesOf, ManagersDiffer
    <3>2. QED
      BY <3>1, ProxiesOf
  <2>2. \A l \in new : \E k : l \in Proxies(k)
    OBVIOUS
  <2>3. new \subseteq {<<PAM, m>> : m \in Proxied}
    BY <2>1, <2>2
  <2>4. QED
    BY <2>3, HungLinks
<1> HIDE DEF b, M, new
<1>4. Hung(a.linked) => Hung(b.linked)
  BY <1>1, <1>3, HungTogether
<1>5. ASSUME NEW links, Hung(a.linked \cup links)
      PROVE  Hung(b.linked \cup links)
  <2>1. b.linked \cup links = (a.linked \cup links) \cup new
    BY <1>1
  <2>2. QED
    BY <1>3, <1>5, <2>1, HungTogether
<1>6. a.held \subseteq b.held /\ keys \subseteq b.held
      /\ b.held \subseteq a.held \cup keys \cup {IPIP, CallGraph, CFG, Liveness, Operands}
  BY <1>1, <1>2
<1>7. (SVLoc \in a.held => IPIP \in a.held) => (SVLoc \in b.held => IPIP \in b.held)
  BY <1>1, <1>2
<1>8. keys \cap {CallGraph, CFG, Liveness, SVLoc} = {} => b.held = a.held \cup keys /\ b.stale = a.stale
  BY <1>1, <1>2
<1>9. b.stale \subseteq a.stale \cup (b.held \ a.held)
  BY <1>1, <1>2
<1>10. keys \subseteq {CallGraph, IPIP} => b.held \subseteq a.held \cup {CallGraph, IPIP}
  BY <1>1, <1>2
<1>11. QED
  BY <1>1, <1>4, <1>5, <1>6, <1>7, <1>8, <1>9, <1>10 DEF b

LEMMA ReadFacts ==
  ASSUME NEW a, NEW keys
  PROVE  /\ keys \cap a.stale = {} => \A r \in Read(a, keys) : r.fresh
         /\ keys \subseteq a.held => \A r \in Read(a, keys) : r.hit
<1>1. \A r \in Read(a, keys) : \E k \in keys : r = [key |-> k, hit |-> k \in a.held, fresh |-> k \notin a.stale]
  BY DEF Read
<1>2. \A k : /\ [key |-> k, hit |-> k \in a.held, fresh |-> k \notin a.stale].hit = (k \in a.held)
             /\ [key |-> k, hit |-> k \in a.held, fresh |-> k \notin a.stale].fresh = (k \notin a.stale)
  OBVIOUS
<1>3. QED
  BY <1>1, <1>2

\* What a pass may do: what it leaves among the results, and when.
PassStep(x) ==
  /\ Turn(x) /\ todo' = Tail(todo)
  /\ IsAm(am') /\ Same(am, am') /\ Hung(am'.linked)
  /\ made \subseteq made' /\ made' \subseteq Payloads
  /\ deleted' => deleted \/ (x = "process_intrinsics" /\ IntrinsicResults \notin am'.held)
  /\ IntrinsicResults \in am'.held => IntrinsicResults \in am.held \/ x = "optimize"
  /\ built' \subseteq built \cup {PayloadCode}
  /\ PayloadCode \in built' => PayloadCode \in built \/ x = "isel"
  /\ x = "print" => built' = {}
  /\ "carries_on" \notin Shown /\ built \subseteq am.held => built' \subseteq am'.held
  /\ {CFG, Liveness, SVLoc} \cap (am'.held \ am.held) # {} =>
       x \in {"ask_locations", "lower_intrinsics", "preserve_live_registers", "require_for_machine_passes", "patch"}
  /\ Specs \in am'.held \ am.held =>
       x \in {"lower_intrinsics", "preserve_live_registers", "require_for_machine_passes", "patch"}
  /\ \A p \in Payloads : IR(p) \in am'.held => IR(p) \in am.held \/ p \in made'
  /\ Sound => /\ am.stale = {} => x = "patch" \/ am'.stale = {}
              /\ \A f \in Functions : Lifted(f) \notin am.stale => Lifted(f) \notin am'.stale
              /\ ReadsAreFresh'
  /\ Surviving => /\ x \notin {"machine_passes", "patch", "print"} =>
                       (Parent("I") \in am.held => Parent("I") \in am'.held)
                  /\ (SVLoc \in am.held => IPIP \in am.held) => (SVLoc \in am'.held => IPIP \in am'.held)
                  /\ x = "require_for_machine_passes" => RequiredForMachinePasses \subseteq am'.held
                  /\ CachedReadsHit'

LEMMA PassStepKeeps ==
  ASSUME IInv, NEW x, x # "exited", PassStep(x)
  PROVE  IInv'
<1> DEFINE s == Tail(todo)
<1>1. Schedule /\ Turn(x) /\ todo' = s
  BY DEF IInv, PassStep
<1>2. /\ Planned(todo) /\ todo # <<>> /\ Head(todo) = x /\ todo[1] = x /\ Ahead(x) /\ ~Exited
  BY <1>1, AtWork
<1>3. /\ Planned(s)
      /\ \A y : AheadIn(s, y) => AheadIn(todo, y) /\ MayFollow(x, y)
      /\ Len(todo) \in Nat \ {0} /\ Len(s) = Len(todo) - 1
      /\ s = <<>> => x = "print"
      /\ x = "patch" => Len(s) < 2
      /\ s # <<>> /\ s[1] = "machine_passes" => x = "require_for_machine_passes"
      /\ "asked_early" \notin Shown /\ x = "ask_locations" => ~AheadIn(s, "inject")
  BY <1>2, Rest
<1> HIDE DEF s
<1>4. Schedule'
  <2>1. Planned(todo)'
    BY <1>1, <1>3 DEF Planned, InOrder, Ending, RequiredBefore, AsksEarly
  <2>2. QED
    BY <2>1 DEF Schedule
<1>5. \A y : Ahead(y)' => Ahead(y) /\ MayFollow(x, y)
  BY <1>1, <1>3 DEF Ahead, AheadIn
<1>6. ~Exited'
  <2>1. s \in Seq(Passes)
    BY <1>3 DEF Planned
  <2>2. ASSUME s = <<"exited">>
        PROVE  FALSE
    <3>1. Len(s) = 1 /\ s[1] = "exited"
      BY <2>2
    <3>2. 1 \in 1..Len(s)
      BY <3>1
    <3>3. s[1] \in Passes
      BY <2>1, <3>2, ElementOfSeq
    <3>4. QED
      BY <3>1, <3>3 DEF Passes
  <2>3. QED
    BY <1>1, <2>2 DEF Exited
<1>7. IsAm(am)' /\ (made \subseteq Payloads)' /\ Hung(am.linked)'
  BY DEF PassStep, IsAm, Hung
<1>8. Buried'
  BY <1>2 DEF PassStep, IInv, Buried, Same
<1>9. Forgotten'
  <2>1. SUFFICES ASSUME deleted'
                 PROVE  IntrinsicResults \notin am'.held /\ ~Ahead("optimize")'
    BY DEF Forgotten
  <2>2. CASE deleted
    <3>1. IntrinsicResults \notin am.held /\ ~Ahead("optimize")
      BY <2>2 DEF IInv, Forgotten
    <3>2. x # "optimize"
      BY <1>2, <3>1
    <3>3. IntrinsicResults \notin am'.held
      BY <3>1, <3>2 DEF PassStep
    <3>4. QED
      BY <1>5, <3>1, <3>3
  <2>3. CASE x = "process_intrinsics" /\ IntrinsicResults \notin am'.held
    BY <1>5, <2>3, Following
  <2>4. QED
    BY <2>1, <2>2, <2>3 DEF PassStep
<1>10. Built'
  BY <1>1, <1>3, <1>5, <1>6, Following DEF PassStep, IInv, Built
<1>11. CodeHeld'
  BY DEF PassStep, IInv, CodeHeld
<1>12. Early'
  <2>1. SUFFICES ASSUME "asked_early" \notin Shown
                 PROVE  /\ (Ahead("discovery") \/ Ahead("inject"))' => {CFG, Liveness, SVLoc} \cap am'.held = {}
                        /\ (Ahead("rewrite") \/ Ahead("discovery"))' => Specs \notin am'.held
    BY DEF Early
  <2>2. ASSUME (Ahead("discovery") \/ Ahead("inject"))'
        PROVE  {CFG, Liveness, SVLoc} \cap am'.held = {}
    <3>1. {CFG, Liveness, SVLoc} \cap am.held = {}
      BY <1>5, <2>1, <2>2 DEF IInv, Early
    <3>2. x \notin {"ask_locations", "lower_intrinsics", "preserve_live_registers",
                    "require_for_machine_passes", "patch"}
      BY <1>1, <1>3, <1>5, <2>1, <2>2, Following DEF Ahead
    <3>3. QED
      BY <3>1, <3>2 DEF PassStep
  <2>3. ASSUME (Ahead("rewrite") \/ Ahead("discovery"))'
        PROVE  Specs \notin am'.held
    <3>1. Specs \notin am.held
      BY <1>5, <2>1, <2>3 DEF IInv, Early
    <3>2. x \notin {"lower_intrinsics", "preserve_live_registers", "require_for_machine_passes", "patch"}
      BY <1>5, <2>3, Following
    <3>3. QED
      BY <3>1, <3>2 DEF PassStep
  <2>4. QED
    BY <2>2, <2>3
<1>13. MadeOnly'
  BY DEF PassStep, IInv, MadeOnly
<1>14. Fresh'
  <2>1. SUFFICES ASSUME Sound
                 PROVE  /\ Len(s) > 1 => am'.stale = {}
                        /\ \A f \in Functions : Lifted(f) \notin am'.stale
                        /\ ReadsAreFresh'
    BY <1>1 DEF Fresh, Sound
  <2>2. ASSUME Len(s) > 1
        PROVE  am'.stale = {}
    <3>1. Len(todo) > 1 /\ x # "patch"
      BY <1>3, <2>2
    <3>2. am.stale = {}
      BY <2>1, <3>1 DEF IInv, Fresh
    <3>3. QED
      BY <2>1, <3>1, <3>2 DEF PassStep
  <2>3. QED
    BY <2>1, <2>2 DEF PassStep, IInv, Fresh
<1>15. Hit'
  <2>1. SUFFICES ASSUME Surviving
                 PROVE  /\ AheadIn(s, "machine_passes") =>
                             /\ Parent("I") \in am'.held
                             /\ SVLoc \in am'.held => IPIP \in am'.held
                        /\ s # <<>> /\ s[1] = "machine_passes" => RequiredForMachinePasses \subseteq am'.held
                        /\ CachedReadsHit'
    BY <1>1 DEF Hit, Surviving, Ahead, AheadIn, RequiredForMachinePasses, CFG, Liveness, SVLoc, Specs,
         Parent, IPIP
  <2>2. ASSUME AheadIn(s, "machine_passes")
        PROVE  Parent("I") \in am'.held /\ (SVLoc \in am'.held => IPIP \in am'.held)
    <3>1. x \notin {"machine_passes", "patch", "print"}
      BY <1>3, <2>2, Following
    <3>2. Parent("I") \in am.held /\ (SVLoc \in am.held => IPIP \in am.held)
      BY <1>3, <2>1, <2>2 DEF IInv, Hit, Ahead
    <3>3. QED
      BY <2>1, <3>1, <3>2 DEF PassStep
  <2>3. QED
    BY <1>3, <2>1, <2>2 DEF PassStep
<1>16. QED
  BY <1>4, <1>7, <1>8, <1>9, <1>10, <1>11, <1>12, <1>13, <1>14, <1>15 DEF IInv

(* Passes over the whole prototype. *)

LEMMA BelowPrototype ==
  /\ \A k \in IRs \cup Code \cup Others : k[1] # PAM
  /\ Parent("I") \in Others /\ IntrinsicResults \in Others /\ Operands \in Others
  /\ \A f \in Functions : Lifted(f) \in Code
  /\ PayloadCode \in Code
  /\ \A p \in Payloads : IR(p) \in IRs
BY KeysDiffer, ManagersDiffer DEF Code, Others, IRs

LEMMA PrototypeInvalidated ==
  ASSUME NEW a, IsAm(a), NEW pa, pa.all \/ Proxied \subseteq pa.managers
  PROVE  LET b == InvalidatePrototype(a, pa)
         IN  /\ Kept(a, b) /\ b.linked = a.linked
             /\ \A k \in (IRs \cup Code \cup Others) \cap a.held : k \in b.held
             /\ \A k \in PrototypeKeys \cap a.held : k \in b.held <=> ~Invalid(k, pa)
BY InvalidatePrototypeFacts, BelowPrototype, KeysDiffer

LEMMA Unrelated ==
  ASSUME IInv
  PROVE  /\ IsAm(am) /\ am.stale \subseteq am.held /\ Hung(am.linked) /\ made \subseteq Payloads
         /\ built \subseteq Code
BY DEF IInv, IsAm, Built, Code

LEMMA FreshSoFar ==
  ASSUME IInv, Sound, NEW x, x \notin {"print", "exited"}, Turn(x)
  PROVE  am.stale = {}
<1>1. Planned(todo) /\ todo # <<>> /\ Head(todo) = x
  BY AtWork DEF IInv
<1>2. Len(Tail(todo)) = Len(todo) - 1 /\ Len(todo) \in Nat \ {0} /\ Tail(todo) # <<>>
  BY <1>1, Rest
<1>3. Tail(todo) \in Seq(Passes)
  BY <1>1, Rest DEF Planned
<1>4. Len(Tail(todo)) # 0
  BY <1>2, <1>3, EmptySeq
<1>5. QED
  BY <1>2, <1>4 DEF IInv, Fresh

LEMMA InjectKeeps ==
  ASSUME IInv, Inject
  PROVE  PassStep("inject")
<1>1. PICK ps \in SUBSET (Payloads \ made) :
        /\ Finish(InvalidatePrototype(
             createInjectedPayload(Linked(am, {<<PAM, FAM("T")>>, <<PAM, FAM("I")>>}), ps), payloadsCreatedPA))
        /\ made' = made \cup ps
  BY DEF Inject
<1>2. Turn("inject") /\ reads' = {} /\ built' = built /\ deleted' = deleted
  BY DEF Inject
<1> DEFINE z == Linked(am, {<<PAM, FAM("T")>>, <<PAM, FAM("I")>>})
           facts == {"sites"} \cup ps
           c == Changed(z, facts)
           new == {Operands} \cup {IR(p) : p \in ps}
           a == GotAll(c, new)
<1>3. todo' = Tail(todo) /\ am' = InvalidatePrototype(a, payloadsCreatedPA)
  BY <1>1 DEF Finish, createInjectedPayload
<1>4. /\ IsAm(z) /\ Same(am, z) /\ z.held = am.held /\ z.stale = am.stale
      /\ z.linked = am.linked \cup {<<PAM, FAM("T")>>, <<PAM, FAM("I")>>}
  BY Unrelated, LinkedFacts
<1> HIDE DEF z
<1>5. /\ IsAm(c) /\ Same(z, c) /\ c.held = z.held /\ c.linked = z.linked
      /\ c.stale = z.stale \cup {k \in z.held : Tells(k) \cap facts # {}}
  BY <1>4, ChangedFacts
<1>6. new \cap {CallGraph, CFG, Liveness, SVLoc} = {} /\ new \subseteq IRs \cup Others
  <2>1. new \subseteq IRs \cup Others
    BY <1>1, BelowPrototype
  <2>2. QED
    BY <2>1, Classes DEF PrototypeKeys
<1> HIDE DEF c, new
<1>7. /\ IsAm(a) /\ Same(c, a) /\ a.held = c.held \cup new /\ a.stale = c.stale
      /\ Hung(c.linked) => Hung(a.linked)
  BY <1>5, <1>6, Asked
<1> HIDE DEF a
<1>8. /\ ~payloadsCreatedPA.all /\ payloadsCreatedPA.managers = Proxied
      /\ \A k : Invalid(k, payloadsCreatedPA) <=>
                  k \notin Stateless \/ ("forgot" \notin Shown /\ k \in {IPIP, CallGraph})
  BY DEF payloadsCreatedPA, NoneButProxies, None, All, Invalid
<1>9. /\ Kept(a, am') /\ am'.linked = a.linked
      /\ \A k \in (IRs \cup Code \cup Others) \cap a.held : k \in am'.held
      /\ \A k \in PrototypeKeys \cap a.held : k \in am'.held <=> ~Invalid(k, payloadsCreatedPA)
  BY <1>3, <1>7, <1>8, PrototypeInvalidated
<1>10. IsAm(am') /\ Same(am, am') /\ am'.held \subseteq a.held /\ am'.stale = a.stale \cap am'.held
  BY <1>4, <1>5, <1>7, <1>9 DEF Kept, Same
<1>11. Hung(am'.linked)
  <2>1. Hung({<<PAM, FAM("T")>>, <<PAM, FAM("I")>>})
    BY HungLinks, ManagersDiffer
  <2>2. Hung(z.linked)
    BY <1>4, <2>1, Unrelated, HungTogether
  <2>3. QED
    BY <1>5, <1>7, <1>9, <2>2
<1>12. am'.held \subseteq am.held \cup new
  BY <1>4, <1>5, <1>7, <1>10
<1>13. ps \subseteq Payloads /\ ps \cap made = {}
  BY <1>1
<1>14. built \subseteq am.held => built \subseteq am'.held
  BY <1>4, <1>5, <1>7, <1>9, Unrelated
<1>15. \A p \in Payloads : IR(p) \in am'.held => IR(p) \in am.held \/ p \in made'
  <2>1. \A p \in Payloads : IR(p) \in new => p \in ps
    BY <1>13, KeysDiffer, BelowPrototype, Classes DEF new
  <2>2. QED
    BY <1>1, <1>12, <2>1
<1>16. IntrinsicResults \notin new /\ Specs \notin new /\ {CFG, Liveness, SVLoc} \cap new = {}
  <2>1. IntrinsicResults # Operands /\ IntrinsicResults \notin IRs
    BY KeysDiffer, ManagersDiffer
  <2>2. IntrinsicResults \notin new
    BY <2>1, <1>13, BelowPrototype DEF new
  <2>3. QED
    BY <1>6, <2>2, Classes DEF PrototypeKeys
<1>17. Ahead("inject")
  BY <1>2, AtWork DEF IInv
<1>18. \A k \in am.held : Tells(k) \cap facts # {} =>
         k \in {IPIP, CallGraph, CFG, Liveness, SVLoc} \/ \E p \in ps : k = IR(p)
  BY <1>13, TellsOf
<1>19. \A p \in ps : IR(p) \notin am.held
  BY <1>13 DEF IInv, MadeOnly
<1>20. a.stale \subseteq am.stale \cup ({IPIP, CallGraph, CFG, Liveness, SVLoc} \cap am.held)
  BY <1>4, <1>5, <1>7, <1>18, <1>19
<1>21. ASSUME Sound, am.stale = {}
       PROVE  am'.stale = {}
  <2>1. {CFG, Liveness, SVLoc} \cap am.held = {}
    BY <1>17, <1>21 DEF Sound, IInv, Early
  <2>2. a.stale \subseteq {IPIP, CallGraph}
    BY <1>20, <1>21, <2>1
  <2>3. "forgot" \notin Shown
    BY <1>21 DEF Sound
  <2>4. \A k \in {IPIP, CallGraph} : k \notin am'.held
    BY <1>8, <1>9, <1>10, <2>3 DEF PrototypeKeys
  <2>5. QED
    BY <1>10, <2>2, <2>4
<1>22. \A f \in Functions : Lifted(f) \notin am.stale => Lifted(f) \notin am'.stale
  <2>1. \A f \in Functions : Lifted(f) \notin PrototypeKeys
    BY BelowPrototype, Classes
  <2>2. QED
    BY <1>10, <1>20, <2>1 DEF PrototypeKeys
<1>23. Parent("I") \in am.held => Parent("I") \in am'.held
  BY <1>4, <1>5, <1>7, <1>9, BelowPrototype
<1>24. ASSUME Surviving
       PROVE  SVLoc \notin am'.held
  BY <1>12, <1>16, <1>17, <1>24 DEF Surviving, IInv, Early
<1>25. ReadsAreFresh' /\ CachedReadsHit'
  BY <1>2 DEF ReadsAreFresh, CachedReadsHit
<1>26. QED
  BY <1>1, <1>2, <1>3, <1>10, <1>11, <1>12, <1>13, <1>14, <1>15, <1>16, <1>21, <1>22, <1>23, <1>24, <1>25,
     Unrelated DEF PassStep

LEMMA AskKeeps ==
  ASSUME IInv, NEW x \in {"ask_call_graph", "ask_locations", "require_for_machine_passes"}, NEW keys,
         Ask(x, keys), keys \subseteq PrototypeKeys,
         x = "ask_call_graph" => keys = {CallGraph},
         x = "ask_locations" => Specs \notin keys,
         x = "require_for_machine_passes" => keys = RequiredForMachinePasses
  PROVE  PassStep(x)
<1> DEFINE a == GotAll(am, keys)
<1>1. Turn(x) /\ todo' = Tail(todo) /\ am' = a /\ reads' = Read(a, keys)
      /\ built' = built /\ made' = made /\ deleted' = deleted
  BY DEF Ask, Finish
<1>2. /\ IsAm(a) /\ Same(am, a)
      /\ am.held \subseteq a.held /\ keys \subseteq a.held
      /\ a.held \subseteq am.held \cup keys \cup {IPIP, CallGraph, CFG, Liveness, Operands}
      /\ (SVLoc \in am.held => IPIP \in am.held) => (SVLoc \in a.held => IPIP \in a.held)
      /\ keys \subseteq {CallGraph, IPIP} => a.held \subseteq am.held \cup {CallGraph, IPIP}
      /\ am.stale = {} => a.stale = {}
      /\ a.stale \subseteq am.stale \cup (a.held \ am.held)
      /\ Hung(am.linked) => Hung(a.linked)
  BY Unrelated, Asked
<1> HIDE DEF a
<1>3. am'.held \ am.held \subseteq PrototypeKeys \cup {Operands}
  BY <1>1, <1>2 DEF PrototypeKeys
<1>4. Operands # IntrinsicResults /\ Operands \notin IRs /\ IntrinsicResults \notin PrototypeKeys
      /\ Operands \notin PrototypeKeys
  BY KeysDiffer, ManagersDiffer, BelowPrototype, Classes
<1>5. IntrinsicResults \in am'.held => IntrinsicResults \in am.held
  BY <1>3, <1>4
<1>6. \A p \in Payloads : IR(p) \in am'.held => IR(p) \in am.held
  BY <1>3, <1>4, BelowPrototype, Classes
<1>7. {CFG, Liveness, SVLoc} \cap (am'.held \ am.held) # {} => x \in {"ask_locations", "require_for_machine_passes"}
  BY <1>1, <1>2, PrototypeKeysDiffer
<1>8. Specs \in am'.held \ am.held => x = "require_for_machine_passes"
  BY <1>1, <1>2, <1>4, PrototypeKeysDiffer DEF PrototypeKeys
<1>9. \A f \in Functions : Lifted(f) \notin am.stale => Lifted(f) \notin am'.stale
  <2>1. \A f \in Functions : Lifted(f) \notin PrototypeKeys \cup {Operands}
    BY BelowPrototype, Classes DEF Others
  <2>2. QED
    BY <1>1, <1>2, <1>3, <2>1
<1>10. ASSUME Sound
       PROVE  ReadsAreFresh'
  <2>1. am.stale = {}
    BY <1>1, <1>10, FreshSoFar
  <2>2. keys \cap a.stale = {}
    BY <1>2, <2>1
  <2>3. QED
    BY <1>1, <2>2, ReadFacts DEF ReadsAreFresh
<1>11. CachedReadsHit'
  BY <1>1, <1>2, ReadFacts DEF CachedReadsHit
<1>12. QED
  BY <1>1, <1>2, <1>5, <1>6, <1>7, <1>8, <1>9, <1>10, <1>11, Unrelated DEF PassStep, RequiredForMachinePasses

LEMMA LowerIntrinsicsKeeps ==
  ASSUME IInv, IntrinsicMIRLoweringPass
  PROVE  PassStep("lower_intrinsics")
<1> DEFINE a == GotAll(am, {Specs})
           some == [NoneButProxies EXCEPT !.kept = @ \cup {Specs}]
<1>1. PICK pa \in {All, some} : todo' = Tail(todo) /\ am' = InvalidatePrototype(a, pa)
  BY DEF IntrinsicMIRLoweringPass, Finish, Got
<1>2. Turn("lower_intrinsics") /\ reads' = Read(a, {Specs})
      /\ built' = built /\ made' = made /\ deleted' = deleted
  BY DEF IntrinsicMIRLoweringPass, Got
<1>3. /\ some.managers = Proxied /\ All.all
      /\ \A k : Invalid(k, some) => k \notin Stateless
      /\ \A k : ~Invalid(k, All)
  BY DEF NoneButProxies, None, All, Invalid
<1>4. /\ IsAm(a) /\ Same(am, a) /\ a.held = am.held \cup {Specs} /\ a.stale = am.stale
      /\ {Specs} \subseteq a.held
      /\ Hung(am.linked) => Hung(a.linked)
  BY Unrelated, Asked, PrototypeKeysDiffer
<1> HIDE DEF a, some
<1>5. (pa.all \/ Proxied \subseteq pa.managers) /\ \A k : Invalid(k, pa) => k \notin Stateless
  BY <1>1, <1>3
<1>6. /\ Kept(a, am') /\ am'.linked = a.linked
      /\ \A k \in (IRs \cup Code \cup Others) \cap a.held : k \in am'.held
      /\ \A k \in PrototypeKeys \cap a.held : k \in am'.held <=> ~Invalid(k, pa)
  BY <1>1, <1>4, <1>5, PrototypeInvalidated
<1>7. IsAm(am') /\ Same(am, am') /\ am'.held \subseteq am.held \cup {Specs} /\ am'.stale = am.stale \cap am'.held
  BY <1>4, <1>6 DEF Kept, Same
<1>8. Specs \notin IRs \cup Others /\ \A p \in Payloads : IR(p) # Specs
  BY Classes, BelowPrototype DEF PrototypeKeys
<1>9. IntrinsicResults \in am'.held => IntrinsicResults \in am.held
  BY <1>7, <1>8, BelowPrototype
<1>10. built \subseteq am.held => built' \subseteq am'.held
  BY <1>2, <1>4, <1>6, Unrelated
<1>11. {CFG, Liveness, SVLoc} \cap (am'.held \ am.held) = {}
  BY <1>7, PrototypeKeysDiffer
<1>12. Parent("I") \in am.held => Parent("I") \in am'.held
  BY <1>4, <1>6, BelowPrototype
<1>13. IPIP \in am.held => IPIP \in am'.held
  BY <1>4, <1>5, <1>6 DEF PrototypeKeys, Stateless
<1>14. SVLoc \in am'.held => SVLoc \in am.held
  BY <1>7, PrototypeKeysDiffer
<1>15. Sound => ReadsAreFresh'
  BY <1>2, <1>4, FreshSoFar, ReadFacts DEF ReadsAreFresh
<1>16. CachedReadsHit'
  BY <1>2, <1>4, ReadFacts DEF CachedReadsHit
<1>17. QED
  BY <1>1, <1>2, <1>4, <1>6, <1>7, <1>8, <1>9, <1>10, <1>11, <1>12, <1>13, <1>14, <1>15, <1>16, Unrelated
  DEF PassStep

LEMMA PreserveKeeps ==
  ASSUME IInv, InjectedPayloadPreserveLiveRegsPass
  PROVE  PassStep("preserve_live_registers")
<1> DEFINE links == {<<PAM, MAM("I")>>, <<MAM("I"), FAM("I")>>, <<PAM, FAM("T")>>}
           keys == {Liveness, CFG} \cup {IR(p) : p \in made}
           z == Linked(am, links)
           a == GotAll(z, keys)
<1>1. PICK pa \in {All, NoneButProxies} : todo' = Tail(todo) /\ am' = InvalidatePrototype(a, pa)
  BY DEF InjectedPayloadPreserveLiveRegsPass, Finish
<1>2. Turn("preserve_live_registers") /\ reads' = Read(a, keys)
      /\ built' = built /\ made' = made /\ deleted' = deleted
  BY DEF InjectedPayloadPreserveLiveRegsPass
<1>3. (pa.all \/ Proxied \subseteq pa.managers) /\ \A k : Invalid(k, pa) => k \notin Stateless
  BY <1>1, Reports
<1>4. IsAm(z) /\ Same(am, z) /\ z.held = am.held /\ z.stale = am.stale /\ z.linked = am.linked \cup links
  BY Unrelated, LinkedFacts
<1>5. Hung(z.linked)
  <2>1. Hung({<<PAM, FAM("T")>>})
    BY HungLinks, ManagersDiffer
  <2>2. links = Reaching \cup {<<PAM, FAM("T")>>}
    BY DEF Reaching
  <2>3. Hung(links)
    BY <2>1, <2>2, HungLinks, HungTogether
  <2>4. QED
    BY <1>4, <2>3, Unrelated, HungTogether
<1>9. /\ keys \subseteq {Liveness, CFG} \cup IRs
      /\ \A p \in Payloads : IR(p) \in keys => p \in made
  <2>1. \A p \in Payloads : IR(p) \notin {Liveness, CFG}
    BY BelowPrototype, Classes DEF PrototypeKeys
  <2>2. QED
    BY <2>1, Unrelated, BelowPrototype, KeysDiffer
<1> HIDE DEF z, links, keys
<1>6. /\ IsAm(a) /\ Same(z, a)
      /\ z.held \subseteq a.held /\ keys \subseteq a.held
      /\ a.held \subseteq z.held \cup keys \cup {IPIP, CallGraph, CFG, Liveness, Operands}
      /\ (SVLoc \in z.held => IPIP \in z.held) => (SVLoc \in a.held => IPIP \in a.held)
      /\ z.stale = {} => a.stale = {}
      /\ a.stale \subseteq z.stale \cup (a.held \ z.held)
      /\ Hung(a.linked)
  BY <1>4, <1>5, Asked
<1> HIDE DEF a
<1>7. /\ Kept(a, am') /\ am'.linked = a.linked
      /\ \A k \in (IRs \cup Code \cup Others) \cap a.held : k \in am'.held
      /\ \A k \in PrototypeKeys \cap a.held : k \in am'.held <=> ~Invalid(k, pa)
  BY <1>1, <1>3, <1>6, PrototypeInvalidated
<1>8. IsAm(am') /\ Same(am, am') /\ am'.held \subseteq a.held /\ am'.stale = a.stale \cap am'.held
  BY <1>4, <1>6, <1>7 DEF Kept, Same
<1>10. am'.held \subseteq am.held \cup keys \cup {IPIP, CallGraph, CFG, Liveness, Operands}
  BY <1>4, <1>6, <1>8
<1>11. IntrinsicResults \in am'.held => IntrinsicResults \in am.held
  <2>1. IntrinsicResults \notin IRs \cup PrototypeKeys \cup {Operands}
    BY KeysDiffer, ManagersDiffer, BelowPrototype, Classes
  <2>2. QED
    BY <1>9, <1>10, <2>1 DEF PrototypeKeys
<1>12. \A p \in Payloads : IR(p) \in am'.held => IR(p) \in am.held \/ p \in made
  <2>1. \A p \in Payloads : IR(p) \notin PrototypeKeys \cup {Operands}
    BY BelowPrototype, Classes
  <2>2. QED
    BY <1>9, <1>10, <2>1 DEF PrototypeKeys
<1>13. built \subseteq am.held => built' \subseteq am'.held
  BY <1>2, <1>4, <1>6, <1>7, Unrelated
<1>14. Parent("I") \in am.held => Parent("I") \in am'.held
  BY <1>4, <1>6, <1>7, BelowPrototype
<1>15. (SVLoc \in am.held => IPIP \in am.held) => (SVLoc \in am'.held => IPIP \in am'.held)
  BY <1>3, <1>4, <1>6, <1>7, <1>8 DEF PrototypeKeys, Stateless
<1>16. \A f \in Functions : Lifted(f) \notin am.stale => Lifted(f) \notin am'.stale
  <2>1. \A f \in Functions : Lifted(f) \notin PrototypeKeys \cup IRs \cup {Operands}
    BY BelowPrototype, Classes
  <2>2. QED
    BY <1>4, <1>6, <1>8, <1>9, <2>1 DEF PrototypeKeys
<1>17. am.stale = {} => am'.stale = {}
  BY <1>4, <1>6, <1>8
<1>18. Sound => ReadsAreFresh'
  <2>1. Sound => keys \cap a.stale = {}
    BY <1>2, <1>4, <1>6, FreshSoFar
  <2>2. QED
    BY <1>2, <2>1, ReadFacts DEF ReadsAreFresh
<1>19. CachedReadsHit'
  BY <1>2, <1>6, ReadFacts DEF CachedReadsHit
<1>20. QED
  BY <1>1, <1>2, <1>6, <1>7, <1>8, <1>11, <1>12, <1>13, <1>14, <1>15, <1>16, <1>17, <1>18, <1>19, Unrelated
  DEF PassStep

(* Passes over one module. *)

\* What stays when a pass over the instrumentation module has run.
LEMMA ModulePassed ==
  ASSUME IInv, NEW b, IsAm(b), Same(am, b), Hung(b.linked), NEW pa \in {All, None}, NEW dead \in SUBSET {IntrinsicResults}
  PROVE  LET c == RunModulePass(b, "I", pa, dead)
         IN  /\ IsAm(c) /\ Same(am, c) /\ Hung(c.linked)
             /\ c.held \subseteq b.held \ dead /\ c.stale = b.stale \cap c.held
             /\ (Code \cup Stateless \cup {Parent("I")}) \cap b.held \subseteq c.held
             /\ pa = None => IRs \cap c.held = {}
<1> DEFINE c == RunModulePass(b, "I", pa, dead)
<1>1. b.linked \cup Reaching \subseteq Links
  BY HungLinks DEF Hung
<1>2. /\ Kept(b, c)
      /\ c.linked = b.linked \cup Reaching
      /\ \A k \in b.held : k \in c.held <=> ~(\/ k \in dead
                                              \/ pa = None /\ (k \in IRs \/ (k[1] = PAM /\ k \notin Stateless)))
  BY <1>1, RunModulePassFacts
<1> HIDE DEF c
<1>3. Hung(c.linked)
  BY <1>2, HungLinks, HungTogether
<1>4. IsAm(c) /\ Same(am, c) /\ c.held \subseteq b.held \ dead /\ c.stale = b.stale \cap c.held
  BY <1>2 DEF Kept, Same
<1>5. (Code \cup Stateless \cup {Parent("I")}) \cap b.held \subseteq c.held
  <2>1. Stateless \subseteq PrototypeKeys
    BY DEF Stateless, PrototypeKeys
  <2>2. Parent("I") # IntrinsicResults
    BY KeysDiffer, ManagersDiffer
  <2>3. \A k \in Code \cup Stateless \cup {Parent("I")} : k \notin dead /\ k \notin IRs
    BY <2>1, <2>2, BelowPrototype, Classes
  <2>4. \A k \in Code \cup {Parent("I")} : k[1] # PAM
    BY BelowPrototype
  <2>5. QED
    BY <1>2, <2>3, <2>4
<1>6. pa = None => IRs \cap c.held = {}
  BY <1>2, <1>4
<1>7. QED
  BY <1>3, <1>4, <1>5, <1>6 DEF c

\* What no pass over a module computes, and what it leaves.
LEMMA ModulePassStep ==
  ASSUME IInv, NEW x, x \notin {"print", "exited"}, Turn(x), todo' = Tail(todo),
         IsAm(am'), Same(am, am'), Hung(am'.linked), made' = made,
         deleted' => deleted \/ (x = "process_intrinsics" /\ IntrinsicResults \notin am'.held),
         built' = built \/ (x = "isel" /\ built' = built \cup {PayloadCode} /\ PayloadCode \in am'.held),
         am'.held \subseteq am.held \cup {PayloadCode, IntrinsicResults} \cup {IR(p) : p \in made},
         IntrinsicResults \in am'.held => IntrinsicResults \in am.held \/ x = "optimize",
         \A f \in Functions : Lifted(f) \in am.held => Lifted(f) \in am'.held,
         PayloadCode \in am.held \cap built => PayloadCode \in am'.held,
         (Stateless \cup {Parent("I")}) \cap am.held \subseteq am'.held,
         Sound => am'.stale = {} /\ ReadsAreFresh',
         Surviving => CachedReadsHit',
         x # "require_for_machine_passes"
  PROVE  PassStep(x)
<1>1. made \subseteq Payloads /\ IsAm(am) /\ built \subseteq {Lifted(f) : f \in Functions} \cup {PayloadCode}
  BY Unrelated DEF IInv, Built
<1>2. /\ {CFG, Liveness, SVLoc, Specs, IPIP} \cap (am'.held \ am.held) = {}
  <2>1. PayloadCode \notin PrototypeKeys /\ IntrinsicResults \notin PrototypeKeys
        /\ \A p \in Payloads : IR(p) \notin PrototypeKeys
    BY BelowPrototype, Classes
  <2>2. QED
    BY <1>1, <2>1 DEF PrototypeKeys
<1>3. \A p \in Payloads : IR(p) \in am'.held => IR(p) \in am.held \/ p \in made
  <2>1. \A p \in Payloads : IR(p) # PayloadCode /\ IR(p) # IntrinsicResults
    BY BelowPrototype, Classes
  <2>2. QED
    BY <1>1, <2>1, KeysDiffer
<1>4. built \subseteq am.held => built' \subseteq am'.held
  BY <1>1
<1>5. IPIP \in Stateless /\ SVLoc \in Stateless
  BY DEF Stateless
<1>6. (SVLoc \in am.held => IPIP \in am.held) => (SVLoc \in am'.held => IPIP \in am'.held)
  BY <1>2, <1>5
<1>7. Sound => \A f \in Functions : Lifted(f) \notin am'.stale
  OBVIOUS
<1>8. QED
  BY <1>1, <1>2, <1>3, <1>4, <1>6, <1>7 DEF PassStep

LEMMA InnerStale ==
  ASSUME NEW a, NEW b, Kept(a, b)
  PROVE  a.stale = {} => b.stale = {}
BY DEF Kept

LEMMA OptimizeKeeps ==
  ASSUME IInv, Optimize
  PROVE  PassStep("optimize")
<1>1. PICK clears \in BOOLEAN, asked \in BOOLEAN, inlined \in {FALSE, "late_inline" \in Shown} :
        Finish(RunModulePass(
          [InnerPasses(IF inlined THEN Changed(am, {"inlined_accesses"} \cup made) ELSE am, clears)
             EXCEPT !.held = @ \cup {k \in {IntrinsicResults} : asked}], "I", None, {}))
  BY DEF Optimize
<1>2. Turn("optimize") /\ reads' = {} /\ built' = built /\ made' = made /\ deleted' = deleted
  BY DEF Optimize
<1> DEFINE z == IF inlined THEN Changed(am, {"inlined_accesses"} \cup made) ELSE am
           a == InnerPasses(z, clears)
           new == {k \in {IntrinsicResults} : asked}
           b == [a EXCEPT !.held = @ \cup new]
<1>3. todo' = Tail(todo) /\ am' = RunModulePass(b, "I", None, {})
  BY <1>1 DEF Finish
<1>4. /\ IsAm(z) /\ Same(am, z) /\ z.held = am.held /\ z.linked = am.linked
      /\ Sound => z.stale = am.stale
  <2>1. CASE inlined
    BY <2>1, Unrelated, ChangedFacts DEF Sound
  <2>2. CASE ~inlined
    BY <2>2, Unrelated DEF Same
  <2>3. QED
    BY <2>1, <2>2
<1>5. z.dead = {} /\ Hung(z.linked)
  <2>1. todo # <<>>
    BY <1>2 DEF Turn
  <2>2. QED
    BY <1>4, <2>1, Unrelated DEF IInv, Buried, Same
<1> HIDE DEF z
<1>6. /\ Kept(z, a)
      /\ \A k \in z.held : k[1] \notin {FAM("I"), MFAM("I")} => k \in a.held
      /\ Hung(a.linked)
  BY <1>4, <1>5, InnerPassesFacts
<1>7. IsAm(a) /\ Same(am, a) /\ a.held \subseteq am.held
  BY <1>4, <1>6 DEF Kept, Same
<1> HIDE DEF a, new
<1>8. IsAm(b) /\ Same(a, b) /\ b.held = a.held \cup new /\ b.stale = a.stale /\ b.linked = a.linked
  BY <1>7, HeldFacts
<1> HIDE DEF b
<1>9. Same(am, b) /\ Hung(b.linked) /\ {} \in SUBSET {IntrinsicResults}
  BY <1>6, <1>7, <1>8 DEF Same
<1>10. /\ IsAm(am') /\ Same(am, am') /\ Hung(am'.linked)
       /\ am'.held \subseteq b.held \ {} /\ am'.stale = b.stale \cap am'.held
       /\ (Code \cup Stateless \cup {Parent("I")}) \cap b.held \subseteq am'.held
  BY <1>3, <1>8, <1>9, ModulePassed
<1>11. am'.held \subseteq am.held \cup {IntrinsicResults}
  BY <1>7, <1>8, <1>10 DEF new
<1>12. (Stateless \cup {Parent("I")}) \cap am.held \subseteq am'.held
  <2>1. \A k \in Stateless \cup {Parent("I")} : k[1] \notin {FAM("I"), MFAM("I")}
    BY KeysDiffer, ManagersDiffer DEF Stateless, PrototypeKeys
  <2>2. QED
    BY <1>4, <1>6, <1>8, <1>10, <2>1
<1>13. \A f \in Functions : Lifted(f) \in am.held => Lifted(f) \in am'.held
  <2>1. \A f \in Functions : Lifted(f)[1] \notin {FAM("I"), MFAM("I")} /\ Lifted(f) \in Code
    BY KeysDiffer, ManagersDiffer, BelowPrototype
  <2>2. QED
    BY <1>4, <1>6, <1>8, <1>10, <2>1
<1>14. PayloadCode \notin built
  BY <1>2, AtWork DEF IInv, Built
<1>15. Sound => am'.stale = {}
  BY <1>2, <1>4, <1>6, <1>8, <1>10, FreshSoFar, InnerStale
<1>16. ReadsAreFresh' /\ CachedReadsHit'
  BY <1>2 DEF ReadsAreFresh, CachedReadsHit
<1>17. QED
  BY <1>2, <1>3, <1>10, <1>11, <1>12, <1>13, <1>14, <1>15, <1>16, ModulePassStep

LEMMA RewriteKeeps ==
  ASSUME IInv, Rewrite
  PROVE  PassStep("rewrite")
<1> DEFINE b == Changed(am, {"array_reads"})
<1>1. Turn("rewrite") /\ reads' = {} /\ built' = built /\ made' = made /\ deleted' = deleted
      /\ todo' = Tail(todo) /\ am' = RunModulePass(b, "I", None, {})
  BY DEF Rewrite, Finish
<1>2. /\ IsAm(b) /\ Same(am, b) /\ b.held = am.held /\ b.linked = am.linked
      /\ b.stale = am.stale \cup {k \in am.held : Tells(k) \cap {"array_reads"} # {}}
  BY Unrelated, ChangedFacts
<1> HIDE DEF b
<1>3. /\ IsAm(am') /\ Same(am, am') /\ Hung(am'.linked)
      /\ am'.held \subseteq b.held \ {} /\ am'.stale = b.stale \cap am'.held
      /\ (Code \cup Stateless \cup {Parent("I")}) \cap b.held \subseteq am'.held
      /\ IRs \cap am'.held = {}
  <2>1. Hung(b.linked) /\ {} \in SUBSET {IntrinsicResults}
    BY <1>2, Unrelated
  <2>2. QED
    BY <1>1, <1>2, <2>1, ModulePassed
<1>4. Sound => am'.stale = {}
  <2>1. SUFFICES ASSUME Sound
                 PROVE  am'.stale = {}
    OBVIOUS
  <2>2. am.stale = {}
    BY <1>1, <2>1, FreshSoFar
  <2>3. Specs \notin am.held
    BY <1>1, <2>1, AtWork DEF Sound, IInv, Early
  <2>4. b.stale \subseteq {Specs} \cup IRs
    BY <1>2, <2>2, TellsOf
  <2>5. QED
    BY <1>2, <1>3, <2>3, <2>4
<1>5. ReadsAreFresh' /\ CachedReadsHit'
  BY <1>1 DEF ReadsAreFresh, CachedReadsHit
<1>6. \A f \in Functions : Lifted(f) \in am.held => Lifted(f) \in am'.held
  BY <1>2, <1>3, BelowPrototype
<1>7. PayloadCode \in am.held => PayloadCode \in am'.held
  BY <1>2, <1>3, BelowPrototype
<1>8. (Stateless \cup {Parent("I")}) \cap am.held \subseteq am'.held
  BY <1>2, <1>3
<1>9. am'.held \subseteq am.held
  BY <1>2, <1>3
<1>10. QED
  BY <1>1, <1>3, <1>4, <1>5, <1>6, <1>7, <1>8, <1>9, ModulePassStep

LEMMA RequireSideEffectsKeeps ==
  ASSUME IInv, RequireSideEffects
  PROVE  PassStep("require_side_effects")
<1> DEFINE link == {<<MAM("I"), FAM("I")>>}
           keys == {IR(p) : p \in made}
           z == Linked(am, link)
           a == GotAll(z, keys)
<1>1. Turn("require_side_effects") /\ reads' = Read(a, keys) /\ built' = built /\ made' = made
      /\ deleted' = deleted /\ todo' = Tail(todo) /\ am' = RunModulePass(a, "I", All, {})
  BY DEF RequireSideEffects, Finish
<1>2. IsAm(z) /\ Same(am, z) /\ z.held = am.held /\ z.stale = am.stale /\ z.linked = am.linked \cup link
  BY Unrelated, LinkedFacts
<1>3. keys \subseteq IRs /\ keys \cap {CallGraph, CFG, Liveness, SVLoc} = {}
  BY Unrelated, BelowPrototype, Classes DEF PrototypeKeys
<1>4. Hung(z.linked \cup Reaching)
  <2>1. z.linked \cup Reaching = am.linked \cup Reaching
    BY <1>2 DEF Reaching
  <2>2. QED
    BY <2>1, Unrelated, HungLinks, HungTogether
<1> HIDE DEF z, keys
<1>5. /\ IsAm(a) /\ Same(z, a) /\ a.held = z.held \cup keys /\ a.stale = z.stale
      /\ Hung(a.linked \cup Reaching)
  BY <1>2, <1>3, <1>4, Asked
<1> HIDE DEF a
<1>6. a.linked \cup Reaching \subseteq Links
  BY <1>5 DEF Hung
<1> DEFINE b == RunModulePass(a, "I", All, {})
<1>7. /\ Kept(a, b)
      /\ b.linked = a.linked \cup Reaching
      /\ \A k \in a.held : k \in b.held
  BY <1>5, <1>6, RunModulePassFacts, Reports
<1> HIDE DEF b
<1>8. IsAm(am') /\ Same(am, am') /\ Hung(am'.linked) /\ am'.held = am.held \cup keys /\ am'.stale = am.stale
  <2>1. am' = b
    BY <1>1 DEF b
  <2>2. am'.held = a.held
    BY <1>7, <2>1 DEF Kept
  <2>3. am'.stale = a.stale
    BY <1>5, <1>7, <2>1, <2>2 DEF Kept, IsAm
  <2>4. QED
    BY <1>2, <1>5, <1>7, <2>1, <2>2, <2>3 DEF Kept, Same
<1>9. IntrinsicResults \notin keys
  BY <1>3, BelowPrototype, Classes
<1>10. Sound => am'.stale = {} /\ ReadsAreFresh'
  <2>1. Sound => a.stale = {}
    BY <1>1, <1>2, <1>5, FreshSoFar
  <2>2. QED
    BY <1>1, <1>2, <1>5, <1>8, <2>1, ReadFacts DEF ReadsAreFresh
<1>11. CachedReadsHit'
  BY <1>1, <1>5, ReadFacts DEF CachedReadsHit
<1>12. am'.held \subseteq am.held \cup {PayloadCode, IntrinsicResults} \cup {IR(p) : p \in made}
  BY <1>8 DEF keys
<1>13. QED
  BY <1>1, <1>8, <1>9, <1>10, <1>11, <1>12, ModulePassStep

LEMMA ProcessIntrinsicsKeeps ==
  ASSUME IInv, ProcessIntrinsicsAtIRLevelPass
  PROVE  PassStep("process_intrinsics")
<1>1. Turn("process_intrinsics") /\ reads' = {} /\ built' = built /\ made' = made
      /\ todo' = Tail(todo) /\ am' = RunModulePass(am, "I", All, {IntrinsicResults})
  BY DEF ProcessIntrinsicsAtIRLevelPass, Finish
<1>2. IsAm(am) /\ Same(am, am) /\ Hung(am.linked) /\ {IntrinsicResults} \in SUBSET {IntrinsicResults}
  BY Unrelated DEF Same
<1>3. /\ IsAm(am') /\ Same(am, am') /\ Hung(am'.linked)
      /\ am'.held \subseteq am.held \ {IntrinsicResults} /\ am'.stale = am.stale \cap am'.held
      /\ (Code \cup Stateless \cup {Parent("I")}) \cap am.held \subseteq am'.held
  BY <1>1, <1>2, ModulePassed
<1>4. Sound => am'.stale = {}
  BY <1>1, <1>3, FreshSoFar
<1>5. ReadsAreFresh' /\ CachedReadsHit'
  BY <1>1 DEF ReadsAreFresh, CachedReadsHit
<1>6. \A f \in Functions : Lifted(f) \in am.held => Lifted(f) \in am'.held
  BY <1>3, BelowPrototype
<1>7. PayloadCode \in am.held => PayloadCode \in am'.held
  BY <1>3, BelowPrototype
<1>8. QED
  BY <1>1, <1>3, <1>4, <1>5, <1>6, <1>7, ModulePassStep

\* The machine functions of the instrumentation module hang under its functions.
LEMMA LinkToMachineFunctions ==
  ASSUME NEW links, Hung(links)
  PROVE  Hung(links \cup Reaching \cup {<<FAM("I"), MFAM("I")>>})
<1> DEFINE l == <<FAM("I"), MFAM("I")>>
           all == links \cup Reaching \cup {l}
<1>1. Hung(links \cup Reaching)
  BY HungLinks, HungTogether
<1>2. \A s \in {"T", "I"} : \A m : <<PAM, m>> # l /\ <<MAM(s), m>> # l
  BY ManagersDiffer
<1>3. <<MAM("I"), FAM("I")>> \in all /\ <<FAM("T"), MFAM("T")>> # l
  BY ManagersDiffer DEF Reaching
<1>4. l \in Links
  BY DEF Links
<1> DEFINE below == links \cup Reaching
<1>5. all = below \cup {l} /\ Hung(below)
  BY <1>1
<1> HIDE DEF all, below, l
<1>6. all \subseteq Links
  BY <1>4, <1>5 DEF Hung
<1>7. \A s \in {"T", "I"} : (\E m \in Proxied : <<MAM(s), m>> \in all) => <<PAM, MAM(s)>> \in all
  BY <1>2, <1>5 DEF Hung
<1>8. \A s \in {"T", "I"} : <<FAM(s), MFAM(s)>> \in all => <<MAM(s), FAM(s)>> \in all
  BY <1>2, <1>3, <1>5 DEF Hung
<1>9. QED
  BY <1>6, <1>7, <1>8 DEF Hung, all, l

LEMMA ISelKeeps ==
  ASSUME IInv, ISel
  PROVE  PassStep("isel")
<1>1. PICK clears \in BOOLEAN :
        Finish(RunModulePass([InnerPasses(am, clears) EXCEPT !.held = @ \cup {PayloadCode},
                                                             !.linked = @ \cup {<<FAM("I"), MFAM("I")>>}],
                             "I", None, {}))
  BY DEF ISel
<1> DEFINE a == InnerPasses(am, clears)
           b == [a EXCEPT !.held = @ \cup {PayloadCode}, !.linked = @ \cup {<<FAM("I"), MFAM("I")>>}]
           d == Linked(b, Reaching)
<1>2. Turn("isel") /\ reads' = {} /\ built' = built \cup {PayloadCode} /\ made' = made /\ deleted' = deleted
      /\ todo' = Tail(todo) /\ am' = RunModulePass(b, "I", None, {})
  BY <1>1 DEF ISel, Finish
<1>3. am.dead = {}
  <2>1. todo # <<>>
    BY <1>2 DEF Turn
  <2>2. QED
    BY <2>1 DEF IInv, Buried
<1>4. /\ Kept(am, a)
      /\ \A k \in am.held : k[1] \notin {FAM("I"), MFAM("I")} => k \in a.held
      /\ Hung(a.linked)
  BY <1>3, Unrelated, InnerPassesFacts
<1> HIDE DEF a
<1>5. /\ IsAm(b) /\ Same(a, b) /\ b.held = a.held \cup {PayloadCode} /\ b.stale = a.stale
      /\ b.linked = a.linked \cup {<<FAM("I"), MFAM("I")>>}
  <2> DEFINE held == a.held \cup {PayloadCode}
             linked == a.linked \cup {<<FAM("I"), MFAM("I")>>}
  <2> HIDE DEF held, linked
  <2>1. IsAm(a)
    BY <1>4 DEF Kept
  <2>2. b = [a EXCEPT !.held = held, !.linked = linked]
    BY DEF held, linked
  <2> HIDE DEF b
  <2>3. b = [held |-> held, stale |-> a.stale, linked |-> linked, dead |-> a.dead, touched |-> a.touched]
    BY <2>1, <2>2 DEF IsAm
  <2>4. /\ b.held = held /\ b.stale = a.stale /\ b.linked = linked
        /\ b.dead = a.dead /\ b.touched = a.touched
    BY <2>3
  <2>5. b.stale \subseteq b.held
    BY <2>1, <2>4 DEF IsAm, held
  <2>6. IsAm(b)
    BY <2>3, <2>4, <2>5 DEF IsAm
  <2>7. QED
    BY <2>4, <2>6 DEF Same, held, linked
<1> HIDE DEF b
<1>6. b.linked \cup Reaching \subseteq Links
  BY <1>4, <1>5, HungLinks DEF Hung, Links
<1>7. /\ Kept(b, am')
      /\ am'.linked = b.linked \cup Reaching
      /\ \A k \in b.held : k \in am'.held <=> ~(k \in IRs \/ (k[1] = PAM /\ k \notin Stateless))
  BY <1>2, <1>5, <1>6, RunModulePassFacts, Reports
<1>8. Hung(am'.linked)
  <2>1. am'.linked = a.linked \cup Reaching \cup {<<FAM("I"), MFAM("I")>>}
    BY <1>5, <1>7
  <2>2. QED
    BY <1>4, <2>1, LinkToMachineFunctions
<1>9. IsAm(am') /\ Same(am, am') /\ am'.held \subseteq am.held \cup {PayloadCode} /\ am'.stale \subseteq am.stale
  <2>1. Same(am, am')
    BY <1>4, <1>5, <1>7 DEF Kept, Same
  <2>2. am'.held \subseteq am.held \cup {PayloadCode}
    BY <1>4, <1>5, <1>7 DEF Kept
  <2>3. IsAm(am')
    BY <1>7 DEF Kept
  <2>4. am'.stale \subseteq am.stale
    BY <1>4, <1>5, <1>7 DEF Kept
  <2>5. QED
    BY <2>1, <2>2, <2>3, <2>4
<1>10. IntrinsicResults # PayloadCode
  BY KeysDiffer
<1>11. PayloadCode \in am'.held /\ \A f \in Functions : Lifted(f) \in am.held => Lifted(f) \in am'.held
  <2>1. \A f \in Functions : Lifted(f)[1] \notin {FAM("I"), MFAM("I")}
    BY KeysDiffer, ManagersDiffer
  <2>2. \A k \in Code : k \notin IRs /\ k[1] # PAM
    BY BelowPrototype, Classes
  <2>3. QED
    BY <1>4, <1>5, <1>7, <2>1, <2>2, BelowPrototype
<1>12. (Stateless \cup {Parent("I")}) \cap am.held \subseteq am'.held
  <2>1. \A k \in Stateless \cup {Parent("I")} : k[1] \notin {FAM("I"), MFAM("I")} /\ k \notin IRs
    BY KeysDiffer, ManagersDiffer, BelowPrototype, Classes DEF Stateless, PrototypeKeys
  <2>2. Parent("I")[1] # PAM
    BY BelowPrototype
  <2>3. QED
    BY <1>4, <1>5, <1>7, <2>1, <2>2
<1>13. Sound => am'.stale = {}
  BY <1>2, <1>9, FreshSoFar
<1>14. ReadsAreFresh' /\ CachedReadsHit'
  BY <1>2 DEF ReadsAreFresh, CachedReadsHit
<1>15. QED
  BY <1>2, <1>8, <1>9, <1>10, <1>11, <1>12, <1>13, <1>14, ModulePassStep

LEMMA MachinePassesKeeps ==
  ASSUME IInv, MachinePasses
  PROVE  PassStep("machine_passes")
<1> DEFINE a == InnerPasses(am, FALSE)
           b == Linked(a, {<<FAM("I"), MFAM("I")>>})
           keys == {Parent("I"), IPIP, SVLoc, Specs, Liveness, CFG}
<1>1. Turn("machine_passes") /\ reads' = (IF made = {} THEN {} ELSE Read(am, keys))
      /\ built' = built /\ made' = made /\ deleted' = deleted
      /\ todo' = Tail(todo) /\ am' = RunModulePass(b, "I", None, {})
  BY DEF MachinePasses, Finish
<1>2. todo # <<>> /\ todo[1] = "machine_passes" /\ Ahead("machine_passes")
  BY <1>1, AtWork DEF IInv
<1>3. am.dead = {}
  BY <1>2 DEF IInv, Buried
<1>4. /\ Kept(am, a) /\ a.held = am.held /\ Hung(a.linked)
  BY <1>3, Unrelated, InnerPassesFacts
<1>5. a.linked = am.linked \cup Reaching
  BY Unrelated, LinkedFacts DEF InnerPasses, Reaching
<1> HIDE DEF a, keys
<1>6. /\ IsAm(b) /\ Same(a, b) /\ b.held = a.held /\ b.stale = a.stale
      /\ b.linked = a.linked \cup {<<FAM("I"), MFAM("I")>>}
  BY <1>4, LinkedFacts DEF Kept
<1> HIDE DEF b
<1>7. Hung(b.linked) /\ Same(am, b) /\ {} \in SUBSET {IntrinsicResults}
  BY <1>4, <1>5, <1>6, LinkToMachineFunctions DEF Kept, Same
<1>8. /\ IsAm(am') /\ Same(am, am') /\ Hung(am'.linked)
      /\ am'.held \subseteq b.held \ {} /\ am'.stale = b.stale \cap am'.held
      /\ (Code \cup Stateless \cup {Parent("I")}) \cap b.held \subseteq am'.held
  BY <1>1, <1>6, <1>7, ModulePassed
<1>9. b.held = am.held /\ b.stale = am.stale
  BY <1>4, <1>6, Unrelated DEF Kept
<1>10. Sound => am'.stale = {} /\ ReadsAreFresh'
  <2>1. Sound => am.stale = {}
    BY <1>1, FreshSoFar
  <2>2. QED
    BY <1>1, <1>8, <1>9, <2>1, ReadFacts DEF ReadsAreFresh
<1>11. Surviving => CachedReadsHit'
  <2>1. Surviving => keys \subseteq am.held
    BY <1>2 DEF IInv, Hit, RequiredForMachinePasses, keys
  <2>2. QED
    BY <1>1, <2>1, ReadFacts DEF CachedReadsHit
<1>12. /\ \A f \in Functions : Lifted(f) \in am.held => Lifted(f) \in am'.held
       /\ PayloadCode \in am.held => PayloadCode \in am'.held
  BY <1>8, <1>9, BelowPrototype
<1>13. (Stateless \cup {Parent("I")}) \cap am.held \subseteq am'.held /\ am'.held \subseteq am.held
  BY <1>8, <1>9
<1>14. QED
  BY <1>1, <1>8, <1>10, <1>11, <1>12, <1>13, ModulePassStep

LEMMA PatchKeeps ==
  ASSUME IInv, TargetModulePatcherPass
  PROVE  PassStep("patch")
<1> DEFINE links == {<<PAM, m>> : m \in {FAM("T"), FAM("I"), MFAM("T")}}
           results == {SVLoc, Specs, IPIP, CFG, Liveness}
           keys == results \cup {IR(p) : p \in made}
           z == Linked(am, links)
           a == GotAll(z, keys)
           c == Changed(a, {"lifted"})
<1>1. Turn("patch") /\ reads' = Read(a, keys)
      /\ built' = built \ {PayloadCode} /\ made' = made /\ deleted' = deleted
      /\ todo' = Tail(todo) /\ am' = InvalidatePrototype(c, NoneButProxies)
  BY DEF TargetModulePatcherPass, Finish
<1>2. IsAm(z) /\ Same(am, z) /\ z.held = am.held /\ z.stale = am.stale /\ z.linked = am.linked \cup links
  BY Unrelated, LinkedFacts
<1>3. Hung(z.linked)
  <2>1. Hung(links)
    BY HungLinks, ManagersDiffer
  <2>2. QED
    BY <1>2, <2>1, Unrelated, HungTogether
<1>4. /\ keys \subseteq results \cup IRs
      /\ \A p \in Payloads : IR(p) \in keys => p \in made
  <2>1. \A p \in Payloads : IR(p) \notin results
    BY BelowPrototype, Classes DEF PrototypeKeys
  <2>2. QED
    BY <2>1, Unrelated, BelowPrototype, KeysDiffer
<1> HIDE DEF z, links, keys
<1>5. /\ IsAm(a) /\ Same(z, a)
      /\ z.held \subseteq a.held /\ keys \subseteq a.held
      /\ a.held \subseteq z.held \cup keys \cup {IPIP, CallGraph, CFG, Liveness, Operands}
      /\ (SVLoc \in z.held => IPIP \in z.held) => (SVLoc \in a.held => IPIP \in a.held)
      /\ z.stale = {} => a.stale = {}
      /\ a.stale \subseteq z.stale \cup (a.held \ z.held)
      /\ Hung(a.linked)
  BY <1>2, <1>3, Asked
<1> HIDE DEF a
<1>6. /\ IsAm(c) /\ Same(a, c) /\ c.held = a.held /\ c.linked = a.linked
      /\ c.stale = a.stale \cup {k \in a.held : Tells(k) \cap {"lifted"} # {}}
  BY <1>5, ChangedFacts
<1> HIDE DEF c
<1>7. /\ Kept(c, am') /\ am'.linked = c.linked
      /\ \A k \in (IRs \cup Code \cup Others) \cap c.held : k \in am'.held
      /\ \A k \in PrototypeKeys \cap c.held : k \in am'.held <=> ~Invalid(k, NoneButProxies)
  BY <1>1, <1>6, Reports, PrototypeInvalidated
<1>8. IsAm(am') /\ Same(am, am') /\ am'.held \subseteq a.held /\ am'.stale \subseteq c.stale
  BY <1>2, <1>5, <1>6, <1>7 DEF Kept, Same
<1>9. c.stale \subseteq a.stale \cup PrototypeKeys
  BY <1>6, TellsOf DEF PrototypeKeys
<1>10. am'.held \subseteq am.held \cup PrototypeKeys \cup IRs \cup {Operands}
  BY <1>2, <1>4, <1>5, <1>8 DEF PrototypeKeys
<1>11. IntrinsicResults \in am'.held => IntrinsicResults \in am.held
  <2>1. IntrinsicResults \notin IRs \cup PrototypeKeys \cup {Operands}
    BY KeysDiffer, ManagersDiffer, BelowPrototype, Classes
  <2>2. QED
    BY <1>10, <2>1
<1>12. \A p \in Payloads : IR(p) \in am'.held => IR(p) \in am.held \/ p \in made
  <2>1. \A p \in Payloads : IR(p) \notin PrototypeKeys \cup {Operands}
    BY BelowPrototype, Classes
  <2>2. QED
    BY <1>2, <1>4, <1>5, <1>8, <2>1 DEF PrototypeKeys
<1>13. built \subseteq am.held => built' \subseteq am'.held
  BY <1>1, <1>2, <1>5, <1>6, <1>7, Unrelated
<1>14. IPIP \in am'.held
  BY <1>5, <1>6, <1>7, Reports DEF PrototypeKeys, Stateless, keys
<1>15. \A f \in Functions : Lifted(f) \notin am.stale => Lifted(f) \notin am'.stale
  <2>1. \A f \in Functions : Lifted(f) \notin PrototypeKeys \cup IRs \cup {Operands}
    BY BelowPrototype, Classes
  <2>2. a.stale \subseteq am.stale \cup PrototypeKeys \cup IRs \cup {Operands}
    BY <1>2, <1>4, <1>5 DEF PrototypeKeys
  <2>3. QED
    BY <1>8, <1>9, <2>1, <2>2
<1>16. Sound => ReadsAreFresh'
  <2>1. Sound => keys \cap a.stale = {}
    BY <1>1, <1>2, <1>5, FreshSoFar
  <2>2. QED
    BY <1>1, <2>1, ReadFacts DEF ReadsAreFresh
<1>17. CachedReadsHit'
  BY <1>1, <1>5, ReadFacts DEF CachedReadsHit
<1>18. QED
  BY <1>1, <1>5, <1>6, <1>7, <1>8, <1>11, <1>12, <1>13, <1>14, <1>15, <1>16, <1>17, Unrelated
  DEF PassStep

LEMMA PrintKeeps ==
  ASSUME IInv, NewPMAsmPrinter
  PROVE  PassStep("print")
<1> DEFINE keys == {Lifted(f) : f \in {g \in Functions : Lifted(g) \in built}}
<1>1. Turn("print") /\ reads' = Read(am, keys)
      /\ built' = {} /\ made' = made /\ deleted' = deleted
      /\ todo' = Tail(todo) /\ am' = RunModulePass(Linked(am, {<<PAM, MAM("T")>>}), "T", All, {})
  BY DEF NewPMAsmPrinter, Finish
<1>2. /\ Kept(am, am') /\ am'.held = am.held
      /\ am'.linked = am.linked \cup {<<PAM, MAM("T")>>, <<MAM("T"), FAM("T")>>}
  BY <1>1, Unrelated, PrintingFacts
<1>3. Hung(am'.linked)
  BY <1>2, Unrelated, HungLinks, HungTogether
<1>4. am'.stale = am.stale /\ IsAm(am') /\ Same(am, am')
  BY <1>2, Unrelated DEF Kept
<1>5. keys \subseteq built /\ \A k \in keys : \E f \in Functions : k = Lifted(f)
  OBVIOUS
<1> HIDE DEF keys
<1>6. Sound => ReadsAreFresh'
  <2>1. Sound => keys \cap am.stale = {}
    BY <1>5 DEF IInv, Fresh
  <2>2. QED
    BY <1>1, <2>1, ReadFacts DEF ReadsAreFresh
<1>7. Surviving => CachedReadsHit'
  <2>1. Surviving => keys \subseteq am.held
    BY <1>5 DEF Surviving, IInv, CodeHeld
  <2>2. QED
    BY <1>1, <2>1, ReadFacts DEF CachedReadsHit
<1>8. QED
  BY <1>1, <1>2, <1>3, <1>4, <1>6, <1>7, Unrelated DEF PassStep

(* Discovery. *)

LEMMA DiscoverKeeps ==
  ASSUME IInv, Discover
  PROVE  IInv'
<1>1. PICK f \in Functions :
        /\ am' = Got(AfterLift(Discovering, f), CallGraph)
        /\ built' = built \cup {Lifted(f)}
        /\ reads' = Read(Got(AfterLift(Discovering, f), CallGraph), {CallGraph})
  BY DEF Discover
<1>2. Turn("discovery") /\ todo' = todo /\ made' = made /\ deleted' = deleted
  BY DEF Discover
<1> DEFINE z == Discovering
           y == [z EXCEPT !.held = @ \cup {Lifted(f)}]
           c == Changed(y, {"lifted"})
           t == InvalidateModule(c, "T", NoneButProxies)
           p == InvalidatePrototype(t, NoneButProxies)
<1>3. am' = GotAll(p, {CallGraph}) /\ reads' = Read(am', {CallGraph})
  BY <1>1 DEF Got, AfterLift
<1>4. /\ IsAm(z) /\ Same(am, z) /\ z.held = am.held /\ z.stale = am.stale /\ Hung(z.linked)
  <2> DEFINE links == {<<PAM, MAM("T")>>, <<MAM("T"), FAM("T")>>, <<MAM("T"), MFAM("T")>>}
  <2>1. Hung(links)
    BY HungLinks
  <2>2. z = Linked(am, links)
    BY DEF Discovering
  <2> HIDE DEF z, links
  <2>3. IsAm(z) /\ Same(am, z) /\ z.held = am.held /\ z.stale = am.stale /\ z.linked = am.linked \cup links
    BY <2>2, Unrelated, LinkedFacts
  <2>4. QED
    BY <2>1, <2>3, Unrelated, HungTogether
<1> HIDE DEF z
<1>5. /\ IsAm(y) /\ Same(z, y) /\ y.held = z.held \cup {Lifted(f)} /\ y.stale = z.stale /\ y.linked = z.linked
  BY <1>4, HeldFacts
<1> HIDE DEF y
<1>6. /\ IsAm(c) /\ Same(y, c) /\ c.held = y.held /\ c.linked = y.linked
      /\ c.stale = y.stale \cup {k \in y.held : Tells(k) \cap {"lifted"} # {}}
  BY <1>5, ChangedFacts
<1> HIDE DEF c
<1>7. Kept(c, t) /\ t.held = c.held /\ t.linked = c.linked
  <2>1. {FAM("T"), MFAM("T")} \subseteq NoneButProxies.managers
    BY Reports, ManagersDiffer
  <2>2. QED
    BY <1>6, <2>1, InvalidateTargetFacts
<1>8. IsAm(t)
  BY <1>7 DEF Kept
<1> HIDE DEF t
<1>9. /\ Kept(t, p) /\ p.linked = t.linked
      /\ \A k \in (IRs \cup Code \cup Others) \cap t.held : k \in p.held
      /\ \A k \in PrototypeKeys \cap t.held : k \in p.held <=> ~Invalid(k, NoneButProxies)
  BY <1>8, Reports, PrototypeInvalidated
<1>10. IsAm(p)
  BY <1>9 DEF Kept
<1> HIDE DEF p
<1>11. /\ IsAm(am') /\ Same(p, am')
       /\ p.held \subseteq am'.held /\ CallGraph \in am'.held
       /\ am'.held \subseteq p.held \cup {CallGraph, IPIP}
       /\ p.stale = {} => am'.stale = {}
       /\ Hung(p.linked) => Hung(am'.linked)
  <2>1. {CallGraph} \subseteq {CallGraph, IPIP}
    OBVIOUS
  <2>2. QED
    BY <1>3, <1>10, <2>1, Asked
<1>12. /\ Hung(am'.linked) /\ Same(am, am')
       /\ am'.held \subseteq am.held \cup {Lifted(f), CallGraph, IPIP}
       /\ \A k \in Code \cup Others : k \in am.held \/ k = Lifted(f) => k \in am'.held
  BY <1>4, <1>5, <1>6, <1>7, <1>9, <1>11 DEF Kept, Same
<1>13. Ahead("discovery") /\ todo # <<>> /\ todo[1] = "discovery" /\ ~Exited /\ Planned(todo)
  BY <1>2, AtWork DEF IInv
<1>14. {CFG, Liveness, SVLoc, Specs, IntrinsicResults} \cap {Lifted(f), CallGraph, IPIP} = {}
       /\ \A q \in Payloads : IR(q) \notin {Lifted(f), CallGraph, IPIP}
  BY PrototypeKeysDiffer, BelowPrototype, Classes DEF PrototypeKeys
<1>15. Lifted(f) \in Code /\ Parent("I") \in Others
  BY BelowPrototype
<1>16. "asked_early" \notin Shown => {CFG, Liveness, SVLoc, Specs} \cap am.held = {}
  BY <1>13 DEF IInv, Early
<1>17. Sound => am'.stale = {}
  <2>1. SUFFICES ASSUME Sound
                 PROVE  p.stale = {}
    BY <1>11
  <2>2. am.stale = {}
    BY <1>2, <2>1, FreshSoFar
  <2>3. {CFG, Liveness, SVLoc} \cap am.held = {}
    BY <1>16, <2>1 DEF Sound
  <2>4. c.stale \subseteq {CallGraph}
    <3>1. \A k : Tells(k) \cap {"lifted"} # {} => k \in {CallGraph, CFG, Liveness, SVLoc}
      BY TellsOf
    <3>2. {CFG, Liveness, SVLoc} \cap y.held = {}
      BY <1>4, <1>5, <1>14, <2>3
    <3>3. QED
      BY <1>4, <1>5, <1>6, <2>2, <3>1, <3>2
  <2>5. CallGraph \notin p.held
    <3>1. CallGraph \notin Stateless /\ CallGraph \in PrototypeKeys
      BY PrototypeKeysDiffer DEF Stateless, PrototypeKeys
    <3>2. QED
      BY <1>9, <3>1, Reports DEF Kept
  <2>6. QED
    BY <1>7, <1>9, <2>4, <2>5 DEF Kept, IsAm
<1>18. Schedule' /\ IsAm(am)' /\ (made \subseteq Payloads)' /\ Hung(am.linked)'
  <2>1. Schedule'
    BY <1>2, <1>13 DEF Schedule, Planned, InOrder, Ending, RequiredBefore, AsksEarly
  <2>2. QED
    BY <1>2, <1>11, <1>12, <2>1, Unrelated DEF IsAm, Hung
<1>19. Buried'
  BY <1>2, <1>12, <1>13 DEF IInv, Buried, Same
<1>20. Forgotten'
  BY <1>2, <1>12, <1>14 DEF IInv, Forgotten, Ahead
<1>21. Built'
  <2>1. PayloadCode # Lifted(f)
    BY KeysDiffer, ManagersDiffer
  <2>2. QED
    BY <1>1, <1>2, <1>13, <2>1 DEF IInv, Built, Ahead, Exited
<1>22. CodeHeld'
  BY <1>1, <1>12, <1>15, Unrelated DEF IInv, CodeHeld
<1>23. Early'
  BY <1>2, <1>12, <1>14, <1>16 DEF Early
<1>24. MadeOnly'
  BY <1>2, <1>12, <1>14 DEF IInv, MadeOnly
<1>25. Fresh'
  <2>1. Sound => ReadsAreFresh'
    BY <1>3, <1>17, ReadFacts DEF ReadsAreFresh
  <2>2. QED
    BY <1>17, <2>1 DEF Fresh, Sound
<1>26. Hit'
  <2>1. CachedReadsHit'
    <3>1. {CallGraph} \subseteq am'.held
      BY <1>11
    <3>2. \A r \in reads' : r.hit
      BY <1>3, <3>1, ReadFacts
    <3>3. QED
      BY <3>2 DEF CachedReadsHit
  <2>2. Surviving => SVLoc \notin am'.held
    BY <1>12, <1>14, <1>16 DEF Surviving
  <2>3. Ahead("machine_passes") /\ Surviving => Parent("I") \in am'.held
    BY <1>12, <1>15 DEF IInv, Hit
  <2>4. (Surviving <=> Surviving') /\ (Ahead("machine_passes") <=> Ahead("machine_passes")')
    BY <1>2 DEF Surviving, Ahead
  <2>5. Parent("I")' = Parent("I") /\ SVLoc' = SVLoc
    BY DEF Parent, SVLoc
  <2>6. QED
    BY <1>2, <1>13, <2>1, <2>2, <2>3, <2>4, <2>5 DEF Hit
<1>27. QED
  BY <1>18, <1>19, <1>20, <1>21, <1>22, <1>23, <1>24, <1>25, <1>26 DEF IInv

LEMMA DiscoveryEndsKeeps ==
  ASSUME IInv, DiscoveryEnds
  PROVE  PassStep("discovery")
<1>1. Turn("discovery") /\ reads' = {} /\ built' = built /\ made' = made /\ deleted' = deleted
      /\ todo' = Tail(todo) /\ am' = InvalidatePrototype(am, NoneButProxies)
  BY DEF DiscoveryEnds, Finish
<1>2. /\ Kept(am, am') /\ am'.linked = am.linked
      /\ \A k \in (IRs \cup Code \cup Others) \cap am.held : k \in am'.held
      /\ \A k \in PrototypeKeys \cap am.held : k \in am'.held <=> ~Invalid(k, NoneButProxies)
  BY <1>1, Unrelated, Reports, PrototypeInvalidated
<1>3. IsAm(am') /\ Same(am, am') /\ am'.held \subseteq am.held /\ am'.stale \subseteq am.stale /\ Hung(am'.linked)
  BY <1>2, Unrelated DEF Kept
<1>4. built \subseteq am.held => built' \subseteq am'.held
  BY <1>1, <1>2, Unrelated
<1>5. Parent("I") \in am.held => Parent("I") \in am'.held
  BY <1>2, BelowPrototype
<1>6. IPIP \in am.held => IPIP \in am'.held
  BY <1>2, Reports DEF PrototypeKeys, Stateless
<1>7. ReadsAreFresh' /\ CachedReadsHit'
  BY <1>1 DEF ReadsAreFresh, CachedReadsHit
<1>8. QED
  BY <1>1, <1>3, <1>4, <1>5, <1>6, <1>7, Unrelated DEF PassStep

(* Managers that are cleared. *)

\* A module's managers are behind the prototype's, its functions' behind both.
LEMMA Reached ==
  ASSUME NEW a, NEW ms, NEW s, MAM(s) \in Behind(a, ms)
  PROVE  /\ MAM(s) \in Gone(a, ms)
         /\ <<MAM(s), FAM(s)>> \in a.linked => FAM(s) \in Gone(a, ms)
<1> DEFINE b == Behind(a, ms)
           bb == Behind(a, b)
<1>1. b \subseteq bb
  BY BehindFacts
<1>2. \A l \in a.linked : l[1] \in b => l[2] \in bb
  BY BehindFacts
<1> HIDE DEF b
<1>3. MAM(s) \in b
  BY DEF b
<1>4. bb \subseteq Gone(a, ms)
  <2> HIDE DEF bb
  <2>1. bb \subseteq Behind(a, bb)
    BY BehindFacts
  <2>2. QED
    BY <2>1 DEF Gone, bb, b
<1>5. <<MAM(s), FAM(s)>> \in a.linked => FAM(s) \in bb
  BY <1>2, <1>3
<1>6. QED
  BY <1>1, <1>3, <1>4, <1>5

LEMMA NothingLinked ==
  ASSUME NEW a, NEW ms, a.linked \subseteq Links,
         \A l \in a.linked : l[1] = PAM => PAM \in ms,
         \A s \in {"T", "I"} :
           /\ (\E m \in Proxied : <<MAM(s), m>> \in a.linked) => MAM(s) \in Behind(a, ms)
           /\ <<FAM(s), MFAM(s)>> \in a.linked => <<MAM(s), FAM(s)>> \in a.linked
  PROVE  \A l \in a.linked : l[1] \in Gone(a, ms)
<1>1. SUFFICES ASSUME NEW l \in a.linked
               PROVE  l[1] \in Gone(a, ms)
  OBVIOUS
<1>2. CASE l[1] = PAM
  <2>1. ms \subseteq Behind(a, ms) /\ Behind(a, ms) \subseteq Behind(a, Behind(a, ms))
        /\ Behind(a, Behind(a, ms)) \subseteq Gone(a, ms)
    BY BehindFacts DEF Gone
  <2>2. QED
    BY <1>2, <2>1
<1>3. ASSUME NEW s \in {"T", "I"}, NEW m \in {FAM(s), MFAM(s)}, l = <<MAM(s), m>>
      PROVE  l[1] \in Gone(a, ms)
  <2>1. m \in Proxied /\ l[1] = MAM(s)
    BY <1>3, ManagersDiffer
  <2>2. MAM(s) \in Behind(a, ms)
    BY <1>3, <2>1
  <2>3. QED
    BY <2>1, <2>2, Reached
<1>4. ASSUME NEW s \in {"T", "I"}, l = <<FAM(s), MFAM(s)>>
      PROVE  l[1] \in Gone(a, ms)
  <2>1. <<MAM(s), FAM(s)>> \in a.linked /\ FAM(s) \in Proxied
    BY <1>4, ManagersDiffer
  <2>2. MAM(s) \in Behind(a, ms)
    BY <2>1
  <2>3. QED
    BY <1>4, <2>1, <2>2, Reached
<1>5. \/ \E m \in Proxied : l = <<PAM, m>>
      \/ \E s \in {"T", "I"} : \E m \in {FAM(s), MFAM(s)} : l = <<MAM(s), m>>
      \/ \E s \in {"T", "I"} : l = <<FAM(s), MFAM(s)>>
  <2>1. l \in Links
    OBVIOUS
  <2>2. l \in {<<PAM, m>> : m \in Proxied} \/ l \in {<<MAM("T"), FAM("T")>>, <<MAM("T"), MFAM("T")>>}
        \/ l = <<MAM("I"), FAM("I")>> \/ l = <<FAM("I"), MFAM("I")>>
    BY <2>1 DEF Links
  <2>3. QED
    BY <2>2
<1>6. QED
  BY <1>2, <1>3, <1>4, <1>5

\* A failed discovery reports that nothing is preserved, not even a proxy.
LEMMA NothingPreserved ==
  ASSUME NEW a, IsAm(a), a.dead = {}, Hung(a.linked)
  PROVE  LET b == InvalidatePrototype(a, None)
         IN  IsAm(b) /\ Same(a, b) /\ b.held \subseteq a.held /\ b.stale \subseteq a.stale /\ b.linked = {}
<1> DEFINE lost == {k \in a.held : k[1] = PAM /\ Invalid(k, None)}
           d == Dropped(a, lost)
           links == {<<PAM, m>> : m \in IF None.all THEN {} ELSE Proxied \ None.managers}
           rest == d.linked \ links
           e == [d EXCEPT !.linked = @ \ links]
           ms == {l[2] : l \in links \cap d.linked}
           b == InvalidatePrototype(a, None)
<1>1. b = Cleared(e, ms)
  BY DEF InvalidatePrototype, Unlink
<1>2. links = {<<PAM, m>> : m \in Proxied}
  BY Reports
<1>3. /\ IsAm(d) /\ Same(a, d)
      /\ d.held = a.held \ lost /\ d.stale = a.stale \ lost /\ d.linked = a.linked
  BY DroppedFacts
<1> HIDE DEF d, links, lost
<1>4. e = [held |-> d.held, stale |-> d.stale, linked |-> rest, dead |-> d.dead, touched |-> d.touched]
  BY <1>3 DEF IsAm
<1> HIDE DEF e
<1>5. IsAm(e) /\ e.held = d.held /\ e.stale = d.stale /\ e.linked = rest /\ e.dead = d.dead /\ e.touched = d.touched
  BY <1>3, <1>4 DEF IsAm
<1>6. \A l \in e.linked : l \in Links /\ l[1] # PAM
  <2>1. \A l \in Links : l[1] = PAM => l \in links
    BY <1>2, ManagersDiffer DEF Links
  <2>2. QED
    BY <1>3, <1>5, <2>1 DEF Hung
<1>7. ASSUME NEW s \in {"T", "I"}
      PROVE  /\ (\E m \in Proxied : <<MAM(s), m>> \in e.linked) => MAM(s) \in Behind(e, ms)
             /\ <<FAM(s), MFAM(s)>> \in e.linked => <<MAM(s), FAM(s)>> \in e.linked
  <2>1. ASSUME NEW m \in Proxied, <<MAM(s), m>> \in e.linked
        PROVE  MAM(s) \in Behind(e, ms)
    <3>1. <<PAM, MAM(s)>> \in a.linked
      BY <1>3, <1>5, <2>1 DEF Hung
    <3>2. <<PAM, MAM(s)>> \in links \cap d.linked
      BY <1>2, <1>3, <3>1, ManagersDiffer
    <3>3. MAM(s) \in ms
      BY <3>2
    <3>4. QED
      BY <3>3, BehindFacts
  <2>2. ASSUME <<FAM(s), MFAM(s)>> \in e.linked
        PROVE  <<MAM(s), FAM(s)>> \in e.linked
    <3>1. <<MAM(s), FAM(s)>> \in d.linked
      BY <1>3, <1>5, <2>2 DEF Hung
    <3>2. <<MAM(s), FAM(s)>> \notin links
      BY <1>2, ManagersDiffer
    <3>3. QED
      BY <1>5, <3>1, <3>2
  <2>3. QED
    BY <2>1, <2>2
<1> HIDE DEF ms
<1>8. \A l \in e.linked : l[1] \in Gone(e, ms)
  BY <1>6, <1>7, NothingLinked
<1>9. /\ IsAm(b) /\ b.dead = e.dead
      /\ b.touched = e.touched \cup (Gone(e, ms) \cap e.dead)
      /\ b.held = {k \in e.held : k[1] \notin Gone(e, ms)}
      /\ b.stale = {k \in e.stale : k[1] \notin Gone(e, ms)}
      /\ b.linked = {l \in e.linked : l[1] \notin Gone(e, ms)}
  BY <1>1, <1>5, ClearedFacts
<1> HIDE DEF b
<1>10. Same(a, b) /\ b.held \subseteq a.held /\ b.stale \subseteq a.stale
  BY <1>3, <1>5, <1>9 DEF Same
<1>11. b.linked = {}
  BY <1>8, <1>9
<1>12. QED
  BY <1>9, <1>10, <1>11 DEF b

LEMMA DiscoveryFailsKeeps ==
  ASSUME IInv, DiscoveryFails
  PROVE  IInv'
<1> DEFINE links == {<<PAM, MAM("T")>>, <<MAM("T"), FAM("T")>>, <<MAM("T"), MFAM("T")>>}
           z == Discovering
<1>1. Turn("discovery") /\ reads' = {} /\ made' = made /\ deleted' = deleted
      /\ am' = InvalidatePrototype(z, None)
      /\ IF "carries_on" \in Shown THEN todo' = Tail(todo) /\ built' = built
         ELSE todo' = <<"exited">> /\ built' = {}
  BY DEF DiscoveryFails
<1>2. IsAm(z) /\ Same(am, z) /\ z.held = am.held /\ z.stale = am.stale /\ Hung(z.linked)
  <2>1. Hung(links)
    BY HungLinks
  <2>2. z = Linked(am, links)
    BY DEF Discovering
  <2> HIDE DEF z, links
  <2>3. IsAm(z) /\ Same(am, z) /\ z.held = am.held /\ z.stale = am.stale /\ z.linked = am.linked \cup links
    BY <2>2, Unrelated, LinkedFacts
  <2>4. QED
    BY <2>1, <2>3, Unrelated, HungTogether
<1>3. todo # <<>>
  BY <1>1 DEF Turn
<1>4. z.dead = {}
  BY <1>2, <1>3 DEF IInv, Buried, Same
<1> HIDE DEF z
<1>5. IsAm(am') /\ Same(z, am') /\ am'.held \subseteq z.held /\ am'.stale \subseteq z.stale /\ am'.linked = {}
  BY <1>1, <1>2, <1>4, NothingPreserved
<1>6. IsAm(am') /\ Same(am, am') /\ am'.held \subseteq am.held /\ am'.stale \subseteq am.stale
  BY <1>2, <1>5 DEF Same
<1>7. Hung(am'.linked)
  BY <1>5 DEF Hung
<1>8. ReadsAreFresh' /\ CachedReadsHit'
  BY <1>1 DEF ReadsAreFresh, CachedReadsHit
<1>9. CASE "carries_on" \in Shown
  <2>1. todo' = Tail(todo) /\ built' = built /\ ~Surviving
    BY <1>1, <1>9 DEF Surviving
  <2>2. PassStep("discovery")
    BY <1>1, <1>6, <1>7, <1>8, <1>9, <2>1, Unrelated DEF PassStep
  <2>3. QED
    BY <2>2, PassStepKeeps
<1>10. CASE "carries_on" \notin Shown
  <2>1. todo' = <<"exited">> /\ built' = {}
    BY <1>1, <1>10
  <2>2. Exited' /\ Schedule'
    BY <2>1 DEF Exited, Schedule
  <2>3. Len(todo') = 1 /\ todo'[1] = "exited" /\ \A x : Ahead(x)' => x = "exited"
    BY <2>1 DEF Ahead, AheadIn
  <2>4. IsAm(am)' /\ (made \subseteq Payloads)' /\ Hung(am.linked)'
    BY <1>1, <1>6, <1>7, Unrelated DEF IsAm, Hung
  <2>5. Buried'
    BY <1>3, <1>6 DEF IInv, Buried, Same
  <2>6. Forgotten'
    BY <1>1, <1>6, <2>3 DEF IInv, Forgotten
  <2>7. Built' /\ CodeHeld'
    BY <2>1 DEF Built, CodeHeld
  <2>8. Early'
    BY <2>3 DEF Early
  <2>9. MadeOnly'
    BY <1>1, <1>6 DEF IInv, MadeOnly
  <2>10. Fresh'
    BY <1>6, <1>8, <2>3 DEF IInv, Fresh, Sound
  <2>11. Hit'
    BY <1>8, <2>3 DEF Hit
  <2>12. QED
    BY <2>2, <2>4, <2>5, <2>6, <2>7, <2>8, <2>9, <2>10, <2>11 DEF IInv
<1>11. QED
  BY <1>9, <1>10

(* The end. *)

\* The prototype's manager, declared last, is destroyed first.
LEMMA PrototypeFirst ==
  ASSUME NEW n \in DOMAIN DeclarationOrder, \A k \in DOMAIN DeclarationOrder : ~(k > n)
  PROVE  DeclarationOrder[n] = PAM
<1> DEFINE S == {ManagerOf(s, l) : s \in {"T", "I"}, l \in {"loop", "function", "cgscc", "machine", "module"}}
<1>1. /\ BothModules("loop") \in Seq(S) /\ BothModules("function") \in Seq(S) /\ BothModules("cgscc") \in Seq(S)
      /\ BothModules("machine") \in Seq(S) /\ BothModules("module") \in Seq(S)
  BY DEF BothModules
<1> HIDE DEF S
<1>2. InnerManagers \in Seq(S)
  BY <1>1, ConcatProperties DEF InnerManagers
<1>3. <<PAM>> \in Seq({PAM}) /\ Len(<<PAM>>) = 1 /\ <<PAM>>[1] = PAM
  OBVIOUS
<1>4. InnerManagers \in Seq(S \cup {PAM}) /\ <<PAM>> \in Seq(S \cup {PAM})
  BY <1>2
<1>5. /\ Len(DeclarationOrder) = Len(InnerManagers) + 1
      /\ DeclarationOrder \in Seq(S \cup {PAM})
      /\ \A i \in 1..(Len(InnerManagers) + 1) :
           DeclarationOrder[i] = IF i <= Len(InnerManagers) THEN InnerManagers[i] ELSE <<PAM>>[i - Len(InnerManagers)]
  BY <1>3, <1>4, ConcatProperties DEF DeclarationOrder
<1>6. Len(InnerManagers) \in Nat
  BY <1>2, LenProperties
<1>7. DOMAIN DeclarationOrder = 1..(Len(InnerManagers) + 1)
  BY <1>5, LenProperties
<1> DEFINE last == Len(InnerManagers) + 1
<1>8. n = last
  <2>1. n \in Nat /\ n <= last /\ last \in DOMAIN DeclarationOrder
    BY <1>6, <1>7
  <2>2. ~(last > n)
    BY <2>1
  <2>3. QED
    BY <1>6, <2>1, <2>2
<1>9. QED
  BY <1>3, <1>5, <1>6, <1>8

LEMMA DestroyKeeps ==
  ASSUME IInv, Destroy
  PROVE  IInv'
<1>1. PICK n \in DOMAIN DeclarationOrder :
        /\ DeclarationOrder[n] \notin am.dead
        /\ \A k \in DOMAIN DeclarationOrder : k > n => DeclarationOrder[k] \in am.dead
        /\ am' = [Cleared(am, {DeclarationOrder[n]}) EXCEPT !.dead = @ \cup {DeclarationOrder[n]}]
  BY DEF Destroy
<1>2. todo = <<>> /\ todo' = todo /\ reads' = {} /\ built' = built /\ made' = made /\ deleted' = deleted
  BY DEF Destroy
<1> DEFINE m == DeclarationOrder[n]
           a == Cleared(am, {m})
           dead == a.dead \cup {m}
<1>3. am' = [a EXCEPT !.dead = dead]
  BY <1>1
<1>4. /\ IsAm(a) /\ a.dead = am.dead
      /\ a.touched = am.touched \cup (Gone(am, {m}) \cap am.dead)
      /\ a.held = {k \in am.held : k[1] \notin Gone(am, {m})}
      /\ a.stale = {k \in am.stale : k[1] \notin Gone(am, {m})}
      /\ a.linked = {l \in am.linked : l[1] \notin Gone(am, {m})}
  BY Unrelated, ClearedFacts
<1> HIDE DEF m, a, dead
<1>5. am' = [held |-> a.held, stale |-> a.stale, linked |-> a.linked, dead |-> dead, touched |-> a.touched]
  BY <1>3, <1>4 DEF IsAm
<1>6. IsAm(am') /\ am'.held = a.held /\ am'.stale = a.stale /\ am'.linked = a.linked
      /\ am'.dead = dead /\ am'.touched = a.touched
  BY <1>4, <1>5 DEF IsAm
<1>7. am.touched = {} /\ (am.dead # {} => am.linked = {}) /\ m \notin am.dead
  BY <1>1 DEF IInv, Buried, m
<1>8. am'.linked = {} /\ am'.touched = {}
  <2>1. CASE am.dead = {}
    <3>1. m = PAM
      BY <1>1, <2>1, PrototypeFirst DEF m
    <3>2. \A s \in {"T", "I"} :
            /\ (\E q \in Proxied : <<MAM(s), q>> \in am.linked) => MAM(s) \in Behind(am, {PAM})
            /\ <<FAM(s), MFAM(s)>> \in am.linked => <<MAM(s), FAM(s)>> \in am.linked
      BY Unrelated, BehindFacts DEF Hung
    <3>3. \A l \in am.linked : l[1] \in Gone(am, {PAM})
      BY <3>2, Unrelated, NothingLinked DEF Hung
    <3>4. QED
      BY <1>4, <1>6, <1>7, <2>1, <3>1, <3>3
  <2>2. CASE am.dead # {}
    <3>1. Gone(am, {m}) \subseteq {m}
      BY <1>7, <2>2, BehindFacts DEF Gone
    <3>2. QED
      BY <1>4, <1>6, <1>7, <2>2, <3>1
  <2>3. QED
    BY <2>1, <2>2
<1>9. am'.held \subseteq am.held /\ am'.stale \subseteq am.stale
  BY <1>4, <1>6
<1>10. built = {} /\ built' = {}
  BY <1>2 DEF IInv, Built
<1>11. Len(todo') = 0 /\ \A x : ~Ahead(x)'
  BY <1>2 DEF Ahead, AheadIn
<1>12. Schedule'
  BY <1>2 DEF IInv, Schedule, Exited, Planned, InOrder, Ending, RequiredBefore, AsksEarly
<1>13. IsAm(am)' /\ (made \subseteq Payloads)' /\ Hung(am.linked)' /\ Buried'
  BY <1>2, <1>6, <1>8, Unrelated DEF IsAm, Hung, Buried
<1>14. Forgotten' /\ Built' /\ CodeHeld' /\ Early' /\ MadeOnly'
  BY <1>2, <1>9, <1>10, <1>11 DEF IInv, Forgotten, Built, CodeHeld, Early, MadeOnly
<1>15. Fresh' /\ Hit'
  <2>1. ReadsAreFresh' /\ CachedReadsHit'
    BY <1>2 DEF ReadsAreFresh, CachedReadsHit
  <2>2. QED
    BY <1>2, <1>9, <1>11, <2>1 DEF IInv, Fresh, Hit, Sound
<1>16. QED
  BY <1>12, <1>13, <1>14, <1>15 DEF IInv

LEMMA StepsKeep ==
  ASSUME IInv, [Next]_vars
  PROVE  IInv'
<1>1. CASE Discover
  BY <1>1, DiscoverKeeps
<1>2. CASE DiscoveryEnds
  BY <1>2, DiscoveryEndsKeeps, PassStepKeeps
<1>3. CASE DiscoveryFails
  BY <1>3, DiscoveryFailsKeeps
<1>4. CASE Inject
  BY <1>4, InjectKeeps, PassStepKeeps
<1>5. CASE AskCallGraph
  <2>1. {CallGraph} \subseteq PrototypeKeys /\ Ask("ask_call_graph", {CallGraph})
    BY <1>5 DEF PrototypeKeys, AskCallGraph
  <2>2. PassStep("ask_call_graph")
    BY <2>1, AskKeeps
  <2>3. QED
    BY <2>2, PassStepKeeps
<1>6. CASE AskLocations
  <2>1. {SVLoc} \subseteq PrototypeKeys /\ Ask("ask_locations", {SVLoc}) /\ Specs \notin {SVLoc}
    BY <1>6, PrototypeKeysDiffer DEF PrototypeKeys, AskLocations
  <2>2. PassStep("ask_locations")
    BY <2>1, AskKeeps
  <2>3. QED
    BY <2>2, PassStepKeeps
<1>7. CASE RequireForMachinePasses
  <2>1. RequiredForMachinePasses \subseteq PrototypeKeys
        /\ Ask("require_for_machine_passes", RequiredForMachinePasses)
    BY <1>7 DEF PrototypeKeys, RequireForMachinePasses, RequiredForMachinePasses
  <2>2. PassStep("require_for_machine_passes")
    BY <2>1, AskKeeps
  <2>3. QED
    BY <2>2, PassStepKeeps
<1>8. CASE Optimize
  BY <1>8, OptimizeKeeps, PassStepKeeps
<1>9. CASE Rewrite
  BY <1>9, RewriteKeeps, PassStepKeeps
<1>10. CASE RequireSideEffects
  BY <1>10, RequireSideEffectsKeeps, PassStepKeeps
<1>11. CASE ProcessIntrinsicsAtIRLevelPass
  BY <1>11, ProcessIntrinsicsKeeps, PassStepKeeps
<1>12. CASE ISel
  BY <1>12, ISelKeeps, PassStepKeeps
<1>13. CASE IntrinsicMIRLoweringPass
  BY <1>13, LowerIntrinsicsKeeps, PassStepKeeps
<1>14. CASE InjectedPayloadPreserveLiveRegsPass
  BY <1>14, PreserveKeeps, PassStepKeeps
<1>15. CASE MachinePasses
  BY <1>15, MachinePassesKeeps, PassStepKeeps
<1>16. CASE TargetModulePatcherPass
  BY <1>16, PatchKeeps, PassStepKeeps
<1>17. CASE NewPMAsmPrinter
  BY <1>17, PrintKeeps, PassStepKeeps
<1>18. CASE Destroy
  BY <1>18, DestroyKeeps
<1>19. CASE UNCHANGED vars
  <2>1. /\ todo' = todo /\ am' = am /\ built' = built /\ made' = made /\ deleted' = deleted /\ reads' = reads
    BY <1>19 DEF vars
  <2>2. \A x : Ahead(x)' <=> Ahead(x)
    BY <2>1 DEF Ahead, AheadIn
  <2>3. Schedule' /\ (Exited' <=> Exited)
    BY <2>1 DEF IInv, Schedule, Exited, Planned, InOrder, Ending, RequiredBefore, AsksEarly
  <2>4. IsAm(am)' /\ (made \subseteq Payloads)' /\ Hung(am.linked)' /\ Buried'
    BY <2>1, Unrelated DEF IInv, IsAm, Hung, Buried
  <2>5. Forgotten' /\ Built' /\ CodeHeld'
    BY <2>1, <2>2, <2>3 DEF IInv, Forgotten, Built, CodeHeld
  <2>6. Early' /\ MadeOnly'
    BY <2>1, <2>2 DEF IInv, Early, MadeOnly
  <2>7. Fresh' /\ Hit'
    BY <2>1, <2>2 DEF IInv, Fresh, Hit, Sound, Surviving, ReadsAreFresh, CachedReadsHit
  <2>8. QED
    BY <2>3, <2>4, <2>5, <2>6, <2>7 DEF IInv
<1>20. QED
  BY <1>1, <1>2, <1>3, <1>4, <1>5, <1>6, <1>7, <1>8, <1>9, <1>10, <1>11, <1>12, <1>13, <1>14, <1>15, <1>16,
     <1>17, <1>18, <1>19 DEF Next

LEMMA StartsWell ==
  ASSUME Init
  PROVE  IInv
<1>1. /\ Planned(todo) /\ todo[1] # "machine_passes"
      /\ built = {} /\ made = {} /\ deleted = FALSE /\ reads = {}
  BY PlansArePlanned DEF Init
<1> DEFINE held == {Parent("T"), Parent("I")}
<1>2. am = [held |-> held, stale |-> {}, linked |-> {}, dead |-> {}, touched |-> {}]
  BY DEF Init
<1> HIDE DEF held
<1>3. am.held = held /\ am.stale = {} /\ am.linked = {} /\ am.dead = {} /\ am.touched = {} /\ IsAm(am)
  BY <1>2 DEF IsAm
<1>4. held \subseteq Others /\ Parent("I") \in held
  BY DEF held, Others
<1>5. {CFG, Liveness, SVLoc, Specs} \cap held = {} /\ \A p \in Payloads : IR(p) \notin held
  BY <1>4, BelowPrototype, Classes DEF PrototypeKeys
<1>6. Schedule /\ Hung(am.linked) /\ Buried /\ Forgotten /\ Built /\ CodeHeld
  BY <1>1, <1>3 DEF Schedule, Hung, Buried, Forgotten, Built, CodeHeld
<1>7. Early /\ MadeOnly
  BY <1>3, <1>5 DEF Early, MadeOnly
<1>8. Fresh /\ Hit
  BY <1>1, <1>3, <1>4, <1>5 DEF Fresh, Hit, ReadsAreFresh, CachedReadsHit
<1>9. QED
  BY <1>1, <1>3, <1>6, <1>7, <1>8 DEF IInv

-----------------------------------------------------------------------------
(* What the pipeline keeps, for any functions, payloads and passes of a tool. *)

\* In every state of the pipeline the invariant above holds: the passes to come
\* are in the builder's order, proxies hang under each other, machine code is
\* held, and what is stale or missing is only what the irregularities let in.
THEOREM PipelineInvariant == Spec => []IInv
<1>1. Init => IInv
  BY StartsWell
<1>2. IInv /\ [Next]_vars => IInv'
  BY StepsKeep
<1>3. QED
  BY <1>1, <1>2, PTL DEF Spec

\* The results of the deleted intrinsics' functions are evicted and not made
\* again, and the analysis managers, destroyed in reverse order of their
\* declaration in the pass, never clear one that is gone: with every
\* irregularity, also when a failed discovery is carried on from.
THEOREM NothingEverDangles == Spec => []NothingDangles
<1>1. IInv => NothingDangles
  BY DEF IInv, Forgotten, Buried, NothingDangles, NothingStranded, NoDeadManagerCleared
<1>2. QED
  BY <1>1, PipelineInvariant, PTL

\* When a failed discovery ends the program, the code it lifted is in the cache
\* until the printer has walked it, and the payloads' code from instruction
\* selection to the patcher, whatever the passes in between reported.
THEOREM LiftedCodeSurvives ==
  ASSUME "carries_on" \notin Shown
  PROVE  Spec => []MachineCodeSurvives
<1>1. IInv => MachineCodeSurvives
  BY DEF IInv, CodeHeld, MachineCodeSurvives
<1>2. QED
  BY <1>1, PipelineInvariant, PTL

\* No pass reads a stale result when tools ask for locations only after the
\* last payload, abandon what they changed, and nothing is inlined late.
THEOREM ReadsStayFresh ==
  ASSUME Sound
  PROVE  Spec => []ReadsAreFresh
<1>1. IInv => ReadsAreFresh
  BY DEF IInv, Fresh
<1>2. QED
  BY <1>1, PipelineInvariant, PTL

\* The machine passes, which only read what is cached above their level, find
\* every result the pass before them required, and so do the other readers.
THEOREM MachinePassesFindResults ==
  ASSUME Surviving
  PROVE  Spec => []CachedReadsHit
<1>1. IInv => CachedReadsHit
  BY DEF IInv, Hit
<1>2. QED
  BY <1>1, PipelineInvariant, PTL
================================================================================
