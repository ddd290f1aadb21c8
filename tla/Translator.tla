----------------------------- MODULE Translator -----------------------------
(***************************************************************************)
(* TraceFunctionTranslator: raising a lifted machine function to LLVM IR.  *)
(*                                                                         *)
(* The translator keeps, for every IR block, a map VM from register keys   *)
(* (offset and length in half-words) to the IR values that hold them, one  *)
(* value per LLVM type.  A type is a view here: the chunk length of the    *)
(* vector type <n x iK>, the length of the key for a plain integer.  A     *)
(* value is the sequence of what its half-words are: an argument, poison,  *)
(* a half of the i-th write, or what the register held on entry to a       *)
(* machine block, which is what a PHI placed there stands for.             *)
(*                                                                         *)
(* After the blocks have been raised, in layout order, an EXEC check and a *)
(* bypass are put around every vector block, the PHIs get their incoming   *)
(* values, and checks that are provably true are folded.                   *)
(***************************************************************************)
EXTENDS Integers, Sequences, FiniteSets, FiniteSetsExt, SequencesExt

CONSTANTS
  Size,         \* half-words of the modelled register file (RegFileSize)
  Allocated,    \* half-words the function may use; the rest is out of range
  Cfgs,         \* machine functions: records of
                \*   succ, vector, device : its blocks, and how it is entered
                \*   keys      : keys its instructions name, records [off, len]
                \*   exec      : the key of the EXEC mask, one of them
                \*   preloaded : keys with a value on entry to a kernel
  MaxOps        \* instructions raised, over all blocks

\* What the constants must satisfy.
TranslatorAssumption ==
  /\ Size \in Nat /\ Allocated \in Nat /\ MaxOps \in Nat
  /\ \A f \in Cfgs :
       /\ f.exec \in f.keys
       /\ f.keys \cup f.preloaded \subseteq
            {k \in [off : 0 .. Size, len : 1 .. Size] : k.off + k.len =< Size}

VARIABLES
  mf,      \* the machine function: successors and vector blocks
  stage,   \* the phase of translate()
  current, \* the block being raised; those before it have a terminator
  ops,     \* how many instructions were raised
  VM,      \* per IR block, the entries [key, view, val]
  held,    \* history: what each register half held in each body, the latest last
  left,    \* history: per body, halves of which a write left other views behind
  tofix,   \* ToBeFixedPhis
  phis,    \* the incoming values of each PHI, by predecessor
  mask,    \* the value of EXEC that the check of each vector block tests
  skipped  \* vector blocks whose bypass was folded away

histories == <<held, left>>
vars == <<mf, stage, current, ops, VM, histories, tofix, phis, mask, skipped>>

Exec == mf.exec

Blocks == DOMAIN mf.succ
Nodes == {"body", "check", "skip"} \X Blocks
Halves == 0 .. Size - 1
Poison == <<"poison", 0, 0>>
Span(k) == k.off .. k.off + k.len - 1
In(b, k) == [i \in 1 .. k.len |-> <<"in", b, k.off + i - 1>>]

(***************************************************************************)
(* The IR control flow.  A body gets its edges with its terminator; once   *)
(* the scaffold is in place a vector block is entered through its check,   *)
(* and its bypass leads where the body leads if that is one block, and to  *)
(* the body otherwise.                                                     *)
(***************************************************************************)
Scaffolded(b) == b \in mf.vector /\ stage # "raise"

Entrance(b) == IF Scaffolded(b) THEN <<"check", b>> ELSE <<"body", b>>

IRSuccessors(n) ==
  LET b == n[2]
      next == {Entrance(c) : c \in mf.succ[b]}
  IN CASE n[1] = "body" -> IF b < current THEN next ELSE {}
       [] n[1] = "check" -> IF ~Scaffolded(b) THEN {}
                            ELSE {<<"body", b>>} \cup
                                 (IF b \in skipped THEN {} ELSE {<<"skip", b>>})
       [] n[1] = "skip" -> IF ~Scaffolded(b) \/ b \in skipped THEN {}
                           ELSE IF Cardinality(next) = 1 THEN next
                           ELSE {<<"body", b>>}

IRPredecessors(n) == {p \in Nodes : n \in IRSuccessors(p)}

\* A placeholder PHI is created where it is needed; those of a vector body
\* raised before the scaffold are hoisted to its check.
Placed(phi) ==
  IF phi.early /\ Scaffolded(phi.node[2]) THEN <<"check", phi.node[2]>>
  ELSE phi.node

(***************************************************************************)
(* The register value map of one block.                                    *)
(***************************************************************************)
Of(m, k) == {e \in m : e.key = k}
Put(m, k, w, v) ==
  {e \in m : e.key # k \/ e.view # w} \cup {[key |-> k, view |-> w, val |-> v]}

\* The value seen as chunks of w half-words: the cached view if there is one,
\* a cast of some other view of the same register otherwise.
Viewed(m, k, w) ==
  LET es == Of(m, k)
      es1 == {e \in es : e.view = w}
  IN (CHOOSE e \in (IF es1 # {} THEN es1 ELSE es) : TRUE).val

Chunk(v, i, w) == SubSeq(v, i * w + 1, (i + 1) * w)

\* The greatest length that divides all the given ones; zeros do not count.
Gcd(S) == Max({d \in 1 .. Size : \A x \in S : x % d = 0})

Overlapping(m, k) == {e.key : e \in m} \cap
  {j \in {e.key : e \in m} : Span(j) \cap Span(k) # {}}

\* The view a chunk of w half-words is taken from: a vector of such chunks
\* when they tile the source, the whole integer shifted otherwise.
SourceView(k, w) == IF k.len % w = 0 THEN w ELSE k.len

\* Only what the write covers is dropped.
invalidateOverlaps_covered(m, k) ==
  {e \in m : e.key = k \/ ~(Span(e.key) \subseteq Span(k))}

\* What a write to k leaves of the entries that overlap it: nothing of those
\* it covers, the rest in chunks of those that contain it, and nothing of
\* those it overlaps in part.  The entry of k itself is left
\* alone, with all its views.
invalidateOverlaps(m, k) ==
  LET hit == Overlapping(m, k) \ {k}
      containing == {j \in hit : Span(k) \subseteq Span(j)}
      chunkOf(j) == Gcd({k.off - j.off, j.off + j.len - k.off - k.len, k.len})
      kept(j) ==
        LET w == chunkOf(j)
            whole == Viewed(m, j, SourceView(j, w))
        IN {[key |-> [off |-> j.off + i * w, len |-> w], view |-> w,
             val |-> Chunk(whole, i, w)] :
              i \in {x \in 0 .. j.len \div w - 1 : j.off + x * w \notin Span(k)}}
      preserved == UNION {kept(j) : j \in containing}
  IN {e \in m : /\ e.key \notin hit
                /\ \A p \in preserved : p.key # e.key \/ p.view # e.view}
     \cup preserved

\* setRegOperandValue: writes past the allocation are dropped.
Written(m, k, v) ==
  IF k.off + k.len > Allocated THEN m
  ELSE Put(invalidateOverlaps(m, k), k, k.len, v)

(***************************************************************************)
(* getOperandAsValue: the value of register k in block n whose map is m.   *)
(* The result is the value, the map with what was cached on the way, and   *)
(* the placeholder PHIs that were made.  Among the sources of a half-word  *)
(* the one that overlaps k most is taken; ties are broken by a hash order  *)
(* in the code and by CHOOSE here.                                         *)
(***************************************************************************)
\* What stands for a register no entry says anything about.
Unknown(n, k) ==
  IF IRPredecessors(n) = {} THEN [i \in 1 .. k.len |-> Poison] ELSE In(n[2], k)

PhiFor(n, k) == [node |-> n, key |-> k, early |-> stage = "raise"]

\* For each half of k, the stored register it is read from.
None == [off |-> Size, len |-> 0]
Sources(m, k) ==
  [h \in Span(k) |->
    LET js == {j \in Overlapping(m, k) : h \in Span(j)}
        overlap(j) == Cardinality(Span(j) \cap Span(k))
    IN IF js = {} THEN None
       ELSE CHOOSE j \in js : \A i \in js : overlap(i) =< overlap(j)]

\* The runs of halves read from one register: records [off, len, from], a run
\* that no register covers being read from an entry of its own.
Runs(source, k) ==
  LET starts == {h \in Span(k) : h = k.off \/ source[h] # source[h - 1]}
      length(h) == Min({s \in starts : s > h} \cup {k.off + k.len}) - h
  IN {[off |-> h, len |-> length(h),
       from |-> IF source[h] = None THEN [off |-> h, len |-> length(h)]
                ELSE source[h]] : h \in starts}

\* The chunks of w halves of k: where each starts and its entry in the map.
Pieces(m, runs, w) ==
  UNION {{[key |-> [off |-> r.off + i * w, len |-> w], view |-> w,
           val |-> Chunk(Viewed(m, r.from, SourceView(r.from, w)),
                         (r.off + i * w - r.from.off) \div w, w)] :
            i \in 0 .. r.len \div w - 1} : r \in runs}

Joined(pieces, k, w) ==
  [i \in 1 .. k.len |->
    (CHOOSE p \in pieces : p.key.off = k.off + w * ((i - 1) \div w)).val[((i - 1) % w) + 1]]

Assembled(n, m, k, runs, w) ==
  LET gaps == {[off |-> r.off, len |-> r.len] : r \in {x \in runs : x.from \notin {e.key : e \in m}}}
      filled == m \cup {[key |-> g, view |-> g.len, val |-> Unknown(n, g)] : g \in gaps}
      seen == {[key |-> r.from, view |-> SourceView(r.from, w),
                val |-> Viewed(filled, r.from, SourceView(r.from, w))] : r \in runs}
  IN {[val |-> Joined(pieces, k, w),
       map |-> Put({e \in filled : \A c \in seen \cup pieces :
                                     c.key # e.key \/ c.view # e.view}
                   \cup seen \cup pieces, k, k.len, Joined(pieces, k, w)),
       new |-> IF IRPredecessors(n) = {} THEN {} ELSE {PhiFor(n, g) : g \in gaps}] :
        pieces \in {Pieces(filled, runs, w)}}

\* One PHI, or poison, when nothing stored overlaps k; otherwise k is put
\* together from chunks as long as all the runs allow.
materializeFromOverlapping(n, m, k) ==
  IF Overlapping(m, k) = {}
  THEN {[val |-> Unknown(n, k), map |-> Put(m, k, k.len, Unknown(n, k)),
         new |-> IF IRPredecessors(n) = {} THEN {} ELSE {PhiFor(n, k)}]}
  ELSE UNION {Assembled(n, m, k, runs, Gcd({r.len : r \in runs})) :
                runs \in {Runs(source, k) : source \in {Sources(m, k)}}}

getOperandAsValue(n, m, k) ==
  CHOOSE r \in IF Of(m, k) = {} THEN materializeFromOverlapping(n, m, k)
              ELSE {[val |-> v, map |-> Put(m, k, k.len, v), new |-> {}] :
                      v \in {Viewed(m, k, k.len)}} : TRUE

(***************************************************************************)
(* translate().                                                            *)
(***************************************************************************)
Ones(h) == <<"ones", 0, h>>

\* A kernel starts with preloaded arguments, an EXEC mask of ones, and poison
\* elsewhere; a device function with one argument per dword of the files.
EntryValue(h) == IF mf.device THEN <<"arg", 0, h>>
                 ELSE IF h \in Span(Exec) THEN Ones(h)
                 ELSE IF \E k \in mf.preloaded : h \in Span(k) THEN <<"arg", 0, h>>
                 ELSE Poison

EntryRegs(keys) ==
  {[key |-> k, view |-> k.len, val |-> [i \in 1 .. k.len |-> EntryValue(k.off + i - 1)]] :
     k \in keys}

initKernelEntryRegs == EntryRegs(mf.preloaded \cup {Exec})
initDeviceFunctionEntryRegs ==
  EntryRegs({[off |-> 2 * i, len |-> 2] : i \in 0 .. Size \div 2 - 1})

Init ==
  /\ mf \in Cfgs
  /\ stage = "raise" /\ current = 1 /\ ops = 0
  /\ VM = [n \in Nodes |-> IF n # <<"body", 1>> THEN {}
                       ELSE IF mf.device THEN initDeviceFunctionEntryRegs
                       ELSE initKernelEntryRegs]
  /\ held = [b \in Blocks |-> [h \in Halves |->
               <<IF b = 1 THEN EntryValue(h) ELSE <<"in", b, h>> >>]]
  /\ left = [b \in Blocks |-> {}]
  /\ tofix = {} /\ phis = <<>> /\ mask = <<>> /\ skipped = {}

\* The value of a source operand is requested.
RaiseRead(k) ==
  /\ stage = "raise" /\ ops < MaxOps
  /\ \E r \in {getOperandAsValue(<<"body", current>>, VM[<<"body", current>>], k)} :
       /\ VM' = [VM EXCEPT ![<<"body", current>>] = r.map]
       /\ tofix' = tofix \cup r.new
  /\ ops' = ops + 1
  /\ UNCHANGED <<mf, stage, current, histories, phis, mask, skipped>>

\* The halves a write to k reaches: none, past the allocation.
Stored(k) == IF k.off + k.len > Allocated THEN {} ELSE Span(k)

\* A destination operand is set to a value of its own.
RaiseWrite(k) ==
  LET n == <<"body", current>>
      v == [i \in 1 .. k.len |-> <<"w", ops + 1, k.off + i - 1>>]
  IN /\ stage = "raise" /\ ops < MaxOps
     /\ VM' = [VM EXCEPT ![n] = Written(VM[n], k, v)]
     /\ held' = [held EXCEPT ![current] = [h \in Halves |->
                   IF h \in Stored(k) THEN Append(@[h], v[h - k.off + 1]) ELSE @[h]]]
     /\ left' = [left EXCEPT ![current] = (@ \ Stored(k)) \cup
                   (IF \E e \in Of(VM[n], k) : e.view # k.len THEN Stored(k) ELSE {})]
     /\ ops' = ops + 1
     /\ UNCHANGED <<mf, stage, current, tofix, phis, mask, skipped>>

\* The body is closed with its branch; after the last one the scaffold is built.
CloseBody ==
  /\ stage = "raise"
  /\ current' = current + 1
  /\ stage' = IF current = Cardinality(Blocks) THEN "scaffold" ELSE "raise"
  /\ UNCHANGED <<mf, ops, VM, histories, tofix, phis, mask, skipped>>

\* What the check of a block without predecessors tests: the mask on entry is
\* looked for in the map of the body, which has been raised by then, and taken
\* to be ones if it has no value of its full width there.
EntryMask(b) ==
  LET es == {e \in Of(VM[<<"body", b>>], Exec) : e.view = Exec.len}
  IN IF es = {} THEN [i \in 1 .. Exec.len |-> Ones(Exec.off + i - 1)]
     ELSE (CHOOSE e \in es : TRUE).val

\* Every vector block gets its check, which reads EXEC, and its bypass; the
\* PHIs of the body move to the check.
Scaffold ==
  LET checks == {b \in mf.vector : IRPredecessors(<<"check", b>>) # {}}
      exec(b) == getOperandAsValue(<<"check", b>>, {}, Exec)
  IN /\ stage = "scaffold"
     /\ VM' = [n \in Nodes |->
                IF n[1] = "check" /\ n[2] \in checks THEN exec(n[2]).map ELSE VM[n]]
     /\ tofix' = tofix \cup UNION {exec(b).new : b \in checks}
     /\ mask' = [b \in mf.vector |-> IF b \in checks THEN exec(b).val ELSE EntryMask(b)]
     /\ stage' = "fixup"
     /\ UNCHANGED <<mf, current, ops, histories, phis, skipped>>

\* The predecessors asked leave out the bypasses.
FixPhi_body ==
  /\ stage = "fixup" /\ tofix # {}
  /\ \E phi \in {CHOOSE q \in tofix : TRUE} :
       /\ phis' = [q \in DOMAIN phis \cup {phi} |->
                    IF q = phi
                    THEN [p \in {x \in IRPredecessors(Placed(phi)) : x[1] # "skip"} |->
                           getOperandAsValue(p, VM[p], phi.key).val]
                    ELSE phis[q]]
       /\ tofix' = tofix \ {phi}
  /\ UNCHANGED <<mf, stage, current, ops, VM, histories, mask, skipped>>

\* One turn of fixupPhis: a PHI of the list (the last, in the code) asks each
\* predecessor of its block for the register, which may leave new PHIs there.
FixPhi ==
  /\ stage = "fixup" /\ tofix # {}
  /\ \E phi \in {CHOOSE q \in tofix : TRUE} :
       \E asked \in {[p \in IRPredecessors(Placed(phi)) |->
                        getOperandAsValue(p, VM[p], phi.key)]} :
         /\ VM' = [n \in Nodes |-> IF n \in DOMAIN asked THEN asked[n].map ELSE VM[n]]
         /\ tofix' = (tofix \ {phi}) \cup UNION {asked[p].new : p \in DOMAIN asked}
         /\ phis' = [q \in DOMAIN phis \cup {phi} |->
                      IF q = phi THEN [p \in DOMAIN asked |-> asked[p].val] ELSE phis[q]]
  /\ UNCHANGED <<mf, stage, current, ops, histories, mask, skipped>>

Fixed == /\ stage = "fixup" /\ tofix = {}
         /\ stage' = "fold"
         /\ UNCHANGED <<mf, current, ops, VM, histories, tofix, phis, mask, skipped>>

\* isProvablyAllOnesInt: constants, and PHIs that merge nothing else; a cycle
\* of PHIs counts as ones.
ExecPhis == {q \in DOMAIN phis : q.key = Exec}
OnesValue(v) == v = [i \in 1 .. Exec.len |-> Ones(Exec.off + i - 1)]
PhiOf(n, v) == {q \in ExecPhis : q.node = n /\ v = In(n[2], Exec)}

RECURSIVE LargestSupported(_)
LargestSupported(S) ==
  UNION {IF T = S THEN S ELSE LargestSupported(T) :
    T \in {{q \in S : /\ phis[q] # <<>>
                     /\ \A p \in DOMAIN phis[q] :
                          OnesValue(phis[q][p]) \/ PhiOf(p, phis[q][p]) \cap S # {}}}}

\* One incoming mask of ones is taken for all.
ProvablyOnes_some ==
  {q \in ExecPhis : \E p \in DOMAIN phis[q] : OnesValue(phis[q][p])}

ProvablyOnes == LargestSupported(ExecPhis)

\* foldTriviallyActiveExecChecks, called twice: the bypass of a check that is
\* always true goes, with its PHIs and what other PHIs got through it.
FoldChecks ==
  \E active \in {{b \in DOMAIN mask : \/ OnesValue(mask[b])
                                       \/ PhiOf(<<"check", b>>, mask[b]) \cap ProvablyOnes # {}}} :
    LET gone == {<<"skip", b>> : b \in active}
    IN /\ stage \in {"fold", "refold"}
       /\ stage' = IF stage = "fold" THEN "refold" ELSE "done"
       /\ skipped' = skipped \cup active
       /\ phis' = [q \in {x \in DOMAIN phis : x.node \notin gone} |->
                    [p \in DOMAIN phis[q] \ gone |-> phis[q][p]]]
       /\ UNCHANGED <<mf, current, ops, VM, histories, tofix, mask>>

Done == stage = "done" /\ UNCHANGED vars

Next ==
  \/ \E k \in mf.keys : RaiseRead(k) \/ RaiseWrite(k)
  \/ CloseBody \/ Scaffold \/ FixPhi \/ Fixed \/ FoldChecks \/ Done

Spec == Init /\ [][Next]_vars

-----------------------------------------------------------------------------
\* Block c can run before block b.
Before(c, b) ==
  \E n \in 2 .. Cardinality(Blocks) + 1 : \E path \in [1 .. n -> Blocks] :
    /\ path[1] = c /\ path[n] = b
    /\ \A i \in 1 .. n - 1 : path[i + 1] \in mf.succ[path[i]]

\* A block all of whose predecessors come behind it: while it is raised it looks
\* as if it had none.
EnteredFromBehind(b) == b # 1 /\ \A c \in Blocks : b \in mf.succ[c] => c >= b

\* What may be read of a register half at the end of an IR block: the last thing
\* written; where a write left other views of its register behind, any earlier
\* value of the half in the block; poison for the value on entry to a block that
\* is only entered from behind, and for whatever is read at the check of an
\* entry block, whose map is empty.
Readable(n, h) ==
  IF n[1] # "body" THEN {IF n = <<"check", 1>> /\ IRPredecessors(n) = {} THEN Poison
                         ELSE <<"in", n[2], h>>}
  ELSE LET b == n[2]
           vs == IF h \in left[b] THEN ToSet(held[b][h]) ELSE {Last(held[b][h])}
       IN vs \cup (IF EnteredFromBehind(b) /\ held[b][h][1] \in vs THEN {Poison} ELSE {})

ReadableIn(n, k, v) == \A i \in 1 .. k.len : v[i] \in Readable(n, k.off + i - 1)

\* All of k was last written by one instruction of body b, which wrote only k.
WrittenAs(b, k) ==
  LET v == Last(held[b][k.off])
      writes(h) == \E u \in ToSet(held[b][h]) : u[1] = "w" /\ u[2] = v[2]
  IN /\ v[1] = "w" /\ {h \in Halves : writes(h)} = Span(k)
     /\ \A h \in Span(k) : Last(held[b][h])[2] = v[2]

\* Every value the map gives for a register, under any key that covers it in
\* whole or in part and under any type, is what the instructions raised so far
\* left in it, but for the cases above; and what was written under a name is
\* what is read under that name, whatever else was cached for it.
MapSound ==
  \A n \in Nodes : \A e \in VM[n] :
    /\ ReadableIn(n, e.key, e.val)
    /\ n[1] = "body" /\ e.view = e.key.len /\ WrittenAs(n[2], e.key) =>
         \A i \in 1 .. e.key.len : e.val[i] = Last(held[n[2]][e.key.off + i - 1])

\* A PHI that was fixed up has one incoming value per IR predecessor, through
\* the bypasses too, and it is what may be read where that one ends: what the
\* register holds there, but for the cases above.
PhisSound ==
  \A q \in DOMAIN phis :
    /\ DOMAIN phis[q] \subseteq IRPredecessors(Placed(q))
    /\ \A p \in IRPredecessors(Placed(q)) :
         p \in DOMAIN phis[q] /\ ReadableIn(p, q.key, phis[q][p])

\* The entry block of a device function with a mask of more than one double-word:
\* the arguments are recorded by double-words, so no value of the mask is found.
MaskNotFound(b) == b = 1 /\ mf.device /\ Exec.len > 2

\* A bypass is dropped only if every lane is active there: the function is
\* entered with a mask of ones and no block that may run before wrote it; or
\* the mask was not found.
FoldSound ==
  \A b \in skipped :
    \/ MaskNotFound(b)
    \/ ~mf.device /\ \A c \in Blocks : Before(c, b) =>
         \A h \in Span(Exec) : Len(held[c][h]) = 1

\* The comments of emitExecPredicateCheck: the check of the entry block tests
\* the mask the function is entered with, ones in a kernel and an argument in a
\* device function.
EntryCheckTestsEntryMask ==
  1 \in DOMAIN mask /\ IRPredecessors(<<"check", 1>>) = {} =>
    mask[1] = [i \in 1 .. Exec.len |-> EntryValue(Exec.off + i - 1)]

\* The comments of materializeFromOverlapping: poison is made in the entry block.
PoisonOnlyAtEntry ==
  \A n \in Nodes : \A e \in VM[n] : Poison \in ToSet(e.val) => n = <<"body", 1>>

=============================================================================
