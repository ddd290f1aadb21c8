--------------------------- MODULE Retranslation ---------------------------
(***************************************************************************)
(* TranslationState: the lifted IR of one machine function, kept up to     *)
(* date while passes edit the machine code.                                *)
(*                                                                         *)
(* A machine block is a record: its version, whether it is empty, is a     *)
(* vector block, writes the EXEC mask, reads and writes the one register   *)
(* that is followed, and its successors.  A value of that register in the  *)
(* IR is what a version of a block wrote or the PHI of an IR block.  A     *)
(* full translation is Translate; an incremental one repairs, block by     *)
(* block, the IR there is.                                                 *)
(*                                                                         *)
(* Not every edit is announced as the header asks, and not every flush      *)
(* does what it promises.  Two histories tell the properties what did not: *)
(* `announced` is the machine function as the marks have it, `astray` is   *)
(* raised by a flush or a save that leaves the IR behind the marks (see    *)
(* Repairable, FlushFails and scanDirtyMarks) until all is translated anew.*)
(***************************************************************************)
EXTENDS Naturals, Sequences, FiniteSets, SequencesExt

CONSTANTS
  Names,     \* block names; block 1 is the entry
  Functions, \* machine functions to start from
  Codes,     \* what an edited block may be, its version and successors aside
  MaxEdits   \* edits and saves of the machine code

\* What the constants must satisfy.
RetranslationAssumption == Names \subseteq Nat \ {0} /\ 1 \in Names /\ MaxEdits \in Nat

VARIABLES
  mir,        \* the machine function, by block
  carriers,   \* blocks with an instruction that carries needsRetranslation
  ir,         \* the lifted IR
  DirtyMBBs,
  ErasedBodyBBs,
  Translator, \* there is one
  edits,
  announced,  \* history: the machine function as it was when last marked
  astray,     \* history: the IR was left behind the marks
  moved       \* history: blocks that a split gave the mark of another

histories == <<announced, astray, moved>>
vars == <<mir, carriers, ir, DirtyMBBs, ErasedBodyBBs, Translator, edits, histories>>

Body(b) == <<"body", b>>
Check(b) == <<"check", b>>
Skip(b) == <<"skip", b>>
Wrote(b, v) == <<"wrote", b, v>>
Phi(n) == <<"phi", n, 0>>
Blank == [edge |-> <<>>, code |-> <<>>, use |-> <<>>, vm |-> <<>>, phi |-> <<>>]

\* What a block does, without where it leads; the entry sets the register.
Code(m, b) == [m[b] EXCEPT !.succ = {}]
Writes(m, b) == m[b].writes \/ b = 1

RECURSIVE From(_, _)
From(m, S) == IF UNION {m[b].succ : b \in S} \subseteq S THEN S
              ELSE From(m, S \cup UNION {m[b].succ : b \in S})

(***************************************************************************)
(* translate().  A vector block keeps its EXEC check only where the mask   *)
(* may have been written before; the bypass leads where the body leads.    *)
(***************************************************************************)
Checked(m) == {b \in DOMAIN m : m[b].vector /\ \E c \in DOMAIN m :
                 m[c].exec /\ b \in From(m, m[c].succ)}

Edges(m) ==
  LET enter(c) == IF c \in Checked(m) THEN Check(c) ELSE Body(c)
      next(b) == {enter(c) : c \in m[b].succ}
      nodes == {Body(b) : b \in DOMAIN m} \cup {Check(b) : b \in Checked(m)}
               \cup {Skip(b) : b \in Checked(m)}
  IN [n \in nodes |-> CASE n[1] = "body" -> next(n[2])
                        [] n[1] = "check" -> {Body(n[2]), Skip(n[2])}
                        [] n[1] = "skip" -> IF Cardinality(next(n[2])) = 1 THEN next(n[2])
                                            ELSE {Body(n[2])}]

\* A body behind a check is entered by the check; a bypass that has nowhere
\* else to go enters it too, with the same values.
Preds(edge, n) == {p \in DOMAIN edge : n \in edge[p] /\ (p = Skip(n[2]) => n[1] # "body")}

\* What the register holds at the head and at the end of an IR block: PHIs
\* with one value to merge have been replaced by that value.
RECURSIVE AtEnd(_, _, _)
AtHead(m, edge, n) ==
  LET ps == Preds(edge, n)
  IN IF Cardinality(ps) = 1 THEN AtEnd(m, edge, CHOOSE p \in ps : TRUE) ELSE Phi(n)
AtEnd(m, edge, n) ==
  IF n[1] = "body" /\ Writes(m, n[2]) THEN Wrote(n[2], m[n[2]].version)
  ELSE AtHead(m, edge, n)

Merges(edge) == {n \in DOMAIN edge : Cardinality(Preds(edge, n)) > 1}

Lifted(m, edge) ==
  [edge |-> edge,
   code |-> [b \in DOMAIN m |-> Code(m, b)],
   use |-> [b \in {c \in DOMAIN m : m[c].reads} |-> AtHead(m, edge, Body(b))],
   vm |-> [n \in DOMAIN edge |-> AtEnd(m, edge, n)],
   phi |-> [n \in Merges(edge) |-> [p \in Preds(edge, n) |-> AtEnd(m, edge, p)]]]

translate(m) == Lifted(m, Edges(m))

HasBlock(b) == Body(b) \in DOMAIN ir.edge
CheckBBs == {b \in Names : Check(b) \in DOMAIN ir.edge}
EntranceOf(b) == IF b \in CheckBBs THEN Check(b) ELSE Body(b)

\* Other blocks' caches that point at the old value get the new one.
Cached(vm, n, new, stale) ==
  [q \in DOMAIN vm |-> IF q = n \/ vm[q] \in stale THEN new ELSE vm[q]]

(***************************************************************************)
(* retranslateMBB: block b is raised again into its body, and every use of *)
(* the value the old body left in the register gets the new one.           *)
(***************************************************************************)
retranslateMBB(i, m, b) ==
  LET n == Body(b)
      edge == [i.edge EXCEPT ![n] = {Body(c) : c \in m[b].succ}]
      ps == Preds(edge, n)
      \* a PHI moved to the check is completed with the body's predecessors
      bypassed == Skip(b) \in DOMAIN edge /\ n \in edge[Skip(b)]
      head == IF Cardinality(ps) = 1 /\ ~bypassed THEN i.vm[CHOOSE p \in ps : TRUE] ELSE Phi(n)
      new == IF Writes(m, b) THEN Wrote(b, m[b].version) ELSE head
      \* the old body's own value, if the register ended with one
      stale == {i.vm[n]} \cap ({Phi(n)} \cup {Wrote(b, i.code[b].version)})
      now(v) == IF v \in stale THEN new ELSE v
      incoming(p) == IF p = n THEN new ELSE i.vm[p]
  IN [edge |-> edge,
      code |-> [i.code EXCEPT ![b] = Code(m, b)],
      use |-> [c \in (DOMAIN i.use \ {b}) \cup (IF m[b].reads THEN {b} ELSE {}) |->
                IF c = b THEN now(head) ELSE now(i.use[c])],
      vm |-> Cached(i.vm, n, new, stale),
      phi |-> [q \in DOMAIN i.phi |-> [p \in DOMAIN i.phi[q] |->
                IF q = n THEN now(incoming(p)) ELSE now(i.phi[q][p])]]]

(***************************************************************************)
(* TranslationState.                                                       *)
(***************************************************************************)
isDirty == \/ DirtyMBBs # {} \/ ErasedBodyBBs # {}
           \/ \E b \in DOMAIN mir : ~HasBlock(b)

\* As irSuccessorsMatchMIR, were one direction compared.
irSuccessorsMatchMIR_added(b) ==
  {EntranceOf(c) : c \in mir[b].succ} \subseteq ir.edge[Body(b)]

irSuccessorsMatchMIR(b) == ir.edge[Body(b)] = {EntranceOf(c) : c \in mir[b].succ}

canFlushIncrementally ==
  /\ Translator /\ ErasedBodyBBs = {}
  /\ \A b \in DOMAIN mir : HasBlock(b)
  /\ \A b \in DirtyMBBs : irSuccessorsMatchMIR(b)

clearDirtyMarks == carriers \ DirtyMBBs

Init ==
  /\ mir \in Functions
  /\ carriers = {} /\ ir = Blank /\ DirtyMBBs = {} /\ ErasedBodyBBs = {}
  /\ Translator = FALSE /\ edits = 0
  /\ announced = mir /\ astray = FALSE /\ moved = {}

\* The bookkeeping of every flush; the marks go before anything is translated.
Flushed == /\ isDirty
           /\ carriers' = clearDirtyMarks /\ moved' = moved \ DirtyMBBs
           /\ DirtyMBBs' = {} /\ ErasedBodyBBs' = {}
           /\ UNCHANGED <<mir, edits>>

flushFull == /\ ir' = translate(mir) /\ Translator' = TRUE
             /\ announced' = mir /\ astray' = FALSE

\* What retranslateMBB leaves as a translation from scratch has it.  It does
\* not: enter a block by its check, replace a value that only passed through
\* the old body, make or drop a check, or complete in the body's terms the PHIs
\* of a check that the block's own bypass leads to.
Repairable(b) ==
  /\ b \in CheckBBs => Body(b) \notin ir.edge[Skip(b)]
  /\ mir[b].succ \cap CheckBBs = {}
  /\ mir[b].writes => Writes(ir.code, b)

flush ==
  /\ Flushed
  /\ \/ ~canFlushIncrementally /\ flushFull
     \* A value of a body already repaired had escaped without a key.
     \/ canFlushIncrementally /\ flushFull
     \/ /\ canFlushIncrementally
        /\ \E order \in SetToSeqs(DirtyMBBs) :
             ir' = FoldLeft(LAMBDA i, b : retranslateMBB(i, mir, b), ir, order)
        /\ announced' = [b \in DOMAIN mir |-> IF b \in DirtyMBBs THEN mir[b] ELSE announced[b]]
        /\ astray' = (astray \/ (\E b \in DirtyMBBs : ~Repairable(b))
                              \/ Checked(announced') # CheckBBs)
        /\ UNCHANGED Translator

\* The constructor reports an error, after the marks are gone.
FlushFails == /\ Flushed /\ ~canFlushIncrementally
              /\ Translator' = FALSE /\ astray' = TRUE /\ UNCHANGED <<ir, announced>>

(***************************************************************************)
(* The edits, with what the rules of the header have the editor mark.      *)
(***************************************************************************)
markDirty(b) == /\ DirtyMBBs' = DirtyMBBs \cup {b}
                /\ carriers' = IF mir'[b].empty THEN carriers \ {b} ELSE carriers \cup {b}

\* The marks name block b, and every block without an IR block.
Announce(S) ==
  /\ announced' = [b \in DOMAIN mir' |->
       IF b \in S \/ b \notin DOMAIN announced THEN mir'[b] ELSE announced[b]]
  /\ UNCHANGED astray

Edit == edits < MaxEdits /\ edits' = edits + 1
Modify(b, c) ==
  /\ Edit /\ (b = 1 => ~c.reads)
  /\ mir' = [mir EXCEPT ![b] = [c EXCEPT !.version = edits + 1, !.succ = mir[b].succ]]
  /\ markDirty(b) /\ Announce({b})
  /\ UNCHANGED <<ir, ErasedBodyBBs, Translator, moved>>

\* createInjectedPayload puts a PATCHPOINT before an instruction of block b and
\* marks nothing.
assignToInject(b) ==
  /\ Edit /\ ~mir[b].empty
  /\ \E r, w \in BOOLEAN :
       mir' = [mir EXCEPT ![b].version = edits + 1, ![b].reads = @ \/ (r /\ b # 1),
                          ![b].writes = @ \/ w]
  /\ Announce({c \in {b} : ~HasBlock(c) \/ c \in DirtyMBBs})
  /\ UNCHANGED <<carriers, ir, DirtyMBBs, ErasedBodyBBs, Translator, moved>>

Connected(m) == \A b \in DOMAIN m : b \in From(m, {1})

\* An edge is added or removed; the source is marked.
Redirect(b, succ) ==
  /\ Edit /\ succ # mir[b].succ
  /\ mir' = [mir EXCEPT ![b].succ = succ]
  /\ Connected(mir')
  /\ markDirty(b) /\ Announce({b})
  /\ UNCHANGED <<ir, ErasedBodyBBs, Translator, moved>>

\* The tail of b becomes a block of its own, which needs no mark; a mark of b
\* moves with the instruction that carries it.
Split(b, n) ==
  /\ Edit /\ n \notin DOMAIN mir /\ ~HasBlock(n) /\ ~mir[b].empty
  /\ mir' = [c \in DOMAIN mir \cup {n} |->
              IF c = b THEN [mir[b] EXCEPT !.succ = {n}, !.version = edits + 1, !.exec = FALSE]
              ELSE IF c = n THEN [mir[b] EXCEPT !.version = edits + 1, !.writes = FALSE]
              ELSE mir[c]]
  /\ DirtyMBBs' = DirtyMBBs \cup {b}
  /\ \E tail \in SUBSET ({n} \cap {c \in {n} : b \in carriers}) :
       carriers' = carriers \cup {b} \cup tail /\ moved' = moved \cup tail
  /\ Announce({b})
  /\ UNCHANGED <<ir, ErasedBodyBBs, Translator>>

\* b is taken out: its predecessors lose the edge, then b is marked and erased.
Erase(b) ==
  LET from == {c \in DOMAIN mir \ {b} : b \in mir[c].succ}
  IN /\ Edit /\ b # 1
     /\ mir' = [c \in DOMAIN mir \ {b} |-> [mir[c] EXCEPT !.succ = @ \ {b}]]
     /\ Connected(mir')
     /\ DirtyMBBs' = (DirtyMBBs \cup from) \ {b}
     /\ carriers' = (carriers \cup {c \in from : ~mir[c].empty}) \ {b}
     /\ ErasedBodyBBs' = ErasedBodyBBs \cup ({b} \cap {c \in {b} : HasBlock(c)})
     /\ Announce(from) /\ moved' = moved \ {b}
     /\ UNCHANGED <<ir, Translator>>

\* The function is written out and read back: what was not in it is gone, and
\* the marks found in it are all that is known to be dirty.  An emptied block
\* had nothing to carry its mark.
scanDirtyMarks ==
  /\ Edit
  /\ DirtyMBBs' = carriers /\ ErasedBodyBBs' = {} /\ Translator' = FALSE
  /\ astray' = (astray \/ \E b \in DirtyMBBs : mir[b].empty)
  /\ UNCHANGED <<mir, carriers, ir, announced, moved>>

Next ==
  \/ flush \/ FlushFails \/ scanDirtyMarks
  \/ \E b \in DOMAIN mir :
       \/ \E c \in Codes : Modify(b, c)
       \/ assignToInject(b) \/ Erase(b)
       \/ \E succ \in SUBSET (DOMAIN mir \ {1}) : Redirect(b, succ)
       \/ \E n \in Names : Split(b, n)

Spec == Init /\ [][Next]_vars

-----------------------------------------------------------------------------
\* What isDirty promises to the readers of the lifted IR: unless it is true,
\* the IR is the one a translation from scratch gives of what was announced,
\* whatever edits, saves and incremental repairs lie behind it.
CleanIsCurrent == (~isDirty /\ ~astray) => ir = translate(announced)

\* The caches that seed the next repair name only values the IR still has.
CachesLive ==
  (Translator /\ ~astray) => \A n \in DOMAIN ir.vm :
    LET v == ir.vm[n]
    IN IF v[1] = "phi" THEN v[2] \in DOMAIN ir.phi
       ELSE v[2] \in DOMAIN ir.code /\ v[3] = ir.code[v[2]].version

\* A mark is cleared with the flush it asked for, so that the instructions
\* lifted since do not carry it on; but one that moved to a block that is not
\* known to be dirty stays.
MarksRetired == ~isDirty => carriers \subseteq moved

\* A flush brings the lifted IR up to date with the machine code by translating
\* the dirty blocks again (TraceFunctionTranslationAnalysis.h, flush).
FlushedIsCurrent == (~isDirty /\ Translator) => ir = translate(announced)
=============================================================================
