--------------------------- MODULE BranchRelaxation ---------------------------
(***************************************************************************)
(* The relaxer of the direct branches of an instrumented function: a       *)
(* branch that no longer reaches its target is replaced by one that adds   *)
(* to the program counter in a pair of scalar registers, found dead or     *)
(* saved in two lanes of the state value array.  It works by rounds over   *)
(* the blocks in the order of the layout, with offsets that are exact only *)
(* between rounds.  The patcher then looks for branches out of range.      *)
(*                                                                         *)
(* A behaviour relaxes one function.  Sizes and offsets are in words of    *)
(* four bytes.  The array is kept in a VGPR, so that its lanes can be      *)
(* written directly, and storage is what else it needs of scalar           *)
(* registers.                                                              *)
(***************************************************************************)
EXTENDS Integers, Sequences, FiniteSets, SequencesExt, FiniteSetsExt, Functions

CONSTANTS
  Fns,             \* the functions relaxed
  SGPRs,           \* the 32-bit scalar registers, a set of numbers from 0
  BranchBits,      \* width of a branch's displacement
  kRelaxIterLimit  \* rounds after which the relaxer gives up

VARIABLES
  fn,      \* the function
  layout,  \* its blocks, in order
  phase,   \* "relax", "check", then "emitted", "failed" or "fatal"
  cur,     \* the block the round is at
  conds,   \* whether its unconditional branch is done with
  changed, \* whether the round changed something
  rounds   \* rounds finished

vars == <<fn, layout, phase, cur, conds, changed, rounds>>

SCC == -1   \* a number like the others
SReg_64 == {r \in SGPRs : r % 2 = 0 /\ r + 1 \in SGPRs}   \* a pair by its first half
Both(pair) == {pair, pair + 1}

-----------------------------------------------------------------------------
(* Blocks.  A block has a number, the words before its terminators, the     *)
(* registers live into it, whether it starts by reloading the fixed pair,   *)
(* and, if the storage locations know it, the storage registers of its last *)
(* segment: segs is {} or a set of one set.  Its terminators are            *)
(*   "cond"   to another block, on the condition or (rev) its opposite;     *)
(*   "br"     to another block; "end" of the program;                       *)
(*   "long"   through a pair of registers, "spill" through the fixed pair,  *)
(*            after it is saved; "addpc" of the targets that have it.       *)

Terminator(op, to, regs) == [op |-> op, to |-> to, regs |-> regs, rev |-> FALSE, keep |-> FALSE]
NewBlock(id, off, term) ==
  [id |-> id, off |-> off, body |-> 0, live |-> {}, reload |-> FALSE, segs |-> {}, term |-> term]

Words == [cond |-> 1, br |-> 1, end |-> 1, long |-> 6, spill |-> 10, addpc |-> 3]

computeBlockSize(b) ==
  b.body + (IF b.reload THEN 4 ELSE 0) + FoldSeq(LAMBDA t, n : n + Words[t.op], 0, b.term)

At(l, id) == SelectInSeq(l, LAMBDA b : b.id = id)
NextId(l) == Len(l) + 1
LastOf(b) == IF b.term = <<>> THEN Terminator("none", 0, {}) ELSE Last(b.term)

FallsThrough(b) == LastOf(b).op \in {"none", "cond"}
Successors(l, i) ==
  {t.to : t \in ToSet(l[i].term)} \cup (IF FallsThrough(l[i]) THEN {l[i + 1].id} ELSE {})
Predecessors(l, id) == {i \in DOMAIN l : id \in Successors(l, i)}

\* Every block's offset from the first's.
adjustBlockOffsets(l) ==
  [i \in DOMAIN l |->
     [l[i] EXCEPT !.off = FoldSeq(LAMBDA b, n : n + computeBlockSize(b), 0, SubSeq(l, 1, i - 1))]]

getInstrOffset(l, i, j) ==
  l[i].off + computeBlockSize([l[i] EXCEPT !.term = SubSeq(@, 1, j - 1)])

\* A displacement counts from the next instruction.
Displacement(l, i, j) == l[At(l, l[i].term[j].to)].off - getInstrOffset(l, i, j) - 1

isBlockInRange(l, i, j) ==
  Displacement(l, i, j) \in -(2 ^ (BranchBits - 1)) .. 2 ^ (BranchBits - 1) - 1

Direct(t) == t.op \in {"cond", "br"}

-----------------------------------------------------------------------------
(* Registers for a long branch.                                             *)

\* The storage of the first block the locations know, going up single predecessors.
RECURSIVE StorageAbove(_, _, _)
StorageAbove(l, i, seen) ==
  LET preds == Predecessors(l, l[i].id)
  IN IF l[i].segs # {} THEN UNION l[i].segs
     ELSE IF Cardinality(preds) # 1 \/ preds \subseteq seen THEN {}
     ELSE StorageAbove(l, CHOOSE p \in preds : TRUE, seen \cup preds)

getSVSReservedRegsAtBranch(l, i) == StorageAbove(l, i, {i})

\* The pairs the scavenger can give: dead where the branch goes.
Pairs(l, i, dest) ==
  {r \in SReg_64 : Both(r) \cap (l[dest].live \cup getSVSReservedRegsAtBranch(l, i)) = {}}

\* The fixed pair is saved by what the branch's own block says of the array.
CanSpill(l, i) == l[i].segs # {} /\ fn.lanes >= 2

-----------------------------------------------------------------------------
(* The two rewrites.                                                        *)

With(l, i, term) == [l EXCEPT ![i].term = term]

\* A block after block i, at the offset that i's size gives.
createNewBlockAfter(l, i, term) ==
  InsertAt(l, i + 1, NewBlock(NextId(l), l[i].off + computeBlockSize(l[i]), term))

\* Block i's branch, its last terminator, moves to a block of its own.
Trampoline(l, i, op, regs) ==
  createNewBlockAfter(With(l, i, Front(l[i].term)), i,
                      <<Terminator(op, Last(l[i].term).to, regs)>>)

\* As SinglePred, were the reload put at the head of the target in any case.
SinglePred_always(l, to) == TRUE

SinglePred(l, to) == Cardinality(Predecessors(l, to)) = 1

\* The reload goes to the head of the target if nothing else leads there; else to
\* a block before it, around which what fell through to the target has to branch.
Reload(l, i, to) ==
  LET d      == At(l, to)
      around == Append(l[d - 1].term, Terminator("br", to, {}))
      before == IF FallsThrough(l[d - 1]) THEN With(l, d - 1, around) ELSE l
      split  == createNewBlockAfter(before, d - 1, <<>>)
      b      == At(split, l[i + 1].id)
  IN IF SinglePred(l, to) THEN [l EXCEPT ![d].reload = TRUE]
     ELSE [split EXCEPT ![d].reload = TRUE, ![b].term[1].to = split[d].id]

\* The new layout, or none.
fixupUnconditionalBranch(l, i) ==
  LET to    == Last(l[i].term).to
      pairs == Pairs(l, i, At(l, to))
  IN IF fn.addpc THEN {Trampoline(l, i, "addpc", {})}
     ELSE IF pairs # {} THEN {Trampoline(l, i, "long", Both(Min(pairs)))}
     ELSE IF CanSpill(l, i) THEN {Reload(Trampoline(l, i, "spill", Both(0)), i, to)}
     ELSE {}

\* The branch goes where the conditional one went; a conditional one on the
\* opposite condition skips it, to a new block if there was a branch after it.
Reversed(l, i) == [l[i].term[1] EXCEPT !.to = l[i + 1].id, !.rev = ~@, !.keep = FALSE]

Skip(l, i, to) == With(l, i, <<Reversed(l, i), Terminator("br", to, {})>>)

fixupConditionalBranch(l, i) ==
  LET to == l[i].term[1].to
  IN IF Len(l[i].term) = 1 THEN Skip(l, i, to)
     ELSE IF l[i].term[2].to = to THEN With(l, i, <<Terminator("br", to, {})>>)
     ELSE Skip(createNewBlockAfter(l, i, <<Terminator("br", l[i].term[2].to, {})>>), i, to)

-----------------------------------------------------------------------------
(* The relaxer.                                                             *)

\* The function, and the live-ins of its blocks from the liveness analysis.
Original(f) ==
  [i \in DOMAIN f.blocks |->
     [NewBlock(i, 0, f.blocks[i].term) EXCEPT !.body = f.blocks[i].body, !.live = f.blocks[i].live,
                                              !.segs = f.blocks[i].segs]]

Init ==
  /\ fn \in Fns
  /\ layout = adjustBlockOffsets(Original(fn))
  /\ phase = "relax" /\ cur = 1 /\ rounds = 0
  /\ conds = FALSE /\ changed = FALSE

Here == At(layout, cur)
Terms == layout[Here].term
TooFar(j) == ~isBlockInRange(layout, Here, j) /\ ~Terms[j].keep

FarUnconditional == LastOf(layout[Here]).op = "br" /\ TooFar(Len(Terms))
FarConditional   == Terms # <<>> /\ Terms[1].op = "cond" /\ TooFar(1)

Unconditional ==
  /\ phase = "relax" /\ ~conds /\ FarUnconditional
  /\ IF fixupUnconditionalBranch(layout, Here) = {}
     THEN phase' = "fatal" /\ UNCHANGED <<layout, conds, changed>>
     ELSE /\ \E l \in fixupUnconditionalBranch(layout, Here) : layout' = l
          /\ conds' = TRUE /\ changed' = TRUE /\ UNCHANGED phase
  /\ UNCHANGED <<fn, cur, rounds>>

Conditional ==
  /\ phase = "relax" /\ (FarUnconditional => conds) /\ FarConditional
  /\ layout' = fixupConditionalBranch(layout, Here)
  /\ conds' = TRUE /\ changed' = TRUE
  /\ UNCHANGED <<fn, phase, cur, rounds>>

DoneHere == (FarUnconditional => conds) /\ ~FarConditional

NextBlock ==
  /\ phase = "relax" /\ DoneHere /\ Here < Len(layout)
  /\ cur' = layout[Here + 1].id /\ conds' = FALSE
  /\ UNCHANGED <<fn, layout, phase, changed, rounds>>

\* As adjusted, were the offsets left as the round has them.
adjusted_not(l) == l

adjusted(l) == adjustBlockOffsets(l)

EndOfRound ==
  /\ phase = "relax" /\ DoneHere /\ Here = Len(layout)
  /\ layout' = IF changed THEN adjusted(layout) ELSE layout
  /\ rounds' = rounds + 1
  /\ phase' = IF changed /\ rounds + 1 < kRelaxIterLimit THEN "relax" ELSE "check"
  /\ cur' = layout[1].id /\ conds' = FALSE /\ changed' = FALSE
  /\ UNCHANGED fn

\* The limit of the check is that of displacements twice as wide.
OverLimit(l, i, j) == Displacement(l, i, j) \notin -(2 ^ BranchBits - 1) .. 2 ^ BranchBits - 1

detectOutOfRangeBranches(l) ==
  {<<i, j>> \in (DOMAIN l) \X {1, 2} :
     j \in DOMAIN l[i].term /\ Direct(l[i].term[j]) /\ OverLimit(l, i, j)}

Check ==
  /\ phase = "check"
  /\ \E far \in {detectOutOfRangeBranches(adjustBlockOffsets(layout))} :
       phase' = IF far = {} THEN "emitted" ELSE "failed"
  /\ UNCHANGED <<fn, layout, cur, conds, changed, rounds>>

Over == phase \in {"emitted", "failed", "fatal"} /\ UNCHANGED vars

Next == Unconditional \/ Conditional \/ NextBlock \/ EndOfRound \/ Check \/ Over
Spec == Init /\ [][Next]_vars

-----------------------------------------------------------------------------
(* Where the emitted code goes.                                             *)

Lifted(id) == id \in DOMAIN fn.blocks

\* A wave that leaves a lifted block: the block it is at, the registers that do
\* not hold what they did, and whether the fixed pair is in the lanes.
Through(w, t) ==
  CASE t.op = "long"  -> [w EXCEPT !.id = t.to, !.lost = @ \cup t.regs \cup {SCC}]
    [] t.op = "spill" -> [w EXCEPT !.id = t.to, !.lost = @ \cup t.regs \cup {SCC}, !.saved = TRUE]
    [] OTHER          -> [w EXCEPT !.id = t.to]

AtHead(w) ==
  IF ~layout[At(layout, w.id)].reload THEN w
  ELSE [w EXCEPT !.lost = IF w.saved THEN @ \ Both(0) ELSE @ \cup Both(0)]

\* Out of the block it is at, when the condition is c.
Leave(w, c) ==
  LET i     == At(layout, w.id)
      taken == SelectSeq(layout[i].term, LAMBDA t : t.op # "cond" \/ t.rev # c)
  IN IF taken = <<>> THEN [w EXCEPT !.id = layout[i + 1].id] ELSE Through(w, taken[1])

RECURSIVE Follow(_, _, _)
Follow(w, c, fuel) ==
  IF Lifted(w.id) \/ fuel = 0 THEN AtHead(w) ELSE Follow(Leave(AtHead(w), c), c, fuel - 1)

Arrives(id, c) ==
  Follow(Leave([id |-> id, lost |-> {}, saved |-> FALSE], c), c, Len(layout))

\* Where the function as it was goes.
GoesTo(id, c) ==
  LET taken == SelectSeq(fn.blocks[id].term, LAMBDA t : t.op # "cond" \/ c)
  IN IF taken = <<>> THEN id + 1 ELSE taken[1].to

Ends(id) == \E t \in ToSet(fn.blocks[id].term) : t.op = "end"

-----------------------------------------------------------------------------
(* Properties.                                                              *)

\* When the patcher accepts a function, each direct branch reaches its target
\* with a displacement of the width the instruction has.  One the relaxer was
\* told to leave alone, and all of them if it gave up, are held to the patcher's
\* own limit, twice as far.
BranchesReach ==
  phase = "emitted" =>
    \A l \in {adjustBlockOffsets(layout)} : \A i \in DOMAIN l : \A j \in DOMAIN l[i].term :
      Direct(l[i].term[j]) =>
        \/ isBlockInRange(l, i, j)
        \/ (l[i].term[j].keep \/ rounds = kRelaxIterLimit) /\ ~OverLimit(l, i, j)

\* What a long branch out of a block may cost: the condition code, which it adds
\* with and nobody looks for behind it, and the array's scalar registers where
\* the locations do not know the block.
Unguarded(id) == {SCC} \cup (IF fn.blocks[id].segs = {} THEN fn.storage ELSE {})

\* Each way out of a block leads where it led before, whatever was put between,
\* and finds the registers that are live there, and those the array is kept in,
\* as the block left them, except those nothing guards.
EdgesKept ==
  phase = "emitted" => \A id \in DOMAIN fn.blocks : ~Ends(id) => \A c \in BOOLEAN :
    \E w \in {Arrives(id, c)} :
      /\ w.id = GoesTo(id, c)
      /\ w.lost \cap (fn.blocks[w.id].live \cup fn.storage) \subseteq Unguarded(id)
=============================================================================
