--------------------------- MODULE MCTranslation ---------------------------
(***************************************************************************)
(* The three parts of the trace function translator, one at a time: the    *)
(* maps from registers to values (Translator), the register files          *)
(* (RegisterFile, extended through its instance) and the re-translation of *)
(* edited blocks (Retranslation).  Variables that a part does not have     *)
(* stay "idle".                                                            *)
(***************************************************************************)
EXTENDS MCRegisterFile

VARIABLES
  part,  \* "translator", "registers" or "retranslation"
  mf, current, held, left, tofix, phis, mask, skipped,    \* of Translator
  mir, carriers, ir, DirtyMBBs, ErasedBodyBBs, Translator, edits,
  announced, astray, moved \* of Retranslation

-----------------------------------------------------------------------------
(* Two dwords of scalar registers, readable as a pair, and a 32-bit EXEC    *)
(* mask, or one dword and a 64-bit mask; shapes of control flow, one with   *)
(* a loop whose body is laid out before its test, and some choices of the   *)
(* vector blocks.                                                           *)

CONSTANT TranslatorOps

Halves(o, l) == [off |-> o, len |-> l]
Function(s, v) ==
  [succ |-> s, vector |-> v, device |-> FALSE, exec |-> Halves(4, 2), preloaded |-> {Halves(0, 4)},
   keys |-> {Halves(0, 2), Halves(2, 2), Halves(0, 4), Halves(4, 2)}]
Wave64(f) ==
  [f EXCEPT !.exec = Halves(2, 4), !.preloaded = {Halves(0, 2)},
            !.keys = {Halves(0, 2), Halves(2, 2), Halves(2, 4)}]
Device(f) == [f EXCEPT !.device = TRUE]
Diamond(v) == Function(<<{2, 3}, {3}, {}>>, v)
Loop(v) == Function(<<{2}, {2, 3}, {}>>, v)
LongLoop(v) == Function(<<{2}, {3}, {2}>>, v)
Rotated(v) == Function(<<{3}, {3}, {2}>>, v)
SmallCfgs == {Device(Loop({3})), Diamond({2}), Diamond({3}), Diamond({}), Loop({2, 3}),
              Loop({2}), LongLoop({3}), Rotated({2}), Rotated({3}),
              Diamond({1}), Device(Wave64(Loop({1}))), Wave64(Loop({1, 3}))}

Maps == INSTANCE Translator
          WITH Size <- 6, Allocated <- 6, Cfgs <- SmallCfgs, MaxOps <- TranslatorOps
ASSUME Maps!TranslatorAssumption

-----------------------------------------------------------------------------
(* Three blocks behind one another, a diamond whose far side is a vector    *)
(* block behind a write of EXEC, and a loop; one name is left for a split.  *)

CONSTANTS MaxEdits

Block(r, w, e, v, s) == [version |-> 0, empty |-> FALSE, reads |-> r, writes |-> w,
                         exec |-> e, vector |-> v, succ |-> s]
Y == TRUE
N == FALSE
SmallFunctions == {
  <<Block(N, Y, N, N, {2}), Block(Y, N, N, N, {3}), Block(Y, Y, N, N, {})>>,
  <<Block(N, Y, Y, N, {2, 3}), Block(Y, Y, N, Y, {3}), Block(Y, N, N, N, {})>>,
  <<Block(N, Y, N, N, {2}), Block(Y, Y, Y, N, {2, 3}), Block(Y, N, N, Y, {})>>}
EditedTo == {Block(Y, N, N, N, {}), Block(N, Y, N, N, {}), Block(Y, Y, N, N, {}),
             Block(Y, Y, N, Y, {}), Block(N, Y, Y, N, {}),
             [Block(N, N, N, N, {}) EXCEPT !.empty = TRUE]}

Edits == INSTANCE Retranslation
           WITH Names <- 1 .. 4, Functions <- SmallFunctions, Codes <- EditedTo
ASSUME Edits!RetranslationAssumption

-----------------------------------------------------------------------------
ofMaps == <<mf, current, held, left, tofix, phis, mask, skipped>>
ofFiles == <<K, attrs, info, printed, layout, regs, pending, device, mixed>>
ofEdits == <<mir, carriers, ir, DirtyMBBs, ErasedBodyBBs, Translator, edits,
             announced, astray, moved>>
ofBoth == <<VM, stage, ops>>
Idle == "idle"
IdleMaps == /\ mf = Idle /\ current = Idle /\ held = Idle /\ left = Idle /\ tofix = Idle
            /\ phis = Idle /\ mask = Idle /\ skipped = Idle
IdleFiles == /\ K = Idle /\ attrs = Idle /\ info = Idle /\ printed = Idle
             /\ layout = Idle /\ regs = Idle /\ pending = Idle /\ device = Idle
             /\ mixed = Idle
IdleEdits == /\ mir = Idle /\ carriers = Idle /\ ir = Idle /\ DirtyMBBs = Idle
             /\ ErasedBodyBBs = Idle /\ Translator = Idle /\ edits = Idle
             /\ announced = Idle /\ astray = Idle /\ moved = Idle

PartsInit ==
  \/ part = "translator" /\ Maps!Init /\ IdleFiles /\ IdleEdits
  \/ part = "registers" /\ Init /\ IdleMaps /\ IdleEdits
  \/ /\ part = "retranslation" /\ Edits!Init /\ IdleMaps /\ IdleFiles
     /\ VM = Idle /\ stage = Idle /\ ops = Idle

PartsNext ==
  \/ part = "translator" /\ Maps!Next /\ UNCHANGED <<part, ofFiles, ofEdits>>
  \/ part = "registers" /\ Next /\ UNCHANGED <<part, ofMaps, ofEdits>>
  \/ part = "retranslation" /\ Edits!Next /\ UNCHANGED <<part, ofMaps, ofFiles, ofBoth>>

PartsSpec == PartsInit /\ [][PartsNext]_<<part, ofMaps, ofFiles, ofEdits, ofBoth>>

-----------------------------------------------------------------------------
(* The properties of the parts; each is stated in the part's own module.   *)

\* Every value the map gives for a register, under any key that covers it, is
\* what the instructions raised so far left in it.
MapSound == part = "translator" => Maps!MapSound

\* A PHI that was fixed up has one incoming value per predecessor, bypasses
\* included, and it is what the register holds where that one ends.
PhisSound == part = "translator" => Maps!PhisSound

\* The comments of materializeFromOverlapping: a register that nothing has written
\* is made up, as poison, in the entry block.
PoisonOnlyAtEntry == part = "translator" => Maps!PoisonOnlyAtEntry

\* A bypass is dropped only if every lane is active there.
FoldSound == part = "translator" => Maps!FoldSound

\* Each register the code may name has a key of its own, and is raised to what
\* the hardware has in it.
RaisedRegisters == part = "registers" => KeysAreRegisters /\ RaisedIsExecuted

\* Unless isDirty, the lifted IR is the one a translation from scratch gives and no
\* mark is left behind, and the caches that seed the next repair name only values
\* the IR still has.
CleanIsCurrent ==
  part = "retranslation" => Edits!CleanIsCurrent /\ Edits!MarksRetired /\ Edits!CachesLive
=============================================================================
