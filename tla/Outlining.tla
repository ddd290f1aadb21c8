------------------------------ MODULE Outlining ------------------------------
(***************************************************************************)
(* The step of the target module patcher that outlines the injected        *)
(* payloads: the contents of the instrumentation module move to the target *)
(* module, and each PATCHPOINT becomes a call of its payload through two   *)
(* scalar registers that are dead there.  The payload's return is          *)
(* rewritten to go back through the same pair.                             *)
(*                                                                         *)
(* A behaviour patches one program and then runs it: a block of the        *)
(* application's code with the payloads it calls.  Registers are the       *)
(* scalar ones, by number, and SCC, the scalar condition code.             *)
(***************************************************************************)
EXTENDS Integers, Sequences, FiniteSetsExt

CONSTANTS
  SGPRs,      \* the 32-bit scalar registers, a set of numbers from 0
  Programs    \* the programs patched

ASSUME SGPRsAssumption == SGPRs \subseteq Nat

VARIABLES
  prog,      \* the program
  phase,     \* what the patcher does, then "run" or "failed"
  nth,       \* the payload it is at
  scavenged, \* the registers found for each payload so far
  owner,     \* the module each function or variable is in
  mir,       \* the module whose analysis manager has its machine code
  refers,    \* what the code of each of them refers to
  outlined,  \* the payloads whose patch point is a call
  pc,        \* the instruction of the block that is next
  file,      \* what the registers hold
  app,       \* what they would hold without instrumentation
  inside     \* the payload that runs: 0 for none

vars == <<prog, phase, nth, scavenged, owner, mir, refers, outlined, pc, file, app, inside>>

SCC == -1   \* a number like the others
Registers == SGPRs \cup {SCC}
SReg_64 == {r \in SGPRs : r % 2 = 0 /\ r + 1 \in SGPRs}   \* a pair by its first half
Both(pair) == {pair, pair + 1}

-----------------------------------------------------------------------------
(* Programs.  An instruction uses and defines registers.  A patch point has *)
(* the number of its payload, and uses and defines what the payload reads   *)
(* and writes of the application.  The payload's code defines registers of  *)
(* its own, def, and calls helpers that clobber others, calls.  An object   *)
(* is a function or a variable; refs are what its code or initializer       *)
(* refers to, mirRefs what a payload's machine code does; llvm tells the    *)
(* variables that only the compiler reads.                                  *)

Payloads(p) == DOMAIN p.payloads
SiteOf(p, k) == CHOOSE i \in DOMAIN p.code : p.code[i].payload = k

\* The walk over the block from its end, as far as instruction i, with the
\* registers that are live out of it.
LiveBefore(p, i) ==
  LET end == Len(p.code) + 1
      live[j \in 1 .. end] ==
        IF j = end THEN p.liveout ELSE (live[j + 1] \ p.code[j].def) \cup p.code[j].use
  IN live[i]

\* What the walk back from the end of the block has at payload k's patch point:
\* it stops there, without the patch point's own operands.
LiveAtSite(p, k) == LiveBefore(p, SiteOf(p, k) + 1)

\* The registers of the array's storage in the segment around the patch point.
SVAReserved(p, k) == p.code[SiteOf(p, k)].storage

-----------------------------------------------------------------------------
(* Registers for the call.                                                  *)

Free(p, k, rs) == rs \cap (LiveAtSite(p, k) \cup SVAReserved(p, k)) = {}

PairsAtSite(p, k) == {r \in SReg_64 : Free(p, k, Both(r))}

\* As SavesAtSite, were the storage of the array not excluded.
SavesAtSite_storage(p, k, pair) == {r \in SGPRs \ Both(pair) : r \notin LiveAtSite(p, k)}

SavesAtSite(p, k, pair) == {r \in SGPRs \ Both(pair) : Free(p, k, {r})}

\* The first pair, and if the condition code is live, the first register to
\* keep it in; no result if one of them cannot be had.
scavengeSGPRsAtSite(p, k) ==
  LET scc  == SCC \in LiveAtSite(p, k)
      pair == Min(PairsAtSite(p, k))
  IN IF PairsAtSite(p, k) = {} THEN {}
     ELSE IF ~scc THEN {[pair |-> pair, save |-> {}]}
     ELSE {[pair |-> pair, save |-> {s}] :
             s \in {r \in SavesAtSite(p, k, pair) : r = Min(SavesAtSite(p, k, pair))}}

-----------------------------------------------------------------------------
(* The two modules.                                                         *)

Objects(p) == DOMAIN p.objects
Obj(p, o)  == p.objects[o]
IModule(p) == {o \in Objects(p) : Obj(p, o).home = "I"}

\* The target module's declaration of the name and type that o declares.
Existing(p, o) ==
  {e \in Objects(p) : /\ Obj(p, o).kind = "decl" /\ Obj(p, e).home = "T"
                      /\ Obj(p, e).name = Obj(p, o).name /\ Obj(p, e).type = Obj(p, o).type}

Redirected(p) == {o \in IModule(p) : Existing(p, o) # {}}
Moved(p) == {o \in IModule(p) : /\ Obj(p, o).kind # "payload" /\ ~Obj(p, o).llvm
                                /\ o \notin Redirected(p)}

Target(p, o) == IF o \in Redirected(p) THEN CHOOSE e \in Existing(p, o) : TRUE ELSE o

Remapped(p, refs) == {Target(p, o) : o \in refs}

\* The IR of everything in the module follows the redirection; machine code is
\* cloned through the map, and the payloads' is not cloned.
Redirect(p, o) ==
  IF o \in IModule(p) /\ Obj(p, o).kind = "payload"
  THEN Obj(p, o).mirRefs \cup Remapped(p, Obj(p, o).refs)
  ELSE Remapped(p, refers[o])

-----------------------------------------------------------------------------
(* The patcher.                                                             *)

Init ==
  /\ prog \in Programs
  /\ phase = "move" /\ nth = 1 /\ scavenged = <<>> /\ outlined = {}
  /\ owner = [o \in Objects(prog) |-> Obj(prog, o).home]
  /\ mir = [o \in Objects(prog) |-> IF Obj(prog, o).mf THEN Obj(prog, o).home ELSE "none"]
  /\ refers = [o \in Objects(prog) |-> Obj(prog, o).refs]
  /\ pc = 1 /\ inside = 0
  /\ app = [r \in Registers |-> <<"app", r>>]
  /\ file = [r \in Registers |-> <<"app", r>>]

idleWave == UNCHANGED <<pc, file, app, inside>>

\* The machine code of a moved definition is cloned, if there is any.
moveIModuleIntoTarget ==
  /\ phase = "move"
  /\ owner' = [o \in Objects(prog) |-> IF o \in Moved(prog) THEN "T" ELSE owner[o]]
  /\ mir' = [o \in Objects(prog) |->
               IF o \in Moved(prog) /\ mir[o] = "I" THEN "T" ELSE mir[o]]
  /\ refers' = [o \in Objects(prog) |-> Redirect(prog, o)]
  /\ phase' = "scavenge"
  /\ UNCHANGED <<prog, nth, scavenged, outlined>> /\ idleWave

Failed == phase' = "failed" /\ UNCHANGED <<nth, scavenged>>

\* All the registers are found before the first patch point is changed.
Scavenge ==
  /\ phase = "scavenge" /\ nth \in Payloads(prog)
  /\ IF scavengeSGPRsAtSite(prog, nth) = {} THEN Failed
     ELSE /\ \E r \in scavengeSGPRsAtSite(prog, nth) : scavenged' = Append(scavenged, r)
          /\ nth' = nth + 1 /\ UNCHANGED phase
  /\ UNCHANGED <<prog, owner, mir, refers, outlined>> /\ idleWave

Scavenged ==
  /\ phase = "scavenge" /\ nth \notin Payloads(prog)
  /\ phase' = "outline" /\ nth' = 1
  /\ UNCHANGED <<prog, scavenged, owner, mir, refers, outlined>> /\ idleWave

Regs(k)  == scavenged[k]
PairOf(k) == Both(Regs(k).pair)

\* What instructions of the payload define: a helper's clobbers are no definitions
\* of the instruction that calls it, what is written to the application is one.
Defined(p, k) == p.payloads[k].def \cup p.code[SiteOf(p, k)].def

ScavClobbered(k) == PairOf(k) \cap Defined(prog, k) # {}

\* The return uses what the payload restores: what is live at the patch point.
TrampolineSaves(p, k, pair) == SGPRs \ (Both(pair) \cup LiveAtSite(p, k))

\* A return can be rewritten if it is the one expected and, where the condition
\* code has to be kept, a register is left for it.
Rewritable(k) ==
  /\ prog.payloads[k].setpc
  /\ ScavClobbered(k) /\ Regs(k).save # {} => TrampolineSaves(prog, k, Regs(k).pair) # {}

PayloadObject(k) == CHOOSE o \in Objects(prog) : Obj(prog, o).payload = k

\* The call replaces the patch point; the payload and its machine code move; its
\* returns are rewritten, which fails if one is not the expected instruction.
Outline ==
  /\ phase = "outline" /\ nth \in Payloads(prog)
  /\ IF mir[PayloadObject(nth)] # "I"
     THEN Failed /\ UNCHANGED <<owner, mir, outlined>>
     ELSE /\ outlined' = outlined \cup {nth}
          /\ owner' = [owner EXCEPT ![PayloadObject(nth)] = "T"]
          /\ mir' = [mir EXCEPT ![PayloadObject(nth)] = "T"]
          /\ IF Rewritable(nth) THEN nth' = nth + 1 /\ UNCHANGED <<phase, scavenged>>
             ELSE Failed
  /\ UNCHANGED <<prog, refers>> /\ idleWave

Launch ==
  /\ phase = "outline" /\ nth \notin Payloads(prog)
  /\ phase' = "run"
  /\ UNCHANGED <<prog, nth, scavenged, owner, mir, refers, outlined>> /\ idleWave

-----------------------------------------------------------------------------
(* The code that is emitted.                                                *)

After(k)  == <<"after", k>>    \* the address at which payload k's caller goes on
Callee(k) == <<"payload", k>>
Junk      == <<"junk">>

Set(f, rs, x) == [r \in Registers |-> IF r \in rs THEN x ELSE f[r]]

\* The address goes into the pair by additions, which overwrite the condition
\* code; it is kept around them if it is live.
emitSICallAtPatchpoint(f, k) ==
  LET saved  == Set(f, Regs(k).save, f[SCC])
      called == Set(Set(saved, PairOf(k), Callee(k)), {SCC}, Junk)
      swap   == Set(called, PairOf(k), After(k))
  IN IF Regs(k).save = {} THEN swap
     ELSE Set(swap, {SCC}, saved[Max(Regs(k).save)])

\* If the payload uses the pair, its return computes the address again, with the
\* condition code kept in another register if it was live at the patch point.
rewritePayloadReturn(f, k) ==
  IF ~ScavClobbered(k) THEN f
  ELSE IF Regs(k).save = {} THEN Set(Set(f, PairOf(k), After(k)), {SCC}, Junk)
  ELSE LET tramp == Min(TrampolineSaves(prog, k, Regs(k).pair))
       IN Set(Set(f, {tramp}, f[SCC]), PairOf(k), After(k))

-----------------------------------------------------------------------------
(* The wave.                                                                *)

idlePatcher == UNCHANGED <<prog, phase, nth, scavenged, owner, mir, refers, outlined>>
Running == phase = "run" /\ pc \in DOMAIN prog.code
At == prog.code[pc]

\* What the instruction, or the payload at the patch point, writes.
Written(f) == Set(f, At.def, <<"new", pc>>)

\* An instruction of the application gives both register files the same values.
Straight ==
  /\ Running /\ At.payload = 0
  /\ file' = Written(file) /\ app' = Written(app)
  /\ pc' = pc + 1
  /\ UNCHANGED inside /\ idlePatcher

Call ==
  /\ Running /\ At.payload # 0 /\ inside = 0
  /\ file' = emitSICallAtPatchpoint(file, At.payload)
  /\ inside' = At.payload
  /\ UNCHANGED <<pc, app>> /\ idlePatcher

\* The payload overwrites registers, restores the live ones, writes those it is
\* to write, and returns to the address in the pair.
AtReturn(f, k) ==
  LET over == prog.payloads[k].def \cup prog.payloads[k].calls \cup {SCC}
  IN Written(Set(f, over \ LiveAtSite(prog, k), Junk))

\* The counter is 0 when the pair does not have the address behind the call.
Return ==
  /\ Running /\ inside # 0
  /\ file' = rewritePayloadReturn(AtReturn(file, inside), inside)
  /\ pc' = IF \A r \in PairOf(inside) : file'[r] = After(inside)
           THEN SiteOf(prog, inside) + 1 ELSE 0
  /\ inside' = 0 /\ app' = Written(app)
  /\ idlePatcher

Over == (phase = "failed" \/ (phase = "run" /\ pc \notin DOMAIN prog.code)) /\ UNCHANGED vars

Next == moveIModuleIntoTarget \/ Scavenge \/ Scavenged \/ Outline \/ Launch
        \/ Straight \/ Call \/ Return \/ Over
Spec == Init /\ [][Next]_vars

-----------------------------------------------------------------------------
(* What the passes before see to.                                           *)

\* Each patch point has a payload of its own, and each payload a patch point.
PatchPointsMatch(p) ==
  /\ {p.code[i].payload : i \in DOMAIN p.code} \ {0} = Payloads(p)
  /\ \A i, j \in DOMAIN p.code :
       p.code[i].payload = p.code[j].payload /\ p.code[i].payload # 0 => i = j

\* The array does not move at a patch point: where it is kept later on, it is kept
\* there already, or an instruction in between moves it there.
KeptInPlace(p) ==
  \A k \in Payloads(p) : \A j \in SiteOf(p, k) + 1 .. Len(p.code) :
    \A r \in p.code[j].storage \ SVAReserved(p, k) :
      \E m \in SiteOf(p, k) + 1 .. j - 1 : r \in p.code[m].def

\* An object refers to objects of its own module, and to none of the variables
\* that only the compiler reads; each payload has its function.
ModulesMatch(p) ==
  /\ \A o \in Objects(p) : \A x \in Obj(p, o).refs \cup Obj(p, o).mirRefs :
       x \in Objects(p) /\ Obj(p, x).home = Obj(p, o).home /\ ~Obj(p, x).llvm
  /\ \A k \in Payloads(p) : \E o \in IModule(p) : Obj(p, o).payload = k
  /\ \A o \in Objects(p) :
       IF Obj(p, o).kind = "payload"
       THEN /\ Obj(p, o).home = "I" /\ Obj(p, o).payload \in Payloads(p)
            /\ \A x \in Objects(p) : Obj(p, x).payload = Obj(p, o).payload => x = o
       ELSE Obj(p, o).payload = 0

IsProgram(p) ==
  /\ p.code \in Seq([use : SUBSET Registers, def : SUBSET Registers,
                     payload : Nat, storage : SUBSET SGPRs])
  /\ p.liveout \subseteq Registers
  /\ p.payloads \in Seq([def : SUBSET Registers, calls : SUBSET Registers, setpc : BOOLEAN])
  /\ \A o \in Objects(p) : Obj(p, o).home \in {"T", "I"}
  /\ PatchPointsMatch(p) /\ KeptInPlace(p) /\ ModulesMatch(p)

ASSUME ProgramsAssumption == \A p \in Programs : IsProgram(p)

-----------------------------------------------------------------------------
(* What the passes before leave to chance: programs for which the patcher's *)
(* code is not transparent.                                                 *)

Regular(p, k, r) ==
  \* a payload's use of the array's storage for itself
  /\ SVAReserved(p, k) \cap (p.payloads[k].def \cup p.payloads[k].calls) = {}
  \* a helper's clobbers of the pair, with no definition of it beside them
  /\ Both(r.pair) \cap p.payloads[k].calls # {} => Both(r.pair) \cap Defined(p, k) # {}
  \* the condition code kept at the return in the array's storage
  /\ \/ r.save = {} \/ Both(r.pair) \cap Defined(p, k) = {}
     \/ TrampolineSaves(p, k, r.pair) = {}
     \/ Min(TrampolineSaves(p, k, r.pair)) \notin SVAReserved(p, k)

IsRegular(p) ==
  /\ \A k \in Payloads(p) : \A r \in scavengeSGPRsAtSite(p, k) : Regular(p, k, r)
  \* a payload's machine code that refers to a declaration both modules have
  /\ \A o \in IModule(p) : Obj(p, o).kind = "payload" => Obj(p, o).mirRefs \cap Redirected(p) = {}

-----------------------------------------------------------------------------
(* Properties.                                                              *)

\* A payload's return goes to the instruction after the patch point it was
\* called from, whatever the payload did with the pair the call left the
\* address in.
ReturnsHome == phase = "run" /\ inside = 0 => pc # 0

\* What the call of payload k overwrites: the pair, and the condition code or the
\* register it is kept in.  All of it is dead behind the patch point, but a payload
\* may read it: the walk back stops before the patch point's own operands.
Taken(k) == PairOf(k) \cup (IF Regs(k).save = {} THEN {SCC} ELSE Regs(k).save)

\* Each instruction of the application, and each payload, finds in the registers
\* it reads what the application put there, and in those the array is kept in
\* what the hand-offs put there; the code after the block finds the live ones.
\* Only a payload does not find what its own call took.
AppUndisturbed ==
  /\ Running => \A r \in At.use \cup At.storage :
       file[r] = app[r] \/ (inside # 0 /\ r \in At.use \cap Taken(inside))
  /\ phase = "run" /\ pc > Len(prog.code) => \A r \in prog.liveout : file[r] = app[r]

\* When the patcher is done, nothing in the target module refers to an object of
\* the instrumentation module, and each definition that has machine code has it
\* where the printer of the target module looks for it.
SelfContained ==
  phase = "run" => \A o \in Objects(prog) : owner[o] = "T" =>
    /\ \A x \in refers[o] : owner[x] = "T"
    /\ mir[o] \in {"T", "none"}

\* Payloads are outlined so that the application cannot tell: control comes back,
\* the registers are as it left them, and the module is complete.
OutliningSound == ReturnsHome /\ AppUndisturbed /\ SelfContained
=============================================================================
