---------------------------- MODULE RegisterFile ----------------------------
(***************************************************************************)
(* The register files of TraceFunctionTranslator: how a register of LLVM   *)
(* becomes a key (a file, an offset and a length in half-words), what the  *)
(* files hold when a lifted kernel starts, the accesses whose register is  *)
(* only known at run time, and what a call hands to a lifted device        *)
(* function.  The lifted kernel and its SIMachineFunctionInfo are those of *)
(* KernelEntry, whose kernels have three more fields here:                 *)
(*   st.wave64, st.mai : the wave size, and whether there are AGPRs        *)
(*   sgprs, vgprs      : the registers the descriptor allocates            *)
(*   offset            : where in its arguments the preloaded ones begin   *)
(* How Translator keeps the map of a block is abstracted here to what the  *)
(* keys say of one double-word; a double-word is the set of bit fields     *)
(* that are or-ed in it, {} being zero.                                    *)
(***************************************************************************)
EXTENDS KernelEntry

CONSTANTS
  NamedRegisters(_), \* the registers code for a kernel's target may name
  MovePairs(_),      \* <<destination, source>> of its moves
  Indices,           \* the indices it puts in M0
  MaxOps             \* the instructions of one run

VARIABLES
  layout,   \* RegFileSize, and the pairs reserved at the top of the SGPRs
  VM,       \* the register values of the block: records [key, val]
  regs,     \* what the hardware has in each double-word
  pending,  \* the calls of s_setreg left for foldHwregIntrinsics
  device,   \* a device function is being raised
  mixed,    \* history: the double-words whose value was lost, see below
  ops

fileVars == <<layout, VM, regs, pending, device, mixed, ops>>
vars == <<entryVars, fileVars>>

Unknown == {<<"unknown">>}
st == K.st

-----------------------------------------------------------------------------
(* The registers of LLVM.                                                    *)

\* The double-words from the i-th of a group on, and one half of a double-word.
Reg(group, i, n) == [reg |-> group, i |-> i, half |-> 0, len |-> 2 * n]
HalfOf(group, i, half) == [reg |-> group, i |-> i, half |-> half, len |-> 1]
MODE == Reg("mode", 0, 1)
M0   == Reg("m0", 0, 1)
EXEC == Reg("exec", 0, IF st.wave64 THEN 2 ELSE 1)
VCC  == Reg("vcc", 0, IF st.wave64 THEN 2 ELSE 1)
SCC  == Reg("scc", 0, 1)

\* TRI.getEncodingValue of the first register of a group.
Encoding(group) ==
  CASE group \in {"s", "v", "a"} -> 0
    [] group = "flat_scr" -> 102 [] group = "xnack_mask" -> 104 [] group = "vcc" -> 106
    [] group = "ttmp" -> 108
    [] group = "m0" -> IF st.gen >= 11 THEN 125 ELSE 124
    [] group = "null" -> IF st.gen >= 11 THEN 124 ELSE 125
    [] group = "exec" -> 126
    [] group = "shared_base" -> 235 [] group = "shared_limit" -> 236
    [] group = "private_base" -> 237
    [] group = "vccz" -> 251 [] group = "execz" -> 252 [] group = "scc" -> 253

\* Up to GFX9 three of the groups are the topmost allocated scalar registers.
Aliases == IF st.gen < 10 THEN {"vcc", "xnack_mask", "flat_scr"} ELSE {}
Top(group) == K.sgprs - (CASE group = "vcc" -> 2 [] group = "xnack_mask" -> 4 [] OTHER -> 6)
Physical(r, d) ==
  IF r.reg \in Aliases THEN <<"s", Top(r.reg) + r.i + d>> ELSE <<r.reg, r.i + d>>
Words(r) == 0 .. (r.len + 1) \div 2 - 1

-----------------------------------------------------------------------------
(* The layout.                                                              *)

getRegisterFileArgOrder ==
  <<"s", "ttmp", "exec">> \o (IF st.gen < 9 THEN <<"aperture">> ELSE <<>>)
    \o <<"vccz", "v">> \o (IF st.mai THEN <<"a">> ELSE <<>>)

computeRegFileSizes(sgprs, vgprs) ==
  [file \in {"s", "ttmp", "exec", "vccz", "aperture", "v", "a", "mode"} |->
    CASE file = "s" -> 2 * sgprs
      [] file = "ttmp" -> 2 * 16
      [] file = "exec" -> 2 * 4
      [] file = "vccz" -> 6
      [] file = "aperture" -> IF st.gen < 9 THEN 0 ELSE IF st.gen \in {9, 10} THEN 10 ELSE 8
      [] file = "v" -> 2 * vgprs
      [] file = "a" -> IF st.mai THEN 2 * vgprs ELSE 0
      [] file = "mode" -> 128]

\* amdgpu-num-sgpr: what the descriptor allocates, or all of them and VCC.
NumSGPRs == IF st.gen < 10 THEN K.sgprs ELSE 106 + 2

\* Pairs from the top down, as long as there are registers.
ReservedPairs(sgprs) ==
  LET order == <<"vcc">> \o (IF st.gen < 10 THEN <<"xnack_mask", "flat_scr">> ELSE <<>>)
  IN [group \in {order[n] : n \in {m \in DOMAIN order : sgprs >= 2 * m}} |->
       sgprs - 2 * (CHOOSE n \in DOMAIN order : order[n] = group)]

initRegFileLayouts ==
  /\ stage = "lifted"
  /\ layout' = [size |-> computeRegFileSizes(NumSGPRs, K.vgprs), pairs |-> ReservedPairs(NumSGPRs)]
  /\ stage' = IF NumSGPRs = 0 \/ K.vgprs = 0 THEN "failed" ELSE "laid out"
  /\ UNCHANGED <<K, attrs, info, printed, VM, regs, pending, device, mixed, ops>>

-----------------------------------------------------------------------------
(* The key of a register.                                                   *)

\* The register the encodings of each special file start at.
ExecBase == IF st.gen < 10 THEN Encoding("m0") ELSE Encoding("null")
FileBase(file) ==
  CASE file = "vccz" -> Encoding("vccz") [] file = "exec" -> ExecBase
    [] file = "ttmp" -> Encoding("ttmp") [] file = "aperture" -> Encoding("shared_base")
    [] OTHER -> 0

SpecialFile(index) ==
  CASE index \in Encoding("vccz") .. Encoding("vccz") + 5 -> "vccz"
    [] index \in ExecBase .. ExecBase + 3 -> "exec"
    [] index \in Encoding("ttmp") .. Encoding("ttmp") + 15 -> "ttmp"
    [] st.gen >= 9 /\ index \in Encoding("shared_base")
                               .. Encoding("shared_base") + layout.size["aperture"] \div 2 - 1
         -> "aperture"
    [] OTHER -> "none"

\* Whatever overlaps an aliased pair gets the index of the pair, or that of SGPR0
\* when the pair has not been reserved.
HwIdx(r) ==
  IF r.reg \in Aliases
  THEN IF r.reg \in DOMAIN layout.pairs THEN layout.pairs[r.reg] ELSE 0
  ELSE Encoding(r.reg) + r.i

getRegFileKey(r) ==
  IF r.reg = "mode" THEN [file |-> "mode", off |-> 0, len |-> 2]
  ELSE LET index == HwIdx(r)
           file == IF r.reg \in {"v", "a"} THEN r.reg
                   ELSE IF index < layout.size["s"] \div 2 THEN "s" ELSE SpecialFile(index)
       IN [file |-> file, off |-> 2 * (index - FileBase(file)) + r.half, len |-> r.len]

\* The registers without a key of their own: the high half of an aliased pair, when
\* it is named alone, has the key of the low half; the apertures are 64 bits wide
\* but their encodings follow one another; and M0 is in no file on GFX10.
HighHalf(r) == r.reg \in Aliases /\ r.i = 1
NoFile(r) == r.reg = "m0" /\ st.gen = 10
Odd(r) == HighHalf(r) \/ NoFile(r) \/ (r.reg \in {"shared_base", "shared_limit"} /\ r.len > 2)

-----------------------------------------------------------------------------
(* The values that get lost.  A double-word is in mixed when what it was    *)
(* raised to goes back to the high half of an aliased pair, to two values   *)
(* it was seeded with, or to MODE where that is not known: in a device      *)
(* function, which it is not handed to, and behind an S_SETREG, which is    *)
(* folded too late; <<"index mode", 0>> is the bit of MODE that enables the *)
(* index mode.  What reads such a value is mixed up as well.                *)

IndexMode == <<"index mode", 0>>
Mode == {<<"mode", 0>>, IndexMode}

MixedIn(r) == {d \in Words(r) : HighHalf(r) \/ Physical(r, d) \in mixed}

\* After a write of r whose double-words in lost are no longer right.
MixedBy(r, lost) ==
  (mixed \ {Physical(r, d) : d \in Words(r)}) \cup {Physical(r, d) : d \in lost}
    \cup (IF HighHalf(r) THEN {Physical(r, 0), Physical([r EXCEPT !.i = 0], 0)} ELSE {})

-----------------------------------------------------------------------------
(* The map of a block.                                                      *)

Within(key, e) == e.key.file = key.file /\ key.off >= e.key.off
                                        /\ key.off < e.key.off + e.key.len
WordKey(key, d) == [file |-> key.file, off |-> key.off + 2 * d, len |-> 2]
DWords(key) == 0 .. key.len \div 2 - 1

\* What the entries of a map say a double-word is; nothing is known of one
\* that no entry has.
Contents(m, key) ==
  LET es == {e \in m : Within(key, e)}
  IN IF es = {} THEN {Unknown} ELSE {e.val[(key.off - e.key.off) \div 2 + 1] : e \in es}

getOperandAsValue(m, key) ==
  [d \in 1 .. key.len \div 2 |-> CHOOSE c \in Contents(m, WordKey(key, d - 1)) : TRUE]

\* A write past the end of the file is dropped; of an entry it overlaps the
\* rest is kept.
setRegOperandValue(m, key, val) ==
  LET overlaps(e) == /\ e.key.file = key.file
                     /\ e.key.off < key.off + key.len /\ key.off < e.key.off + e.key.len
      rest == UNION {{[key |-> WordKey(e.key, d), val |-> <<e.val[d + 1]>>] : d \in DWords(e.key)} :
                       e \in {e \in m : overlaps(e)}}
  IN IF key.off + key.len > layout.size[key.file] THEN m
     ELSE {e \in m : ~overlaps(e)} \cup {e \in rest : ~overlaps(e)} \cup {[key |-> key, val |-> val]}

\* At the entry values are only put in, whatever else overlaps their key.
seedRegValue(m, seed) ==
  {e \in m : e.key # getRegFileKey(seed.reg)}
    \cup {[key |-> getRegFileKey(seed.reg), val |-> seed.val]}

-----------------------------------------------------------------------------
(* The entry of a kernel.                                                   *)

Seed(r, val) == [reg |-> r, val |-> val]

\* Values without an intrinsic are unknown.
Intrinsic(c) ==
  [d \in 1 .. Registers(c) |->
    IF c \in {"psb", "flat_scratch", "pss", "wginfo", "pswo"} THEN Unknown ELSE {<<c, d - 1>>}]

Preloads(order) ==
  LET cs == InOrder(order, DOMAIN info.at)
  IN [i \in DOMAIN cs |-> Seed(Reg("s", info.at[cs[i]], Registers(cs[i])), Intrinsic(cs[i]))]

\* The preloaded arguments are counted as user registers, the last of them.
KernelArguments ==
  [i \in 1 .. info.preload |->
    Seed(Reg("s", info.user - info.preload + i - 1, 1), <<{<<"argument", K.offset + i - 1>>}>>)]

\* The identifiers of the workgroup, where they are architected.
Architected ==
  IF ~st.archsgprs THEN <<>>
  ELSE LET y == IF "wgy" \in info.sys THEN {<<"wgy", 0>>} ELSE {}
           z == IF "wgz" \in info.sys THEN {<<"wgz", 16>>} ELSE {}
       IN (IF "wgx" \in info.sys THEN <<Seed(Reg("ttmp", 9, 1), <<{<<"wgx", 0>>}>>)>> ELSE <<>>)
          \o (IF y \cup z # {} THEN <<Seed(Reg("ttmp", 7, 1), <<y \cup z>>)>> ELSE <<>>)

\* Work-item identifiers: fields of v0, or v0, v1 and v2.
Dimensions == <<"wix", "wiy", "wiz">>
WorkItems(highest) ==
  IF st.packed
  THEN <<Seed(Reg("v", 0, 1), <<{<<Dimensions[d], 10 * (d - 1)>> : d \in 1 .. highest + 1}>>)>>
  ELSE [d \in 1 .. highest + 1 |-> Seed(Reg("v", d - 1, 1), <<{<<Dimensions[d], 0>>}>>)]

decodeDenormAttr(modes) ==
  LET in == modes[2] = "preserve-sign"
      out == modes[1] = "preserve-sign"
  IN CASE in /\ out -> 0 [] ~in /\ out -> 1 [] in /\ ~out -> 2 [] OTHER -> 3

\* Rounding is to the nearest; from GFX12 on two of the modes are elsewhere.
buildInitialModeValue ==
  {<<"denorm", decodeDenormAttr(a[2])>> : a \in {a \in attrs : a[1] = "denormal-fp-math-f32"}}
    \cup (IF st.gen >= 12 THEN {} ELSE {a \in attrs : a[1] = "true"})

AllOnes == {<<"lanes">>}
Specials ==
  <<Seed(EXEC, [d \in 1 .. EXEC.len \div 2 |-> AllOnes]), Seed(SCC, <<{}>>),
    Seed(MODE, <<buildInitialModeValue>>), Seed(VCC, [d \in 1 .. VCC.len \div 2 |-> {}])>>

\* What the hardware has: the values of the descriptor, and what it sets up.
Hardware ==
  LET d == Original(K)
      loaded == Loaded(d)
      seeds == <<Seed(EXEC, [i \in 1 .. EXEC.len \div 2 |-> AllOnes]), Seed(SCC, <<{}>>),
                 Seed(MODE, <<{<<"denorm", K.denorm>>} \cup {<<"true", m>> : m \in K.modes}
                              \cup {<<"round", b>> : b \in K.bits \cap {"float_round_mode_32"}}>>)>>
               \o WorkItems(K.workitem)
               \o [i \in 1 .. K.preload |->
                    Seed(Reg("s", PreloadedAt(d) + i - 1, 1), <<{<<"argument", K.offset + i - 1>>}>>)]
               \o (IF ~st.archsgprs THEN <<>>
                   ELSE SelectSeq(
                     <<Seed(Reg("ttmp", 9, 1), <<{<<wg, 0>> : wg \in K.system \cap {"wgx"}}>>),
                       Seed(Reg("ttmp", 7, 1), <<{<<wg, IF wg = "wgz" THEN 16 ELSE 0>> :
                                                    wg \in K.system \cap {"wgy", "wgz"}}>>)>>,
                     LAMBDA s : s.val # <<{}>>))
      held == FoldLeft(LAMBDA f, s : [w \in {Physical(s.reg, i) : i \in Words(s.reg)} |->
                                        s.val[w[2] - Physical(s.reg, 0)[2] + 1]] @@ f, <<>>, seeds)
  IN [w \in UNION {{Physical(r, i) : i \in Words(r)} : r \in NamedRegisters(K)} |->
       IF w \in DOMAIN held THEN held[w]
       ELSE LET cs == {c \in DOMAIN loaded : /\ w[1] = "s" /\ w[2] >= loaded[c]
                                             /\ w[2] < loaded[c] + Registers(c)}
            IN IF cs = {} THEN Unknown
               ELSE Intrinsic(CHOOSE c \in cs : TRUE)[w[2] - loaded[CHOOSE c \in cs : TRUE] + 1]]

\* The user values, the arguments, the system values, and then the rest.
initKernelEntryRegs ==
  /\ stage = "laid out"
  /\ VM' = FoldLeft(seedRegValue, {},
             Preloads(UserClasses) \o KernelArguments \o Preloads(SystemClasses)
               \o Architected \o WorkItems(info.workitem) \o Specials)
  /\ regs' = Hardware
  /\ mixed' = {w \in DOMAIN Hardware : /\ w[1] = "s" /\ 2 * w[2] < layout.size["s"]
                                       /\ Cardinality(Contents(VM', getRegFileKey(Reg("s", w[2], 1)))) > 1}
  /\ stage' = "body"
  /\ UNCHANGED <<K, attrs, info, printed, layout, pending, device, ops>>

-----------------------------------------------------------------------------
(* The instructions.  Each is raised, and executed by the hardware.         *)

Value(r) == getOperandAsValue(VM, getRegFileKey(r))
Holds(r) == [d \in 1 .. r.len \div 2 |-> regs[Physical(r, d - 1)]]
Execute(r, val) ==
  regs' = [w \in {Physical(r, i) : i \in Words(r)} |-> val[w[2] - Physical(r, 0)[2] + 1]] @@ regs

Instruction ==
  /\ stage = "body" /\ ops < MaxOps /\ ops' = ops + 1
  /\ UNCHANGED <<entryVars, layout, device>>

Move ==
  \E p \in {p \in MovePairs(K) : st.gen = 9 => p[1].reg # "v"} :
    /\ Instruction
    /\ VM' = setRegOperandValue(VM, getRegFileKey(p[1]), Value(p[2]))
    /\ Execute(p[1], Holds(p[2]))
    /\ mixed' = MixedBy(p[1], MixedIn(p[2]))
    /\ UNCHANGED pending

\* An index gets to M0.
MoveIndex ==
  \E n \in Indices :
    /\ Instruction /\ ~NoFile(M0)
    /\ VM' = setRegOperandValue(VM, getRegFileKey(M0), <<{<<"index", n>>}>>)
    /\ Execute(M0, <<{<<"index", n>>}>>)
    /\ mixed' = MixedBy(M0, {})
    /\ UNCHANGED pending

\* No file has the register: the translator comes to an llvm_unreachable.
NameWithoutFile ==
  /\ stage = "body" /\ \E r \in NamedRegisters(K) : NoFile(r)
  /\ stage' = "aborted"
  /\ UNCHANGED <<K, attrs, info, printed, fileVars>>

Indexed(content) == {c[2] : c \in {c \in content : c[1] = "index"}}
\* The bit of MODE that enables the index mode; of a MODE that is not known it may
\* yet be known to be clear.
Enabled == {<<"true", "gpr_idx_en">>}
Disabled == {<<"false", "gpr_idx_en">>}
WithIndexMode(mode, on) ==
  IF on THEN (mode \ Disabled) \cup Enabled
  ELSE (mode \ Enabled) \cup (IF Unknown \subseteq mode THEN Disabled ELSE {})

\* S_SET_GPR_IDX_ON for all the operands, and S_SET_GPR_IDX_OFF.
SetIndexMode ==
  \E n \in Indices, on \in BOOLEAN :
    LET m0(old) == IF on THEN {c \in old : c[1] # "index"} \cup {<<"index", n>>} ELSE old
    IN /\ Instruction /\ st.gen = 9
       /\ VM' = setRegOperandValue(
                  setRegOperandValue(VM, getRegFileKey(M0), <<m0(Value(M0)[1])>>),
                  getRegFileKey(MODE), <<WithIndexMode(Value(MODE)[1], on)>>)
       /\ regs' = (<<"m0", 0>> :> m0(regs[<<"m0", 0>>])
                     @@ <<"mode", 0>> :> WithIndexMode(regs[<<"mode", 0>>], on)) @@ regs
       /\ mixed' = (mixed \ {IndexMode}) \cup (IF pending = <<>> THEN {} ELSE {<<"set", 0>>})
       /\ UNCHANGED pending

\* S_MOVRELD_B32 and S_MOVRELS_B32: an element of the file from a register on,
\* through the whole file.
FullKey(file) == [file |-> file, off |-> 0, len |-> layout.size[file]]
StartLane(r) == getRegFileKey(r).off \div 2
getRegisterFile(r) ==
  LET full == getOperandAsValue(VM, FullKey(getRegFileKey(r).file))
  IN SubSeq(full, StartLane(r) + 1, Len(full))

setRegisterFile(r, slice) ==
  LET file == getRegFileKey(r).file
      full == getOperandAsValue(VM, FullKey(file))
  IN setRegOperandValue(VM, FullKey(file),
       [i \in DOMAIN full |-> IF i > StartLane(r) THEN slice[i - StartLane(r)] ELSE full[i]])

InFile(r, n) == 2 * (r.i + n) < layout.size["s"] /\ <<"s", r.i + n>> \in DOMAIN regs

MoveRelative ==
  /\ Instruction /\ ~NoFile(M0)
  /\ \E p \in {p \in MovePairs(K) : p[1].reg = "s" /\ p[2].reg = "s" /\ p[1].len = 2}, to \in BOOLEAN :
     \E n \in Indexed(Value(M0)[1]) :
      /\ InFile(p[1], n) /\ InFile(p[2], n)
      /\ IF to
         THEN /\ VM' = setRegisterFile(p[1], [getRegisterFile(p[1]) EXCEPT ![n + 1] = Value(p[2])[1]])
              /\ \E m \in Indexed(regs[<<"m0", 0>>]) :
                   Execute(Reg("s", p[1].i + m, 1), Holds(p[2]))
              /\ mixed' = MixedBy(Reg("s", p[1].i + n, 1), MixedIn(p[2]))
         ELSE /\ VM' = setRegOperandValue(VM, getRegFileKey(p[1]), <<getRegisterFile(p[2])[n + 1]>>)
              /\ \E m \in Indexed(regs[<<"m0", 0>>]) :
                   Execute(p[1], Holds(Reg("s", p[2].i + m, 1)))
              /\ mixed' = MixedBy(p[1], MixedIn(Reg("s", p[2].i + n, 1)))
      /\ UNCHANGED pending

\* A vector instruction with 32-bit operands, where there is an index mode: its
\* operands are picked by MODE and M0, whatever is in them.
IsEnabled(mode) ==
  IF Unknown \subseteq mode /\ mode \cap (Enabled \cup Disabled) = {} THEN BOOLEAN
  ELSE {Enabled \subseteq mode}
Slots(r) == (layout.size["v"] - getRegFileKey(r).off) \div 2

emitIndexedVGPRSrc(r, en, index) ==
  IF en /\ \E n \in index : n \in 1 .. Slots(r) - 1
  THEN Value(Reg("v", r.i + (CHOOSE n \in index : TRUE), 1))
  ELSE Value(r)

\* Each slot is written, with what it held or the value.
emitIndexedVGPRDst(r, en, index, val) ==
  FoldLeft(LAMBDA m, n :
             setRegOperandValue(m, getRegFileKey(Reg("v", r.i + n, 1)),
               IF n \in (IF en THEN index ELSE {0}) THEN val
               ELSE getOperandAsValue(m, getRegFileKey(Reg("v", r.i + n, 1)))),
           VM, [n \in 1 .. Slots(r) |-> n - 1])

VectorMove ==
  /\ Instruction /\ st.gen = 9
  /\ \E p \in {p \in MovePairs(K) : p[1].reg = "v" /\ p[2].reg = "v" /\ p[1].len = 2},
        en \in IsEnabled(Value(MODE)[1]) :
    LET by == IF Enabled \subseteq regs[<<"mode", 0>>] THEN Indexed(regs[<<"m0", 0>>]) ELSE {0}
        index == Indexed(Value(M0)[1])
    IN /\ VM' = emitIndexedVGPRDst(p[1], en, index, emitIndexedVGPRSrc(p[2], en, index))
       /\ \E n \in by :
            /\ <<"v", p[1].i + n>> \in DOMAIN regs /\ <<"v", p[2].i + n>> \in DOMAIN regs
            /\ Execute(Reg("v", p[1].i + n, 1), Holds(Reg("v", p[2].i + n, 1)))
            /\ mixed' = IF IndexMode \in mixed
                        THEN mixed \cup {w \in DOMAIN regs : w[1] = "v" /\ w[2] >= p[1].i}
                        ELSE MixedBy(Reg("v", p[1].i + n, 1), MixedIn(Reg("v", p[2].i + n, 1)))
       /\ UNCHANGED pending

\* S_SETREG_B32 of the index mode is left as a call of the intrinsic.
SetHwreg ==
  \E on \in BOOLEAN :
    /\ Instruction /\ st.gen = 9
    /\ pending' = Append(pending, on)
    /\ Execute(MODE, <<WithIndexMode(regs[<<"mode", 0>>], on)>>)
    /\ mixed' = mixed \cup Mode
    /\ UNCHANGED VM

\* After all the instructions have been raised: too late if one of them has set the
\* mode since.
foldHwregIntrinsics ==
  /\ stage = "body" /\ pending # <<>>
  /\ VM' = FoldLeft(LAMBDA m, on :
             LET mode == getOperandAsValue(m, getRegFileKey(MODE))[1]
             IN setRegOperandValue(m, getRegFileKey(MODE),
                  <<WithIndexMode(mode, on)>>), VM, pending)
  /\ mixed' = mixed \ (IF <<"set", 0>> \in mixed THEN {} ELSE IF device THEN {IndexMode} ELSE Mode)
  /\ pending' = <<>> /\ stage' = "folded"
  /\ UNCHANGED <<K, attrs, info, printed, layout, regs, device, ops>>

-----------------------------------------------------------------------------
(* The call of a device function, which is lifted with the counts of the    *)
(* kernel: an argument for each double-word of the files.                   *)

CallArgs ==
  FlattenSeq([i \in DOMAIN getRegisterFileArgOrder |->
    [d \in 1 .. layout.size[getRegisterFileArgOrder[i]] \div 2 |->
      getOperandAsValue(VM, [file |-> getRegisterFileArgOrder[i], off |-> 2 * (d - 1), len |-> 2])[1]]])

\* The first argument of a file.
CurrentArgPos(i) ==
  MapThenSumSet(LAMBDA j : layout.size[getRegisterFileArgOrder[j]] \div 2, 1 .. i - 1)

\* As initDeviceFunctionEntryRegs, were an argument one half-word of its file.
initDeviceFunctionEntryRegs_half(args) ==
  UNION {{[key |-> [file |-> getRegisterFileArgOrder[i], off |-> d - 1, len |-> 2],
           val |-> <<args[CurrentArgPos(i) + d]>>] :
            d \in 1 .. layout.size[getRegisterFileArgOrder[i]] \div 2} :
          i \in DOMAIN getRegisterFileArgOrder}

initDeviceFunctionEntryRegs(args) ==
  UNION {{[key |-> [file |-> getRegisterFileArgOrder[i], off |-> 2 * (d - 1), len |-> 2],
           val |-> <<args[CurrentArgPos(i) + d]>>] :
            d \in 1 .. layout.size[getRegisterFileArgOrder[i]] \div 2} :
          i \in DOMAIN getRegisterFileArgOrder}

emitIndirectTailCall ==
  /\ stage = "body" /\ ~device /\ pending = <<>>
  /\ VM' = initDeviceFunctionEntryRegs(CallArgs)
  /\ device' = TRUE
  /\ mixed' = mixed \cup Mode
  /\ UNCHANGED <<entryVars, layout, regs, pending, ops>>

-----------------------------------------------------------------------------
Init ==
  /\ EntryInit
  /\ layout = <<>> /\ VM = {} /\ regs = <<>> /\ pending = <<>> /\ device = FALSE
  /\ mixed = {} /\ ops = 0

Next ==
  \/ Lift /\ UNCHANGED fileVars
  \/ initRegFileLayouts \/ initKernelEntryRegs
  \/ Move \/ MoveIndex \/ MoveRelative \/ NameWithoutFile
  \/ SetIndexMode \/ VectorMove \/ SetHwreg
  \/ foldHwregIntrinsics \/ emitIndirectTailCall

Spec == Init /\ [][Next]_vars

-----------------------------------------------------------------------------
(* Properties.                                                              *)

\* The halves of the double-words a register is, and those of its key.
HalvesOf(r) ==
  LET key == getRegFileKey(r)
  IN {<<<<Physical(r, (r.half + h) \div 2), (r.half + h) % 2>>, <<key.file, key.off + h>>>> :
        h \in 0 .. r.len - 1}

\* Two registers share a half of a key exactly if they share that half of a
\* register of the hardware, and every key is in its file, but for the odd
\* registers: each of those has a key that is another's, or none.
Share(r, q) == \A x \in HalvesOf(r), y \in HalvesOf(q) : x[1] = y[1] <=> x[2] = y[2]

KeysAreRegisters ==
  stage = "laid out" =>
    \E regular \in {{r \in NamedRegisters(K) : ~Odd(r)}} :
      /\ \A r, q \in regular : Share(r, q)
      /\ \A r \in regular : \A x \in HalvesOf(r) :
           x[2][1] \in DOMAIN layout.size /\ x[2][2] < layout.size[x[2][1]]
      /\ \A r \in NamedRegisters(K) \ regular :
           getRegFileKey(r).file = "none" \/ \E q \in regular : ~Share(r, q)

\* In the kernel and in the functions it calls, each register the code may read
\* is raised to what the hardware has in it, with MODE rounding to the nearest,
\* unless its value goes back to where values get lost.
RaisedIsExecuted ==
  stage \in {"body", "folded"} =>
    \A r \in NamedRegisters(K) :
      Odd(r) \/ r.len = 1 \/ \A d \in Words(r) :
        \/ regs[Physical(r, d)] = Unknown \/ Physical(r, d) \in mixed
        \/ Contents(VM, WordKey(getRegFileKey(r), d))
             = {{c \in regs[Physical(r, d)] : c[1] # "round"}}

\* The comments of getRegFileKey: an access under the name of an alias and one
\* under the name of the SGPR share the slot of the same physical register.
AliasesShareSlots ==
  stage = "laid out" =>
    \A r, q \in NamedRegisters(K) : r.reg \in Aliases /\ q.reg = "s" => Share(r, q)
=============================================================================
