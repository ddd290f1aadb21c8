---------------------------- MODULE OutliningProofs ----------------------------
(***************************************************************************)
(* Theorems about Outlining: whatever the block, the payloads and the       *)
(* registers, an outlined payload is transparent to the application.  The   *)
(* proof follows the registers somebody still needs: those that the walk    *)
(* back over the block finds live, and those the array is kept in.          *)
(***************************************************************************)
EXTENDS Outlining, WellFoundedInduction, TLAPS

-----------------------------------------------------------------------------
(***************************************************************************)
(* Numbers.                                                                 *)
(***************************************************************************)

\* A set of natural numbers has a least element.
LEMMA LeastNatural ==
  ASSUME NEW T \in SUBSET Nat, T # {}
  PROVE  \E x \in T : \A y \in T : x <= y
<1> DEFINE R == {ss \in Nat \X Nat : ss[1] < ss[2]}
<1>1. IsWellFoundedOn(R, Nat)
  BY NatLessThanWellFounded DEF OpToRel
<1>2. \A x, y \in Nat : <<y, x>> \in R <=> y < x
  OBVIOUS
<1> HIDE DEF R
<1>3. PICK x \in T : \A y \in T : <<y, x>> \notin R
  BY <1>1, WFMin
<1>4. \A y \in T : x \in Nat /\ y \in Nat /\ ~(y < x)
  BY <1>2, <1>3
<1>5. \A y \in T : x <= y
  BY <1>4
<1> QED BY <1>5

\* Induction up to a bound, for the set of the numbers with a property.
LEMMA UpTo ==
  ASSUME NEW n \in Nat, NEW T, 0 \in T, \A m \in 0 .. n - 1 : m \in T => m + 1 \in T
  PROVE  \A m \in 0 .. n : m \in T
<1> SUFFICES ASSUME NEW a \in 0 .. n, a \notin T PROVE FALSE
  OBVIOUS
<1> DEFINE B == {m \in 0 .. n : m \notin T}
<1>1. B \in SUBSET Nat /\ B # {}
  OBVIOUS
<1>2. PICK x \in B : \A y \in B : x <= y
  <2> HIDE DEF B
  <2> QED BY <1>1, LeastNatural
<1>3. x # 0 /\ x - 1 \in 0 .. n - 1
  BY <1>2
<1>4. x - 1 \in T
  <2>1. x - 1 \notin B
    BY <1>2, <1>3
  <2> QED BY <1>3, <2>1
<1> QED BY <1>2, <1>3, <1>4

\* The first of a set of registers is one of them.
LEMMA MinIs == ASSUME NEW S \in SUBSET Nat, S # {} PROVE Min(S) \in S
<1>1. \E x \in S : \A y \in S : x =< y
  BY LeastNatural
<1> QED BY <1>1 DEF Min

\* The only register of a set is its last.
LEMMA MaxIs == ASSUME NEW x \in Nat PROVE Max({x}) = x
  BY DEF Max

-----------------------------------------------------------------------------
(***************************************************************************)
(* Liveness: the walk back over the block.                                  *)
(***************************************************************************)

\* The value of the walk at instruction j, from its value one further on.
Step(p, f, j) ==
  IF j = Len(p.code) + 1 THEN p.liveout ELSE (f[j + 1] \ p.code[j].def) \cup p.code[j].use

\* The walk, as LiveBefore defines it.
Walk(p) == CHOOSE f : f = [j \in 1 .. Len(p.code) + 1 |-> Step(p, f, j)]

\* What the walk has before an instruction is live there.
LEMMA LiveIsWalk == ASSUME NEW p, NEW i PROVE LiveBefore(p, i) = Walk(p)[i]
  BY DEF LiveBefore, Walk, Step

\* Sequences, as far as they are needed.
LEMMA SequenceIs ==
  ASSUME NEW S, NEW s \in Seq(S)
  PROVE  Len(s) \in Nat /\ DOMAIN s = 1 .. Len(s) /\ \A i \in 1 .. Len(s) : s[i] \in S
  OBVIOUS

\* The program, without the modules.
LEMMA ProgramIs ==
  ASSUME NEW p \in Programs
  PROVE  /\ Len(p.code) \in Nat /\ DOMAIN p.code = 1 .. Len(p.code)
         /\ Len(p.payloads) \in Nat /\ DOMAIN p.payloads = 1 .. Len(p.payloads)
         /\ p.liveout \subseteq Registers
         /\ \A i \in 1 .. Len(p.code) :
              /\ p.code[i].use \subseteq Registers /\ p.code[i].def \subseteq Registers
              /\ p.code[i].storage \subseteq SGPRs /\ p.code[i].payload \in Nat
         /\ \A k \in Payloads(p) :
              p.payloads[k].def \subseteq Registers /\ p.payloads[k].calls \subseteq Registers
<1>1. IsProgram(p)
  BY ProgramsAssumption
<1>2. /\ p.code \in Seq([use : SUBSET Registers, def : SUBSET Registers,
                         payload : Nat, storage : SUBSET SGPRs])
      /\ p.liveout \subseteq Registers
      /\ p.payloads \in Seq([def : SUBSET Registers, calls : SUBSET Registers, setpc : BOOLEAN])
  BY <1>1 DEF IsProgram
<1>3. /\ Len(p.code) \in Nat /\ DOMAIN p.code = 1 .. Len(p.code)
      /\ \A i \in 1 .. Len(p.code) :
           p.code[i] \in [use : SUBSET Registers, def : SUBSET Registers,
                         payload : Nat, storage : SUBSET SGPRs]
  BY <1>2, SequenceIs
<1>4. /\ Len(p.payloads) \in Nat /\ DOMAIN p.payloads = 1 .. Len(p.payloads)
      /\ \A k \in 1 .. Len(p.payloads) :
           p.payloads[k] \in [def : SUBSET Registers, calls : SUBSET Registers, setpc : BOOLEAN]
  BY <1>2, SequenceIs
<1>5. \A i \in 1 .. Len(p.code) :
        /\ p.code[i].use \subseteq Registers /\ p.code[i].def \subseteq Registers
        /\ p.code[i].storage \subseteq SGPRs /\ p.code[i].payload \in Nat
  BY <1>3
<1>6. \A k \in Payloads(p) :
        p.payloads[k].def \subseteq Registers /\ p.payloads[k].calls \subseteq Registers
  BY <1>4 DEF Payloads
<1> QED BY <1>2, <1>3, <1>4, <1>5, <1>6

\* There is such a walk: it can be made from the end of the block, one instruction
\* after the other.
LEMMA WalkIs ==
  ASSUME NEW p \in Programs
  PROVE  Walk(p) = [j \in 1 .. Len(p.code) + 1 |-> Step(p, Walk(p), j)]
<1> DEFINE n == Len(p.code)
           Partly(m) == {f \in [n + 1 - m .. n + 1 -> SUBSET Registers] :
                           \A j \in n + 1 - m .. n + 1 : f[j] = Step(p, f, j)}
           T == {m \in 0 .. n : Partly(m) # {}}
<1>1. n \in Nat /\ p.liveout \subseteq Registers
      /\ \A j \in 1 .. n : p.code[j].use \subseteq Registers
  BY ProgramIs
<1> HIDE DEF n
<1>2. 0 \in T
  <2> DEFINE f == [j \in n + 1 - 0 .. n + 1 |-> p.liveout]
  <2>1. f \in Partly(0)
    BY <1>1 DEF Step, n
  <2> QED BY <1>1, <2>1
<1>3. ASSUME NEW m \in 0 .. n - 1, m \in T PROVE m + 1 \in T
  <2>1. PICK f \in Partly(m) : TRUE
    BY <1>3
  <2> DEFINE a == n - m
             set == (f[a + 1] \ p.code[a].def) \cup p.code[a].use
             g == [j \in a .. n + 1 |-> IF j = a THEN set ELSE f[j]]
  <2>2. a \in 1 .. n /\ n + 1 - (m + 1) = a /\ n + 1 - m = a + 1
    BY <1>1
  <2>3. f \in [a + 1 .. n + 1 -> SUBSET Registers] /\ \A j \in a + 1 .. n + 1 : f[j] = Step(p, f, j)
    BY <2>1, <2>2
  <2>4. set \in SUBSET Registers
    BY <1>1, <2>2, <2>3
  <2> HIDE DEF set
  <2>5. g \in [a .. n + 1 -> SUBSET Registers]
    BY <1>1, <2>2, <2>3, <2>4
  <2>6. ASSUME NEW j \in a .. n + 1 PROVE g[j] = Step(p, g, j)
    <3>1. CASE j = a
      <4>1. g[a] = set /\ g[a + 1] = f[a + 1] /\ a # n + 1
        BY <1>1, <2>2
      <4>2. set = (f[a + 1] \ p.code[a].def) \cup p.code[a].use
        BY DEF set
      <4>3. Step(p, g, a) = (g[a + 1] \ p.code[a].def) \cup p.code[a].use
        BY <4>1 DEF Step, n
      <4> HIDE DEF g, a
      <4> QED BY <3>1, <4>1, <4>2, <4>3
    <3>2. CASE j # a
      <4>1. j \in a + 1 .. n + 1 /\ g[j] = f[j]
        BY <1>1, <2>2, <3>2
      <4>2. j # n + 1 => g[j + 1] = f[j + 1]
        BY <1>1, <2>2, <4>1
      <4>3. Step(p, g, j) = Step(p, f, j)
        BY <4>2 DEF Step, n
      <4> QED BY <2>3, <4>1, <4>3
    <3> QED BY <3>1, <3>2
  <2>7. g \in Partly(m + 1)
    <3> HIDE DEF g
    <3> QED BY <2>2, <2>5, <2>6
  <2> HIDE DEF Partly
  <2> QED BY <1>1, <2>7
<1>4. n \in T
  <2>1. n \in 0 .. n
    BY <1>1
  <2> HIDE DEF T
  <2> QED BY <1>1, <1>2, <1>3, <2>1, UpTo
<1>5. PICK f \in Partly(n) : TRUE
  BY <1>4
<1>6. f = [j \in 1 .. n + 1 |-> Step(p, f, j)]
  <2>1. n + 1 - n = 1
    BY <1>1
  <2>2. f \in [1 .. n + 1 -> SUBSET Registers] /\ \A j \in 1 .. n + 1 : f[j] = Step(p, f, j)
    BY <1>5, <2>1
  <2> QED BY <2>2
<1> QED BY <1>6, Zenon DEF Walk, n

\* The walk starts with what is live out of the block, and goes over an instruction
\* by dropping what it defines and adding what it uses.
LEMMA LiveIs ==
  ASSUME NEW p \in Programs
  PROVE  /\ LiveBefore(p, Len(p.code) + 1) = p.liveout
         /\ \A i \in 1 .. Len(p.code) :
              LiveBefore(p, i) = (LiveBefore(p, i + 1) \ p.code[i].def) \cup p.code[i].use
<1> DEFINE w == Walk(p)
<1>1. w = [j \in 1 .. Len(p.code) + 1 |-> Step(p, w, j)]
  BY WalkIs
<1>2. Len(p.code) \in Nat
  BY ProgramIs
<1> HIDE DEF w
<1>3. w[Len(p.code) + 1] = p.liveout
  BY <1>1, <1>2 DEF Step
<1>4. ASSUME NEW i \in 1 .. Len(p.code)
      PROVE  w[i] = (w[i + 1] \ p.code[i].def) \cup p.code[i].use
  <2>1. i \in 1 .. Len(p.code) + 1 /\ i # Len(p.code) + 1
    BY <1>2
  <2>2. w[i] = Step(p, w, i)
    BY <1>1, <2>1
  <2> QED BY <2>1, <2>2 DEF Step
<1> QED BY <1>3, <1>4, LiveIsWalk DEF w

-----------------------------------------------------------------------------
(***************************************************************************)
(* Patch points, and what is needed around them.                            *)
(***************************************************************************)

\* A payload has one patch point, and a patch point's payload is that of no other.
LEMMA SiteIs ==
  ASSUME NEW p \in Programs
  PROVE  /\ \A k \in Payloads(p) :
              k # 0 /\ SiteOf(p, k) \in 1 .. Len(p.code) /\ p.code[SiteOf(p, k)].payload = k
         /\ \A i \in 1 .. Len(p.code) : p.code[i].payload # 0 =>
              p.code[i].payload \in Payloads(p) /\ SiteOf(p, p.code[i].payload) = i
<1>1. PatchPointsMatch(p) /\ DOMAIN p.code = 1 .. Len(p.code)
  BY ProgramsAssumption, ProgramIs DEF IsProgram
<1>2. ASSUME NEW k \in Payloads(p)
      PROVE  k # 0 /\ SiteOf(p, k) \in 1 .. Len(p.code) /\ p.code[SiteOf(p, k)].payload = k
  <2>1. k # 0 /\ \E i \in DOMAIN p.code : p.code[i].payload = k
    BY <1>1, <1>2 DEF PatchPointsMatch
  <2> QED BY <1>1, <2>1 DEF SiteOf
<1>3. ASSUME NEW i \in 1 .. Len(p.code), p.code[i].payload # 0
      PROVE  p.code[i].payload \in Payloads(p) /\ SiteOf(p, p.code[i].payload) = i
  <2>1. p.code[i].payload \in Payloads(p)
    BY <1>1, <1>3 DEF PatchPointsMatch
  <2>2. SiteOf(p, p.code[i].payload) \in DOMAIN p.code
        /\ p.code[SiteOf(p, p.code[i].payload)].payload = p.code[i].payload
    BY <1>1, <1>2, <2>1
  <2> QED BY <1>1, <1>3, <2>1, <2>2 DEF PatchPointsMatch
<1> QED BY <1>2, <1>3

\* The registers the array is kept in from instruction i on, or further on if nothing
\* moves it there in between.
Kept(p, i) ==
  {r \in SGPRs : \E j \in i .. Len(p.code) :
     r \in p.code[j].storage /\ \A m \in i .. j - 1 : r \notin p.code[m].def}

\* The registers that somebody needs as they are before instruction i.
Needed(p, i) == LiveBefore(p, i) \cup Kept(p, i)

\* What is needed behind an instruction and not defined by it is needed before it, and
\* so are what it uses and what the array is kept in there.
LEMMA NeededIs ==
  ASSUME NEW p \in Programs, NEW i \in 1 .. Len(p.code)
  PROVE  /\ Needed(p, i + 1) \ p.code[i].def \subseteq Needed(p, i)
         /\ p.code[i].use \cup p.code[i].storage \subseteq Needed(p, i)
<1>1. LiveBefore(p, i) = (LiveBefore(p, i + 1) \ p.code[i].def) \cup p.code[i].use
  BY LiveIs
<1>2. Len(p.code) \in Nat /\ p.code[i].storage \subseteq SGPRs
  BY ProgramIs
<1>3. ASSUME NEW r \in Kept(p, i + 1), r \notin p.code[i].def PROVE r \in Kept(p, i)
  <2>1. PICK j \in i + 1 .. Len(p.code) :
          r \in p.code[j].storage /\ \A m \in i + 1 .. j - 1 : r \notin p.code[m].def
    BY DEF Kept
  <2>2. j \in i .. Len(p.code) /\ \A m \in i .. j - 1 : m = i \/ m \in i + 1 .. j - 1
    BY <1>2
  <2>3. r \in SGPRs
    BY DEF Kept
  <2> QED BY <1>3, <2>1, <2>2, <2>3 DEF Kept
<1>4. ASSUME NEW r \in p.code[i].storage PROVE r \in Kept(p, i)
  <2>1. i \in i .. Len(p.code) /\ i .. i - 1 = {} /\ r \in SGPRs
    BY <1>2
  <2> QED BY <2>1 DEF Kept
<1> QED BY <1>1, <1>3, <1>4 DEF Needed

\* Behind the block the live registers are needed.
LEMMA NeededAtEnd ==
  ASSUME NEW p \in Programs PROVE p.liveout \subseteq Needed(p, Len(p.code) + 1)
  BY LiveIs DEF Needed

\* All that is needed are registers.
LEMMA NeededAreRegisters ==
  ASSUME NEW p \in Programs, NEW i \in 1 .. Len(p.code) + 1
  PROVE  Needed(p, i) \subseteq Registers
<1> DEFINE n == Len(p.code)
           T == {m \in 0 .. n : LiveBefore(p, n + 1 - m) \subseteq Registers}
<1>2. n \in Nat /\ \A j \in 1 .. n : p.code[j].use \subseteq Registers
  BY ProgramIs
<1>3. LiveBefore(p, n + 1) \subseteq Registers
  BY LiveIs, ProgramIs
<1>4. \A j \in 1 .. n : LiveBefore(p, j) = (LiveBefore(p, j + 1) \ p.code[j].def) \cup p.code[j].use
  BY LiveIs
<1> HIDE DEF n
<1>5. 0 \in T
  BY <1>2, <1>3
<1>6. ASSUME NEW m \in 0 .. n - 1, m \in T PROVE m + 1 \in T
  <2>1. n - m \in 1 .. n /\ n - m + 1 = n + 1 - m /\ n + 1 - (m + 1) = n - m /\ m + 1 \in 0 .. n
    BY <1>2
  <2>2. LiveBefore(p, n - m + 1) \subseteq Registers
    BY <1>6, <2>1
  <2>3. LiveBefore(p, n - m) \subseteq Registers
    BY <1>2, <1>4, <2>1, <2>2
  <2> QED BY <2>1, <2>3
<1>7. \A m \in 0 .. n : m \in T
  <2> HIDE DEF T
  <2> QED BY <1>2, <1>5, <1>6, UpTo
<1>8. n + 1 - i \in 0 .. n /\ n + 1 - (n + 1 - i) = i
  BY <1>2 DEF n
<1>9. LiveBefore(p, i) \subseteq Registers
  BY <1>7, <1>8
<1> QED BY <1>9 DEF Needed, Kept, Registers

\* What the array is kept in behind a patch point it is kept in there.
LEMMA KeptAtSite ==
  ASSUME NEW p \in Programs, NEW k \in Payloads(p)
  PROVE  Kept(p, SiteOf(p, k) + 1) \subseteq SVAReserved(p, k)
<1> SUFFICES ASSUME NEW r \in Kept(p, SiteOf(p, k) + 1), r \notin SVAReserved(p, k) PROVE FALSE
  OBVIOUS
<1>1. PICK j \in SiteOf(p, k) + 1 .. Len(p.code) :
        r \in p.code[j].storage /\ \A m \in SiteOf(p, k) + 1 .. j - 1 : r \notin p.code[m].def
  BY DEF Kept
<1>2. KeptInPlace(p)
  BY ProgramsAssumption DEF IsProgram
<1> QED BY <1>1, <1>2 DEF KeptInPlace

\* The registers found at a patch point: a pair nobody needs there, and if the condition
\* code is live a register for it that nobody needs either.
LEMMA FoundAre ==
  ASSUME NEW p \in Programs, NEW k \in Payloads(p), NEW r \in scavengeSGPRsAtSite(p, k)
  PROVE  /\ Both(r.pair) \subseteq SGPRs
         /\ Both(r.pair) \cap (LiveAtSite(p, k) \cup SVAReserved(p, k)) = {}
         /\ \/ r.save = {} /\ SCC \notin LiveAtSite(p, k)
            \/ \E s \in SGPRs :
                 /\ r.save = {s} /\ Max(r.save) = s /\ s \notin Both(r.pair)
                 /\ s \notin LiveAtSite(p, k) \cup SVAReserved(p, k)
<1> DEFINE pair == Min(PairsAtSite(p, k))
<1>1. PairsAtSite(p, k) # {} /\ r.pair = pair
      /\ \/ SCC \notin LiveAtSite(p, k) /\ r.save = {}
         \/ \E s \in SavesAtSite(p, k, pair) : r.save = {s}
  BY DEF scavengeSGPRsAtSite
<1>2. PairsAtSite(p, k) \in SUBSET Nat
  BY SGPRsAssumption DEF PairsAtSite, SReg_64
<1>3. pair \in PairsAtSite(p, k)
  BY <1>1, <1>2, MinIs
<1> HIDE DEF pair
<1>4. Both(pair) \subseteq SGPRs /\ Both(pair) \cap (LiveAtSite(p, k) \cup SVAReserved(p, k)) = {}
  BY <1>3 DEF PairsAtSite, SReg_64, Both, Free
<1>5. ASSUME NEW s \in SavesAtSite(p, k, pair), r.save = {s}
      PROVE  /\ s \in SGPRs /\ Max(r.save) = s /\ s \notin Both(pair)
             /\ s \notin LiveAtSite(p, k) \cup SVAReserved(p, k)
  <2>1. s \in Nat /\ Max({s}) = s
    BY SGPRsAssumption, MaxIs DEF SavesAtSite
  <2> QED BY <1>5, <2>1 DEF SavesAtSite, Free
<1> QED BY <1>1, <1>4, <1>5

-----------------------------------------------------------------------------
(***************************************************************************)
(* The code around a payload.                                               *)
(***************************************************************************)

\* The payload k has its registers, and its return was rewritten.
Outlinable(k) ==
  /\ prog \in Programs /\ IsRegular(prog)
  /\ k \in Payloads(prog) /\ Regs(k) \in scavengeSGPRsAtSite(prog, k) /\ Rewritable(k)

\* The condition code is no scalar register.
LEMMA SCCIsNone == SCC \notin SGPRs /\ SCC \in Registers /\ SGPRs \subseteq Registers
  BY SGPRsAssumption DEF SCC, Registers

\* A write changes the registers it is to.
LEMMA SetIs ==
  ASSUME NEW f, NEW rs, NEW x, NEW r \in Registers
  PROVE  Set(f, rs, x)[r] = IF r \in rs THEN x ELSE f[r]
  BY DEF Set

\* A call leaves the address behind it in the pair, and all that is live there, holds the
\* array, or is read by the payload and not taken for the call, as it is.
LEMMA CallIs ==
  ASSUME NEW k, Outlinable(k), NEW f
  PROVE  /\ \A r \in PairOf(k) : emitSICallAtPatchpoint(f, k)[r] = After(k)
         /\ \A r \in LiveAtSite(prog, k) \cup SVAReserved(prog, k)
                       \cup (prog.code[SiteOf(prog, k)].use \ Taken(k)) :
              r \in Registers => emitSICallAtPatchpoint(f, k)[r] = f[r]
<1> DEFINE R == Regs(k)
           pair == PairOf(k)
           saved  == Set(f, R.save, f[SCC])
           called == Set(Set(saved, pair, Callee(k)), {SCC}, Junk)
           swap   == Set(called, pair, After(k))
           g == emitSICallAtPatchpoint(f, k)
<1>1. /\ pair \subseteq SGPRs
      /\ pair \cap (LiveAtSite(prog, k) \cup SVAReserved(prog, k)) = {}
      /\ \/ R.save = {} /\ SCC \notin LiveAtSite(prog, k)
         \/ \E s \in SGPRs :
              /\ R.save = {s} /\ Max(R.save) = s /\ s \notin pair
              /\ s \notin LiveAtSite(prog, k) \cup SVAReserved(prog, k)
  BY FoundAre DEF Outlinable, PairOf
<1>2. Taken(k) = pair \cup (IF R.save = {} THEN {SCC} ELSE R.save)
  BY DEF Taken
<1>3. g = IF R.save = {} THEN swap ELSE Set(swap, {SCC}, saved[Max(R.save)])
  BY DEF emitSICallAtPatchpoint
<1>4. SVAReserved(prog, k) \subseteq SGPRs
  BY SiteIs, ProgramIs DEF Outlinable, SVAReserved
<1> HIDE DEF R, pair, g, saved, called, swap
<1>5. ASSUME NEW r \in pair PROVE g[r] = After(k)
  <2>1. r \in Registers /\ r # SCC
    BY <1>1, SCCIsNone
  <2>2. swap[r] = After(k)
    BY <2>1, SetIs DEF swap
  <2>3. Set(swap, {SCC}, saved[Max(R.save)])[r] = swap[r]
    BY <2>1, SetIs
  <2> QED BY <1>3, <2>2, <2>3
<1>6. ASSUME NEW r \in Registers,
             r \in LiveAtSite(prog, k) \cup SVAReserved(prog, k)
                     \cup (prog.code[SiteOf(prog, k)].use \ Taken(k))
      PROVE  g[r] = f[r]
  <2>1. r \notin pair /\ r \notin R.save
    BY <1>1, <1>2, <1>6
  <2>2. saved[r] = f[r]
    BY <2>1, SetIs DEF saved
  <2>3. r # SCC => swap[r] = f[r]
    <3>1. swap[r] = called[r]
      BY <2>1, SetIs DEF swap
    <3>2. Set(saved, pair, Callee(k))[r] = saved[r]
      BY <2>1, SetIs
    <3>3. r # SCC => called[r] = Set(saved, pair, Callee(k))[r]
      BY SetIs DEF called
    <3> QED BY <2>2, <3>1, <3>2, <3>3
  <2>4. CASE R.save = {}
    <3>1. r # SCC
      BY <1>1, <1>2, <1>4, <1>6, <2>4, SCCIsNone
    <3> QED BY <1>3, <2>3, <2>4, <3>1
  <2>5. CASE R.save # {}
    <3>1. PICK s \in SGPRs : R.save = {s} /\ Max(R.save) = s
      BY <1>1, <2>5
    <3>2. saved[s] = f[SCC]
      BY <3>1, SetIs, SCCIsNone DEF saved
    <3>3. g[r] = IF r = SCC THEN saved[s] ELSE swap[r]
      BY <1>3, <2>5, <3>1, SetIs
    <3> QED BY <2>3, <3>2, <3>3
  <2> QED BY <2>4, <2>5
<1> QED BY <1>5, <1>6 DEF g, pair

\* A payload returns to the address behind its call, and all that is live there or holds
\* the array is then as it was, or as the payload was to write it.
LEMMA ReturnIs ==
  ASSUME NEW k, Outlinable(k), NEW f, pc = SiteOf(prog, k),
         \A r \in PairOf(k) : f[r] = After(k)
  PROVE  /\ \A r \in PairOf(k) : rewritePayloadReturn(AtReturn(f, k), k)[r] = After(k)
         /\ \A r \in LiveAtSite(prog, k) \cup SVAReserved(prog, k) :
              r \in Registers =>
                rewritePayloadReturn(AtReturn(f, k), k)[r] =
                  IF r \in At.def THEN <<"new", pc>> ELSE f[r]
<1> DEFINE R == Regs(k)
           pair == PairOf(k)
           live == LiveAtSite(prog, k)
           array == SVAReserved(prog, k)
           over == prog.payloads[k].def \cup prog.payloads[k].calls \cup {SCC}
           left == Set(f, over \ live, Junk)
           ret == AtReturn(f, k)
           tramp == Min(TrampolineSaves(prog, k, R.pair))
           g == rewritePayloadReturn(ret, k)
<1>1. /\ pair \subseteq SGPRs
      /\ pair \cap (live \cup array) = {}
      /\ R.save = {} => SCC \notin live
  BY FoundAre DEF Outlinable, PairOf
<1>2. /\ array \cap (prog.payloads[k].def \cup prog.payloads[k].calls) = {}
      /\ pair \cap prog.payloads[k].calls # {} => ScavClobbered(k)
      /\ \/ R.save = {} \/ ~ScavClobbered(k)
         \/ TrampolineSaves(prog, k, R.pair) = {} \/ tramp \notin array
  BY DEF Outlinable, IsRegular, Regular, PairOf, ScavClobbered
<1>3. array \subseteq SGPRs
  BY SiteIs, ProgramIs DEF Outlinable, SVAReserved
<1>4. ScavClobbered(k) /\ R.save # {} => tramp \in SGPRs \ (pair \cup live \cup array)
  <2> SUFFICES ASSUME ScavClobbered(k), R.save # {} PROVE tramp \in SGPRs \ (pair \cup live \cup array)
    OBVIOUS
  <2>1. TrampolineSaves(prog, k, R.pair) # {}
    BY DEF Outlinable, Rewritable
  <2>2. TrampolineSaves(prog, k, R.pair) = SGPRs \ (pair \cup live)
    BY DEF TrampolineSaves, PairOf
  <2>3. tramp \in TrampolineSaves(prog, k, R.pair)
    BY <2>1, <2>2, MinIs, SGPRsAssumption
  <2> QED BY <1>2, <2>1, <2>2, <2>3
<1>5. /\ ScavClobbered(k) <=> pair \cap (prog.payloads[k].def \cup At.def) # {}
      /\ ret = Set(left, At.def, <<"new", pc>>)
  BY DEF ScavClobbered, Defined, At, AtReturn, Written
<1>6. g = IF ~ScavClobbered(k) THEN ret
          ELSE IF R.save = {} THEN Set(Set(ret, pair, After(k)), {SCC}, Junk)
          ELSE Set(Set(ret, {tramp}, ret[SCC]), pair, After(k))
  BY DEF rewritePayloadReturn
<1> HIDE DEF R, pair, live, array, tramp, left, ret, g
<1>7. ASSUME NEW r \in pair PROVE g[r] = After(k)
  <2>1. r \in Registers /\ r # SCC /\ r \in SGPRs
    BY <1>1, SCCIsNone
  <2>2. CASE ~ScavClobbered(k)
    <3>1. r \notin over /\ r \notin At.def
      BY <1>2, <1>5, <2>1, <2>2
    <3>2. left[r] = f[r]
      BY <2>1, <3>1, SetIs DEF left
    <3>3. ret[r] = left[r]
      BY <1>5, <2>1, <3>1, SetIs
    <3>4. f[r] = After(k)
      BY DEF pair
    <3> QED BY <1>6, <2>2, <3>2, <3>3, <3>4
  <2>3. CASE ScavClobbered(k) /\ R.save = {}
    <3>1. g[r] = Set(ret, pair, After(k))[r]
      BY <1>6, <2>1, <2>3, SetIs
    <3>2. Set(ret, pair, After(k))[r] = After(k)
      BY <2>1, SetIs
    <3> QED BY <3>1, <3>2
  <2>4. CASE ScavClobbered(k) /\ R.save # {}
    BY <1>6, <2>1, <2>4, SetIs
  <2> QED BY <2>2, <2>3, <2>4
<1>8. ASSUME NEW r \in Registers, r \in live \cup array
      PROVE  g[r] = IF r \in At.def THEN <<"new", pc>> ELSE f[r]
  <2>1. r \notin pair /\ r \notin over \ live
    BY <1>1, <1>2, <1>3, <1>8, SCCIsNone
  <2>2. ret[r] = IF r \in At.def THEN <<"new", pc>> ELSE f[r]
    <3>1. left[r] = f[r]
      BY <2>1, SetIs DEF left
    <3> QED BY <1>5, <3>1, SetIs
  <2>3. CASE ~ScavClobbered(k)
    BY <1>6, <2>2, <2>3
  <2>4. CASE ScavClobbered(k) /\ R.save = {}
    <3>1. r # SCC
      BY <1>1, <1>3, <1>8, <2>4, SCCIsNone
    <3>2. g[r] = Set(ret, pair, After(k))[r]
      BY <1>6, <2>4, <3>1, SetIs
    <3>3. Set(ret, pair, After(k))[r] = ret[r]
      BY <2>1, SetIs
    <3> QED BY <2>2, <3>2, <3>3
  <2>5. CASE ScavClobbered(k) /\ R.save # {}
    <3>1. g[r] = Set(ret, {tramp}, ret[SCC])[r]
      BY <1>6, <2>1, <2>5, SetIs
    <3>2. r # tramp
      BY <1>4, <1>8, <2>5
    <3>3. Set(ret, {tramp}, ret[SCC])[r] = ret[r]
      BY <3>2, SetIs
    <3> QED BY <2>2, <3>1, <3>3
  <2> QED BY <2>3, <2>4, <2>5
<1> QED BY <1>7, <1>8 DEF g, ret, pair, live, array

-----------------------------------------------------------------------------
(***************************************************************************)
(* The invariant.                                                           *)
(***************************************************************************)

\* Payloads are taken in order: the registers of those before have been found, and
\* when calls are emitted those of all.
PayloadsInOrder ==
  /\ prog \in Programs
  /\ phase \in {"move", "scavenge", "outline", "run", "failed"}
  /\ phase = "move" => nth = 1 /\ scavenged = << >>
  /\ phase = "scavenge" => nth \in 1 .. Len(prog.payloads) + 1 /\ Len(scavenged) = nth - 1
  /\ phase = "outline" => nth \in 1 .. Len(prog.payloads) + 1
  /\ phase \in {"outline", "run"} => Len(scavenged) = Len(prog.payloads)

\* What is found for a payload suits its patch point.
RegistersFound ==
  /\ scavenged \in Seq([pair : SGPRs, save : SUBSET SGPRs])
  /\ \A k \in 1 .. Len(scavenged) : scavenged[k] \in scavengeSGPRsAtSite(prog, k)

\* A payload that was gone past is outlined, and its return was rewritten.
Gone(k) == k \in outlined /\ Rewritable(k)

OutlinedInOrder ==
  /\ phase = "outline" => \A k \in 1 .. nth - 1 : Gone(k)
  /\ phase = "run" => \A k \in 1 .. Len(prog.payloads) : Gone(k)

\* The function of a payload that is outlined, or what else is the target module's.
InTarget(o) ==
  \/ Obj(prog, o).home = "T" \/ o \in Moved(prog)
  \/ Obj(prog, o).kind = "payload" /\ Obj(prog, o).payload \in outlined

\* What an object refers to once the modules are merged.
Merged(o) ==
  IF o \in IModule(prog) /\ Obj(prog, o).kind = "payload"
  THEN Obj(prog, o).mirRefs \cup Remapped(prog, Obj(prog, o).refs)
  ELSE Remapped(prog, Obj(prog, o).refs)

\* Before the merge each object is where it came from, and afterwards where it
\* belongs, with its machine code.
ModulesMerged ==
  IF phase = "move"
  THEN /\ outlined = {}
       /\ owner = [o \in Objects(prog) |-> Obj(prog, o).home]
       /\ mir = [o \in Objects(prog) |-> IF Obj(prog, o).mf THEN Obj(prog, o).home ELSE "none"]
       /\ refers = [o \in Objects(prog) |-> Obj(prog, o).refs]
  ELSE /\ owner \in [Objects(prog) -> {"T", "I"}]
       /\ mir \in [Objects(prog) -> {"T", "I", "none"}]
       /\ refers = [o \in Objects(prog) |-> Merged(o)]
       /\ \A o \in Objects(prog) :
            (InTarget(o) => owner[o] = "T") /\ (owner[o] = "T" => mir[o] \in {"T", "none"})

\* The wave and the application agree on what is needed, and during a payload on what
\* is needed behind it, what it reads and what holds the array.
Agree(rs) == \A r \in rs : r \in Registers => file[r] = app[r]

NeededAgrees ==
  /\ phase # "run" => pc = 1 /\ inside = 0 /\ file = app
  /\ phase = "run" =>
       /\ pc \in 1 .. Len(prog.code) + 1
       /\ inside = 0 => Agree(Needed(prog, pc))
       /\ inside # 0 =>
            /\ pc <= Len(prog.code) /\ At.payload = inside
            /\ Agree((LiveAtSite(prog, inside) \ At.def) \cup At.storage
                       \cup (At.use \ Taken(inside)))
            /\ \A r \in PairOf(inside) : file[r] = After(inside)

IInv == PayloadsInOrder /\ RegistersFound /\ OutlinedInOrder /\ ModulesMerged /\ NeededAgrees

\* What says nothing of the wave.
PatcherInv == PayloadsInOrder /\ RegistersFound /\ OutlinedInOrder /\ ModulesMerged

-----------------------------------------------------------------------------
(***************************************************************************)
(* The actions.                                                             *)
(***************************************************************************)

\* The patcher starts with the two modules as they are.
LEMMA StartsWell == Init => IInv
<1> SUFFICES ASSUME Init PROVE IInv
  OBVIOUS
<1> USE DEF Init
<1>1. PayloadsInOrder
  BY DEF PayloadsInOrder
<1>2. RegistersFound
  <2>1. << >> \in Seq([pair : SGPRs, save : SUBSET SGPRs]) /\ Len(<< >>) = 0
    OBVIOUS
  <2> QED BY <2>1 DEF RegistersFound
<1>3. OutlinedInOrder /\ ModulesMerged /\ NeededAgrees
  BY DEF OutlinedInOrder, ModulesMerged, NeededAgrees
<1> QED BY <1>1, <1>2, <1>3 DEF IInv

\* What is found, in terms of its type.
LEMMA FoundType ==
  ASSUME NEW p \in Programs, NEW k \in Payloads(p), NEW r \in scavengeSGPRsAtSite(p, k)
  PROVE  r \in [pair : SGPRs, save : SUBSET SGPRs]
<1>1. \/ r = [pair |-> Min(PairsAtSite(p, k)), save |-> {}]
      \/ \E s \in SavesAtSite(p, k, Min(PairsAtSite(p, k))) :
           r = [pair |-> Min(PairsAtSite(p, k)), save |-> {s}]
  BY DEF scavengeSGPRsAtSite
<1>2. Both(r.pair) \subseteq SGPRs
  BY FoundAre
<1>3. r.pair = Min(PairsAtSite(p, k))
  BY <1>1
<1>4. Min(PairsAtSite(p, k)) \in SGPRs
  BY <1>2, <1>3 DEF Both
<1>5. SavesAtSite(p, k, Min(PairsAtSite(p, k))) \subseteq SGPRs
  BY DEF SavesAtSite
<1> QED BY <1>1, <1>4, <1>5

\* The merge moves what belongs to the target module, and its machine code.
LEMMA MoveKeeps == ASSUME IInv, moveIModuleIntoTarget PROVE IInv'
<1>1. /\ phase = "move" /\ phase' = "scavenge"
      /\ UNCHANGED <<prog, nth, scavenged, outlined, pc, file, app, inside>>
      /\ owner' = [o \in Objects(prog) |-> IF o \in Moved(prog) THEN "T" ELSE owner[o]]
      /\ mir' = [o \in Objects(prog) |->
                   IF o \in Moved(prog) /\ mir[o] = "I" THEN "T" ELSE mir[o]]
      /\ refers' = [o \in Objects(prog) |-> Redirect(prog, o)]
  BY DEF moveIModuleIntoTarget, idleWave
<1>2. /\ outlined = {}
      /\ owner = [o \in Objects(prog) |-> Obj(prog, o).home]
      /\ mir = [o \in Objects(prog) |-> IF Obj(prog, o).mf THEN Obj(prog, o).home ELSE "none"]
      /\ refers = [o \in Objects(prog) |-> Obj(prog, o).refs]
  BY <1>1 DEF IInv, ModulesMerged
<1>3. \A o \in Objects(prog) : Obj(prog, o).home \in {"T", "I"}
  BY ProgramsAssumption DEF IInv, PayloadsInOrder, IsProgram
<1>4. PayloadsInOrder'
  <2>1. Len(prog.payloads) \in Nat /\ Len(<< >>) = 0
    BY ProgramIs DEF IInv, PayloadsInOrder
  <2> QED BY <1>1, <2>1 DEF IInv, PayloadsInOrder
<1>5. RegistersFound' /\ OutlinedInOrder'
  BY <1>1 DEF IInv, RegistersFound, OutlinedInOrder
<1>6. ModulesMerged'
  <2>1. owner' \in [Objects(prog) -> {"T", "I"}]
    BY <1>1, <1>2, <1>3
  <2>2. mir' \in [Objects(prog) -> {"T", "I", "none"}]
    BY <1>1, <1>2, <1>3
  <2>3. ASSUME NEW o \in Objects(prog) PROVE refers'[o] = Merged(o)
    BY <1>1, <1>2 DEF Redirect, Merged
  <2>4. refers' = [o \in Objects(prog) |-> Merged(o)]
    BY <1>1, <2>3
  <2>5. ASSUME NEW o \in Objects(prog)
        PROVE  (InTarget(o) => owner'[o] = "T") /\ (owner'[o] = "T" => mir'[o] \in {"T", "none"})
    BY <1>1, <1>2, <1>3 DEF InTarget, Moved, IModule
  <2>6. \A o : Merged(o)' = Merged(o) /\ InTarget(o)' = InTarget(o)
    BY <1>1 DEF Merged, InTarget
  <2> HIDE DEF Merged, InTarget
  <2> QED BY <1>1, <2>1, <2>2, <2>4, <2>5, <2>6 DEF ModulesMerged
<1>7. NeededAgrees'
  BY <1>1 DEF IInv, NeededAgrees
<1> QED BY <1>4, <1>5, <1>6, <1>7 DEF IInv

\* What the merge was stays while nothing of it changes.
LEMMA MergedStays ==
  ASSUME ModulesMerged, phase # "move", phase' # "move",
         UNCHANGED <<prog, owner, mir, refers, outlined>>
  PROVE  ModulesMerged'
<1>1. \A o : Merged(o)' = Merged(o) /\ InTarget(o)' = InTarget(o)
  BY DEF Merged, InTarget
<1> HIDE DEF Merged, InTarget
<1> QED BY <1>1 DEF ModulesMerged

\* The registers of one payload more are found, or none are and the patcher fails.
LEMMA ScavengeKeeps == ASSUME IInv, Scavenge PROVE IInv'
<1>1. /\ phase = "scavenge" /\ nth \in Payloads(prog)
      /\ UNCHANGED <<prog, owner, mir, refers, outlined, pc, file, app, inside>>
  BY DEF Scavenge, idleWave
<1>2. prog \in Programs /\ Len(prog.payloads) \in Nat /\ Payloads(prog) = 1 .. Len(prog.payloads)
  BY ProgramIs DEF IInv, PayloadsInOrder, Payloads
<1>3. Len(scavenged) = nth - 1 /\ RegistersFound
  BY <1>1 DEF IInv, PayloadsInOrder
<1>4. CASE Failed
  <2>1. phase' = "failed" /\ UNCHANGED <<nth, scavenged>>
    BY <1>4 DEF Failed
  <2>2. PayloadsInOrder' /\ RegistersFound' /\ OutlinedInOrder'
    BY <1>1, <1>2, <1>3, <2>1 DEF PayloadsInOrder, RegistersFound, OutlinedInOrder
  <2>3. ModulesMerged'
    BY <1>1, <2>1, MergedStays DEF IInv
  <2>4. NeededAgrees'
    BY <1>1, <2>1 DEF IInv, NeededAgrees
  <2> QED BY <2>2, <2>3, <2>4 DEF IInv
<1>5. CASE ~Failed
  <2>1. PICK r \in scavengeSGPRsAtSite(prog, nth) : scavenged' = Append(scavenged, r)
    BY <1>5 DEF Scavenge
  <2>2. nth' = nth + 1 /\ phase' = "scavenge"
    BY <1>1, <1>5 DEF Scavenge
  <2>3. r \in [pair : SGPRs, save : SUBSET SGPRs]
    BY <1>1, <1>2, FoundType
  <2>4. scavenged \in Seq([pair : SGPRs, save : SUBSET SGPRs])
    BY <1>3 DEF RegistersFound
  <2>5. scavenged' \in Seq([pair : SGPRs, save : SUBSET SGPRs])
    BY ONLY <2>1, <2>3, <2>4
  <2>6. /\ Len(scavenged') = Len(scavenged) + 1
        /\ \A k \in 1 .. Len(scavenged') :
             scavenged'[k] = IF k = Len(scavenged) + 1 THEN r ELSE scavenged[k]
        /\ Len(scavenged) \in Nat
    BY ONLY <2>1, <2>3, <2>4
  <2>7. ASSUME NEW k \in 1 .. Len(scavenged') PROVE scavenged'[k] \in scavengeSGPRsAtSite(prog, k)
    <3>1. CASE k = nth
      BY <1>2, <1>3, <2>1, <2>6, <3>1
    <3>2. CASE k # nth
      <4>1. k \in 1 .. Len(scavenged) /\ scavenged'[k] = scavenged[k]
        BY <1>1, <1>2, <1>3, <2>6, <3>2
      <4> QED BY <1>3, <4>1 DEF RegistersFound
    <3> QED BY <3>1, <3>2
  <2>8. RegistersFound'
    BY <1>1, <2>5, <2>7 DEF RegistersFound
  <2>9. PayloadsInOrder' /\ OutlinedInOrder'
    BY <1>1, <1>2, <1>3, <2>2, <2>6 DEF PayloadsInOrder, OutlinedInOrder
  <2>10. ModulesMerged'
    BY <1>1, <2>2, MergedStays DEF IInv
  <2>11. NeededAgrees'
    BY <1>1, <2>2 DEF IInv, NeededAgrees
  <2> QED BY <2>8, <2>9, <2>10, <2>11 DEF IInv
<1> QED BY <1>4, <1>5

\* All registers are found before the first call is emitted.
LEMMA ScavengedKeeps == ASSUME IInv, Scavenged PROVE IInv'
<1>1. /\ phase = "scavenge" /\ nth \notin Payloads(prog) /\ phase' = "outline" /\ nth' = 1
      /\ UNCHANGED <<prog, scavenged, owner, mir, refers, outlined, pc, file, app, inside>>
  BY DEF Scavenged, idleWave
<1>2. prog \in Programs /\ Len(prog.payloads) \in Nat /\ Payloads(prog) = 1 .. Len(prog.payloads)
  BY ProgramIs DEF IInv, PayloadsInOrder, Payloads
<1>3. Len(scavenged) = nth - 1 /\ nth \in 1 .. Len(prog.payloads) + 1
  BY <1>1 DEF IInv, PayloadsInOrder
<1>4. PayloadsInOrder'
  BY <1>1, <1>2, <1>3 DEF PayloadsInOrder
<1>5. RegistersFound' /\ OutlinedInOrder'
  BY <1>1 DEF IInv, RegistersFound, OutlinedInOrder
<1>6. ModulesMerged' /\ NeededAgrees'
  BY <1>1, MergedStays DEF IInv, NeededAgrees
<1> QED BY <1>4, <1>5, <1>6 DEF IInv

\* The function of a payload is that of no other.
LEMMA PayloadObjectIs ==
  ASSUME NEW p \in Programs, prog = p, NEW k \in Payloads(p)
  PROVE  /\ PayloadObject(k) \in Objects(p)
         /\ \A o \in Objects(p) :
              Obj(p, o).kind = "payload" /\ Obj(p, o).payload = k => o = PayloadObject(k)
<1>1. ModulesMatch(p)
  BY ProgramsAssumption DEF IsProgram
<1>2. \E o \in Objects(p) : Obj(p, o).payload = k
  BY <1>1 DEF ModulesMatch, IModule
<1>3. PayloadObject(k) \in Objects(p) /\ Obj(p, PayloadObject(k)).payload = k
  BY <1>2 DEF PayloadObject
<1> QED BY <1>1, <1>3 DEF ModulesMatch

\* One payload more is outlined, or it has no machine code, or its return cannot be
\* rewritten.
LEMMA OutlineKeeps == ASSUME IInv, Outline PROVE IInv'
<1> DEFINE o == PayloadObject(nth)
<1>1. /\ phase = "outline" /\ nth \in Payloads(prog) /\ phase' \in {"outline", "failed"}
      /\ UNCHANGED <<prog, scavenged, refers, pc, file, app, inside>>
  BY DEF Outline, Failed, idleWave
<1>2. prog \in Programs /\ Len(prog.payloads) \in Nat /\ Payloads(prog) = 1 .. Len(prog.payloads)
  BY ProgramIs DEF IInv, PayloadsInOrder, Payloads
<1>3. /\ nth \in 1 .. Len(prog.payloads) + 1 /\ Len(scavenged) = Len(prog.payloads)
      /\ \A k \in 1 .. nth - 1 : Gone(k)
  BY <1>1 DEF IInv, PayloadsInOrder, OutlinedInOrder
<1>4. o \in Objects(prog)
      /\ \A x \in Objects(prog) :
           Obj(prog, x).kind = "payload" /\ Obj(prog, x).payload = nth => x = o
  BY <1>1, <1>2, PayloadObjectIs
<1> HIDE DEF o
<1>5. \/ UNCHANGED <<outlined, owner, mir>>
      \/ /\ outlined' = outlined \cup {nth}
         /\ owner' = [owner EXCEPT ![o] = "T"] /\ mir' = [mir EXCEPT ![o] = "T"]
  BY DEF Outline, o
<1>6. phase' = "outline" => nth' = nth + 1 /\ Rewritable(nth) /\ nth \in outlined'
  BY <1>1 DEF Outline, Failed
<1>7. \A k : Rewritable(k)' = Rewritable(k)
  BY <1>1 DEF Rewritable, ScavClobbered, PairOf, Regs
<1>8. PayloadsInOrder'
  BY <1>1, <1>2, <1>3, <1>6 DEF PayloadsInOrder
<1>9. RegistersFound'
  BY <1>1 DEF IInv, RegistersFound
<1>10. OutlinedInOrder'
  <2>1. ASSUME phase' = "outline", NEW k \in 1 .. nth' - 1 PROVE k \in outlined' /\ Rewritable(k)
    <3>1. k = nth \/ k \in 1 .. nth - 1
      BY <1>2, <1>3, <1>6, <2>1
    <3> QED BY <1>3, <1>5, <1>6, <2>1, <3>1 DEF Gone
  <2> QED BY <1>1, <1>7, <2>1 DEF OutlinedInOrder, Gone
<1>11. ModulesMerged'
  <2>1. /\ owner \in [Objects(prog) -> {"T", "I"}]
        /\ mir \in [Objects(prog) -> {"T", "I", "none"}]
        /\ refers = [x \in Objects(prog) |-> Merged(x)]
        /\ \A x \in Objects(prog) :
             (InTarget(x) => owner[x] = "T") /\ (owner[x] = "T" => mir[x] \in {"T", "none"})
    BY <1>1 DEF IInv, ModulesMerged
  <2>2. /\ owner' \in [Objects(prog) -> {"T", "I"}]
        /\ mir' \in [Objects(prog) -> {"T", "I", "none"}]
    BY <1>4, <1>5, <2>1
  <2>3. \A x : Merged(x)' = Merged(x)
    BY <1>1 DEF Merged
  <2>4. ASSUME NEW x \in Objects(prog), InTarget(x)' PROVE owner'[x] = "T"
    <3>1. InTarget(x) \/ (x = o /\ outlined' # outlined)
      BY <1>1, <1>4, <1>5, <2>4 DEF InTarget
    <3> QED BY <1>4, <1>5, <2>1, <3>1
  <2>5. ASSUME NEW x \in Objects(prog), owner'[x] = "T" PROVE mir'[x] \in {"T", "none"}
    BY <1>4, <1>5, <2>1, <2>5
  <2> HIDE DEF Merged, InTarget
  <2> QED BY <1>1, <2>1, <2>2, <2>3, <2>4, <2>5 DEF ModulesMerged
<1>12. NeededAgrees'
  BY <1>1 DEF IInv, NeededAgrees
<1> QED BY <1>8, <1>9, <1>10, <1>11, <1>12 DEF IInv

\* When all payloads are outlined the wave starts, with the application's registers.
LEMMA LaunchKeeps == ASSUME IInv, Launch PROVE IInv'
<1>1. /\ phase = "outline" /\ nth \notin Payloads(prog) /\ phase' = "run"
      /\ UNCHANGED <<prog, nth, scavenged, owner, mir, refers, outlined, pc, file, app, inside>>
  BY DEF Launch, idleWave
<1>2. /\ prog \in Programs /\ Len(prog.payloads) \in Nat /\ Len(prog.code) \in Nat
      /\ Payloads(prog) = 1 .. Len(prog.payloads)
  BY ProgramIs DEF IInv, PayloadsInOrder, Payloads
<1>3. nth = Len(prog.payloads) + 1 /\ Len(scavenged) = Len(prog.payloads)
  BY <1>1, <1>2 DEF IInv, PayloadsInOrder
<1>4. PayloadsInOrder' /\ RegistersFound'
  BY <1>1, <1>2, <1>3 DEF IInv, PayloadsInOrder, RegistersFound
<1>5. OutlinedInOrder'
  <2>1. \A k \in 1 .. Len(prog.payloads) : Gone(k)
    BY <1>1, <1>2, <1>3 DEF IInv, OutlinedInOrder
  <2>2. \A k : Gone(k)' = Gone(k)
    BY <1>1 DEF Gone, Rewritable, ScavClobbered, PairOf, Regs
  <2> QED BY <1>1, <2>1, <2>2 DEF OutlinedInOrder
<1>6. ModulesMerged'
  BY <1>1, MergedStays DEF IInv
<1>7. NeededAgrees'
  BY <1>1, <1>2 DEF IInv, NeededAgrees, Agree
<1> QED BY <1>4, <1>5, <1>6, <1>7 DEF IInv

-----------------------------------------------------------------------------
(***************************************************************************)
(* The wave.                                                                *)
(***************************************************************************)

\* While the wave runs the patcher's work stays what it was.
LEMMA PatcherStays ==
  ASSUME PatcherInv, idlePatcher PROVE PatcherInv'
<1>1. UNCHANGED <<prog, phase, nth, scavenged, owner, mir, refers, outlined>>
  BY DEF idlePatcher
<1>2. PayloadsInOrder' /\ RegistersFound'
  BY <1>1 DEF PatcherInv, PayloadsInOrder, RegistersFound
<1>3. OutlinedInOrder'
  <2>1. \A k : Gone(k)' = Gone(k)
    BY <1>1 DEF Gone, Rewritable, ScavClobbered, PairOf, Regs
  <2> QED BY <1>1, <2>1 DEF PatcherInv, OutlinedInOrder
<1>4. ModulesMerged'
  <2>1. \A o : Merged(o)' = Merged(o) /\ InTarget(o)' = InTarget(o)
    BY <1>1 DEF Merged, InTarget
  <2> HIDE DEF Merged, InTarget
  <2> QED BY <1>1, <2>1 DEF PatcherInv, ModulesMerged
<1> QED BY <1>2, <1>3, <1>4 DEF PatcherInv

\* Programs for which the patcher's code is transparent.
AllRegular == \A p \in Programs : IsRegular(p)

\* When the wave runs, every payload has what it needs.
LEMMA AllOutlinable ==
  ASSUME IInv, AllRegular, phase = "run", NEW k \in Payloads(prog)
  PROVE  Outlinable(k)
<1>1. prog \in Programs /\ Payloads(prog) = 1 .. Len(prog.payloads)
  BY ProgramIs DEF IInv, PayloadsInOrder, Payloads
<1>2. Regs(k) \in scavengeSGPRsAtSite(prog, k)
  BY <1>1 DEF IInv, PayloadsInOrder, RegistersFound, Regs
<1>3. Rewritable(k)
  BY <1>1 DEF IInv, OutlinedInOrder, Gone
<1> QED BY <1>1, <1>2, <1>3 DEF Outlinable, AllRegular

\* Where the wave is.
LEMMA WaveIs ==
  ASSUME IInv, Running
  PROVE  /\ prog \in Programs /\ phase = "run" /\ pc \in 1 .. Len(prog.code) /\ Len(prog.code) \in Nat
         /\ At.payload # 0 => At.payload \in Payloads(prog) /\ SiteOf(prog, At.payload) = pc
<1>1. prog \in Programs
  BY DEF IInv, PayloadsInOrder
<1>2. Len(prog.code) \in Nat /\ DOMAIN prog.code = 1 .. Len(prog.code)
  BY <1>1, ProgramIs
<1> QED BY <1>1, <1>2, SiteIs DEF Running, At

\* What the application and the payloads write is written to both.
LEMMA StraightKeeps == ASSUME IInv, Straight PROVE IInv'
<1>1. /\ Running /\ At.payload = 0 /\ file' = Written(file) /\ app' = Written(app)
      /\ pc' = pc + 1 /\ UNCHANGED inside /\ idlePatcher
  BY DEF Straight
<1>2. /\ prog \in Programs /\ phase = "run" /\ pc \in 1 .. Len(prog.code) /\ Len(prog.code) \in Nat
  BY <1>1, WaveIs
<1>3. inside = 0 /\ Agree(Needed(prog, pc))
  BY <1>1, <1>2 DEF IInv, NeededAgrees
<1>4. prog' = prog /\ phase' = phase
  BY <1>1 DEF idlePatcher
<1>5. ASSUME NEW r \in Registers, r \in Needed(prog, pc + 1) PROVE file'[r] = app'[r]
  <2>1. r \in At.def \/ r \in Needed(prog, pc)
    BY <1>2, <1>5, NeededIs DEF At
  <2>2. r \notin At.def => file[r] = app[r]
    BY <1>3, <2>1 DEF Agree
  <2> QED BY <1>1, <2>2, SetIs DEF Written
<1>6. NeededAgrees'
  <2>1. pc' \in 1 .. Len(prog.code) + 1
    BY <1>1, <1>2
  <2>2. Needed(prog, pc)' = Needed(prog, pc + 1)
    BY <1>1, <1>4
  <2>3. Agree(Needed(prog, pc))'
    BY <1>5, <2>2 DEF Agree
  <2> QED BY <1>1, <1>2, <1>3, <1>4, <2>1, <2>3 DEF NeededAgrees
<1>7. PatcherInv'
  BY <1>1, PatcherStays DEF IInv, PatcherInv
<1> QED BY <1>6, <1>7 DEF IInv, PatcherInv

\* The call leaves what the payload reads and what is needed behind it.
LEMMA CallKeeps == ASSUME IInv, AllRegular, Call PROVE IInv'
<1> DEFINE k == At.payload
<1>1. /\ Running /\ k # 0 /\ inside = 0 /\ file' = emitSICallAtPatchpoint(file, k)
      /\ inside' = k /\ UNCHANGED <<pc, app>> /\ idlePatcher
  BY DEF Call
<1>2. /\ prog \in Programs /\ phase = "run" /\ pc \in 1 .. Len(prog.code) /\ Len(prog.code) \in Nat
      /\ k \in Payloads(prog) /\ SiteOf(prog, k) = pc
  BY <1>1, WaveIs
<1>3. Agree(Needed(prog, pc))
  BY <1>1, <1>2 DEF IInv, NeededAgrees
<1>4. Outlinable(k)
  BY <1>2, AllOutlinable
<1>5. UNCHANGED <<prog, phase, scavenged>>
  BY <1>1 DEF idlePatcher
<1>6. LiveAtSite(prog, k) = LiveBefore(prog, pc + 1) /\ SVAReserved(prog, k) = At.storage
      /\ prog.code[SiteOf(prog, k)].use = At.use
  BY <1>2 DEF LiveAtSite, SVAReserved, At
<1>7. (LiveAtSite(prog, k) \ At.def) \cup At.storage \cup (At.use \ Taken(k)) \subseteq Needed(prog, pc)
  BY <1>2, <1>6, NeededIs DEF Needed, At
<1> HIDE DEF k
<1>8. ASSUME NEW r \in (LiveAtSite(prog, k) \ At.def) \cup At.storage \cup (At.use \ Taken(k)),
             r \in Registers
      PROVE  file'[r] = app'[r]
  <2>1. file'[r] = file[r]
    BY <1>1, <1>4, <1>6, <1>8, CallIs
  <2> QED BY <1>1, <1>3, <1>7, <1>8, <2>1 DEF Agree
<1>9. \A r \in PairOf(k) : file'[r] = After(k)
  BY <1>1, <1>4, CallIs
<1>10. NeededAgrees'
  <2>1. At' = At
    BY <1>1, <1>5 DEF At
  <2>2. ((LiveAtSite(prog, inside) \ At.def) \cup At.storage \cup (At.use \ Taken(inside)))'
          = (LiveAtSite(prog, k) \ At.def) \cup At.storage \cup (At.use \ Taken(k))
    BY <1>1, <1>5, <2>1 DEF Taken, PairOf, Regs
  <2>3. Agree((LiveAtSite(prog, inside) \ At.def) \cup At.storage \cup (At.use \ Taken(inside)))'
    BY <1>8, <2>2 DEF Agree
  <2>4. (\A r \in PairOf(inside) : file[r] = After(inside))'
    BY <1>1, <1>5, <1>9 DEF PairOf, Regs, After
  <2>5. (At.payload = inside)' /\ pc' <= Len(prog.code)' /\ pc' \in 1 .. Len(prog.code)' + 1
    BY <1>1, <1>2, <1>5, <2>1 DEF k
  <2>6. inside' # 0
    BY <1>1
  <2> QED BY <1>2, <1>5, <2>3, <2>4, <2>5, <2>6 DEF NeededAgrees
<1>11. PatcherInv'
  BY <1>1, PatcherStays DEF IInv, PatcherInv
<1> QED BY <1>10, <1>11 DEF IInv, PatcherInv

\* The payload returns behind its call, with what is needed there.
LEMMA ReturnKeeps == ASSUME IInv, AllRegular, Return PROVE IInv'
<1> DEFINE k == inside
<1>1. /\ Running /\ k # 0 /\ file' = rewritePayloadReturn(AtReturn(file, k), k)
      /\ pc' = IF \A r \in PairOf(k) : file'[r] = After(k) THEN SiteOf(prog, k) + 1 ELSE 0
      /\ inside' = 0 /\ app' = Written(app) /\ idlePatcher
  BY DEF Return
<1>2. At.payload = k
  BY <1>1 DEF IInv, NeededAgrees, Running
<1>3. /\ prog \in Programs /\ phase = "run" /\ pc \in 1 .. Len(prog.code) /\ Len(prog.code) \in Nat
      /\ k \in Payloads(prog) /\ SiteOf(prog, k) = pc
  BY <1>1, <1>2, WaveIs
<1>4. /\ Agree((LiveAtSite(prog, k) \ At.def) \cup At.storage \cup (At.use \ Taken(k)))
      /\ \A r \in PairOf(k) : file[r] = After(k)
  BY <1>1, <1>3 DEF IInv, NeededAgrees
<1>5. Outlinable(k)
  BY <1>3, AllOutlinable
<1>6. UNCHANGED <<prog, phase>>
  BY <1>1 DEF idlePatcher
<1>7. LiveAtSite(prog, k) = LiveBefore(prog, pc + 1) /\ SVAReserved(prog, k) = At.storage
  BY <1>3 DEF LiveAtSite, SVAReserved, At
<1>8. Needed(prog, pc + 1) \subseteq LiveAtSite(prog, k) \cup SVAReserved(prog, k)
  BY <1>3, <1>7, KeptAtSite DEF Needed
<1> HIDE DEF k
<1>9. pc' = pc + 1
  BY <1>1, <1>3, <1>4, <1>5, ReturnIs
<1>10. ASSUME NEW r \in Needed(prog, pc + 1), r \in Registers PROVE file'[r] = app'[r]
  <2>1. r \in LiveAtSite(prog, k) \cup SVAReserved(prog, k)
    BY <1>8
  <2>2. file'[r] = IF r \in At.def THEN <<"new", pc>> ELSE file[r]
    BY <1>1, <1>3, <1>4, <1>5, <1>10, <2>1, ReturnIs
  <2>3. app'[r] = IF r \in At.def THEN <<"new", pc>> ELSE app[r]
    BY <1>1, <1>10, SetIs DEF Written
  <2>4. r \notin At.def => file[r] = app[r]
    BY <1>4, <1>7, <1>10, <2>1 DEF Agree
  <2> QED BY <2>2, <2>3, <2>4
<1>11. NeededAgrees'
  <2>1. Needed(prog, pc)' = Needed(prog, pc + 1)
    BY <1>6, <1>9
  <2>2. Agree(Needed(prog, pc))'
    BY <1>10, <2>1 DEF Agree
  <2>3. pc' \in 1 .. Len(prog.code)' + 1
    BY <1>3, <1>6, <1>9
  <2> QED BY <1>1, <1>3, <1>6, <2>2, <2>3 DEF NeededAgrees
<1>12. PatcherInv'
  BY <1>1, PatcherStays DEF IInv, PatcherInv
<1> QED BY <1>11, <1>12 DEF IInv, PatcherInv

\* Between steps, and when the wave is over, nothing changes.
LEMMA StutterKeeps == ASSUME IInv, UNCHANGED vars PROVE IInv'
<1>1. idlePatcher /\ UNCHANGED <<pc, file, app, inside>>
  BY DEF vars, idlePatcher
<1>2. PatcherInv'
  BY <1>1, PatcherStays DEF IInv, PatcherInv
<1>3. UNCHANGED <<prog, phase, scavenged>>
  BY <1>1 DEF idlePatcher
<1>4. NeededAgrees'
  BY <1>1, <1>3 DEF IInv, NeededAgrees, Agree, At, Taken, PairOf, Regs
<1> QED BY <1>2, <1>4 DEF IInv, PatcherInv

\* Every step of the patcher and of the wave keeps the invariant.
LEMMA StepsKeep == ASSUME AllRegular PROVE IInv /\ [Next]_vars => IInv'
<1> SUFFICES ASSUME IInv, [Next]_vars PROVE IInv'
  OBVIOUS
<1>1. CASE moveIModuleIntoTarget
  BY <1>1, MoveKeeps
<1>2. CASE Scavenge
  BY <1>2, ScavengeKeeps
<1>3. CASE Scavenged
  BY <1>3, ScavengedKeeps
<1>4. CASE Outline
  BY <1>4, OutlineKeeps
<1>5. CASE Launch
  BY <1>5, LaunchKeeps
<1>6. CASE Straight
  BY <1>6, StraightKeeps
<1>7. CASE Call
  BY <1>7, CallKeeps
<1>8. CASE Return
  BY <1>8, ReturnKeeps
<1>9. CASE Over \/ UNCHANGED vars
  BY <1>9, StutterKeeps DEF Over
<1> QED BY <1>1, <1>2, <1>3, <1>4, <1>5, <1>6, <1>7, <1>8, <1>9 DEF Next

-----------------------------------------------------------------------------
(***************************************************************************)
(* The theorems.                                                            *)
(***************************************************************************)

\* Whatever TargetModulePatcherPass patches, its work is in order at every step, and the
\* wave has what anything behind it needs.
THEOREM OutliningInvariant ==
  ASSUME AllRegular
  PROVE  Spec => []IInv
<1>1. Init => IInv
  BY StartsWell
<1>2. IInv /\ [Next]_vars => IInv'
  BY StepsKeep
<1> QED BY <1>1, <1>2, PTL DEF Spec

\* A payload's return, rewritten or not, goes to the instruction behind its call,
\* whichever pair was free there and whatever the payload did with it
\* (scavengeSGPRsAtSite, rewritePayloadReturn).
THEOREM PayloadsReturn ==
  ASSUME AllRegular
  PROVE  Spec => []ReturnsHome
<1>1. IInv => ReturnsHome
  <2> SUFFICES ASSUME IInv, phase = "run", inside = 0 PROVE pc # 0
    BY DEF ReturnsHome
  <2>1. pc \in 1 .. Len(prog.code) + 1 /\ Len(prog.code) \in Nat
    BY ProgramIs DEF IInv, NeededAgrees, PayloadsInOrder
  <2> QED BY <2>1
<1> QED BY <1>1, OutliningInvariant, PTL

\* No call disturbs what the application or a later payload reads, or where the array is
\* kept, however many payloads there are and in whatever registers; its own payload may
\* miss what the call took, and nothing else (emitSICallAtPatchpoint,
\* rewritePayloadReturn).
THEOREM CallsDisturbNothing ==
  ASSUME AllRegular
  PROVE  Spec => []AppUndisturbed
<1>1. ASSUME IInv PROVE AppUndisturbed
  <2>1. ASSUME Running, NEW r \in At.use \cup At.storage
        PROVE  file[r] = app[r] \/ (inside # 0 /\ r \in At.use \cap Taken(inside))
    <3>1. prog \in Programs /\ phase = "run" /\ pc \in 1 .. Len(prog.code)
      BY <1>1, <2>1, WaveIs
    <3>2. r \in Registers
      BY <2>1, <3>1, ProgramIs, SCCIsNone DEF At
    <3>3. CASE inside = 0
      <4>1. r \in Needed(prog, pc)
        BY <2>1, <3>1, NeededIs DEF At
      <4> QED BY <1>1, <3>1, <3>2, <3>3, <4>1 DEF IInv, NeededAgrees, Agree
    <3>4. CASE inside # 0
      BY <1>1, <2>1, <3>1, <3>2, <3>4 DEF IInv, NeededAgrees, Agree
    <3> QED BY <3>3, <3>4
  <2>2. ASSUME phase = "run", pc > Len(prog.code), NEW r \in prog.liveout PROVE file[r] = app[r]
    <3>1. prog \in Programs /\ Len(prog.code) \in Nat /\ pc \in 1 .. Len(prog.code) + 1
      BY <1>1, <2>2, ProgramIs DEF IInv, NeededAgrees, PayloadsInOrder
    <3>2. pc = Len(prog.code) + 1 /\ inside = 0
      BY <1>1, <2>2, <3>1 DEF IInv, NeededAgrees
    <3>3. r \in Registers /\ r \in Needed(prog, pc)
      BY <2>2, <3>1, <3>2, ProgramIs, NeededAtEnd
    <3> QED BY <1>1, <2>2, <3>2, <3>3 DEF IInv, NeededAgrees, Agree
  <2> QED BY <2>1, <2>2 DEF AppUndisturbed
<1>2. IInv => AppUndisturbed
  BY <1>1
<1> QED BY <1>2, OutliningInvariant, PTL

\* After the merge nothing in the target module refers to the instrumentation module,
\* whose declarations were redirected, and what has machine code has it where the
\* printer looks for it (moveIModuleIntoTarget, movePayloadMFIntoTarget).
THEOREM TargetModuleIsComplete ==
  ASSUME AllRegular
  PROVE  Spec => []SelfContained
<1>1. ASSUME IInv PROVE SelfContained
  <2> SUFFICES ASSUME phase = "run", NEW o \in Objects(prog), owner[o] = "T"
               PROVE  (\A x \in refers[o] : owner[x] = "T") /\ mir[o] \in {"T", "none"}
    BY DEF SelfContained
  <2>1. prog \in Programs /\ ModulesMatch(prog) /\ IsRegular(prog)
        /\ \A x \in Objects(prog) : Obj(prog, x).home \in {"T", "I"}
    BY <1>1, ProgramsAssumption DEF IInv, PayloadsInOrder, IsProgram, AllRegular
  <2>2. /\ refers[o] = Merged(o) /\ mir[o] \in {"T", "none"}
        /\ \A x \in Objects(prog) : InTarget(x) => owner[x] = "T"
    BY <1>1 DEF IInv, ModulesMerged
  <2>3. Payloads(prog) \subseteq outlined
    BY <1>1, <2>1, ProgramIs DEF IInv, OutlinedInOrder, Gone, Payloads
  <2>4. ASSUME NEW x \in Objects(prog), ~Obj(prog, x).llvm, x \notin Redirected(prog)
        PROVE  InTarget(x)
    <3>1. CASE Obj(prog, x).home = "T"
      BY <3>1 DEF InTarget
    <3>2. CASE Obj(prog, x).home = "I" /\ Obj(prog, x).kind = "payload"
      BY <2>1, <2>3, <3>2 DEF InTarget, ModulesMatch
    <3>3. CASE Obj(prog, x).home = "I" /\ Obj(prog, x).kind # "payload"
      BY <2>4, <3>3 DEF InTarget, Moved, IModule
    <3> QED BY <2>1, <3>1, <3>2, <3>3
  <2>5. ASSUME NEW x \in Remapped(prog, Obj(prog, o).refs)
        PROVE  x \in Objects(prog) /\ InTarget(x)
    <3>1. PICK y \in Obj(prog, o).refs : x = Target(prog, y)
      BY <2>5 DEF Remapped
    <3>2. y \in Objects(prog) /\ ~Obj(prog, y).llvm
      BY <2>1, <3>1 DEF ModulesMatch
    <3>3. CASE y \in Redirected(prog)
      <4>1. x \in Existing(prog, y)
        BY <3>1, <3>3 DEF Target, Redirected
      <4> QED BY <4>1 DEF Existing, InTarget
    <3>4. CASE y \notin Redirected(prog)
      BY <2>4, <3>1, <3>2, <3>4 DEF Target
    <3> QED BY <3>3, <3>4
  <2>6. ASSUME NEW x \in Obj(prog, o).mirRefs, o \in IModule(prog), Obj(prog, o).kind = "payload"
        PROVE  x \in Objects(prog) /\ InTarget(x)
    <3>1. x \in Objects(prog) /\ ~Obj(prog, x).llvm
      BY <2>1, <2>6 DEF ModulesMatch
    <3>2. x \notin Redirected(prog)
      BY <2>1, <2>6 DEF IsRegular
    <3> QED BY <2>4, <3>1, <3>2
  <2>7. \A x \in Merged(o) : x \in Objects(prog) /\ InTarget(x)
    BY <2>5, <2>6 DEF Merged
  <2> QED BY <2>2, <2>7
<1>2. IInv => SelfContained
  BY <1>1
<1> QED BY <1>2, OutliningInvariant, PTL

\* All three at once: the application cannot tell that its payloads are outlined.
THEOREM PayloadsAreTransparent ==
  ASSUME AllRegular
  PROVE  Spec => []OutliningSound
<1>1. ReturnsHome /\ AppUndisturbed /\ SelfContained => OutliningSound
  BY DEF OutliningSound
<1> QED BY <1>1, PayloadsReturn, CallsDisturbNothing, TargetModuleIsComplete, PTL
===============================================================================
