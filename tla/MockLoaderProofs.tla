-------------------------- MODULE MockLoaderProofs --------------------------
(***************************************************************************)
(* Proofs about MockLoader for any code objects, symbols, uses and         *)
(* definitions, loaded in any order: what finalization binds.              *)
(***************************************************************************)
EXTENDS MockLoader, SequenceTheorems, TLAPS

Blank(U) == [s \in U |-> Fresh]
BlankImages == {Blank(U) : U \in SUBSET Symbols}

TypeOK ==
  /\ loading \in {"open", "relocating", "finalized", "failed"}
  /\ lcos \in Seq(CodeObjects)
  /\ DOMAIN image = Positions
  /\ \A i \in Positions : DOMAIN image[i] = Uses[lcos[i]]
  /\ loading = "open" => image \in Seq(BlankImages)
  /\ cursor \in [lco : {0} \cup Positions, walk : {1, 2}]

\* A code object that knows a name that is known already is refused.
KnownOnce ==
  \A i, j \in Good : i < j => \A s \in DynSym(lcos[j]) : Lookup(lcos[i], s) = "none"

\* Where finalization is: it has not begun, or it works on one code object.
AtWork ==
  /\ cursor.lco = 0 => cursor.walk = 2 /\ pending = {}
  /\ cursor.lco # 0 => pending \subseteq Uses[lcos[cursor.lco]]
  /\ loading = "open" => cursor.lco = 0
  /\ loading = "finalized" => LastWalk /\ pending = {}

\* The relocations that a first walk has applied.
Applied(i, s) ==
  \/ i < cursor.lco
  \/ i = cursor.lco /\ (cursor.walk = 2 \/ s \notin pending)

Bound(i, s) ==
  /\ Resolve(i, s) # Unresolved
  /\ image[i][s].target = Resolve(i, s)
  /\ lcos[i] \notin InPlace => image[i][s].times = 1

AppliedIsBound ==
  loading \in {"relocating", "finalized"} =>
    \A i \in Positions : \A s \in Uses[lcos[i]] : Applied(i, s) => Bound(i, s)

IInv ==
  /\ TypeOK
  /\ KnownOnce
  /\ AtWork
  /\ AppliedIsBound

-----------------------------------------------------------------------------
LEMMA InitIInv == ASSUME LoaderInit PROVE IInv
<1>1. Len(lcos) = 0 /\ Positions = {} /\ Good = {}
  BY DEF LoaderInit, Positions, Good
<1>2. TypeOK
  BY <1>1 DEF LoaderInit, TypeOK
<1>3. KnownOnce /\ AtWork /\ AppliedIsBound
  BY <1>1 DEF LoaderInit, KnownOnce, AtWork, AppliedIsBound
<1>4. QED
  BY <1>2, <1>3 DEF IInv

\* What emplacing a code object does to the list and the images.
LEMMA Emplaced ==
  ASSUME IInv, loading = "open", NEW c \in CodeObjects, Emplace(c)
  PROVE  LET n == Len(lcos)
         IN /\ n \in Nat /\ Positions = 1 .. n /\ Positions' = 1 .. n + 1
            /\ lcos' \in Seq(CodeObjects) /\ Len(lcos') = n + 1 /\ lcos'[n + 1] = c
            /\ \A i \in Positions : lcos'[i] = lcos[i]
            /\ image' \in Seq(BlankImages)
            /\ DOMAIN image' = Positions'
            /\ \A i \in Positions' : DOMAIN image'[i] = Uses[lcos'[i]]
<1> DEFINE n == Len(lcos)
<1>1. /\ lcos \in Seq(CodeObjects) /\ image \in Seq(BlankImages) /\ n \in Nat
      /\ lcos' = Append(lcos, c) /\ image' = Append(image, Blank(Uses[c]))
  BY DEF IInv, TypeOK, Emplace, Blank
<1>2. Blank(Uses[c]) \in BlankImages
  BY MockLoaderAssumption DEF BlankImages
<1>3. /\ lcos' \in Seq(CodeObjects) /\ Len(lcos') = n + 1 /\ lcos'[n + 1] = c
      /\ \A i \in 1 .. n : lcos'[i] = lcos[i]
  BY <1>1, AppendProperties
<1>4. Len(image) \in Nat /\ DOMAIN image = 1 .. Len(image) /\ DOMAIN image = 1 .. n
  BY <1>1 DEF IInv, TypeOK, Positions
<1>5. Len(image) = n
  BY <1>1, <1>4
<1>6. /\ image' \in Seq(BlankImages) /\ Len(image') = n + 1 /\ image'[n + 1] = Blank(Uses[c])
      /\ \A i \in 1 .. n : image'[i] = image[i]
  BY <1>1, <1>2, <1>5, AppendProperties
<1>7. \A i \in 1 .. n + 1 : DOMAIN image'[i] = Uses[lcos'[i]]
  <2> SUFFICES ASSUME NEW i \in 1 .. n + 1 PROVE DOMAIN image'[i] = Uses[lcos'[i]]
    OBVIOUS
  <2>1. CASE i \in 1 .. n
    BY <1>3, <1>6, <2>1 DEF IInv, TypeOK, Positions
  <2>2. CASE i = n + 1
    BY <1>3, <1>6, <2>2 DEF Blank
  <2>3. i \in 1 .. n \/ i = n + 1
    BY <1>1
  <2>4. QED
    BY <2>1, <2>2, <2>3
<1>8. DOMAIN image' = 1 .. n + 1
  BY <1>6
<1>9. QED
  BY <1>1, <1>3, <1>6, <1>7, <1>8 DEF Positions

LEMMA LoadKeepsIInv ==
  ASSUME IInv, NEW c \in CodeObjects,
         LoadCodeObject(c) \/ LoadClashes(c) \/ LoadMalformed(c)
  PROVE  IInv'
<1> DEFINE n == Len(lcos)
<1>1. /\ loading = "open" /\ Emplace(c) /\ UNCHANGED <<externals, cursor, pending>>
      /\ cursor.lco = 0
      /\ \/ loading' = "open" /\ Clashes(c) = {}
         \/ loading' = "failed"
  BY DEF IInv, AtWork, LoadCodeObject, LoadClashes, LoadMalformed
<1>2. /\ n \in Nat /\ Positions = 1 .. n /\ Positions' = 1 .. n + 1
      /\ lcos' \in Seq(CodeObjects) /\ Len(lcos') = n + 1 /\ lcos'[n + 1] = c
      /\ \A i \in Positions : lcos'[i] = lcos[i]
      /\ image' \in Seq(BlankImages)
      /\ DOMAIN image' = Positions'
      /\ \A i \in Positions' : DOMAIN image'[i] = Uses[lcos'[i]]
  BY <1>1, Emplaced
<1>3. TypeOK'
  <2>1. cursor' \in [lco : {0} \cup Positions', walk : {1, 2}]
    BY <1>1, <1>2 DEF IInv, TypeOK
  <2>2. QED
    BY <1>1, <1>2, <2>1 DEF TypeOK
<1>4. KnownOnce'
  <2> SUFFICES ASSUME NEW i \in Good', NEW j \in Good', i < j, NEW s \in DynSym(lcos'[j])
               PROVE  Lookup(lcos'[i], s) = "none"
    BY DEF KnownOnce, DynSym, Lookup
  <2>1. Good = 1 .. n
    BY <1>1, <1>2 DEF Good
  <2>2. CASE loading' = "failed"
    <3>1. Good' = 1 .. n
      BY <1>1, <1>2, <2>2 DEF Good
    <3>2. QED
      BY <1>2, <2>1, <3>1 DEF IInv, KnownOnce
  <2>3. CASE loading' = "open" /\ Clashes(c) = {}
    <3>1. Good' = 1 .. n + 1
      BY <1>2, <2>3 DEF Good
    <3>2. CASE j \in 1 .. n
      <4>1. i \in 1 .. n /\ i \in Good /\ j \in Good
        BY <1>2, <2>1, <3>1, <3>2
      <4>2. lcos'[i] = lcos[i] /\ lcos'[j] = lcos[j]
        BY <1>2, <3>2, <4>1
      <4>3. QED
        BY <4>1, <4>2 DEF IInv, KnownOnce
    <3>3. CASE j = n + 1
      <4>1. i \in Positions /\ s \in DynSym(c)
        BY <1>2, <3>1, <3>3
      <4>2. Finders(s) = {}
        BY <2>3, <4>1 DEF Clashes
      <4>3. QED
        BY <1>2, <4>1, <4>2 DEF Finders
    <3>4. QED
      BY <1>2, <3>1, <3>2, <3>3
  <2>4. QED
    BY <1>1, <2>2, <2>3
<1>5. AtWork' /\ AppliedIsBound'
  BY <1>1 DEF IInv, AtWork, AppliedIsBound
<1>6. QED
  BY <1>3, <1>4, <1>5 DEF IInv

\* What a name resolves to depends on the list and on the external symbols only.
LEMMA SameResolution ==
  ASSUME UNCHANGED <<lcos, externals>>
  PROVE  /\ Positions' = Positions
         /\ \A i, s : Resolve(i, s)' = Resolve(i, s)
<1>1. Positions' = Positions /\ \A s : Finders(s)' = Finders(s)
  BY DEF Positions, Finders
<1>2. QED
  BY <1>1 DEF Resolve

\* As long as the list is as it was and nothing more counts as loaded.
LEMMA SameList ==
  ASSUME IInv, UNCHANGED <<lcos>>, Good' \subseteq Good
  PROVE  KnownOnce'
  BY DEF IInv, KnownOnce

LEMMA DefineKeepsIInv ==
  ASSUME IInv, NEW s, NEW a, DefineExternalSymbol(s, a) \/ DefineAgain(s)
  PROVE  IInv'
<1>1. /\ loading = "open" /\ loading' \in {"open", "failed"}
      /\ UNCHANGED <<lcos, image, cursor, pending>>
  BY DEF DefineExternalSymbol, DefineAgain
<1>2. TypeOK' /\ AtWork' /\ AppliedIsBound'
  BY <1>1 DEF IInv, TypeOK, Positions, AtWork, AppliedIsBound
<1>3. Len(lcos) \in Nat
  BY DEF IInv, TypeOK
<1>4. Good' \subseteq Good
  BY <1>1, <1>3 DEF Good, Positions
<1>5. QED
  BY <1>1, <1>2, <1>4, SameList DEF IInv

LEMMA FinalizeKeepsIInv ==
  ASSUME IInv, Finalize
  PROVE  IInv'
<1>1. /\ loading = "open" /\ loading' = "relocating" /\ cursor.lco = 0
      /\ UNCHANGED <<lcos, externals, image, cursor, pending>>
  BY DEF IInv, AtWork, Finalize
<1>2. TypeOK' /\ AtWork'
  BY <1>1 DEF IInv, TypeOK, Positions, AtWork
<1>3. Good' \subseteq Good
  BY <1>1 DEF Good, Positions
<1>4. \A i \in Positions : \A s : ~Applied(i, s)'
  BY <1>1 DEF IInv, TypeOK, Positions, Applied
<1>5. AppliedIsBound'
  BY <1>1, <1>4 DEF AppliedIsBound, Positions
<1>6. QED
  BY <1>1, <1>2, <1>3, <1>5, SameList DEF IInv

LEMMA NextWalkKeepsIInv ==
  ASSUME IInv, NextWalk
  PROVE  IInv'
<1>1. /\ loading = "relocating" /\ pending = {} /\ ~LastWalk
      /\ cursor' = IF cursor.walk = 1 THEN [cursor EXCEPT !.walk = 2]
                   ELSE [lco |-> cursor.lco + 1, walk |-> 1]
      /\ pending' = Uses[lcos[cursor'.lco]]
      /\ UNCHANGED <<loading, lcos, externals, image>>
  BY DEF NextWalk
<1>2. /\ Len(lcos) \in Nat /\ Positions = 1 .. Len(lcos)
      /\ cursor = [lco |-> cursor.lco, walk |-> cursor.walk]
      /\ cursor.lco \in 0 .. Len(lcos) /\ cursor.walk \in {1, 2}
  BY DEF IInv, TypeOK, Positions
<1>3. \/ /\ cursor.walk = 1 /\ cursor.lco # 0
         /\ cursor'.lco = cursor.lco /\ cursor'.walk = 2
      \/ /\ cursor.walk = 2 /\ cursor'.lco = cursor.lco + 1 /\ cursor'.walk = 1
         /\ cursor.lco < Len(lcos)
  <2>1. CASE cursor.walk = 1
    BY <1>1, <1>2, <2>1 DEF IInv, AtWork
  <2>2. CASE cursor.walk = 2
    <3>1. cursor.lco # Len(lcos)
      BY <1>1, <1>2, <2>2 DEF LastWalk
    <3>2. QED
      BY <1>1, <1>2, <2>2, <3>1
  <2>3. QED
    BY <1>2, <2>1, <2>2
<1>4. /\ cursor'.lco \in Positions /\ cursor'.lco # 0
      /\ cursor' \in [lco : {0} \cup Positions, walk : {1, 2}]
  <2>1. cursor'.lco \in 1 .. Len(lcos)
    BY <1>2, <1>3
  <2>2. cursor' \in [lco : {0} \cup 1 .. Len(lcos), walk : {1, 2}]
    BY <1>1, <1>2, <2>1
  <2>3. QED
    BY <1>2, <2>1, <2>2
<1>5. TypeOK'
  BY <1>1, <1>4 DEF IInv, TypeOK, Positions
<1>6. AtWork'
  BY <1>1, <1>4 DEF AtWork
<1>7. Good' \subseteq Good
  BY <1>1 DEF Good, Positions
<1>8. AppliedIsBound'
  <2> SUFFICES ASSUME NEW i \in Positions, NEW s \in Uses[lcos[i]], Applied(i, s)'
               PROVE  Bound(i, s)'
    BY <1>1, SameResolution DEF AppliedIsBound
  <2>1. Applied(i, s)
    BY <1>1, <1>2, <1>3 DEF Applied
  <2>2. Bound(i, s)
    BY <1>1, <2>1 DEF IInv, AppliedIsBound
  <2>3. QED
    BY <1>1, <2>2, SameResolution DEF Bound
<1>9. QED
  BY <1>1, <1>5, <1>6, <1>7, <1>8, SameList DEF IInv

LEMMA ApplyKeepsIInv ==
  ASSUME IInv, NEW s, ApplyRelocation(s)
  PROVE  IInv'
<1> DEFINE c == cursor.lco
<1>1. /\ loading = "relocating" /\ s \in pending /\ Resolve(c, s) # Unresolved
      /\ image' = [image EXCEPT ![c][s] = Patched(lcos[c], image[c][s], Resolve(c, s))]
      /\ pending' = pending \ {s}
      /\ UNCHANGED <<loading, lcos, externals, cursor>>
  BY DEF ApplyRelocation
<1>2. c \in Positions /\ s \in Uses[lcos[c]] /\ c # 0
  BY <1>1 DEF IInv, TypeOK, AtWork
<1>3. /\ DOMAIN image = Positions /\ \A i \in Positions : DOMAIN image[i] = Uses[lcos[i]]
  BY DEF IInv, TypeOK
<1>4. /\ DOMAIN image' = Positions
      /\ \A i \in Positions : DOMAIN image'[i] = Uses[lcos[i]]
      /\ image'[c][s] = Patched(lcos[c], image[c][s], Resolve(c, s))
      /\ \A i \in Positions : \A r \in Uses[lcos[i]] :
           i # c \/ r # s => image'[i][r] = image[i][r]
  BY <1>1, <1>2, <1>3
<1>5. TypeOK'
  BY <1>1, <1>4 DEF IInv, TypeOK, Positions
<1>6. AtWork'
  BY <1>1, <1>2 DEF IInv, AtWork
<1>7. Good' \subseteq Good
  BY <1>1 DEF Good, Positions
<1>8. AppliedIsBound'
  <2> SUFFICES ASSUME NEW i \in Positions, NEW r \in Uses[lcos[i]], Applied(i, r)'
               PROVE  Bound(i, r)'
    BY <1>1, SameResolution DEF AppliedIsBound
  <2>1. CASE i = c /\ r = s
    <3>1. /\ image'[i][r].target = Resolve(i, r)
          /\ lcos[i] \notin InPlace => image'[i][r].times = 1
      BY <1>4, <2>1 DEF Patched
    <3>2. QED
      BY <1>1, <2>1, <3>1, SameResolution DEF Bound
  <2>2. CASE i # c \/ r # s
    <3>1. Applied(i, r)
      BY <1>1, <2>2 DEF Applied
    <3>2. Bound(i, r)
      BY <1>1, <3>1 DEF IInv, AppliedIsBound
    <3>3. QED
      BY <1>1, <1>4, <2>2, <3>2, SameResolution DEF Bound
  <2>3. QED
    BY <2>1, <2>2
<1>9. QED
  BY <1>1, <1>5, <1>6, <1>7, <1>8, SameList DEF IInv

\* The first error, or the end of the last walk.
LEMMA EndKeepsIInv ==
  ASSUME IInv, FinalizeDone \/ \E s \in Symbols : RelocationFails(s)
  PROVE  IInv'
<1>1. /\ loading = "relocating" /\ UNCHANGED <<lcos, externals, image, cursor, pending>>
      /\ \/ loading' = "finalized" /\ pending = {} /\ LastWalk
         \/ loading' = "failed" /\ pending # {}
  BY DEF FinalizeDone, RelocationFails
<1>2. TypeOK'
  BY <1>1 DEF IInv, TypeOK, Positions
<1>3. AtWork'
  BY <1>1 DEF IInv, AtWork, LastWalk
<1>4. Good' \subseteq Good
  BY <1>1 DEF IInv, AtWork, Good, Positions
<1>5. \A i \in Positions : \A s : Applied(i, s)' <=> Applied(i, s)
  BY <1>1 DEF Applied
<1>6. AppliedIsBound'
  BY <1>1, <1>5, SameResolution DEF IInv, AppliedIsBound, Bound
<1>7. QED
  BY <1>1, <1>2, <1>3, <1>4, <1>6, SameList DEF IInv

LEMMA StepKeepsIInv == IInv /\ [LoaderNext]_loaderVars => IInv'
<1> SUFFICES ASSUME IInv, [LoaderNext]_loaderVars PROVE IInv'
  OBVIOUS
<1>1. CASE UNCHANGED loaderVars
  <2>1. UNCHANGED <<loading, lcos, externals, image, cursor, pending>>
    BY <1>1 DEF loaderVars
  <2>2. TypeOK' /\ AtWork' /\ Good' = Good
    BY <2>1 DEF IInv, TypeOK, AtWork, Positions, LastWalk, Good
  <2>3. AppliedIsBound'
    BY <2>1, SameResolution DEF IInv, AppliedIsBound, Applied, Bound
  <2>4. QED
    BY <2>1, <2>2, <2>3, SameList DEF IInv
<1>2. CASE LoaderNext
  <2>1. ASSUME NEW c \in CodeObjects,
               LoadCodeObject(c) \/ LoadClashes(c) \/ LoadMalformed(c)
        PROVE  IInv'
    BY <2>1, LoadKeepsIInv
  <2>2. ASSUME NEW s \in Symbols, NEW a, DefineExternalSymbol(s, a) \/ DefineAgain(s)
        PROVE  IInv'
    BY <2>2, DefineKeepsIInv
  <2>3. ASSUME NEW s \in Symbols, ApplyRelocation(s) PROVE IInv'
    BY <2>3, ApplyKeepsIInv
  <2>4. ASSUME FinalizeDone \/ \E s \in Symbols : RelocationFails(s) PROVE IInv'
    BY <2>4, EndKeepsIInv
  <2>5. QED
    BY <1>1, <1>2, <2>1, <2>2, <2>3, <2>4, FinalizeKeepsIInv, NextWalkKeepsIInv
    DEF LoaderNext, Over
<1>3. QED
  BY <1>1, <1>2

(***************************************************************************)
(* In every run of the pass the loader keeps to the invariant above.       *)
(***************************************************************************)
THEOREM MockLoaderInvariant == LoaderSpec => []IInv
  BY InitIInv, StepKeepsIInv, PTL DEF LoaderSpec

-----------------------------------------------------------------------------
\* A definer of a symbol is the only one to know its name.
LEMMA DefinerIsFound ==
  ASSUME IInv, loading # "failed", NEW s, NEW j \in Definers(s)
  PROVE  Finders(s) = {j}
<1>1. Good = Positions /\ j \in Positions /\ Positions \subseteq Nat
  BY DEF Good, Definers, Positions
<1>2. Lookup(lcos[j], s) = "definition" /\ s \in DynSym(lcos[j])
  BY DEF Definers, Lookup, DynSym
<1>3. ASSUME NEW k \in Positions, k # j PROVE Lookup(lcos[k], s) = "none"
  <2>1. CASE k < j
    BY <1>1, <1>2, <1>3, <2>1 DEF IInv, KnownOnce
  <2>2. CASE j < k
    <3>1. s \notin DynSym(lcos[k])
      BY <1>1, <1>2, <1>3, <2>2 DEF IInv, KnownOnce
    <3>2. QED
      BY <3>1 DEF DynSym, Lookup
  <2>3. QED
    BY <1>1, <1>3, <2>1, <2>2
<1>4. QED
  BY <1>1, <1>2, <1>3 DEF Finders

LEMMA UniqueOnceGood == IInv => UniqueDefinition
<1> SUFFICES ASSUME IInv, NEW i \in Good, NEW j \in Good, i < j, NEW s \in Defines[lcos[i]],
                    s \in Defines[lcos[j]]
             PROVE  FALSE
  <2>1. Good \subseteq Nat
    BY DEF IInv, TypeOK, Good, Positions
  <2>2. QED
    BY <2>1 DEF UniqueDefinition
<1>1. s \in DynSym(lcos[j]) /\ Lookup(lcos[i], s) = "definition"
  BY DEF DynSym, Lookup
<1>2. QED
  BY <1>1 DEF IInv, KnownOnce

\* What a name that is resolved means.
LEMMA ResolvedByDefinition ==
  ASSUME IInv, loading # "failed", NEW s, NEW j \in Definers(s), NEW i \in Positions
  PROVE  Resolve(i, s) = [by |-> "definition", of |-> j]
<1>1. Finders(s) = {j} /\ Lookup(lcos[j], s) = "definition" /\ j \in Positions
  BY DefinerIsFound DEF Definers, Lookup
<1>2. CASE s \in Defines[lcos[i]]
  <2>1. i \in Finders(s)
    BY <1>2 DEF Finders, Lookup
  <2>2. QED
    BY <1>1, <1>2, <2>1 DEF Resolve
<1>3. CASE s \notin Defines[lcos[i]]
  <2>1. Min(Finders(s)) = j
    <3>1. j \in Nat
      BY <1>1 DEF Positions
    <3>2. QED
      BY <1>1, <3>1 DEF Min
  <2>2. QED
    BY <1>1, <1>3, <2>1 DEF Resolve
<1>4. QED
  BY <1>2, <1>3

LEMMA ResolvedExternally ==
  ASSUME NEW s, Definers(s) \cup ListedBy(s) = {}, NEW i \in Positions,
         Resolve(i, s) # Unresolved
  PROVE  s \in DOMAIN externals /\ Resolve(i, s) = [by |-> "external", of |-> externals[s]]
<1>1. s \notin Defines[lcos[i]]
  BY DEF Definers
<1>2. Finders(s) = {}
  BY DEF Finders, Lookup, Definers, ListedBy
<1>3. QED
  BY <1>1, <1>2 DEF Resolve

(***************************************************************************)
(* Whatever is loaded and defined in whatever order, a name means one      *)
(* thing, and finalize() leaves every relocation bound once to what its    *)
(* name means (loadCodeObject, finalize, lookupSymbolByName).              *)
(***************************************************************************)
THEOREM EveryRelocationIsBound == LoaderSpec => []BoundToDefinition
<1>1. IInv => BoundOnce
  <2> SUFFICES ASSUME IInv, loading = "finalized", NEW i \in Positions,
                      NEW s \in Uses[lcos[i]], lcos[i] \notin InPlace
               PROVE  LET target == image[i][s].target
                      IN /\ image[i][s].times = 1
                         /\ Definers(s) # {} =>
                              target.by = "definition" /\ Definers(s) = {target.of}
                         /\ Definers(s) \cup ListedBy(s) = {} =>
                              /\ s \in DOMAIN externals
                              /\ target = [by |-> "external", of |-> externals[s]]
    BY DEF BoundOnce
  <2>1. Applied(i, s)
    BY DEF IInv, TypeOK, AtWork, LastWalk, Applied, Positions
  <2>2. Bound(i, s)
    BY <2>1 DEF IInv, AppliedIsBound
  <2>3. ASSUME NEW j \in Definers(s)
        PROVE  /\ image[i][s].target = [by |-> "definition", of |-> j]
               /\ Definers(s) = {j}
    <3>1. image[i][s].target = [by |-> "definition", of |-> j]
      BY <2>2, ResolvedByDefinition DEF Bound
    <3>2. \A k \in Definers(s) : Finders(s) = {k}
      BY DefinerIsFound
    <3>3. QED
      BY <2>3, <3>1, <3>2
  <2>4. Definers(s) # {} => /\ image[i][s].target.by = "definition"
                            /\ Definers(s) = {image[i][s].target.of}
    <3> SUFFICES ASSUME NEW j \in Definers(s)
                 PROVE  /\ image[i][s].target.by = "definition"
                        /\ Definers(s) = {image[i][s].target.of}
      OBVIOUS
    <3>1. image[i][s].target = [by |-> "definition", of |-> j] /\ Definers(s) = {j}
      BY <2>3, Zenon
    <3>2. image[i][s].target.by = "definition" /\ image[i][s].target.of = j
      BY <3>1
    <3>3. QED
      BY <3>1, <3>2
  <2>5. Definers(s) \cup ListedBy(s) = {} =>
          s \in DOMAIN externals /\ Resolve(i, s) = [by |-> "external", of |-> externals[s]]
    BY <2>2, ResolvedExternally DEF Bound
  <2>6. QED
    BY <2>2, <2>4, <2>5 DEF Bound
<1>2. IInv => BoundToDefinition
  BY <1>1, UniqueOnceGood DEF BoundToDefinition
<1>3. QED
  BY <1>2, MockLoaderInvariant, PTL
=============================================================================
