----------------------------- MODULE MockLoader -----------------------------
(***************************************************************************)
(* luthier::MockAMDGPULoader (MockAMDGPULoader.{h,cpp}) as its client, the *)
(* pass MockLoadAMDGPUCodeObjects, drives it: code objects are loaded and  *)
(* external symbols defined, the loader is finalized, relocation by        *)
(* relocation.  The first error ends it.                                   *)
(*                                                                         *)
(* A symbol stands for its name.  A relocation is named by the symbol it   *)
(* refers to; what it stores is an address, modelled by what it is the     *)
(* address of.                                                             *)
(***************************************************************************)
EXTENDS Integers, Sequences, FiniteSetsExt

CONSTANTS
  CodeObjects,
  Symbols,
  Defines,     \* Defines[c]: the global symbols c's .dynsym defines
  Uses,        \* Uses[c]: the symbols c's relocations refer to
  Listed,      \* code objects whose lookups find undefined symbols too: not
               \* stripped (.symtab), or with a SysV hash section only
  InPlace,     \* code objects with REL sections, whose addends are the words
               \* they relocate
  Malformed,   \* code objects the constructor cannot parse or allocate
  ExternalAddresses,  \* of external symbols; 0 is the null pointer
  MaxLoads

\* What the constants must satisfy.
ASSUME MockLoaderAssumption ==
  /\ Defines \in [CodeObjects -> SUBSET Symbols] /\ Uses \in [CodeObjects -> SUBSET Symbols]
  /\ ExternalAddresses \subseteq Nat /\ MaxLoads \in Nat
  /\ Listed \subseteq CodeObjects /\ InPlace \subseteq CodeObjects

VARIABLES
  loading,    \* stage of the pass; IsFinalized is loading = "finalized"
  lcos,       \* LoadedCodeObjects
  externals,  \* ExternalSymbols
  image,      \* image[i][s]: the word that the i-th object's relocation
              \* against s patches
  cursor,     \* the code object, and the walk over its relocations
  pending     \* relocations of this walk not applied yet

loaderVars == <<loading, lcos, externals, image, cursor, pending>>

-----------------------------------------------------------------------------
DynSym(c) == Defines[c] \cup Uses[c]
Positions == 1..Len(lcos)

\* lookupSymbolByName: the hash section, then the symbol table.
Lookup(c, s) ==
  CASE s \in Defines[c] -> "definition"
    [] s \in Uses[c] \ Defines[c] /\ c \in Listed -> "undefined"
    [] OTHER -> "none"

Finders(s) == {i \in Positions : Lookup(lcos[i], s) # "none"}

Unresolved == [by |-> "nothing", of |-> 0]

\* The address a relocation of the i-th object against s resolves to: the
\* first code object that knows the name, or else the external symbol.  An
\* undefined symbol's own value is zero, so it is its object's load base.
Resolve(i, s) ==
  CASE s \in Defines[lcos[i]] -> [by |-> "definition", of |-> i]
    [] s \notin Defines[lcos[i]] /\ Finders(s) # {} ->
         LET j == Min(Finders(s)) IN [by |-> Lookup(lcos[j], s), of |-> j]
    [] s \notin Defines[lcos[i]] /\ Finders(s) = {} /\ s \in DOMAIN externals ->
         IF externals[s] = 0 THEN Unresolved
                             ELSE [by |-> "external", of |-> externals[s]]
    [] OTHER -> Unresolved

\* What is in a word after a relocation: RELA overwrites it, REL adds to it.
Patched(c, word, target) ==
  [target |-> target, times |-> IF c \in InPlace THEN word.times + 1 ELSE 1]

Fresh == [target |-> Unresolved, times |-> 0]

LoaderInit ==
  /\ loading = "open"
  /\ lcos = <<>>
  /\ externals = <<>>
  /\ image = <<>>
  /\ cursor = [lco |-> 0, walk |-> 2]
  /\ pending = {}

-----------------------------------------------------------------------------
Clashes(c) ==
  {s \in DynSym(c) : Finders(s) # {} \/ s \in DOMAIN externals}

Emplace(c) ==
  /\ Len(lcos) < MaxLoads
  /\ lcos' = Append(lcos, c)
  /\ image' = Append(image, [s \in Uses[c] |-> Fresh])

LoadCodeObject(c) ==
  /\ loading = "open"
  /\ c \notin Malformed
  /\ Clashes(c) = {}
  /\ Emplace(c)
  /\ UNCHANGED <<loading, externals, cursor, pending>>

\* The constructor fails, but the object is in LoadedCodeObjects already.
LoadClashes(c) ==
  /\ loading = "open"
  /\ c \notin Malformed
  /\ Clashes(c) # {}
  /\ Emplace(c)
  /\ loading' = "failed"
  /\ UNCHANGED <<externals, cursor, pending>>

LoadMalformed(c) ==
  /\ loading = "open"
  /\ c \in Malformed
  /\ Emplace(c)
  /\ loading' = "failed"
  /\ UNCHANGED <<externals, cursor, pending>>

DefineExternalSymbol(s, a) ==
  /\ loading = "open"
  /\ s \notin DOMAIN externals
  /\ externals' = [x \in DOMAIN externals \cup {s} |->
                     IF x = s THEN a ELSE externals[x]]
  /\ UNCHANGED <<loading, lcos, image, cursor, pending>>

DefineAgain(s) ==
  /\ loading = "open"
  /\ s \in DOMAIN externals
  /\ loading' = "failed"
  /\ UNCHANGED <<lcos, externals, image, cursor, pending>>

-----------------------------------------------------------------------------
Finalize ==
  /\ loading = "open"
  /\ loading' = "relocating"
  /\ UNCHANGED <<lcos, externals, image, cursor, pending>>

LastWalk == cursor = [lco |-> Len(lcos), walk |-> 2]

\* A dynamic relocation section is visited as a section of the file, and again
\* as a dynamic relocation section.
NextWalk ==
  /\ loading = "relocating"
  /\ pending = {}
  /\ ~LastWalk
  /\ cursor' = IF cursor.walk = 1 THEN [cursor EXCEPT !.walk = 2]
               ELSE [lco |-> cursor.lco + 1, walk |-> 1]
  /\ pending' = Uses[lcos[cursor'.lco]]
  /\ UNCHANGED <<loading, lcos, externals, image>>

\* Faulty: an external symbol hides the code objects' definitions.
ApplyRelocationExternalFirst(s) ==
  /\ loading = "relocating"
  /\ s \in pending
  /\ LET i == cursor.lco
         target == IF s \in DOMAIN externals
                   THEN [by |-> "external", of |-> externals[s]]
                   ELSE Resolve(i, s)
     IN /\ target # Unresolved
        /\ image' = [image EXCEPT ![i][s] = Patched(lcos[i], @, target)]
  /\ pending' = pending \ {s}
  /\ UNCHANGED <<loading, lcos, externals, cursor>>

ApplyRelocation(s) ==
  /\ loading = "relocating"
  /\ s \in pending
  /\ LET i == cursor.lco
     IN /\ Resolve(i, s) # Unresolved
        /\ image' = [image EXCEPT ![i][s] = Patched(lcos[i], @, Resolve(i, s))]
  /\ pending' = pending \ {s}
  /\ UNCHANGED <<loading, lcos, externals, cursor>>

\* "Relocation symbol address is zero": the images stay half relocated.
RelocationFails(s) ==
  /\ loading = "relocating"
  /\ s \in pending
  /\ Resolve(cursor.lco, s) = Unresolved
  /\ loading' = "failed"
  /\ UNCHANGED <<lcos, externals, image, cursor, pending>>

FinalizeDone ==
  /\ loading = "relocating"
  /\ pending = {}
  /\ LastWalk
  /\ loading' = "finalized"
  /\ UNCHANGED <<lcos, externals, image, cursor, pending>>

\* The pass has returned.
Over == loading \in {"finalized", "failed"} /\ UNCHANGED loaderVars

LoaderNext ==
  \/ \E c \in CodeObjects :
       LoadCodeObject(c) \/ LoadClashes(c) \/ LoadMalformed(c)
  \/ \E s \in Symbols :
       \/ \E a \in ExternalAddresses : DefineExternalSymbol(s, a)
       \/ DefineAgain(s) \/ ApplyRelocation(s) \/ RelocationFails(s)
  \/ Finalize \/ NextWalk \/ FinalizeDone
  \/ Over

LoaderSpec == LoaderInit /\ [][LoaderNext]_loaderVars

-----------------------------------------------------------------------------
\* Loaded without an error.
Good == IF loading = "failed" /\ cursor.lco = 0 /\ lcos # <<>>
        THEN 1..(Len(lcos) - 1) ELSE Positions

(***************************************************************************)
(* No two loaded code objects define the same symbol, whatever was loaded  *)
(* and defined in whatever order: a name means one thing.                  *)
(***************************************************************************)
UniqueDefinition ==
  \A i, j \in Good : i # j => Defines[lcos[i]] \cap Defines[lcos[j]] = {}

(***************************************************************************)
(* Finalization binds every relocation exactly once, to the one definition *)
(* of its symbol among the code objects if there is one and to the         *)
(* external symbol if there is none, independently of the order of loading *)
(* - given RELA sections, and no code object that lists the symbol as      *)
(* undefined.                                                              *)
(***************************************************************************)
Definers(s) == {j \in Positions : s \in Defines[lcos[j]]}
ListedBy(s) == {j \in Positions : lcos[j] \in Listed /\ s \in Uses[lcos[j]]}

BoundOnce ==
  loading = "finalized" =>
    \A i \in Positions : \A s \in Uses[lcos[i]] :
      lcos[i] \notin InPlace =>
        LET target == image[i][s].target
        IN /\ image[i][s].times = 1
           /\ Definers(s) # {} => target.by = "definition" /\ Definers(s) = {target.of}
           /\ Definers(s) \cup ListedBy(s) = {} =>
                s \in DOMAIN externals /\ target = [by |-> "external", of |-> externals[s]]

\* No name means two things, and every relocation is bound to what its name means.
BoundToDefinition == UniqueDefinition /\ BoundOnce

=============================================================================
